-------------------------- MODULE CircuitBreakerProofs --------------------------
(***************************************************************************)
(* Theorems about CircuitBreaker, for any number of threads, any cooldown  *)
(* and warning interval, and a clock that never stops.                     *)
(***************************************************************************)
EXTENDS CircuitBreaker, SequenceTheorems, TLAPS

\* A failure is stamped with a time that has passed, and the circuit stays
\* closed to attempts for Cooldown after every failure it remembers.
StampsPassed == \A t \in Thread : stamp[t] <= now
DeadlinesKept == \A s \in failures : s + Cooldown <= until

\* lastWarning is the latest of the warnings since the last reset.
LogDated ==
    \A i \in 1 .. Len(log) :
        /\ log[i].epoch <= resets
        /\ log[i].epoch = resets => log[i].at <= lastWarning

CircuitInv ==
    TypeOK /\ StampsPassed /\ CooldownBounded /\ DeadlinesKept /\ LogDated
           /\ WarningsSpaced

\* An entry of the log is a dated warning.
LEMMA EntryType ==
    ASSUME CircuitInv, NEW i \in 1 .. Len(log)
    PROVE  log[i].at \in Nat /\ log[i].epoch \in Nat
<1>1. log \in Seq([at : Nat, epoch : Nat])
  BY DEF CircuitInv, TypeOK
<1>2. log[i] \in [at : Nat, epoch : Nat]
  BY <1>1, ElementOfSeq
<1> QED
  BY <1>2

\* The invariant holds initially.
LEMMA InitInv == Init => CircuitInv
BY SettingsAssumption
DEF Init, CircuitInv, TypeOK, StampsPassed, CooldownBounded, DeadlinesKept,
    LogDated, WarningsSpaced, Never

\* A step that only moves a thread keeps the invariant.
LEMMA MoveInv ==
    ASSUME CircuitInv, NEW t \in Thread, NEW from,
           NEW to \in {"idle", "calling", "answered", "failed", "probed"},
           Move(t, from, to), StampsPassed', stamp' \in [Thread -> Nat],
           UNCHANGED <<now, until, lastWarning, failures, resets, log>>
    PROVE  CircuitInv'
BY DEF CircuitInv, Move, TypeOK, CooldownBounded, DeadlinesKept, LogDated,
       WarningsSpaced

\* Recording a failure: deadlines only move forward, by at most Cooldown from
\* now, and a warning is written only long enough after the last one.
LEMMA RecordFailureInv ==
    ASSUME CircuitInv, NEW t \in Thread, RecordFailure(t)
    PROVE  CircuitInv'
<1> DEFINE s == stamp[t]
<1>1. s \in Nat /\ s <= now /\ now \in Nat /\ until \in Nat /\ Cooldown \in Nat
  BY SettingsAssumption DEF CircuitInv, TypeOK, StampsPassed
<1>2. /\ until' \in Nat /\ until' >= until /\ until' >= s + Cooldown
      /\ until' <= now + Cooldown
  BY <1>1 DEF RecordFailure, Deadline, CircuitInv, CooldownBounded
<1>3. CooldownBounded' /\ DeadlinesKept'
  BY <1>1, <1>2 DEF RecordFailure, CircuitInv, CooldownBounded, DeadlinesKept, TypeOK
<1>4. /\ pc' \in [Thread -> {"idle", "calling", "answered", "failed", "probed"}]
      /\ stamp' \in [Thread -> Nat] /\ failures' \subseteq Nat /\ StampsPassed'
  <2>1. /\ pc' = [pc EXCEPT ![t] = "idle"] /\ stamp' = [stamp EXCEPT ![t] = 0]
        /\ failures' = failures \cup {s} /\ now' = now
    BY DEF RecordFailure, Move
  <2>2. StampsPassed'
    BY <1>1, <2>1 DEF CircuitInv, TypeOK, StampsPassed
  <2> QED
    BY <1>1, <2>1, <2>2 DEF CircuitInv, TypeOK
<1>5. CASE ~ShouldLog(s)
  <2>1. UNCHANGED <<now, resets, lastWarning, log>>
    BY <1>5 DEF RecordFailure
  <2> QED
    BY <1>2, <1>3, <1>4, <2>1 DEF CircuitInv, TypeOK, LogDated, WarningsSpaced
<1>6. CASE ShouldLog(s)
  <2> DEFINE e == [at |-> s, epoch |-> resets]
  <2>1. /\ lastWarning' = s /\ log' = Append(log, e)
        /\ UNCHANGED <<now, resets>>
    BY <1>6 DEF RecordFailure
  <2>2. /\ log \in Seq([at : Nat, epoch : Nat]) /\ e \in [at : Nat, epoch : Nat]
        /\ resets \in Nat
    BY <1>1 DEF CircuitInv, TypeOK
  <2>3. /\ log' \in Seq([at : Nat, epoch : Nat]) /\ Len(log') = Len(log) + 1
        /\ Len(log) \in Nat
        /\ \A i \in 1 .. Len(log) : log'[i] = log[i]
        /\ log'[Len(log) + 1] = e
    BY <2>1, <2>2
  <2>4. /\ s - lastWarning >= WarningInterval /\ WarningInterval \in Nat
        /\ lastWarning \in Int /\ lastWarning <= s
    BY <1>1, <1>6, SettingsAssumption DEF ShouldLog, CircuitInv, TypeOK, Never
  <2>5. \A i \in 1 .. Len(log) :
          /\ log[i].at \in Nat /\ log[i].epoch \in Nat
          /\ log[i].epoch <= resets
          /\ log[i].epoch = resets => log[i].at <= lastWarning
    BY EntryType DEF CircuitInv, LogDated
  <2>6. LogDated'
    <3> SUFFICES ASSUME NEW i \in 1 .. Len(log')
                 PROVE  /\ log'[i].epoch <= resets
                        /\ log'[i].epoch = resets => log'[i].at <= s
      BY <2>1 DEF LogDated
    <3>1. CASE i \in 1 .. Len(log)
      <4>1. /\ log'[i] = log[i] /\ log[i].at \in Nat /\ log[i].epoch <= resets
            /\ log[i].epoch = resets => log[i].at <= lastWarning
        BY <2>3, <2>5, <3>1
      <4> QED
        BY <1>1, <2>4, <4>1
    <3>2. CASE i = Len(log) + 1
      BY <1>1, <2>2, <2>3, <3>2
    <3> QED
      BY <2>3, <3>1, <3>2
  <2>7. WarningsSpaced'
    <3> SUFFICES ASSUME NEW i \in 1 .. Len(log'), NEW j \in 1 .. Len(log'),
                        i < j, log'[i].epoch = log'[j].epoch
                 PROVE  log'[j].at - log'[i].at >= WarningInterval
      BY DEF WarningsSpaced
    <3>1. i \in 1 .. Len(log) /\ log'[i] = log[i]
      <4>1. Len(log') = Len(log) + 1 /\ Len(log) \in Nat
        BY <2>3
      <4>2. i \in 1 .. Len(log)
        BY <4>1
      <4> QED
        BY <2>3, <4>2
    <3>2. CASE j \in 1 .. Len(log)
      BY <2>3, <3>1, <3>2 DEF CircuitInv, WarningsSpaced
    <3>3. CASE j = Len(log) + 1
      <4>1. log'[j].at = s /\ log[i].epoch = resets
        BY <2>3, <3>1, <3>3
      <4>2. log[i].at <= lastWarning /\ log[i].at \in Nat
        BY <2>5, <3>1, <4>1
      <4> QED
        BY <1>1, <2>4, <3>1, <4>1, <4>2
    <3>4. j \in 1 .. Len(log) \/ j = Len(log) + 1
      <4>1. Len(log') = Len(log) + 1 /\ Len(log) \in Nat
        BY <2>3
      <4> QED
        BY <4>1
    <3> QED
      BY <3>2, <3>3, <3>4
  <2> QED
    BY <1>1, <1>2, <1>3, <1>4, <2>1, <2>2, <2>3, <2>6, <2>7
    DEF CircuitInv, TypeOK
<1> QED
  BY <1>5, <1>6

\* Every step keeps the invariant.
LEMMA NextInv == CircuitInv /\ [Next]_vars => CircuitInv'
<1> SUFFICES ASSUME CircuitInv, [Next]_vars PROVE CircuitInv'
  OBVIOUS
<1>1. CASE UNCHANGED vars
  BY <1>1 DEF vars, CircuitInv, TypeOK, StampsPassed, CooldownBounded,
              DeadlinesKept, LogDated, WarningsSpaced
<1>2. CASE Tick
  BY <1>2, SettingsAssumption
  DEF Tick, CircuitInv, TypeOK, StampsPassed, CooldownBounded, DeadlinesKept,
      LogDated, WarningsSpaced
<1>3. ASSUME NEW t \in Thread,
             Attempt(t) \/ CallSucceeds(t) \/ ProbeSucceeds(t)
      PROVE  CircuitInv'
  BY <1>3, MoveInv
  DEF Attempt, CallSucceeds, ProbeSucceeds, CircuitInv, StampsPassed, TypeOK
<1>4. ASSUME NEW t \in Thread, CallFails(t)
      PROVE  CircuitInv'
  BY <1>4, MoveInv DEF CallFails, CircuitInv, StampsPassed, TypeOK
<1>5. ASSUME NEW t \in Thread, RecordSuccess(t)
      PROVE  CircuitInv'
  BY <1>5, SettingsAssumption
  DEF RecordSuccess, Move, CircuitInv, TypeOK, StampsPassed, CooldownBounded,
      DeadlinesKept, LogDated, WarningsSpaced
<1>6. ASSUME NEW t \in Thread, Reset(t)
      PROVE  CircuitInv'
  <2>1. TypeOK' /\ StampsPassed' /\ CooldownBounded' /\ DeadlinesKept'
    BY <1>6, SettingsAssumption
    DEF Reset, Move, CircuitInv, TypeOK, StampsPassed, CooldownBounded,
        DeadlinesKept
  <2>2. LogDated'
    <3> SUFFICES ASSUME NEW i \in 1 .. Len(log)
                 PROVE  log[i].epoch <= resets + 1 /\ log[i].epoch # resets + 1
      BY <1>6 DEF Reset, LogDated
    <3>1. log[i].epoch \in Nat
      BY EntryType
    <3>2. log[i].epoch <= resets /\ resets \in Nat
      BY DEF CircuitInv, LogDated, TypeOK
    <3> QED
      BY <3>1, <3>2
  <2>3. WarningsSpaced'
    BY <1>6 DEF Reset, CircuitInv, WarningsSpaced
  <2> QED
    BY <2>1, <2>2, <2>3 DEF CircuitInv
<1> QED
  BY <1>1, <1>2, <1>3, <1>4, <1>5, <1>6, RecordFailureInv DEF Next

\* The circuit never opens for more than Cooldown from now.
THEOREM CooldownIsBounded == Spec => []CooldownBounded
<1>1. CircuitInv => CooldownBounded
  BY DEF CircuitInv
<1> QED
  BY <1>1, InitInv, NextInv, PTL DEF Spec

\* Warnings between two resets are WarningInterval apart.
THEOREM WarningsAreSpaced == Spec => []WarningsSpaced
<1>1. CircuitInv => WarningsSpaced
  BY DEF CircuitInv
<1> QED
  BY <1>1, InitInv, NextInv, PTL DEF Spec

\* No attempt is made within Cooldown of a remembered failure.
THEOREM CooldownIsKept == Spec => NoAttemptDuringCooldown
<1> DEFINE Kept ==
      \A t \in Thread : pc[t] = "idle" /\ pc'[t] = "calling" =>
          \A s \in failures : now >= s + Cooldown
<1>1. CircuitInv /\ [Next]_vars => [Kept]_vars
  <2> SUFFICES ASSUME CircuitInv, Next PROVE Kept
    BY DEF vars
  <2> SUFFICES ASSUME NEW t \in Thread, pc[t] = "idle", pc'[t] = "calling",
                      NEW s \in failures
               PROVE  now >= s + Cooldown
    OBVIOUS
  <2>1. now >= until
    BY DEF Next, Tick, Attempt, CallSucceeds, RecordSuccess, CallFails,
           RecordFailure, ProbeSucceeds, Reset, Move, CircuitInv, TypeOK
  <2>2. s + Cooldown <= until
    BY DEF CircuitInv, DeadlinesKept
  <2> QED
    BY <2>1, <2>2, SettingsAssumption DEF CircuitInv, TypeOK
<1>2. CircuitInv /\ UNCHANGED vars => [Kept]_vars
  OBVIOUS
<1> QED
  BY <1>1, InitInv, NextInv, PTL DEF Spec, NoAttemptDuringCooldown

\* The circuit's state as the gate sees it.
LEMMA OpenIs == ASSUME CircuitInv, CircuitInv'
                PROVE  /\ now \in Int /\ until \in Int
                       /\ now' \in Int /\ until' \in Int
BY DEF CircuitInv, TypeOK

\* A failure, however old its stamp, never moves the deadline back.
LEMMA DeadlineOnlyGrows ==
    ASSUME CircuitInv, NEW t \in Thread, RecordFailure(t)
    PROVE  until' >= until
BY SettingsAssumption DEF RecordFailure, Deadline, CircuitInv, TypeOK

\* Every step of the circuit is one of the gate, or none.
LEMMA GateStep ==
    CircuitInv /\ CircuitInv' /\ [Next]_vars => [Gate!Next]_(Gate!gate)
<1> SUFFICES ASSUME CircuitInv, CircuitInv', [Next]_vars
             PROVE  Gate!Next \/ UNCHANGED <<now < until, pc>>
  BY DEF Gate!gate
<1> USE OpenIs
<1>1. CASE UNCHANGED vars
  BY <1>1 DEF vars
<1>2. CASE Tick
  <2>1. (now' < until') = FALSE \/ (now' < until') = (now < until)
    BY <1>2 DEF Tick
  <2>2. pc' = pc
    BY <1>2 DEF Tick
  <2> QED
    BY <2>1, <2>2 DEF Gate!Next, Gate!Cool
<1>3. ASSUME NEW t \in Thread, Attempt(t)
      PROVE  Gate!Next
  <2>1. ~(now < until) /\ (now' < until') = (now < until)
    BY <1>3 DEF Attempt
  <2>2. Gate!Move(t, "idle", "calling")
    BY <1>3 DEF Attempt, Move, Gate!Move
  <2> QED
    BY <2>1, <2>2 DEF Gate!Next, Gate!Pass
<1>4. ASSUME NEW t \in Thread,
             CallSucceeds(t) \/ CallFails(t) \/ ProbeSucceeds(t)
      PROVE  Gate!Next
  <2>1. (now' < until') = (now < until)
    BY <1>4 DEF CallSucceeds, CallFails, ProbeSucceeds
  <2>2. \/ Gate!Move(t, "calling", "answered")
        \/ Gate!Move(t, "calling", "failed")
        \/ Gate!Move(t, "idle", "probed")
    BY <1>4 DEF CallSucceeds, CallFails, ProbeSucceeds, Move, Gate!Move
  <2> QED
    BY <2>1, <2>2 DEF Gate!Next, Gate!Learn
<1>5. ASSUME NEW t \in Thread, RecordSuccess(t) \/ Reset(t)
      PROVE  Gate!Next
  <2>1. until' = 0 /\ now' \in Nat
    BY <1>5 DEF RecordSuccess, Reset, CircuitInv, TypeOK
  <2>2. (now' < until') = FALSE
    BY <2>1
  <2>3. Gate!Move(t, "answered", "idle") \/ Gate!Move(t, "probed", "idle")
    BY <1>5 DEF RecordSuccess, Reset, Move, Gate!Move
  <2> QED
    BY <2>2, <2>3 DEF Gate!Next, Gate!Close
<1>6. ASSUME NEW t \in Thread, RecordFailure(t)
      PROVE  Gate!Next
  <2>1. until' >= until /\ now' = now
    BY <1>6, DeadlineOnlyGrows DEF RecordFailure
  <2>2. (now' < until') = (now < until) \/ (now' < until') = TRUE
    BY <2>1
  <2>3. Gate!Move(t, "failed", "idle")
    BY <1>6 DEF RecordFailure, Move, Gate!Move
  <2> QED
    BY <2>2, <2>3 DEF Gate!Next, Gate!Open
<1> QED
  BY <1>1, <1>2, <1>3, <1>4, <1>5, <1>6 DEF Next

\* The circuit implements the gate: nobody passes while it is open, and only
\* the clock, a success under way or a reset closes it.
THEOREM CircuitIsAGate == Spec => ImplementsGate
<1>1. Init => Gate!Init
  <2> SUFFICES ASSUME Init PROVE Gate!Init
    OBVIOUS
  <2>1. now = 0 /\ until = 0 /\ pc = [t \in Thread |-> "idle"]
    BY DEF Init
  <2>2. (now < until) = FALSE
    BY <2>1
  <2> QED
    BY <2>1, <2>2 DEF Gate!Init
<1> QED
  BY <1>1, InitInv, NextInv, GateStep, PTL DEF Spec, ImplementsGate, Gate!Spec
=============================================================================
