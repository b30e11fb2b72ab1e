---------------------------- MODULE CircuitBreaker ----------------------------
(***************************************************************************)
(* The circuit that app/services/cache.py and app/services/rate_limiter.py *)
(* each keep, per process, in front of their Redis server.  A thread looks *)
(* at the circuit, sends its command, and records the outcome; a failure   *)
(* is stamped with the clock before the lock is taken, so that stamps can  *)
(* be recorded out of order.  A readiness probe that reaches Redis resets  *)
(* the circuit, some time after Redis answered it.                         *)
(***************************************************************************)
EXTENDS Integers, Sequences

CONSTANTS
    Thread,             \* the threads of one process
    Cooldown,           \* _FAILURE_COOLDOWN_SECONDS
    WarningInterval,    \* _WARNING_INTERVAL_SECONDS
    MaxTime,            \* bound: the clock stops there
    MaxResets           \* bound: readiness probes that reset the circuit

ASSUME SettingsAssumption ==
    /\ Cooldown \in Nat \ {0} /\ WarningInterval \in Nat \ {0}
    /\ MaxTime \in Nat /\ MaxResets \in Nat

VARIABLES
    now,                \* monotonic()
    until,              \* _unavailable_until
    lastWarning,        \* _last_warning_at
    pc, stamp           \* where each thread is; its variable now

VARIABLES               \* observations
    failures,           \* stamps recorded since the circuit was last closed
    resets,             \* how often it was reset
    log                 \* the warnings written, each with the resets before it

vars == <<now, until, lastWarning, pc, stamp, failures, resets, log>>

\* float("-inf"): every clock value is at least WarningInterval after it.
Never == -WarningInterval

TypeOK ==
    /\ now \in Nat /\ until \in Nat /\ lastWarning \in Nat \cup {Never}
    /\ pc \in [Thread -> {"idle", "calling", "answered", "failed", "probed"}]
    /\ stamp \in [Thread -> Nat]
    /\ failures \subseteq Nat /\ resets \in Nat
    /\ log \in Seq([at : Nat, epoch : Nat])

Init ==
    /\ now = 0 /\ until = 0 /\ lastWarning = Never
    /\ pc = [t \in Thread |-> "idle"] /\ stamp = [t \in Thread |-> 0]
    /\ failures = {} /\ resets = 0 /\ log = <<>>

Move(t, from, to) == pc[t] = from /\ pc' = [pc EXCEPT ![t] = to]

\* _attempt_allowed; a thread that is refused goes on without Redis.
Attempt(t) ==
    /\ now >= until
    /\ Move(t, "idle", "calling")
    /\ UNCHANGED <<now, until, lastWarning, stamp, failures, resets, log>>

CallSucceeds(t) ==
    /\ Move(t, "calling", "answered")
    /\ UNCHANGED <<now, until, lastWarning, stamp, failures, resets, log>>

RecordSuccess(t) ==
    /\ Move(t, "answered", "idle")
    /\ until' = 0 /\ failures' = {}
    /\ UNCHANGED <<now, lastWarning, stamp, resets, log>>

\* The command fails or times out; the clock is read, the lock not yet taken.
CallFails(t) ==
    /\ Move(t, "calling", "failed")
    /\ stamp' = [stamp EXCEPT ![t] = now]
    /\ UNCHANGED <<now, until, lastWarning, failures, resets, log>>

\* Mutants: the deadline of the last failure recorded; one that adds up.
JustStamped(s) == s + Cooldown
AddedUp(s) == IF until > s THEN until + Cooldown ELSE s + Cooldown
\* The new deadline after a failure stamped s.
Deadline(s) == IF until > s + Cooldown THEN until ELSE s + Cooldown

\* Mutant: the interval is measured the wrong way round.
WarnEither(s) == s - lastWarning >= WarningInterval \/ lastWarning > s
ShouldLog(s) == s - lastWarning >= WarningInterval

RecordFailure(t) ==
    LET s == stamp[t] IN
    /\ Move(t, "failed", "idle")
    /\ until' = Deadline(s) /\ failures' = failures \cup {s}
    /\ IF ShouldLog(s)
       THEN /\ lastWarning' = s
            /\ log' = Append(log, [at |-> s, epoch |-> resets])
       ELSE UNCHANGED <<lastWarning, log>>
    /\ stamp' = [stamp EXCEPT ![t] = 0]
    /\ UNCHANGED <<now, resets>>

\* The readiness probe: Redis answers, and later the circuit is reset.
ProbeSucceeds(t) ==
    /\ resets < MaxResets
    /\ Move(t, "idle", "probed")
    /\ UNCHANGED <<now, until, lastWarning, stamp, failures, resets, log>>

Reset(t) ==
    /\ Move(t, "probed", "idle")
    /\ until' = 0 /\ lastWarning' = Never /\ failures' = {}
    /\ resets' = resets + 1
    /\ UNCHANGED <<now, stamp, log>>

Tick ==
    /\ now < MaxTime
    /\ now' = now + 1
    /\ UNCHANGED <<until, lastWarning, pc, stamp, failures, resets, log>>

Next ==
    \/ Tick
    \/ \E t \in Thread :
          \/ Attempt(t) \/ CallSucceeds(t) \/ RecordSuccess(t)
          \/ CallFails(t) \/ RecordFailure(t)
          \/ ProbeSucceeds(t) \/ Reset(t)

Spec == Init /\ [][Next]_vars

-----------------------------------------------------------------------------

\* No thread tries Redis within Cooldown of a failure, in whatever order the
\* failures were recorded, unless a success or a reset came in between.
NoAttemptDuringCooldown ==
    [][\A t \in Thread :
          pc[t] = "idle" /\ pc'[t] = "calling" =>
              \A s \in failures : now >= s + Cooldown]_vars

\* The circuit opens for at most Cooldown from now: failures recorded late or
\* together do not add up, and Redis is tried again.
CooldownBounded == until <= now + Cooldown

\* Between two resets, warnings are WarningInterval apart, also when several
\* threads fail at once and record their failures out of order.
WarningsSpaced ==
    \A i, j \in 1 .. Len(log) :
        i < j /\ log[i].epoch = log[j].epoch
            => log[j].at - log[i].at >= WarningInterval

\* The circuit is a gate: attempts pass only while it is closed, it closes only
\* by the clock, by a success under way or by a reset, and a failure recorded
\* late, with an old stamp, never closes it.
Gate == INSTANCE CircuitGate WITH open <- now < until

ImplementsGate == Gate!Spec
=============================================================================
