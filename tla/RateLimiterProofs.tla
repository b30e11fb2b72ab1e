--------------------------- MODULE RateLimiterProofs ---------------------------
(***************************************************************************)
(* Theorems about RateLimiter, for any keys, limits, windows and clock     *)
(* resolution, and any combination of failures.                            *)
(***************************************************************************)
EXTENDS RateLimiter, FiniteSetTheorems, TLAPS

\* A window is some number of ticks.
LEMMA TicksType == \A k \in Key : Ticks(k) \in Nat \ {0}
<1> SUFFICES ASSUME NEW k \in Key PROVE Ticks(k) \in Nat \ {0}
  OBVIOUS
<1>1. Window[k] \in Nat \ {0} /\ TicksPerSecond \in Nat \ {0}
  BY SettingsAssumption
<1> QED
  BY <1>1 DEF Ticks

\* The script leaves a counter between one and one past the limit, and an
\* expiry of at most a window.
LEMMA ScriptResult ==
    ASSUME CountersOK, NEW k \in Key
    PROVE  /\ Counted(k) \in 1 .. Limit[k] + 1
           /\ NewTtl(k) \in 1 .. Ticks(k)
<1>1. /\ count[k] \in Nat /\ count[k] <= Limit[k] + 1
      /\ ttl[k] \in Nat \cup {NoExpiry} /\ ttl[k] <= Ticks(k)
      /\ count[k] = 0 <=> ttl[k] = 0
      /\ Limit[k] \in Nat \ {0} /\ Ticks(k) \in Nat \ {0}
  BY SettingsAssumption, TicksType DEF CountersOK
<1>2. Counted(k) \in 1 .. Limit[k] + 1
  BY <1>1 DEF Counted, Capped
<1>3. NewTtl(k) \in 1 .. Ticks(k)
  BY <1>1 DEF NewTtl, Found, NoExpiry
<1> QED
  BY <1>2, <1>3

\* The script keeps the counters well formed.
LEMMA ScriptOK ==
    ASSUME CountersOK, NEW k \in Key, Script(k),
           late' \in [Key -> Nat], persists' \in Nat
    PROVE  CountersOK'
<1>1. /\ Counted(k) \in 1 .. Limit[k] + 1 /\ NewTtl(k) \in 1 .. Ticks(k)
      /\ Limit[k] \in Nat /\ Ticks(k) \in Nat
  BY ScriptResult, TicksType, SettingsAssumption
<1>2. count' = [count EXCEPT ![k] = Counted(k)] /\ ttl' = [ttl EXCEPT ![k] = NewTtl(k)]
  BY DEF Script
<1> HIDE DEF Counted, NewTtl
<1>3. count' \in [Key -> Nat] /\ ttl' \in [Key -> Nat \cup {NoExpiry}]
  BY <1>1, <1>2 DEF CountersOK
<1>4. \A j \in Key : /\ count'[j] <= Limit[j] + 1 /\ ttl'[j] <= Ticks(j)
                     /\ count'[j] = 0 <=> ttl'[j] = 0
  BY <1>1, <1>2 DEF CountersOK
<1> QED
  BY <1>3, <1>4 DEF CountersOK, Ticks

\* Time passing keeps the counters well formed: counter and expiry go together.
LEMMA TickOK ==
    ASSUME CountersOK, Tick
    PROVE  CountersOK'
<1>1. \A k \in Key : /\ count[k] \in Nat /\ count[k] <= Limit[k] + 1
                     /\ ttl[k] \in Nat \cup {NoExpiry} /\ ttl[k] <= Ticks(k)
                     /\ count[k] = 0 <=> ttl[k] = 0
                     /\ Limit[k] \in Nat /\ Ticks(k) \in Nat
  BY SettingsAssumption, TicksType DEF CountersOK
<1>2. /\ ttl' = [k \in Key |-> IF ttl[k] > 0 THEN ttl[k] - 1 ELSE ttl[k]]
      /\ count' = [k \in Key |-> IF ttl[k] = 1 THEN 0 ELSE count[k]]
      /\ UNCHANGED <<late, persists>>
  BY DEF Tick
<1>3. \A k \in Key : /\ count'[k] \in Nat /\ count'[k] <= Limit[k] + 1
                     /\ ttl'[k] \in Nat \cup {NoExpiry} /\ ttl'[k] <= Ticks(k)
                     /\ count'[k] = 0 <=> ttl'[k] = 0
  BY <1>1, <1>2 DEF NoExpiry
<1> QED
  BY <1>2, <1>3 DEF CountersOK, Ticks

\* Rounding: the seconds reported are within half a second of what is left.
LEMMA SecondsBound ==
    ASSUME NEW ticks \in Nat
    PROVE  /\ Seconds(ticks) \in Nat
           /\ 2 * ticks <= (2 * Seconds(ticks) + 1) * TicksPerSecond
           /\ Seconds(ticks) * (2 * TicksPerSecond) <= 2 * ticks + TicksPerSecond
<1> DEFINE x == 2 * ticks + TicksPerSecond
           y == 2 * TicksPerSecond
           q == x \div y
<1>1. x \in Nat /\ y \in Nat \ {0} /\ TicksPerSecond \in Nat \ {0}
  BY SettingsAssumption
<1> HIDE DEF x, y
<1>2. q \in Nat /\ q * y <= x /\ x < q * y + y
  BY <1>1, Z3
<1> HIDE DEF q
<1>3. x < q * (2 * TicksPerSecond) + 2 * TicksPerSecond
  BY <1>2 DEF y
<1>4. q * (2 * TicksPerSecond) + TicksPerSecond = (2 * q + 1) * TicksPerSecond
  BY <1>1, <1>2
<1>5. 2 * ticks <= (2 * q + 1) * TicksPerSecond
  BY <1>1, <1>2, <1>3, <1>4 DEF x
<1>6. q * (2 * TicksPerSecond) <= 2 * ticks + TicksPerSecond
  BY <1>2 DEF x, y
<1> QED
  BY <1>2, <1>5, <1>6 DEF Seconds, q, x, y

\* The Retry-After of a refusal: between a second and the window.
LEMMA RetryAfterBound ==
    ASSUME CountersOK, NEW k \in Key
    PROVE  /\ RetryAfter(k) \in 1 .. Window[k]
           /\ 2 * NewTtl(k) <= (2 * RetryAfter(k) + 1) * TicksPerSecond
<1> DEFINE t == NewTtl(k)
           s == Seconds(t)
           T == TicksPerSecond
           W == Window[k]
<1>1. t \in Nat /\ t <= W * T /\ T \in Nat \ {0} /\ W \in Nat \ {0}
  BY ScriptResult, SettingsAssumption, TicksType DEF Ticks
<1>2. /\ s \in Nat /\ 2 * t <= (2 * s + 1) * T
      /\ s * (2 * T) <= 2 * t + T
  BY <1>1, SecondsBound
<1>3. RetryAfter(k) = IF s > 1 THEN s ELSE 1
  BY DEF RetryAfter
<1> HIDE DEF t, s, T, W
<1>4. s <= W
  <2> SUFFICES ASSUME s >= W + 1 PROVE FALSE
    BY <1>1, <1>2
  <2>1. s * (2 * T) >= (W + 1) * (2 * T)
    BY <1>1, <1>2
  <2>2. (W + 1) * (2 * T) = 2 * (W * T) + 2 * T
    BY <1>1
  <2> QED
    BY <1>1, <1>2, <2>1, <2>2
<1>5. (2 * s + 1) * T <= (2 * 1 + 1) * T \/ s > 1
  BY <1>1, <1>2
<1>6. RetryAfter(k) \in 1 .. W
  BY <1>1, <1>2, <1>3, <1>4
<1>7. 2 * t <= (2 * RetryAfter(k) + 1) * T
  BY <1>1, <1>2, <1>3, <1>5
<1> QED
  BY <1>6, <1>7 DEF t, T, W

-----------------------------------------------------------------------------

\* A request that is not decided yet rests on nothing; one that is refused
\* carries an honest Retry-After.
Honest(k, d, left) ==
    /\ d.retry_after \in 1 .. Window[k]
    /\ 2 * left <= (2 * d.retry_after + 1) * TicksPerSecond
BasisOK ==
    /\ basis = [r \in Request |-> basis[r]]
    /\ \A r \in Request :
          /\ pc[r] \in {"gate", "eval"} => basis[r].left = 0
          /\ pc[r] \in {"decided", "429", "503"} /\ ~decision[r].allowed
               => Honest(key[r], decision[r], basis[r].left)
          /\ pc[r] \in {"429", "503"} => ~decision[r].allowed
LimiterInv == CountersOK /\ RequestsOK /\ BasisOK

\* Both kinds of decision are well typed, and their refusals honest.
LEMMA DecideOK ==
    ASSUME CountersOK, NEW k \in Key
    PROVE  /\ Decide(k) \in Decision
           /\ ~Decide(k).allowed => Honest(k, Decide(k), NewTtl(k))
<1>1. /\ Counted(k) \in Nat /\ Limit[k] \in Nat
      /\ RetryAfter(k) \in 1 .. Window[k] /\ Window[k] \in Nat
      /\ 2 * NewTtl(k) <= (2 * RetryAfter(k) + 1) * TicksPerSecond
  BY ScriptResult, RetryAfterBound, SettingsAssumption
<1>2. Within(k) \in BOOLEAN /\ Remaining(k) \in Nat
  BY <1>1 DEF Within, Remaining
<1>3. RetryAfter(k) \in Nat
  BY <1>1
<1>4. Decide(k) \in Decision
  BY <1>2, <1>3 DEF Decide, Decision
<1>5. ~Decide(k).allowed => Decide(k).retry_after = RetryAfter(k)
  BY DEF Decide
<1> QED
  BY <1>1, <1>4, <1>5 DEF Honest

\* Without Redis, a refusal asks the client to wait for the whole window.
LEMMA UnavailableOK ==
    ASSUME NEW k \in Key
    PROVE  /\ Unavailable(k) \in Decision
           /\ ~Unavailable(k).available
           /\ ~Unavailable(k).allowed => Honest(k, Unavailable(k), 0)
<1>1. /\ Limit[k] \in Nat /\ Window[k] \in Nat \ {0} /\ FailOpen \in BOOLEAN
      /\ TicksPerSecond \in Nat
  BY SettingsAssumption
<1>2. 0 <= (2 * Window[k] + 1) * TicksPerSecond
  BY <1>1
<1> QED
  BY <1>1, <1>2 DEF Unavailable, Decision, Honest

\* A step that decides request r, with what Redis knew, keeps the requests
\* well formed.
LEMMA DecidedOK ==
    ASSUME LimiterInv, NEW r \in Request, NEW d \in Decision, NEW b,
           pc' = [pc EXCEPT ![r] = "decided"], key' = key,
           decision' = [decision EXCEPT ![r] = d],
           basis' = [basis EXCEPT ![r] = b],
           ~d.allowed => Honest(key[r], d, b.left)
    PROVE  RequestsOK' /\ BasisOK'
<1>1. RequestsOK'
  BY DEF LimiterInv, RequestsOK
<1>2. /\ pc'[r] = "decided" /\ decision'[r] = d /\ basis'[r] = b
      /\ basis' = [q \in Request |-> basis'[q]]
  BY DEF LimiterInv, RequestsOK, BasisOK
<1>3. \A q \in Request \ {r} : /\ pc'[q] = pc[q] /\ decision'[q] = decision[q]
                               /\ basis'[q] = basis[q]
  BY DEF LimiterInv, RequestsOK, BasisOK
<1> QED
  BY <1>1, <1>2, <1>3 DEF LimiterInv, BasisOK, Honest

\* Giving up keeps the requests well formed.
LEMMA GiveUpOK ==
    ASSUME LimiterInv, NEW r \in Request, GiveUp(r), pc[r] \in {"gate", "eval"}
    PROVE  RequestsOK' /\ BasisOK'
<1>1. /\ key[r] \in Key /\ basis[r].left = 0
      /\ basis = [basis EXCEPT ![r] = basis[r]]
  BY DEF LimiterInv, RequestsOK, BasisOK
<1> QED
  BY <1>1, UnavailableOK, DecidedOK DEF GiveUp

\* The initial state.
LEMMA InitInv == Init => LimiterInv
<1>1. \A k \in Key : Limit[k] \in Nat /\ Ticks(k) \in Nat
  BY SettingsAssumption, TicksType
<1> QED
  BY <1>1 DEF Init, LimiterInv, CountersOK, RequestsOK, BasisOK, Undecided,
              NoBasis, Decision

\* The steps of a request keep the invariant.
LEMMA RequestStep ==
    ASSUME LimiterInv, NEW r \in Request,
           \/ \E k \in Key : Begin(r, k)
           \/ Permit(r) \/ Eval(r) \/ FailFast(r) \/ EvalLost(r) \/ Enforce(r)
    PROVE  LimiterInv'
<1>1. ASSUME NEW k \in Key, Begin(r, k)
      PROVE  LimiterInv'
  <2>1. Undecided \in Decision /\ Disabled(k) \in Decision /\ Disabled(k).allowed
    BY SettingsAssumption DEF Undecided, Disabled, Decision
  <2>2. CountersOK' /\ RequestsOK'
    BY <1>1, <2>1 DEF Begin, LimiterInv, CountersOK, RequestsOK, Ticks
  <2>3. \A q \in Request \ {r} : /\ pc'[q] = pc[q] /\ key'[q] = key[q]
                                 /\ decision'[q] = decision[q]
                                 /\ basis'[q] = basis[q]
    BY <1>1 DEF Begin, LimiterInv, RequestsOK, BasisOK
  <2>4. /\ pc'[r] = "gate" \/ (pc'[r] = "decided" /\ decision'[r].allowed)
        /\ basis'[r].left = 0 /\ basis' = [q \in Request |-> basis'[q]]
    BY <1>1, <2>1 DEF Begin, LimiterInv, RequestsOK, BasisOK, NoBasis
  <2>5. BasisOK'
    BY <2>3, <2>4 DEF LimiterInv, BasisOK, Honest
  <2> QED
    BY <2>2, <2>5 DEF LimiterInv
<1>2. CASE Permit(r)
  BY <1>2 DEF Permit, LimiterInv, CountersOK, RequestsOK, BasisOK, Honest, Ticks
<1>3. CASE Eval(r)
  <2> DEFINE k == key[r]
             b == [left |-> NewTtl(k), busy |-> Cardinality(recent[k])]
  <2>1. k \in Key /\ late' \in [Key -> Nat] /\ persists' \in Nat /\ Script(k)
    BY <1>3 DEF Eval, LimiterInv, CountersOK, RequestsOK
  <2>2. CountersOK'
    BY <2>1, ScriptOK DEF LimiterInv
  <2>3. Decide(k) \in Decision /\ (~Decide(k).allowed => Honest(k, Decide(k), b.left))
    BY <2>1, DecideOK DEF LimiterInv
  <2> HIDE DEF b
  <2>4. RequestsOK' /\ BasisOK'
    BY <1>3, <2>1, <2>3, DecidedOK DEF Eval, b
  <2> QED
    BY <2>2, <2>4 DEF LimiterInv
<1>4. CASE FailFast(r)
  BY <1>4, GiveUpOK DEF FailFast, GiveUp, LimiterInv, CountersOK, Ticks
<1>5. CASE EvalLost(r)
  <2>1. /\ key[r] \in Key /\ persists' \in Nat /\ late' \in [Key -> Nat]
        /\ Script(key[r]) \/ UNCHANGED <<count, ttl>>
    BY <1>5 DEF EvalLost, GiveUp, LimiterInv, RequestsOK, CountersOK
  <2>2. CountersOK'
    BY <2>1, ScriptOK DEF LimiterInv, CountersOK, Ticks
  <2> QED
    BY <1>5, <2>2, GiveUpOK DEF EvalLost, LimiterInv
<1>6. CASE Enforce(r)
  <2>1. /\ Outcome(decision[r]) \in {"served", "429", "503"}
        /\ Outcome(decision[r]) # "served" => ~decision[r].allowed
    BY DEF Outcome
  <2>2. CountersOK' /\ RequestsOK'
    BY <1>6, <2>1 DEF Enforce, LimiterInv, CountersOK, RequestsOK, Ticks
  <2>3. /\ pc'[r] = Outcome(decision[r]) /\ pc[r] = "decided"
        /\ \A q \in Request \ {r} : pc'[q] = pc[q]
        /\ UNCHANGED <<key, decision, basis>>
    BY <1>6 DEF Enforce, LimiterInv, RequestsOK
  <2>4. BasisOK'
    BY <2>1, <2>3 DEF LimiterInv, BasisOK, Honest
  <2> QED
    BY <2>2, <2>4 DEF LimiterInv
<1> QED
  BY <1>1, <1>2, <1>3, <1>4, <1>5, <1>6

\* Every step keeps the invariant.
LEMMA NextInv == LimiterInv /\ [Next]_vars => LimiterInv'
<1> SUFFICES ASSUME LimiterInv, [Next]_vars PROVE LimiterInv'
  OBVIOUS
<1>1. CASE UNCHANGED vars
  BY <1>1 DEF vars, LimiterInv, CountersOK, RequestsOK, BasisOK, Honest, Ticks
<1>2. ASSUME NEW k \in Key, Late(k)
      PROVE  LimiterInv'
  <2>1. Script(k) /\ late' \in [Key -> Nat] /\ persists' \in Nat
    BY <1>2 DEF Late, LimiterInv, CountersOK
  <2>2. CountersOK'
    BY <2>1, ScriptOK DEF LimiterInv
  <2> QED
    BY <1>2, <2>2 DEF Late, LimiterInv, RequestsOK, BasisOK, Honest
<1>3. ASSUME NEW k \in Key, Persist(k)
      PROVE  LimiterInv'
  <2>1. Limit[k] \in Nat /\ Ticks(k) \in Nat
    BY SettingsAssumption, TicksType
  <2>2. CountersOK'
    BY <1>3, <2>1 DEF Persist, LimiterInv, CountersOK, Ticks, NoExpiry
  <2> QED
    BY <1>3, <2>2 DEF Persist, LimiterInv, RequestsOK, BasisOK, Honest
<1>4. CASE Tick
  BY <1>4, TickOK DEF Tick, LimiterInv, RequestsOK, BasisOK, Honest
<1> QED
  BY <1>1, <1>2, <1>3, <1>4, RequestStep DEF Next

\* A counter exists exactly while it has an expiry to come, or lost it; it is
\* never more than a window away from its end.
THEOREM CountersCorrect == Spec => []CountersOK
<1>1. LimiterInv => CountersOK
  BY DEF LimiterInv
<1> QED
  BY <1>1, InitInv, NextInv, PTL DEF Spec

\* Retry-After is honest, for every limit, window and resolution of the clock.
THEOREM RetryAfterHonest == Spec => []RetryAfterIsHonest
<1>1. LimiterInv => RetryAfterIsHonest
  <2> SUFFICES ASSUME LimiterInv, NEW r \in Request, pc[r] \in {"429", "503"}
               PROVE  LET d == decision[r].retry_after IN
                      /\ 1 <= d /\ d <= Window[key[r]]
                      /\ 2 * basis[r].left <= (2 * d + 1) * TicksPerSecond
    BY DEF RetryAfterIsHonest
  <2>1. Honest(key[r], decision[r], basis[r].left)
    BY DEF LimiterInv, BasisOK
  <2>2. Window[key[r]] \in Nat
    BY SettingsAssumption DEF LimiterInv, RequestsOK
  <2> QED
    BY <2>1, <2>2 DEF Honest
<1> QED
  BY <1>1, InitInv, NextInv, PTL DEF Spec

\* Every script that is answered leaves an expiry behind, also on a counter
\* that had lost its own.
THEOREM ExpiryIsLeft == Spec => ScriptLeavesExpiry
<1> DEFINE Left ==
      \A r \in Request :
          pc[r] = "eval" /\ pc'[r] = "decided" /\ decision'[r].available
              => ttl'[key[r]] > 0
<1>1. LimiterInv /\ [Next]_vars => [Left]_vars
  <2> SUFFICES ASSUME LimiterInv, Next,
                      NEW r \in Request, pc[r] = "eval", pc'[r] = "decided",
                      decision'[r].available
               PROVE  ttl'[key[r]] > 0
    OBVIOUS
  <2>1. PICK q \in Request : Eval(q) \/ EvalLost(q) \/ FailFast(q)
                              \/ (\E k \in Key : Begin(q, k)) \/ Permit(q)
                              \/ Enforce(q)
    BY DEF Next, Tick, Late, Persist
  <2>2. q = r
    BY <2>1 DEF Eval, EvalLost, FailFast, GiveUp, Begin, Permit, Enforce,
                LimiterInv, RequestsOK
  <2>3. Eval(r) \/ EvalLost(r)
    BY <2>1, <2>2 DEF FailFast, Begin, Idle, Permit, Enforce
  <2>4. ~EvalLost(r)
    BY UnavailableOK DEF EvalLost, GiveUp, LimiterInv, RequestsOK
  <2>5. key[r] \in Key /\ ttl' = [ttl EXCEPT ![key[r]] = NewTtl(key[r])]
    BY <2>3, <2>4 DEF Eval, Script, LimiterInv, RequestsOK
  <2>6. NewTtl(key[r]) \in Nat \ {0}
    BY <2>5, ScriptResult, TicksType DEF LimiterInv
  <2> QED
    BY <2>5, <2>6 DEF LimiterInv, CountersOK
<1> QED
  BY <1>1, InitInv, NextInv, PTL DEF Spec, ScriptLeavesExpiry
-----------------------------------------------------------------------------
(* The quota.  The grants that count against it fall into those of the      *)
(* counter that lives and those of the one before it: a counter lives for   *)
(* a window, so grants of an earlier one are forgotten when it ends.         *)

GrantsOK ==
    /\ recent \in [Key -> SUBSET Grant]
    /\ \A k \in Key : IsFiniteSet(recent[k])

\* Of the grants R, at most Limit are old, which means a window old when the
\* counter (n, with t to its expiry) ends; and no more than n or Limit are not.
Bounded(k, R, n, t) ==
    \E old \in SUBSET R :
        /\ Cardinality(old) <= Limit[k]
        /\ Cardinality(R \ old) <= n /\ Cardinality(R \ old) <= Limit[k]
        /\ n > 0 /\ t # NoExpiry => \A g \in old : Ticks(k) <= g.age + t

\* Of the grants R, as many as the counter says, up to Limit, are as young as
\* the counter.
Used(k, R, n, t) ==
    \E own \in SUBSET R :
        /\ n <= Limit[k] => Cardinality(own) >= n
        /\ Cardinality(own) >= Limit[k] \/ n <= Limit[k]
        /\ n > 0 => \A g \in own : g.age + t <= Ticks(k)

BoundedInv == ~FailOpen => \A k \in Key : Bounded(k, recent[k], count[k], ttl[k])
UsedInv ==
    persists = 0 =>
        \A k \in Key : ttl[k] # NoExpiry /\ Used(k, recent[k], count[k], ttl[k])

\* What a refusal for the quota has seen.
BusyInv ==
    /\ basis \in [Request -> [left : Nat, busy : Nat]]
    /\ \A r \in Request :
          /\ pc[r] = "429" => ~decision[r].allowed /\ decision[r].available
          /\ pc[r] \in {"decided", "429"} /\ ~decision[r].allowed
                /\ decision[r].available
               => basis[r].busy >= Limit[key[r]] \/ persists > 0

QuotaInv == LimiterInv /\ GrantsOK /\ BoundedInv /\ UsedInv /\ BusyInv

\* There is always a number left for a grant.
LEMMA FreshIsNew ==
    ASSUME GrantsOK, NEW k \in Key
    PROVE  Fresh(k) \in Grant /\ Fresh(k).age = 0 /\ Fresh(k) \notin recent[k]
<1> DEFINE R == recent[k]
           c == Cardinality(R)
           N == {g.no : g \in R}
           f == [g \in R |-> g.no]
<1>1. IsFiniteSet(R) /\ R \subseteq Grant /\ c \in Nat
  BY FS_CardinalityType DEF GrantsOK
<1>2. IsFiniteSet(N) /\ Cardinality(N) <= c
  <2>1. f \in Surjection(R, N)
    BY DEF Surjection
  <2> HIDE DEF f, N, R
  <2> QED BY <1>1, <2>1, FS_Surjection DEF c
<1>3. \E n \in 0 .. c : [age |-> 0, no |-> n] \notin R
  <2> SUFFICES ASSUME \A n \in 0 .. c : [age |-> 0, no |-> n] \in R
               PROVE  FALSE
    OBVIOUS
  <2>1. 0 .. c \subseteq N
    <3> SUFFICES ASSUME NEW n \in 0 .. c PROVE n \in N
      OBVIOUS
    <3>1. [age |-> 0, no |-> n] \in R /\ [age |-> 0, no |-> n].no = n
      OBVIOUS
    <3> QED BY <3>1
  <2> HIDE DEF N, c
  <2>2. Cardinality(0 .. c) = c + 1
    BY <1>1, FS_Interval
  <2>3. Cardinality(0 .. c) <= Cardinality(N) /\ Cardinality(N) \in Nat
    BY <1>2, <2>1, FS_Subset, FS_CardinalityType
  <2> QED BY <1>1, <1>2, <2>2, <2>3
<1>4. \E g \in {[age |-> 0, no |-> n] : n \in 0 .. c} : g \notin R
  BY <1>3
<1>5. /\ Fresh(k) \in {[age |-> 0, no |-> n] : n \in 0 .. c}
      /\ Fresh(k) \notin R
  BY <1>4 DEF Fresh
<1> QED
  BY <1>1, <1>5 DEF Grant

\* What is noted is one grant more.
LEMMA NoteAdds ==
    ASSUME GrantsOK, NEW k \in Key, NEW used \in BOOLEAN, recent' = Note(k, used)
    PROVE  /\ GrantsOK'
           /\ \A j \in Key : j # k => recent'[j] = recent[j]
           /\ recent'[k] = IF used THEN recent[k] \cup {Fresh(k)} ELSE recent[k]
<1>1. Fresh(k) \in Grant
  BY FreshIsNew
<1>2. IsFiniteSet(recent[k] \cup {Fresh(k)})
  BY FS_AddElement DEF GrantsOK
<1> HIDE DEF Fresh
<1> QED
  BY <1>1, <1>2 DEF GrantsOK, Note

\* Growing older keeps grants apart.
LEMMA AgedCount ==
    ASSUME NEW S \in SUBSET Grant, IsFiniteSet(S)
    PROVE  LET T == {Aged(g) : g \in S}
           IN  T \subseteq Grant /\ IsFiniteSet(T) /\ Cardinality(T) = Cardinality(S)
<1> DEFINE T == {Aged(g) : g \in S}
           f == [g \in S |-> Aged(g)]
<1>1. \A g \in S : Aged(g) = [age |-> g.age + 1, no |-> g.no] /\ g.age \in Nat
  BY DEF Aged, Grant
<1>2. \A g, h \in S : Aged(g) = Aged(h) => g = h
  <2> SUFFICES ASSUME NEW g \in S, NEW h \in S, Aged(g) = Aged(h)
               PROVE  g = h
    OBVIOUS
  <2>1. /\ Aged(g).age = g.age + 1 /\ Aged(g).no = g.no
        /\ Aged(h).age = h.age + 1 /\ Aged(h).no = h.no
    BY <1>1
  <2>2. g.age = h.age /\ g.no = h.no
    BY <1>1, <2>1
  <2> QED BY <2>2 DEF Grant
<1>3. f \in Bijection(S, T)
  BY <1>2 DEF Bijection, Injection, IsInjective, Surjection
<1>4. IsFiniteSet(T) /\ Cardinality(T) = Cardinality(S)
  BY <1>3, FS_Bijection DEF ExistsBijection
<1>5. T \subseteq Grant
  BY <1>1 DEF Grant
<1> QED
  BY <1>4, <1>5

\* The script keeps the bound: it grants only what the counter then says.
LEMMA ScriptBounded ==
    ASSUME CountersOK, GrantsOK, NEW k \in Key,
           Bounded(k, recent[k], count[k], ttl[k])
    PROVE  Bounded(k, IF Within(k) THEN recent[k] \cup {Fresh(k)} ELSE recent[k],
                   Counted(k), NewTtl(k))
<1> DEFINE R == recent[k]
           S == IF Within(k) THEN R \cup {Fresh(k)} ELSE R
<1>1. PICK old \in SUBSET R :
         /\ Cardinality(old) <= Limit[k]
         /\ Cardinality(R \ old) <= count[k] /\ Cardinality(R \ old) <= Limit[k]
         /\ count[k] > 0 /\ ttl[k] # NoExpiry
               => \A g \in old : Ticks(k) <= g.age + ttl[k]
  BY DEF Bounded
<1>2. /\ count[k] \in Nat /\ Limit[k] \in Nat \ {0} /\ Ticks(k) \in Nat
      /\ count[k] <= Limit[k] + 1
      /\ Counted(k) = IF count[k] + 1 > Limit[k] + 1 THEN Limit[k] + 1
                                                     ELSE count[k] + 1
      /\ \A g \in R : g.age \in Nat
  BY SettingsAssumption, TicksType DEF CountersOK, Counted, Capped, GrantsOK, Grant
<1>3. /\ IsFiniteSet(R) /\ IsFiniteSet(R \ old)
      /\ Cardinality(R \ old) \in Nat
  BY FS_Subset, FS_CardinalityType DEF GrantsOK
<1>4. /\ Cardinality(S \ old) <= Counted(k)
      /\ Cardinality(S \ old) <= Limit[k]
      /\ old \in SUBSET S
  <2>1. CASE Within(k)
    <3>1. Fresh(k) \notin R
      BY FreshIsNew
    <3> HIDE DEF R
    <3>2. S \ old = (R \ old) \cup {Fresh(k)}
      BY <2>1, <3>1
    <3>3. Cardinality(S \ old) = Cardinality(R \ old) + 1
      BY <1>3, <3>1, <3>2, FS_AddElement
    <3>4. count[k] + 1 <= Limit[k] /\ Counted(k) = count[k] + 1
      BY <1>2, <2>1 DEF Within
    <3> QED BY <1>1, <1>2, <1>3, <2>1, <3>3, <3>4
  <2>2. CASE ~Within(k)
    BY <1>1, <1>2, <1>3, <2>2
  <2> QED BY <2>1, <2>2
<1>5. ASSUME NEW g \in old
      PROVE  Ticks(k) <= g.age + NewTtl(k)
  <2>1. CASE count[k] = 0 \/ ttl[k] = NoExpiry
    BY <1>2, <2>1 DEF NewTtl, Found
  <2>2. CASE count[k] > 0 /\ ttl[k] # NoExpiry
    <3>1. NewTtl(k) = ttl[k] \/ NewTtl(k) = Ticks(k)
      BY <2>2, <1>2 DEF NewTtl, Found
    <3> QED BY <1>1, <1>2, <2>2, <3>1
  <2> QED BY <1>2, <2>1, <2>2
<1> HIDE DEF R, S
<1> QED
  BY <1>1, <1>4, <1>5 DEF Bounded, S, R

\* The script keeps the counter covered by grants as young as itself.
LEMMA ScriptUsed ==
    ASSUME CountersOK, GrantsOK, NEW k \in Key, ttl[k] # NoExpiry,
           Used(k, recent[k], count[k], ttl[k]),
           NEW more \in BOOLEAN, Within(k) => more
    PROVE  Used(k, IF more THEN recent[k] \cup {Fresh(k)} ELSE recent[k],
                Counted(k), NewTtl(k))
<1> DEFINE R == recent[k]
           S == IF more THEN R \cup {Fresh(k)} ELSE R
<1>1. PICK own \in SUBSET R :
         /\ count[k] <= Limit[k] => Cardinality(own) >= count[k]
         /\ Cardinality(own) >= Limit[k] \/ count[k] <= Limit[k]
         /\ count[k] > 0 => \A g \in own : g.age + ttl[k] <= Ticks(k)
  BY DEF Used
<1>2. /\ count[k] \in Nat /\ Limit[k] \in Nat \ {0} /\ Ticks(k) \in Nat \ {0}
      /\ count[k] <= Limit[k] + 1 /\ ttl[k] \in Nat /\ ttl[k] <= Ticks(k)
      /\ Counted(k) = IF count[k] + 1 > Limit[k] + 1 THEN Limit[k] + 1
                                                     ELSE count[k] + 1
      /\ \A g \in R : g.age \in Nat
  BY SettingsAssumption, TicksType DEF CountersOK, Counted, Capped, GrantsOK, Grant
<1>3. IsFiniteSet(own) /\ Cardinality(own) \in Nat
  BY FS_Subset, FS_CardinalityType DEF GrantsOK
<1>4. NewTtl(k) = IF count[k] = 0 THEN Ticks(k) ELSE ttl[k]
  BY <1>2 DEF NewTtl, Found, NoExpiry
<1>5. CASE Within(k)
  <2> DEFINE mine == IF count[k] = 0 THEN {Fresh(k)} ELSE own \cup {Fresh(k)}
  <2>1. /\ Fresh(k) \notin own /\ Fresh(k).age = 0
        /\ Counted(k) = count[k] + 1 /\ Counted(k) <= Limit[k]
    BY <1>2, <1>5, FreshIsNew DEF Within
  <2>2. mine \in SUBSET S
    BY <1>5
  <2>3. Cardinality(mine) >= Counted(k)
    <3>1. CASE count[k] = 0
      <4>1. Cardinality({Fresh(k)}) = 1
        BY FS_Singleton
      <4>2. mine = {Fresh(k)} /\ Counted(k) = 1
        BY <2>1, <3>1
      <4> QED BY <4>1, <4>2
    <3>2. CASE count[k] # 0
      <4>1. Cardinality(own \cup {Fresh(k)}) = Cardinality(own) + 1
        BY <1>3, <2>1, FS_AddElement
      <4> QED BY <1>1, <1>2, <1>3, <2>1, <3>2, <4>1
    <3> QED BY <3>1, <3>2
  <2>4. \A g \in mine : g.age + NewTtl(k) <= Ticks(k)
    BY <1>1, <1>2, <1>4, <2>1
  <2> HIDE DEF mine, S
  <2> QED BY <2>1, <2>2, <2>3, <2>4 DEF Used, S
<1>6. CASE ~Within(k)
  <2>1. /\ Counted(k) > Limit[k] /\ count[k] >= Limit[k] /\ count[k] > 0
    BY <1>2, <1>6 DEF Within
  <2>2. own \in SUBSET S /\ Cardinality(own) >= Limit[k]
    BY <1>1, <1>2, <1>3, <2>1
  <2>3. \A g \in own : g.age + NewTtl(k) <= Ticks(k)
    BY <1>1, <1>4, <2>1
  <2>4. ~(Counted(k) <= Limit[k])
    BY <1>2, <2>1
  <2> HIDE DEF S
  <2> QED BY <2>2, <2>3, <2>4 DEF Used, S
<1> QED
  BY <1>5, <1>6

\* More grants leave a counter covered.
LEMMA MoreUsed ==
    ASSUME NEW k \in Key, NEW R, NEW S, R \subseteq S, NEW n, NEW t, Used(k, R, n, t)
    PROVE  Used(k, S, n, t)
BY DEF Used

\* Time passing keeps the bound: when a counter ends, the grants of the one
\* before it are a window old.
LEMMA TickBounded ==
    ASSUME CountersOK, GrantsOK, Tick, NEW k \in Key,
           Bounded(k, recent[k], count[k], ttl[k])
    PROVE  Bounded(k, recent'[k], count'[k], ttl'[k])
<1> DEFINE R == recent[k]
           kept == {g \in R : g.age + 1 < Ticks(k)}
           Grown(S) == {Aged(g) : g \in S}
<1>1. PICK old \in SUBSET R :
         /\ Cardinality(old) <= Limit[k]
         /\ Cardinality(R \ old) <= count[k] /\ Cardinality(R \ old) <= Limit[k]
         /\ count[k] > 0 /\ ttl[k] # NoExpiry
               => \A g \in old : Ticks(k) <= g.age + ttl[k]
  BY DEF Bounded
<1>2. /\ count[k] \in Nat /\ Limit[k] \in Nat \ {0} /\ Ticks(k) \in Nat
      /\ ttl[k] \in Nat \cup {NoExpiry} /\ (count[k] = 0 <=> ttl[k] = 0)
      /\ R \subseteq Grant /\ IsFiniteSet(R)
      /\ \A g \in R : g.age \in Nat /\ Aged(g).age = g.age + 1
      /\ recent'[k] = Grown(kept)
      /\ ttl'[k] = IF ttl[k] > 0 THEN ttl[k] - 1 ELSE ttl[k]
      /\ count'[k] = IF ttl[k] = 1 THEN 0 ELSE count[k]
  BY SettingsAssumption, TicksType
  DEF CountersOK, GrantsOK, Grant, Aged, Tick, Older
<1>3. \A S \in SUBSET R : /\ IsFiniteSet(S) /\ IsFiniteSet(Grown(S))
                          /\ Cardinality(Grown(S)) = Cardinality(S)
                          /\ Cardinality(S) \in Nat
  BY <1>2, FS_Subset, FS_CardinalityType, AgedCount
<1>4. \A S \in SUBSET R : \A T \in SUBSET S :
         /\ Cardinality(T) <= Cardinality(S)
         /\ Cardinality(T) \in Nat /\ Cardinality(S) \in Nat
  <2> SUFFICES ASSUME NEW S \in SUBSET R, NEW T \in SUBSET S
               PROVE  /\ Cardinality(T) <= Cardinality(S)
                      /\ Cardinality(T) \in Nat /\ Cardinality(S) \in Nat
    OBVIOUS
  <2> QED BY <1>3, FS_Subset
<1> HIDE DEF R, kept
<1>5. CASE ttl[k] = 1 \/ count[k] = 0
  <2>1. kept \subseteq R \ old \/ count[k] = 0
    BY <1>1, <1>2, <1>5 DEF kept, NoExpiry
  <2>2. Cardinality(kept) <= Limit[k]
    <3>1. CASE kept \subseteq R \ old
      <4>1. R \ old \in SUBSET R /\ kept \in SUBSET (R \ old)
        BY <3>1
      <4>2. /\ Cardinality(kept) <= Cardinality(R \ old)
            /\ Cardinality(kept) \in Nat /\ Cardinality(R \ old) \in Nat
        BY <1>4, <4>1
      <4>3. Cardinality(R \ old) <= Limit[k] /\ Limit[k] \in Nat
        BY <1>1, <1>2
      <4> QED BY <4>2, <4>3
    <3>2. CASE count[k] = 0
      <4>1. IsFiniteSet(R \ old) /\ Cardinality(R \ old) \in Nat
        BY <1>3
      <4>2. Cardinality(R \ old) = 0
        BY <1>1, <3>2, <4>1
      <4>3. R \ old = {}
        BY <4>1, <4>2, FS_EmptySet
      <4>4. kept \in SUBSET old /\ old \in SUBSET R
        BY <4>3 DEF kept
      <4>5. /\ Cardinality(kept) <= Cardinality(old)
            /\ Cardinality(kept) \in Nat /\ Cardinality(old) \in Nat
        BY <1>4, <4>4
      <4>6. Cardinality(old) <= Limit[k] /\ Limit[k] \in Nat
        BY <1>1, <1>2
      <4> QED BY <4>5, <4>6
    <3> QED BY <2>1, <3>1, <3>2
  <2>3. kept \in SUBSET R
    BY DEF kept
  <2>4. /\ Cardinality(recent'[k]) <= Limit[k]
        /\ recent'[k] \ recent'[k] = {} /\ Cardinality({}) = 0
        /\ count'[k] = 0
    <3>1. Cardinality(recent'[k]) = Cardinality(kept)
      BY <1>2, <1>3, <2>3
    <3>2. count'[k] = 0
      BY <1>2, <1>5
    <3> QED BY <2>2, <3>1, <3>2, FS_EmptySet
  <2>5. /\ Cardinality(recent'[k] \ recent'[k]) <= count'[k]
        /\ Cardinality(recent'[k] \ recent'[k]) <= Limit[k]
        /\ ~(count'[k] > 0)
    <3>1. Cardinality(recent'[k] \ recent'[k]) = 0
      <4> HIDE DEF Grown
      <4> QED BY <2>4
    <3>2. count'[k] = 0 /\ Limit[k] \in Nat
      BY <1>2, <2>4
    <3> QED BY <3>1, <3>2
  <2>6. \E older \in SUBSET recent'[k] :
           /\ Cardinality(older) <= Limit[k]
           /\ Cardinality(recent'[k] \ older) <= count'[k]
           /\ Cardinality(recent'[k] \ older) <= Limit[k]
           /\ ~(count'[k] > 0)
    <3> HIDE DEF Grown
    <3> WITNESS recent'[k] \in SUBSET recent'[k]
    <3> QED BY <2>4, <2>5
  <2> HIDE DEF Grown
  <2> QED BY <2>6 DEF Bounded
<1>6. CASE ttl[k] # 1 /\ count[k] # 0
  <2> DEFINE kin == kept \cap old
  <2>1. /\ kept \in SUBSET R /\ kin \in SUBSET R /\ kept \ kin \in SUBSET (R \ old)
        /\ R \ old \in SUBSET R /\ kin \in SUBSET old
    BY DEF kept
  <2>2. Grown(kin) \in SUBSET recent'[k]
    BY <1>2
  <2>3. recent'[k] \ Grown(kin) \subseteq Grown(kept \ kin)
    BY <1>2
  <2>4. Cardinality(Grown(kin)) <= Limit[k]
    <3>1. Cardinality(Grown(kin)) = Cardinality(kin)
      BY <1>3, <2>1
    <3>2. /\ Cardinality(kin) <= Cardinality(old)
          /\ Cardinality(kin) \in Nat /\ Cardinality(old) \in Nat
      BY <1>4, <2>1
    <3>3. Cardinality(old) <= Limit[k] /\ Limit[k] \in Nat
      BY <1>1, <1>2
    <3> QED BY <3>1, <3>2, <3>3
  <2>5. /\ Cardinality(recent'[k] \ Grown(kin)) <= count'[k]
        /\ Cardinality(recent'[k] \ Grown(kin)) <= Limit[k]
    <3>1. kept \ kin \in SUBSET R
      BY <2>1
    <3>2. /\ IsFiniteSet(Grown(kept \ kin))
          /\ Cardinality(Grown(kept \ kin)) <= Cardinality(R \ old)
      BY <1>3, <1>4, <2>1, <3>1
    <3>3. /\ Cardinality(recent'[k] \ Grown(kin)) <= Cardinality(Grown(kept \ kin))
          /\ Cardinality(recent'[k] \ Grown(kin)) \in Nat
      BY <2>3, <3>2, FS_Subset, FS_CardinalityType
    <3>4. Cardinality(Grown(kept \ kin)) \in Nat /\ Cardinality(R \ old) \in Nat
      BY <1>3, <2>1, <3>1
    <3> QED BY <1>1, <1>2, <1>6, <3>2, <3>3, <3>4
  <2>6. ASSUME ttl'[k] # NoExpiry, NEW g \in old
        PROVE  Ticks(k) <= Aged(g).age + ttl'[k]
    BY <1>1, <1>2, <1>6, <2>6 DEF NoExpiry
  <2>7. count'[k] > 0 /\ ttl'[k] # NoExpiry
           => \A g \in Grown(kin) : Ticks(k) <= g.age + ttl'[k]
    BY <2>1, <2>6
  <2> HIDE DEF kin, Grown
  <2> QED BY <2>2, <2>4, <2>5, <2>7 DEF Bounded
<1> QED
  BY <1>5, <1>6

\* Time passing keeps a living counter covered: its grants are younger than a
\* window.
LEMMA TickUsed ==
    ASSUME CountersOK, GrantsOK, Tick, NEW k \in Key, ttl[k] # NoExpiry,
           Used(k, recent[k], count[k], ttl[k])
    PROVE  ttl'[k] # NoExpiry /\ Used(k, recent'[k], count'[k], ttl'[k])
<1> DEFINE R == recent[k]
           kept == {g \in R : g.age + 1 < Ticks(k)}
           Grown(S) == {Aged(g) : g \in S}
<1>1. PICK own \in SUBSET R :
         /\ count[k] <= Limit[k] => Cardinality(own) >= count[k]
         /\ Cardinality(own) >= Limit[k] \/ count[k] <= Limit[k]
         /\ count[k] > 0 => \A g \in own : g.age + ttl[k] <= Ticks(k)
  BY DEF Used
<1>2. /\ count[k] \in Nat /\ Limit[k] \in Nat \ {0} /\ Ticks(k) \in Nat
      /\ ttl[k] \in Nat /\ (count[k] = 0 <=> ttl[k] = 0)
      /\ R \subseteq Grant /\ IsFiniteSet(R)
      /\ \A g \in R : g.age \in Nat /\ Aged(g).age = g.age + 1
      /\ recent'[k] = Grown(kept)
      /\ ttl'[k] = IF ttl[k] > 0 THEN ttl[k] - 1 ELSE ttl[k]
      /\ count'[k] = IF ttl[k] = 1 THEN 0 ELSE count[k]
  BY SettingsAssumption, TicksType
  DEF CountersOK, GrantsOK, Grant, Aged, Tick, Older
<1>3. ttl'[k] # NoExpiry
  BY <1>2 DEF NoExpiry
<1>4. CASE count'[k] = 0
  <2>1. {} \in SUBSET recent'[k] /\ Cardinality({}) = 0 /\ Limit[k] > 0
    BY <1>2, FS_EmptySet
  <2>2. Limit[k] \in Nat /\ ~(0 > 0) /\ 0 <= Limit[k] /\ 0 >= 0
    BY <1>2
  <2> HIDE DEF R, kept, Grown
  <2> QED BY <1>3, <1>4, <2>1, <2>2 DEF Used
<1>5. CASE count'[k] # 0
  <2>1. ttl[k] > 1 /\ count'[k] = count[k] /\ count[k] > 0
    BY <1>2, <1>5
  <2>2. own \subseteq kept
    BY <1>1, <1>2, <2>1
  <2>3. Grown(own) \in SUBSET recent'[k]
    BY <1>2, <2>2
  <2>4. Cardinality(Grown(own)) = Cardinality(own)
    BY <1>2, FS_Subset, AgedCount
  <2>5. \A g \in Grown(own) : g.age + ttl'[k] <= Ticks(k)
    BY <1>1, <1>2, <2>1
  <2> HIDE DEF R, kept, Grown
  <2> QED BY <1>1, <1>3, <2>1, <2>3, <2>4, <2>5 DEF Used
<1> QED
  BY <1>4, <1>5

\* Time passing keeps the grants well formed.
LEMMA TickGrants ==
    ASSUME GrantsOK, Tick
    PROVE  GrantsOK'
<1> SUFFICES ASSUME NEW k \in Key
             PROVE  recent'[k] \in SUBSET Grant /\ IsFiniteSet(recent'[k])
  BY DEF GrantsOK, Tick
<1> DEFINE kept == {g \in recent[k] : g.age + 1 < Ticks(k)}
<1>1. kept \in SUBSET Grant /\ kept \in SUBSET recent[k] /\ IsFiniteSet(recent[k])
  BY DEF GrantsOK
<1>2. recent'[k] = {Aged(g) : g \in kept}
  BY DEF Tick, Older
<1> HIDE DEF kept
<1>3. IsFiniteSet(kept)
  BY <1>1, FS_Subset
<1> QED
  BY <1>1, <1>2, <1>3, AgedCount

\* What a step other than the passing of time does to the counter of one key
\* and to its grants: it notes a grant, runs the script, or loses an expiry.
Noted(k, used) == UNCHANGED <<count, ttl, persists>> /\ recent' = Note(k, used)
Ran(k, used) == Script(k) /\ UNCHANGED persists /\ recent' = Note(k, used)
Lost(k) == /\ UNCHANGED <<count, recent>> /\ persists' = persists + 1
           /\ ttl' = [ttl EXCEPT ![k] = NoExpiry]

\* Such a step keeps the parts of the invariant about counters and grants, if
\* only FailOpen grants what the script does not.
LEMMA QuotaKept ==
    ASSUME CountersOK, GrantsOK, BoundedInv, UsedInv, persists \in Nat,
           NEW k \in Key, NEW used \in BOOLEAN,
           \/ Noted(k, used) /\ (used => FailOpen)
           \/ Ran(k, used) /\ (Within(k) => used) /\ (used => FailOpen \/ Within(k))
           \/ Lost(k)
    PROVE  GrantsOK' /\ BoundedInv' /\ UsedInv'
<1>1. CASE Noted(k, used) /\ (used => FailOpen)
  <2>1. /\ GrantsOK'
        /\ \A j \in Key : j # k => recent'[j] = recent[j]
        /\ recent'[k] = IF used THEN recent[k] \cup {Fresh(k)} ELSE recent[k]
        /\ UNCHANGED <<count, ttl, persists>>
    BY <1>1, NoteAdds DEF Noted
  <2>2. \A j \in Key : recent[j] \subseteq recent'[j]
    BY <2>1
  <2>3. BoundedInv'
    BY <1>1, <2>1 DEF BoundedInv, Bounded, Ticks
  <2>4. UsedInv'
    <3>1. \A j \in Key : /\ Used(j, recent[j], count[j], ttl[j])
                               => Used(j, recent'[j], count[j], ttl[j])
      BY <2>2, MoreUsed
    <3>2. \A j \in Key : Used(j, recent'[j], count[j], ttl[j])
                           => Used(j, recent[j], count[j], ttl[j])'
      BY <2>1 DEF Used, Ticks
    <3> QED BY <2>1, <3>1, <3>2 DEF UsedInv
  <2> QED BY <2>1, <2>3, <2>4
<1>2. CASE /\ Ran(k, used) /\ (Within(k) => used)
           /\ used => FailOpen \/ Within(k)
  <2>1. /\ GrantsOK'
        /\ \A j \in Key : j # k => /\ recent'[j] = recent[j] /\ ttl'[j] = ttl[j]
                                   /\ count'[j] = count[j]
        /\ recent'[k] = IF used THEN recent[k] \cup {Fresh(k)} ELSE recent[k]
        /\ count'[k] = Counted(k) /\ ttl'[k] = NewTtl(k) /\ UNCHANGED persists
    <3>1. /\ count' = [count EXCEPT ![k] = Counted(k)]
          /\ ttl' = [ttl EXCEPT ![k] = NewTtl(k)] /\ recent' = Note(k, used)
          /\ UNCHANGED persists /\ DOMAIN count = Key /\ DOMAIN ttl = Key
      BY <1>2 DEF Ran, Script, CountersOK
    <3> QED BY <3>1, NoteAdds
  <2>2. BoundedInv'
    <3> SUFFICES ASSUME ~FailOpen, NEW j \in Key
                 PROVE  Bounded(j, recent'[j], count'[j], ttl'[j])
      BY DEF BoundedInv, Bounded, Ticks
    <3>1. Bounded(j, recent[j], count[j], ttl[j])
      BY DEF BoundedInv
    <3>2. CASE j = k
      BY <1>2, <2>1, <3>1, <3>2, ScriptBounded
    <3>3. CASE j # k
      BY <2>1, <3>1, <3>3
    <3> QED BY <3>2, <3>3
  <2>3. UsedInv'
    <3> SUFFICES ASSUME persists = 0, NEW j \in Key
                 PROVE  ttl'[j] # NoExpiry /\ Used(j, recent'[j], count'[j], ttl'[j])
      BY <2>1 DEF UsedInv, Used, Ticks
    <3>1. ttl[j] # NoExpiry /\ Used(j, recent[j], count[j], ttl[j])
      BY DEF UsedInv
    <3>2. CASE j = k
      <4>1. NewTtl(k) # NoExpiry
        BY ScriptResult, TicksType DEF NoExpiry
      <4> QED BY <1>2, <2>1, <3>1, <3>2, <4>1, ScriptUsed
    <3>3. CASE j # k
      BY <2>1, <3>1, <3>3
    <3> QED BY <3>2, <3>3
  <2> QED BY <2>1, <2>2, <2>3
<1>3. CASE Lost(k)
  <2>1. GrantsOK' /\ persists' # 0
    BY <1>3 DEF Lost, GrantsOK
  <2>2. /\ UNCHANGED <<count, recent>>
        /\ \A j \in Key : ttl'[j] = ttl[j] \/ ttl'[j] = NoExpiry
    BY <1>3 DEF Lost, CountersOK
  <2>3. BoundedInv'
    BY <2>2 DEF BoundedInv, Bounded, Ticks
  <2> QED BY <2>1, <2>3 DEF UsedInv
<1> QED
  BY <1>1, <1>2, <1>3

\* Requests that are decided: what BusyInv asks of the one and of the others.
LEMMA BusyKept ==
    ASSUME BusyInv, NEW r \in Request, UNCHANGED persists,
           \A q \in Request : q # r => /\ pc'[q] = pc[q] /\ key'[q] = key[q]
                                      /\ decision'[q] = decision[q]
                                      /\ basis'[q] = basis[q],
           basis' \in [Request -> [left : Nat, busy : Nat]],
           pc'[r] = "429" => ~decision'[r].allowed /\ decision'[r].available,
           pc'[r] \in {"decided", "429"} /\ ~decision'[r].allowed
                 /\ decision'[r].available
               => basis'[r].busy >= Limit[key'[r]] \/ persists > 0
    PROVE  BusyInv'
BY DEF BusyInv

\* The initial state.
LEMMA QuotaInit == Init => QuotaInv
<1> SUFFICES ASSUME Init PROVE QuotaInv
  OBVIOUS
<1>1. IsFiniteSet({}) /\ Cardinality({}) = 0 /\ \A k \in Key : Limit[k] \in Nat
  BY FS_EmptySet, SettingsAssumption
<1>2. \A k \in Key : recent[k] = {} /\ count[k] = 0 /\ ttl[k] = 0
  BY DEF Init
<1>3. GrantsOK
  BY <1>1 DEF Init, GrantsOK
<1>4. \A k \in Key : {} \in SUBSET recent[k] /\ recent[k] \ {} = {}
  BY <1>2
<1>5. BoundedInv
  BY <1>1, <1>2, <1>4 DEF BoundedInv, Bounded
<1>6. UsedInv
  BY <1>1, <1>2, <1>4 DEF UsedInv, Used, NoExpiry
<1>7. BusyInv
  BY DEF Init, BusyInv, NoBasis
<1> QED
  BY <1>3, <1>5, <1>6, <1>7, InitInv DEF QuotaInv

\* The steps of a request keep the invariant.
LEMMA QuotaRequest ==
    ASSUME QuotaInv, NEW r \in Request,
           \/ \E k \in Key : Begin(r, k)
           \/ Permit(r) \/ Eval(r) \/ FailFast(r) \/ EvalLost(r) \/ Enforce(r)
    PROVE  GrantsOK' /\ BoundedInv' /\ UsedInv' /\ BusyInv'
<1>0. /\ CountersOK /\ RequestsOK /\ GrantsOK /\ BoundedInv /\ UsedInv /\ BusyInv
      /\ key[r] \in Key /\ persists \in Nat /\ FailOpen \in BOOLEAN
      /\ basis[r] \in [left : Nat, busy : Nat]
      /\ Unavailable(key[r]).allowed = FailOpen /\ ~Unavailable(key[r]).available
      /\ decision = [q \in Request |-> decision[q]]
      /\ basis = [q \in Request |-> basis[q]]
  BY SettingsAssumption
  DEF QuotaInv, LimiterInv, CountersOK, RequestsOK, BusyInv, Unavailable
<1>1. ASSUME UNCHANGED <<count, ttl, recent, persists>>
      PROVE  GrantsOK' /\ BoundedInv' /\ UsedInv'
  BY <1>0, <1>1 DEF GrantsOK, BoundedInv, Bounded, UsedInv, Used, Ticks
<1>2. ASSUME NEW k \in Key, Begin(r, k)
      PROVE  BusyInv'
  <2>1. /\ \A q \in Request : q # r => /\ pc'[q] = pc[q] /\ key'[q] = key[q]
                                       /\ decision'[q] = decision[q]
                                       /\ basis'[q] = basis[q]
        /\ pc'[r] = "gate" \/ (pc'[r] = "decided" /\ decision'[r].allowed)
        /\ basis' \in [Request -> [left : Nat, busy : Nat]]
        /\ UNCHANGED persists
    BY <1>0, <1>2 DEF Begin, RequestsOK, BusyInv, NoBasis, Disabled
  <2> QED BY <1>0, <2>1 DEF BusyInv
<1>3. CASE \E k \in Key : Begin(r, k)
  BY <1>1, <1>2, <1>3 DEF Begin
<1>4. CASE Permit(r)
  <2>1. /\ \A q \in Request : pc'[q] = pc[q] \/ pc'[q] = "eval"
        /\ UNCHANGED <<key, decision, basis, persists>>
    BY <1>0, <1>4 DEF Permit, RequestsOK
  <2>2. BusyInv'
    BY <1>0, <2>1 DEF BusyInv
  <2> QED BY <1>1, <1>4, <2>2 DEF Permit
<1>5. CASE Eval(r)
  <2> DEFINE k == key[r]
             b == [left |-> NewTtl(k), busy |-> Cardinality(recent[k])]
  <2>1. Within(k) \in BOOLEAN /\ Ran(k, Within(k))
    BY <1>5 DEF Eval, Ran, Within
  <2>2. GrantsOK' /\ BoundedInv' /\ UsedInv'
    BY <1>0, <2>1, QuotaKept
  <2>3. b \in [left : Nat, busy : Nat]
    BY <1>0, ScriptResult, TicksType, FS_CardinalityType DEF GrantsOK
  <2>4. ~Within(k) => b.busy >= Limit[k] \/ persists > 0
    <3> SUFFICES ASSUME ~Within(k), persists = 0
                 PROVE  b.busy >= Limit[k]
      BY <1>0
    <3>1. /\ count[k] \in Nat /\ Limit[k] \in Nat
          /\ Used(k, recent[k], count[k], ttl[k])
      BY <1>0, SettingsAssumption DEF CountersOK, UsedInv
    <3>2. count[k] >= Limit[k]
      BY <3>1 DEF Within, Counted, Capped
    <3>3. PICK own \in SUBSET recent[k] :
             /\ count[k] <= Limit[k] => Cardinality(own) >= count[k]
             /\ Cardinality(own) >= Limit[k] \/ count[k] <= Limit[k]
      BY <3>1 DEF Used
    <3>4. /\ Cardinality(own) <= Cardinality(recent[k])
          /\ Cardinality(own) \in Nat /\ Cardinality(recent[k]) \in Nat
      BY <1>0, FS_Subset, FS_CardinalityType DEF GrantsOK
    <3> QED BY <3>1, <3>2, <3>3, <3>4
  <2>5. Decide(k).allowed = Within(k) /\ "decided" # "429"
    BY DEF Decide
  <2> HIDE DEF b
  <2>6. /\ pc' = [pc EXCEPT ![r] = "decided"] /\ key' = key
        /\ decision' = [decision EXCEPT ![r] = Decide(k)]
        /\ basis' = [basis EXCEPT ![r] = b] /\ persists' = persists
    BY <1>5 DEF Eval, b
  <2>7. BusyInv'
    <3>1. /\ pc'[r] = "decided" /\ decision'[r] = Decide(k) /\ basis'[r] = b
          /\ key'[r] = k
          /\ \A q \in Request : q # r => /\ pc'[q] = pc[q] /\ key'[q] = key[q]
                                         /\ decision'[q] = decision[q]
                                         /\ basis'[q] = basis[q]
          /\ basis' \in [Request -> [left : Nat, busy : Nat]]
      BY <1>0, <2>3, <2>6 DEF RequestsOK, BusyInv
    <3> HIDE DEF k
    <3> QED BY <1>0, <2>4, <2>5, <2>6, <3>1, BusyKept
  <2> QED BY <2>2, <2>7
<1>6. CASE FailFast(r) \/ EvalLost(r)
  <2> DEFINE k == key[r]
             d == Unavailable(k)
  <2>1. \E used \in BOOLEAN :
           \/ Noted(k, used) /\ (used => FailOpen)
           \/ Ran(k, used) /\ (Within(k) => used) /\ (used => FailOpen \/ Within(k))
    <3>1. /\ decision'[r] = d /\ UNCHANGED persists
          /\ Within(k) \in BOOLEAN /\ (Within(k) \/ FailOpen) \in BOOLEAN
      BY <1>0, <1>6 DEF FailFast, EvalLost, GiveUp, Within
    <3>2. decision'[r].allowed = FailOpen
      BY <1>0, <3>1
    <3>3. \/ Noted(k, FailOpen)
          \/ Ran(k, Within(k) \/ FailOpen)
      BY <1>6, <3>1, <3>2 DEF FailFast, EvalLost, Noted, Ran
    <3> QED BY <1>0, <3>1, <3>3
  <2>2. GrantsOK' /\ BoundedInv' /\ UsedInv'
    BY <1>0, <2>1, QuotaKept
  <2>3. /\ pc' = [pc EXCEPT ![r] = "decided"] /\ key' = key
        /\ decision' = [decision EXCEPT ![r] = d]
        /\ basis' = [basis EXCEPT ![r] = basis[r]] /\ persists' = persists
    BY <1>0, <1>6 DEF FailFast, EvalLost, GiveUp
  <2> HIDE DEF d
  <2>4. BusyInv'
    <3>1. /\ pc'[r] = "decided" /\ ~decision'[r].available
          /\ \A q \in Request : q # r => /\ pc'[q] = pc[q] /\ key'[q] = key[q]
                                         /\ decision'[q] = decision[q]
                                         /\ basis'[q] = basis[q]
          /\ basis' \in [Request -> [left : Nat, busy : Nat]]
      BY <1>0, <2>3 DEF RequestsOK, BusyInv, d
    <3> QED BY <1>0, <2>3, <3>1, BusyKept
  <2> QED BY <2>2, <2>4
<1>7. CASE Enforce(r)
  <2>1. /\ pc' = [pc EXCEPT ![r] = Outcome(decision[r])] /\ key' = key
        /\ decision' = [decision EXCEPT ![r] = decision[r]]
        /\ basis' = [basis EXCEPT ![r] = basis[r]] /\ persists' = persists
        /\ pc[r] = "decided"
    BY <1>0, <1>7 DEF Enforce
  <2>2. Outcome(decision[r]) = "429" => ~decision[r].allowed /\ decision[r].available
    BY DEF Outcome
  <2>3. ~decision[r].allowed /\ decision[r].available
           => basis[r].busy >= Limit[key[r]] \/ persists > 0
    BY <1>0, <2>1 DEF BusyInv
  <2>4. BusyInv'
    <3>1. /\ pc'[r] = Outcome(decision[r]) /\ decision' = decision
          /\ basis' = basis /\ \A q \in Request : q # r => pc'[q] = pc[q]
      BY <1>0, <2>1, <1>7 DEF RequestsOK, BusyInv, Enforce
    <3>2. basis' \in [Request -> [left : Nat, busy : Nat]]
      BY <1>0, <3>1 DEF BusyInv
    <3> HIDE DEF Outcome
    <3> QED BY <1>0, <2>1, <2>2, <2>3, <3>1, <3>2, BusyKept
  <2> QED BY <1>1, <1>7, <2>4 DEF Enforce
<1> QED
  BY <1>3, <1>4, <1>5, <1>6, <1>7

\* Every step keeps the invariant.
LEMMA QuotaNext == QuotaInv /\ [Next]_vars => QuotaInv'
<1> SUFFICES ASSUME QuotaInv, [Next]_vars PROVE QuotaInv'
  OBVIOUS
<1>0. /\ CountersOK /\ GrantsOK /\ BoundedInv /\ UsedInv /\ BusyInv
      /\ persists \in Nat /\ LimiterInv'
  BY NextInv DEF QuotaInv, LimiterInv, CountersOK
<1>1. ASSUME UNCHANGED <<pc, key, decision, basis>>,
             persists' = 0 => persists = 0
      PROVE  BusyInv'
  <2>1. persists > 0 => persists' > 0
    BY <1>0, <1>1 DEF LimiterInv, CountersOK
  <2> QED BY <1>0, <1>1, <2>1 DEF BusyInv
<1>2. CASE UNCHANGED vars
  BY <1>0, <1>1, <1>2
  DEF vars, QuotaInv, GrantsOK, BoundedInv, Bounded, UsedInv, Used, Ticks
<1>3. ASSUME NEW r \in Request,
             \/ \E k \in Key : Begin(r, k)
             \/ Permit(r) \/ Eval(r) \/ FailFast(r) \/ EvalLost(r) \/ Enforce(r)
      PROVE  QuotaInv'
  BY <1>0, <1>3, QuotaRequest DEF QuotaInv
<1>4. ASSUME NEW k \in Key, Late(k)
      PROVE  QuotaInv'
  <2>1. Ran(k, Within(k)) /\ Within(k) \in BOOLEAN
    BY <1>4 DEF Late, Ran, Within
  <2>2. BusyInv'
    BY <1>1, <1>4 DEF Late
  <2> QED BY <1>0, <2>1, <2>2, QuotaKept DEF QuotaInv
<1>5. ASSUME NEW k \in Key, Persist(k)
      PROVE  QuotaInv'
  <2>1. Lost(k)
    BY <1>5 DEF Persist, Lost
  <2>2. BusyInv'
    BY <1>0, <1>1, <1>5 DEF Persist
  <2> QED BY <1>0, <2>1, <2>2, QuotaKept DEF QuotaInv
<1>6. CASE Tick
  <2>1. GrantsOK' /\ UNCHANGED persists
    BY <1>0, <1>6, TickGrants DEF Tick
  <2>2. BoundedInv'
    BY <1>0, <1>6, TickBounded DEF BoundedInv, Bounded, Ticks
  <2>3. UsedInv'
    BY <1>0, <1>6, <2>1, TickUsed DEF UsedInv, Used, Ticks
  <2>4. BusyInv'
    BY <1>1, <1>6 DEF Tick
  <2> QED BY <1>0, <2>1, <2>2, <2>3, <2>4 DEF QuotaInv
<1> QED
  BY <1>2, <1>3, <1>4, <1>5, <1>6 DEF Next

\* The quota's invariant holds in every state.
LEMMA QuotaKeeps == Spec => []QuotaInv
BY QuotaInit, QuotaNext, PTL DEF Spec

\* Every variable of the limiter keeps its type.
THEOREM TypeCorrect == Spec => []TypeOK
<1>1. QuotaInv => TypeOK
  BY DEF QuotaInv, LimiterInv, GrantsOK, BusyInv, TypeOK
<1> QED
  BY <1>1, QuotaKeeps, PTL

\* Fail-closed, no window-long interval sees more than twice Limit grants of a
\* key, wherever the fixed windows lie, whatever is lost or comes late.
THEOREM QuotaIsBounded ==
    ASSUME ~FailOpen
    PROVE  Spec => []SlidingBound
<1>1. QuotaInv => SlidingBound
  <2> SUFFICES ASSUME QuotaInv, NEW k \in Key
               PROVE  Cardinality(recent[k]) <= 2 * Limit[k]
    BY DEF SlidingBound
  <2>1. PICK old \in SUBSET recent[k] :
           /\ Cardinality(old) <= Limit[k]
           /\ Cardinality(recent[k] \ old) <= Limit[k]
    BY DEF QuotaInv, BoundedInv, Bounded
  <2> DEFINE own == recent[k] \ old
  <2>2. /\ IsFiniteSet(old) /\ IsFiniteSet(own)
        /\ Cardinality(old) \in Nat /\ Cardinality(own) \in Nat
    BY FS_Subset, FS_CardinalityType DEF QuotaInv, GrantsOK
  <2>3. recent[k] = old \cup own /\ old \cap own = {}
    OBVIOUS
  <2> HIDE DEF own
  <2>4. /\ Cardinality(old \cup own)
              = Cardinality(old) + Cardinality(own) - Cardinality(old \cap own)
        /\ Cardinality(old \cap own) = 0
    BY <2>2, <2>3, FS_Union, FS_EmptySet
  <2>5. Limit[k] \in Nat /\ Cardinality(own) <= Limit[k]
    BY <2>1, SettingsAssumption DEF own
  <2>6. Cardinality(recent[k]) = Cardinality(old) + Cardinality(own)
    BY <2>2, <2>3, <2>4
  <2> QED BY <2>1, <2>2, <2>5, <2>6
<1> QED
  BY <1>1, QuotaKeeps, PTL

\* No one is refused for a quota that was not used up within the last window,
\* unless a counter lost its expiry.
THEOREM RefusalsAreEarned == Spec => []ThrottledOnlyWhenBusy
<1>1. QuotaInv => ThrottledOnlyWhenBusy
  BY DEF QuotaInv, BusyInv, ThrottledOnlyWhenBusy
<1> QED
  BY <1>1, QuotaKeeps, PTL
=============================================================================
