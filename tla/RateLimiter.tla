----------------------------- MODULE RateLimiter -----------------------------
(***************************************************************************)
(* check_rate_limit and the handlers that enforce its decisions.  A key    *)
(* stands for a client and an endpoint.  Its counter lives in Redis, where *)
(* one Lua script increments it, gives it an expiry and decides; the reply *)
(* may be lost after the script has run, or the script may run after its   *)
(* caller has given up.  Time passes in ticks, several to a second, since  *)
(* Redis keeps expiries finer than the seconds its TTL command reports.    *)
(***************************************************************************)
EXTENDS Integers, FiniteSets

CONSTANTS
    Key, Request,       \* counters; threads with a request to decide
    Limit, Window,      \* per key: requests allowed, and seconds
    TicksPerSecond,
    Enabled,            \* rate_limit_enabled
    FailOpen,           \* rate_limit_fail_open
    Faults,             \* which failures happen
    MaxLate,            \* bound: scripts under way with no one waiting
    MaxPersists         \* bound: times an expiry is taken away

ASSUME SettingsAssumption ==
    /\ Limit \in [Key -> Nat \ {0}] /\ Window \in [Key -> Nat \ {0}]
    /\ TicksPerSecond \in Nat \ {0}
    /\ Enabled \in BOOLEAN /\ FailOpen \in BOOLEAN
    /\ Faults \subseteq {"redis", "persist"}
    /\ MaxLate \in Nat /\ MaxPersists \in Nat

VARIABLES
    count,              \* the counters in Redis, 0 when the key is absent
    ttl,                \* ticks to the expiry, 0 when absent
    late,               \* scripts sent whose caller has given up
    persists,           \* expiries taken away so far
    pc, key, decision   \* per request: step, key, RateLimitDecision

VARIABLES               \* observations
    recent,             \* per key: the grants of its quota within the last window
    basis               \* per request: what Redis knew when it decided

vars == <<count, ttl, late, persists, pc, key, decision, recent, basis>>

NoExpiry == -1
Ticks(k) == Window[k] * TicksPerSecond
\* A counter past the limit is told apart from the limit, not from others.
Capped(k, n) == IF n > Limit[k] + 1 THEN Limit[k] + 1 ELSE n
Decision == [allowed : BOOLEAN, remaining : Nat, retry_after : Nat,
             available : BOOLEAN]
Undecided == [allowed |-> FALSE, remaining |-> 0, retry_after |-> 0,
              available |-> FALSE]
Disabled(k) == [allowed |-> TRUE, remaining |-> Limit[k], retry_after |-> 0,
                available |-> TRUE]
NoBasis == [left |-> 0, busy |-> 0]
\* A use of the quota: how long ago, and a number among those of its moment.
Grant == [age : Nat, no : Nat]

\* The counters of Redis; the requests; and what is observed of both.
CountersOK ==
    /\ count \in [Key -> Nat] /\ ttl \in [Key -> Nat \cup {NoExpiry}]
    /\ \A k \in Key : /\ count[k] <= Limit[k] + 1 /\ ttl[k] <= Ticks(k)
                      /\ count[k] = 0 <=> ttl[k] = 0
    /\ late \in [Key -> Nat] /\ persists \in Nat
RequestsOK ==
    /\ pc \in [Request -> {"idle", "gate", "eval", "decided",
                           "served", "429", "503"}]
    /\ key \in [Request -> Key] /\ decision \in [Request -> Decision]
TypeOK ==
    /\ CountersOK /\ RequestsOK
    /\ recent \in [Key -> SUBSET Grant]
    /\ basis \in [Request -> [left : Nat, busy : Nat]]

Init ==
    /\ count = [k \in Key |-> 0] /\ ttl = [k \in Key |-> 0]
    /\ late = [k \in Key |-> 0] /\ persists = 0
    /\ pc = [r \in Request |-> "idle"]
    /\ key \in [Request -> Key]
    /\ decision = [r \in Request |-> Undecided]
    /\ recent = [k \in Key |-> {}]
    /\ basis = [r \in Request |-> NoBasis]

-----------------------------------------------------------------------------
(* _FIXED_WINDOW_LUA, on a key that is absent or holds a counter. *)

\* INCR, which keeps the expiry a key has and creates a key without one.
Counted(k) == Capped(k, count[k] + 1)
Found(k) == IF count[k] = 0 THEN NoExpiry ELSE ttl[k]

\* Mutants: every request prolongs the window; a key that has no expiry but
\* was there before stays without.
AlwaysExpire(k) == Ticks(k)
NoRepair(k) == IF Counted(k) = 1 THEN Ticks(k) ELSE Found(k)
\* EXPIRE for a new counter, and for one that turns out to have no expiry.
NewTtl(k) == IF Counted(k) = 1 \/ Found(k) = NoExpiry THEN Ticks(k) ELSE Found(k)

\* TTL: the seconds left, rounded to the nearest.
Seconds(ticks) == (2 * ticks + TicksPerSecond) \div (2 * TicksPerSecond)
\* Mutant: the rounded seconds as they are.
BareSeconds(k) == Seconds(NewTtl(k))
RetryAfter(k) == LET s == Seconds(NewTtl(k)) IN IF s > 1 THEN s ELSE 1
Within(k) == Counted(k) <= Limit[k]

\* Mutant: what remains of a quota that is exceeded.
Difference(k) == Limit[k] - Counted(k)
Remaining(k) == IF Within(k) THEN Limit[k] - Counted(k) ELSE 0

Decide(k) ==
    [allowed |-> Within(k),
     remaining |-> Remaining(k),
     retry_after |-> IF Within(k) THEN 0 ELSE RetryAfter(k),
     available |-> TRUE]
Script(k) ==
    /\ count' = [count EXCEPT ![k] = Counted(k)]
    /\ ttl' = [ttl EXCEPT ![k] = NewTtl(k)]

-----------------------------------------------------------------------------
(* check_rate_limit. *)

Idle(r) == pc[r] \in {"idle", "served", "429", "503"}
Begin(r, k) ==
    /\ Idle(r)
    /\ key' = [key EXCEPT ![r] = k]
    /\ basis' = [basis EXCEPT ![r] = NoBasis]
    /\ IF Enabled
       THEN /\ pc' = [pc EXCEPT ![r] = "gate"]
            /\ decision' = [decision EXCEPT ![r] = Undecided]
       ELSE /\ pc' = [pc EXCEPT ![r] = "decided"]
            /\ decision' = [decision EXCEPT ![r] = Disabled(k)]
    /\ UNCHANGED <<count, ttl, late, persists, recent>>

Permit(r) ==
    /\ pc[r] = "gate"
    /\ pc' = [pc EXCEPT ![r] = "eval"]
    /\ UNCHANGED <<count, ttl, late, persists, key, decision, recent, basis>>

\* Quota is used by a script that allows, whether or not it is heard, and by
\* a request let through without one.
Fresh(k) ==
    CHOOSE g \in {[age |-> 0, no |-> n] : n \in 0 .. Cardinality(recent[k])} :
        g \notin recent[k]
Note(k, used) == IF used THEN [recent EXCEPT ![k] = @ \cup {Fresh(k)}] ELSE recent

\* Redis runs the script and its reply is read.
Eval(r) ==
    LET k == key[r] IN
    /\ pc[r] = "eval"
    /\ Script(k)
    /\ pc' = [pc EXCEPT ![r] = "decided"]
    /\ decision' = [decision EXCEPT ![r] = Decide(k)]
    /\ recent' = Note(k, Within(k))
    /\ basis' = [basis EXCEPT ![r] = [left |-> NewTtl(k), busy |-> Cardinality(recent[k])]]
    /\ UNCHANGED <<late, persists, key>>

\* Mutant: a limiter that cannot be reached lets requests pass.
Lenient(k) == [allowed |-> TRUE, remaining |-> Limit[k], retry_after |-> 0,
               available |-> FALSE]
Unavailable(k) ==
    [allowed |-> FailOpen, remaining |-> IF FailOpen THEN Limit[k] ELSE 0,
     retry_after |-> IF FailOpen THEN 0 ELSE Window[k], available |-> FALSE]

GiveUp(r) ==
    LET d == Unavailable(key[r]) IN
    /\ pc' = [pc EXCEPT ![r] = "decided"]
    /\ decision' = [decision EXCEPT ![r] = d]
    /\ UNCHANGED <<persists, key, basis>>

\* The circuit is open (CircuitBreaker says when): Redis is not asked.
FailFast(r) ==
    /\ "redis" \in Faults /\ pc[r] = "gate"
    /\ GiveUp(r)
    /\ recent' = Note(key[r], decision'[r].allowed)
    /\ UNCHANGED <<count, ttl, late>>

\* A connection error, a timeout or an unreadable reply: the script has run,
\* will not run, or is going to run later.
EvalLost(r) ==
    LET k == key[r] IN
    /\ "redis" \in Faults /\ pc[r] = "eval"
    /\ GiveUp(r)
    /\ \/ /\ Script(k) /\ UNCHANGED late
          /\ recent' = Note(k, Within(k) \/ decision'[r].allowed)
       \/ /\ UNCHANGED <<count, ttl, late>>
          /\ recent' = Note(k, decision'[r].allowed)
       \/ /\ late[k] < MaxLate
          /\ late' = [late EXCEPT ![k] = @ + 1]
          /\ recent' = Note(k, decision'[r].allowed)
          /\ UNCHANGED <<count, ttl>>

Outcome(d) == IF d.allowed THEN "served" ELSE IF d.available THEN "429" ELSE "503"
Enforce(r) ==
    /\ pc[r] = "decided"
    /\ pc' = [pc EXCEPT ![r] = Outcome(decision[r])]
    /\ UNCHANGED <<count, ttl, late, persists, key, decision, recent, basis>>

-----------------------------------------------------------------------------
(* Redis, by itself. *)

Late(k) ==
    /\ late[k] > 0
    /\ late' = [late EXCEPT ![k] = @ - 1]
    /\ Script(k)
    /\ recent' = Note(k, Within(k))
    /\ UNCHANGED <<persists, pc, key, decision, basis>>

\* "A key left without expiry by an interrupted or manually altered state."
Persist(k) ==
    /\ "persist" \in Faults /\ persists < MaxPersists /\ count[k] > 0
    /\ persists' = persists + 1
    /\ ttl' = [ttl EXCEPT ![k] = NoExpiry]
    /\ UNCHANGED <<count, late, pc, key, decision, recent, basis>>

Aged(g) == [g EXCEPT !.age = @ + 1]
Older(k) == {Aged(g) : g \in {e \in recent[k] : e.age + 1 < Ticks(k)}}
Tick ==
    /\ ttl' = [k \in Key |-> IF ttl[k] > 0 THEN ttl[k] - 1 ELSE ttl[k]]
    /\ count' = [k \in Key |-> IF ttl[k] = 1 THEN 0 ELSE count[k]]
    /\ recent' = [k \in Key |-> Older(k)]
    /\ UNCHANGED <<late, persists, pc, key, decision, basis>>

Next ==
    \/ \E r \in Request :
          \/ \E k \in Key : Begin(r, k)
          \/ Permit(r) \/ Eval(r) \/ FailFast(r) \/ EvalLost(r) \/ Enforce(r)
    \/ \E k \in Key : Late(k) \/ Persist(k)
    \/ Tick

Spec == Init /\ [][Next]_vars

\* Time passes; that clients send requests, or stop, is not assumed.
FairSpec == Spec /\ WF_vars(Tick)

-----------------------------------------------------------------------------

\* In no interval of a window's length are more than twice Limit requests let
\* through, wherever the fixed windows lie, whatever was lost or came late,
\* as long as an unreachable limiter refuses.
SlidingBound == \A k \in Key : Cardinality(recent[k]) <= 2 * Limit[k]

\* A request is refused for its quota only if the quota was really used up
\* within the last window, except by a counter that lost its expiry.
ThrottledOnlyWhenBusy ==
    \A r \in Request :
        pc[r] = "429" => basis[r].busy >= Limit[key[r]] \/ persists > 0

\* Retry-After is at least a second and at most the window, and when it is
\* over, no more than half a second of the window is left.
RetryAfterIsHonest ==
    \A r \in Request :
        pc[r] \in {"429", "503"} =>
            LET d == decision[r].retry_after IN
            /\ 1 <= d /\ d <= Window[key[r]]
            /\ 2 * basis[r].left <= (2 * d + 1) * TicksPerSecond

\* Whoever runs the script, and whatever it finds, it leaves an expiry behind:
\* no client is locked out for good by a counter that lost its own.
ScriptLeavesExpiry ==
    [][\A r \in Request :
          pc[r] = "eval" /\ pc'[r] = "decided" /\ decision'[r].available
              => ttl'[key[r]] > 0]_vars

\* A spent quota comes back, however busy the client keeps its key.
ThrottleEnds ==
    \A k \in Key : count[k] > Limit[k] ~> count[k] = 0 \/ ttl[k] = NoExpiry
=============================================================================
