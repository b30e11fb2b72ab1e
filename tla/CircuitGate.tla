------------------------------ MODULE CircuitGate ------------------------------
(***************************************************************************)
(* What a circuit is to the code behind it: a gate that is open or closed  *)
(* to Redis, without clock, deadlines, stamps and warnings.  It is the     *)
(* circuit that module Links gives each of its workers.                    *)
(***************************************************************************)

CONSTANT Thread         \* the threads of one process

VARIABLES
    open,               \* is the circuit open, and Redis left alone?
    pc                  \* where each thread is

gate == <<open, pc>>

Init == open = FALSE /\ pc = [t \in Thread |-> "idle"]

Move(t, from, to) == pc[t] = from /\ pc' = [pc EXCEPT ![t] = to]

\* A thread is let through to Redis.
Pass(t) == ~open /\ Move(t, "idle", "calling") /\ UNCHANGED open

\* Redis answers it or fails it; a probe does not ask the gate.
Learn(t) ==
    /\ \/ Move(t, "calling", "answered")
       \/ Move(t, "calling", "failed")
       \/ Move(t, "idle", "probed")
    /\ UNCHANGED open

\* Whoever had an answer closes the circuit, however late, and whatever others
\* have recorded since.
Close(t) ==
    /\ Move(t, "answered", "idle") \/ Move(t, "probed", "idle")
    /\ open' = FALSE

\* Whoever had a failure opens it, unless the failure is recorded too late to
\* matter; a failure never closes a circuit.
Open(t) ==
    /\ Move(t, "failed", "idle")
    /\ open' \in {open, TRUE}

\* The cooldown is over.
Cool == open' = FALSE /\ UNCHANGED pc

Next == Cool \/ \E t \in Thread : Pass(t) \/ Learn(t) \/ Close(t) \/ Open(t)

Spec == Init /\ [][Next]_gate
=============================================================================
