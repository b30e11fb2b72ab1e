----------------------------- MODULE MCWorkerPools -----------------------------
(* Requests of every kind, each beside any two of the kinds in Beside, which *)
(* between them hold a thread, a connection or the event loop in every way   *)
(* that there is: one of each family of handlers.                            *)
EXTENDS WorkerPools

CONSTANTS First, Beside
AsksOfEach == [r \in Request |-> IF r = First THEN Kind ELSE Beside]
===============================================================================
