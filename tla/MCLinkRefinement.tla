--------------------------- MODULE MCLinkRefinement ---------------------------
(* An instance of LinkRefinement for TLC. *)
EXTENDS LinkRefinement, TLC

\* All the threads in one process, or each in a process of its own.
OneWorker == [h \in Handler |-> CHOOSE w \in Worker : TRUE]
\* Interchangeable values.
Symmetry == Permutations(Url) \cup Permutations(Handler)
===============================================================================
