------------------------------- MODULE MCLinks -------------------------------
(* Instances of Links for TLC. *)
EXTENDS Links, TLC

\* All the threads in one process, or each in a process of its own.
OneWorker == [h \in Handler |-> CHOOSE w \in Worker : TRUE]
OwnWorker == CHOOSE f \in [Handler -> Worker] :
                \A g, h \in Handler : f[g] = f[h] => g = h

\* Interchangeable values.  Threads are interchangeable when they share the
\* only worker, threads of different workers are not permuted.
DataSymmetry == Permutations(Code) \cup Permutations(Url)
ThreadSymmetry == DataSymmetry \cup Permutations(Handler)
==============================================================================
