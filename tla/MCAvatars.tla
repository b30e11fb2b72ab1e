------------------------------- MODULE MCAvatars -------------------------------
(* Small instances of Avatars: two requests of one worker, one of another. *)
EXTENDS Avatars, TLC
CONSTANTS w1, w2, r1, r2, r3
OneAlone == r1 :> w1 @@ r2 :> w1 @@ r3 :> w2
NamesAndThreads == Permutations(File) \cup Permutations({r1, r2})
=============================================================================
