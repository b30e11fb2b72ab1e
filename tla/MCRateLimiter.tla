---------------------------- MODULE MCRateLimiter ----------------------------
(* Instances of RateLimiter for TLC. *)
EXTENDS RateLimiter, TLC

CONSTANTS OneLimit, OneWindow   \* the same for every key

Limits == [k \in Key |-> OneLimit]
Windows == [k \in Key |-> OneWindow]
==============================================================================
