---------------------------- MODULE LinkRefinement ----------------------------
(* Links implements LinkDirectory. *)
EXTENDS Links

\* A history variable beside those of Links: per code, the destinations of the
\* rows it has had, Missing before the first and between them.
VARIABLE said

HInit == Init /\ said = [c \in Code |-> {Missing}]
HNext == Next /\ said' = [c \in Code |-> said[c] \cup {urls'[c].url}]
hvars == <<vars, said>>
HSpec == HInit /\ [][HNext]_hvars

\* A creation and a deletion have had their effect once they go on to the
\* cache; a lookup has its answer when the cache or the table has given it.
Effective(r) == r.op = "del"
Settled(r) == Effective(r) \/ (r.kind = "redirect" /\ r.url # NoEntry)

\* The request of a handler that is at step p with locals r.  The code of a
\* creation is its own only when it has a row.
RequestIn(p, r) ==
    [kind |-> r.kind, user |-> r.user,
     code |-> IF r.kind = "create" /\ ~Effective(r) THEN NoCode ELSE r.code,
     url |-> r.url, id |-> r.id,
     answer |-> IF p = "answered" THEN r.answer
                ELSE IF Settled(r) THEN Outcome(r) ELSE "none"]
requests == [h \in Handler |-> RequestIn(pc[h], loc[h])]

Directory == INSTANCE LinkDirectory WITH
    Client <- Handler, Unknown <- NoEntry, Cached <- CacheOn,
    request <- requests

\* Whatever the handlers, the cache, the circuits and the failures do in
\* between: every request takes effect at one moment between its question and
\* its answer, or never if the answer is not a success; a creation takes a
\* free code, a deletion removes the very row that it found to be its user's;
\* and a lookup answers with a destination that its code had, up to then.
ImplementsDirectory == Directory!Spec
===============================================================================
