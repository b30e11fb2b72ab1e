-------------------------- MODULE LinkRefinementProofs --------------------------
(***************************************************************************)
(* Links implements LinkDirectory, for every set of codes, destinations,   *)
(* users, threads and workers, every setting and combination of faults.    *)
(***************************************************************************)
EXTENDS LinkRefinement, LinksProofs

-----------------------------------------------------------------------------
(* The invariant. *)

\* A handler that is to write an entry.
Filling(p, r) == p \in {"gate", "call", "record"} /\ r.op = "set"
\* Nothing but what the table has said reaches the cache, or is on its way.
SaidInv ==
    /\ said \in [Code -> SUBSET (Url \cup {Missing})]
    /\ \A c \in Code : urls[c].url \in said[c]
    /\ \A c \in Code : cache[c] \in said[c] \cup {NoEntry}
    /\ \A e \in late : e.val \in said[e.code] \cup {NoEntry}
    /\ \A h \in Handler :
          Filling(pc[h], loc[h]) => loc[h].url \in said[loc[h].code]

HInv == Typed /\ Shapes /\ SaidInv

-----------------------------------------------------------------------------
(* What the table has said. *)

\* The history grows with the table, and stays where the table does.
LEMMA SaidGrows ==
    ASSUME Typed', SaidInv, said' = [c \in Code |-> said[c] \cup {urls'[c].url}]
    PROVE  /\ said' \in [Code -> SUBSET (Url \cup {Missing})]
           /\ \A c \in Code : urls'[c].url \in said'[c] /\ said[c] \subseteq said'[c]
           /\ UNCHANGED urls => UNCHANGED said
<1>1. \A c \in Code : urls'[c].url \in Url \cup {Missing}
  BY DEF Typed, TypeOK, Row, NoRow
<1> QED BY <1>1 DEF SaidInv

\* An entry that is set holds something the table has said.
LEMMA ApplySaid ==
    ASSUME Typed, SaidInv, NEW c \in Code, NEW v \in said[c] \cup {NoEntry},
           Apply(c, v), \A d \in Code : said[d] \subseteq said'[d]
    PROVE  \A d \in Code : cache'[d] \in said'[d] \cup {NoEntry}
BY DEF Apply, SaidInv, Typed, TypeOK

\* So does a command that is given up, and one that is due.
LEMMA AbandonSaid ==
    ASSUME Typed, SaidInv, NEW H \in SUBSET Handler, Abandon(H),
           \A d \in Code : said[d] \subseteq said'[d]
    PROVE  \A e \in late' : e.val \in said'[e.code] \cup {NoEntry}
<1>1. \A e \in Sent(H) : e.val \in said[e.code] \cup {NoEntry} /\ e.code \in Code
  <2> SUFFICES ASSUME NEW h \in H, pc[h] = "call", loc[h].op # "get"
               PROVE  /\ loc[h].code \in Code
                      /\ loc[h].op = "set" => loc[h].url \in said[loc[h].code]
    BY DEF Sent
  <2> QED BY DEF SaidInv, Filling, Typed, LocalsOK, WellFormed
<1>2. \A e \in late : e.val \in said[e.code] \cup {NoEntry} /\ e.code \in Code
  BY DEF SaidInv, Typed, TypeOK
<1> QED BY <1>1, <1>2 DEF Abandon

\* A handler that goes on to fill the cache has the value it had before, or
\* one that the table has said.
LEMMA GotoSaid ==
    ASSUME Typed, SaidInv, NEW h \in Handler, NEW p, NEW r, Goto(h, p, r),
           \A d \in Code : said[d] \subseteq said'[d],
           Filling(p, r) =>
              /\ r.code \in Code
              /\ \/ r.url \in said'[r.code]
                 \/ /\ r.url = loc[h].url /\ r.code = loc[h].code
                    /\ Filling(pc[h], loc[h])
    PROVE  \A g \in Handler :
              Filling(pc'[g], loc'[g]) => loc'[g].url \in said'[loc'[g].code]
<1> SUFFICES ASSUME NEW g \in Handler, Filling(pc'[g], loc'[g])
             PROVE  loc'[g].url \in said'[loc'[g].code]
  OBVIOUS
<1>1. CASE g = h
  <2>1. pc'[h] = p /\ loc'[h] = r
    BY DEF Goto, Typed, TypeOK
  <2> QED BY <1>1, <2>1 DEF SaidInv
<1>2. CASE g # h
  <2>1. pc'[g] = pc[g] /\ loc'[g] = loc[g]
    BY <1>2 DEF Goto, Typed, TypeOK
  <2>2. loc[g].code \in Code
    BY <2>1 DEF Typed, LocalsOK, WellFormed, Filling
  <2> QED BY <2>1, <2>2 DEF SaidInv
<1> QED BY <1>1, <1>2

\* Locals that fill nothing ask nothing of the history.
LEMMA StepSaid ==
    ASSUME HInv, Typed', NEW h \in Handler, Start(h) \/ Continue(h),
           said' = [c \in Code |-> said[c] \cup {urls'[c].url}]
    PROVE  SaidInv'
<1>1. /\ said' \in [Code -> SUBSET (Url \cup {Missing})]
      /\ \A c \in Code : urls'[c].url \in said'[c] /\ said[c] \subseteq said'[c]
  BY SaidGrows DEF HInv
<1>2. /\ Typed /\ SaidInv /\ Shape(pc[h], loc[h]) /\ loc[h] \in Local
      /\ pc[h] \notin {"idle", "admit", "insert", "answered"} => loc[h].code \in Code
  BY DEF HInv, Typed, TypeOK, Shapes, LocalsOK, WellFormed
<1> DEFINE Said == \A g \in Handler :
              Filling(pc'[g], loc'[g]) => loc'[g].url \in said'[loc'[g].code]
           Kept == \A d \in Code : cache'[d] \in said'[d] \cup {NoEntry}
           Sendings == \A e \in late' : e.val \in said'[e.code] \cup {NoEntry}
<1>3. UNCHANGED cache => Kept
  BY <1>1, <1>2 DEF SaidInv
<1>4. UNCHANGED late => Sendings
  BY <1>1, <1>2 DEF SaidInv, Typed, TypeOK
<1>5. ASSUME NEW p, NEW r, Goto(h, p, r), p \notin {"gate", "call", "record"}
      PROVE  Said
  BY <1>1, <1>2, <1>5, GotoSaid DEF Filling
<1>6. ASSUME NEW p, NEW r, Goto(h, p, r), r.url = loc[h].url,
             r.code = loc[h].code, r.op = loc[h].op,
             pc[h] \in {"gate", "call", "record"}
      PROVE  Said
  BY <1>1, <1>2, <1>6, GotoSaid DEF Filling
<1>7. ASSUME NEW p, NEW r, Goto(h, p, r), r.op # "set"
      PROVE  Said
  BY <1>1, <1>2, <1>7, GotoSaid DEF Filling
<1>8. UNCHANGED <<cache, late>> /\ Said => SaidInv'
  BY <1>1, <1>3, <1>4 DEF SaidInv
<1> HIDE DEF Said, Kept, Sendings
<1>16. ASSUME NEW a, Reply(h, a)
      PROVE  Said
  BY <1>5, <1>16 DEF Reply
<1>9. CASE Start(h)
  <2>1. UNCHANGED <<cache, late>> /\ pc[h] = "idle"
    BY <1>9 DEF Start, StartCreate, Unauthorized, StartDelete, StartRedirect, Begin
  <2>2. Said
    <3>1. ASSUME NEW u \in User \cup {Anonymous}, NEW x \in Url,
                 StartCreate(h, u, x)
          PROVE  Said
      BY <1>5, <3>1 DEF StartCreate, Begin
    <3>2. ASSUME NEW k \in {"create", "delete"}, Unauthorized(h, k)
          PROVE  Said
      BY <1>5, <3>2 DEF Unauthorized, Begin
    <3>3. ASSUME NEW u \in User, NEW c \in Code, StartDelete(h, u, c)
          PROVE  Said
      BY <1>5, <3>3 DEF StartDelete, Begin
    <3>4. ASSUME NEW c \in Code, StartRedirect(h, c)
          PROVE  Said
      <4>1. [Idle EXCEPT !.kind = "redirect", !.code = c].op # "set"
        BY DEF Idle
      <4> QED BY <1>7, <3>4, <4>1 DEF StartRedirect, Begin
    <3> QED BY <1>9, <3>1, <3>2, <3>3, <3>4 DEF Start
  <2> QED BY <1>8, <2>1, <2>2
<1>10. CASE \/ Admit(h) \/ Recheck(h) \/ SelectOwned(h)
            \/ \E c \in Code : Collide(h, c)
            \/ \E at \in {"insert", "recheck", "select", "delete", "query"} :
                  DbError(h, at)
  <2>1. UNCHANGED <<cache, late>>
    BY <1>10 DEF Admit, Recheck, SelectOwned, Collide, DbError
  <2>2. Said
    <3>1. CASE Admit(h)
      BY <1>5, <1>16, <3>1 DEF Admit
    <3>2. CASE Recheck(h)
      BY <1>5, <1>16, <3>2 DEF Recheck, AfterCollision
    <3>3. CASE SelectOwned(h)
      BY <1>5, <1>16, <3>3 DEF SelectOwned
    <3>4. ASSUME NEW c \in Code, Collide(h, c)
          PROVE  Said
      BY <1>5, <3>4 DEF Collide
    <3>5. ASSUME NEW at, DbError(h, at)
          PROVE  Said
      BY <1>16, <3>5 DEF DbError
    <3> QED BY <1>10, <3>1, <3>2, <3>3, <3>4, <3>5
  <2> QED BY <1>8, <2>1, <2>2
<1>11. CASE DeleteCommit(h) \/ \E c \in Code : Insert(h, c)
  <2>1. UNCHANGED <<cache, late>>
    BY <1>11 DEF DeleteCommit, Insert, CommitUnheard
  <2>2. Said
    <3>1. \A r \in Local : Invalidate(r).op # "set"
      BY DEF Invalidate, Local
    <3>2. Invalidate(loc[h]).op # "set"
      BY <1>2, <3>1
    <3>3. \A c \in Code :
             Invalidate([loc[h] EXCEPT !.code = c, !.id = nextId]).op # "set"
      BY <1>2 DEF Invalidate, Local
    <3>4. CASE DeleteCommit(h)
      BY <1>7, <1>16, <3>2, <3>4 DEF DeleteCommit, CommitUnheard
    <3>5. ASSUME NEW c \in Code, Insert(h, c)
          PROVE  Said
      BY <1>7, <1>16, <3>3, <3>5 DEF Insert, CommitUnheard
    <3> QED BY <1>11, <3>4, <3>5
  <2> QED BY <1>8, <2>1, <2>2
<1>12. CASE Query(h)
  <2> DEFINE r == [loc[h] EXCEPT !.url = urls[loc[h].code].url, !.op = "set"]
  <2>1. UNCHANGED <<cache, late, urls>> /\ Goto(h, "gate", r)
    BY <1>12 DEF Query
  <2>2. /\ r.code = loc[h].code /\ r.url = urls[loc[h].code].url
        /\ loc[h].code \in Code
    BY <1>2, <1>12 DEF Local, Query
  <2> HIDE DEF r
  <2>3. Said
    BY <1>1, <1>2, <2>1, <2>2, GotoSaid DEF Said
  <2> QED BY <1>8, <2>1, <2>3
<1>13. CASE Skip(h) \/ Enter(h) \/ Record(h) \/ Respond(h)
  <2>1. UNCHANGED <<cache, late>>
    BY <1>13 DEF Skip, Enter, Record, Respond
  <2>2. Said
    BY <1>5, <1>6, <1>13 DEF Skip, Enter, Record, Respond, Return
  <2> QED BY <1>8, <2>1, <2>2
<1>14. CASE Call(h)
  <2>1. UNCHANGED late /\ pc[h] = "call"
    BY <1>14 DEF Call
  <2>2. Said
    <3>1. CASE loc[h].op = "get"
      <4>1. [loc[h] EXCEPT !.url = cache[loc[h].code]].op # "set"
        BY <1>2, <3>1 DEF Local
      <4> QED BY <1>7, <1>14, <3>1, <4>1 DEF Call
    <3>2. CASE loc[h].op # "get"
      BY <1>6, <1>14, <3>2 DEF Call
    <3> QED BY <3>1, <3>2
  <2>3. Kept
    <3>1. CASE loc[h].op = "get"
      BY <1>3, <1>14, <3>1 DEF Call
    <3>2. CASE loc[h].op # "get"
      <4> DEFINE v == IF loc[h].op = "set" THEN loc[h].url ELSE NoEntry
      <4>1. loc[h].code \in Code /\ v \in said[loc[h].code] \cup {NoEntry}
        BY <1>2, <2>1 DEF SaidInv, Filling
      <4>2. Apply(loc[h].code, v)
        BY <1>14, <3>2 DEF Call
      <4> HIDE DEF v
      <4> QED BY <1>1, <1>2, <4>1, <4>2, ApplySaid DEF Kept
    <3> QED BY <3>1, <3>2
  <2> QED BY <1>1, <1>4, <2>1, <2>2, <2>3 DEF SaidInv, Said, Kept, Sendings
<1>15. CASE LostCall(h)
  <2>1. UNCHANGED cache /\ Abandon({h}) /\ pc[h] = "call"
        /\ Goto(h, "record", [loc[h] EXCEPT !.ok = FALSE])
    BY <1>15 DEF LostCall
  <2>2. Sendings
    BY <1>1, <1>2, <2>1, AbandonSaid DEF Sendings
  <2>3. [loc[h] EXCEPT !.ok = FALSE].url = loc[h].url
        /\ [loc[h] EXCEPT !.ok = FALSE].code = loc[h].code
        /\ [loc[h] EXCEPT !.ok = FALSE].op = loc[h].op
    BY <1>2 DEF Local
  <2>4. Said
    BY <1>6, <2>1, <2>3
  <2> QED BY <1>1, <1>3, <2>1, <2>2, <2>4 DEF SaidInv, Said, Kept, Sendings
<1> QED BY <1>9, <1>10, <1>11, <1>12, <1>13, <1>14, <1>15 DEF Continue

\* The invariant holds at first.
LEMMA HInvInit == HInit => HInv
<1> SUFFICES ASSUME HInit PROVE HInv
  OBVIOUS
<1>1. Typed
  BY InitType DEF HInit
<1>2. Shape("idle", Idle)
  BY DEF Shape, Idle
<1>3. Shapes
  BY <1>2 DEF HInit, Init, Shapes
<1>4. SaidInv
  BY DEF HInit, Init, SaidInv, Filling, NoRow
<1> QED BY <1>1, <1>3, <1>4 DEF HInv

\* Every step keeps the invariant.
LEMMA HInvNext == HInv /\ [HNext]_hvars => HInv'
<1> SUFFICES ASSUME HInv, [HNext]_hvars PROVE HInv'
  OBVIOUS
<1>1. Typed' /\ Shapes'
  <2>1. [Next]_vars
    BY DEF HNext, hvars
  <2> QED BY <2>1, NextType, ShapesNext DEF HInv
<1>2. CASE UNCHANGED hvars
  <2>1. SaidInv'
    BY <1>2 DEF hvars, vars, HInv, SaidInv
  <2> QED BY <1>1, <2>1 DEF HInv
<1>3. CASE HNext
  <2>0. said' = [c \in Code |-> said[c] \cup {urls'[c].url}]
    BY <1>3 DEF HNext
  <2>1. /\ said' \in [Code -> SUBSET (Url \cup {Missing})]
        /\ \A c \in Code : urls'[c].url \in said'[c] /\ said[c] \subseteq said'[c]
    BY <1>1, <2>0, SaidGrows DEF HInv
  <2>2. ASSUME NEW h \in Handler, Start(h) \/ Continue(h)
        PROVE  SaidInv'
    BY <1>1, <2>0, <2>2, StepSaid
  <2>3. ASSUME NEW c \in Code, Expire(c)
        PROVE  SaidInv'
    <3>1. \A d \in Code : cache'[d] \in said'[d] \cup {NoEntry}
      BY <2>1, <2>3, ApplySaid DEF Expire, HInv
    <3> QED BY <2>1, <2>3, <3>1 
            DEF Expire, HInv, SaidInv, Typed, TypeOK, LocalsOK, WellFormed, Filling
  <2>4. ASSUME NEW e \in late, Land(e)
        PROVE  SaidInv'
    <3>0. e.code \in Code /\ e.val \in said[e.code] \cup {NoEntry}
      BY DEF HInv, SaidInv, Typed, TypeOK
    <3>1. \A d \in Code : cache'[d] \in said'[d] \cup {NoEntry}
      BY <2>1, <2>4, <3>0, ApplySaid DEF Land, HInv
    <3> QED BY <2>1, <2>4, <3>1 
            DEF Land, HInv, SaidInv, Typed, TypeOK, LocalsOK, WellFormed, Filling
  <2>5. ASSUME NEW w \in Worker, CircuitCloses(w)
        PROVE  SaidInv'
    BY <2>1, <2>5 DEF CircuitCloses, HInv, SaidInv, Typed, TypeOK, LocalsOK,
                      WellFormed, Filling
  <2>6. ASSUME NEW w \in Worker, Crash(w)
        PROVE  SaidInv'
    <3>1. \A e \in late' : e.val \in said'[e.code] \cup {NoEntry}
      BY <2>1, <2>6, AbandonSaid DEF Crash, HInv
    <3> QED BY <2>1, <2>6, <3>1
            DEF Crash, HInv, SaidInv, Typed, TypeOK, LocalsOK, WellFormed, Filling
  <2>7. SaidInv'
    BY <1>3, <2>2, <2>3, <2>4, <2>5, <2>6 DEF HNext, Next
  <2> QED BY <1>1, <2>7 DEF HInv
<1> QED BY <1>2, <1>3

-----------------------------------------------------------------------------
(* Steps of the directory. *)

\* The initial states are initial states of the directory.
LEMMA Initially == HInit => Directory!Init
BY DEF HInit, Init, Directory!Init, Directory!NoRow, Directory!Nobody,
       Directory!Request, NoRow,
       requests, RequestIn, Idle, Settled, Effective

\* A handler that goes to a step has the request of that step.
LEMMA RequestsStep ==
    ASSUME Typed, NEW h \in Handler, NEW p, NEW r, Goto(h, p, r)
    PROVE  requests' = [requests EXCEPT ![h] = RequestIn(p, r)]
<1>1. \A g \in Handler : g # h => pc'[g] = pc[g] /\ loc'[g] = loc[g]
  BY DEF Typed, TypeOK, Goto
<1>2. pc'[h] = p /\ loc'[h] = r
  BY DEF Typed, TypeOK, Goto
<1>3. \A g \in Handler : requests'[g] = IF g = h THEN RequestIn(p, r) ELSE requests[g]
  BY <1>1, <1>2 DEF requests
<1> QED BY <1>3 DEF requests

Same == UNCHANGED <<urls, nextId, said>>
\* A step that changes neither the table nor its handler's request.
LEMMA Stutters ==
    ASSUME Typed, NEW h \in Handler, NEW p, NEW r, Goto(h, p, r), Same,
           RequestIn(p, r) = requests[h]
    PROVE  UNCHANGED Directory!vars
<1>1. requests' = [requests EXCEPT ![h] = requests[h]]
  BY RequestsStep
<1>2. requests' = requests
  BY <1>1 DEF requests
<1> QED BY <1>2 DEF Same, Directory!vars

\* An answer without an effect.
LEMMA Refuses ==
    ASSUME HInv, NEW h \in Handler, Same,
           NEW a \in {"refused", "exhausted", "not_owned", "error"},
           Reply(h, a), pc[h] \notin {"idle", "answered"}, ~Settled(loc[h]),
           a \in {"refused", "exhausted"} => loc[h].kind = "create",
           a = "exhausted" => \E c \in Code : Exists(c),
           a = "not_owned" =>
              /\ loc[h].kind = "delete" /\ loc[h].id = 0
              /\ ~(Exists(loc[h].code) /\ urls[loc[h].code].owner = loc[h].user)
    PROVE  Directory!Refuse(h)
<1> DEFINE r == requests[h]
<1>1. loc[h] \in Local
  BY DEF HInv, Typed, TypeOK
<1>2. /\ r.kind = loc[h].kind /\ r.id = loc[h].id /\ r.user = loc[h].user
      /\ r.kind = "delete" => r.code = loc[h].code
      /\ r.answer = "none"
  BY DEF requests, RequestIn
<1>3. RequestIn("answered", [loc[h] EXCEPT !.answer = a]) = [r EXCEPT !.answer = a]
  BY <1>1 DEF requests, RequestIn, Effective, Local
<1>4. Directory!Update(h, [r EXCEPT !.answer = a])
  BY <1>3, RequestsStep DEF Reply, HInv, Directory!Update
<1> QED BY <1>2, <1>4 DEF Directory!Refuse, Same, Directory!Exists, Exists

\* A handler that starts on a request has been asked it.
LEMMA Asks ==
    ASSUME HInv, NEW h \in Handler, NEW p, NEW r, NEW q, Same,
           pc[h] = "idle", Goto(h, p, r), RequestIn(p, r) = q
    PROVE  Directory!Ask(h, q)
<1>1. loc[h] = Idle /\ Typed
  BY DEF HInv, Shapes, Shape
<1>2. requests[h] = Directory!Nobody
  BY <1>1 DEF requests, RequestIn, Idle, Settled, Effective, Directory!Nobody,
              Directory!Request
<1>3. Directory!Update(h, q)
  BY <1>1, RequestsStep DEF Directory!Update
<1> QED BY <1>2, <1>3 DEF Directory!Ask, Same

\* A question.
LEMMA StartRefines ==
    ASSUME HInv, NEW h \in Handler, Start(h), Same
    PROVE  Directory!Next
<1>1. ASSUME NEW u \in User \cup {Anonymous}, NEW x \in Url, StartCreate(h, u, x)
      PROVE  Directory!AskToCreate(h, u, x)
  <2> DEFINE r == [Idle EXCEPT !.kind = "create", !.user = u, !.url = x]
             q == Directory!Request("create", u, NoCode, x, 0, "none")
  <2>1. RequestIn("admit", r) = q
    <3>1. /\ r.kind = "create" /\ r.code = NoCode /\ r.url = x /\ r.user = u
          /\ r.id = 0 /\ r.op = "get" /\ r.answer = "none"
      BY DEF Idle
    <3> HIDE DEF r
    <3> QED BY <3>1 DEF Directory!Request, RequestIn, Settled, Effective
  <2>2. pc[h] = "idle" /\ Goto(h, "admit", r)
    BY <1>1 DEF StartCreate, Begin
  <2> HIDE DEF r
  <2>3. Directory!Ask(h, q)
    BY <2>1, <2>2, Asks
  <2> QED BY <2>3 DEF Directory!AskToCreate
<1>2. ASSUME NEW k \in {"create", "delete"}, Unauthorized(h, k)
      PROVE  Directory!TurnAway(h, k)
  <2> DEFINE r == [Idle EXCEPT !.kind = k, !.answer = "unauthorized"]
             q == Directory!Request(k, Anonymous, NoCode, NoEntry, 0, "unauthorized")
  <2>1. RequestIn("answered", r) = q
    <3>1. /\ r.kind = k /\ r.code = NoCode /\ r.url = NoEntry /\ r.user = Anonymous
          /\ r.id = 0 /\ r.op = "get" /\ r.answer = "unauthorized"
      BY DEF Idle
    <3> HIDE DEF r
    <3> QED BY <3>1 DEF Directory!Request, RequestIn, Settled, Effective
  <2>2. pc[h] = "idle" /\ Goto(h, "answered", r)
    BY <1>2 DEF Unauthorized, Begin
  <2> HIDE DEF r
  <2>3. Directory!Ask(h, q)
    BY <2>1, <2>2, Asks
  <2> QED BY <2>3 DEF Directory!TurnAway
<1>3. ASSUME NEW u \in User, NEW c \in Code, StartDelete(h, u, c)
      PROVE  Directory!AskToDelete(h, u, c)
  <2> DEFINE r == [Idle EXCEPT !.kind = "delete", !.user = u, !.code = c]
             q == Directory!Request("delete", u, c, NoEntry, 0, "none")
  <2>1. RequestIn("select", r) = q
    <3>1. /\ r.kind = "delete" /\ r.code = c /\ r.url = NoEntry /\ r.user = u
          /\ r.id = 0 /\ r.op = "get" /\ r.answer = "none"
      BY DEF Idle
    <3> HIDE DEF r
    <3> QED BY <3>1 DEF Directory!Request, RequestIn, Settled, Effective
  <2>2. pc[h] = "idle" /\ Goto(h, "select", r)
    BY <1>3 DEF StartDelete, Begin
  <2> HIDE DEF r
  <2>3. Directory!Ask(h, q)
    BY <2>1, <2>2, Asks
  <2> QED BY <2>3 DEF Directory!AskToDelete
<1>4. ASSUME NEW c \in Code, StartRedirect(h, c)
      PROVE  Directory!AskForUrl(h, c)
  <2> DEFINE r == [Idle EXCEPT !.kind = "redirect", !.code = c]
             q == Directory!Request("redirect", Anonymous, c, NoEntry, 0, "none")
  <2>1. RequestIn("gate", r) = q
    <3>1. /\ r.kind = "redirect" /\ r.code = c /\ r.url = NoEntry /\ r.user = Anonymous
          /\ r.id = 0 /\ r.op = "get" /\ r.answer = "none"
      BY DEF Idle
    <3> HIDE DEF r
    <3> QED BY <3>1 DEF Directory!Request, RequestIn, Settled, Effective
  <2>2. pc[h] = "idle" /\ Goto(h, "gate", r)
    BY <1>4 DEF StartRedirect, Begin
  <2> HIDE DEF r
  <2>3. Directory!Ask(h, q)
    BY <2>1, <2>2, Asks
  <2> QED BY <2>3 DEF Directory!AskForUrl
<1> QED BY <1>1, <1>2, <1>3, <1>4 DEF Start, Directory!Next

\* The row of a code, in the table and in the history.
LEMMA Enters ==
    ASSUME HInv, NEW h \in Handler, NEW c \in Code, NEW row, NEW n,
           Commit(h, c, row, n),
           said' = [d \in Code |-> said[d] \cup {urls'[d].url}]
    PROVE  Directory!Enter(c, row)
<1>1. urls' = [urls EXCEPT ![c] = row]
  BY DEF Commit
<1>2. \A d \in Code : said'[d] = IF d = c THEN said[d] \cup {row.url} ELSE said[d]
  BY <1>1 DEF HInv, SaidInv, Typed, TypeOK
<1>3. said' = [said EXCEPT ![c] = said[c] \cup {row.url}]
  BY <1>2 DEF HInv, SaidInv
<1> QED BY <1>1, <1>3 DEF Directory!Enter

\* The steps that change the table.
LEMMA InsertRefines ==
    ASSUME HInv, NEW h \in Handler, NEW c \in Code, Insert(h, c),
           said' = [d \in Code |-> said[d] \cup {urls'[d].url}]
    PROVE  Directory!Create(h, c)
<1> DEFINE r == requests[h]
           new == Invalidate([loc[h] EXCEPT !.code = c, !.id = nextId])
<1>1. /\ loc[h] \in Local /\ Typed /\ pc[h] = "insert"
      /\ loc[h].kind = "create" /\ loc[h].op = "get"
  BY DEF Insert, HInv, Typed, TypeOK, Shapes, Shape
<1>2. /\ Directory!Pending(h, "create") /\ r.url = loc[h].url /\ r.user = loc[h].user
      /\ ~Directory!Exists(c) /\ nextId' = nextId + 1
  BY <1>1 DEF Directory!Pending, requests, RequestIn, Settled, Effective,
              Insert, Exists, Directory!Exists
<1>3. NewRow(h) = [id |-> nextId, url |-> r.url, owner |-> r.user]
  BY <1>2 DEF NewRow
<1>4. CASE Commit(h, c, NewRow(h), 1) /\ Goto(h, "gate", new)
  <2>0. /\ new.kind = "create" /\ new.op = "del" /\ new.code = c
        /\ new.id = nextId /\ new.url = loc[h].url /\ new.user = loc[h].user
    BY <1>1 DEF Invalidate, Local
  <2> DEFINE q == Directory!Request("create", r.user, c, r.url, nextId, "created")
  <2> HIDE DEF new
  <2>1. RequestIn("gate", new) = q
    BY <1>2, <2>0 DEF RequestIn, Effective, Settled, Outcome, Directory!Request
  <2>2. requests' = [requests EXCEPT ![h] = q]
    BY <1>1, <1>4, <2>1, RequestsStep
  <2>3. Directory!Enter(c, NewRow(h))
    BY <1>4, Enters
  <2> QED BY <1>2, <1>3, <2>2, <2>3 DEF Directory!Create, Directory!Update
<1>5. CASE CommitUnheard(h, c, NewRow(h), 1)
  <2>1. RequestIn("answered", [loc[h] EXCEPT !.answer = "error"]) =
           [r EXCEPT !.answer = "error"]
    BY <1>1 DEF RequestIn, requests, Effective, Local
  <2>2. requests' = [requests EXCEPT ![h] = [r EXCEPT !.answer = "error"]]
    BY <1>1, <1>5, <2>1, RequestsStep DEF CommitUnheard, Reply
  <2>3. Directory!Enter(c, NewRow(h))
    BY <1>5, Enters DEF CommitUnheard
  <2> QED BY <1>2, <1>3, <2>2, <2>3 DEF Directory!Create, Directory!Update
<1> QED BY <1>4, <1>5 DEF Insert

\* The commit of a deletion removes the row it found, if it is still there.
LEMMA DeleteRefines ==
    ASSUME HInv, NEW h \in Handler, DeleteCommit(h),
           said' = [d \in Code |-> said[d] \cup {urls'[d].url}],
           UNCHANGED urls => UNCHANGED said
    PROVE  Directory!Remove(h)
<1> DEFINE r == requests[h]
           c == loc[h].code
           end(a) == [r EXCEPT !.answer = a]
<1>1. /\ loc[h] \in Local /\ Typed /\ pc[h] = "delete" /\ c \in Code
      /\ loc[h].kind = "delete" /\ loc[h].op = "get" /\ loc[h].id # 0
  BY DEF DeleteCommit, HInv, Typed, TypeOK, LocalsOK, WellFormed, Shapes, Shape
<1>2. /\ Directory!Pending(h, "delete") /\ r.id = loc[h].id /\ r.code = c
      /\ Target(h) <=> urls[c].id = r.id
      /\ UNCHANGED nextId /\ Directory!NoRow = NoRow
  BY <1>1 DEF Directory!Pending, requests, RequestIn, Settled, Effective,
              DeleteCommit, Target, Directory!NoRow, NoRow
<1>3. CASE /\ Goto(h, "gate", Invalidate(loc[h]))
           /\ IF Target(h) THEN Commit(h, c, NoRow, 0)
                           ELSE UNCHANGED <<urls, announced, obs>>
  <2>1. RequestIn("gate", Invalidate(loc[h])) = end("deleted")
    BY <1>1 DEF RequestIn, requests, Invalidate, Effective, Settled, Outcome, Local
  <2>2. requests' = [requests EXCEPT ![h] = end("deleted")]
    BY <1>1, <1>3, <2>1, RequestsStep
  <2>3. Target(h) => Directory!Enter(c, NoRow)
    BY <1>1, <1>3, Enters
  <2> HIDE DEF end
  <2> QED BY <1>1, <1>2, <1>3, <2>2, <2>3
          DEF Directory!Remove, Directory!Update, end
<1>4. CASE Target(h) /\ CommitUnheard(h, c, NoRow, 0)
  <2>1. RequestIn("answered", [loc[h] EXCEPT !.answer = "error"]) = end("error")
    BY <1>1 DEF RequestIn, requests, Effective, Local
  <2>2. requests' = [requests EXCEPT ![h] = end("error")]
    BY <1>1, <1>4, <2>1, RequestsStep DEF CommitUnheard, Reply
  <2>3. Directory!Enter(c, NoRow)
    BY <1>1, <1>4, Enters DEF CommitUnheard
  <2> QED BY <1>1, <1>2, <1>4, <2>2, <2>3 DEF Directory!Remove, Directory!Update
<1> QED BY <1>3, <1>4 DEF DeleteCommit

\* A step inside a use of the cache shows in no request.
LEMMA ReturnStutters ==
    ASSUME HInv, NEW h \in Handler, NEW p \in {"gate", "record"}, pc[h] = p,
           NEW r \in Local, Shape(p, r), Return(h, r), Same,
           RequestIn(p, r) = requests[h]
    PROVE  UNCHANGED Directory!vars
<1> DEFINE new == [r EXCEPT !.answer = Outcome(r)]
<1>1. CASE r.op = "get" /\ r.url = NoEntry
  <2>1. RequestIn("query", r) = RequestIn(p, r)
    BY DEF RequestIn
  <2> QED BY <1>1, <2>1, Stutters DEF Return, HInv
<1>2. CASE ~(r.op = "get" /\ r.url = NoEntry)
  <2>1. /\ new.kind = r.kind /\ new.user = r.user /\ new.code = r.code
        /\ new.url = r.url /\ new.id = r.id /\ new.op = r.op
        /\ new.answer = Outcome(r)
    BY DEF Local
  <2>2. Settled(r)
    BY <1>2 DEF Shape, Settled, Effective
  <2> HIDE DEF new
  <2>3. RequestIn("answered", new) = RequestIn(p, r)
    BY <2>1, <2>2 DEF RequestIn, Effective
  <2>4. Goto(h, "answered", new)
    BY <1>2 DEF Return, new
  <2> QED BY <2>3, <2>4, Stutters DEF HInv
<1> QED BY <1>1, <1>2

\* A lookup gets its destination from the cache or from the table.
LEMMA FindsUrl ==
    ASSUME HInv, NEW h \in Handler, NEW p \in {"gate", "record"}, NEW new,
           pc[h] \in {"query", "call"}, Goto(h, p, new), Same,
           loc[h].kind = "redirect", ~Settled(loc[h]), new.url # NoEntry,
           \/ new.url = urls[loc[h].code].url
           \/ CacheOn /\ new.url \in said[loc[h].code],
           new.kind = "redirect", new.user = loc[h].user, new.op # "del",
           new.code = loc[h].code, new.id = loc[h].id
    PROVE  Directory!LookUp(h)
<1> DEFINE r == requests[h]
           q == Directory!Request("redirect", r.user, r.code, new.url, r.id,
                    IF new.url = Missing THEN "missing" ELSE "found")
<1>1. /\ r.kind = "redirect" /\ r.user = loc[h].user /\ r.code = loc[h].code
      /\ r.id = loc[h].id /\ r.answer = "none"
  BY DEF requests, RequestIn
<1>2. RequestIn(p, new) = q
  BY <1>1 DEF RequestIn, Effective, Settled, Outcome, Directory!Request
<1>3. Directory!Update(h, q)
  BY <1>2, RequestsStep DEF HInv, Directory!Update
<1>4. loc[h].code \in Code
  BY DEF HInv, Typed, LocalsOK, WellFormed
<1>5. new.url \in IF CacheOn THEN said[r.code] ELSE {urls[r.code].url}
  BY <1>1, <1>4 DEF HInv, SaidInv
<1> QED BY <1>1, <1>3, <1>5 DEF Directory!LookUp, Directory!Pending, Same

\* The steps that leave the table alone.
LEMMA QuietRefines ==
    ASSUME HInv, NEW h \in Handler, Continue(h), Same,
           ~DeleteCommit(h), \A c \in Code : ~Insert(h, c)
    PROVE  [Directory!Next]_(Directory!vars)
<1>0. /\ loc[h] \in Local /\ Typed /\ Shape(pc[h], loc[h])
      /\ WellFormed(pc[h], loc[h])
  BY DEF HInv, Typed, TypeOK, Shapes, LocalsOK
<1>1. Directory!Refuse(h) => Directory!Next
  BY DEF Directory!Next
<1>2. CASE Admit(h)
  <2>1. pc[h] = "admit" /\ loc[h].kind = "create" /\ ~Settled(loc[h])
    BY <1>0, <1>2 DEF Admit, Shape, Settled, Effective
  <2>2. RequestIn("insert", loc[h]) = requests[h]
    BY <2>1 DEF RequestIn, requests
  <2> QED BY <1>0, <1>1, <1>2, <2>1, <2>2, Stutters, Refuses DEF Admit
<1>3. ASSUME NEW c \in Code, Collide(h, c)
      PROVE  UNCHANGED Directory!vars
  <2> DEFINE new == [loc[h] EXCEPT !.code = c, !.tries = @ + 1]
  <2>1. /\ new.kind = "create" /\ new.user = loc[h].user /\ new.url = loc[h].url
        /\ new.id = loc[h].id /\ new.op = "get"
        /\ loc[h].kind = "create" /\ loc[h].op = "get" /\ pc[h] = "insert"
        /\ Goto(h, "recheck", new)
    BY <1>0, <1>3 DEF Collide, Shape, Local
  <2> HIDE DEF new
  <2>2. RequestIn("recheck", new) = requests[h]
    BY <2>1 DEF RequestIn, requests, Settled, Effective
  <2> QED BY <1>0, <2>1, <2>2, Stutters
<1>4. CASE Recheck(h)
  <2>1. /\ pc[h] = "recheck" /\ loc[h].kind = "create" /\ ~Settled(loc[h])
        /\ loc[h].code \in Code
    BY <1>0, <1>4 DEF Recheck, Shape, Settled, Effective, WellFormed
  <2>2. RequestIn("insert", loc[h]) = requests[h]
    BY <2>1 DEF RequestIn, requests
  <2> QED BY <1>0, <1>1, <1>4, <2>1, <2>2, Stutters, Refuses
          DEF Recheck, AfterCollision
<1>5. CASE SelectOwned(h)
  <2> DEFINE n == urls[loc[h].code].id
             r == requests[h]
  <2>1. /\ pc[h] = "select" /\ loc[h].kind = "delete" /\ loc[h].id = 0
        /\ ~Settled(loc[h])
    BY <1>0, <1>5 DEF SelectOwned, Shape, Settled, Effective
  <2>2. CASE n # 0 /\ urls[loc[h].code].owner = loc[h].user
    <3>1. RequestIn("delete", [loc[h] EXCEPT !.id = n]) = [r EXCEPT !.id = n]
      BY <1>0, <2>1 DEF RequestIn, requests, Local, Settled, Effective
    <3>2. Directory!Update(h, [r EXCEPT !.id = n])
      BY <1>0, <1>5, <2>2, <3>1, RequestsStep DEF SelectOwned, Directory!Update
    <3>3. /\ Directory!Pending(h, "delete") /\ r.id = 0 /\ r.code = loc[h].code
          /\ r.user = loc[h].user
      BY <2>1 DEF RequestIn, requests, Directory!Pending
    <3> HIDE DEF r
    <3>4. Directory!Find(h)
      BY <2>2, <3>2, <3>3 DEF Directory!Find, Directory!Exists, Same, r
    <3> QED BY <3>4 DEF Directory!Next
  <2>3. CASE ~(n # 0 /\ urls[loc[h].code].owner = loc[h].user)
    BY <1>0, <1>1, <1>5, <2>1, <2>3, Refuses DEF SelectOwned, Exists
  <2> QED BY <2>2, <2>3
<1>6. CASE Query(h)
  <2> DEFINE new == [loc[h] EXCEPT !.url = urls[loc[h].code].url, !.op = "set"]
  <2>1. /\ pc[h] = "query" /\ loc[h].kind = "redirect" /\ ~Settled(loc[h])
        /\ loc[h].code \in Code
    BY <1>0, <1>6 DEF Query, Shape, Settled, Effective, WellFormed
  <2>2. urls[loc[h].code].url # NoEntry
    BY <1>0, <2>1, SetsAssumption DEF Typed, TypeOK, Row, NoRow
  <2>3. /\ new.url = urls[loc[h].code].url /\ new.kind = "redirect"
        /\ new.user = loc[h].user /\ new.op = "set"
        /\ new.code = loc[h].code /\ new.id = loc[h].id
    BY <1>0, <2>1 DEF Local
  <2>4. Goto(h, "gate", new)
    BY <1>6 DEF Query
  <2> HIDE DEF new
  <2>5. Directory!LookUp(h)
    BY <2>1, <2>2, <2>3, <2>4, FindsUrl
  <2> QED BY <2>5 DEF Directory!Next
<1>7. ASSUME NEW at \in {"insert", "recheck", "select", "delete", "query"},
             DbError(h, at)
      PROVE  Directory!Next
  <2>1. pc[h] \notin {"idle", "answered"} /\ ~Settled(loc[h])
    BY <1>0, <1>7 DEF DbError, Shape, Settled, Effective
  <2> QED BY <1>1, <1>7, <2>1, Refuses DEF DbError
<1>8. CASE Skip(h)
  <2>1. RequestIn("gate", loc[h]) = requests[h]
    BY <1>8 DEF Skip, requests
  <2> QED BY <1>0, <1>8, <2>1, ReturnStutters DEF Skip
<1>9. CASE Enter(h)
  <2>1. RequestIn("call", loc[h]) = requests[h]
    BY <1>9 DEF Enter, requests, RequestIn
  <2> QED BY <1>0, <1>9, <2>1, Stutters DEF Enter
<1>10. CASE Call(h)
  <2>0. pc[h] = "call"
    BY <1>10 DEF Call
  <2>1. CASE loc[h].op # "get"
    <3>1. RequestIn("record", loc[h]) = requests[h]
      BY <2>0 DEF requests, RequestIn
    <3> QED BY <1>0, <1>10, <2>1, <3>1, Stutters DEF Call
  <2>2. CASE loc[h].op = "get"
    <3> DEFINE v == cache[loc[h].code]
               new == [loc[h] EXCEPT !.url = v]
    <3>1. /\ loc[h].kind = "redirect" /\ loc[h].url = NoEntry
          /\ ~Settled(loc[h]) /\ CacheOn /\ loc[h].code \in Code
      BY <1>0, <2>0, <2>2 DEF Shape, Settled, Effective, WellFormed
    <3>2. /\ new.url = v /\ new.kind = "redirect"
          /\ new.user = loc[h].user /\ new.op = "get"
          /\ new.code = loc[h].code /\ new.id = loc[h].id
      BY <1>0, <2>2, <3>1 DEF Local
    <3>3. Goto(h, "record", new)
      BY <1>10, <2>2 DEF Call
    <3>4. v \in said[loc[h].code] \cup {NoEntry}
      BY <3>1 DEF HInv, SaidInv
    <3> HIDE DEF new, v
    <3>5. CASE v = NoEntry
      <4>1. RequestIn("record", new) = requests[h]
        BY <2>0, <3>1, <3>2, <3>5 DEF RequestIn, requests, Settled, Effective
      <4> QED BY <1>0, <3>3, <4>1, Stutters
    <3>6. CASE v # NoEntry
      <4>1. Directory!LookUp(h)
        BY <2>0, <3>1, <3>2, <3>3, <3>4, <3>6, FindsUrl
      <4> QED BY <4>1 DEF Directory!Next
    <3> QED BY <3>5, <3>6
  <2> QED BY <2>1, <2>2
<1>11. CASE LostCall(h)
  <2> DEFINE new == [loc[h] EXCEPT !.ok = FALSE]
  <2>1. /\ new.kind = loc[h].kind /\ new.user = loc[h].user /\ new.url = loc[h].url
        /\ new.code = loc[h].code /\ new.id = loc[h].id /\ new.op = loc[h].op
    BY <1>0 DEF Local
  <2>2. Goto(h, "record", new) /\ pc[h] = "call"
    BY <1>11 DEF LostCall
  <2> HIDE DEF new
  <2>3. RequestIn("record", new) = requests[h]
    BY <2>1, <2>2 DEF RequestIn, requests, Settled, Effective, Outcome
  <2> QED BY <1>0, <2>2, <2>3, Stutters
<1>12. CASE Record(h)
  <2> DEFINE new == [loc[h] EXCEPT !.ok = TRUE]
  <2>1. /\ new \in Local /\ new.answer = loc[h].answer
        /\ new.kind = loc[h].kind /\ new.user = loc[h].user /\ new.url = loc[h].url
        /\ new.code = loc[h].code /\ new.id = loc[h].id /\ new.op = loc[h].op
    BY <1>0 DEF Local
  <2>2. pc[h] = "record" /\ Return(h, new)
    BY <1>12 DEF Record
  <2> HIDE DEF new
  <2>3. RequestIn("record", new) = requests[h]
    BY <2>1, <2>2 DEF RequestIn, requests, Settled, Effective, Outcome
  <2>4. Shape("record", new)
    BY <1>0, <2>1, <2>2 DEF Shape
  <2> QED BY <2>1, <2>2, <2>3, <2>4, ReturnStutters
<1>13. CASE Respond(h)
  <2>1. requests' = [requests EXCEPT ![h] = RequestIn("idle", Idle)]
    BY <1>0, <1>13, RequestsStep DEF Respond
  <2>2. RequestIn("idle", Idle) = Directory!Nobody
    BY DEF RequestIn, Idle, Settled, Effective, Directory!Nobody, Directory!Request
  <2>3. Directory!End({h})
    BY <2>1, <2>2 DEF Directory!End, requests, Same
  <2> QED BY <2>3 DEF Directory!Next
<1> QED BY <1>2, <1>3, <1>4, <1>5, <1>6, <1>7, <1>8, <1>9, <1>10, <1>11, <1>12,
           <1>13 DEF Continue

\* Every step is a step of the directory, or none that it can see.
LEMMA NextRefines ==
    ASSUME HInv, HInv', [HNext]_hvars
    PROVE  [Directory!Next]_(Directory!vars)
<1>1. CASE UNCHANGED hvars
  BY <1>1 DEF hvars, vars, Directory!vars, requests
<1>2. CASE HNext
  <2>1. said' = [c \in Code |-> said[c] \cup {urls'[c].url}]
    BY <1>2 DEF HNext
  <2>2. UNCHANGED urls => UNCHANGED said
    BY <2>1, SaidGrows DEF HInv
  <2>3. ASSUME NEW h \in Handler, Start(h)
        PROVE  Directory!Next
    <3>1. Same
      BY <2>2, <2>3 DEF Start, StartCreate, Unauthorized, StartDelete,
                        StartRedirect, Begin, Same
    <3> QED BY <2>3, <3>1, StartRefines
  <2>4. ASSUME NEW h \in Handler, Continue(h)
        PROVE  [Directory!Next]_(Directory!vars)
    <3>1. CASE \E c \in Code : Insert(h, c)
      BY <2>1, <3>1, InsertRefines DEF Directory!Next
    <3>2. CASE DeleteCommit(h)
      BY <2>1, <2>2, <3>2, DeleteRefines DEF Directory!Next
    <3>3. CASE ~DeleteCommit(h) /\ \A c \in Code : ~Insert(h, c)
      <4>1. Same
        BY <2>2, <2>4, <3>3
        DEF Continue, Admit, Collide, Recheck, SelectOwned, Query, DbError, Skip,
            Enter, Call, LostCall, Record, Respond, Same
      <4> QED BY <2>4, <3>3, <4>1, QuietRefines
    <3> QED BY <3>1, <3>2, <3>3
  <2>5. CASE \/ \E c \in Code : Expire(c)
             \/ \E e \in late : Land(e)
             \/ \E w \in Worker : CircuitCloses(w)
    BY <2>2, <2>5 DEF Expire, Land, CircuitCloses, Directory!vars, requests
  <2>6. ASSUME NEW w \in Worker, Crash(w)
        PROVE  Directory!Next
    <3> DEFINE H == {h \in Handler : WorkerOf[h] = w}
    <3>1. RequestIn("idle", Idle) = Directory!Nobody
      BY DEF RequestIn, Idle, Settled, Effective, Directory!Nobody,
             Directory!Request
    <3>2. \A h \in Handler :
             requests'[h] = IF h \in H THEN Directory!Nobody ELSE requests[h]
      BY <2>6, <3>1 DEF Crash, requests
    <3>3. Directory!End(H)
      BY <2>2, <2>6, <3>2 DEF Directory!End, Crash, requests
    <3> QED BY <3>3 DEF Directory!Next
  <2> QED BY <1>2, <2>3, <2>4, <2>5, <2>6 DEF HNext, Next
<1> QED BY <1>1, <1>2

\* Links implements the directory: whatever the cache, the circuits, the races
\* and the failures do, each request has its effect at one moment, on the row
\* it found and no other, and a lookup answers what its code has led to
\* (the handlers of create_short_url, delete_account_link and redirect).
THEOREM Implements == HSpec => ImplementsDirectory
<1>1. HInit => HInv
  BY HInvInit
<1>2. HInv /\ [HNext]_hvars => HInv'
  BY HInvNext
<1>3. HInit => Directory!Init
  BY Initially
<1>4. HInv /\ HInv' /\ [HNext]_hvars => [Directory!Next]_(Directory!vars)
  BY NextRefines
<1> QED BY <1>1, <1>2, <1>3, <1>4, PTL DEF HSpec, ImplementsDirectory, Directory!Spec
===============================================================================
