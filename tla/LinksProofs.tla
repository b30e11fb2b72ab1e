------------------------------ MODULE LinksProofs ------------------------------
(***************************************************************************)
(* Theorems about Links, for every set of codes, destinations, users,      *)
(* threads and workers, every setting and every combination of faults.     *)
(***************************************************************************)
EXTENDS Links, FiniteSetTheorems, TLAPS

-----------------------------------------------------------------------------
(* The locals a handler relies on at each step. *)

WellFormed(p, r) ==
    /\ p \in Step /\ r \in Local
    /\ p \notin {"idle", "admit", "insert", "answered"} => r.code \in Code
    /\ p \in {"admit", "insert", "recheck"} => r.url \in Url
    /\ p \in {"admit", "insert"} => r.tries < MaxAttempts
LocalsOK == \A h \in Handler : WellFormed(pc[h], loc[h])
Typed == TypeOK /\ LocalsOK

-----------------------------------------------------------------------------
(* The shared steps keep the types. *)

\* A handler that goes to a step with well-formed locals keeps all of them so.
LEMMA GotoType ==
    ASSUME Typed, NEW h \in Handler, NEW p, NEW r,
           Goto(h, p, r), WellFormed(p, r)
    PROVE  /\ pc' \in [Handler -> Step] /\ loc' \in [Handler -> Local]
           /\ LocalsOK'
<1>1. pc' \in [Handler -> Step] /\ loc' \in [Handler -> Local]
  BY DEF Typed, TypeOK, Goto, WellFormed
<1>2. \A g \in Handler : g # h => pc'[g] = pc[g] /\ loc'[g] = loc[g]
  BY DEF Typed, TypeOK, Goto
<1>3. pc'[h] = p /\ loc'[h] = r
  BY DEF Typed, TypeOK, Goto
<1> QED
  BY <1>1, <1>2, <1>3 DEF Typed, LocalsOK

\* So does a handler that answers.
LEMMA ReplyType ==
    ASSUME Typed, NEW h \in Handler, NEW a \in Answer, Reply(h, a)
    PROVE  /\ pc' \in [Handler -> Step] /\ loc' \in [Handler -> Local]
           /\ LocalsOK'
<1>1. loc[h] \in Local
  BY DEF Typed, TypeOK
<1>2. [loc[h] EXCEPT !.answer = a] \in Local
  BY <1>1 DEF Local
<1>3. WellFormed("answered", [loc[h] EXCEPT !.answer = a])
  BY <1>2 DEF WellFormed, Step
<1> QED
  BY <1>3, GotoType DEF Reply

\* A commit leaves the table and the observations well typed.
LEMMA CommitType ==
    ASSUME TypeOK, NEW h \in Handler, NEW c \in Code, NEW row \in Row,
           NEW n \in Nat, Commit(h, c, row, n)
    PROVE  /\ urls' \in [Code -> Row] /\ announced' \in [Code -> BOOLEAN]
           /\ obs' \in [Handler -> [seen : SUBSET (Url \cup {Missing}),
                            doubt : BOOLEAN, promised : BOOLEAN, made : Nat]]
<1>1. row.url \in Url \cup {Missing}
  <2>1. CASE row = NoRow
    BY <2>1 DEF NoRow
  <2>2. CASE row \in [id : Nat \ {0}, url : Url, owner : User \cup {Anonymous}]
    BY <2>2
  <2> QED
    BY <2>1, <2>2 DEF Row
<1>2. \A g \in Handler :
        [obs[g] EXCEPT !.seen = IF loc[g].kind = "redirect" /\ loc[g].code = c
                                THEN @ \cup {row.url} ELSE @,
                       !.made = IF g = h THEN @ + n ELSE @]
          \in [seen : SUBSET (Url \cup {Missing}), doubt : BOOLEAN,
               promised : BOOLEAN, made : Nat]
  <2> TAKE g \in Handler
  <2>1. obs[g] \in [seen : SUBSET (Url \cup {Missing}), doubt : BOOLEAN,
                   promised : BOOLEAN, made : Nat]
    BY DEF TypeOK
  <2>2. (IF loc[g].kind = "redirect" /\ loc[g].code = c
         THEN obs[g].seen \cup {row.url} ELSE obs[g].seen)
          \in SUBSET (Url \cup {Missing})
    BY <1>1, <2>1
  <2>3. (IF g = h THEN obs[g].made + n ELSE obs[g].made) \in Nat
    BY <2>1
  <2> QED
    BY <2>1, <2>2, <2>3
<1> QED
  BY <1>2 DEF TypeOK, Commit

\* A Redis command leaves the cache and the causes well typed.
LEMMA ApplyType ==
    ASSUME TypeOK, NEW c \in Code, NEW v \in Url \cup {Missing, NoEntry},
           Apply(c, v)
    PROVE  /\ cache' \in [Code -> Url \cup {Missing, NoEntry}]
           /\ cause' \in [Code -> {"none", "late", "unreached"}]
BY DEF TypeOK, Apply

\* Lost invalidations leave the causes well typed.
LEMMA UnreachedType ==
    ASSUME TypeOK, NEW H \in SUBSET Handler
    PROVE  Unreached(H) \in [Code -> {"none", "late", "unreached"}]
BY DEF TypeOK, Unreached

\* What is sent, and given up, is well typed.
LEMMA AbandonType ==
    ASSUME Typed, NEW H \in SUBSET Handler, Abandon(H)
    PROVE  /\ late' \subseteq [code : Code, val : Url \cup {Missing, NoEntry}]
           /\ cause' \in [Code -> {"none", "late", "unreached"}]
<1>1. \A h \in H : loc[h].url \in Url \cup {Missing, NoEntry}
  BY DEF Typed, TypeOK, Local
<1>2. \A h \in H : pc[h] = "call" => loc[h].code \in Code
  BY DEF Typed, LocalsOK, WellFormed
<1>3. Sent(H) \subseteq [code : Code, val : Url \cup {Missing, NoEntry}]
  BY <1>1, <1>2 DEF Sent
<1> QED
  BY <1>3, UnreachedType DEF Abandon, Typed, TypeOK

\* A request begins with well-formed locals.
LEMMA BeginType ==
    ASSUME Typed, NEW h \in Handler, NEW p, NEW r, Begin(h, p, r),
           WellFormed(p, r),
           obs' \in [Handler -> [seen : SUBSET (Url \cup {Missing}),
                            doubt : BOOLEAN, promised : BOOLEAN, made : Nat]]
    PROVE  Typed'
BY GotoType DEF Begin, Typed, TypeOK

\* A commit that is not acknowledged keeps the types.
LEMMA CommitUnheardType ==
    ASSUME Typed, NEW h \in Handler, NEW c \in Code, NEW row \in Row,
           NEW n \in Nat, CommitUnheard(h, c, row, n), nextId' \in Nat \ {0}
    PROVE  Typed'
<1>1. "error" \in Answer
  BY DEF Answer
<1>2. cause' \in [Code -> {"none", "late", "unreached"}]
  BY DEF CommitUnheard, Typed, TypeOK
<1> QED
  BY <1>1, <1>2, ReplyType, CommitType DEF CommitUnheard, Typed, TypeOK

\* A cache function returns to well-formed locals.
LEMMA ReturnType ==
    ASSUME Typed, NEW h \in Handler, NEW r \in Local, r.code \in Code,
           Return(h, r)
    PROVE  /\ pc' \in [Handler -> Step] /\ loc' \in [Handler -> Local]
           /\ LocalsOK'
<1>1. WellFormed("query", r)
  BY DEF WellFormed, Step
<1>2. Outcome(r) \in Answer
  BY DEF Outcome, Answer
<1>3. [r EXCEPT !.answer = Outcome(r)] \in Local
  BY <1>2 DEF Local
<1>4. WellFormed("answered", [r EXCEPT !.answer = Outcome(r)])
  BY <1>3 DEF WellFormed, Step
<1> QED
  BY <1>1, <1>4, GotoType DEF Return
-----------------------------------------------------------------------------
(* Type correctness. *)

\* The initial state is well typed.
LEMMA InitType == Init => Typed
<1> SUFFICES ASSUME Init PROVE Typed
  OBVIOUS
<1>1. Idle \in Local
  BY SettingsAssumption DEF Idle, Local, Answer
<1>2. NoRow \in Row
  BY DEF Row
<1>3. Unobserved \in [seen : SUBSET (Url \cup {Missing}), doubt : BOOLEAN,
                     promised : BOOLEAN, made : Nat]
  BY DEF Unobserved
<1>4. "idle" \in Step
  BY DEF Step
<1>5. TypeOK
  BY <1>1, <1>2, <1>3, <1>4 DEF Init, TypeOK
<1>6. LocalsOK
  BY <1>1, <1>4 DEF Init, LocalsOK, WellFormed
<1> QED
  BY <1>5, <1>6 DEF Typed

\* Beginning a request keeps the types.
LEMMA StartType ==
    ASSUME Typed, NEW h \in Handler, Start(h)
    PROVE  Typed'
<1>0. Idle \in Local /\ 0 < MaxAttempts
  BY SettingsAssumption DEF Idle, Local, Answer
<1>1. ASSUME NEW u \in User \cup {Anonymous}, NEW url \in Url,
             StartCreate(h, u, url)
      PROVE  Typed'
  <2> DEFINE r == [Idle EXCEPT !.kind = "create", !.user = u, !.url = url]
  <2>1. r \in Local /\ r.url = url /\ r.tries = 0
    BY <1>0 DEF Local, Idle
  <2>2. WellFormed("admit", r)
    BY <2>1, <1>0 DEF WellFormed, Step
  <2> QED
    BY <1>1, <2>2, BeginType DEF StartCreate, Typed, TypeOK
<1>2. ASSUME NEW k \in {"create", "delete"}, Unauthorized(h, k)
      PROVE  Typed'
  <2> DEFINE r == [Idle EXCEPT !.kind = k, !.answer = "unauthorized"]
  <2>1. WellFormed("answered", r)
    BY <1>0 DEF Local, Idle, Answer, WellFormed, Step
  <2> QED
    BY <1>2, <2>1, BeginType DEF Unauthorized, Typed, TypeOK
<1>3. ASSUME NEW u \in User, NEW c \in Code, StartDelete(h, u, c)
      PROVE  Typed'
  <2> DEFINE r == [Idle EXCEPT !.kind = "delete", !.user = u, !.code = c]
  <2>1. WellFormed("select", r)
    BY <1>0 DEF Local, Idle, WellFormed, Step
  <2> QED
    BY <1>3, <2>1, BeginType DEF StartDelete, Typed, TypeOK
<1>4. ASSUME NEW c \in Code, StartRedirect(h, c)
      PROVE  Typed'
  <2> DEFINE r == [Idle EXCEPT !.kind = "redirect", !.code = c]
  <2>1. WellFormed("gate", r)
    BY <1>0 DEF Local, Idle, WellFormed, Step
  <2>2. urls[c].url \in Url \cup {Missing}
    BY DEF Typed, TypeOK, Row, NoRow
  <2>3. obs' \in [Handler -> [seen : SUBSET (Url \cup {Missing}),
                    doubt : BOOLEAN, promised : BOOLEAN, made : Nat]]
    <3> DEFINE o == [Unobserved EXCEPT !.seen = {urls[c].url},
                                       !.promised = announced[c]]
    <3>1. o \in [seen : SUBSET (Url \cup {Missing}),
                doubt : BOOLEAN, promised : BOOLEAN, made : Nat]
      BY <2>2 DEF Unobserved, Typed, TypeOK
    <3>2. obs' = [obs EXCEPT ![h] = o]
      BY <1>4 DEF StartRedirect
    <3> HIDE DEF o
    <3> QED
      BY <3>1, <3>2 DEF Typed, TypeOK
  <2> QED
    BY <1>4, <2>1, <2>3, BeginType DEF StartRedirect
<1> QED
  BY <1>1, <1>2, <1>3, <1>4 DEF Start

\* The database steps of a handler keep the types.
LEMMA DatabaseType ==
    ASSUME Typed, NEW h \in Handler,
           \/ Admit(h)
           \/ \E c \in Code : Insert(h, c) \/ Collide(h, c)
           \/ Recheck(h) \/ SelectOwned(h) \/ DeleteCommit(h) \/ Query(h)
           \/ \E at \in {"insert", "recheck", "select", "delete", "query"} :
                 DbError(h, at)
    PROVE  Typed'
<1>0. /\ WellFormed(pc[h], loc[h]) /\ loc[h] \in Local
      /\ {"refused", "error", "exhausted", "not_owned"} \subseteq Answer
      /\ {"insert", "recheck", "gate", "delete"} \subseteq Step
  BY DEF Typed, LocalsOK, WellFormed, Answer, Step
<1>1. CASE Admit(h)
  <2>1. WellFormed("insert", loc[h])
    BY <1>0, <1>1 DEF Admit, WellFormed
  <2> QED
    BY <1>0, <1>1, <2>1, GotoType, ReplyType DEF Admit, Typed, TypeOK
<1>2. ASSUME NEW c \in Code, Insert(h, c)
      PROVE  Typed'
  <2>0. /\ loc[h].url \in Url /\ loc[h].user \in User \cup {Anonymous}
        /\ nextId \in Nat \ {0} /\ nextId' = nextId + 1
    BY <1>0, <1>2 DEF Insert, WellFormed, Local, Typed, TypeOK
  <2>1. NewRow(h) \in Row /\ nextId' \in Nat \ {0} /\ nextId \in Nat
    BY <2>0 DEF NewRow, Row
  <2> DEFINE r == Invalidate([loc[h] EXCEPT !.code = c, !.id = nextId])
  <2>2. CASE Commit(h, c, NewRow(h), 1) /\ Goto(h, "gate", r)
             /\ UNCHANGED <<cache, late, open, cause>>
    <3>1. r \in Local /\ r.code = c
      BY <1>0, <2>1 DEF Local, Invalidate
    <3>2. WellFormed("gate", r)
      BY <1>0, <3>1 DEF WellFormed
    <3> HIDE DEF r
    <3> QED
      BY <2>1, <2>2, <3>2, GotoType, CommitType DEF Typed, TypeOK
  <2>3. CASE CommitUnheard(h, c, NewRow(h), 1)
    BY <2>1, <2>3, CommitUnheardType
  <2> QED
    BY <1>2, <2>2, <2>3 DEF Insert
<1>3. ASSUME NEW c \in Code, Collide(h, c)
      PROVE  Typed'
  <2> DEFINE r == [loc[h] EXCEPT !.code = c, !.tries = @ + 1]
  <2>0. loc[h].tries \in 0 .. MaxAttempts /\ loc[h].tries < MaxAttempts
    BY <1>0, <1>3 DEF Collide, WellFormed, Local
  <2>1. loc[h].tries + 1 \in 0 .. MaxAttempts
    BY <2>0, SettingsAssumption
  <2>2. r \in Local /\ r.code = c /\ r.url = loc[h].url
    BY <1>0, <2>1 DEF Local
  <2>3. WellFormed("recheck", r)
    BY <1>0, <1>3, <2>2 DEF WellFormed, Collide
  <2> HIDE DEF r
  <2> QED
    BY <1>3, <2>3, GotoType DEF Collide, Typed, TypeOK, r
<1>4. CASE Recheck(h)
  <2>1. loc[h].tries # MaxAttempts => WellFormed("insert", loc[h])
    BY <1>0, <1>4, SettingsAssumption DEF Recheck, WellFormed, Local
  <2>2. /\ pc' \in [Handler -> Step] /\ loc' \in [Handler -> Local]
        /\ LocalsOK'
    BY <1>0, <1>4, <2>1, GotoType, ReplyType DEF Recheck, AfterCollision
  <2> QED
    BY <1>4, <2>2 DEF Recheck, Typed, TypeOK
<1>5. CASE SelectOwned(h)
  <2> DEFINE row == urls[loc[h].code]
             r == [loc[h] EXCEPT !.id = row.id]
  <2>1. row.id \in Nat
    BY <1>0, <1>5 DEF SelectOwned, WellFormed, Typed, TypeOK, Row, NoRow
  <2>2. WellFormed("delete", r)
    BY <1>0, <1>5, <2>1 DEF SelectOwned, WellFormed, Local
  <2>3. /\ pc' \in [Handler -> Step] /\ loc' \in [Handler -> Local]
        /\ LocalsOK'
    BY <1>0, <1>5, <2>2, GotoType, ReplyType DEF SelectOwned
  <2> QED
    BY <1>5, <2>3 DEF SelectOwned, Typed, TypeOK
<1>6. CASE DeleteCommit(h)
  <2>1. NoRow \in Row /\ loc[h].code \in Code /\ nextId' \in Nat \ {0}
    BY <1>0, <1>6 DEF DeleteCommit, WellFormed, Row, Typed, TypeOK
  <2>2. Invalidate(loc[h]) \in Local /\ Invalidate(loc[h]).code = loc[h].code
    BY <1>0 DEF Local, Invalidate
  <2>3. WellFormed("gate", Invalidate(loc[h]))
    BY <1>0, <2>1, <2>2 DEF WellFormed
  <2>4. CASE CommitUnheard(h, loc[h].code, NoRow, 0)
    BY <2>1, <2>4, CommitUnheardType
  <2>5. CASE /\ Goto(h, "gate", Invalidate(loc[h]))
             /\ IF Target(h) THEN Commit(h, loc[h].code, NoRow, 0)
                             ELSE UNCHANGED <<urls, announced, obs>>
             /\ UNCHANGED <<cache, late, open, cause>>
    BY <2>1, <2>3, <2>5, GotoType, CommitType DEF Typed, TypeOK
  <2> QED
    BY <1>6, <2>4, <2>5 DEF DeleteCommit
<1>7. CASE Query(h)
  <2> DEFINE v == urls[loc[h].code].url
             r == [loc[h] EXCEPT !.url = v, !.op = "set"]
  <2>1. loc[h].code \in Code /\ v \in Url \cup {Missing}
    BY <1>0, <1>7 DEF Query, WellFormed, Typed, TypeOK, Row, NoRow
  <2>2. r \in Local /\ r.code = loc[h].code
    BY <1>0, <2>1 DEF Local
  <2>3. WellFormed("gate", r)
    BY <1>0, <2>1, <2>2 DEF WellFormed
  <2> QED
    BY <1>7, <2>3, GotoType DEF Query, Typed, TypeOK
<1>8. ASSUME NEW at, DbError(h, at)
      PROVE  Typed'
  BY <1>0, <1>8, ReplyType DEF DbError, Typed, TypeOK
<1> QED
  BY <1>1, <1>2, <1>3, <1>4, <1>5, <1>6, <1>7, <1>8

\* The cache steps of a handler, and its response, keep the types.
LEMMA CacheType ==
    ASSUME Typed, NEW h \in Handler,
           Skip(h) \/ Enter(h) \/ Call(h) \/ LostCall(h) \/ Record(h) \/ Respond(h)
    PROVE  Typed'
<1>0. /\ WellFormed(pc[h], loc[h]) /\ loc[h] \in Local
      /\ {"call", "record"} \subseteq Step
  BY DEF Typed, LocalsOK, WellFormed, Step
<1>1. CASE Skip(h)
  BY <1>0, <1>1, ReturnType, UnreachedType DEF Skip, WellFormed, Typed, TypeOK
<1>2. CASE Enter(h)
  <2>1. WellFormed("call", loc[h])
    BY <1>0, <1>2 DEF Enter, WellFormed
  <2> QED
    BY <1>2, <2>1, GotoType DEF Enter, Typed, TypeOK
<1>3. CASE Call(h)
  <2>0. loc[h].code \in Code
    BY <1>0, <1>3 DEF Call, WellFormed
  <2>1. CASE loc[h].op = "get"
    <3> DEFINE r == [loc[h] EXCEPT !.url = cache[loc[h].code]]
    <3>1. WellFormed("record", r)
      BY <1>0, <2>0 DEF WellFormed, Local, Typed, TypeOK
    <3>2. obs' \in [Handler -> [seen : SUBSET (Url \cup {Missing}),
                    doubt : BOOLEAN, promised : BOOLEAN, made : Nat]]
      <4> DEFINE d == cause[loc[h].code] # "none"
                        \/ \E g \in Handler : Due(g, loc[h].code)
      <4>1. obs' = [obs EXCEPT ![h].doubt = d]
        BY <1>3, <2>1 DEF Call
      <4>2. d \in BOOLEAN
        OBVIOUS
      <4> HIDE DEF d
      <4> QED
        BY <4>1, <4>2 DEF Typed, TypeOK
    <3> QED
      BY <1>3, <2>1, <3>1, <3>2, GotoType DEF Call, Typed, TypeOK
  <2>2. CASE loc[h].op # "get"
    <3> DEFINE v == IF loc[h].op = "set" THEN loc[h].url ELSE NoEntry
    <3>1. WellFormed("record", loc[h])
      BY <1>0, <2>0 DEF WellFormed
    <3>2. v \in Url \cup {Missing, NoEntry}
      BY <1>0 DEF Local
    <3>3. Goto(h, "record", loc[h]) /\ Apply(loc[h].code, v) /\ UNCHANGED obs
      BY <1>3, <2>2 DEF Call
    <3> HIDE DEF v
    <3> QED
      BY <1>3, <2>0, <3>1, <3>2, <3>3, GotoType, ApplyType
      DEF Call, Typed, TypeOK
  <2> QED
    BY <2>1, <2>2
<1>4. CASE LostCall(h)
  <2>1. WellFormed("record", [loc[h] EXCEPT !.ok = FALSE])
    BY <1>0, <1>4 DEF LostCall, WellFormed, Local
  <2> QED
    BY <1>4, <2>1, GotoType, AbandonType DEF LostCall, Typed, TypeOK
<1>5. CASE Record(h)
  <2>1. /\ [loc[h] EXCEPT !.ok = TRUE] \in Local
        /\ [loc[h] EXCEPT !.ok = TRUE].code \in Code
    BY <1>0, <1>5 DEF Record, WellFormed, Local
  <2>2. open' \in [Worker -> BOOLEAN]
    BY <1>0, <1>5 DEF Record, Local, Typed, TypeOK
  <2> QED
    BY <1>5, <2>1, <2>2, ReturnType DEF Record, Typed, TypeOK
<1>6. CASE Respond(h)
  <2>1. Idle \in Local /\ WellFormed("idle", Idle)
    BY SettingsAssumption DEF Idle, Local, Answer, WellFormed, Step
  <2>2. /\ announced' \in [Code -> BOOLEAN]
        /\ obs' \in [Handler -> [seen : SUBSET (Url \cup {Missing}),
                    doubt : BOOLEAN, promised : BOOLEAN, made : Nat]]
    BY <1>6 DEF Respond, Unobserved, Typed, TypeOK
  <2> QED
    BY <1>6, <2>1, <2>2, GotoType DEF Respond, Typed, TypeOK
<1> QED
  BY <1>1, <1>2, <1>3, <1>4, <1>5, <1>6

\* What happens around the handlers keeps the types.
LEMMA EnvironmentType ==
    ASSUME Typed,
           \/ \E c \in Code : Expire(c)
           \/ \E e \in late : Land(e)
           \/ \E w \in Worker : CircuitCloses(w) \/ Crash(w)
    PROVE  Typed'
<1>1. ASSUME NEW c \in Code, Expire(c)
      PROVE  Typed'
  BY <1>1, ApplyType DEF Expire, Typed, TypeOK, LocalsOK
<1>2. ASSUME NEW e \in late, Land(e)
      PROVE  Typed'
  <2>1. e.code \in Code /\ e.val \in Url \cup {Missing, NoEntry}
    BY DEF Typed, TypeOK
  <2> QED
    BY <1>2, <2>1, ApplyType DEF Land, Typed, TypeOK, LocalsOK
<1>3. ASSUME NEW w \in Worker, CircuitCloses(w)
      PROVE  Typed'
  BY <1>3 DEF CircuitCloses, Typed, TypeOK, LocalsOK
<1>4. ASSUME NEW w \in Worker, Crash(w)
      PROVE  Typed'
  <2> DEFINE H == {h \in Handler : WorkerOf[h] = w}
  <2>1. Idle \in Local /\ WellFormed("idle", Idle)
    BY SettingsAssumption DEF Idle, Local, Answer, WellFormed, Step
  <2>2. /\ late' \subseteq [code : Code, val : Url \cup {Missing, NoEntry}]
        /\ cause' \in [Code -> {"none", "late", "unreached"}]
    BY <1>4, AbandonType DEF Crash
  <2>3. pc' \in [Handler -> Step] /\ loc' \in [Handler -> Local] /\ LocalsOK'
    BY <1>4, <2>1 DEF Crash, Typed, TypeOK, LocalsOK, WellFormed
  <2>4. /\ open' \in [Worker -> BOOLEAN]
        /\ obs' \in [Handler -> [seen : SUBSET (Url \cup {Missing}),
                    doubt : BOOLEAN, promised : BOOLEAN, made : Nat]]
    BY <1>4 DEF Crash, Unobserved, Typed, TypeOK
  <2> QED
    BY <1>4, <2>2, <2>3, <2>4 DEF Crash, Typed, TypeOK
<1> QED
  BY <1>1, <1>2, <1>3, <1>4

\* Every step keeps the types.
LEMMA NextType == Typed /\ [Next]_vars => Typed'
<1>1. CASE UNCHANGED vars
  BY <1>1 DEF vars, Typed, TypeOK, LocalsOK
<1>2. CASE Next
  BY <1>2, StartType, DatabaseType, CacheType, EnvironmentType
  DEF Next, Continue
<1> QED
  BY <1>1, <1>2

\* Type correctness: every value stays in its range, and at each step of a
\* handler its locals are those the step relies on.
THEOREM TypeCorrect == Spec => []TypeOK
<1>1. Spec => []Typed
  BY InitType, NextType, PTL DEF Spec
<1>2. Typed => TypeOK
  BY DEF Typed
<1> QED
  BY <1>1, <1>2, PTL
-----------------------------------------------------------------------------
(* Coherence of cache and table. *)

\* A step of h leaves what the others have still to invalidate as it is.
LEMMA GotoDue ==
    ASSUME Typed, NEW h \in Handler, NEW p, NEW r, Goto(h, p, r)
    PROVE  /\ \A g \in Handler, c \in Code : g # h => (Due(g, c)' <=> Due(g, c))
           /\ \A c \in Code : Due(h, c)' <=> /\ p \in {"gate", "call"}
                                           /\ r.op = "del" /\ r.code = c
BY DEF Typed, TypeOK, Goto, Due

\* A step of h that touches neither table nor cache, and drops no
\* invalidation, keeps the two coherent.
LEMMA QuietStep ==
    ASSUME Typed, StaleHasCause, NEW h \in Handler, NEW p, NEW r,
           Goto(h, p, r), UNCHANGED <<urls, cache, cause>>,
           \A c \in Code : Due(h, c) => /\ p \in {"gate", "call"}
                                       /\ r.op = "del" /\ r.code = c
    PROVE  StaleHasCause'
<1>1. \A g \in Handler, c \in Code : Due(g, c) => Due(g, c)'
  BY GotoDue
<1>2. \A c \in Code : Stale(c)' <=> Stale(c)
  BY DEF Stale, Outdated
<1> QED
  BY <1>1, <1>2 DEF StaleHasCause

\* So does an answer given while no invalidation is due.
LEMMA QuietReply ==
    ASSUME Typed, StaleHasCause, NEW h \in Handler, NEW a, Reply(h, a),
           UNCHANGED <<urls, cache, cause>>, pc[h] \notin {"gate", "call"}
    PROVE  StaleHasCause'
BY QuietStep DEF Reply, Due

\* A commit after which h has the invalidation still to do.
LEMMA CommitThenDue ==
    ASSUME Typed, StaleHasCause, NEW h \in Handler, NEW c \in Code, NEW row,
           NEW n, NEW r, Commit(h, c, row, n), Goto(h, "gate", r),
           r.op = "del", r.code = c, UNCHANGED <<cache, cause>>,
           pc[h] \notin {"gate", "call"}
    PROVE  StaleHasCause'
<1>1. Due(h, c)'
  BY GotoDue
<1>2. \A d \in Code \ {c} : Stale(d)' <=> Stale(d)
  BY DEF Stale, Outdated, Commit, Typed, TypeOK
<1>3. \A g \in Handler, d \in Code : Due(g, d) => Due(g, d)'
  BY GotoDue DEF Due
<1> QED
  BY <1>1, <1>2, <1>3 DEF StaleHasCause

\* A commit that nobody heard of, and that no invalidation follows.
LEMMA CommitUnheardCause ==
    ASSUME Typed, StaleHasCause, NEW h \in Handler, NEW c \in Code, NEW row,
           NEW n, CommitUnheard(h, c, row, n), pc[h] \notin {"gate", "call"}
    PROVE  StaleHasCause'
<1>1. \A d \in Code \ {c} : /\ Stale(d)' <=> Stale(d)
                            /\ cause'[d] = cause[d]
  BY DEF CommitUnheard, Stale, Outdated, Commit, Typed, TypeOK
<1>2. \A g \in Handler, d \in Code : Due(g, d) => Due(g, d)'
  BY GotoDue DEF Due, CommitUnheard, Reply
<1>3. Stale(c)' => cause'[c] = "unreached"
  BY DEF CommitUnheard, Stale, Outdated, Commit, Typed, TypeOK
<1> QED
  BY <1>1, <1>2, <1>3 DEF StaleHasCause

\* Handlers that lose the invalidations they had to do leave a cause behind.
LEMMA UnreachedCause ==
    ASSUME Typed, StaleHasCause, NEW H \in SUBSET Handler,
           cause' = Unreached(H), UNCHANGED <<urls, cache>>,
           \A g \in Handler \ H, c \in Code : Due(g, c) => Due(g, c)'
    PROVE  StaleHasCause'
<1> SUFFICES ASSUME NEW c \in Code, Stale(c)',
                    \A g \in Handler : ~Due(g, c)'
             PROVE  cause'[c] # "none"
  BY DEF StaleHasCause
<1>1. Stale(c)
  BY DEF Stale, Outdated
<1>2. cause'[c] = IF \E g \in H : Due(g, c) THEN "unreached" ELSE cause[c]
  BY <1>1 DEF Unreached
<1>3. cause[c] # "none" \/ \E g \in H : Due(g, c)
  BY <1>1 DEF StaleHasCause
<1> QED
  BY <1>2, <1>3

\* A command executed by Redis: a fill that was overtaken is a cause.
LEMMA ApplyCause ==
    ASSUME Typed, StaleHasCause, NEW c \in Code, NEW v, Apply(c, v),
           UNCHANGED urls,
           \A g \in Handler, d \in Code : d # c /\ Due(g, d) => Due(g, d)'
    PROVE  StaleHasCause'
<1>1. \A d \in Code \ {c} : /\ Stale(d)' <=> Stale(d)
                            /\ cause'[d] = cause[d]
  BY DEF Apply, Stale, Outdated, Typed, TypeOK
<1>2. Stale(c)' => cause'[c] = "late"
  BY DEF Apply, Stale, Outdated, Typed, TypeOK
<1> QED
  BY <1>1, <1>2 DEF StaleHasCause

\* Beginning a request, and the database steps, keep cache and table coherent.
LEMMA DatabaseCoherent ==
    ASSUME Typed, StaleHasCause, NEW h \in Handler,
           \/ Start(h) \/ Admit(h)
           \/ \E c \in Code : Insert(h, c) \/ Collide(h, c)
           \/ Recheck(h) \/ SelectOwned(h) \/ DeleteCommit(h) \/ Query(h)
           \/ \E at \in {"insert", "recheck", "select", "delete", "query"} :
                 DbError(h, at)
    PROVE  StaleHasCause'
<1>1. CASE Start(h)
  <2>1. PICK p, r : Begin(h, p, r)
    BY <1>1 DEF Start, StartCreate, Unauthorized, StartDelete, StartRedirect
  <2> QED
    BY <2>1, QuietStep DEF Begin, Due
<1>2. CASE Admit(h)
  BY <1>2, QuietStep, QuietReply DEF Admit, Due
<1>3. ASSUME NEW c \in Code, Insert(h, c)
      PROVE  StaleHasCause'
  <2> DEFINE r == Invalidate([loc[h] EXCEPT !.code = c, !.id = nextId])
  <2>1. CASE Commit(h, c, NewRow(h), 1) /\ Goto(h, "gate", r)
             /\ UNCHANGED <<cache, late, open, cause>>
    <3>1. loc[h] \in Local
      BY DEF Typed, TypeOK
    <3>2. r.op = "del" /\ r.code = c
      BY <3>1 DEF Invalidate, Local
    <3> HIDE DEF r
    <3> QED
      BY <1>3, <2>1, <3>2, CommitThenDue DEF Insert
  <2>2. CASE CommitUnheard(h, c, NewRow(h), 1)
    BY <1>3, <2>2, CommitUnheardCause DEF Insert
  <2> QED
    BY <1>3, <2>1, <2>2 DEF Insert
<1>4. ASSUME NEW c \in Code, Collide(h, c)
      PROVE  StaleHasCause'
  BY <1>4, QuietStep DEF Collide, Due
<1>5. CASE Recheck(h)
  BY <1>5, QuietStep, QuietReply DEF Recheck, AfterCollision, Due
<1>6. CASE SelectOwned(h)
  BY <1>6, QuietStep, QuietReply DEF SelectOwned, Due
<1>7. CASE DeleteCommit(h)
  <2> DEFINE r == Invalidate(loc[h])
  <2>1. loc[h] \in Local /\ loc[h].code \in Code
    BY <1>7 DEF DeleteCommit, Typed, TypeOK, LocalsOK, WellFormed
  <2>2. r.op = "del" /\ r.code = loc[h].code
    BY <2>1 DEF Invalidate, Local
  <2> HIDE DEF r
  <2>3. CASE /\ Goto(h, "gate", r) /\ Commit(h, loc[h].code, NoRow, 0)
             /\ UNCHANGED <<cache, late, open, cause>>
    BY <1>7, <2>1, <2>2, <2>3, CommitThenDue DEF DeleteCommit
  <2>4. CASE /\ Goto(h, "gate", r)
             /\ UNCHANGED <<urls, cache, late, open, cause>>
    BY <1>7, <2>4, QuietStep DEF DeleteCommit, Due
  <2>5. CASE CommitUnheard(h, loc[h].code, NoRow, 0)
    BY <1>7, <2>1, <2>5, CommitUnheardCause DEF DeleteCommit
  <2> QED
    BY <1>7, <2>3, <2>4, <2>5 DEF DeleteCommit, r
<1>8. CASE Query(h)
  BY <1>8, QuietStep DEF Query, Due
<1>9. ASSUME NEW at \in {"insert", "recheck", "select", "delete", "query"},
             DbError(h, at)
      PROVE  StaleHasCause'
  BY <1>9, QuietReply DEF DbError
<1> QED
  BY <1>1, <1>2, <1>3, <1>4, <1>5, <1>6, <1>7, <1>8, <1>9

\* The cache steps of a handler, and its response, keep them coherent.
LEMMA CacheCoherent ==
    ASSUME Typed, StaleHasCause, NEW h \in Handler,
           Skip(h) \/ Enter(h) \/ Call(h) \/ LostCall(h) \/ Record(h) \/ Respond(h)
    PROVE  StaleHasCause'
<1>1. CASE Skip(h)
  <2>1. PICK p, r : Goto(h, p, r)
    BY <1>1 DEF Skip, Return
  <2> QED
    BY <1>1, <2>1, GotoDue, UnreachedCause DEF Skip
<1>2. CASE Enter(h)
  BY <1>2, QuietStep DEF Enter, Due
<1>3. CASE Call(h)
  <2>1. CASE loc[h].op = "get"
    BY <1>3, <2>1, QuietStep DEF Call, Due
  <2>2. CASE loc[h].op # "get"
    <3> DEFINE v == IF loc[h].op = "set" THEN loc[h].url ELSE NoEntry
    <3>1. /\ Goto(h, "record", loc[h]) /\ Apply(loc[h].code, v)
          /\ UNCHANGED urls
      BY <1>3, <2>2 DEF Call
    <3>2. loc[h].code \in Code
      BY <1>3 DEF Call, Typed, LocalsOK, WellFormed
    <3>3. \A g \in Handler, d \in Code :
            d # loc[h].code /\ Due(g, d) => Due(g, d)'
      BY <3>1, GotoDue DEF Due
    <3> HIDE DEF v
    <3> QED
      BY <3>1, <3>2, <3>3, ApplyCause
  <2> QED
    BY <2>1, <2>2
<1>4. CASE LostCall(h)
  BY <1>4, GotoDue, UnreachedCause DEF LostCall, Abandon
<1>5. CASE Record(h)
  <2>1. PICK p, r : Goto(h, p, r)
    BY <1>5 DEF Record, Return
  <2> QED
    BY <1>5, <2>1, QuietStep DEF Record, Due
<1>6. CASE Respond(h)
  BY <1>6, QuietStep DEF Respond, Due
<1> QED
  BY <1>1, <1>2, <1>3, <1>4, <1>5, <1>6

\* What happens around the handlers keeps cache and table coherent.
LEMMA EnvironmentCoherent ==
    ASSUME Typed, StaleHasCause,
           \/ \E c \in Code : Expire(c)
           \/ \E e \in late : Land(e)
           \/ \E w \in Worker : CircuitCloses(w) \/ Crash(w)
    PROVE  StaleHasCause'
<1>1. ASSUME NEW c \in Code, Expire(c)
      PROVE  StaleHasCause'
  BY <1>1, ApplyCause DEF Expire, Due
<1>2. ASSUME NEW e \in late, Land(e)
      PROVE  StaleHasCause'
  <2>1. e.code \in Code
    BY DEF Typed, TypeOK
  <2> QED
    BY <1>2, <2>1, ApplyCause DEF Land, Due
<1>3. ASSUME NEW w \in Worker, CircuitCloses(w)
      PROVE  StaleHasCause'
  BY <1>3 DEF CircuitCloses, StaleHasCause, Stale, Outdated, Due
<1>4. ASSUME NEW w \in Worker, Crash(w)
      PROVE  StaleHasCause'
  <2> DEFINE H == {h \in Handler : WorkerOf[h] = w}
  <2>1. cause' = Unreached(H) /\ UNCHANGED <<urls, cache>>
    BY <1>4 DEF Crash, Abandon
  <2>2. \A g \in Handler \ H : pc'[g] = pc[g] /\ loc'[g] = loc[g]
    BY <1>4 DEF Crash
  <2>3. \A g \in Handler \ H, c \in Code : Due(g, c) => Due(g, c)'
    BY <2>2 DEF Due
  <2> QED
    BY <2>1, <2>3, UnreachedCause
<1> QED
  BY <1>1, <1>2, <1>3, <1>4

\* Coherence: at any time, an entry that contradicts the table is either about
\* to be invalidated or has a recorded cause.
THEOREM Coherence == Spec => []StaleHasCause
<1>1. Init => StaleHasCause
  BY DEF Init, StaleHasCause, Stale, Outdated
<1>2. Typed /\ StaleHasCause /\ [Next]_vars => StaleHasCause'
  <2> SUFFICES ASSUME Typed, StaleHasCause, [Next]_vars PROVE StaleHasCause'
    OBVIOUS
  <2>1. CASE UNCHANGED vars
    BY <2>1 DEF vars, StaleHasCause, Stale, Outdated, Due
  <2>2. CASE Next
    BY <2>2, DatabaseCoherent, CacheCoherent, EnvironmentCoherent
    DEF Next, Continue
  <2> QED
    BY <2>1, <2>2
<1> QED
  BY <1>1, <1>2, InitType, NextType, PTL DEF Spec

-----------------------------------------------------------------------------
(* What a handler's locals say of its request, at each step. *)

Shape(p, r) ==
    /\ p = "idle" => r = Idle
    /\ p # "idle" => r.kind \in {"create", "delete", "redirect"}
    /\ r.answer # "none" <=> p = "answered"
    /\ p \in {"admit", "insert", "recheck"} =>
          r.kind = "create" /\ r.op = "get" /\ r.id = 0
    /\ p \in {"select", "delete"} =>
          r.kind = "delete" /\ r.op = "get" /\ (r.id = 0 <=> p = "select")
    /\ p = "query" => r.kind = "redirect" /\ r.op = "get" /\ r.url = NoEntry
    /\ p \in {"gate", "call", "record"} =>
          \/ r.kind \in {"create", "delete"} /\ r.op = "del"
          \/ r.kind = "redirect" /\ r.op = "set" /\ r.url # NoEntry
          \/ /\ r.kind = "redirect" /\ r.op = "get"
             /\ p = "record" \/ r.url = NoEntry
    /\ p \in {"call", "record"} => CacheOn
Shapes == \A h \in Handler : Shape(pc[h], loc[h])

\* A handler that goes to a step with locals of its shape keeps the shapes.
LEMMA GotoShape ==
    ASSUME Typed, Shapes, NEW h \in Handler, NEW p, NEW r,
           Goto(h, p, r), Shape(p, r)
    PROVE  Shapes'
<1>1. \A g \in Handler : g # h => pc'[g] = pc[g] /\ loc'[g] = loc[g]
  BY DEF Typed, TypeOK, Goto
<1>2. pc'[h] = p /\ loc'[h] = r
  BY DEF Typed, TypeOK, Goto
<1> QED BY <1>1, <1>2 DEF Shapes

\* An answer is an answer.
LEMMA ReplyShape ==
    ASSUME Typed, Shapes, NEW h \in Handler, NEW a, a # "none", pc[h] # "idle",
           Reply(h, a)
    PROVE  Shapes'
<1>1. loc[h] \in Local /\ Shape(pc[h], loc[h])
  BY DEF Typed, TypeOK, Shapes
<1>2. Shape("answered", [loc[h] EXCEPT !.answer = a])
  BY <1>1 DEF Shape, Local
<1> QED BY <1>2, GotoShape DEF Reply

\* A cache function returns to the query, or answers.
LEMMA ReturnShape ==
    ASSUME Typed, Shapes, NEW h \in Handler, NEW r \in Local,
           Return(h, r), r.answer = "none",
           r.kind \in {"create", "delete", "redirect"},
           r.op = "get" => r.kind = "redirect"
    PROVE  Shapes'
<1>1. r.url = NoEntry /\ r.op = "get" => Shape("query", r)
  BY DEF Shape
<1>2. Shape("answered", [r EXCEPT !.answer = Outcome(r)])
  BY DEF Shape, Local, Outcome
<1> QED BY <1>1, <1>2, GotoShape DEF Return

\* A request starts with the locals of its first step.
LEMMA StartShape ==
    ASSUME Typed, Shapes, NEW h \in Handler, Start(h)
    PROVE  Shapes'
<1>1. ASSUME NEW u \in User \cup {Anonymous}, NEW url \in Url,
             StartCreate(h, u, url)
      PROVE  Shapes'
  <2> DEFINE r == [Idle EXCEPT !.kind = "create", !.user = u, !.url = url]
  <2>1. Shape("admit", r)
    BY DEF Shape, Idle
  <2> QED BY <1>1, <2>1, GotoShape DEF StartCreate, Begin
<1>2. ASSUME NEW k \in {"create", "delete"}, Unauthorized(h, k)
      PROVE  Shapes'
  <2> DEFINE r == [Idle EXCEPT !.kind = k, !.answer = "unauthorized"]
  <2>1. Shape("answered", r)
    BY DEF Shape, Idle
  <2> QED BY <1>2, <2>1, GotoShape DEF Unauthorized, Begin
<1>3. ASSUME NEW u \in User, NEW c \in Code, StartDelete(h, u, c)
      PROVE  Shapes'
  <2> DEFINE r == [Idle EXCEPT !.kind = "delete", !.user = u, !.code = c]
  <2>1. Shape("select", r)
    BY DEF Shape, Idle
  <2> QED BY <1>3, <2>1, GotoShape DEF StartDelete, Begin
<1>4. ASSUME NEW c \in Code, StartRedirect(h, c)
      PROVE  Shapes'
  <2> DEFINE r == [Idle EXCEPT !.kind = "redirect", !.code = c]
  <2>1. Shape("gate", r)
    BY DEF Shape, Idle
  <2> QED BY <1>4, <2>1, GotoShape DEF StartRedirect, Begin
<1> QED BY <1>1, <1>2, <1>3, <1>4 DEF Start

\* Every step of a handler leaves the locals of the next one.
LEMMA ContinueShape ==
    ASSUME Typed, Shapes, NEW h \in Handler, Continue(h)
    PROVE  Shapes'
<1>0. /\ loc[h] \in Local /\ Shape(pc[h], loc[h]) /\ WellFormed(pc[h], loc[h])
      /\ \A r \in Local : r.op \in {"get", "set", "del"}
  BY DEF Typed, TypeOK, Shapes, LocalsOK, Local
<1>1. CASE Admit(h)
  <2>1. Shape("insert", loc[h])
    BY <1>0, <1>1 DEF Admit, Shape
  <2> QED BY <1>1, <2>1, GotoShape, ReplyShape DEF Admit
<1>2. ASSUME NEW c \in Code, Insert(h, c)
      PROVE  Shapes'
  <2> DEFINE r == Invalidate([loc[h] EXCEPT !.code = c, !.id = nextId])
  <2>1. Shape("gate", r)
    BY <1>0, <1>2 DEF Insert, Invalidate, Shape, Local
  <2> QED BY <1>2, <2>1, GotoShape, ReplyShape DEF Insert, CommitUnheard
<1>3. ASSUME NEW c \in Code, Collide(h, c)
      PROVE  Shapes'
  <2> DEFINE r == [loc[h] EXCEPT !.code = c, !.tries = @ + 1]
  <2>1. Shape("recheck", r)
    BY <1>0, <1>3 DEF Collide, Shape, Local
  <2> QED BY <1>3, <2>1, GotoShape DEF Collide
<1>4. CASE Recheck(h)
  <2>1. Shape("insert", loc[h])
    BY <1>0, <1>4 DEF Recheck, Shape
  <2> QED BY <1>4, <2>1, GotoShape, ReplyShape DEF Recheck, AfterCollision
<1>5. CASE SelectOwned(h)
  <2> DEFINE n == urls[loc[h].code].id
  <2>1. n # 0 => Shape("delete", [loc[h] EXCEPT !.id = n])
    BY <1>0, <1>5 DEF SelectOwned, Shape, Local
  <2> QED BY <1>5, <2>1, GotoShape, ReplyShape DEF SelectOwned
<1>6. CASE DeleteCommit(h)
  <2>1. Shape("gate", Invalidate(loc[h]))
    BY <1>0, <1>6 DEF DeleteCommit, Invalidate, Shape, Local
  <2> QED BY <1>6, <2>1, GotoShape, ReplyShape DEF DeleteCommit, CommitUnheard
<1>7. CASE Query(h)
  <2> DEFINE r == [loc[h] EXCEPT !.url = urls[loc[h].code].url, !.op = "set"]
  <2>1. urls[loc[h].code].url # NoEntry
    BY <1>0, <1>7, SetsAssumption
    DEF Query, WellFormed, Typed, TypeOK, Row, NoRow
  <2>2. Shape("gate", r)
    BY <1>0, <1>7, <2>1 DEF Query, Shape, Local
  <2> QED BY <1>7, <2>2, GotoShape DEF Query
<1>8. ASSUME NEW at \in {"insert", "recheck", "select", "delete", "query"},
             DbError(h, at)
      PROVE  Shapes'
  BY <1>8, ReplyShape DEF DbError
<1>9. CASE Skip(h)
  BY <1>0, <1>9, ReturnShape DEF Skip, Shape
<1>10. CASE Enter(h)
  <2>1. Shape("call", loc[h])
    BY <1>0, <1>10 DEF Enter, Permitted, Shape
  <2> QED BY <1>10, <2>1, GotoShape DEF Enter
<1>11. CASE Call(h)
  <2>1. Shape("record", loc[h])
    BY <1>0, <1>11 DEF Call, Shape
  <2>2. loc[h].op = "get" =>
          Shape("record", [loc[h] EXCEPT !.url = cache[loc[h].code]])
    BY <1>0, <1>11 DEF Call, Shape, Local
  <2> QED BY <1>11, <2>1, <2>2, GotoShape DEF Call
<1>12. CASE LostCall(h)
  <2>1. Shape("record", [loc[h] EXCEPT !.ok = FALSE])
    BY <1>0, <1>12 DEF LostCall, Shape, Local
  <2> QED BY <1>12, <2>1, GotoShape DEF LostCall
<1>13. CASE Record(h)
  <2> DEFINE r == [loc[h] EXCEPT !.ok = TRUE]
  <2>1. r \in Local /\ r.answer = "none" /\ r.op = loc[h].op /\ r.kind = loc[h].kind
    BY <1>0, <1>13 DEF Record, Shape, Local
  <2>2. /\ r.kind \in {"create", "delete", "redirect"}
        /\ r.op = "get" => r.kind = "redirect"
    BY <1>0, <1>13, <2>1 DEF Record, Shape
  <2> HIDE DEF r
  <2>3. Return(h, r)
    BY <1>13 DEF Record, r
  <2> QED BY <2>1, <2>2, <2>3, ReturnShape
<1>14. CASE Respond(h)
  <2>1. Shape("idle", Idle)
    BY DEF Shape, Idle
  <2> QED BY <1>14, <2>1, GotoShape DEF Respond
<1> QED BY <1>1, <1>2, <1>3, <1>4, <1>5, <1>6, <1>7, <1>8, <1>9, <1>10, <1>11,
           <1>12, <1>13, <1>14 DEF Continue

\* Every step keeps the shapes.
LEMMA ShapesNext == Typed /\ Shapes /\ [Next]_vars => Shapes'
<1> SUFFICES ASSUME Typed, Shapes, [Next]_vars PROVE Shapes'
  OBVIOUS
<1>1. CASE UNCHANGED vars
  BY <1>1 DEF vars, Shapes
<1>2. CASE \/ \E c \in Code : Expire(c)
           \/ \E e \in late : Land(e)
           \/ \E w \in Worker : CircuitCloses(w)
  BY <1>2 DEF Expire, Land, CircuitCloses, Shapes
<1>3. ASSUME NEW w \in Worker, Crash(w)
      PROVE  Shapes'
  <2>1. Shape("idle", Idle)
    BY DEF Shape, Idle
  <2> QED BY <1>3, <2>1 DEF Crash, Shapes
<1> QED BY <1>1, <1>2, <1>3, StartShape, ContinueShape DEF Next

-----------------------------------------------------------------------------
(* What a handler at step p with locals r and observations o relies on.     *)

\* A lookup has seen all that the table said meanwhile (u is what it says
\* now), and has nothing else in hand unless the cache was in doubt.
Looked(r, o, u) ==
    r.kind = "redirect" =>
        /\ r.code \in Code /\ u \in o.seen
        /\ r.url = NoEntry \/ r.url \in o.seen \/ o.doubt
        /\ ~NegativeOn /\ r.url = Missing => Missing \in o.seen

\* The rows a creation has made, by how far it has come.
Counted(p, r, o) ==
    /\ p = "idle" => o.made = 0
    /\ r.kind = "create" =>
        /\ p \in {"admit", "insert", "recheck"} => o.made = 0
        /\ p \in {"gate", "call", "record"} => o.made = 1
        /\ p = "answered" =>
              /\ r.answer = "created" => o.made = 1
              /\ r.answer # "created" =>
                    \/ o.made = 0
                    \/ r.answer = "error" /\ o.made = 1 /\ "db" \in Faults
              /\ r.answer = "exhausted" => r.tries = MaxAttempts

\* Only a lookup is answered with a destination, or with the want of one.
Worded(r) ==
    /\ r.answer \in {"found", "missing"} => r.kind = "redirect" /\ r.url # NoEntry
    /\ r.answer = "missing" => r.url = Missing

Held(p, r, o, u) == Looked(r, o, u) /\ Counted(p, r, o) /\ Worded(r)
Answers == \A h \in Handler : Held(pc[h], loc[h], obs[h], urls[loc[h].code].url)

\* Without negative caching nothing writes a negative entry.
NoNegative ==
    ~NegativeOn =>
        /\ \A c \in Code : cache[c] # Missing
        /\ \A e \in late : e.val # Missing
        /\ \A h \in Handler :
              pc[h] = "call" /\ loc[h].op = "set" => loc[h].url # Missing

AInv == Typed /\ Shapes /\ StaleHasCause /\ Answers /\ NoNegative

-----------------------------------------------------------------------------
(* Shared steps. *)

\* The others keep what they rely on while table and observations stay.
LEMMA QuietAnswers ==
    ASSUME Typed, Answers, NEW h \in Handler, NEW p, NEW r, Goto(h, p, r),
           UNCHANGED <<urls, obs>>, Held(p, r, obs[h], urls[r.code].url)
    PROVE  Answers'
<1>1. \A g \in Handler : g # h => pc'[g] = pc[g] /\ loc'[g] = loc[g]
  BY DEF Typed, TypeOK, Goto
<1>2. pc'[h] = p /\ loc'[h] = r
  BY DEF Typed, TypeOK, Goto
<1> QED BY <1>1, <1>2 DEF Answers

\* An answer that is no success, given before the cache is used.
LEMMA ReplyAnswers ==
    ASSUME AInv, NEW h \in Handler,
           NEW a \in {"refused", "exhausted", "not_owned", "error"},
           Reply(h, a), UNCHANGED <<urls, obs>>,
           pc[h] \in {"admit", "insert", "recheck", "select", "delete", "query"},
           a = "exhausted" => loc[h].tries = MaxAttempts
    PROVE  Answers'
<1> DEFINE r == [loc[h] EXCEPT !.answer = a]
<1>1. /\ loc[h] \in Local /\ Typed /\ Answers /\ Shape(pc[h], loc[h])
      /\ Held(pc[h], loc[h], obs[h], urls[loc[h].code].url)
  BY DEF AInv, Typed, TypeOK, Shapes, Answers
<1>2. /\ r.kind = loc[h].kind /\ r.code = loc[h].code /\ r.url = loc[h].url
      /\ r.tries = loc[h].tries /\ r.answer = a
  BY <1>1 DEF Local
<1>3. Goto(h, "answered", r)
  BY DEF Reply
<1> HIDE DEF r
<1>4. Held("answered", r, obs[h], urls[r.code].url)
  BY <1>1, <1>2 DEF Held, Looked, Counted, Worded, Shape
<1> QED BY <1>1, <1>3, <1>4, QuietAnswers

\* A commit of h is seen by every lookup of its code, and counted for h.
LEMMA CommitAnswers ==
    ASSUME AInv, NEW h \in Handler, NEW c \in Code, NEW row \in Row,
           NEW n \in Nat, NEW p, NEW r,
           Commit(h, c, row, n), Goto(h, p, r), r.kind \in {"create", "delete"},
           r.answer \notin {"found", "missing"},
           \A o : o.made = obs[h].made + n => Counted(p, r, o)
    PROVE  Answers'
<1>0. Typed /\ Answers
  BY DEF AInv
<1>1. \A g \in Handler : g # h => pc'[g] = pc[g] /\ loc'[g] = loc[g]
  BY <1>0 DEF Typed, TypeOK, Goto
<1>2. pc'[h] = p /\ loc'[h] = r
  BY <1>0 DEF Typed, TypeOK, Goto
<1>3. \A d \in Code : urls'[d] = IF d = c THEN row ELSE urls[d]
  BY <1>0 DEF Commit, Typed, TypeOK
<1>4. ASSUME NEW g \in Handler
      PROVE  /\ obs'[g].doubt = obs[g].doubt
             /\ obs'[g].made = IF g = h THEN obs[g].made + n ELSE obs[g].made
             /\ obs'[g].seen = IF loc[g].kind = "redirect" /\ loc[g].code = c
                               THEN obs[g].seen \cup {row.url} ELSE obs[g].seen
  <2>1. obs[g] \in [seen : SUBSET (Url \cup {Missing}), doubt : BOOLEAN,
                    promised : BOOLEAN, made : Nat]
    BY <1>0 DEF Typed, TypeOK
  <2>2. obs'[g] = [obs[g] EXCEPT
                    !.seen = IF loc[g].kind = "redirect" /\ loc[g].code = c
                             THEN @ \cup {row.url} ELSE @,
                    !.made = IF g = h THEN @ + n ELSE @]
    BY DEF Commit
  <2> QED BY <2>1, <2>2
<1>5. Held(pc'[h], loc'[h], obs'[h], urls'[loc'[h].code].url)
  <2>1. Counted(p, r, obs'[h])
    BY <1>4
  <2> QED BY <1>2, <2>1 DEF Held, Looked, Worded
<1>6. ASSUME NEW g \in Handler, g # h
      PROVE  Held(pc'[g], loc'[g], obs'[g], urls'[loc'[g].code].url)
  <2>1. Held(pc[g], loc[g], obs[g], urls[loc[g].code].url)
    BY <1>0 DEF Answers
  <2>2. Counted(pc[g], loc[g], obs'[g])
    BY <1>4, <1>6, <2>1 DEF Held, Counted
  <2>3. Looked(loc[g], obs'[g], urls'[loc[g].code].url)
    BY <1>3, <1>4, <2>1 DEF Held, Looked
  <2> QED BY <1>1, <1>6, <2>1, <2>2, <2>3 DEF Held
<1> QED BY <1>5, <1>6 DEF Answers

\* A cache function returns.
LEMMA ReturnAnswers ==
    ASSUME AInv, NEW h \in Handler, NEW q \in {"gate", "record"}, pc[h] = q,
           NEW r \in Local, Return(h, r), UNCHANGED <<urls, obs>>,
           Shape(q, r), Held(q, r, obs[h], urls[r.code].url)
    PROVE  Answers'
<1> DEFINE new == [r EXCEPT !.answer = Outcome(r)]
<1>0. Typed /\ Answers
  BY DEF AInv
<1>1. CASE r.op = "get" /\ r.url = NoEntry
  <2>1. Held("query", r, obs[h], urls[r.code].url)
    BY DEF Held, Counted, Worded, Shape
  <2> QED BY <1>0, <1>1, <2>1, QuietAnswers DEF Return
<1>2. CASE ~(r.op = "get" /\ r.url = NoEntry)
  <2>1. /\ new.kind = r.kind /\ new.code = r.code /\ new.url = r.url
        /\ new.tries = r.tries /\ new.answer = Outcome(r)
    BY DEF Local
  <2>2. Goto(h, "answered", new)
    BY <1>2 DEF Return
  <2> HIDE DEF new
  <2>3. Looked(new, obs[h], urls[new.code].url)
    BY <2>1 DEF Held, Looked
  <2>4. Counted("answered", new, obs[h])
    BY <2>1 DEF Held, Counted, Shape, Outcome
  <2>5. Worded(new)
    BY <1>2, <2>1 DEF Worded, Shape, Outcome
  <2> QED BY <1>0, <2>2, <2>3, <2>4, <2>5, QuietAnswers DEF Held
<1> QED BY <1>1, <1>2

-----------------------------------------------------------------------------
(* The steps of a handler. *)

\* A request begins with nothing in hand.
LEMMA StartAnswers ==
    ASSUME AInv, NEW h \in Handler, Start(h)
    PROVE  Answers'
<1>0. /\ Typed /\ Answers /\ obs[h].made = 0
      /\ \A g \in Handler : Held(pc[g], loc[g], obs[g], urls[loc[g].code].url)
  <2>1. pc[h] = "idle"
    BY DEF Start, StartCreate, Unauthorized, StartDelete, StartRedirect, Begin
  <2> QED BY <2>1 DEF AInv, Answers, Held, Counted
<1>1. ASSUME NEW u \in User \cup {Anonymous}, NEW x \in Url, StartCreate(h, u, x)
      PROVE  Answers'
  <2> DEFINE r == [Idle EXCEPT !.kind = "create", !.user = u, !.url = x]
  <2>1. r.kind = "create" /\ r.answer = "none"
    BY DEF Idle
  <2>2. Goto(h, "admit", r) /\ UNCHANGED <<urls, obs>>
    BY <1>1 DEF StartCreate, Begin
  <2> HIDE DEF r
  <2>3. Held("admit", r, obs[h], urls[r.code].url)
    BY <1>0, <2>1 DEF Held, Looked, Counted, Worded
  <2> QED BY <1>0, <2>2, <2>3, QuietAnswers
<1>2. ASSUME NEW k \in {"create", "delete"}, Unauthorized(h, k)
      PROVE  Answers'
  <2> DEFINE r == [Idle EXCEPT !.kind = k, !.answer = "unauthorized"]
  <2>1. r.kind = k /\ r.answer = "unauthorized"
    BY DEF Idle
  <2>2. Goto(h, "answered", r) /\ UNCHANGED <<urls, obs>>
    BY <1>2 DEF Unauthorized, Begin
  <2> HIDE DEF r
  <2>3. Held("answered", r, obs[h], urls[r.code].url)
    BY <1>0, <2>1 DEF Held, Looked, Counted, Worded
  <2> QED BY <1>0, <2>2, <2>3, QuietAnswers
<1>3. ASSUME NEW u \in User, NEW c \in Code, StartDelete(h, u, c)
      PROVE  Answers'
  <2> DEFINE r == [Idle EXCEPT !.kind = "delete", !.user = u, !.code = c]
  <2>1. r.kind = "delete" /\ r.answer = "none"
    BY DEF Idle
  <2>2. Goto(h, "select", r) /\ UNCHANGED <<urls, obs>>
    BY <1>3 DEF StartDelete, Begin
  <2> HIDE DEF r
  <2>3. Held("select", r, obs[h], urls[r.code].url)
    BY <2>1 DEF Held, Looked, Counted, Worded
  <2> QED BY <1>0, <2>2, <2>3, QuietAnswers
<1>4. ASSUME NEW c \in Code, StartRedirect(h, c)
      PROVE  Answers'
  <2> DEFINE r == [Idle EXCEPT !.kind = "redirect", !.code = c]
             o == [Unobserved EXCEPT !.seen = {urls[c].url},
                                     !.promised = announced[c]]
  <2>1. /\ r.kind = "redirect" /\ r.code = c /\ r.url = NoEntry
        /\ r.answer = "none"
    BY DEF Idle
  <2>2. o.seen = {urls[c].url}
    BY DEF Unobserved
  <2>3. Goto(h, "gate", r) /\ obs' = [obs EXCEPT ![h] = o] /\ UNCHANGED urls
    BY <1>4 DEF StartRedirect, Begin
  <2> HIDE DEF r, o
  <2>4. Held("gate", r, o, urls[c].url)
    BY <2>1, <2>2, SetsAssumption DEF Held, Looked, Counted, Worded
  <2>5. /\ \A g \in Handler : g # h => /\ pc'[g] = pc[g] /\ loc'[g] = loc[g]
                                       /\ obs'[g] = obs[g]
        /\ pc'[h] = "gate" /\ loc'[h] = r /\ obs'[h] = o
    BY <1>0, <2>3 DEF Typed, TypeOK, Goto
  <2> QED BY <1>0, <2>1, <2>3, <2>4, <2>5 DEF Answers
<1> QED BY <1>1, <1>2, <1>3, <1>4 DEF Start

\* The statements of the handlers.
LEMMA DatabaseAnswers ==
    ASSUME AInv, NEW h \in Handler,
           \/ Admit(h) \/ Recheck(h) \/ SelectOwned(h) \/ DeleteCommit(h)
           \/ Query(h)
           \/ \E c \in Code : Insert(h, c) \/ Collide(h, c)
           \/ \E at \in {"insert", "recheck", "select", "delete", "query"} :
                 DbError(h, at)
    PROVE  Answers'
<1>0. /\ loc[h] \in Local /\ Typed /\ Answers /\ Shape(pc[h], loc[h])
      /\ WellFormed(pc[h], loc[h]) /\ obs[h].made \in Nat
      /\ Held(pc[h], loc[h], obs[h], urls[loc[h].code].url)
  BY DEF AInv, Typed, TypeOK, Shapes, Answers, LocalsOK
<1>1. CASE Admit(h)
  <2>1. pc[h] = "admit" /\ UNCHANGED <<urls, obs>>
    BY <1>1 DEF Admit
  <2>2. Held("insert", loc[h], obs[h], urls[loc[h].code].url)
    BY <1>0, <2>1 DEF Held, Counted
  <2> QED BY <1>0, <1>1, <2>1, <2>2, QuietAnswers, ReplyAnswers DEF Admit
<1>2. CASE Recheck(h)
  <2>1. pc[h] = "recheck" /\ UNCHANGED <<urls, obs>>
    BY <1>2 DEF Recheck
  <2>2. Held("insert", loc[h], obs[h], urls[loc[h].code].url)
    BY <1>0, <2>1 DEF Held, Counted
  <2> QED BY <1>0, <1>2, <2>1, <2>2, QuietAnswers, ReplyAnswers
          DEF Recheck, AfterCollision
<1>3. CASE SelectOwned(h)
  <2> DEFINE r == [loc[h] EXCEPT !.id = urls[loc[h].code].id]
  <2>1. pc[h] = "select" /\ UNCHANGED <<urls, obs>> /\ loc[h].kind = "delete"
    BY <1>0, <1>3 DEF SelectOwned, Shape
  <2>2. r.kind = "delete" /\ r.answer = loc[h].answer
    BY <1>0, <2>1 DEF Local
  <2>3. Goto(h, "delete", r) \/ Reply(h, "not_owned")
    BY <1>3 DEF SelectOwned
  <2> HIDE DEF r
  <2>4. Held("delete", r, obs[h], urls[r.code].url)
    BY <1>0, <2>1, <2>2 DEF Held, Looked, Counted, Worded, Shape
  <2> QED BY <1>0, <2>1, <2>3, <2>4, QuietAnswers, ReplyAnswers
<1>4. CASE DeleteCommit(h)
  <2> DEFINE r == Invalidate(loc[h])
             e == [loc[h] EXCEPT !.answer = "error"]
  <2>1. /\ pc[h] = "delete" /\ loc[h].kind = "delete" /\ loc[h].code \in Code
        /\ loc[h].answer = "none"
    BY <1>0, <1>4 DEF DeleteCommit, Shape, WellFormed
  <2>2. /\ r.kind = "delete" /\ r.answer = "none"
        /\ e.kind = "delete" /\ e.answer = "error"
    BY <1>0, <2>1 DEF Local, Invalidate
  <2>3. NoRow \in Row
    BY DEF Row
  <2>4. \/ /\ Goto(h, "gate", r)
           /\ \/ Commit(h, loc[h].code, NoRow, 0)
              \/ UNCHANGED <<urls, obs>>
        \/ Goto(h, "answered", e) /\ Commit(h, loc[h].code, NoRow, 0)
    BY <1>4 DEF DeleteCommit, CommitUnheard, Reply
  <2> HIDE DEF r, e
  <2>5. Held("gate", r, obs[h], urls[r.code].url)
    BY <2>2 DEF Held, Looked, Counted, Worded
  <2>6. \A o : Counted("gate", r, o) /\ Counted("answered", e, o)
    BY <2>2 DEF Counted
  <2> QED BY <1>0, <2>1, <2>2, <2>3, <2>4, <2>5, <2>6, QuietAnswers, CommitAnswers
<1>5. CASE Query(h)
  <2> DEFINE u == urls[loc[h].code].url
             r == [loc[h] EXCEPT !.url = u, !.op = "set"]
  <2>1. /\ pc[h] = "query" /\ loc[h].kind = "redirect" /\ loc[h].answer = "none"
        /\ Goto(h, "gate", r) /\ UNCHANGED <<urls, obs>>
    BY <1>0, <1>5 DEF Query, Shape
  <2>2. /\ r.kind = "redirect" /\ r.answer = "none" /\ r.code = loc[h].code
        /\ r.url = u
    BY <1>0, <2>1 DEF Local
  <2> HIDE DEF r
  <2>3. Held("gate", r, obs[h], urls[r.code].url)
    BY <1>0, <2>1, <2>2 DEF Held, Looked, Counted, Worded
  <2> QED BY <1>0, <2>1, <2>3, QuietAnswers
<1>6. ASSUME NEW c \in Code, Insert(h, c)
      PROVE  Answers'
  <2> DEFINE r == Invalidate([loc[h] EXCEPT !.code = c, !.id = nextId])
             e == [loc[h] EXCEPT !.answer = "error"]
  <2>1. /\ pc[h] = "insert" /\ loc[h].kind = "create" /\ loc[h].answer = "none"
        /\ obs[h].made = 0 /\ loc[h].url \in Url
    BY <1>0, <1>6 DEF Insert, Shape, Held, Counted, WellFormed
  <2>2. /\ r.kind = "create" /\ r.answer = "none"
        /\ e.kind = "create" /\ e.answer = "error"
    BY <1>0, <2>1 DEF Local, Invalidate
  <2>3. NewRow(h) \in Row
    BY <1>0, <2>1 DEF NewRow, Row, Typed, TypeOK, Local
  <2>4. /\ Commit(h, c, NewRow(h), 1)
        /\ Goto(h, "gate", r) \/ (Goto(h, "answered", e) /\ "db" \in Faults)
    BY <1>6 DEF Insert, CommitUnheard, Reply
  <2> HIDE DEF r, e
  <2>5. ASSUME NEW o, o.made = obs[h].made + 1
        PROVE  Counted("gate", r, o) /\ ("db" \in Faults => Counted("answered", e, o))
    BY <2>1, <2>2, <2>5 DEF Counted
  <2> QED BY <2>2, <2>3, <2>4, <2>5, CommitAnswers
<1>7. ASSUME NEW c \in Code, Collide(h, c)
      PROVE  Answers'
  <2> DEFINE r == [loc[h] EXCEPT !.code = c, !.tries = @ + 1]
  <2>1. /\ pc[h] = "insert" /\ loc[h].kind = "create" /\ loc[h].answer = "none"
        /\ Goto(h, "recheck", r) /\ UNCHANGED <<urls, obs>>
    BY <1>0, <1>7 DEF Collide, Shape
  <2>2. r.kind = "create" /\ r.answer = "none"
    BY <1>0, <2>1 DEF Local
  <2> HIDE DEF r
  <2>3. Held("recheck", r, obs[h], urls[r.code].url)
    BY <1>0, <2>1, <2>2 DEF Held, Looked, Counted, Worded
  <2> QED BY <1>0, <2>1, <2>3, QuietAnswers
<1>8. ASSUME NEW at \in {"insert", "recheck", "select", "delete", "query"},
             DbError(h, at)
      PROVE  Answers'
  BY <1>8, ReplyAnswers DEF DbError
<1> QED BY <1>1, <1>2, <1>3, <1>4, <1>5, <1>6, <1>7, <1>8

\* The uses of the cache.
LEMMA CacheAnswers ==
    ASSUME AInv, NEW h \in Handler,
           Skip(h) \/ Enter(h) \/ Call(h) \/ LostCall(h) \/ Record(h) \/ Respond(h)
    PROVE  Answers'
<1>0. /\ loc[h] \in Local /\ Typed /\ Answers /\ Shape(pc[h], loc[h])
      /\ WellFormed(pc[h], loc[h])
      /\ obs[h] \in [seen : SUBSET (Url \cup {Missing}), doubt : BOOLEAN,
                     promised : BOOLEAN, made : Nat]
      /\ Held(pc[h], loc[h], obs[h], urls[loc[h].code].url)
  BY DEF AInv, Typed, TypeOK, Shapes, Answers, LocalsOK
<1>1. CASE Skip(h)
  BY <1>0, <1>1, ReturnAnswers DEF Skip
<1>2. CASE Enter(h)
  <2>1. Held("call", loc[h], obs[h], urls[loc[h].code].url)
    BY <1>0, <1>2 DEF Enter, Held, Counted
  <2> QED BY <1>0, <1>2, <2>1, QuietAnswers DEF Enter
<1>3. CASE Call(h) /\ loc[h].op # "get"
  <2>1. Held("record", loc[h], obs[h], urls[loc[h].code].url)
    BY <1>0, <1>3 DEF Call, Held, Counted
  <2> QED BY <1>0, <1>3, <2>1, QuietAnswers DEF Call
<1>4. CASE Call(h) /\ loc[h].op = "get"
  <2> DEFINE c == loc[h].code
             r == [loc[h] EXCEPT !.url = cache[c]]
             d == cause[c] # "none" \/ \E g \in Handler : Due(g, c)
             o == [obs[h] EXCEPT !.doubt = d]
  <2>1. /\ pc[h] = "call" /\ loc[h].kind = "redirect" /\ c \in Code
        /\ loc[h].answer = "none"
    BY <1>0, <1>4 DEF Call, Shape, WellFormed
  <2>2. /\ r.kind = "redirect" /\ r.code = c /\ r.url = cache[c]
        /\ r.answer = "none"
    BY <1>0, <2>1 DEF Local
  <2>3. o.seen = obs[h].seen /\ o.made = obs[h].made /\ o.doubt = d
    BY <1>0
  <2>4. /\ Goto(h, "record", r) /\ UNCHANGED urls
        /\ obs' = [obs EXCEPT ![h] = o]
    BY <1>4 DEF Call
  <2>5. cache[c] \in {NoEntry, urls[c].url} \/ d
    BY <2>1 DEF AInv, StaleHasCause, Stale, Outdated
  <2>6. ~NegativeOn => cache[c] # Missing
    BY <2>1 DEF AInv, NoNegative
  <2> HIDE DEF r, d, o
  <2>7. Held("record", r, o, urls[c].url)
    BY <1>0, <2>1, <2>2, <2>3, <2>5, <2>6 DEF Held, Looked, Counted, Worded
  <2>8. /\ \A g \in Handler : g # h => /\ pc'[g] = pc[g] /\ loc'[g] = loc[g]
                                       /\ obs'[g] = obs[g]
        /\ pc'[h] = "record" /\ loc'[h] = r /\ obs'[h] = o
    BY <1>0, <2>4 DEF Typed, TypeOK, Goto
  <2> QED BY <1>0, <2>2, <2>4, <2>7, <2>8 DEF Answers
<1>5. CASE LostCall(h)
  <2> DEFINE r == [loc[h] EXCEPT !.ok = FALSE]
  <2>1. pc[h] = "call" /\ Goto(h, "record", r) /\ UNCHANGED <<urls, obs>>
    BY <1>5 DEF LostCall
  <2>2. /\ r.kind = loc[h].kind /\ r.code = loc[h].code /\ r.url = loc[h].url
        /\ r.answer = loc[h].answer
    BY <1>0 DEF Local
  <2> HIDE DEF r
  <2>3. Held("record", r, obs[h], urls[r.code].url)
    BY <1>0, <2>1, <2>2 DEF Held, Looked, Counted, Worded
  <2> QED BY <1>0, <2>1, <2>3, QuietAnswers
<1>6. CASE Record(h)
  <2> DEFINE r == [loc[h] EXCEPT !.ok = TRUE]
  <2>1. pc[h] = "record" /\ Return(h, r) /\ UNCHANGED <<urls, obs>>
    BY <1>6 DEF Record
  <2>2. /\ r \in Local /\ r.kind = loc[h].kind /\ r.code = loc[h].code
        /\ r.url = loc[h].url /\ r.answer = loc[h].answer /\ r.op = loc[h].op
    BY <1>0 DEF Local
  <2> HIDE DEF r
  <2>3. Held("record", r, obs[h], urls[r.code].url)
    BY <1>0, <2>1, <2>2 DEF Held, Looked, Counted, Worded
  <2>4. Shape("record", r)
    BY <1>0, <2>1, <2>2 DEF Shape
  <2> QED BY <2>1, <2>2, <2>3, <2>4, ReturnAnswers
<1>7. CASE Respond(h)
  <2>1. /\ \A g \in Handler : g # h => /\ pc'[g] = pc[g] /\ loc'[g] = loc[g]
                                       /\ obs'[g] = obs[g]
        /\ pc'[h] = "idle" /\ loc'[h] = Idle /\ obs'[h] = Unobserved
        /\ UNCHANGED urls
    BY <1>0, <1>7 DEF Respond, Typed, TypeOK, Goto
  <2>2. \A u : Held("idle", Idle, Unobserved, u)
    BY DEF Held, Looked, Counted, Worded, Idle, Unobserved
  <2> QED BY <1>0, <2>1, <2>2 DEF Answers
<1> QED BY <1>1, <1>2, <1>3, <1>4, <1>5, <1>6, <1>7

\* Every step leaves each handler what it relies on.
LEMMA AnswersNext ==
    ASSUME AInv, [Next]_vars
    PROVE  Answers'
<1>0. Typed /\ Answers
  BY DEF AInv
<1>1. CASE UNCHANGED vars
  BY <1>0, <1>1 DEF vars, Answers
<1>2. CASE \/ \E c \in Code : Expire(c)
           \/ \E e \in late : Land(e)
           \/ \E w \in Worker : CircuitCloses(w)
  BY <1>0, <1>2 DEF Expire, Land, CircuitCloses, Answers
<1>3. ASSUME NEW w \in Worker, Crash(w)
      PROVE  Answers'
  <2>1. \A u : Held("idle", Idle, Unobserved, u)
    BY DEF Held, Looked, Counted, Worded, Idle, Unobserved
  <2> QED BY <1>0, <1>3, <2>1 DEF Crash, Answers
<1>4. ASSUME NEW h \in Handler, Continue(h)
      PROVE  Answers'
  BY <1>4, DatabaseAnswers, CacheAnswers DEF Continue
<1> QED BY <1>1, <1>2, <1>3, <1>4, StartAnswers DEF Next

-----------------------------------------------------------------------------
(* Negative entries. *)

\* A handler comes to a Redis command through the gate only.
LEMMA CallsArePermitted ==
    ASSUME Typed, NEW g \in Handler, Start(g) \/ Continue(g),
           NEW h \in Handler, pc'[h] = "call"
    PROVE  loc'[h] = loc[h] /\ (pc[h] = "call" \/ Permitted(h))
<1>1. Enter(g) \/ \E p, r : p # "call" /\ Goto(g, p, r)
  <2>1. CASE Start(g)
    BY <2>1 DEF Start, StartCreate, Unauthorized, StartDelete, StartRedirect, Begin
  <2>2. CASE \/ Admit(g) \/ Recheck(g) \/ SelectOwned(g) \/ Query(g)
             \/ \E c \in Code : Collide(g, c)
             \/ \E at \in {"insert", "recheck", "select", "delete", "query"} :
                   DbError(g, at)
    BY <2>2 DEF Admit, Recheck, AfterCollision, SelectOwned, Query, Collide, DbError,
                Reply
  <2>3. CASE DeleteCommit(g) \/ \E c \in Code : Insert(g, c)
    BY <2>3 DEF DeleteCommit, Insert, CommitUnheard, Reply
  <2>4. CASE Skip(g) \/ Record(g) \/ Call(g) \/ LostCall(g) \/ Respond(g)
    BY <2>4 DEF Skip, Record, Call, LostCall, Respond, Return
  <2> QED BY <2>1, <2>2, <2>3, <2>4 DEF Continue
<1>2. CASE Enter(g)
  BY <1>2 DEF Enter, Goto, Typed, TypeOK
<1>3. ASSUME NEW p, NEW r, p # "call", Goto(g, p, r)
      PROVE  loc'[h] = loc[h] /\ pc[h] = "call"
  BY <1>3 DEF Goto, Typed, TypeOK
<1> QED BY <1>1, <1>2, <1>3

\* Without negative caching no step brings a negative entry about.
LEMMA NoNegativeNext ==
    ASSUME AInv, [Next]_vars
    PROVE  NoNegative'
<1> SUFFICES ASSUME ~NegativeOn
             PROVE  /\ \A c \in Code : cache'[c] # Missing
                    /\ \A e \in late' : e.val # Missing
                    /\ \A h \in Handler :
                          pc'[h] = "call" /\ loc'[h].op = "set" => loc'[h].url # Missing
  BY DEF NoNegative
<1>0. /\ Typed /\ Missing # NoEntry
      /\ \A c \in Code : cache[c] # Missing
      /\ \A e \in late : e.val # Missing /\ e.code \in Code
      /\ \A h \in Handler :
            pc[h] = "call" =>
               /\ loc[h].code \in Code
               /\ loc[h].op = "set" => loc[h].url # Missing
  BY SetsAssumption
  DEF AInv, NoNegative, Typed, TypeOK, LocalsOK, WellFormed
<1>1. \A c \in Code : cache'[c] # Missing
  <2>1. ASSUME NEW c \in Code, NEW v, v # Missing, Apply(c, v)
        PROVE  \A d \in Code : cache'[d] # Missing
    BY <1>0, <2>1 DEF Apply, Typed, TypeOK
  <2>2. ASSUME NEW h \in Handler, Call(h), loc[h].op # "get"
        PROVE  \A d \in Code : cache'[d] # Missing
    <3> DEFINE v == IF loc[h].op = "set" THEN loc[h].url ELSE NoEntry
    <3>1. loc[h].code \in Code /\ v # Missing /\ Apply(loc[h].code, v)
      BY <1>0, <2>2 DEF Call
    <3> QED BY <2>1, <3>1
  <2>3. ASSUME NEW c \in Code, Expire(c)
        PROVE  \A d \in Code : cache'[d] # Missing
    BY <1>0, <2>1, <2>3 DEF Expire
  <2>4. ASSUME NEW e \in late, Land(e)
        PROVE  \A d \in Code : cache'[d] # Missing
    BY <1>0, <2>1, <2>4 DEF Land
  <2>5. \/ UNCHANGED cache
        \/ \E h \in Handler : Call(h) /\ loc[h].op # "get"
        \/ \E c \in Code : Expire(c)
        \/ \E e \in late : Land(e)
    <3>1. ASSUME NEW h \in Handler, Start(h)
          PROVE  UNCHANGED cache
      BY <3>1 DEF Start, StartCreate, Unauthorized, StartDelete, StartRedirect, Begin
    <3>2. ASSUME NEW h \in Handler, Continue(h), ~(Call(h) /\ loc[h].op # "get")
          PROVE  UNCHANGED cache
      BY <3>2 DEF Continue, Admit, Insert, Collide, Recheck, SelectOwned,
         DeleteCommit, Query, DbError, CommitUnheard, Skip, Enter, Call, LostCall,
         Record, Respond
    <3>3. ASSUME NEW w \in Worker, CircuitCloses(w) \/ Crash(w)
          PROVE  UNCHANGED cache
      BY <3>3 DEF CircuitCloses, Crash
    <3> QED BY <3>1, <3>2, <3>3 DEF Next, vars
  <2> QED BY <1>0, <2>2, <2>3, <2>4, <2>5
<1>2. \A e \in late' : e.val # Missing
  <2>1. ASSUME NEW H \in SUBSET Handler, Abandon(H)
        PROVE  \A e \in late' : e.val # Missing
    <3>1. \A e \in Sent(H) : e.val # Missing
      BY <1>0 DEF Sent
    <3> QED BY <1>0, <2>1, <3>1 DEF Abandon
  <2>2. \/ late' \subseteq late
        \/ \E H \in SUBSET Handler : Abandon(H)
    <3>1. ASSUME NEW h \in Handler, Start(h)
          PROVE  UNCHANGED late
      BY <3>1 DEF Start, StartCreate, Unauthorized, StartDelete, StartRedirect, Begin
    <3>2. ASSUME NEW h \in Handler, Continue(h), ~LostCall(h)
          PROVE  UNCHANGED late
      BY <3>2 DEF Continue, Admit, Insert, Collide, Recheck, SelectOwned,
         DeleteCommit, Query, DbError, CommitUnheard, Skip, Enter, Call, Record,
         Respond
    <3>3. ASSUME NEW h \in Handler, LostCall(h)
          PROVE  \E H \in SUBSET Handler : Abandon(H)
      <4>1. Abandon({h}) /\ {h} \in SUBSET Handler
        BY <3>3 DEF LostCall
      <4> QED BY <4>1
    <3>4. ASSUME NEW w \in Worker, Crash(w)
          PROVE  \E H \in SUBSET Handler : Abandon(H)
      <4> DEFINE H == {h \in Handler : WorkerOf[h] = w}
      <4>1. Abandon(H) /\ H \in SUBSET Handler
        BY <3>4 DEF Crash
      <4> QED BY <4>1
    <3>5. ASSUME \/ \E c \in Code : Expire(c)
                 \/ \E e \in late : Land(e)
                 \/ \E w \in Worker : CircuitCloses(w)
          PROVE  late' \subseteq late
      BY <3>5 DEF Expire, Land, CircuitCloses
    <3> QED BY <3>1, <3>2, <3>3, <3>4, <3>5 DEF Next, vars
  <2> QED BY <1>0, <2>1, <2>2
<1>3. \A h \in Handler :
         pc'[h] = "call" /\ loc'[h].op = "set" => loc'[h].url # Missing
  <2> SUFFICES ASSUME NEW h \in Handler, pc'[h] = "call", loc'[h].op = "set"
               PROVE  loc'[h].url # Missing
    OBVIOUS
  <2>1. loc'[h] = loc[h] /\ (pc[h] = "call" \/ Permitted(h))
    <3>1. ASSUME NEW g \in Handler, Start(g) \/ Continue(g)
          PROVE  loc'[h] = loc[h] /\ (pc[h] = "call" \/ Permitted(h))
      BY <1>0, <3>1, CallsArePermitted
    <3>2. ASSUME NEW w \in Worker, Crash(w)
          PROVE  loc'[h] = loc[h] /\ pc[h] = "call"
      BY <3>2 DEF Crash
    <3>3. ASSUME \/ \E c \in Code : Expire(c)
                 \/ \E e \in late : Land(e)
                 \/ \E w \in Worker : CircuitCloses(w)
                 \/ UNCHANGED vars
          PROVE  loc'[h] = loc[h] /\ pc[h] = "call"
      BY <3>3 DEF Expire, Land, CircuitCloses, vars
    <3> QED BY <3>1, <3>2, <3>3 DEF Next
  <2> QED BY <1>0, <2>1 DEF Permitted
<1> QED BY <1>1, <1>2, <1>3

-----------------------------------------------------------------------------
(* The theorems. *)

\* Coherence is kept by each step.
LEMMA CoherentNext == Typed /\ StaleHasCause /\ [Next]_vars => StaleHasCause'
<1> SUFFICES ASSUME Typed, StaleHasCause, [Next]_vars PROVE StaleHasCause'
  OBVIOUS
<1>1. CASE UNCHANGED vars
  BY <1>1 DEF vars, StaleHasCause, Stale, Outdated, Due
<1>2. CASE Next
  BY <1>2, DatabaseCoherent, CacheCoherent, EnvironmentCoherent DEF Next, Continue
<1> QED BY <1>1, <1>2

\* The invariant of the answers: with what the shapes of the locals say and
\* with coherence, each step leaves every handler what it relies on.
LEMMA Answering == Spec => []AInv
<1>1. Init => AInv
  <2> SUFFICES ASSUME Init PROVE AInv
    OBVIOUS
  <2>0. Shape("idle", Idle)
    BY DEF Shape, Idle
  <2>1. Typed /\ Shapes
    BY <2>0, InitType DEF Init, Shapes
  <2>2. StaleHasCause
    BY DEF Init, StaleHasCause, Stale, Outdated
  <2>3. \A u : Held("idle", Idle, Unobserved, u)
    BY DEF Held, Looked, Counted, Worded, Idle, Unobserved
  <2>4. Answers
    BY <2>3 DEF Init, Answers
  <2>5. NoNegative
    BY SetsAssumption DEF Init, NoNegative
  <2> QED BY <2>1, <2>2, <2>4, <2>5 DEF AInv
<1>2. AInv /\ [Next]_vars => AInv'
  BY NextType, ShapesNext, CoherentNext, AnswersNext, NoNegativeNext DEF AInv
<1> QED BY <1>1, <1>2, PTL DEF Spec

\* redirect answers with what the table said during the request, or the cache
\* was known to be in doubt when it was read.
THEOREM LookupsAreTrue == Spec => []LookupsAreLinearizable
<1>1. AInv => LookupsAreLinearizable
  BY DEF AInv, Answers, Held, Looked, Worded, LookupsAreLinearizable
<1> QED BY <1>1, Answering, PTL

\* create_short_url leaves exactly the rows its answer says, and gives up after
\* exactly MaxAttempts collisions.
THEOREM AllocationsAreExact == Spec => []AllocationIsExact
<1>1. AInv => AllocationIsExact
  BY DEF AInv, Answers, Held, Counted, AllocationIsExact
<1> QED BY <1>1, Answering, PTL

\* Without negative caching, a link whose creation has been answered is found
\* for as long as it exists.
THEOREM AnnouncedLinksResolve ==
    ASSUME ~NegativeOn
    PROVE  Spec => []AnnouncedLinkResolves
<1>1. AInv => AnnouncedLinkResolves
  BY DEF AInv, Answers, Held, Looked, Worded, AnnouncedLinkResolves
<1> QED BY <1>1, Answering, PTL

-----------------------------------------------------------------------------
(* What holds when nothing goes wrong, or nothing is deleted. *)

\* A handler that has met a row with its code still finds one.
Met == \A h \in Handler : pc[h] = "recheck" => Exists(loc[h].code)

\* Each step of a handler sets its program counter and its locals.
LEMMA StepsGo ==
    ASSUME Typed, NEW h \in Handler, Start(h) \/ Continue(h)
    PROVE  \E p, r : /\ Goto(h, p, r)
                     /\ p = "recheck" => \E c \in Code : Collide(h, c)
                     /\ pc[h] = "recheck" =>
                           Recheck(h) \/ "db" \in Faults \/ p \notin {"recheck", "answered"}
<1>1. CASE Start(h)
  <2>1. \E p, r : Goto(h, p, r) /\ pc[h] = "idle" /\ p # "recheck"
    BY <1>1 DEF Start, StartCreate, Unauthorized, StartDelete, StartRedirect, Begin
  <2> QED BY <2>1
<1>2. CASE \E c \in Code : Collide(h, c)
  <2>1. pc[h] = "insert" /\ \E r : Goto(h, "recheck", r)
    BY <1>2 DEF Collide
  <2> QED BY <1>2, <2>1
<1>3. CASE Recheck(h)
  <2>1. \E p, r : Goto(h, p, r) /\ p # "recheck"
    BY <1>3 DEF Recheck, AfterCollision, Reply
  <2> QED BY <1>3, <2>1
<1>4. CASE \E at \in {"insert", "recheck", "select", "delete", "query"} : DbError(h, at)
  <2>1. "db" \in Faults /\ \E r : Goto(h, "answered", r)
    BY <1>4 DEF DbError, Reply
  <2> QED BY <2>1
<1>5. CASE \/ Admit(h) \/ SelectOwned(h) \/ DeleteCommit(h) \/ Query(h)
           \/ \E c \in Code : Insert(h, c)
  <2>1. pc[h] # "recheck"
    BY <1>5 DEF Admit, SelectOwned, DeleteCommit, Query, Insert
  <2>2. Admit(h) \/ SelectOwned(h) \/ Query(h) =>
           \E p, r : Goto(h, p, r) /\ p # "recheck"
    BY DEF Admit, SelectOwned, Query, Reply
  <2>3. ASSUME DeleteCommit(h) \/ \E c \in Code : Insert(h, c)
        PROVE  \E r : Goto(h, "gate", r) \/ Goto(h, "answered", r)
    BY <2>3 DEF DeleteCommit, Insert, CommitUnheard, Reply
  <2>4. \E p, r : Goto(h, p, r) /\ p # "recheck"
    BY <1>5, <2>2, <2>3
  <2> QED BY <2>1, <2>4
<1>6. CASE Skip(h) \/ Enter(h) \/ Call(h) \/ LostCall(h) \/ Record(h) \/ Respond(h)
  <2>1. pc[h] # "recheck" /\ \E p, r : Goto(h, p, r) /\ p # "recheck"
    BY <1>6 DEF Skip, Enter, Call, LostCall, Record, Respond, Return
  <2> QED BY <2>1
<1> QED BY <1>1, <1>2, <1>3, <1>4, <1>5, <1>6 DEF Continue

\* Only a handler itself changes its step, but for a crash of its worker.
LEMMA OwnSteps ==
    ASSUME Typed, [Next]_vars, NEW h \in Handler
    PROVE  \/ pc'[h] = pc[h] /\ loc'[h] = loc[h]
           \/ Start(h) \/ Continue(h)
           \/ pc'[h] = "idle"
<1>1. CASE UNCHANGED vars
  BY <1>1 DEF vars
<1>2. CASE \/ \E c \in Code : Expire(c)
           \/ \E e \in late : Land(e)
           \/ \E w \in Worker : CircuitCloses(w)
  BY <1>2 DEF Expire, Land, CircuitCloses
<1>3. ASSUME NEW w \in Worker, Crash(w)
      PROVE  pc'[h] = "idle" \/ (pc'[h] = pc[h] /\ loc'[h] = loc[h])
  BY <1>3 DEF Crash
<1>4. ASSUME NEW g \in Handler \ {h}, Start(g) \/ Continue(g)
      PROVE  pc'[h] = pc[h] /\ loc'[h] = loc[h]
  <2>1. \E p, r : Goto(g, p, r)
    BY <1>4, StepsGo
  <2> QED BY <2>1 DEF Goto, Typed, TypeOK
<1> QED BY <1>1, <1>2, <1>3, <1>4 DEF Next

\* A handler comes to the second look by a collision.
LEMMA ComesToRecheck ==
    ASSUME Typed, [Next]_vars, NEW h \in Handler, pc'[h] = "recheck"
    PROVE  \/ pc[h] = "recheck" /\ loc'[h] = loc[h]
           \/ \E c \in Code : Collide(h, c)
<1>1. CASE Start(h) \/ Continue(h)
  <2>1. PICK p, r : /\ Goto(h, p, r)
                    /\ p = "recheck" => \E c \in Code : Collide(h, c)
    BY <1>1, StepsGo
  <2>2. pc'[h] = p
    BY <2>1 DEF Goto, Typed, TypeOK
  <2> QED BY <2>1, <2>2
<1> QED BY <1>1, OwnSteps

\* A handler that answers after the second look does so by its result.
LEMMA LeavesRecheck ==
    ASSUME Typed, Next, "db" \notin Faults, NEW h \in Handler,
           pc[h] = "recheck", pc'[h] = "answered"
    PROVE  Recheck(h)
<1>1. Start(h) \/ Continue(h)
  BY OwnSteps
<1>2. PICK p, r : /\ Goto(h, p, r)
                  /\ Recheck(h) \/ p \notin {"recheck", "answered"}
  BY <1>1, StepsGo
<1>3. pc'[h] = p
  BY <1>2 DEF Goto, Typed, TypeOK
<1> QED BY <1>2, <1>3

\* As long as no row is deleted, a collision is always tried again or given up
\* after MaxAttempts: only a row that is gone when it is looked for makes
\* create_short_url report it as an error.
THEOREM CollisionsAreRetriedWithoutDeletions ==
    ASSUME "db" \notin Faults
    PROVE  Spec /\ [][\A c \in Code : Exists(c) => Exists(c)']_vars
               => CollisionsAreRetried
<1> DEFINE Stay == \A c \in Code : Exists(c) => Exists(c)'
<1>1. Init => Met
  BY DEF Init, Met
<1>2. Typed /\ Met /\ [Next]_vars /\ [Stay]_vars => Met'
  <2> SUFFICES ASSUME Typed, Met, [Next]_vars, [Stay]_vars, NEW g \in Handler,
                      pc'[g] = "recheck"
               PROVE  Exists(loc[g].code)'
    BY DEF Met
  <2>1. CASE pc[g] = "recheck" /\ loc'[g] = loc[g]
    <3>1. loc[g].code \in Code /\ Exists(loc[g].code)
      BY <2>1 DEF Typed, LocalsOK, WellFormed, Met
    <3> QED BY <2>1, <3>1 DEF vars, Exists
  <2>2. ASSUME NEW c \in Code, Collide(g, c)
        PROVE  Exists(loc[g].code)'
    <3>1. loc'[g].code = c /\ urls' = urls /\ Exists(c)
      BY <2>2 DEF Collide, Goto, Typed, TypeOK, Local
    <3> QED BY <3>1 DEF Exists
  <2> QED BY <2>1, <2>2, ComesToRecheck
<1>3. Typed /\ Met /\ [Next]_vars =>
        [\A h \in Handler :
            pc[h] = "recheck" /\ pc'[h] = "answered" => loc'[h].answer # "error"]_vars
  <2> SUFFICES ASSUME Typed, Met, Next, NEW h \in Handler,
                      pc[h] = "recheck", pc'[h] = "answered"
               PROVE  loc'[h].answer # "error"
    OBVIOUS
  <2>1. Exists(loc[h].code)
    BY DEF Met
  <2>2. Recheck(h)
    BY LeavesRecheck
  <2> QED BY <2>1, <2>2 DEF Recheck, AfterCollision, Reply, Goto, Typed, TypeOK, Local
<1> QED BY <1>1, <1>2, <1>3, InitType, NextType, PTL DEF Spec, CollisionsAreRetried

\* Nothing has been lost, and no circuit has opened.
Healthy ==
    /\ open = [w \in Worker |-> FALSE] /\ late = {}
    /\ \A h \in Handler : loc[h].ok
    /\ \A c \in Code : cause[c] # "unreached" /\ (~CacheOn => cache[c] = NoEntry)

\* What a handler goes on with is as healthy as what it had.
LEMMA HealthyGoes ==
    ASSUME Typed, Healthy, NEW h \in Handler, NEW p, NEW r, Goto(h, p, r), r.ok
    PROVE  \A g \in Handler : loc'[g].ok
BY DEF Healthy, Goto, Typed, TypeOK

\* Its database steps leave cache and circuit alone.
LEMMA HealthyDatabase ==
    ASSUME "db" \notin Faults, Typed, Healthy, NEW h \in Handler,
           \/ Start(h) \/ Admit(h)
           \/ \E c \in Code : Insert(h, c) \/ Collide(h, c)
           \/ Recheck(h) \/ SelectOwned(h) \/ DeleteCommit(h) \/ Query(h)
           \/ \E at \in {"insert", "recheck", "select", "delete", "query"} :
                 DbError(h, at)
           \/ Respond(h)
    PROVE  Healthy'
<1>1. loc[h] \in Local /\ loc[h].ok /\ Idle.ok
  BY DEF Typed, TypeOK, Healthy, Idle
<1>2. UNCHANGED <<open, late, cause, cache>>
  BY DEF Start, StartCreate, Unauthorized, StartDelete, StartRedirect, Begin, Admit,
         Insert, Collide, Recheck, SelectOwned, DeleteCommit, Query, DbError,
         CommitUnheard, Respond
<1>3. \A p, r : Goto(h, p, r) /\ r.ok => Healthy'
  BY <1>2, HealthyGoes DEF Healthy
<1>4. \A a : Reply(h, a) => Healthy'
  <2>1. \A a : [loc[h] EXCEPT !.answer = a].ok
    BY <1>1 DEF Local
  <2> QED BY <1>3, <2>1 DEF Reply
<1>5. CASE Start(h)
  <2>1. ASSUME NEW u, NEW url, StartCreate(h, u, url)
        PROVE  Healthy'
    <3>1. [Idle EXCEPT !.kind = "create", !.user = u, !.url = url].ok
      BY DEF Idle
    <3> QED BY <1>3, <2>1, <3>1 DEF StartCreate, Begin
  <2>2. ASSUME NEW k, Unauthorized(h, k)
        PROVE  Healthy'
    <3>1. [Idle EXCEPT !.kind = k, !.answer = "unauthorized"].ok
      BY DEF Idle
    <3> QED BY <1>3, <2>2, <3>1 DEF Unauthorized, Begin
  <2>3. ASSUME NEW u, NEW c, StartDelete(h, u, c)
        PROVE  Healthy'
    <3>1. [Idle EXCEPT !.kind = "delete", !.user = u, !.code = c].ok
      BY DEF Idle
    <3> QED BY <1>3, <2>3, <3>1 DEF StartDelete, Begin
  <2>4. ASSUME NEW c, StartRedirect(h, c)
        PROVE  Healthy'
    <3>1. [Idle EXCEPT !.kind = "redirect", !.code = c].ok
      BY DEF Idle
    <3> QED BY <1>3, <2>4, <3>1 DEF StartRedirect, Begin
  <2> QED BY <1>5, <2>1, <2>2, <2>3, <2>4 DEF Start
<1>6. CASE Admit(h) \/ Query(h)
  <2>1. [loc[h] EXCEPT !.url = urls[loc[h].code].url, !.op = "set"].ok
    BY <1>1 DEF Local
  <2> QED BY <1>1, <1>3, <1>4, <1>6, <2>1 DEF Admit, Query
<1>7. CASE Recheck(h)
  BY <1>1, <1>3, <1>4, <1>7 DEF Recheck, AfterCollision
<1>8. CASE SelectOwned(h)
  <2>1. \A n : [loc[h] EXCEPT !.id = n].ok
    BY <1>1 DEF Local
  <2> QED BY <1>3, <1>4, <1>8, <2>1 DEF SelectOwned
<1>9. ASSUME NEW c \in Code, Collide(h, c)
      PROVE  Healthy'
  <2>1. [loc[h] EXCEPT !.code = c, !.tries = @ + 1].ok
    BY <1>1 DEF Local
  <2> QED BY <1>3, <1>9, <2>1 DEF Collide
<1>10. ASSUME NEW c \in Code, Insert(h, c)
       PROVE  Healthy'
  <2>1. Invalidate([loc[h] EXCEPT !.code = c, !.id = nextId]).ok
    BY <1>1 DEF Local, Invalidate
  <2> QED BY <1>3, <1>10, <2>1 DEF Insert, CommitUnheard
<1>11. CASE DeleteCommit(h)
  <2>1. Invalidate(loc[h]).ok
    BY <1>1 DEF Local, Invalidate
  <2> QED BY <1>3, <1>11, <2>1 DEF DeleteCommit, CommitUnheard
<1>12. CASE Respond(h)
  BY <1>1, <1>3, <1>12 DEF Respond
<1> QED BY <1>5, <1>6, <1>7, <1>8, <1>9, <1>10, <1>11, <1>12 DEF DbError

\* Its use of the cache is permitted, answered and recorded as a success.
LEMMA HealthyCache ==
    ASSUME "redis" \notin Faults, Typed, Shapes, Healthy, NEW h \in Handler,
           Skip(h) \/ Enter(h) \/ Call(h) \/ LostCall(h) \/ Record(h)
    PROVE  Healthy'
<1>1. loc[h] \in Local /\ loc[h].ok /\ WorkerOf[h] \in Worker
  BY SetsAssumption DEF Typed, TypeOK, Healthy
<1>2. \A r \in Local : r.ok /\ Return(h, r) => \E p, q : Goto(h, p, q) /\ q.ok
  BY DEF Return, Local
<1>3. CASE Skip(h)
  <2>1. \A c \in Code : ~(Stale(c) /\ Due(h, c))
    BY <1>1, <1>3 DEF Skip, Permitted, Due, Stale, Outdated, Healthy
  <2>2. cause' = cause
    BY <1>3, <2>1 DEF Skip, Unreached, Typed, TypeOK
  <2> QED BY <1>1, <1>2, <1>3, <2>2, HealthyGoes DEF Skip, Healthy
<1>4. CASE Enter(h)
  BY <1>1, <1>4, HealthyGoes DEF Enter, Healthy
<1>5. CASE Call(h)
  <2>1. CacheOn
    BY <1>5 DEF Call, Shapes, Shape
  <2>2. \E p, r : Goto(h, p, r) /\ r.ok
    BY <1>1, <1>5 DEF Call, Local
  <2>3. UNCHANGED <<open, late>> /\ \A c \in Code : cause'[c] # "unreached"
    BY <1>5 DEF Call, Apply, Healthy, Typed, TypeOK
  <2> QED BY <2>1, <2>2, <2>3, HealthyGoes DEF Healthy
<1>6. CASE Record(h)
  <2>1. [loc[h] EXCEPT !.ok = TRUE] \in Local /\ [loc[h] EXCEPT !.ok = TRUE].ok
    BY <1>1 DEF Local
  <2>2. open' = open
    BY <1>1, <1>6 DEF Record, Healthy
  <2> QED BY <1>2, <1>6, <2>1, <2>2, HealthyGoes DEF Record, Healthy
<1> QED BY <1>3, <1>4, <1>5, <1>6 DEF LostCall

\* While Redis and the database answer and no worker dies, every invalidation
\* reaches the cache: an entry can be wrong only because the read of a lookup
\* was overtaken before it was cached.
THEOREM InvalidationsArrive == Spec => []InvalidationsReach
<1> DEFINE Inv == Faults = {} => Healthy
<1>1. Init => Inv
  BY DEF Init, Healthy, Idle
<1>2. Typed /\ Shapes /\ Inv /\ [Next]_vars => Inv'
  <2> SUFFICES ASSUME Typed, Shapes, Healthy, [Next]_vars, Faults = {}
               PROVE  Healthy'
    OBVIOUS
  <2>1. CASE UNCHANGED vars
    BY <2>1 DEF vars, Healthy
  <2>2. ASSUME NEW c \in Code, Expire(c)
        PROVE  Healthy'
    BY <2>2 DEF Expire, Apply, Healthy, Outdated, Typed, TypeOK
  <2>3. ASSUME NEW w \in Worker, CircuitCloses(w)
        PROVE  Healthy'
    BY <2>3 DEF CircuitCloses, Healthy
  <2>4. ASSUME NEW h \in Handler, Start(h) \/ Continue(h)
        PROVE  Healthy'
    BY <2>4, HealthyDatabase, HealthyCache DEF Continue
  <2> QED BY <2>1, <2>2, <2>3, <2>4 DEF Next, Land, Crash, Healthy
<1>3. Inv => InvalidationsReach
  BY DEF Healthy, InvalidationsReach
<1>4. AInv => Typed /\ Shapes
  BY DEF AInv
<1> HIDE DEF Inv
<1> QED BY <1>1, <1>2, <1>3, <1>4, Answering, PTL DEF Spec
=============================================================================
