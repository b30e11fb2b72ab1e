----------------------------- MODULE AccountsProofs -----------------------------
(***************************************************************************)
(* Theorems about Accounts, for any number of accounts, clients and        *)
(* requests, and any combination of failures.                              *)
(*                                                                         *)
(* Everything the properties need of a request is one predicate of its     *)
(* step, its locals, what it has seen, the table and what clients earned.  *)
(* A step keeps that predicate of the other requests because these four    *)
(* change in a few ways only (OthersKept), and makes it true of its own.   *)
(***************************************************************************)
EXTENDS Accounts, TLAPS

\* What each kind of request asks for.
FormOK(k, f) ==
    /\ k = "register" => /\ f.email \in Email /\ f.username \in Username
                         /\ f.name \in Name /\ f.password \in Password
    /\ k = "profile" => f.email = Nothing /\ f.password = Nothing
    /\ k = "password" => /\ f.email = Nothing /\ f.username = Nothing
                         /\ f.name = Nothing /\ f.password \in Password

\* The kinds of request that reach a step.
KindAt(p, k) ==
    /\ p = "idle" <=> k = Nothing
    /\ p = "load" => k \in {"read", "profile", "password"}
    /\ p = "admit" => k \in {"register", "login", "password"}
    /\ p = "email" => k = "register"
    /\ p = "username" => k \in {"register", "profile"}
    /\ p = "write" => k \in {"register", "profile", "password"}
    /\ p = "refresh" => k \in {"register", "profile"}
    /\ p = "select" => k = "login"
    /\ p = "verify" => k = "password"

\* A request about a row that it has loaded, or that it has written.
Holds(p, l) ==
    \/ l.kind \in {"profile", "password"}
          /\ p \in {"admit", "verify", "username", "write", "refresh"}
    \/ p = "refresh"
StepOK(p, l) ==
    /\ KindAt(p, l.kind) /\ FormOK(l.kind, l.form)
    /\ p # "idle" => l.client \in Client
    /\ p # "answer" => l.answer = Nothing
    /\ p = "answer" => l.answer # Nothing
    /\ l.kind = "register" /\ p \in {"admit", "email", "username", "write"}
          => l.user = Nothing
    /\ Holds(p, l) => l.user \in Account
    /\ Holds(p, l) /\ l.kind # "register" => l.row \in Row

\* A request that ends well for someone who signs in.
SignsIn(p, l) == l.kind \in {"register", "login"}
                 /\ (p = "refresh" \/ l.answer = "ok")
\* Each column is as asked, in this row.
AsAsked(l, row) == \A col \in {"email", "username", "name"} :
                       l.form[col] \in {Nothing, row[col]}

RequestOK(p, l, s, t, e) ==
    /\ StepOK(p, l)
    /\ Holds(p, l) => Exists(t, l.user)
    /\ l.answer = "conflict" => "clash" \in s
    /\ SignsIn(p, l) => /\ l.user \in Account /\ Exists(t, l.user)
                        /\ l.user \in e[l.client]
    /\ l.kind = "login" /\ l.answer = "ok" => "known" \in s
    /\ l.kind = "password" /\ p \in {"admit", "verify", "write"}
          /\ l.row.password = l.form.old => "known" \in s
    /\ l.kind = "password" /\ p = "write" => l.row.password = l.form.old
    /\ l.kind = "password" /\ l.answer = "ok" => "known" \in s
    /\ "raced" \notin s =>
          /\ l.kind = "profile" /\ p \in {"username", "write"}
                => l.row = t[l.user]
          /\ p = "refresh" => AsAsked(l, t[l.user])
          /\ l.kind \in {"register", "profile"} /\ l.answer = "ok"
                => AsAsked(l, l.row)

AccountsInv ==
    /\ TypeOK /\ Distinct(users) /\ SessionIsEarned
    /\ \A r \in Request : RequestOK(pc[r], loc[r], seen[r], users, earned)

-----------------------------------------------------------------------------
(* The observations. *)

\* What a step notes of the requests that are still under way after it.
LEMMA NoteSeen ==
    ASSUME AccountsInv, NEW me \in Request, Note(me),
           pc' \in [Request -> Step]
    PROVE  /\ seen' \in [Request -> SUBSET Event]
           /\ \A q \in Request : pc'[q] # "idle" =>
                /\ Facts(users', loc'[q]) \subseteq seen'[q]
                /\ pc[q] # "idle" => seen[q] \subseteq seen'[q]
                /\ /\ q # me /\ loc[q].user # Nothing
                   /\ users'[loc[q].user] # users[loc[q].user]
                   => "raced" \in seen'[q]
<1>1. \A t, l : Facts(t, l) \subseteq Event
  BY DEF Facts, Event
<1>2. seen \in [Request -> SUBSET Event]
  BY DEF AccountsInv, TypeOK
<1>3. seen' \in [Request -> SUBSET Event]
  BY <1>1, <1>2 DEF Note, Event
<1> QED
  BY <1>2, <1>3 DEF Note

\* A request keeps what is known of it when another one takes a step.
LEMMA OthersKept ==
    ASSUME AccountsInv, NEW r \in Request, NEW q \in Request, q # r,
           NEW p, NEW l, Goto(r, p, l), Note(r), p \in Step,
           \A a \in Account : Exists(users, a) => Exists(users', a),
           \A c \in Client : earned[c] \subseteq earned'[c]
    PROVE  RequestOK(pc'[q], loc'[q], seen'[q], users', earned')
<1>1. pc'[q] = pc[q] /\ loc'[q] = loc[q] /\ pc' \in [Request -> Step]
  BY DEF Goto, AccountsInv, TypeOK
<1>2. RequestOK(pc[q], loc[q], seen[q], users, earned)
  BY DEF AccountsInv
<1>3. CASE pc[q] = "idle"
  <2>1. loc[q].kind = Nothing /\ loc[q].answer = Nothing
    BY <1>2, <1>3 DEF RequestOK, StepOK, KindAt
  <2> QED
    BY <1>1, <1>2, <1>3, <2>1, NothingIsApart
    DEF RequestOK, Holds, SignsIn, Kind, Answer
<1>4. CASE pc[q] # "idle"
  <2>1. /\ seen[q] \subseteq seen'[q]
        /\ loc[q].user # Nothing /\ users'[loc[q].user] # users[loc[q].user]
              => "raced" \in seen'[q]
    BY <1>1, <1>4, NoteSeen
  <2>2. loc[q].user \in Account => loc[q].user # Nothing
    BY AccountsAssumption
  <2>3. SignsIn(pc[q], loc[q]) => loc[q].client \in Client
    BY <1>2, <1>4 DEF RequestOK, StepOK
  <2>4. "raced" \notin seen'[q] =>
          /\ loc[q].kind = "profile" /\ pc[q] \in {"username", "write"}
                => loc[q].row = users'[loc[q].user]
          /\ pc[q] = "refresh" => AsAsked(loc[q], users'[loc[q].user])
    BY <1>2, <2>1, <2>2 DEF RequestOK, StepOK, Holds
  <2> QED
    BY <1>1, <1>2, <2>1, <2>3, <2>4 DEF RequestOK, StepOK
<1> QED
  BY <1>3, <1>4

\* A step of r that keeps table, sessions and earnings well formed, and ends in
\* locals that RequestOK holds of, keeps the invariant.
LEMMA StepKeeps ==
    ASSUME AccountsInv, NEW r \in Request, NEW p \in Step, NEW l \in Local,
           Goto(r, p, l), Note(r),
           users' \in [Account -> Maybe(Row)], Distinct(users'),
           earned' \in [Client -> SUBSET Account],
           cookie' \in [Client -> Maybe(Account)], SessionIsEarned',
           \A a \in Account : Exists(users, a) => Exists(users', a),
           \A c \in Client : earned[c] \subseteq earned'[c],
           RequestOK(p, l, seen'[r], users', earned')
    PROVE  AccountsInv'
<1>1. /\ pc' \in [Request -> Step] /\ loc' \in [Request -> Local]
      /\ pc'[r] = p /\ loc'[r] = l
  BY DEF Goto, AccountsInv, TypeOK
<1>2. seen' \in [Request -> SUBSET Event]
  BY <1>1, NoteSeen
<1>3. TypeOK'
  BY <1>1, <1>2 DEF TypeOK
<1>4. \A q \in Request : RequestOK(pc'[q], loc'[q], seen'[q], users', earned')
  BY <1>1, OthersKept
<1> QED
  BY <1>3, <1>4 DEF AccountsInv

\* So does one that changes neither table nor sessions nor earnings.
LEMMA QuietStep ==
    ASSUME AccountsInv, NEW r \in Request, NEW p \in Step, NEW l \in Local,
           Goto(r, p, l), Note(r), UNCHANGED <<users, cookie, earned>>,
           RequestOK(p, l, seen'[r], users, earned)
    PROVE  AccountsInv'
BY StepKeeps DEF AccountsInv, TypeOK, SessionIsEarned

-----------------------------------------------------------------------------
(* The steps of a request. *)

\* The initial state.
LEMMA InitOK == Init => AccountsInv
<1> SUFFICES ASSUME Init PROVE AccountsInv
  OBVIOUS
<1>1. Idle \in Local /\ Idle.kind = Nothing /\ Idle.answer = Nothing
  BY DEF Idle, Blank, Local, Form, Maybe
<1>2. TypeOK
  BY <1>1 DEF Init, TypeOK, Step, Maybe
<1>3. \A r \in Request : RequestOK(pc[r], loc[r], seen[r], users, earned)
  BY <1>1, NothingIsApart
  DEF Init, RequestOK, StepOK, KindAt, FormOK, Holds, SignsIn, Kind, Answer
<1> QED
  BY <1>2, <1>3 DEF Init, AccountsInv, SessionIsEarned

\* The arrival of a request other than a sign-out.
LEMMA StartKeeps ==
    ASSUME AccountsInv, NEW r \in Request, NEW c \in Client, NEW k \in Kind,
           NEW form \in Form, NEW p \in {"load", "admit"},
           KindAt(p, k), k # "logout", p = "admit" => k # "password",
           FormOK(k, form),
           Start(r, c, k, form, p)
    PROVE  AccountsInv'
<1> DEFINE l == [Idle EXCEPT !.kind = k, !.client = c, !.form = form,
                 !.user = IF k \in {"read", "profile", "password"}
                          THEN cookie[c] ELSE Nothing]
<1>1. l \in Local /\ l.kind = k /\ l.client = c /\ l.answer = Nothing
      /\ l.form = form /\ (k = "register" => l.user = Nothing)
  BY DEF Idle, Blank, Local, Form, Maybe, AccountsInv, TypeOK
<1>2. Goto(r, p, l) /\ Note(r) /\ UNCHANGED <<users, cookie, earned>>
  BY DEF Start
<1> HIDE DEF l
<1>3. StepOK(p, l)
  BY <1>1 DEF StepOK, Holds, KindAt
<1>4. RequestOK(p, l, seen'[r], users, earned)
  BY <1>1, <1>3, NothingIsApart
  DEF RequestOK, StepOK, KindAt, Holds, SignsIn, Answer
<1> QED
  BY <1>1, <1>2, <1>4, QuietStep DEF Step

\* The arrival of any request.
LEMMA ArriveKeeps ==
    ASSUME AccountsInv, NEW r \in Request, Arrive(r)
    PROVE  AccountsInv'
<1> PICK c \in Client :
        \/ StartRegister(r, c) \/ StartLogin(r, c) \/ StartLogout(r, c)
        \/ StartRead(r, c) \/ StartProfile(r, c) \/ StartPassword(r, c)
  BY DEF Arrive
<1>0. Blank \in Form
  BY DEF Blank, Form, Maybe
<1>1. CASE StartRegister(r, c)
  <2> PICK e \in Email, u \in Username, n \in Name, w \in Password :
          Start(r, c, "register", [Blank EXCEPT !.email = e, !.username = u,
                                   !.name = n, !.password = w], "admit")
    BY <1>1 DEF StartRegister
  <2> DEFINE f == [Blank EXCEPT !.email = e, !.username = u,
                                !.name = n, !.password = w]
  <2>1. f \in Form /\ FormOK("register", f)
    BY DEF Blank, Form, Maybe, FormOK
  <2> QED
    BY <2>1, StartKeeps, NothingIsApart DEF KindAt, Kind
<1>2. CASE StartLogin(r, c)
  <2> PICK e \in Email, w \in Password :
          Start(r, c, "login", [Blank EXCEPT !.email = e, !.old = w], "admit")
    BY <1>2 DEF StartLogin
  <2> DEFINE f == [Blank EXCEPT !.email = e, !.old = w]
  <2>1. f \in Form /\ FormOK("login", f)
    BY DEF Blank, Form, Maybe, FormOK
  <2> QED
    BY <2>1, StartKeeps, NothingIsApart DEF KindAt, Kind
<1>3. CASE StartLogout(r, c)
  <2> DEFINE l == [Idle EXCEPT !.kind = "logout", !.client = c,
                               !.user = cookie[c], !.answer = "ok"]
  <2>1. /\ l \in Local /\ l.kind = "logout" /\ l.client = c /\ l.answer = "ok"
    BY DEF Idle, Blank, Local, Form, Maybe, Kind, Answer, AccountsInv, TypeOK
  <2>2. RequestOK("answer", l, seen'[r], users, earned)
    BY <2>1, NothingIsApart
    DEF RequestOK, StepOK, KindAt, FormOK, Holds, SignsIn, Kind, Answer
  <2> QED
    BY <1>3, <2>1, <2>2, QuietStep DEF StartLogout, Step
<1>4. CASE StartRead(r, c)
  <2>1. FormOK("read", Blank)
    BY DEF FormOK
  <2> QED
    BY <1>0, <1>4, <2>1, StartKeeps, NothingIsApart DEF StartRead, KindAt, Kind
<1>5. CASE StartProfile(r, c)
  <2> PICK u \in Username, n \in Name :
          Start(r, c, "profile", [Blank EXCEPT !.username = u, !.name = n],
                "load")
    BY <1>5 DEF StartProfile
  <2> DEFINE f == [Blank EXCEPT !.username = u, !.name = n]
  <2>1. f \in Form /\ FormOK("profile", f)
    BY DEF Blank, Form, Maybe, FormOK
  <2> QED
    BY <2>1, StartKeeps, NothingIsApart DEF KindAt, Kind
<1>6. CASE StartPassword(r, c)
  <2> PICK o \in Password, w \in Password :
          Start(r, c, "password", [Blank EXCEPT !.old = o, !.password = w],
                "load")
    BY <1>6 DEF StartPassword
  <2> DEFINE f == [Blank EXCEPT !.old = o, !.password = w]
  <2>1. f \in Form /\ FormOK("password", f)
    BY DEF Blank, Form, Maybe, FormOK
  <2> QED
    BY <2>1, StartKeeps, NothingIsApart DEF KindAt, Kind
<1> QED
  BY <1>1, <1>2, <1>3, <1>4, <1>5, <1>6

-----------------------------------------------------------------------------
(* The handlers' steps that read. *)

\* What is known of a request that is under way.
LEMMA UnderWay ==
    ASSUME AccountsInv, NEW r \in Request, pc[r] # "idle"
    PROVE  /\ loc[r] \in Local /\ loc[r].client \in Client
           /\ loc[r].kind # Nothing
           /\ RequestOK(pc[r], loc[r], seen[r], users, earned)
           /\ StepOK(pc[r], loc[r]) /\ users \in [Account -> Maybe(Row)]
<1>1. RequestOK(pc[r], loc[r], seen[r], users, earned)
  BY DEF AccountsInv
<1>2. StepOK(pc[r], loc[r])
  BY <1>1 DEF RequestOK
<1> QED
  BY <1>1, <1>2 DEF AccountsInv, TypeOK, StepOK, KindAt

\* A request remembers what it has seen, and sees the table that is left.
LEMMA SeenGrows ==
    ASSUME AccountsInv, NEW r \in Request, pc[r] # "idle",
           NEW p \in Step, p # "idle", NEW l, Goto(r, p, l), Note(r)
    PROVE  seen[r] \subseteq seen'[r] /\ Facts(users', l) \subseteq seen'[r]
<1>1. pc' \in [Request -> Step] /\ pc'[r] = p /\ loc'[r] = l
  BY DEF Goto, AccountsInv, TypeOK
<1> QED
  BY <1>1, NoteSeen

\* An answer that is no success keeps the invariant.
LEMMA ReplyKeeps ==
    ASSUME AccountsInv, NEW r \in Request, pc[r] # "idle",
           NEW a \in {"conflict", "denied", "wrong", "error"},
           Reply(r, a), Note(r), UNCHANGED <<users, cookie, earned>>,
           a = "conflict" => "clash" \in seen'[r]
    PROVE  AccountsInv'
<1> DEFINE l == [loc[r] EXCEPT !.answer = a]
<1>1. /\ l \in Local /\ l.kind = loc[r].kind /\ l.form = loc[r].form
      /\ l.client = loc[r].client /\ l.answer = a
  BY UnderWay DEF Local, Maybe, Answer
<1>2. Goto(r, "answer", l)
  BY DEF Reply
<1> HIDE DEF l
<1>3. StepOK("answer", l)
  BY <1>1, UnderWay, NothingIsApart DEF StepOK, KindAt, Holds, Answer
<1>4. RequestOK("answer", l, seen'[r], users, earned)
  BY <1>1, <1>3 DEF RequestOK, Holds, SignsIn
<1> QED
  BY <1>1, <1>2, <1>4, QuietStep DEF Step

\* get_current_user keeps the invariant.
LEMMA LoadKeeps ==
    ASSUME AccountsInv, NEW r \in Request, Load(r)
    PROVE  AccountsInv'
<1> DEFINE l == [loc[r] EXCEPT !.row = users[loc[r].user]]
<1>1. /\ pc[r] = "load" /\ UNCHANGED <<users, cookie, earned>> /\ Note(r)
  BY DEF Load
<1>2. CASE Reply(r, "wrong")
  BY <1>1, <1>2, ReplyKeeps
<1>3. ASSUME loc[r].user # Nothing, Exists(users, loc[r].user)
      PROVE  /\ loc[r].user \in Account /\ users[loc[r].user] \in Row
             /\ l \in Local /\ l.kind = loc[r].kind /\ l.form = loc[r].form
             /\ l.client = loc[r].client /\ l.answer = Nothing
             /\ l.user = loc[r].user /\ l.row = users[l.user]
  <2>1. loc[r] \in Local /\ loc[r].answer = Nothing
    BY <1>1, UnderWay DEF StepOK
  <2>2. loc[r].user \in Account /\ users[loc[r].user] \in Row
    BY <1>1, <1>3, <2>1, UnderWay DEF Local, Maybe, Exists
  <2> QED
    BY <2>1, <2>2 DEF Local, Maybe
<1>4. CASE /\ loc[r].user # Nothing /\ Exists(users, loc[r].user)
           /\ loc[r].kind = "read"
           /\ Goto(r, "answer", [l EXCEPT !.answer = "ok"])
  <2> DEFINE m == [l EXCEPT !.answer = "ok"]
  <2>1. /\ m \in Local /\ m.kind = "read" /\ m.form = loc[r].form
        /\ m.client = loc[r].client /\ m.answer = "ok"
    BY <1>3, <1>4 DEF Local, Maybe, Answer
  <2>2. Goto(r, "answer", m)
    BY <1>4
  <2> HIDE DEF m, l
  <2>3. RequestOK("answer", m, seen'[r], users, earned)
    BY <1>1, <2>1, UnderWay, NothingIsApart
    DEF RequestOK, StepOK, KindAt, FormOK, Holds, SignsIn, Kind, Answer
  <2> QED
    BY <1>1, <2>1, <2>2, <2>3, QuietStep DEF Step
<1>5. CASE /\ loc[r].user # Nothing /\ Exists(users, loc[r].user)
           /\ loc[r].kind = "profile" /\ Goto(r, "username", l)
  <2> HIDE DEF l
  <2>1. RequestOK("username", l, seen'[r], users, earned)
    BY <1>1, <1>3, <1>5, UnderWay, NothingIsApart
    DEF RequestOK, StepOK, KindAt, Holds, SignsIn, Kind, Answer
  <2> QED
    BY <1>1, <1>3, <1>5, <2>1, QuietStep DEF Step
<1>6. CASE /\ loc[r].user # Nothing /\ Exists(users, loc[r].user)
           /\ loc[r].kind = "password" /\ Goto(r, "admit", l)
  <2> HIDE DEF l
  <2>1. l.row.password = l.form.old => "known" \in Facts(users, l)
    BY <1>3, <1>6 DEF Facts
  <2>2. Facts(users, l) \subseteq seen'[r]
    BY <1>1, <1>6, SeenGrows DEF Step
  <2>3. RequestOK("admit", l, seen'[r], users, earned)
    BY <1>1, <1>3, <1>6, <2>1, <2>2, UnderWay, NothingIsApart
    DEF RequestOK, StepOK, KindAt, Holds, SignsIn, Kind, Answer
  <2> QED
    BY <1>1, <1>3, <1>6, <2>3, QuietStep DEF Step
<1> QED
  BY <1>2, <1>4, <1>5, <1>6 DEF Load

\* A request that goes on to p with the locals it has keeps the invariant, if
\* these are locals for p.
LEMMA GoOn ==
    ASSUME AccountsInv, NEW r \in Request, pc[r] # "idle",
           NEW p \in {"email", "username", "select", "verify", "write"},
           Goto(r, p, loc[r]), Note(r), UNCHANGED <<users, cookie, earned>>,
           StepOK(p, loc[r]), ~SignsIn(pc[r], loc[r]),
           Holds(p, loc[r]) => Holds(pc[r], loc[r]),
           loc[r].kind = "profile" => pc[r] \in {"username", "write"},
           loc[r].kind = "password" => pc[r] \in {"admit", "verify", "write"},
           loc[r].kind = "password" /\ p = "write"
              => loc[r].row.password = loc[r].form.old
    PROVE  AccountsInv'
<1>1. seen[r] \subseteq seen'[r]
  BY SeenGrows DEF Step
<1>2. ~SignsIn(p, loc[r])
  BY DEF SignsIn
<1>3. loc[r].answer = Nothing
  BY DEF StepOK
<1>4. RequestOK(p, loc[r], seen'[r], users, earned)
  BY <1>1, <1>2, <1>3, UnderWay, NothingIsApart DEF RequestOK, Answer
<1> QED
  BY <1>4, UnderWay, QuietStep DEF Step

\* The rate limit, the look-ups and the check of the password keep it.
LEMMA ChecksKeep ==
    ASSUME AccountsInv, NEW r \in Request,
           Admit(r) \/ CheckEmail(r) \/ CheckUsername(r) \/ Verify(r)
    PROVE  AccountsInv'
<1>1. CASE Admit(r)
  <2>1. /\ pc[r] = "admit" /\ UNCHANGED <<users, cookie, earned>> /\ Note(r)
        /\ StepOK("admit", loc[r])
    BY <1>1, UnderWay DEF Admit
  <2>2. CASE Reply(r, "denied")
    BY <2>1, <2>2, ReplyKeeps
  <2>3. CASE Goto(r, Admitted(loc[r].kind), loc[r])
    <3>1. StepOK(Admitted(loc[r].kind), loc[r]) /\ ~SignsIn("admit", loc[r])
      BY <2>1, NothingIsApart
      DEF StepOK, KindAt, Holds, SignsIn, Admitted, Answer
    <3> QED
      BY <2>1, <2>3, <3>1, GoOn DEF Admitted, StepOK, KindAt, Holds
  <2> QED
    BY <1>1, <2>2, <2>3 DEF Admit
<1>2. ASSUME NEW col \in {"email", "username"}, Taken(r, col),
             pc[r] \in {"email", "username"}, Reply(r, "conflict"), Note(r),
             UNCHANGED <<users, cookie, earned>>
      PROVE  AccountsInv'
  <2> DEFINE l == [loc[r] EXCEPT !.answer = "conflict"]
  <2>1. l.user = loc[r].user /\ l.form = loc[r].form
    BY <1>2, UnderWay DEF Local
  <2>2. Goto(r, "answer", l)
    BY <1>2 DEF Reply
  <2> HIDE DEF l
  <2>3. "clash" \in Facts(users, l)
    BY <1>2, <2>1 DEF Taken, Rivals, Facts
  <2>4. Facts(users, l) \subseteq seen'[r]
    BY <1>2, <2>2, SeenGrows DEF Step
  <2> QED
    BY <1>2, <2>3, <2>4, ReplyKeeps
<1>3. CASE CheckEmail(r)
  <2>1. /\ pc[r] = "email" /\ UNCHANGED <<users, cookie, earned>> /\ Note(r)
        /\ StepOK("email", loc[r])
    BY <1>3, UnderWay DEF CheckEmail
  <2>2. CASE Goto(r, "username", loc[r])
    <3>1. StepOK("username", loc[r]) /\ ~SignsIn("email", loc[r])
      BY <2>1, NothingIsApart DEF StepOK, KindAt, Holds, SignsIn, Answer
    <3> QED
      BY <2>1, <2>2, <3>1, GoOn DEF StepOK, KindAt, Holds
  <2> QED
    BY <1>2, <1>3, <2>1, <2>2 DEF CheckEmail
<1>4. CASE CheckUsername(r)
  <2>1. /\ pc[r] = "username" /\ UNCHANGED <<users, cookie, earned>> /\ Note(r)
        /\ StepOK("username", loc[r])
    BY <1>4, UnderWay DEF CheckUsername
  <2>2. CASE Goto(r, "write", loc[r])
    <3>1. StepOK("write", loc[r]) /\ ~SignsIn("username", loc[r])
      BY <2>1, NothingIsApart DEF StepOK, KindAt, Holds, SignsIn, Answer
    <3> QED
      BY <2>1, <2>2, <3>1, GoOn DEF StepOK, KindAt, Holds
  <2> QED
    BY <1>2, <1>4, <2>1, <2>2 DEF CheckUsername
<1>5. CASE Verify(r)
  <2>1. /\ pc[r] = "verify" /\ UNCHANGED <<users, cookie, earned>> /\ Note(r)
        /\ StepOK("verify", loc[r])
    BY <1>5, UnderWay DEF Verify
  <2>2. CASE Reply(r, "wrong")
    BY <2>1, <2>2, ReplyKeeps
  <2>3. CASE Goto(r, "write", loc[r])
             /\ loc[r].row.password = loc[r].form.old
    <3>1. StepOK("write", loc[r]) /\ ~SignsIn("verify", loc[r])
      BY <2>1, NothingIsApart DEF StepOK, KindAt, Holds, SignsIn, Answer
    <3> QED
      BY <2>1, <2>3, <3>1, GoOn DEF StepOK, KindAt, Holds
  <2> QED
    BY <1>5, <2>2, <2>3 DEF Verify, Accepts
<1> QED
  BY <1>1, <1>3, <1>4, <1>5

\* Sign-in keeps it.
LEMMA SelectKeeps ==
    ASSUME AccountsInv, NEW r \in Request, Select(r)
    PROVE  AccountsInv'
<1> DEFINE l == loc[r]
           found == Holders(users, "email", l.form.email)
<1>1. /\ pc[r] = "select" /\ UNCHANGED <<users, cookie>> /\ Note(r)
      /\ earned' = [earned EXCEPT ![l.client] = @ \cup
                      {a \in found : users[a].password = l.form.old}]
  BY DEF Select
<1>2. l \in Local /\ l.client \in Client /\ l.kind = "login"
  BY <1>1, UnderWay DEF StepOK, KindAt
<1>3. earned \in [Client -> SUBSET Account]
  BY DEF AccountsInv, TypeOK
<1>4. CASE Reply(r, "wrong")
           /\ ~ \E a \in found : Accepts(users[a], l.form.old)
  <2>1. {a \in found : users[a].password = l.form.old} = {}
    BY <1>4 DEF Accepts
  <2>2. earned' = earned
    BY <1>1, <1>2, <1>3, <2>1
  <2> QED
    BY <1>1, <1>4, <2>2, ReplyKeeps
<1>5. ASSUME NEW a \in found, Accepts(users[a], l.form.old),
             \E b \in found : Goto(r, "answer",
                 [l EXCEPT !.user = b, !.answer = "ok", !.row = users[b]])
      PROVE  AccountsInv'
  <2> PICK b \in found : Goto(r, "answer",
                 [l EXCEPT !.user = b, !.answer = "ok", !.row = users[b]])
    BY <1>5
  <2> DEFINE m == [l EXCEPT !.user = b, !.answer = "ok", !.row = users[b]]
  <2>1. /\ b \in Account /\ Exists(users, b) /\ users[b] \in Row
        /\ users[b].email = l.form.email
    BY <1>1, UnderWay DEF Holders, Exists, Maybe
  <2>2. a = b
    <3>1. a \in Account /\ Exists(users, a) /\ users[a].email = l.form.email
      BY DEF Holders
    <3> QED
      BY <2>1, <3>1 DEF AccountsInv, Distinct, Exists
  <2>3. users[b].password = l.form.old
    BY <1>5, <2>2 DEF Accepts
  <2>4. /\ m \in Local /\ m.kind = "login" /\ m.form = l.form
        /\ m.client = l.client /\ m.answer = "ok" /\ m.user = b
    BY <1>2, <2>1 DEF Local, Maybe, Answer
  <2>5. Goto(r, "answer", m)
    OBVIOUS
  <2>6. /\ earned' \in [Client -> SUBSET Account] /\ b \in earned'[l.client]
        /\ \A c \in Client : earned[c] \subseteq earned'[c]
    BY <1>1, <1>2, <1>3, <2>3 DEF Holders
  <2> HIDE DEF m, found
  <2>7. "known" \in Facts(users, m)
    BY <2>1, <2>3, <2>4 DEF Facts
  <2>8. Facts(users, m) \subseteq seen'[r]
    BY <1>1, <2>5, SeenGrows DEF Step
  <2>9. StepOK("answer", m)
    BY <1>2, <2>4, NothingIsApart
    DEF StepOK, KindAt, FormOK, Holds, Answer, Kind
  <2>10. RequestOK("answer", m, seen'[r], users, earned')
    BY <2>1, <2>4, <2>6, <2>7, <2>8, <2>9 DEF RequestOK, Holds
  <2> QED
    BY <1>1, <2>4, <2>5, <2>6, <2>10, StepKeeps
    DEF AccountsInv, TypeOK, SessionIsEarned, Step
<1> QED
  BY <1>4, <1>5 DEF Select

-----------------------------------------------------------------------------
(* The steps that write, and those that end a request. *)

\* The row that a handler writes.
LEMMA WrittenRow ==
    ASSUME AccountsInv, NEW r \in Request, pc[r] = "write",
           NEW a \in Fresh(loc[r])
    PROVE  /\ a \in Account /\ Written(loc[r]) \in Row
           /\ loc[r].kind = "register" =>
                /\ ~Exists(users, a) /\ loc[r].user = Nothing
                /\ AsAsked(loc[r], Written(loc[r]))
           /\ loc[r].kind # "register" =>
                /\ a = loc[r].user /\ Exists(users, a)
                /\ DOMAIN Written(loc[r]) = DOMAIN users[a]
                /\ \A col \in DOMAIN users[a] :
                      Written(loc[r])[col] \in {users[a][col], loc[r].form[col]}
           /\ loc[r].kind = "profile" /\ loc[r].row = users[a]
                => AsAsked(loc[r], Written(loc[r]))
           /\ loc[r].kind = "password" =>
                Written(loc[r]) = [users[a] EXCEPT
                                     !.password = loc[r].form.password]
<1> DEFINE l == loc[r]
           W == Written(l)
<1>1. l \in Local /\ StepOK("write", l) /\ RequestOK("write", l, seen[r], users, earned)
  BY UnderWay
<1>2. CASE l.kind = "register"
  <2>1. W = [email |-> l.form.email, username |-> l.form.username,
             name |-> l.form.name, password |-> l.form.password]
    BY <1>2 DEF Written
  <2>2. a \in Account /\ ~Exists(users, a) /\ l.user = Nothing
    BY <1>1, <1>2 DEF Fresh, StepOK
  <2>3. W \in Row
    BY <1>1, <1>2, <2>1 DEF StepOK, FormOK, Row
  <2>4. AsAsked(l, W)
    BY <2>1 DEF AsAsked
  <2> QED
    BY <1>2, <2>2, <2>3, <2>4
<1>3. CASE l.kind # "register"
  <2>1. l.kind \in {"profile", "password"} /\ Holds("write", l)
    BY <1>1, <1>3 DEF StepOK, KindAt, Holds
  <2>2. a = l.user /\ a \in Account /\ l.row \in Row /\ Exists(users, a)
    BY <1>1, <1>3, <2>1 DEF StepOK, Fresh, RequestOK
  <2>3. users[a] \in Row
    BY <2>2, UnderWay DEF Exists, Maybe
  <2>4. W = [col \in DOMAIN l.row |->
                IF col \in Changed(l) THEN l.form[col] ELSE users[a][col]]
    BY <1>3, <2>2 DEF Written
  <2>5. /\ DOMAIN l.row = {"email", "username", "name", "password"}
        /\ DOMAIN users[a] = {"email", "username", "name", "password"}
    BY <2>2, <2>3 DEF Row
  <2>6. \A col \in {"email", "username", "name", "password"} :
          W[col] = IF col \in Changed(l) THEN l.form[col] ELSE users[a][col]
    BY <2>4, <2>5
  <2>7. \A col \in Changed(l) :
          col \in {"username", "name", "password"} /\ l.form[col] # Nothing
    BY DEF Changed
  <2>8. l.form \in Form
    BY <1>1 DEF Local
  <2>9. W \in Row
    <3>1. /\ W.email \in Email /\ W.username \in Username
          /\ W.name \in Name /\ W.password \in Password
      BY <2>3, <2>6, <2>7, <2>8 DEF Row, Form, Maybe
    <3>2. W = [email |-> W.email, username |-> W.username, name |-> W.name,
               password |-> W.password]
      BY <2>4, <2>5
    <3> QED
      BY <3>1, <3>2 DEF Row
  <2>10. DOMAIN W = DOMAIN users[a]
    BY <2>4, <2>5
  <2>11. \A col \in DOMAIN users[a] : W[col] \in {users[a][col], l.form[col]}
    BY <2>5, <2>6
  <2>12. ASSUME l.kind = "profile", l.row = users[a]
         PROVE  AsAsked(l, W)
    <3>1. l.form.email = Nothing
      BY <1>1, <2>12 DEF StepOK, FormOK
    <3>2. \A col \in {"username", "name"} :
             l.form[col] = Nothing \/ l.form[col] = W[col]
      BY <2>6, <2>12 DEF Changed
    <3> QED
      BY <3>1, <3>2 DEF AsAsked
  <2>13. ASSUME l.kind = "password"
         PROVE  W = [users[a] EXCEPT !.password = l.form.password]
    <3>1. /\ l.form.username = Nothing /\ l.form.name = Nothing
          /\ l.form.password # Nothing
      BY <1>1, <2>13, AccountsAssumption DEF StepOK, FormOK
    <3>2. Changed(l) = {"password"}
      BY <3>1 DEF Changed
    <3> QED
      BY <2>3, <2>4, <2>5, <3>2 DEF Row
  <2> HIDE DEF W
  <2> QED
    BY <1>3, <2>2, <2>9, <2>10, <2>11, <2>12, <2>13 DEF W
<1> QED
  BY <1>2, <1>3

\* What a write makes of the table, and of what clients earned.
LEMMA Stored ==
    ASSUME AccountsInv, NEW r \in Request, pc[r] = "write",
           ~Violates(loc[r]), NEW a \in Fresh(loc[r]), Store(r, a)
    PROVE  /\ users' \in [Account -> Maybe(Row)] /\ Distinct(users')
           /\ a \in Account /\ users'[a] = Written(loc[r]) /\ Exists(users', a)
           /\ \A b \in Account : b # a => users'[b] = users[b]
           /\ \A b \in Account : Exists(users, b) => Exists(users', b)
           /\ earned' \in [Client -> SUBSET Account]
           /\ \A c \in Client : earned[c] \subseteq earned'[c]
           /\ loc[r].kind = "register" => a \in earned'[loc[r].client]
<1> DEFINE W == Written(loc[r])
<1>1. a \in Account /\ W \in Row /\ W # Nothing
  BY WrittenRow, NothingIsApart
<1>2. a = loc[r].user \/ loc[r].user \notin Account
  BY <1>1, WrittenRow, AccountsAssumption
<1>3. \A col \in {"email", "username"}, b \in Account :
          users[b] # Nothing /\ b # a => users[b][col] # W[col]
  BY <1>2, UnderWay DEF Violates, Holders, Exists
<1>4. users \in [Account -> Maybe(Row)] /\ Distinct(users)
  BY DEF AccountsInv, TypeOK
<1>5. users' = [users EXCEPT ![a] = W]
  BY DEF Store
<1>6. /\ earned \in [Client -> SUBSET Account] /\ loc[r].client \in Client
      /\ earned' = IF loc[r].kind # "register" THEN earned ELSE
                   [earned EXCEPT ![loc[r].client] = @ \cup {a}]
  BY UnderWay DEF AccountsInv, TypeOK, Store
<1> HIDE DEF W
<1>7. users' \in [Account -> Maybe(Row)]
  BY <1>1, <1>4, <1>5 DEF Maybe
<1>8. users'[a] = W /\ \A b \in Account : b # a => users'[b] = users[b]
  BY <1>1, <1>4, <1>5
<1>9. Distinct(users')
  BY <1>1, <1>3, <1>4, <1>8 DEF Distinct
<1>10. /\ earned' \in [Client -> SUBSET Account]
       /\ \A c \in Client : earned[c] \subseteq earned'[c]
       /\ loc[r].kind = "register" => a \in earned'[loc[r].client]
  BY <1>1, <1>6
<1> QED
  BY <1>1, <1>7, <1>8, <1>9, <1>10 DEF Exists, W

\* A write, heard of or not, keeps the invariant.
LEMMA WriteKeeps ==
    ASSUME AccountsInv, NEW r \in Request, Write(r) \/ CommitUnheard(r)
    PROVE  AccountsInv'
<1> DEFINE l == loc[r]
<1>1. pc[r] = "write" /\ ~Violates(l) /\ cookie' = cookie /\ Note(r)
  BY DEF Write, CommitUnheard
<1>2. PICK a \in Fresh(l) :
          /\ Store(r, a)
          /\ \/ l.kind = "password" /\ Reply(r, "ok")
             \/ /\ l.kind # "password"
                /\ Goto(r, "refresh", [l EXCEPT !.user = a])
             \/ Reply(r, "error")
  BY DEF Write, CommitUnheard
<1>3. /\ l \in Local /\ StepOK("write", l)
      /\ RequestOK("write", l, seen[r], users, earned)
  BY <1>1, UnderWay
<1>4. SessionIsEarned'
  BY <1>1, <1>2, Stored DEF AccountsInv, TypeOK, SessionIsEarned, Maybe
<1>5. ASSUME NEW p \in {"refresh", "answer"}, NEW m \in Local, Goto(r, p, m),
             RequestOK(p, m, seen'[r], users', earned')
      PROVE  AccountsInv'
  BY <1>1, <1>2, <1>4, <1>5, Stored, StepKeeps
  DEF AccountsInv, TypeOK, Step
<1>6. CASE l.kind = "password" /\ Reply(r, "ok")
  <2> DEFINE m == [l EXCEPT !.answer = "ok"]
  <2>1. /\ m \in Local /\ m.kind = "password" /\ m.form = l.form
        /\ m.client = l.client /\ m.answer = "ok"
    BY <1>3, <1>6 DEF Local, Maybe, Answer
  <2>2. Goto(r, "answer", m)
    BY <1>6 DEF Reply
  <2>3. "known" \in seen[r]
    BY <1>3, <1>6 DEF RequestOK
  <2> HIDE DEF m
  <2>4. "known" \in seen'[r]
    BY <1>1, <2>2, <2>3, SeenGrows DEF Step
  <2>5. StepOK("answer", m)
    BY <1>1, <1>3, <1>6, <2>1, UnderWay, NothingIsApart
    DEF StepOK, KindAt, Holds, Answer, Kind
  <2>6. RequestOK("answer", m, seen'[r], users', earned')
    BY <2>1, <2>4, <2>5 DEF RequestOK, Holds, SignsIn
  <2> QED
    BY <1>5, <2>1, <2>2, <2>6
<1>7. CASE l.kind # "password" /\ Goto(r, "refresh", [l EXCEPT !.user = a])
  <2> DEFINE m == [l EXCEPT !.user = a]
  <2>1. a \in Account
    BY <1>1, <1>2, Stored
  <2>2. /\ m \in Local /\ m.kind = l.kind /\ m.form = l.form /\ m.row = l.row
        /\ m.client = l.client /\ m.answer = l.answer /\ m.user = a
    BY <1>3, <2>1 DEF Local, Maybe
  <2>3. Goto(r, "refresh", m)
    BY <1>7
  <2> HIDE DEF m
  <2>4. m.kind \in {"register", "profile"} /\ m.answer = Nothing
    BY <1>3, <1>7, <2>2 DEF StepOK, KindAt
  <2>5. StepOK("refresh", m)
    BY <1>1, <1>3, <2>1, <2>2, <2>4, UnderWay, NothingIsApart
    DEF StepOK, KindAt, Holds, Kind
  <2>6. "raced" \notin seen'[r] => AsAsked(m, users'[a])
    <3>1. seen[r] \subseteq seen'[r]
      BY <1>1, <2>3, SeenGrows DEF Step
    <3>2. users'[a] = Written(l)
      BY <1>1, <1>2, Stored
    <3>3. l.kind = "profile" => a = l.user
      BY <1>1, WrittenRow
    <3>4. "raced" \notin seen[r] => AsAsked(l, Written(l))
      BY <1>1, <1>3, <2>2, <2>4, <3>3, WrittenRow DEF RequestOK
    <3> QED
      BY <2>2, <3>1, <3>2, <3>4 DEF AsAsked
  <2>7. m.kind = "register" => a \in earned'[m.client]
    BY <1>1, <1>2, <2>2, Stored
  <2>8. Exists(users', a)
    BY <1>1, <1>2, Stored
  <2>9. RequestOK("refresh", m, seen'[r], users', earned')
    BY <2>1, <2>2, <2>4, <2>5, <2>6, <2>7, <2>8, NothingIsApart
    DEF RequestOK, SignsIn, Answer
  <2> QED
    BY <1>5, <2>2, <2>3, <2>9
<1>8. CASE Reply(r, "error")
  <2> DEFINE m == [l EXCEPT !.answer = "error"]
  <2>1. /\ m \in Local /\ m.kind = l.kind /\ m.form = l.form
        /\ m.client = l.client /\ m.answer = "error"
    BY <1>3 DEF Local, Maybe, Answer
  <2>2. Goto(r, "answer", m)
    BY <1>8 DEF Reply
  <2> HIDE DEF m
  <2>3. StepOK("answer", m)
    BY <1>1, <1>3, <2>1, UnderWay, NothingIsApart
    DEF StepOK, KindAt, Holds, Answer
  <2>4. RequestOK("answer", m, seen'[r], users', earned')
    BY <2>1, <2>3 DEF RequestOK, Holds, SignsIn
  <2> QED
    BY <1>5, <2>1, <2>2, <2>4
<1> QED
  BY <1>2, <1>6, <1>7, <1>8

\* A write that a unique index refuses keeps the invariant: the column that is
\* taken is one that the request asks for, since rows differ in the others.
LEMMA CollideKeeps ==
    ASSUME AccountsInv, NEW r \in Request, Collide(r)
    PROVE  AccountsInv'
<1> DEFINE l == loc[r]
           m == [l EXCEPT !.answer = "conflict"]
<1>1. /\ pc[r] = "write" /\ Violates(l) /\ Reply(r, "conflict") /\ Note(r)
      /\ UNCHANGED <<users, cookie, earned>>
  BY DEF Collide
<1>2. /\ l \in Local /\ StepOK("write", l)
      /\ RequestOK("write", l, seen[r], users, earned)
  BY <1>1, UnderWay
<1>3. PICK col \in {"email", "username"} :
          Holders(users, col, Written(l)[col]) \ {l.user} # {}
  BY <1>1 DEF Violates
<1>4. PICK b \in Account : /\ users[b] # Nothing /\ b # l.user
                           /\ users[b][col] = Written(l)[col]
  BY <1>3 DEF Holders, Exists
<1>5. Written(l)[col] = l.form[col]
  <2>1. CASE l.kind = "register"
    BY <2>1 DEF Written
  <2>2. CASE l.kind # "register"
    <3>1. l.user \in Fresh(l)
      BY <2>2 DEF Fresh
    <3>2. /\ l.user \in Account /\ Exists(users, l.user)
          /\ Written(l)[col] \in {users[l.user][col], l.form[col]}
      <4>1. /\ l.user \in Account /\ Exists(users, l.user)
            /\ \A c \in DOMAIN users[l.user] :
                  Written(l)[c] \in {users[l.user][c], l.form[c]}
        BY <1>1, <2>2, <3>1, WrittenRow
      <4>2. users[l.user] \in Row
        BY <1>1, <4>1, UnderWay DEF Exists, Maybe
      <4>3. col \in DOMAIN users[l.user]
        BY <4>2 DEF Row
      <4> QED
        BY <4>1, <4>3
    <3> QED
      BY <1>4, <3>2 DEF AccountsInv, Distinct, Exists
  <2> QED
    BY <2>1, <2>2
<1>6. l.user = m.user /\ l.form = m.form
  BY <1>2 DEF Local
<1>7. Goto(r, "answer", m)
  BY <1>1 DEF Reply
<1> HIDE DEF m
<1>8. "clash" \in Facts(users, m)
  BY <1>3, <1>4, <1>5, <1>6 DEF Facts, Holders, Exists
<1>9. Facts(users, m) \subseteq seen'[r]
  BY <1>1, <1>7, SeenGrows DEF Step
<1> QED
  BY <1>1, <1>8, <1>9, ReplyKeeps

\* Reading back the row that was written keeps it.
LEMMA RefreshKeeps ==
    ASSUME AccountsInv, NEW r \in Request, Refresh(r)
    PROVE  AccountsInv'
<1> DEFINE l == loc[r]
           m == [l EXCEPT !.row = users[l.user], !.answer = "ok"]
<1>1. /\ pc[r] = "refresh" /\ Goto(r, "answer", m) /\ Note(r)
      /\ UNCHANGED <<users, cookie, earned>>
  BY DEF Refresh
<1>2. /\ l \in Local /\ StepOK("refresh", l)
      /\ RequestOK("refresh", l, seen[r], users, earned)
  BY <1>1, UnderWay
<1>3. l.user \in Account /\ users[l.user] \in Row
  BY <1>1, <1>2, UnderWay DEF RequestOK, StepOK, Holds, Exists, Maybe
<1>4. /\ m \in Local /\ m.kind = l.kind /\ m.form = l.form /\ m.user = l.user
      /\ m.client = l.client /\ m.answer = "ok" /\ m.row = users[l.user]
  BY <1>2, <1>3 DEF Local, Maybe, Answer
<1> HIDE DEF m
<1>5. l.kind \in {"register", "profile"}
  BY <1>2 DEF StepOK, KindAt
<1>6. "raced" \notin seen'[r] => AsAsked(m, m.row)
  <2>1. seen[r] \subseteq seen'[r]
    BY <1>1, SeenGrows DEF Step
  <2> QED
    BY <1>2, <1>4, <2>1 DEF RequestOK, AsAsked
<1>7. StepOK("answer", m)
  BY <1>1, <1>2, <1>4, UnderWay, NothingIsApart
  DEF StepOK, KindAt, Holds, Answer
<1>8. RequestOK("answer", m, seen'[r], users, earned)
  BY <1>2, <1>4, <1>5, <1>6, <1>7 DEF RequestOK, Holds, SignsIn
<1> QED
  BY <1>1, <1>4, <1>8, QuietStep DEF Step

\* The end of a request, and the end of a session, keep it.
LEMMA EndsKeep ==
    ASSUME AccountsInv, NEW r \in Request, Deliver(r) \/ Vanish(r)
    PROVE  AccountsInv'
<1>1. /\ Goto(r, "idle", Idle) /\ Note(r) /\ UNCHANGED <<users, earned>>
      /\ pc[r] # "idle"
  BY DEF Deliver, Vanish
<1>2. Idle \in Local /\ Idle.kind = Nothing /\ Idle.answer = Nothing
  BY DEF Idle, Blank, Local, Form, Maybe
<1>3. RequestOK("idle", Idle, seen'[r], users, earned)
  BY <1>2, NothingIsApart
  DEF RequestOK, StepOK, KindAt, FormOK, Holds, SignsIn, Kind, Answer
<1>4. cookie' \in [Client -> Maybe(Account)] /\ SessionIsEarned'
  <2>1. cookie \in [Client -> Maybe(Account)] /\ SessionIsEarned
    BY DEF AccountsInv, TypeOK
  <2>2. CASE Vanish(r)
    BY <2>1, <2>2 DEF Vanish, SessionIsEarned
  <2>3. CASE Deliver(r)
    <3>1. /\ loc[r].client \in Client
          /\ cookie' = [cookie EXCEPT ![loc[r].client] = SetCookie(loc[r])]
      BY <1>1, <2>3, UnderWay DEF Deliver
    <3>2. SetCookie(loc[r]) # Nothing =>
             /\ SetCookie(loc[r]) \in Account
             /\ Exists(users, SetCookie(loc[r]))
             /\ SetCookie(loc[r]) \in earned[loc[r].client]
      <4>1. /\ SignsIn(pc[r], loc[r]) =>
                  /\ loc[r].user \in Account /\ Exists(users, loc[r].user)
                  /\ loc[r].user \in earned[loc[r].client]
        BY <1>1, UnderWay DEF RequestOK
      <4> QED
        BY <2>1, <3>1, <4>1 DEF SetCookie, SignsIn, SessionIsEarned, Maybe
    <3> QED
      BY <1>1, <2>1, <3>1, <3>2 DEF SessionIsEarned, Maybe
  <2> QED
    BY <2>2, <2>3, <1>1 DEF Deliver, Vanish
<1> QED
  BY <1>1, <1>2, <1>3, <1>4, StepKeeps DEF AccountsInv, TypeOK, Step

\* Every step keeps the invariant.
LEMMA NextKeeps == AccountsInv /\ [Next]_vars => AccountsInv'
<1> SUFFICES ASSUME AccountsInv, [Next]_vars PROVE AccountsInv'
  OBVIOUS
<1>1. CASE UNCHANGED vars
  BY <1>1 DEF vars, AccountsInv, TypeOK, SessionIsEarned
<1>2. ASSUME NEW r \in Request, Arrive(r) \/ Handle(r) PROVE AccountsInv'
  <2>1. CASE DbError(r)
    BY <2>1, ReplyKeeps DEF DbError
  <2> QED
    BY <1>2, <2>1, ArriveKeeps, LoadKeeps, ChecksKeep, SelectKeeps,
       WriteKeeps, CollideKeeps, RefreshKeeps, EndsKeep DEF Handle
<1>3. ASSUME NEW c \in Client, Lapse(c) PROVE AccountsInv'
  BY <1>3 DEF Lapse, AccountsInv, TypeOK, SessionIsEarned, Maybe
<1> QED
  BY <1>1, <1>2, <1>3 DEF Next

-----------------------------------------------------------------------------
(* The theorems. *)

\* The invariant holds throughout.
THEOREM AccountsInvHolds == Spec => []AccountsInv
BY InitOK, NextKeeps, PTL DEF Spec

\* Every variable keeps to its type.
THEOREM AccountsTypes == Spec => []TypeOK
<1>1. AccountsInv => TypeOK
  BY DEF AccountsInv
<1> QED
  BY <1>1, AccountsInvHolds, PTL

\* Whoever is refused a name is refused it for a reason: a 409 from a look-up
\* or from a unique index is never about the request's own row, or a column
\* that it does not ask for.
THEOREM ConflictsAreReal == Spec => []ConflictIsReal
<1>1. AccountsInv => ConflictIsReal
  BY DEF AccountsInv, RequestOK, ConflictIsReal
<1> QED
  BY <1>1, AccountsInvHolds, PTL

\* What the registration and profile handlers report as done was done.
THEOREM AnswersAreAsked == Spec => []AnsweredProfileIsAsked
<1>1. AccountsInv => AnsweredProfileIsAsked
  BY DEF AccountsInv, RequestOK, AsAsked, AnsweredProfileIsAsked
<1> QED
  BY <1>1, AccountsInvHolds, PTL

\* No sign-in and no change of password succeeds on a password that was not
\* the account's while the request lasted.
THEOREM PasswordsWereKnown == Spec => []PasswordWasKnown
<1>1. AccountsInv => PasswordWasKnown
  BY DEF AccountsInv, RequestOK, PasswordWasKnown
<1> QED
  BY <1>1, AccountsInvHolds, PTL

\* Sessions are of accounts that exist, and that their clients earned.
THEOREM SessionsAreEarned == Spec => []SessionIsEarned
<1>1. AccountsInv => SessionIsEarned
  BY DEF AccountsInv
<1> QED
  BY <1>1, AccountsInvHolds, PTL

\* No row changes but in the columns that a request of its own account asks
\* for, and no row goes away.
THEOREM ChangesAreAsked == Spec => OnlyAskedChanges
<1> DEFINE Asked ==
      \A a \in Account :
        Exists(users, a) /\ users'[a] # users[a] =>
            /\ users'[a] # Nothing
            /\ \E r \in Request :
                  /\ pc[r] = "write" /\ pc'[r] # "write" /\ loc[r].user = a
                  /\ \A col \in DOMAIN users[a] :
                        users'[a][col] \in {users[a][col], loc[r].form[col]}
<1>1. AccountsInv /\ [Next]_vars => [Asked]_vars
  <2> SUFFICES ASSUME AccountsInv, Next, NEW a \in Account,
                      Exists(users, a), users'[a] # users[a]
               PROVE  /\ users'[a] # Nothing
                      /\ \E r \in Request :
                          /\ pc[r] = "write" /\ pc'[r] # "write"
                          /\ loc[r].user = a
                          /\ \A col \in DOMAIN users[a] :
                              users'[a][col] \in
                                  {users[a][col], loc[r].form[col]}
    OBVIOUS
  <2>1. PICK r \in Request : Write(r) \/ CommitUnheard(r)
    <3>1. ASSUME NEW r \in Request, Arrive(r) PROVE users' = users
      BY <3>1 DEF Arrive, StartRegister, StartLogin, StartLogout, StartRead,
                  StartProfile, StartPassword, Start
    <3>2. ASSUME NEW r \in Request, Handle(r), users' # users
          PROVE  Write(r) \/ CommitUnheard(r)
      BY <3>2 DEF Handle, Load, Admit, CheckEmail, CheckUsername, Select,
                  Verify, Collide, Refresh, Deliver, DbError, Vanish
    <3>3. ASSUME NEW c \in Client, Lapse(c) PROVE users' = users
      BY <3>3 DEF Lapse
    <3> QED
      BY <3>1, <3>2, <3>3 DEF Next
  <2>2. /\ pc[r] = "write" /\ ~Violates(loc[r]) /\ pc'[r] # "write"
    <3>1. pc \in [Request -> Step]
      BY DEF AccountsInv, TypeOK
    <3> QED
      BY <2>1, <3>1 DEF Write, CommitUnheard, Reply, Goto
  <2>3. PICK b \in Fresh(loc[r]) : Store(r, b)
    BY <2>1 DEF Write, CommitUnheard
  <2>4. a = b /\ users'[a] = Written(loc[r]) /\ Exists(users', a)
    BY <2>2, <2>3, Stored
  <2>5. loc[r].kind # "register"
    BY <2>2, <2>3, <2>4, WrittenRow
  <2> QED
    BY <2>2, <2>3, <2>4, <2>5, WrittenRow DEF Exists
<1>2. [][Asked]_vars => OnlyAskedChanges
  BY PTL DEF OnlyAskedChanges
<1> QED
  BY <1>1, <1>2, AccountsInvHolds, PTL DEF Spec

\* A change of password that commits and is answered as done gives its account
\* the new password, and keeps the columns that others may have written since
\* the row was loaded.
THEOREM NewPasswordsHold == Spec => NewPasswordHolds
<1> DEFINE Holding ==
      \A r \in Request :
        loc[r].kind = "password" /\ pc[r] = "write"
        /\ pc'[r] = "answer" /\ loc'[r].answer = "ok"
        => \E a \in Account :
              /\ a = loc[r].user /\ Exists(users, a)
              /\ users'[a] = [users[a] EXCEPT
                                 !.password = loc[r].form.password]
<1>1. AccountsInv /\ [Next]_vars => [Holding]_vars
  <2> SUFFICES ASSUME AccountsInv, Next, NEW r \in Request,
                      loc[r].kind = "password", pc[r] = "write",
                      pc'[r] = "answer", loc'[r].answer = "ok"
               PROVE  \E a \in Account :
                         /\ a = loc[r].user /\ Exists(users, a)
                         /\ users'[a] = [users[a] EXCEPT
                                            !.password = loc[r].form.password]
    OBVIOUS
  <2>1. Write(r)
    <3>1. PICK q \in Request : Arrive(q) \/ Handle(q)
      <4>1. ASSUME NEW c \in Client, Lapse(c) PROVE pc' = pc
        BY <4>1 DEF Lapse
      <4> QED
        BY <4>1 DEF Next
    <3>2. /\ pc \in [Request -> Step] /\ loc \in [Request -> Local]
      BY DEF AccountsInv, TypeOK
    <3>3. ASSUME NEW p, NEW m, Goto(q, p, m)
          PROVE  q = r /\ m.answer = "ok"
      BY <3>2, <3>3 DEF Goto
    <3>4. ~Arrive(q)
      <4>1. Arrive(q) => pc[q] = "idle" /\ \E p, m : Goto(q, p, m)
        BY DEF Arrive, StartRegister, StartLogin, StartLogout, StartRead,
               StartProfile, StartPassword, Start
      <4> QED
        BY <3>3, <4>1
    <3>5. Handle(q) => \E p, m : Goto(q, p, m)
      BY DEF Handle, Load, Admit, CheckEmail, CheckUsername, Select, Verify,
             Write, Collide, Refresh, Deliver, DbError, CommitUnheard, Vanish,
             Reply
    <3>6. q = r
      BY <3>1, <3>3, <3>4, <3>5
    <3>7. ASSUME NEW what \in {"conflict", "error"}, Reply(r, what)
          PROVE  FALSE
      BY <3>2, <3>7 DEF Reply, Goto, Local
    <3>8. \/ Write(r) \/ Reply(r, "conflict") \/ Reply(r, "error")
          \/ Goto(r, "idle", Idle)
      <4>1. Handle(r)
        BY <3>1, <3>4, <3>6
      <4> QED
        BY <4>1 DEF Handle, Load, Admit, CheckEmail, CheckUsername, Select,
           Verify, Collide, Refresh, Deliver, DbError, CommitUnheard, Vanish
    <3>9. ~Goto(r, "idle", Idle)
      BY <3>2 DEF Goto
    <3> QED
      BY <3>7, <3>8, <3>9
  <2>2. PICK a \in Fresh(loc[r]) : Store(r, a)
    BY <2>1 DEF Write
  <2>3. ~Violates(loc[r])
    BY <2>1 DEF Write
  <2>4. users'[a] = Written(loc[r])
    BY <2>2, <2>3, Stored
  <2> QED
    BY <2>4, WrittenRow
<1>2. [][Holding]_vars => NewPasswordHolds
  BY PTL DEF NewPasswordHolds
<1> QED
  BY <1>1, <1>2, AccountsInvHolds, PTL DEF Spec
=============================================================================
