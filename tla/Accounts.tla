-------------------------------- MODULE Accounts --------------------------------
(***************************************************************************)
(* Accounts: registration, sign-in and sign-out, the profile and its       *)
(* changes, and the change of password.  Handlers run on threads, each     *)
(* with a database session of its own: they look first, and write later    *)
(* what they found, with the two unique indexes of the users table as the  *)
(* only arbiter of the names two requests want at once.                    *)
(*                                                                         *)
(* The session is a signed cookie: the server keeps nothing of it.  The    *)
(* column password holds the password that its hash was made of, which is  *)
(* all that verify_password tells of a hash; that two hashes of one        *)
(* password differ by their salts shows in Changed.  Values are those that *)
(* the validators let through, after they normalised them.                 *)
(***************************************************************************)
EXTENDS FiniteSets

CONSTANTS
    Account,                            \* primary keys of the users table
    Email, Username, Name, Password,    \* what the columns can hold
    Nothing,                            \* None and NULL, and no row
    Client,                             \* browsers, each with its cookie
    Request,                            \* requests that can be under way
    Faults                              \* which kinds of failure can happen

ASSUME AccountsAssumption ==
    /\ Nothing \notin Account \cup Email \cup Username \cup Name \cup Password
    /\ Nothing \notin Client
    /\ Faults \subseteq {"db", "net"}

VARIABLES
    users,      \* the users table
    cookie,     \* the account in the session cookie of each client
    pc, loc     \* where each request is, and its local variables

VARIABLES       \* observations, which no action of the code reads
    earned,     \* accounts a client made, or knew the password of
    seen        \* what was true at some moment since each request began

vars == <<users, cookie, pc, loc, earned, seen>>

Row == [email : Email, username : Username, name : Name, password : Password]
Maybe(S) == S \cup {Nothing}
Form == [email : Maybe(Email), username : Maybe(Username), name : Maybe(Name),
         password : Maybe(Password), old : Maybe(Password)]
Kind == {"register", "login", "logout", "read", "profile", "password"}
Step == {"idle", "load", "admit", "email", "username", "write", "refresh",
         "select", "verify", "answer"}
Answer == {"ok", "conflict", "denied", "wrong", "error"}
Local == [kind : Maybe(Kind), client : Maybe(Client), form : Form,
          user : Maybe(Account), row : Maybe(Row), answer : Maybe(Answer)]
Event == {"clash", "known", "raced"}

ASSUME NothingIsApart == Nothing \notin Row /\ Nothing \notin Kind \cup Answer

Blank == [email |-> Nothing, username |-> Nothing, name |-> Nothing,
          password |-> Nothing, old |-> Nothing]
Idle == [kind |-> Nothing, client |-> Nothing, form |-> Blank,
         user |-> Nothing, row |-> Nothing, answer |-> Nothing]

\* The two unique indexes.
Distinct(t) == \A a, b \in Account : \A col \in {"email", "username"} :
    t[a] # Nothing /\ t[b] # Nothing /\ a # b => t[a][col] # t[b][col]

\* The processes start with the accounts there are, of which no client here
\* has shown anything yet.
Init ==
    /\ users \in [Account -> Maybe(Row)] /\ Distinct(users)
    /\ cookie = [c \in Client |-> Nothing]
    /\ pc = [r \in Request |-> "idle"] /\ loc = [r \in Request |-> Idle]
    /\ earned = [c \in Client |-> {}] /\ seen = [r \in Request |-> {}]

-----------------------------------------------------------------------------
(* The table. *)

Exists(t, a) == t[a] # Nothing
Holders(t, col, v) == {a \in Account : Exists(t, a) /\ t[a][col] = v}

\* Mutant: one's own row stands in one's way.
Namesakes(t, l, col) == Holders(t, col, l.form[col])
\* The rows that keep a request with these locals from the names it asks for.
Rivals(t, l, col) == Holders(t, col, l.form[col]) \ {l.user}

\* What holds of the request with these locals, in this table: another row
\* has a name it asks for; the password it shows is that of its account.
Facts(t, l) ==
    (IF \E col \in {"email", "username"} :
            Holders(t, col, l.form[col]) \ {l.user} # {}
     THEN {"clash"} ELSE {})
    \cup
    (IF \E a \in Account : /\ Exists(t, a)
                           /\ \/ l.kind = "login" /\ t[a].email = l.form.email
                              \/ l.kind = "password" /\ a = l.user
                           /\ t[a].password = l.form.old
     THEN {"known"} ELSE {})

\* Every step notes the facts of the table it leaves behind, and whether it
\* changed a row that another request is about.
Note(me) ==
    seen' = [r \in Request |->
        IF pc'[r] = "idle" THEN {} ELSE
        (IF pc[r] = "idle" THEN {} ELSE seen[r])
        \cup Facts(users', loc'[r])
        \cup IF r # me /\ loc[r].user # Nothing
                /\ users'[loc[r].user] # users[loc[r].user]
             THEN {"raced"} ELSE {}]

Goto(r, p, l) ==
    /\ pc' = [pc EXCEPT ![r] = p] /\ loc' = [loc EXCEPT ![r] = l]
Reply(r, what) == Goto(r, "answer", [loc[r] EXCEPT !.answer = what])

-----------------------------------------------------------------------------
(* Requests arrive, with the cookie their client has then. *)

Start(r, c, k, form, p) ==
    /\ pc[r] = "idle"
    /\ Goto(r, p, [Idle EXCEPT !.kind = k, !.client = c, !.form = form,
                   !.user = IF k \in {"read", "profile", "password"}
                            THEN cookie[c] ELSE Nothing])
    /\ UNCHANGED <<users, cookie, earned>> /\ Note(r)

StartRegister(r, c) ==
    \E e \in Email, u \in Username, n \in Name, p \in Password :
        Start(r, c, "register", [Blank EXCEPT !.email = e, !.username = u,
                                 !.name = n, !.password = p], "admit")
StartLogin(r, c) ==
    \E e \in Email, p \in Password :
        Start(r, c, "login", [Blank EXCEPT !.email = e, !.old = p], "admit")
StartRead(r, c) == Start(r, c, "read", Blank, "load")
StartProfile(r, c) ==
    \E u \in Username, n \in Name :
        Start(r, c, "profile", [Blank EXCEPT !.username = u, !.name = n],
              "load")
StartPassword(r, c) ==
    \E o, p \in Password :
        Start(r, c, "password", [Blank EXCEPT !.old = o, !.password = p],
              "load")

\* logout() asks nothing of the database, not even who is signed in.
StartLogout(r, c) ==
    /\ pc[r] = "idle"
    /\ Goto(r, "answer", [Idle EXCEPT !.kind = "logout", !.client = c,
                                      !.user = cookie[c], !.answer = "ok"])
    /\ UNCHANGED <<users, cookie, earned>> /\ Note(r)

Arrive(r) == \E c \in Client :
    \/ StartRegister(r, c) \/ StartLogin(r, c) \/ StartLogout(r, c)
    \/ StartRead(r, c) \/ StartProfile(r, c) \/ StartPassword(r, c)

-----------------------------------------------------------------------------
(* Their handlers. *)

\* get_current_user: no account in the cookie, or no such row, is a 401.
Load(r) ==
    LET l == loc[r]
        found == l.user # Nothing /\ Exists(users, l.user)
        mine == [l EXCEPT !.row = users[l.user]]
    IN  /\ pc[r] = "load"
        /\ \/ ~found /\ Reply(r, "wrong")
           \/ /\ found /\ l.kind = "read"
              /\ Goto(r, "answer", [mine EXCEPT !.answer = "ok"])
           \/ found /\ l.kind = "profile" /\ Goto(r, "username", mine)
           \/ found /\ l.kind = "password" /\ Goto(r, "admit", mine)
        /\ UNCHANGED <<users, cookie, earned>> /\ Note(r)

\* _enforce_auth_rate_limit: 429 or 503, or go on.
Admitted(k) == IF k = "register" THEN "email"
               ELSE IF k = "login" THEN "select" ELSE "verify"
Admit(r) ==
    /\ pc[r] = "admit"
    /\ Reply(r, "denied") \/ Goto(r, Admitted(loc[r].kind), loc[r])
    /\ UNCHANGED <<users, cookie, earned>> /\ Note(r)

\* The two look-ups before the write.
Taken(r, col) == Rivals(users, loc[r], col) # {}
CheckEmail(r) ==
    /\ pc[r] = "email"
    /\ IF Taken(r, "email") THEN Reply(r, "conflict")
       ELSE Goto(r, "username", loc[r])
    /\ UNCHANGED <<users, cookie, earned>> /\ Note(r)
CheckUsername(r) ==
    /\ pc[r] = "username"
    /\ IF Taken(r, "username") THEN Reply(r, "conflict")
       ELSE Goto(r, "write", loc[r])
    /\ UNCHANGED <<users, cookie, earned>> /\ Note(r)

\* login: the row of the email address, and whether the password is its own.
AcceptsAny(row, password) == TRUE      \* mutant
Accepts(row, password) == row.password = password
Select(r) ==
    LET l == loc[r]
        found == Holders(users, "email", l.form.email)
    IN  /\ pc[r] = "select"
        /\ IF \E a \in found : Accepts(users[a], l.form.old)
           THEN \E a \in found :
                    Goto(r, "answer", [l EXCEPT !.user = a, !.answer = "ok",
                                                !.row = users[a]])
           ELSE Reply(r, "wrong")
        /\ earned' = [earned EXCEPT ![l.client] = @ \cup
                        {a \in found : users[a].password = l.form.old}]
        /\ UNCHANGED <<users, cookie>> /\ Note(r)

\* Mutant: it is the new password that is verified.
VerifyNew(r) ==
    /\ pc[r] = "verify"
    /\ IF Accepts(loc[r].row, loc[r].form.password)
       THEN Goto(r, "write", loc[r]) ELSE Reply(r, "wrong")
    /\ UNCHANGED <<users, cookie, earned>> /\ Note(r)

\* change_password: the hash is that of the row loaded before.
Verify(r) ==
    /\ pc[r] = "verify"
    /\ IF Accepts(loc[r].row, loc[r].form.old) THEN Goto(r, "write", loc[r])
       ELSE Reply(r, "wrong")
    /\ UNCHANGED <<users, cookie, earned>> /\ Note(r)

\* The statement of the session's flush: a new row, or an UPDATE of the
\* columns that the handler gave another value than the one it had loaded.
\* Names are compared; a new hash has a new salt, and so it always differs
\* from the loaded one, whichever password it is of.
\* Mutant: a new password that is the loaded one leaves the hash alone.
ChangedIfOther(l) == {col \in {"username", "name", "password"} :
                          l.form[col] \notin {Nothing, l.row[col]}}
Changed(l) ==
    {col \in {"username", "name"} : l.form[col] \notin {Nothing, l.row[col]}}
    \cup {col \in {"password"} : l.form[col] # Nothing}
\* Mutant: every column of the loaded row goes back.
WholeRow(l) ==
    IF l.kind = "register"
    THEN [email |-> l.form.email, username |-> l.form.username,
          name |-> l.form.name, password |-> l.form.password]
    ELSE [col \in DOMAIN l.row |->
              IF l.form[col] # Nothing THEN l.form[col] ELSE l.row[col]]
Written(l) ==
    IF l.kind = "register"
    THEN [email |-> l.form.email, username |-> l.form.username,
          name |-> l.form.name, password |-> l.form.password]
    ELSE [col \in DOMAIN l.row |->
              IF col \in Changed(l) THEN l.form[col] ELSE users[l.user][col]]
Fresh(l) == IF l.kind = "register" THEN {a \in Account : ~Exists(users, a)}
            ELSE {l.user}
Violates(l) == \E col \in {"email", "username"} :
    Holders(users, col, Written(l)[col]) \ {l.user} # {}

Store(r, a) ==
    /\ users' = [users EXCEPT ![a] = Written(loc[r])]
    /\ earned' = IF loc[r].kind # "register" THEN earned ELSE
                 [earned EXCEPT ![loc[r].client] = @ \cup {a}]

\* commit(), then refresh() where the handler has one.
Write(r) ==
    /\ pc[r] = "write"
    /\ ~Violates(loc[r])
    /\ \E a \in Fresh(loc[r]) :
          /\ Store(r, a)
          /\ IF loc[r].kind = "password" THEN Reply(r, "ok")
             ELSE Goto(r, "refresh", [loc[r] EXCEPT !.user = a])
    /\ UNCHANGED cookie /\ Note(r)

\* Mutant: after the rollback the profile handler goes on.
CollideQuietly(r) ==
    /\ pc[r] = "write"
    /\ Violates(loc[r])
    /\ IF loc[r].kind = "profile" THEN Goto(r, "refresh", loc[r])
       ELSE Reply(r, "conflict")
    /\ UNCHANGED <<users, cookie, earned>> /\ Note(r)

\* IntegrityError, rolled back: someone took the name since the look-up.
Collide(r) ==
    /\ pc[r] = "write"
    /\ Violates(loc[r])
    /\ Reply(r, "conflict")
    /\ UNCHANGED <<users, cookie, earned>> /\ Note(r)

Refresh(r) ==
    /\ pc[r] = "refresh"
    /\ Goto(r, "answer", [loc[r] EXCEPT !.row = users[loc[r].user],
                                        !.answer = "ok"])
    /\ UNCHANGED <<users, cookie, earned>> /\ Note(r)

-----------------------------------------------------------------------------
(* Answers and failures. *)

\* Handlers that start a session answer with a new cookie; the end of one is
\* an empty cookie, if the request had come with a session.
SetCookie(l) ==
    IF l.kind \in {"register", "login"} /\ l.answer = "ok" THEN l.user
    ELSE IF l.kind = "logout" /\ l.user # Nothing THEN Nothing
    ELSE cookie[l.client]

Deliver(r) ==
    /\ pc[r] = "answer"
    /\ cookie' = [cookie EXCEPT ![loc[r].client] = SetCookie(loc[r])]
    /\ Goto(r, "idle", Idle)
    /\ UNCHANGED <<users, earned>> /\ Note(r)

\* The session cookie reaches its max_age.
Lapse(c) ==
    /\ cookie' = [cookie EXCEPT ![c] = Nothing]
    /\ UNCHANGED <<users, pc, loc, earned, seen>>

\* The database fails a statement or a connection: 500.
DbError(r) ==
    /\ "db" \in Faults
    /\ pc[r] \in {"load", "email", "username", "select", "write", "refresh"}
    /\ Reply(r, "error")
    /\ UNCHANGED <<users, cookie, earned>> /\ Note(r)

\* It fails after it has committed.
CommitUnheard(r) ==
    /\ "db" \in Faults /\ pc[r] = "write"
    /\ ~Violates(loc[r])
    /\ \E a \in Fresh(loc[r]) : Store(r, a)
    /\ Reply(r, "error")
    /\ UNCHANGED cookie /\ Note(r)

\* The client never hears the answer, or the worker dies with the request.
Vanish(r) ==
    /\ "net" \in Faults /\ pc[r] # "idle"
    /\ Goto(r, "idle", Idle)
    /\ UNCHANGED <<users, cookie, earned>> /\ Note(r)

Handle(r) ==
    \/ Load(r) \/ Admit(r) \/ CheckEmail(r) \/ CheckUsername(r) \/ Select(r)
    \/ Verify(r) \/ Write(r) \/ Collide(r) \/ Refresh(r) \/ Deliver(r)
    \/ DbError(r) \/ CommitUnheard(r) \/ Vanish(r)

Next == \/ \E r \in Request : Arrive(r) \/ Handle(r)
        \/ \E c \in Client : Lapse(c)

Spec == Init /\ [][Next]_vars

-----------------------------------------------------------------------------
(* Properties. *)

TypeOK ==
    /\ users \in [Account -> Maybe(Row)]
    /\ cookie \in [Client -> Maybe(Account)]
    /\ pc \in [Request -> Step] /\ loc \in [Request -> Local]
    /\ earned \in [Client -> SUBSET Account]
    /\ seen \in [Request -> SUBSET Event]

\* A 409 is the truth: at some moment since the request began, an account
\* other than the one it is about had the address or the username it asks
\* for, whichever of the look-ups or the index found it.
ConflictIsReal ==
    \A r \in Request : loc[r].answer = "conflict" => "clash" \in seen[r]

\* The profile that a registration or an update answers with is the one that
\* was asked for, unless another request changed that row meanwhile: no
\* column is left out, no failed statement reported as done.
AnsweredProfileIsAsked ==
    \A r \in Request :
        /\ loc[r].kind \in {"register", "profile"} /\ loc[r].answer = "ok"
        /\ "raced" \notin seen[r]
        => \A col \in {"email", "username", "name"} :
               loc[r].form[col] \in {Nothing, loc[r].row[col]}

\* Who signs in, or changes a password, showed the password that the account
\* had at some moment since the request began, though the row that it is
\* compared with was loaded before the request was admitted.
PasswordWasKnown ==
    \A r \in Request :
        loc[r].kind \in {"login", "password"} /\ loc[r].answer = "ok"
        => "known" \in seen[r]

\* A session is of an account that exists, and that this client made or once
\* knew the password of, whatever became of the requests in between.
SessionIsEarned ==
    \A c \in Client :
        cookie[c] # Nothing => Exists(users, cookie[c]) /\ cookie[c] \in earned[c]

\* A row changes only in the columns that a request of its own account asks
\* to change: what a request loaded long ago never goes back to the table,
\* so a profile update does not undo a change of password, nor the reverse.
OnlyAskedChanges ==
    [][\A a \in Account :
           Exists(users, a) /\ users'[a] # users[a] =>
               /\ users'[a] # Nothing
               /\ \E r \in Request :
                     /\ pc[r] = "write" /\ pc'[r] # "write" /\ loc[r].user = a
                     /\ \A col \in DOMAIN users[a] :
                           users'[a][col] \in {users[a][col], loc[r].form[col]}
      ]_vars

\* A change of password that commits leaves the account with the password it
\* asks for and with the names it has, also when another change has committed
\* since its row was loaded, and when the new password is the loaded one.
NewPasswordHolds ==
    [][\A r \in Request :
           loc[r].kind = "password" /\ pc[r] = "write"
           /\ pc'[r] = "answer" /\ loc'[r].answer = "ok"
           => \E a \in Account :
                 /\ a = loc[r].user /\ Exists(users, a)
                 /\ users'[a] = [users[a] EXCEPT
                                    !.password = loc[r].form.password]
      ]_vars
=============================================================================
