--------------------------- MODULE WorkerPoolsProofs ---------------------------
(***************************************************************************)
(* Theorems about WorkerPools, for any number of requests, threads and     *)
(* connections.                                                            *)
(***************************************************************************)
EXTENDS WorkerPools, SequenceTheorems, FiniteSetTheorems, TLAPS

-----------------------------------------------------------------------------
(* The steps of the handlers.  What the proofs need of a sequence of steps   *)
(* is about two neighbours at a time, and survives concatenation.            *)

Op == {"thread", "coroutine", "back", "connect", "commit", "rollback", "cache", "limit"}

\* Parts of a handler: each begins with its place, and ends before the next one.
Script(s) ==
    /\ s \in Seq(Op) /\ Len(s) >= 2
    /\ s[1] \in {"thread", "coroutine"} /\ s[Len(s)] = "back"
    /\ \A i \in 1 .. Len(s) - 1 :
          s[i] # "back" => s[i + 1] \notin {"thread", "coroutine"}

\* The transaction is ended right before the cache is used.
Releases(s) ==
    \A i \in 1 .. Len(s) - 1 : s[i + 1] = "cache" => s[i] \in {"commit", "rollback"}

\* A commit comes last but for one step, which needs no connection.
CommitsLast(s) ==
    \A i \in 1 .. Len(s) :
        /\ s[i] = "commit" => i >= Len(s) - 2
        /\ i >= Len(s) - 1 => s[i] # "connect"

LinkWrites == {"shorten", "shorten_signed_out", "create_account_link",
               "delete_account_link"}

\* Two handlers one after the other.
LEMMA ConcatScripts ==
    ASSUME NEW s, NEW t, Script(s), Script(t)
    PROVE  /\ Script(s \o t)
           /\ Releases(s) /\ Releases(t) => Releases(s \o t)
           /\ (\A i \in 1 .. Len(s) : s[i] # "commit") /\ CommitsLast(t)
                => CommitsLast(s \o t)
<1> DEFINE m == Len(s)
           n == Len(t)
           u == s \o t
<1>1. /\ m \in Nat /\ n \in Nat /\ m >= 2 /\ n >= 2
      /\ u \in Seq(Op) /\ Len(u) = m + n
      /\ \A i \in 1 .. m : u[i] = s[i]
      /\ \A i \in m + 1 .. m + n : u[i] = t[i - m]
  BY ConcatProperties, LenProperties DEF Script
<1>2. \A i \in 1 .. m + n - 1 :
         \/ i \in 1 .. m - 1 /\ u[i] = s[i] /\ u[i + 1] = s[i + 1]
         \/ i = m /\ u[i] = "back" /\ u[i + 1] = t[1]
         \/ i - m \in 1 .. n - 1 /\ u[i] = t[i - m] /\ u[i + 1] = t[(i - m) + 1]
  <2> SUFFICES ASSUME NEW i \in 1 .. m + n - 1
               PROVE  \/ i \in 1 .. m - 1 /\ u[i] = s[i] /\ u[i + 1] = s[i + 1]
                      \/ i = m /\ u[i] = "back" /\ u[i + 1] = t[1]
                      \/ /\ i - m \in 1 .. n - 1 /\ u[i] = t[i - m]
                         /\ u[i + 1] = t[(i - m) + 1]
    OBVIOUS
  <2> HIDE DEF u
  <2>1. CASE i < m
    BY <1>1, <2>1
  <2>2. CASE i = m
    BY <1>1, <2>2 DEF Script
  <2>3. CASE i > m
    BY <1>1, <2>3
  <2> QED BY <1>1, <2>1, <2>2, <2>3
<1> HIDE DEF u
<1>3. Script(u)
  <2>1. u[1] = s[1] /\ u[m + n] = t[n]
    BY <1>1
  <2>2. \A i \in 1 .. m + n - 1 :
           u[i] # "back" => u[i + 1] \notin {"thread", "coroutine"}
    BY <1>2 DEF Script
  <2> QED BY <1>1, <2>1, <2>2 DEF Script
<1>4. ASSUME Releases(s), Releases(t)
      PROVE  Releases(u)
  <2> SUFFICES ASSUME NEW i \in 1 .. m + n - 1, u[i + 1] = "cache"
               PROVE  u[i] \in {"commit", "rollback"}
    BY <1>1 DEF Releases
  <2>1. CASE i \in 1 .. m - 1 /\ u[i] = s[i] /\ u[i + 1] = s[i + 1]
    BY <1>4, <2>1 DEF Releases
  <2>2. CASE i = m /\ u[i] = "back" /\ u[i + 1] = t[1]
    BY <2>2 DEF Script
  <2>3. CASE i - m \in 1 .. n - 1 /\ u[i] = t[i - m] /\ u[i + 1] = t[(i - m) + 1]
    BY <1>4, <2>3 DEF Releases
  <2> QED BY <1>2, <2>1, <2>2, <2>3
<1>5. ASSUME \A i \in 1 .. m : s[i] # "commit", CommitsLast(t)
      PROVE  CommitsLast(u)
  <2>1. \A i \in 1 .. m + n : u[i] = "commit" => i - m \in 1 .. n /\ u[i] = t[i - m]
    BY <1>1, <1>5
  <2>2. \A i \in 1 .. m + n : i >= m + n - 1 => i - m \in 1 .. n /\ u[i] = t[i - m]
    BY <1>1
  <2> SUFFICES ASSUME NEW i \in 1 .. m + n
               PROVE  /\ u[i] = "commit" => i >= m + n - 2
                      /\ i >= m + n - 1 => u[i] # "connect"
    BY <1>1 DEF CommitsLast
  <2>3. u[i] = "commit" => i - m >= n - 2
    BY <1>5, <2>1 DEF CommitsLast
  <2>4. i >= m + n - 1 => u[i] # "connect"
    <3> SUFFICES ASSUME i >= m + n - 1 PROVE u[i] # "connect"
      OBVIOUS
    <3>1. i - m \in 1 .. n /\ u[i] = t[i - m] /\ i - m >= n - 1
      BY <1>1, <2>2
    <3> QED BY <1>5, <3>1 DEF CommitsLast
  <2> QED BY <1>1, <2>3, <2>4
<1> QED BY <1>3, <1>4, <1>5 DEF u

\* The parts of which the handlers are made.
LEMMA Parts ==
    /\ Script(get_no_user) /\ Releases(get_no_user)
    /\ \A i \in 1 .. Len(get_no_user) : get_no_user[i] # "commit"
    /\ Script(get_optional_user) /\ Releases(get_optional_user)
    /\ \A i \in 1 .. Len(get_optional_user) : get_optional_user[i] # "commit"
    /\ Script(readiness) /\ Releases(readiness)
    /\ Script(create) /\ Releases(create) /\ CommitsLast(create)
    /\ Script(delete_account_link) /\ Releases(delete_account_link)
    /\ CommitsLast(delete_account_link)
    /\ Script(register) /\ Releases(register)
    /\ Script(login) /\ Releases(login)
    /\ Script(change_password) /\ Releases(change_password)
    /\ Script(delete_avatar) /\ Releases(delete_avatar)
    /\ Script(read_photo_file) /\ Releases(read_photo_file)
    /\ Script(update_profile) /\ Releases(update_profile)
    /\ Script(upload_avatar) /\ Releases(upload_avatar)
    /\ Script(redirect)
    /\ \A i \in 2 .. Len(redirect) - 1 :
          redirect[i + 1] = "cache" => redirect[i] \in {"commit", "rollback"}
<1>1. /\ Script(get_optional_user) /\ Releases(get_optional_user)
      /\ \A i \in 1 .. Len(get_optional_user) : get_optional_user[i] # "commit"
  BY DEF Script, Releases, Op, get_optional_user
<1>2. Script(readiness) /\ Releases(readiness)
  BY DEF Script, Releases, Op, readiness
<1>3. Script(create) /\ Releases(create) /\ CommitsLast(create)
  BY DEF Script, Releases, CommitsLast, Op, create
<1>4. /\ Script(delete_account_link) /\ Releases(delete_account_link)
      /\ CommitsLast(delete_account_link)
  BY DEF Script, Releases, CommitsLast, Op, delete_account_link
<1>5. Script(register) /\ Releases(register)
  BY DEF Script, Releases, Op, register
<1>6. Script(update_profile) /\ Releases(update_profile)
  BY DEF Script, Releases, Op, update_profile
<1>7. Script(upload_avatar) /\ Releases(upload_avatar)
  BY DEF Script, Releases, Op, upload_avatar
<1>9. /\ Script(get_no_user) /\ Releases(get_no_user)
      /\ \A i \in 1 .. Len(get_no_user) : get_no_user[i] # "commit"
  BY DEF Script, Releases, Op, get_no_user
<1>10. Script(login) /\ Releases(login)
  BY DEF Script, Releases, Op, login
<1>11. Script(change_password) /\ Releases(change_password)
  BY DEF Script, Releases, Op, change_password
<1>12. Script(delete_avatar) /\ Releases(delete_avatar)
  BY DEF Script, Releases, Op, delete_avatar
<1>13. Script(read_photo_file) /\ Releases(read_photo_file)
  BY DEF Script, Releases, Op, read_photo_file
<1>8. /\ Script(redirect)
      /\ \A i \in 2 .. Len(redirect) - 1 :
            redirect[i + 1] = "cache" => redirect[i] \in {"commit", "rollback"}
  BY DEF Script, Op, redirect
<1> QED BY <1>1, <1>2, <1>3, <1>4, <1>5, <1>6, <1>7, <1>8, <1>9, <1>10, <1>11,
           <1>12, <1>13

\* The dependency of a signed-in request commits nothing.
LEMMA SignedIn ==
    /\ Script(get_current_user) /\ Releases(get_current_user)
    /\ \A i \in 1 .. Len(get_current_user) : get_current_user[i] # "commit"
<1> DEFINE t == <<"thread", "back">>
<1>1. Script(t) /\ Releases(t) /\ Len(t) = 2 /\ \A i \in 1 .. 2 : t[i] # "commit"
  BY DEF Script, Releases, Op
<1>2. /\ Len(get_optional_user) = 3
      /\ \A i \in 1 .. 3 : get_optional_user[i] # "commit"
  BY DEF get_optional_user
<1>3. get_current_user = get_optional_user \o t
  BY DEF get_current_user
<1> HIDE DEF t
<1>4. get_optional_user \in Seq(Op) /\ t \in Seq(Op)
  BY <1>1, Parts DEF Script
<1>5. /\ Len(get_current_user) = 5
      /\ \A i \in 1 .. 5 : get_current_user[i] =
            IF i <= 3 THEN get_optional_user[i] ELSE t[i - 3]
  <2> DEFINE d == get_optional_user
  <2>1. d \in Seq(Op) /\ t \in Seq(Op) /\ Len(d) = 3 /\ Len(t) = 2
    BY <1>1, <1>2, <1>4
  <2>2. get_current_user = d \o t
    BY <1>3
  <2> HIDE DEF d
  <2>3. /\ Len(d \o t) = Len(d) + Len(t)
        /\ \A i \in 1 .. Len(d) + Len(t) :
              (d \o t)[i] = IF i <= Len(d) THEN d[i] ELSE t[i - Len(d)]
    BY <2>1, ConcatProperties
  <2>4. /\ Len(get_current_user) = 5
        /\ \A i \in 1 .. 5 :
              get_current_user[i] = IF i <= 3 THEN d[i] ELSE t[i - 3]
    BY <2>1, <2>2, <2>3
  <2> QED BY <2>4 DEF d
<1>6. Script(get_current_user) /\ Releases(get_current_user)
  BY <1>1, <1>3, Parts, ConcatScripts
<1> QED BY <1>1, <1>2, <1>5, <1>6

\* What the steps of every kind of request have in common.
LEMMA AllSteps ==
    /\ \A k \in Kind :
          /\ Script(Steps[k])
          /\ \A i \in 2 .. Len(Steps[k]) - 1 :
                Steps[k][i + 1] = "cache" => Steps[k][i] \in {"commit", "rollback"}
    /\ \A k \in LinkWrites : k \in Kind /\ CommitsLast(Steps[k])
<1>1. Kind = {"shorten", "shorten_signed_out", "create_account_link",
              "delete_account_link", "redirect", "register", "login",
              "update_profile", "change_password", "upload_avatar",
              "upload_photo_file", "delete_avatar", "readiness"}
  BY DEF Kind, Steps
<1>2. /\ Steps["shorten"] = get_optional_user \o create
      /\ Steps["shorten_signed_out"] = get_no_user \o create
      /\ Steps["create_account_link"] = get_current_user \o create
      /\ Steps["delete_account_link"] = get_current_user \o delete_account_link
      /\ Steps["redirect"] = redirect
      /\ Steps["register"] = register
      /\ Steps["login"] = login
      /\ Steps["update_profile"] = get_current_user \o update_profile
      /\ Steps["change_password"] = get_current_user \o change_password
      /\ Steps["upload_avatar"] = get_current_user \o upload_avatar
      /\ Steps["upload_photo_file"] =
            get_current_user \o (read_photo_file \o upload_avatar)
      /\ Steps["delete_avatar"] = get_current_user \o delete_avatar
      /\ Steps["readiness"] = readiness
  BY DEF Steps
<1>3. \A k \in Kind \ {"redirect"} : Script(Steps[k]) /\ Releases(Steps[k])
  <2>1. \A t : Script(t) /\ Releases(t) =>
           Script(get_current_user \o t) /\ Releases(get_current_user \o t)
    BY SignedIn, ConcatScripts
  <2>2. \A d \in {get_no_user, get_optional_user} :
           Script(d \o create) /\ Releases(d \o create)
    BY Parts, ConcatScripts
  <2>3. /\ Script(read_photo_file \o upload_avatar)
        /\ Releases(read_photo_file \o upload_avatar)
    BY Parts, ConcatScripts
  <2> QED BY <1>1, <1>2, <2>1, <2>2, <2>3, Parts
<1>4. \A k \in LinkWrites : CommitsLast(Steps[k])
  <2>1. \A t : Script(t) /\ CommitsLast(t) => CommitsLast(get_current_user \o t)
    BY SignedIn, ConcatScripts
  <2>2. \A d \in {get_no_user, get_optional_user} : CommitsLast(d \o create)
    BY Parts, ConcatScripts
  <2> QED BY <1>2, <2>1, <2>2, Parts DEF LinkWrites
<1>5. \A k \in Kind \ {"redirect"} : \A i \in 2 .. Len(Steps[k]) - 1 :
          Steps[k][i + 1] = "cache" => Steps[k][i] \in {"commit", "rollback"}
  <2>1. \A k \in Kind \ {"redirect"} : Len(Steps[k]) \in Nat
    BY <1>3, LenProperties DEF Script
  <2> QED BY <1>3, <2>1 DEF Releases
<1> QED BY <1>1, <1>2, <1>3, <1>4, <1>5, Parts DEF LinkWrites

\* The same facts, about the step at which a request is.
LEMMA StepFacts ==
    ASSUME TypeOK, NEW r \in Request
    PROVE  /\ kind[r] \in Kind /\ at[r] \in Nat
           /\ Last(r) \in Nat /\ Last(r) >= 2
           /\ Steps[kind[r]][Last(r)] = "back"
           /\ at[r] \in 1 .. Last(r) => Steps[kind[r]][at[r]] \in Op
           /\ at[r] \in 1 .. Last(r)
              /\ Steps[kind[r]][at[r]] \notin {"thread", "coroutine"} => at[r] > 1
           /\ at[r] \in 1 .. Last(r) /\ Steps[kind[r]][at[r]] # "back" =>
                 /\ at[r] + 1 \in 2 .. Last(r)
                 /\ Steps[kind[r]][at[r] + 1] \notin {"thread", "coroutine"}
           /\ at[r] \in 1 .. Last(r) - 1 /\ Steps[kind[r]][at[r] + 1] = "cache" =>
                 at[r] = 1 \/ Steps[kind[r]][at[r]] \in {"commit", "rollback"}
           /\ at[r] \in 1 .. Last(r) /\ kind[r] \in LinkWrites =>
                 /\ Steps[kind[r]][at[r]] = "commit" => at[r] >= Last(r) - 2
                 /\ at[r] >= Last(r) - 1 => Steps[kind[r]][at[r]] # "connect"
<1> DEFINE k == kind[r]
           s == Steps[k]
<1>1. k \in Kind /\ at[r] \in 0 .. Len(s) + 1
  BY DEF TypeOK, Last
<1>2. /\ Script(s)
      /\ \A i \in 2 .. Len(s) - 1 : s[i + 1] = "cache" => s[i] \in {"commit", "rollback"}
      /\ k \in LinkWrites => CommitsLast(s)
  BY <1>1, AllSteps
<1> HIDE DEF s
<1>3. /\ Len(s) \in Nat /\ Len(s) >= 2 /\ s[Len(s)] = "back"
      /\ \A i \in 1 .. Len(s) : s[i] \in Op
      /\ s[1] \in {"thread", "coroutine"}
  BY <1>2, LenProperties, ElementOfSeq DEF Script
<1>4. at[r] \in 1 .. Len(s) /\ s[at[r]] # "back" =>
         at[r] + 1 \in 2 .. Len(s) /\ s[at[r] + 1] \notin {"thread", "coroutine"}
  BY <1>1, <1>2, <1>3 DEF Script
<1>5. at[r] \in 1 .. Len(s) - 1 /\ s[at[r] + 1] = "cache" =>
         at[r] = 1 \/ s[at[r]] \in {"commit", "rollback"}
  BY <1>1, <1>2, <1>3
<1>6. at[r] \in 1 .. Len(s) /\ k \in LinkWrites =>
         /\ s[at[r]] = "commit" => at[r] >= Len(s) - 2
         /\ at[r] >= Len(s) - 1 => s[at[r]] # "connect"
  BY <1>1, <1>2, <1>3 DEF CommitsLast
<1> QED BY <1>1, <1>3, <1>4, <1>5, <1>6 DEF s, Last

-----------------------------------------------------------------------------
(* Type correctness. *)

\* What changes of kind and at when r goes on or gives up.
Moved(r) ==
    /\ kind' = kind /\ at' \in [Request -> Nat]
    /\ \A q \in Request : Last(q)' = Last(q) /\ at'[q] \in 0 .. Last(q) + 1
    /\ \A q \in Request \ {r} : at'[q] = at[q]
    /\ at[r] \in 1 .. Last(r)
    /\ Advance(r) => at'[r] = at[r] + 1
    /\ GiveUp(r) => at'[r] = Last(r)
\* A request that goes on, or gives up, is at one of its steps or past the last.
LEMMA Moves ==
    ASSUME TypeOK, NEW r \in Request, NEW ops, Doing(r, ops), Advance(r) \/ GiveUp(r)
    PROVE  Moved(r)
<1>1. kind' = kind /\ \A q \in Request : Last(q)' = Last(q)
  BY DEF Advance, GiveUp, Last
<1>2. Last(r) \in Nat /\ at[r] \in Nat
  BY StepFacts
<1> QED BY <1>1, <1>2 DEF TypeOK, Advance, GiveUp, Doing, Moved

\* Which keeps the types, if the pools keep theirs.
LEMMA MoveTyped ==
    ASSUME TypeOK, NEW r \in Request, Moved(r),
           inThread' \subseteq Request, Cardinality(inThread') <= Threads,
           held' \subseteq Request, Cardinality(held') <= Connections,
           loop' \in Request \cup {Nobody},
           committed' \subseteq Request, failed' \subseteq Request
    PROVE  TypeOK'
BY DEF TypeOK, Moved

\* What one request more or less makes of a set of requests.
LEMMA Sizes ==
    ASSUME NEW S \in SUBSET Request, NEW r \in Request
    PROVE  /\ Cardinality(S) \in Nat
           /\ Cardinality(S \cup {r}) \in Nat /\ Cardinality(S \ {r}) \in Nat
           /\ Cardinality(S \cup {r}) <= Cardinality(S) + 1
           /\ r \in S => Cardinality(S \cup {r}) = Cardinality(S)
           /\ Cardinality(S \ {r}) <= Cardinality(S)
<1>1. \A T \in SUBSET Request : IsFiniteSet(T) /\ Cardinality(T) \in Nat
  BY PoolsAssumption, FS_Subset, FS_CardinalityType
<1>2. S \cup {r} \in SUBSET Request /\ S \ {r} \in SUBSET Request
  OBVIOUS
<1>3. r \in S => S \cup {r} = S
  OBVIOUS
<1> QED BY <1>1, <1>2, <1>3, FS_AddElement, FS_Subset

\* The pools hand out no more than they have.
THEOREM TypeCorrect == Spec => []TypeOK
<1>1. Init => TypeOK
  <2> SUFFICES ASSUME Init PROVE TypeOK
    OBVIOUS
  <2>1. "readiness" \in Kind /\ Len(Steps["readiness"]) \in Nat
    BY AllSteps, LenProperties DEF Script, Kind, Steps
  <2>2. Cardinality({}) = 0
    BY FS_EmptySet
  <2> QED BY <2>1, <2>2, PoolsAssumption DEF Init, TypeOK, Last
<1>2. TypeOK /\ [Next]_vars => TypeOK'
  <2> SUFFICES ASSUME TypeOK, [Next]_vars PROVE TypeOK'
    OBVIOUS
  <2> /\ kind \in [Request -> Kind] /\ Threads \in Nat /\ Connections \in Nat
      /\ inThread \in SUBSET Request /\ Cardinality(inThread) <= Threads
      /\ held \in SUBSET Request /\ Cardinality(held) <= Connections
    BY PoolsAssumption DEF TypeOK
  <2>3. CASE UNCHANGED vars
    BY <2>3 DEF vars, TypeOK, Last
  <2>4. ASSUME NEW r \in Request, NEW k \in Kind, Arrive(r, k)
        PROVE  TypeOK'
    <3>1. Len(Steps[k]) \in Nat /\ Len(Steps[k]) >= 2
      BY AllSteps, LenProperties DEF Script
    <3> QED BY <2>4, <3>1 DEF Arrive, TypeOK, Last
  <2>5. ASSUME NEW r \in Request, EnterThread(r)
        PROVE  TypeOK'
    <3>1. Cardinality(inThread') <= Threads
      <4>1. /\ Cardinality(inThread) \in Nat /\ Cardinality(inThread \cup {r}) \in Nat
            /\ Cardinality(inThread \cup {r}) <= Cardinality(inThread) + 1
        BY Sizes
      <4> QED BY <2>5, <4>1 DEF EnterThread
    <3>2. Moved(r)
      BY <2>5, Moves DEF EnterThread
    <3> QED BY <2>5, <3>1, <3>2, MoveTyped DEF EnterThread, TypeOK
  <2>6. ASSUME NEW r \in Request, RunCoroutine(r)
        PROVE  TypeOK'
    <3>1. Moved(r)
      BY <2>6, Moves DEF RunCoroutine
    <3> QED BY <2>6, <3>1, MoveTyped DEF RunCoroutine, TypeOK
  <2>7. ASSUME NEW r \in Request, Back(r)
        PROVE  TypeOK'
    <3>1. Cardinality(inThread') <= Threads
      <4>1. /\ Cardinality(inThread) \in Nat /\ Cardinality(inThread \ {r}) \in Nat
            /\ Cardinality(inThread \ {r}) <= Cardinality(inThread)
        BY Sizes
      <4> QED BY <2>7, <4>1 DEF Back
    <3>2. Moved(r)
      BY <2>7, Moves DEF Back
    <3> QED BY <2>7, <3>1, <3>2, MoveTyped DEF Back, TypeOK
  <2>8. ASSUME NEW r \in Request, Close(r)
        PROVE  TypeOK'
    <3>1. Cardinality(held') <= Connections
      <4>1. /\ Cardinality(held) \in Nat /\ Cardinality(held \ {r}) \in Nat
            /\ Cardinality(held \ {r}) <= Cardinality(held)
        BY Sizes
      <4> QED BY <2>8, <4>1 DEF Close
    <3>2. "readiness" \in Kind /\ Len(Steps["readiness"]) \in Nat
      BY AllSteps, LenProperties DEF Script, Kind, Steps
    <3> QED BY <2>8, <3>1, <3>2 DEF Close, TypeOK, Last
  <2>9. ASSUME NEW r \in Request, Connect(r)
        PROVE  TypeOK'
    <3>1. Cardinality(held') <= Connections
      <4>1. /\ Cardinality(held) \in Nat /\ Cardinality(held \cup {r}) \in Nat
            /\ Cardinality(held \cup {r}) <= Cardinality(held) + 1
            /\ r \in held => Cardinality(held \cup {r}) = Cardinality(held)
        BY Sizes
      <4> QED BY <2>9, <4>1 DEF Connect
    <3>2. Moved(r)
      BY <2>9, Moves DEF Connect
    <3> QED BY <2>9, <3>1, <3>2, MoveTyped DEF Connect, TypeOK
  <2>10. ASSUME NEW r \in Request, TimeOut(r)
         PROVE  TypeOK'
    <3>1. Moved(r)
      BY <2>10, Moves DEF TimeOut
    <3> QED BY <2>10, <3>1, MoveTyped DEF TimeOut, TypeOK
  <2>11. ASSUME NEW r \in Request, EndTransaction(r)
         PROVE  TypeOK'
    <3>1. Cardinality(held') <= Connections
      <4>1. /\ Cardinality(held) \in Nat /\ Cardinality(held \ {r}) \in Nat
            /\ Cardinality(held \ {r}) <= Cardinality(held)
        BY Sizes
      <4> QED BY <2>11, <4>1 DEF EndTransaction
    <3>2. Moved(r)
      BY <2>11, Moves DEF EndTransaction
    <3> QED BY <2>11, <3>1, <3>2, MoveTyped DEF EndTransaction, TypeOK
  <2>12. ASSUME NEW r \in Request, UseRedis(r)
         PROVE  TypeOK'
    <3>1. Moved(r)
      BY <2>12, Moves DEF UseRedis
    <3> QED BY <2>12, <3>1, MoveTyped DEF UseRedis, TypeOK
  <2> QED BY AsksAssumption, <2>3, <2>4, <2>5, <2>6, <2>7, <2>8, <2>9, <2>10, <2>11, <2>12
          DEF Next, OnLoop, Proceed
<1> QED BY <1>1, <1>2, PTL DEF Spec

-----------------------------------------------------------------------------
(* The invariant. *)

\* A request that has a thread, or the loop, is past the step that took it.
Inside(k, i) ==
    i \in 1 .. Len(Steps[k]) /\ Steps[k][i] \notin {"thread", "coroutine"}
PlacesInv == \A r \in Request : r \in inThread \/ loop = r => Inside(kind[r], at[r])

\* A connection is taken after the first step, and given back before the cache.
HeldInv == \A r \in held : at[r] > 1 /\ ~Doing(r, {"cache"})

\* Who was refused a connection is at the end; so is, but for the invalidation,
\* a request that has committed a link, and it was not refused.
CommitInv ==
    /\ \A r \in failed : at[r] >= Last(r)
    /\ \A r \in committed :
          /\ at[r] > 0
          /\ kind[r] \in LinkWrites => at[r] >= Last(r) - 1 /\ r \notin failed

PoolInv == PlacesInv /\ HeldInv /\ CommitInv

\* Where a request is after a step that is not the last of its part.
LEMMA GoesOn ==
    ASSUME TypeOK, NEW r \in Request, Moved(r), Advance(r) \/ GiveUp(r),
           Steps[kind[r]][at[r]] # "back"
    PROVE  /\ Inside(kind[r], at'[r]) /\ at'[r] > 1
           /\ at'[r] \in Nat /\ at'[r] >= at[r]
<1>1. /\ at[r] \in 1 .. Last(r) /\ Last(r) \in Nat /\ Last(r) >= 2
      /\ at[r] + 1 \in 2 .. Last(r)
      /\ Steps[kind[r]][at[r] + 1] \notin {"thread", "coroutine"}
      /\ Steps[kind[r]][Last(r)] = "back"
  BY StepFacts DEF Moved
<1>2. CASE Advance(r)
  BY <1>1, <1>2 DEF Moved, Inside, Last
<1>3. CASE GiveUp(r)
  BY <1>1, <1>3 DEF Moved, Inside, Last
<1> QED BY <1>2, <1>3

\* Threads and the event loop are kept by those who are at work in them.
LEMMA PlacesKept == TypeOK /\ TypeOK' /\ PlacesInv /\ [Next]_vars => PlacesInv'
<1> SUFFICES ASSUME TypeOK, TypeOK', PlacesInv, [Next]_vars PROVE PlacesInv'
  OBVIOUS
<1> \A r \in Request : r # Nobody
  BY PoolsAssumption
<1>1. CASE UNCHANGED vars
  BY <1>1 DEF vars, PlacesInv
<1>2. ASSUME NEW r \in Request, NEW k \in Kind, Arrive(r, k)
      PROVE  PlacesInv'
  BY <1>2 DEF Arrive, PlacesInv, Inside, TypeOK
<1>3. ASSUME NEW r \in Request, Moved(r), Advance(r) \/ GiveUp(r),
             Steps[kind[r]][at[r]] # "back",
             inThread' \subseteq inThread \cup {r}, loop' \in {loop, r}
      PROVE  PlacesInv'
  <2>1. Inside(kind[r], at'[r]) /\ kind' = kind
    BY <1>3, GoesOn DEF Moved
  <2> QED BY <1>3, <2>1 DEF PlacesInv, Moved
<1>4. ASSUME NEW r \in Request, EnterThread(r) \/ RunCoroutine(r)
      PROVE  PlacesInv'
  <2>1. Moved(r) /\ Steps[kind[r]][at[r]] # "back" /\ Advance(r)
    BY <1>4, Moves DEF EnterThread, RunCoroutine, Doing
  <2> QED BY <1>3, <1>4, <2>1 DEF EnterThread, RunCoroutine
<1>5. ASSUME NEW r \in Request, Back(r)
      PROVE  PlacesInv'
  <2>1. Moved(r)
    BY <1>5, Moves DEF Back
  <2> QED BY <1>5, <2>1 DEF Back, PlacesInv, Moved
<1>6. ASSUME NEW r \in Request, Close(r)
      PROVE  PlacesInv'
  <2>1. ~Inside(kind[r], at[r])
    BY <1>6, StepFacts DEF Close, Inside, Last
  <2> QED BY <1>6, <2>1 DEF Close, PlacesInv, TypeOK
<1>7. ASSUME NEW r \in Request, Proceed(r)
      PROVE  PlacesInv'
  <2>1. \E ops : /\ Doing(r, ops) /\ "back" \notin ops
                 /\ Advance(r) \/ GiveUp(r)
    BY <1>7 DEF Proceed, Connect, TimeOut, EndTransaction, UseRedis
  <2>2. Moved(r) /\ Steps[kind[r]][at[r]] # "back"
    BY <2>1, Moves DEF Doing
  <2>3. UNCHANGED <<inThread, loop>>
    BY <1>7 DEF Proceed, Connect, TimeOut, EndTransaction, UseRedis
  <2> QED BY <1>3, <2>1, <2>2, <2>3
<1> QED BY AsksAssumption, <1>1, <1>2, <1>4, <1>5, <1>6, <1>7 DEF Next, OnLoop

\* Connections are not held on the way to a cache command.
LEMMA HeldKept == TypeOK /\ TypeOK' /\ HeldInv /\ [Next]_vars => HeldInv'
<1> SUFFICES ASSUME TypeOK, TypeOK', HeldInv, [Next]_vars PROVE HeldInv'
  OBVIOUS
<1> held \subseteq Request /\ held' \subseteq Request
  BY DEF TypeOK
<1>1. CASE UNCHANGED vars
  BY <1>1 DEF vars, HeldInv, Doing, Last
<1>2. ASSUME NEW r \in Request, NEW k \in Kind, Arrive(r, k)
      PROVE  HeldInv'
  <2>1. r \notin held
    BY <1>2 DEF Arrive, HeldInv
  <2> QED BY <1>2, <2>1 DEF Arrive, HeldInv, Doing, Last, TypeOK
\* The others are where they were: what matters is where r comes to.
<1>3. ASSUME NEW r \in Request, Moved(r), held' \subseteq held \cup {r},
             r \in held' => at'[r] > 1 /\ ~Doing(r, {"cache"})'
      PROVE  HeldInv'
  <2>1. \A q \in Request \ {r} : Doing(q, {"cache"})' = Doing(q, {"cache"})
    BY <1>3 DEF Moved, Doing
  <2> QED BY <1>3, <2>1 DEF HeldInv, Moved
\* The next step uses the cache only if the transaction has just been ended.
<1>4. ASSUME NEW r \in Request, Moved(r), Advance(r) \/ GiveUp(r), at[r] > 1,
             Steps[kind[r]][at[r]] \notin {"commit", "rollback"}
      PROVE  ~Doing(r, {"cache"})'
  <2>1. /\ at[r] \in 1 .. Last(r) /\ Last(r) \in Nat /\ Last(r)' = Last(r)
        /\ Steps[kind[r]][Last(r)] = "back" /\ kind' = kind
        /\ at[r] \in 1 .. Last(r) - 1 => Steps[kind[r]][at[r] + 1] # "cache"
    BY <1>4, StepFacts DEF Moved
  <2>2. CASE Advance(r)
    BY <2>1, <2>2, <1>4 DEF Moved, Doing
  <2>3. CASE GiveUp(r)
    BY <2>1, <2>3, <1>4 DEF Moved, Doing
  <2> QED BY <1>4, <2>2, <2>3
<1>5. ASSUME NEW r \in Request, Back(r) \/ EnterThread(r) \/ RunCoroutine(r)
      PROVE  HeldInv'
  <2>1. Moved(r) /\ Advance(r) /\ held' = held
    BY <1>5, Moves DEF Back, EnterThread, RunCoroutine
  <2>2. Steps[kind[r]][at[r]] \notin {"commit", "rollback"}
    BY <1>5 DEF Back, EnterThread, RunCoroutine, Doing
  <2>3. r \in held => at[r] > 1 /\ at'[r] > 1
    BY <2>1, StepFacts DEF HeldInv, Moved
  <2> QED BY <1>3, <1>4, <2>1, <2>2, <2>3
<1>6. ASSUME NEW r \in Request, Close(r)
      PROVE  HeldInv'
  BY <1>6 DEF Close, HeldInv, Doing, Last, TypeOK
<1>7. ASSUME NEW r \in Request, Connect(r)
      PROVE  HeldInv'
  <2>1. Moved(r) /\ Steps[kind[r]][at[r]] = "connect" /\ (Advance(r) \/ GiveUp(r))
    BY <1>7, Moves DEF Connect, Doing
  <2>2. at[r] > 1 /\ at'[r] > 1
    BY <2>1, StepFacts, GoesOn DEF Moved
  <2> QED BY <1>3, <1>4, <1>7, <2>1, <2>2 DEF Connect
<1>8. ASSUME NEW r \in Request, TimeOut(r) \/ UseRedis(r)
      PROVE  HeldInv'
  <2>1. /\ Moved(r) /\ (Advance(r) \/ GiveUp(r))
        /\ Steps[kind[r]][at[r]] \in {"connect", "cache", "limit"}
    BY <1>8, Moves DEF TimeOut, UseRedis, Doing
  <2>2. held' = held
    BY <1>8 DEF TimeOut, UseRedis
  <2>3. at[r] > 1 /\ at'[r] > 1
    BY <2>1, StepFacts, GoesOn DEF Moved
  <2> QED BY <1>3, <1>4, <2>1, <2>2, <2>3
<1>9. ASSUME NEW r \in Request, EndTransaction(r)
      PROVE  HeldInv'
  <2>1. Moved(r)
    BY <1>9, Moves DEF EndTransaction
  <2> QED BY <1>3, <1>9, <2>1 DEF EndTransaction
<1> QED BY AsksAssumption, <1>1, <1>2, <1>5, <1>6, <1>7, <1>8, <1>9
        DEF Next, OnLoop, Proceed

\* What was committed is answered without a further connection.
LEMMA CommitKept == TypeOK /\ TypeOK' /\ CommitInv /\ [Next]_vars => CommitInv'
<1> SUFFICES ASSUME TypeOK, TypeOK', CommitInv, [Next]_vars PROVE CommitInv'
  OBVIOUS
<1> /\ failed \subseteq Request /\ committed \subseteq Request
    /\ \A r \in Request : Last(r) \in Nat /\ Last(r) >= 2 /\ at[r] \in Nat
  BY StepFacts DEF TypeOK
<1>1. CASE UNCHANGED vars
  BY <1>1 DEF vars, CommitInv, Last
<1>2. ASSUME NEW r \in Request, NEW k \in Kind, Arrive(r, k)
      PROVE  CommitInv'
  <2>1. r \notin failed /\ r \notin committed
    BY <1>2 DEF Arrive, CommitInv
  <2>2. \A q \in Request \ {r} :
           kind'[q] = kind[q] /\ at'[q] = at[q] /\ Last(q)' = Last(q)
    BY <1>2 DEF Arrive, Last, TypeOK
  <2> QED BY <1>2, <2>1, <2>2 DEF Arrive, CommitInv
<1>3. ASSUME NEW r \in Request, Close(r)
      PROVE  CommitInv'
  BY <1>3 DEF Close, CommitInv, Last, TypeOK
\* A step that commits nothing and is refused nothing.
<1>4. ASSUME NEW r \in Request, Moved(r), Advance(r) \/ GiveUp(r),
             UNCHANGED <<committed, failed>>
      PROVE  CommitInv'
  <2>1. at'[r] \in Nat /\ at'[r] >= at[r] /\ kind' = kind
    BY <1>4 DEF Moved
  <2> QED BY <1>4, <2>1 DEF CommitInv, Moved
<1>5. ASSUME NEW r \in Request, TimeOut(r)
      PROVE  CommitInv'
  <2>1. Moved(r) /\ at'[r] = Last(r) /\ Steps[kind[r]][at[r]] = "connect"
    BY <1>5, Moves DEF TimeOut, Doing, Moved
  <2>2. r \in committed => kind[r] \notin LinkWrites
    BY <2>1, StepFacts DEF Moved, CommitInv
  <2>3. failed' = failed \cup {r} /\ committed' = committed /\ kind' = kind
    BY <1>5, <2>1 DEF TimeOut, Moved
  <2> QED BY <2>1, <2>2, <2>3 DEF CommitInv, Moved
<1>6. ASSUME NEW r \in Request, EndTransaction(r)
      PROVE  CommitInv'
  <2>1. /\ Moved(r) /\ (Advance(r) \/ GiveUp(r))
        /\ Steps[kind[r]][at[r]] \in {"commit", "rollback"}
    BY <1>6, Moves DEF EndTransaction, Doing
  <2>2. CASE UNCHANGED committed
    BY <1>4, <1>6, <2>1, <2>2 DEF EndTransaction
  <2>3. CASE committed' # committed
    <3>1. /\ committed' = committed \cup {r} /\ failed' = failed /\ kind' = kind
          /\ Steps[kind[r]][at[r]] = "commit" /\ at'[r] = at[r] + 1
      BY <1>6, <2>1, <2>3 DEF EndTransaction, Doing, Moved
    <3>2. r \notin failed
      BY <2>1, <3>1, StepFacts DEF Moved, CommitInv
    <3>3. kind[r] \in LinkWrites => at'[r] >= Last(r) - 1
      BY <2>1, <3>1, StepFacts DEF Moved
    <3> QED BY <2>1, <3>1, <3>2, <3>3 DEF CommitInv, Moved
  <2> QED BY <2>2, <2>3
<1>7. ASSUME NEW r \in Request,
             \/ EnterThread(r) \/ RunCoroutine(r) \/ Back(r)
             \/ Connect(r) \/ UseRedis(r)
      PROVE  CommitInv'
  <2>1. Moved(r) /\ (Advance(r) \/ GiveUp(r)) /\ UNCHANGED <<committed, failed>>
    BY <1>7, Moves DEF EnterThread, RunCoroutine, Back, Connect, UseRedis
  <2> QED BY <1>4, <2>1
<1> QED BY AsksAssumption, <1>1, <1>2, <1>3, <1>5, <1>6, <1>7 DEF Next, OnLoop, Proceed

\* The invariant holds in every state.
LEMMA PoolsKept == Spec => [](TypeOK /\ PoolInv)
<1>1. Init => PoolInv
  BY PoolsAssumption DEF Init, PoolInv, PlacesInv, HeldInv, CommitInv
<1>2. TypeOK /\ TypeOK' /\ PoolInv /\ [Next]_vars => PoolInv'
  BY PlacesKept, HeldKept, CommitKept DEF PoolInv
<1> QED BY <1>1, <1>2, TypeCorrect, PTL DEF Spec

-----------------------------------------------------------------------------
(* The theorems. *)

\* No request keeps a connection while it waits for the cache.
THEOREM CacheWaitsHoldNothing == Spec => []NoConnectionAtCache
<1>1. TypeOK /\ PoolInv => NoConnectionAtCache
  BY DEF PoolInv, HeldInv, NoConnectionAtCache
<1> QED BY <1>1, PoolsKept, PTL

\* A creation or deletion that has committed is not failed by the pool.
THEOREM CommittedIsAnswered == Spec => []CommittedLinksAreAnswered
<1>1. TypeOK /\ PoolInv => CommittedLinksAreAnswered
  BY DEF PoolInv, CommitInv, CommittedLinksAreAnswered, LinkWrites
<1> QED BY <1>1, PoolsKept, PTL

\* Threads, connections and the event loop cannot be waited for in a circle:
\* who has a thread or the loop is not waiting for one.
THEOREM NoDeadlock == Spec => []SomeoneCanGoOn
<1>1. TypeOK /\ PoolInv => SomeoneCanGoOn
  <2> SUFFICES ASSUME TypeOK, PlacesInv, NEW r \in Request, at[r] # 0
               PROVE  \E q \in Request : Ready(q)
    BY DEF PoolInv, SomeoneCanGoOn
  <2>1. ASSUME NEW q \in Request, Inside(kind[q], at[q]), loop \in {Nobody, q}
        PROVE  Ready(q)
    <3>1. /\ at[q] \in 1 .. Last(q) /\ Steps[kind[q]][at[q]] \in Op
          /\ Steps[kind[q]][at[q]] \notin {"thread", "coroutine"}
      BY <2>1, StepFacts DEF Inside, Last
    <3> QED BY <2>1, <3>1 DEF Ready, Doing, Op
  <2>2. CASE loop # Nobody
    BY <2>1, <2>2 DEF PlacesInv, TypeOK
  <2>3. CASE loop = Nobody /\ inThread # {}
    BY <2>1, <2>3 DEF PlacesInv, TypeOK
  <2>4. CASE loop = Nobody /\ inThread = {}
    <3>1. Cardinality(inThread) < Threads
      BY <2>4, FS_EmptySet, PoolsAssumption
    <3>2. \/ at[r] = Last(r) + 1
          \/ at[r] \in 1 .. Last(r) /\ Steps[kind[r]][at[r]] \in Op
      BY StepFacts DEF TypeOK
    <3> QED BY <2>4, <3>1, <3>2 DEF Ready, Doing, Op
  <2> QED BY <2>2, <2>3, <2>4
<1> QED BY <1>1, PoolsKept, PTL
=============================================================================
