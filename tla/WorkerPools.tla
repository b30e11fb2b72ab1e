------------------------------ MODULE WorkerPools ------------------------------
(***************************************************************************)
(* What the requests of one worker process share: its event loop, the      *)
(* threads that run dependencies and handlers, and the connections of      *)
(* engine.  A session takes a connection with its first statement and      *)
(* keeps it until it commits, rolls back or is closed: between a           *)
(* dependency and its handler a request can hold a connection while it     *)
(* waits for a thread, and in a thread it can wait for a connection.       *)
(***************************************************************************)
EXTENDS Naturals, Sequences, FiniteSets

CONSTANTS
    Request,        \* bound: requests served at the same time
    Asks,           \* bound: the kinds that each of them can be of
    Threads,        \* the thread limiter's tokens
    Connections,    \* db_pool_size + db_max_overflow
    Nobody

ASSUME PoolsAssumption ==
    /\ IsFiniteSet(Request) /\ Nobody \notin Request
    /\ Threads \in Nat \ {0} /\ Connections \in Nat \ {0}

VARIABLES
    kind,       \* what each request asks for
    at,         \* its position in the steps of that kind, 0 if there is none
    inThread,   \* requests that occupy a thread
    held,       \* requests whose session has a connection
    loop,       \* the request whose coroutine has the event loop
    committed,  \* observation: has it committed its work,
    failed      \* observation: and been refused a connection?

vars == <<kind, at, inThread, held, loop, committed, failed>>

-----------------------------------------------------------------------------
(* What the requests do: "thread" runs the steps up to "back" in a thread,  *)
(* "coroutine" runs them on the event loop; "connect" is a statement, which *)
(* needs a connection if the session has none, "limit" and "cache" are      *)
(* Redis commands.  Left out are the turns of a thread that hold nothing    *)
(* yet (entering get_db, reading the body), a collision of short codes,     *)
(* which only connects once more before the commit, and the signed-in       *)
(* reads, which do what delete_avatar does until it finds no photo.         *)

\* A session cookie without an account is not looked up.
get_no_user == <<"thread", "back">>
get_optional_user == <<"thread", "connect", "back">>
get_current_user == get_optional_user \o <<"thread", "back">>

\* Mutant: the read transaction is not ended before the cache is written.
redirect_holding == <<"thread", "cache", "connect", "cache", "back">>
redirect == <<"thread", "cache", "connect", "rollback", "cache", "back">>
\* Mutant: expire_on_commit is left at its default, so that the new row's
\* short_code is read again after the commit.
create_expiring ==
    <<"thread", "limit", "connect", "commit", "connect", "rollback", "cache", "back">>
create == <<"thread", "limit", "connect", "commit", "cache", "back">>
delete_account_link == <<"thread", "connect", "commit", "cache", "back">>
register == <<"thread", "limit", "connect", "commit", "connect", "back">>
login == <<"thread", "limit", "connect", "back">>
change_password == <<"thread", "limit", "connect", "commit", "back">>
delete_avatar == <<"thread", "connect", "commit", "back">>
update_profile == <<"thread", "connect", "commit", "connect", "back">>
\* Mutant: the coroutine hands its statements to a thread and blocks on the result.
upload_avatar_blocking ==
    <<"coroutine", "thread", "connect", "commit", "connect", "back">>
\* A photo that was rolled over to a file is read and closed in threads, which
\* the coroutine awaits.
read_photo_file == <<"thread", "back", "thread", "back">>
upload_avatar == <<"coroutine", "connect", "commit", "connect", "back">>
readiness == <<"thread", "back">>

Steps == [shorten |-> get_optional_user \o create,
          shorten_signed_out |-> get_no_user \o create,
          create_account_link |-> get_current_user \o create,
          delete_account_link |-> get_current_user \o delete_account_link,
          redirect |-> redirect, register |-> register, login |-> login,
          update_profile |-> get_current_user \o update_profile,
          change_password |-> get_current_user \o change_password,
          upload_avatar |-> get_current_user \o upload_avatar,
          upload_photo_file |->
              get_current_user \o (read_photo_file \o upload_avatar),
          delete_avatar |-> get_current_user \o delete_avatar,
          readiness |-> readiness]
Kind == DOMAIN Steps

ASSUME AsksAssumption == Asks \in [Request -> SUBSET Kind]

Init ==
    /\ kind = [r \in Request |-> "readiness"] /\ at = [r \in Request |-> 0]
    /\ inThread = {} /\ held = {} /\ loop = Nobody
    /\ committed = {} /\ failed = {}

Last(r) == Len(Steps[kind[r]])
\* The request r is about to do one of ops.
Doing(r, ops) == at[r] \in 1 .. Last(r) /\ Steps[kind[r]][at[r]] \in ops
Advance(r) == at' = [at EXCEPT ![r] = @ + 1] /\ UNCHANGED kind
\* An error, a refusal or an early return ends the handler.
GiveUp(r) == at' = [at EXCEPT ![r] = Last(r)] /\ UNCHANGED kind

-----------------------------------------------------------------------------
(* Steps that need the event loop. *)

Arrive(r, k) ==
    /\ at[r] = 0 /\ loop = Nobody
    /\ kind' = [kind EXCEPT ![r] = k] /\ at' = [at EXCEPT ![r] = 1]
    /\ UNCHANGED <<inThread, held, loop, committed, failed>>

EnterThread(r) ==
    /\ Doing(r, {"thread"}) /\ loop = Nobody
    /\ Cardinality(inThread) < Threads
    /\ inThread' = inThread \cup {r}
    /\ Advance(r)
    /\ UNCHANGED <<held, loop, committed, failed>>

RunCoroutine(r) ==
    /\ Doing(r, {"coroutine"}) /\ loop = Nobody
    /\ loop' = r
    /\ Advance(r)
    /\ UNCHANGED <<inThread, held, committed, failed>>

\* The result reaches the event loop, which frees the thread.
Back(r) ==
    /\ Doing(r, {"back"}) /\ loop \in {Nobody, r}
    /\ inThread' = inThread \ {r} /\ loop' = Nobody
    /\ Advance(r)
    /\ UNCHANGED <<held, committed, failed>>

\* db.close() in get_db, after the last step, in a thread that is not one of
\* the limiter's.
Close(r) ==
    /\ at[r] = Last(r) + 1 /\ loop = Nobody
    /\ held' = held \ {r}
    /\ at' = [at EXCEPT ![r] = 0] /\ kind' = [kind EXCEPT ![r] = "readiness"]
    /\ committed' = committed \ {r} /\ failed' = failed \ {r}
    /\ UNCHANGED <<inThread, loop>>

-----------------------------------------------------------------------------
(* Steps of a thread, or of the coroutine. *)

\* Mutant: max_overflow = -1.
ConnectAnyway(r) ==
    /\ Doing(r, {"connect"})
    /\ held' = held \cup {r}
    /\ Advance(r)
    /\ UNCHANGED <<inThread, loop, committed, failed>>

Connect(r) ==
    /\ Doing(r, {"connect"})
    /\ r \in held \/ Cardinality(held) < Connections
    /\ held' = held \cup {r}
    /\ Advance(r) \/ GiveUp(r)
    /\ UNCHANGED <<inThread, loop, committed, failed>>

\* Mutant: the statement is tried again after pool_timeout.
AskAgain(r) ==
    /\ Doing(r, {"connect"}) /\ r \notin held
    /\ Cardinality(held) = Connections
    /\ UNCHANGED vars
\* No connection within pool_timeout: the error ends the request.
TimeOut(r) ==
    /\ Doing(r, {"connect"}) /\ r \notin held
    /\ Cardinality(held) = Connections
    /\ failed' = failed \cup {r}
    /\ GiveUp(r)
    /\ UNCHANGED <<inThread, held, loop, committed>>

\* A commit that fails is rolled back.
EndTransaction(r) ==
    /\ Doing(r, {"commit", "rollback"})
    /\ held' = held \ {r}
    /\ \/ /\ Advance(r)
          /\ committed' = IF Doing(r, {"commit"}) THEN committed \cup {r}
                                                 ELSE committed
       \/ GiveUp(r) /\ UNCHANGED committed
    /\ UNCHANGED <<inThread, loop, failed>>

\* Redis answers, or its socket timeout passes.  A cached destination and a
\* refusal by the rate limiter end the handler.
UseRedis(r) ==
    /\ Doing(r, {"cache", "limit"})
    /\ Advance(r) \/ GiveUp(r)
    /\ UNCHANGED <<inThread, held, loop, committed, failed>>

OnLoop(r) == EnterThread(r) \/ RunCoroutine(r) \/ Back(r) \/ Close(r)
Proceed(r) == Connect(r) \/ TimeOut(r) \/ EndTransaction(r) \/ UseRedis(r)
Next == \E r \in Request :
    (\E k \in Asks[r] : Arrive(r, k)) \/ OnLoop(r) \/ Proceed(r)

Spec == Init /\ [][Next]_vars

\* Threads are scheduled and every wait for a connection or for Redis has a
\* time limit.  The event loop and the thread limiter serve those who wait in
\* the order of their coming, so that nobody who can be served again and again
\* is passed over forever.
Fairness == \A r \in Request : WF_vars(Proceed(r)) /\ SF_vars(OnLoop(r))
FairSpec == Spec /\ Fairness

-----------------------------------------------------------------------------
(* Properties. *)

TypeOK ==
    /\ kind \in [Request -> Kind] /\ at \in [Request -> Nat]
    /\ \A r \in Request : at[r] \in 0 .. Last(r) + 1
    /\ inThread \subseteq Request /\ Cardinality(inThread) <= Threads
    /\ held \subseteq Request /\ Cardinality(held) <= Connections
    /\ loop \in Request \cup {Nobody}
    /\ committed \subseteq Request /\ failed \subseteq Request

\* Requests that hold connections and wait for threads, requests that hold
\* threads and wait for connections, and a coroutine that waits for one while
\* nobody else can return: all the same, every request comes to its end.
EveryRequestEnds == \A r \in Request : at[r] # 0 ~> at[r] = 0

\* What r does next waits for no other request, or for none that is in its way.
\* A wait for a connection is no such wait: it is cut off by pool_timeout.
Ready(r) ==
    \/ Doing(r, {"connect", "commit", "rollback", "cache", "limit"})
    \/ Doing(r, {"thread"}) /\ loop = Nobody /\ Cardinality(inThread) < Threads
    \/ Doing(r, {"coroutine"}) /\ loop = Nobody
    \/ Doing(r, {"back"}) /\ loop \in {Nobody, r}
    \/ at[r] = Last(r) + 1 /\ loop = Nobody

\* Nothing of this ends in a deadlock: as long as requests are under way, one
\* of them can go on, without the arrival of another.
SomeoneCanGoOn == (\E r \in Request : at[r] # 0) => \E r \in Request : Ready(r)

\* No connection is kept from the others while a slow cache is waited for: not
\* by the lookup that read the row, and not by a creation or a deletion.
NoConnectionAtCache == \A r \in held : ~Doing(r, {"cache"})

\* A link that was created or deleted is never answered by an error for want of
\* another connection: its handler needs none once it has committed.
CommittedLinksAreAnswered ==
    \A r \in committed \cap failed :
        kind[r] \notin {"shorten", "shorten_signed_out", "create_account_link",
                       "delete_account_link"}
=============================================================================
