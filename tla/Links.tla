-------------------------------- MODULE Links --------------------------------
(***************************************************************************)
(* The life of a short link.  A row of the table urls is created by        *)
(* POST /shorten or POST /account/links, read by GET /{code} through the   *)
(* Redis cache, and removed by DELETE /account/links/{code}.  Handlers run *)
(* concurrently, on threads of several worker processes; what they share   *)
(* is the table, the cache and, within a worker, the cache circuit.        *)
(*                                                                         *)
(* A handler is a thread serving one request at a time.  Its steps are the *)
(* points where another handler can be seen or can interfere: one database *)
(* statement with its commit, the look at the circuit, one Redis command,  *)
(* and the recording of that command's outcome.                            *)
(***************************************************************************)
EXTENDS Naturals, FiniteSets

CONSTANTS
    Code, Url, User,    \* short codes, destinations, account holders
    Handler,            \* request threads
    Worker, WorkerOf,   \* processes, and the one each thread belongs to
    Missing,            \* no row for the code; in the cache: _MISSING_VALUE
    NoEntry,            \* no cache entry, or a lookup Redis did not answer
    Anonymous,          \* a request without a session; a row without owner
    NoCode,             \* no code chosen yet
    MaxAttempts,        \* short_code_max_attempts
    CacheOn,            \* redis_cache_ttl > 0
    NegativeOn,         \* redis_negative_cache_ttl > 0
    AuthRequired,       \* auth_required
    Faults,             \* which kinds of failure can happen
    MaxRows,            \* bound: rows ever inserted
    MaxLate             \* bound: Redis commands under way with no one waiting

ASSUME SetsAssumption ==
    /\ Handler # {} /\ WorkerOf \in [Handler -> Worker]
    /\ IsFiniteSet(Handler)
    /\ Missing \notin Url /\ NoEntry \notin Url /\ Missing # NoEntry
    /\ Anonymous \notin User /\ NoCode \notin Code
ASSUME SettingsAssumption ==
    /\ MaxAttempts \in Nat \ {0} /\ MaxRows \in Nat /\ MaxLate \in Nat
    /\ CacheOn \in BOOLEAN /\ NegativeOn \in BOOLEAN
    /\ AuthRequired \in BOOLEAN
    /\ Faults \subseteq {"redis", "db", "crash"}

VARIABLES
    urls,       \* the table urls, by its unique column short_code
    nextId,     \* the sequence behind urls.id
    cache,      \* the Redis cache
    late,       \* commands sent to Redis whose caller has given up
    open,       \* per worker: is the cache circuit open?
    pc, loc     \* where each handler is, and its local variables

VARIABLES       \* observations, which no action of the code reads
    cause,      \* per code: why the cache may disagree with the table
    announced,  \* per code: has the creation of its row been answered?
    obs         \* per handler: what was true while its request ran

vars == <<urls, nextId, cache, late, open, pc, loc, cause, announced, obs>>

NoRow == [id |-> 0, url |-> Missing, owner |-> Anonymous]
Row == {NoRow} \cup
       [id : Nat \ {0}, url : Url, owner : User \cup {Anonymous}]
Exists(c) == urls[c].id # 0

Step == {"idle", "admit", "insert", "recheck", "select", "delete", "query",
         "gate", "call", "record", "answered"}
Answer == {"none", "found", "missing", "created", "exhausted", "error",
           "refused", "unauthorized", "deleted", "not_owned"}
Local == [kind : {"none", "redirect", "create", "delete"},
          code : Code \cup {NoCode},
          url : Url \cup {Missing, NoEntry},
          user : User \cup {Anonymous},
          id : Nat, tries : 0 .. MaxAttempts,
          op : {"get", "set", "del"}, ok : BOOLEAN, answer : Answer]
Idle == [kind |-> "none", code |-> NoCode, url |-> NoEntry,
         user |-> Anonymous, id |-> 0, tries |-> 0,
         op |-> "get", ok |-> TRUE, answer |-> "none"]
Unobserved == [seen |-> {}, doubt |-> FALSE, promised |-> FALSE, made |-> 0]

Init ==
    /\ urls = [c \in Code |-> NoRow] /\ nextId = 1
    /\ cache = [c \in Code |-> NoEntry] /\ late = {}
    /\ open = [w \in Worker |-> FALSE]
    /\ pc = [h \in Handler |-> "idle"] /\ loc = [h \in Handler |-> Idle]
    /\ cause = [c \in Code |-> "none"]
    /\ announced = [c \in Code |-> FALSE]
    /\ obs = [h \in Handler |-> Unobserved]

-----------------------------------------------------------------------------
(* Cache coherence, as the actions' observations and the properties see it. *)

Outdated(c, v) == v \notin {NoEntry, urls[c].url}
Stale(c) == Outdated(c, cache[c])

\* h has still to delete the cache entry of c
Due(h, c) == pc[h] \in {"gate", "call"} /\ loc[h].op = "del" /\ loc[h].code = c

\* The handlers in H lose the invalidation they had still to do.
Unreached(H) ==
    [c \in Code |-> IF Stale(c) /\ \E h \in H : Due(h, c)
                    THEN "unreached" ELSE cause[c]]

\* Redis executes a command: an entry is set, or removed (v = NoEntry).
Apply(c, v) ==
    /\ cache' = [cache EXCEPT ![c] = v]
    /\ cause' = [cause EXCEPT ![c] = IF Outdated(c, v) THEN "late" ELSE "none"]

-----------------------------------------------------------------------------
(* Steps shared by the handlers. *)

Goto(h, p, r) == pc' = [pc EXCEPT ![h] = p] /\ loc' = [loc EXCEPT ![h] = r]
Reply(h, a) == Goto(h, "answered", [loc[h] EXCEPT !.answer = a])

\* Begin a request of kind k: r overrides the defaults of its locals.
Begin(h, p, r) ==
    /\ pc[h] = "idle"
    /\ Goto(h, p, r)
    /\ UNCHANGED <<urls, nextId, cache, late, open, cause, announced>>

\* A committed transaction of h makes row the row of code c.
Commit(h, c, row, inserted) ==
    /\ urls' = [urls EXCEPT ![c] = row]
    /\ announced' = [announced EXCEPT ![c] = FALSE]
    /\ obs' = [g \in Handler |->
                 [obs[g] EXCEPT
                    !.seen = IF loc[g].kind = "redirect" /\ loc[g].code = c
                             THEN @ \cup {row.url} ELSE @,
                    !.made = IF g = h THEN @ + inserted ELSE @]]

\* A database error that is not an IntegrityError ends the request: 500.
DbError(h, at) ==
    /\ "db" \in Faults /\ pc[h] = at
    /\ Reply(h, "error")
    /\ UNCHANGED <<urls, nextId, cache, late, open, cause, announced, obs>>

\* Mutant: a commit that was not acknowledged is taken for a collision.
RetryUnheard(h, c, row, inserted) ==
    /\ "db" \in Faults
    /\ Commit(h, c, row, inserted)
    /\ Goto(h, "insert", loc[h])
    /\ UNCHANGED <<cache, late, open, cause>>

\* The commit reached the server, its acknowledgement did not reach h.
CommitUnheard(h, c, row, inserted) ==
    /\ "db" \in Faults
    /\ Commit(h, c, row, inserted)
    /\ Reply(h, "error")
    /\ cause' = [cause EXCEPT ![c] = IF cache[c] \in {NoEntry, row.url}
                                     THEN @ ELSE "unreached"]
    /\ UNCHANGED <<cache, late, open>>

\* The response leaves: the client now knows of the link it created.
Respond(h) ==
    /\ pc[h] = "answered"
    /\ announced' = [c \in Code |->
          announced[c] \/ (/\ loc[h].answer = "created" /\ c = loc[h].code
                           /\ urls[c].id = loc[h].id)]
    /\ Goto(h, "idle", Idle)
    /\ obs' = [obs EXCEPT ![h] = Unobserved]
    /\ UNCHANGED <<urls, nextId, cache, late, open, cause>>

-----------------------------------------------------------------------------
(* create_short_url, behind POST /shorten and POST /account/links. *)

Creating(g) == pc[g] \in {"admit", "insert", "recheck"}
StartCreate(h, u, url) ==
    /\ u = Anonymous => ~AuthRequired
    /\ nextId + Cardinality({g \in Handler : Creating(g)}) <= MaxRows
    /\ Begin(h, "admit", [Idle EXCEPT !.kind = "create", !.user = u,
                                      !.url = url])
    /\ UNCHANGED obs

\* No session where one is needed: 401 before anything is touched.
Unauthorized(h, k) ==
    /\ k = "delete" \/ AuthRequired
    /\ Begin(h, "answered", [Idle EXCEPT !.kind = k,
                                         !.answer = "unauthorized"])
    /\ UNCHANGED obs

\* The rate limiter's decision: go on, or 429 / 503.
Admit(h) ==
    /\ pc[h] = "admit"
    /\ Goto(h, "insert", loc[h]) \/ Reply(h, "refused")
    /\ UNCHANGED <<urls, nextId, cache, late, open, cause, announced, obs>>

\* The row to write and the locals that ask for its code's invalidation.
NewRow(h) == [id |-> nextId, url |-> loc[h].url, owner |-> loc[h].user]
\* Mutant: the entry is written through instead of removed.
WriteThrough(r) == [r EXCEPT !.op = "set"]
Invalidate(r) == [r EXCEPT !.op = "del"]

Insert(h, c) ==
    /\ pc[h] = "insert" /\ ~Exists(c)
    /\ nextId' = nextId + 1
    /\ \/ /\ Commit(h, c, NewRow(h), 1)
          /\ Goto(h, "gate", Invalidate([loc[h] EXCEPT !.code = c,
                                                       !.id = nextId]))
          /\ UNCHANGED <<cache, late, open, cause>>
       \/ CommitUnheard(h, c, NewRow(h), 1)

Collide(h, c) ==
    /\ pc[h] = "insert" /\ Exists(c)
    /\ Goto(h, "recheck", [loc[h] EXCEPT !.code = c, !.tries = @ + 1])
    /\ UNCHANGED <<urls, nextId, cache, late, open, cause, announced, obs>>

\* Mutant: one attempt too many.
OneMore(h) == IF loc[h].tries > MaxAttempts THEN Reply(h, "exhausted")
              ELSE Goto(h, "insert", loc[h])

\* After the rollback: is there a row with this code?  If not, re-raise.
AfterCollision(h) ==
    IF ~Exists(loc[h].code) THEN Reply(h, "error")
    ELSE IF loc[h].tries = MaxAttempts THEN Reply(h, "exhausted")
    ELSE Goto(h, "insert", loc[h])
Recheck(h) ==
    /\ pc[h] = "recheck"
    /\ AfterCollision(h)
    /\ UNCHANGED <<urls, nextId, cache, late, open, cause, announced, obs>>

-----------------------------------------------------------------------------
(* delete_account_link. *)

StartDelete(h, u, c) ==
    /\ Begin(h, "select", [Idle EXCEPT !.kind = "delete", !.user = u,
                                       !.code = c])
    /\ UNCHANGED obs

SelectOwned(h) ==
    /\ pc[h] = "select"
    /\ LET row == urls[loc[h].code] IN
       IF row.id # 0 /\ row.owner = loc[h].user
       THEN Goto(h, "delete", [loc[h] EXCEPT !.id = row.id])
       ELSE Reply(h, "not_owned")
    /\ UNCHANGED <<urls, nextId, cache, late, open, cause, announced, obs>>

\* Mutant: DELETE ... WHERE short_code = c.
TargetByCode(h) == Exists(loc[h].code)
\* DELETE ... WHERE id = n: no row, and no error, if n is gone by now.
Target(h) == urls[loc[h].code].id = loc[h].id
\* Mutant: the handler ends with its commit.
DeleteOnly(h) ==
    /\ pc[h] = "delete"
    /\ Reply(h, "deleted")
    /\ IF Target(h) THEN Commit(h, loc[h].code, NoRow, 0)
                    ELSE UNCHANGED <<urls, announced, obs>>
    /\ UNCHANGED <<nextId, cache, late, open, cause>>

DeleteCommit(h) ==
    /\ pc[h] = "delete"
    /\ \/ /\ Goto(h, "gate", Invalidate(loc[h]))
          /\ IF Target(h) THEN Commit(h, loc[h].code, NoRow, 0)
                          ELSE UNCHANGED <<urls, announced, obs>>
          /\ UNCHANGED <<cache, late, open, cause>>
       \/ Target(h) /\ CommitUnheard(h, loc[h].code, NoRow, 0)
    /\ UNCHANGED nextId

-----------------------------------------------------------------------------
(* redirect. *)

StartRedirect(h, c) ==
    /\ Begin(h, "gate", [Idle EXCEPT !.kind = "redirect", !.code = c])
    /\ obs' = [obs EXCEPT ![h] = [Unobserved EXCEPT !.seen = {urls[c].url},
                                                    !.promised = announced[c]]]

\* The cache had no answer: read the row, then cache what was read.
Query(h) ==
    /\ pc[h] = "query"
    /\ Goto(h, "gate", [loc[h] EXCEPT !.url = urls[loc[h].code].url,
                                      !.op = "set"])
    /\ UNCHANGED <<urls, nextId, cache, late, open, cause, announced, obs>>

-----------------------------------------------------------------------------
(* One use of the cache, the same for its four functions: the circuit is    *)
(* looked at, the command is sent, its outcome is recorded.                 *)

\* Mutant: the negative TTL is not looked at.
PermittedAnyTtl(h) == CacheOn /\ ~open[WorkerOf[h]]

Permitted(h) ==
    /\ CacheOn /\ ~open[WorkerOf[h]]
    /\ loc[h].op = "set" /\ loc[h].url = Missing => NegativeOn

\* What the caller does with the outcome, once the cache function returns.
Outcome(r) ==
    IF r.kind = "create" THEN "created"
    ELSE IF r.kind = "delete" THEN "deleted"
    ELSE IF r.url = Missing THEN "missing" ELSE "found"
\* Mutant: a cache miss is taken for a link that does not exist.
ReturnNoFallback(h, r) ==
    IF r.op = "get" /\ r.url = NoEntry THEN Goto(h, "answered",
        [r EXCEPT !.url = Missing, !.answer = "missing"])
    ELSE Goto(h, "answered", [r EXCEPT !.answer = Outcome(r)])
Return(h, r) ==
    IF r.op = "get" /\ r.url = NoEntry THEN Goto(h, "query", r)
    ELSE Goto(h, "answered", [r EXCEPT !.answer = Outcome(r)])

Skip(h) ==
    /\ pc[h] = "gate" /\ ~Permitted(h)
    /\ Return(h, loc[h])
    /\ cause' = Unreached({h})
    /\ UNCHANGED <<urls, nextId, cache, late, open, announced, obs>>

Enter(h) ==
    /\ pc[h] = "gate" /\ Permitted(h)
    /\ Goto(h, "call", loc[h])
    /\ UNCHANGED <<urls, nextId, cache, late, open, cause, announced, obs>>

\* GET, SET with an expiry, or DEL, answered by Redis.
Call(h) ==
    /\ pc[h] = "call"
    /\ LET r == loc[h] IN
       IF r.op = "get"
       THEN /\ Goto(h, "record", [r EXCEPT !.url = cache[r.code]])
            /\ obs' = [obs EXCEPT ![h].doubt = cause[r.code] # "none"
                                     \/ \E g \in Handler : Due(g, r.code)]
            /\ UNCHANGED <<cache, cause>>
       ELSE /\ Goto(h, "record", r)
            /\ Apply(r.code, IF r.op = "set" THEN r.url ELSE NoEntry)
            /\ UNCHANGED obs
    /\ UNCHANGED <<urls, nextId, late, open, announced>>

\* The commands of H may have reached Redis, to be executed at any time.
Sent(H) ==
    {[code |-> loc[h].code,
      val |-> IF loc[h].op = "set" THEN loc[h].url ELSE NoEntry] :
     h \in {g \in H : pc[g] = "call" /\ loc[g].op # "get"}}
Abandon(H) ==
    /\ \E S \in SUBSET Sent(H) : /\ late' = late \cup S
                                 /\ Cardinality(late') <= MaxLate
    /\ cause' = Unreached(H)

\* A connection error, or no reply within the socket timeout.
LostCall(h) ==
    /\ "redis" \in Faults /\ pc[h] = "call"
    /\ Abandon({h})
    /\ Goto(h, "record", [loc[h] EXCEPT !.ok = FALSE])
    /\ UNCHANGED <<urls, nextId, cache, open, announced, obs>>

\* Mutant: a cache miss is recorded like a failure.
RecordMiss(h) ==
    /\ pc[h] = "record"
    /\ open' = [open EXCEPT ![WorkerOf[h]] =
                   ~loc[h].ok \/ (loc[h].op = "get" /\ loc[h].url = NoEntry)]
    /\ Return(h, [loc[h] EXCEPT !.ok = TRUE])
    /\ UNCHANGED <<urls, nextId, cache, late, cause, announced, obs>>
Record(h) ==
    /\ pc[h] = "record"
    /\ open' = [open EXCEPT ![WorkerOf[h]] = ~loc[h].ok]
    /\ Return(h, [loc[h] EXCEPT !.ok = TRUE])
    /\ UNCHANGED <<urls, nextId, cache, late, cause, announced, obs>>

-----------------------------------------------------------------------------
(* What happens around the handlers. *)

\* Mutant: positive entries are written without ex=.
ExpireNegative(c) ==
    /\ cache[c] = Missing
    /\ Apply(c, NoEntry)
    /\ UNCHANGED <<urls, nextId, late, open, pc, loc, announced, obs>>

\* An entry reaches its TTL, or Redis evicts it.
Expire(c) ==
    /\ cache[c] # NoEntry
    /\ Apply(c, NoEntry)
    /\ UNCHANGED <<urls, nextId, late, open, pc, loc, announced, obs>>

Land(e) ==
    /\ late' = late \ {e}
    /\ Apply(e.code, e.val)
    /\ UNCHANGED <<urls, nextId, open, pc, loc, announced, obs>>

\* The cooldown has passed, or a readiness probe has reset the circuit.
CircuitCloses(w) ==
    /\ open[w]
    /\ open' = [open EXCEPT ![w] = FALSE]
    /\ UNCHANGED <<urls, nextId, cache, late, pc, loc, cause, announced, obs>>

\* A worker dies and is started again: its requests end without an answer.
Crash(w) ==
    LET H == {h \in Handler : WorkerOf[h] = w} IN
    /\ "crash" \in Faults
    /\ Abandon(H)
    /\ open' = [open EXCEPT ![w] = FALSE]
    /\ pc' = [h \in Handler |-> IF h \in H THEN "idle" ELSE pc[h]]
    /\ loc' = [h \in Handler |-> IF h \in H THEN Idle ELSE loc[h]]
    /\ obs' = [h \in Handler |-> IF h \in H THEN Unobserved ELSE obs[h]]
    /\ UNCHANGED <<urls, nextId, cache, announced>>

Start(h) ==
    \/ \E u \in User \cup {Anonymous}, url \in Url : StartCreate(h, u, url)
    \/ \E k \in {"create", "delete"} : Unauthorized(h, k)
    \/ \E u \in User, c \in Code : StartDelete(h, u, c)
    \/ \E c \in Code : StartRedirect(h, c)
Continue(h) ==
    \/ Admit(h)
    \/ \E c \in Code : Insert(h, c) \/ Collide(h, c)
    \/ Recheck(h) \/ SelectOwned(h) \/ DeleteCommit(h) \/ Query(h)
    \/ \E at \in {"insert", "recheck", "select", "delete", "query"} :
          DbError(h, at)
    \/ Skip(h) \/ Enter(h) \/ Call(h) \/ LostCall(h) \/ Record(h)
    \/ Respond(h)
Next ==
    \/ \E h \in Handler : Start(h) \/ Continue(h)
    \/ \E c \in Code : Expire(c)
    \/ \E e \in late : Land(e)
    \/ \E w \in Worker : CircuitCloses(w) \/ Crash(w)

Spec == Init /\ [][Next]_vars

\* Threads are scheduled, every call they make returns or times out, and
\* every cache entry is written with an expiry.
Fairness == /\ \A h \in Handler : WF_vars(Continue(h))
            /\ \A c \in Code : WF_vars(Expire(c))
FairSpec == Spec /\ Fairness
-----------------------------------------------------------------------------
(* Properties. *)

\* Every variable ranges over the values its code can give it.
TypeOK ==
    /\ urls \in [Code -> Row] /\ nextId \in Nat \ {0}
    /\ cache \in [Code -> Url \cup {Missing, NoEntry}]
    /\ late \subseteq [code : Code, val : Url \cup {Missing, NoEntry}]
    /\ open \in [Worker -> BOOLEAN]
    /\ pc \in [Handler -> Step] /\ loc \in [Handler -> Local]
    /\ cause \in [Code -> {"none", "late", "unreached"}]
    /\ announced \in [Code -> BOOLEAN]
    /\ obs \in [Handler -> [seen : SUBSET (Url \cup {Missing}),
                            doubt : BOOLEAN, promised : BOOLEAN, made : Nat]]

\* A cache entry that contradicts the table is about to be invalidated, or
\* it was written by a fill whose database read was overtaken ("late"), or
\* its invalidation was skipped, lost or cut off by a crash ("unreached"):
\* no path of the code changes a row and forgets the cache.
StaleHasCause ==
    \A c \in Code :
        Stale(c) => cause[c] # "none" \/ \E h \in Handler : Due(h, c)

\* While Redis and the database answer and no worker dies, no invalidation is
\* skipped or lost: no outcome of a call or of a race opens a circuit.
InvalidationsReach == Faults = {} => \A c \in Code : cause[c] # "unreached"

\* A redirect answers with something the table really said of its code at
\* some moment of the request, unless the cache was already known to be wrong
\* (as above) when it was read: failures of Redis fall back on the table.
LookupsAreLinearizable ==
    \A h \in Handler :
        loc[h].answer \in {"found", "missing"}
            => loc[h].url \in obs[h].seen \/ obs[h].doubt

\* A link whose creation was answered before a redirect began, and which is
\* still there, is not answered 404.
AnnouncedLinkResolves ==
    \A h \in Handler :
        loc[h].answer = "missing" /\ obs[h].promised => Missing \in obs[h].seen

\* create_short_url leaves one row behind if it returns, none if it gives up
\* or raises, and at most one if the database failed; it gives up after
\* exactly MaxAttempts collisions.
AllocationIsExact ==
    \A h \in Handler :
        LET a == loc[h].answer IN
        loc[h].kind = "create" /\ pc[h] = "answered" =>
            /\ a = "created" => obs[h].made = 1
            /\ a # "created" =>
                 obs[h].made = 0 \/ (a = "error" /\ obs[h].made = 1 /\ "db" \in Faults)
            /\ a = "exhausted" => loc[h].tries = MaxAttempts

\* create_short_url tries again after a collision: a short code that was taken
\* is never reported as an error.
CollisionsAreRetried ==
    [][\A h \in Handler :
          pc[h] = "recheck" /\ pc'[h] = "answered" => loc'[h].answer # "error"]_vars

\* A code whose row is gone for good stops redirecting.
DeletedLinkGoesDark ==
    \A c \in Code : <>[](~Exists(c)) => <>[](cache[c] \notin Url)
=============================================================================
