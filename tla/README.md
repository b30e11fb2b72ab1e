# A TLA+ verification of SnapLink

SnapLink (the repository in `src/`) is a URL shortener: FastAPI handlers on several
uvicorn workers, PostgreSQL for links and accounts, one Redis for a cache of lookups
and one for rate limits. This directory holds TLA+ models of its stateful parts, TLC
configurations that check them on small instances, and TLAPS proofs for instances of
any size. Line numbers below refer to the files under `src/`.

1. [Inventory](#1-inventory)
2. [Modules](#2-modules)
3. [Runs](#3-runs)
4. [Theorems](#4-theorems)
5. [Findings](#5-findings)
6. [Limits of the models](#6-limits-of-the-models)
7. [Not modelled](#7-not-modelled)

## 1. Inventory

### Components

| component | state | operations | interacts with |
|---|---|---|---|
| short links (`app/services/url_shortner.py`, `router.py`, `api/auth.py` 455-529) | table `urls`: unique `short_code`, destination, owner | create (two endpoints), look up and redirect, delete | database, URL cache, rate limiter, sessions |
| URL cache (`app/services/cache.py`) | Redis strings with an expiry: a destination, or the marker of a missing link | get, set, set missing, delete | Redis, circuit breaker |
| circuit breakers (`cache.py` 21-73, `rate_limiter.py` 19-118) | per process and per Redis: a deadline and the time of the last warning, under a lock | ask, record success, record failure, reset | monotonic clock, readiness, shutdown |
| rate limiter (`app/services/rate_limiter.py`) | Redis counters with an expiry | one Lua script: count, repair the expiry, decide | Redis, its circuit; the handlers answer 429 or 503 |
| accounts and sessions (`api/auth.py` 288-385, 438-452, `services/auth.py`) | table `users`: unique `email` and `username`; a signed cookie per client | register, sign in, sign out, read and change the profile, change the password | database, rate limiter, session middleware |
| profile photos (`api/auth.py` 388-435) | `users.avatar_filename`, and files in a directory | upload, remove | database, file system, event loop |
| link dashboard (`api/auth.py` 474-514, 532-547) | none | page of links, overview | database |
| health (`api/health.py`) | none of its own | liveness, readiness | database, both Redis servers; resets the circuits |
| database sessions and pool (`utils/db_connection.py`) | up to `pool_size + max_overflow` connections | one session per request | worker threads |
| Redis clients (`utils/redis_client.py`) | one client per server and process | build, probe, drop | both Redis servers |
| configuration (`config.py`) | settings, read once | read and validate | all |
| observability (`observability.py`) | Prometheus counters | record, expose | every request |
| migrations (`alembic/`) | the schema | upgrade, downgrade; one of them online | database, beside the traffic |
| pages (`static/*.html`) | what the browser shows | fetch and render | the API |

### Interactions

A worker process runs synchronous handlers on a pool of threads and `upload_avatar` on
its event loop. Handlers of all workers share the database and both Redis servers;
those of one worker share its circuits. A handler is a sequence of database statements
(each write with its own commit) and Redis commands, none of them joined in a
transaction across stores. The order that the code chooses is its protocol:

* *link creation*: insert and commit, then delete the cache entry of the code;
* *link deletion*: select by owner, delete and commit, then delete the cache entry;
* *redirect*: read the cache; otherwise read the row and cache what was read;
* *photo upload*: write the new file, commit the row, then remove the old file;
* *accounts*: look for a rival, then write, with the unique index as the arbiter;
* *Redis*: ask the circuit, send the command, record the outcome, each under the lock
  only for a moment.

### What is hard here, and what makes each part correct

* **Links and cache.** A fill can overtake an invalidation; an invalidation can be
  skipped (open circuit), lost or cut off by a crash; a command that timed out at its
  client can still be executed. Correct means: no path of the code itself forgets the
  cache, a redirect answers with something the table said during the request unless the
  cache was already wrong, a code is allocated exactly once or not at all, only the
  owner's request removes a row, and a deleted link stops redirecting in the end.
* **Circuits.** The clock is read before the lock is taken, so failures are recorded out
  of order; a probe resets the circuit some time after it was answered. Correct means:
  Redis is left alone for the cooldown, is tried again after it, and warnings are spaced.
* **Rate limiter.** Replies are lost after the script ran, the script runs after its
  caller gave up, expiries are finer than the seconds that `TTL` reports, a counter can
  lose its expiry. Correct means: a bound on what is let through, no refusal without
  cause, a `Retry-After` that is true, and no client refused for good.
* **Accounts.** Every check is made on rows loaded earlier. Correct means: a 409 is
  true, an answered profile is what was asked for, a stale row is not written back, a
  new password takes effect, and a session or a password change was earned.
* **Photos.** A row and a file change one after the other, in handlers that overlap and
  die. Correct means: a committed row names a file that is there, and no path of the
  code forgets a file.
* **Migration.** The widening of `urls.id` commits statement by statement beside inserts
  and deletions, and can stop between any two. Correct means: rows keep their ids, the
  backfill leaves none out, the service can go on inserting, a rerun completes what an
  interrupted run left, and a downgrade never truncates an id.
* **Pools.** A request can hold a connection and wait for a thread, hold a thread and wait
  for a connection, or wait for a connection on the event loop. Correct means: every
  request comes to its end, no connection is held while a cache is waited for, and links
  that are committed need no further connection to be answered.

## 2. Modules

Handlers are modelled as processes with a program counter `pc` and their local
variables `loc`. A step is what another handler can see or disturb: one database
statement with its commit, one Redis command, one look at or change of the circuit, one
change of a file. What happens between two such steps touches locals only and is merged
into one of them. Variables that no action reads (kept in a declaration of their own
and called observations) record what properties need of the past. Definitions marked as
mutants are broken variants of the definition after them; nothing uses them, and they
serve to show that each property notices such a change.

| module | models | proofs |
|---|---|---|
| `Links` | links, cache and circuit of every worker together | `LinksProofs` |
| `LinkDirectory` | what `Links` promises: a directory without threads and caches | |
| `LinkRefinement` | the mapping by which `Links` implements `LinkDirectory` | `LinkRefinementProofs` |
| `CircuitBreaker` | one circuit in detail: deadline, stamps, warnings | `CircuitBreakerProofs` |
| `CircuitGate` | what a circuit is to its users: open or closed | |
| `RateLimiter` | the script, the decision, and the handlers' answers | `RateLimiterProofs` |
| `Accounts` | the users table and the session cookies | `AccountsProofs` |
| `Avatars` | photo rows and files | `AvatarsProofs` |
| `Migration` | revision b7f9d2c4e681 beside the traffic, its reruns and its downgrade | `MigrationProofs` |
| `UrlTable` | the table as the service knows it, without a migration | |
| `WorkerPools` | threads, event loop and database connections of one worker | `WorkerPoolsProofs` |

`LinkRefinement` extends `Links` and instantiates `LinkDirectory`; `CircuitBreaker`
instantiates `CircuitGate`, and `Migration` `UrlTable`. The components stand by
themselves otherwise, because their states meet only in the ways said below (the circuit
is a gate for `Links` and `RateLimiter`; a Redis command or a commit takes its time in
`WorkerPools`; a migration does not show in `urls`). `MC*.tla` only define instances and
symmetry sets for the configurations.

### Links

`urls` is a function from codes to rows (`NoRow` for none) since `short_code` is unique;
`nextId` is the sequence behind `urls.id`; `cache` maps a code to a destination, to
`Missing` (`_MISSING_VALUE`) or to `NoEntry`; `late` holds the SETs and DELs whose client
timed out and which Redis may still execute; `open` says of every worker whether its
cache circuit is open. `StartCreate`, `Admit`, `Insert`, `Collide`, `Recheck` are
`create_short_url` behind both endpoints; `SelectOwned`, `DeleteCommit` are
`delete_account_link`; `StartRedirect`, `Query` are `redirect`. The four cache functions
have the same shape, so they share `Enter`/`Skip` (`_attempt_allowed` and the TTL that
may be 0), `Call`/`LostCall` (the command), and `Record`. `Expire` covers expiry and
eviction (Redis runs with `volatile-lru`), so that times to live need no clock.
`CircuitCloses` stands for the end of the cooldown and for the reset by readiness (a
recorded success is `Record`); *when* a circuit closes is the subject of
`CircuitBreaker`. `Crash` ends the requests of one worker wherever they are.

The observation `cause[c]` says why the cache may contradict the table: `"late"` when
the last command that Redis executed wrote something outdated, `"unreached"` when an
invalidation was skipped, lost or cut off while the entry was stale. `obs[h].seen` is
what the table said of the code since the request began.

### LinkDirectory and LinkRefinement

`LinkDirectory` is what a client may assume: a map from codes to rows, and requests that
are asked, take effect in one step and are answered. A creation takes a free code
(`Create`), a deletion finds the row it is about and later removes that row only
(`Find`, `Remove`: two statements in the code, and the row may be another one by then), a
lookup answers what the map says (`LookUp`), or, where `Cached`, something it has said
(`said`). A request may be refused without an effect; the answer `"error"` does not say
whether there was one.

`RequestIn` maps a handler to such a request. A creation or deletion counts as done from
the moment it turns to the cache (`Effective`), a lookup from the moment it has a
destination in hand (`Settled`); what it does afterwards to the cache and the circuit is a
stutter of the directory, as are the gate, the command and the recording of its outcome.
`said` is a history variable beside those of `Links`; it is needed because a cache may
answer with a destination that the table has given up. `Cached <- CacheOn`: without the
cache, the same theorem says that lookups are linearizable. With it, how outdated an
answer can be is not bounded by the directory; that it is outdated only for a cause is
`StaleHasCause` and `LookupsAreLinearizable`.

### CircuitBreaker

One circuit of one process. `CallFails` reads the clock, `RecordFailure` takes the lock
later and records that stamp; `Reset` follows `ProbeSucceeds` after a while. Both copies
in the code (`cache.py`, `rate_limiter.py`) have the same logic; the module models the
one and maps to lines of either.

`CircuitGate` forgets the clock: a thread passes while the gate is closed, and the gate
closes by itself (`Cool`) or by whoever had an answer (`Close`), also long after others
have failed; a failure opens it or, when its stamp is too old to matter, leaves it
(`Open`). That is the circuit that `Links` gives a worker: `Enter` is `Pass`, a recorded
success is `Close`, `CircuitCloses` is `Cool` or the reset of a probe. A failure that is
recorded too late to open the circuit is, in `Links`, one that opens it followed at once
by `CircuitCloses`, so that `Links` has every behaviour of the gate.

### RateLimiter

A key stands for an endpoint and a client. Time is counted in ticks, `TicksPerSecond` to
a second, because Redis keeps milliseconds and its `TTL` rounds to the nearest second:
that is where a `Retry-After` of 0 could come from. `Script` is the Lua script, which
Redis runs without interruption; `Eval` is a script whose answer is heard, `EvalLost`
one whose answer is not (it ran, it will not run, or it runs later as `Late`);
`FailFast` is the open circuit; `Unavailable` the decision in both cases; `Enforce` what
the callers answer. `Persist` takes an expiry away, the state that the script's comment
(rate_limiter.py 27-28) says it repairs. `recent` keeps the uses of the quota within the
last window, each with its age and a number that tells it from others of its moment.

### Accounts

`users` is the table by primary key, `cookie` the account that the signed cookie of each
client names (the server keeps no session). A request carries the cookie its client had
when it began, and its answer sets or clears the cookie when it is delivered, which may
be after later answers or never (`Vanish`). `Load` is `get_current_user`; `CheckEmail`,
`CheckUsername` the look-ups; `Write` the flush and commit, in which a UPDATE carries
only the columns whose assigned value differs from the loaded one (the unit of work of
SQLAlchemy): for a name that is a comparison, for a new password always, because its hash
has a new salt (`Changed`); `Collide` the IntegrityError; `Refresh` the row read again for the answer.
`expire_on_commit=False` (db_connection.py 51) is why nothing is read again elsewhere.
The column `password` holds the password that the hash was made of, all that
`verify_password` (`Accepts`) can tell; that two hashes of one password still differ shows
in `Changed`: a change to the password that was loaded is written all the same, over
whatever another change has committed meanwhile (`NewPasswordHolds`).

### Avatars

`avatar` is the column, `disk` the directory, `used` the names that `uuid4` has given.
After its awaits `upload_avatar` does not leave the event loop, so `Write` waits until no
other upload of the worker is between `Write` and its end; `delete_avatar` and the
loading of the user run on threads and interleave freely. `leaked` and `doubtful` are
observations: files that the request in charge did not remove (overtaken, failed, dead),
and files whose commit or refresh raised although the row was committed.

### Migration

Rows are named by the id they were inserted with, so that "the row keeps its id" can be
said. `open` are the rows of transactions that have not ended; `schema` holds the columns,
constraints, trigger and index that the upgrade creates and drops; `at` is the statement
that alembic executes next. Each action is a statement of `_upgrade_postgresql` with its
commit, in the order of the source: `AddCodeCheck`, `AddColumn`, `DropTrigger`,
`CreateTrigger`, the backfill of missing codes (`SelectNulls`, `TryCandidate`,
`AssignCode`), the backfill of ids (`SelectIds`, `UpdateIds`: the rows that the common
table expression saw, and those of them that are still there), `AddIdCheck`, the
validations, `PrepareIndex`/`BuildIndex` (built beside the traffic, invalid until it is
done), and `Swap`. A statement that locks the table waits for open transactions
(`Ddl`); `Stop` is its lock timeout, a lost connection or a signal, at any step, and
`Start` a rerun on whatever was left. `Guard` and `Narrow` are the downgrade, whose guard
looks before the table is locked and whose cast refuses what does not fit. The traffic
inserts (through the trigger when there is one), commits, rolls back and deletes.
`emptied` and `rerun` are observations.

`UrlTable` is the table that the service believes it has: `Visible` maps a row to the
columns that the service selects, so that the shadow column, the schema and the position
of alembic disappear, and a statement of the migration has to be a stutter, or a `GiveCode`.

### WorkerPools

The code decides which part of a request runs where: dependencies and synchronous
handlers in a thread of the limiter, `upload_avatar` on the event loop. `Steps` writes
down, for each endpoint, the sequence of what its parts need: a thread, a statement
(`"connect"`: the session takes a connection if it holds none), a commit or rollback
(which gives it back), a Redis command. `redirect` rolls back before it fills the cache
(router.py 145); a creation commits before it invalidates, and `expire_on_commit=False`
(db_connection.py 51) saves it from reading the row again; `register`, `update_profile`
and `upload_avatar` refresh after the commit and connect once more. `Close` is the end
of `get_db`, in a thread outside the limiter, so that it is never blocked by it. `TimeOut`
is `pool_timeout`. `shorten` depends on `get_optional_user`, which asks the database only
when the cookie has an account (`shorten_signed_out` is the other case); a photo that
multipart parsing rolled over to a file is read and closed in threads before the rest of
`upload_avatar` (`upload_photo_file`). Left out of `Steps`: turns of a thread that hold
nothing yet (entering `get_db`, reading the body), a collision of codes, which connects
once more before the commit, signed-in reads, which do what `delete_avatar` does up to
its early return, and sign-out, which is a turn of a thread like `readiness`. `Asks` bounds
which kinds each request of an instance can be of; the theorems are for any `Asks`, and so
for every kind everywhere.

## 3. Runs

| run | instance | what it shows |
|---|---|---|
| `links_races` | one code, three threads of one worker, no faults, two rows, negative caching on | `ImplementsDirectory`, `StaleHasCause`, `InvalidationsReach`, `LookupsAreLinearizable` over all interleavings of three requests |
| `links_faults` | one code, two workers of one thread each; Redis, database and crash faults; sign-in required; negative caching off; fairness | `TypeOK`, `StaleHasCause`, `LookupsAreLinearizable`, `AllocationIsExact`, `AnnouncedLinkResolves` under every failure, and `DeletedLinkGoesDark` |
| `links_negative` | one code, two threads, negative caching on | finding 1 |
| `links_collision` | one code, two threads | finding 2 |
| `circuit` | three threads, cooldown 2, interval 3, clock to 5, one reset | `CooldownBounded`, `WarningsSpaced`, `NoAttemptDuringCooldown`, `ImplementsGate` |
| `limiter` | one key, two requests, limit 2, window of one second in four ticks, fail-closed, all faults | `TypeOK`, `SlidingBound`, `ThrottledOnlyWhenBusy`, `RetryAfterIsHonest`, `ScriptLeavesExpiry`, and that a throttle ends (`ThrottleEnds`) |
| `avatars` | one account, three files, two requests on one worker and one on another, all faults | `PhotoIsThere`, `OrphansHaveCause` |
| `avatars_refresh` | two accounts, database faults | finding 3 |
| `accounts` | two accounts, two addresses, usernames and passwords, two requests, faults; any table at first | `ConflictIsReal`, `AnsweredProfileIsAsked`, `PasswordWasKnown`, `SessionIsEarned`, `OnlyAskedChanges`, `NewPasswordHolds` |
| `migration` | ids to 4 of which 2 fit an INTEGER, some legacy rows with negative ids or without a code, batches of one row, two open transactions, two stops, one downgrade; fairness | `IdsAreKept`, `NarrowIdsFit`, `BackfillIsComplete`, `FirstRunRefusesNothing`, `ImplementsTable`, `UpgradeCompletes` |
| `migration_rerun` | the same, without fairness | finding 4 |
| `pools` | three requests, one of any of the thirteen kinds beside two of four of them; one thread, one connection; fairness | `TypeOK`, `NoConnectionAtCache`, `CommittedLinksAreAnswered`, `SomeoneCanGoOn`, `EveryRequestEnds` |

### Why the bounds are enough

* *Links.* The interesting patterns have at most three parties (a fill, a creation, a
  deletion of one code), so three threads; a code must be deleted and used again, so two
  rows (`MaxRows`). Codes meet only in the choice of a free one; the proofs cover any
  number of them. One command under way without a client (`MaxLate`) is enough to be
  executed after a later one. Two attempts show both a retry and the end of retries. The
  theorems about `Links` need none of these bounds.
* *Circuit.* Three threads give two failures recorded in the wrong order while a third
  attempts; the clock runs past a cooldown and an interval that begins at a late stamp.
  The clock stops at `MaxTime`, where all threads may be waiting for the end of a
  cooldown: hence `CHECK_DEADLOCK FALSE`.
* *Limiter.* A limit of 2 makes `Limit` and `2 * Limit` different from off-by-one
  neighbours; four ticks to a second make remaining times that round down to 0, up, and
  to a whole second; keys do not interact, so one is enough. Counters are capped one past
  the limit, since the script tells no more apart (its `remaining` is 0 there).
* *Accounts.* Two requests show every race of two handlers. The initial table is any
  table, so longer histories add nothing but sessions. One display name is enough for
  the races, which are about the other columns; that a name is one column among several
  is in `OnlyAskedChanges`.
* *Avatars.* Three requests give an upload overtaken by an upload and a removal; each
  uses at most one file name.
* *Migration.* A batch of one row makes every backfill take several rounds, between which
  rows come and go; two open transactions let one end before and one after the trigger
  exists; two stops interrupt a rerun as well; ids run past the INTEGER range, and legacy
  ids below zero, so that both of its ends are met. Traffic stops when the ids are used
  up (`MaxId`), hence `CHECK_DEADLOCK FALSE`; before that it never has to.
* *Pools.* One thread and one connection are the smallest pools in which the holder of
  each can wait for the other; with three requests one holds the connection, one the
  thread and one the event loop. One request is of any kind; the two beside it create a link
  while signed in, look one up, update a profile or upload a photo: these hold a connection
  while they wait for a thread, hold a thread while they wait for a connection, hold one at
  a slow cache, connect again after a commit, and block the event loop. Larger pools fill up in the same way; the theorems about
  `WorkerPools` hold for every size.

### Fairness

* `WF_vars(Continue(h))` for every handler of `Links`: threads are scheduled, database
  calls return or raise, Redis calls end within their socket timeouts (redis_client.py
  12-13). It is weak fairness of the handler as a whole, not of the branch that succeeds:
  whether a code collides or a command is lost stays free. New requests are not assumed.
* `WF_vars(Expire(c))`: every SET carries `ex=` (cache.py 108-112, 126-130).
* `WF_vars(Tick)` in `RateLimiter`: time passes. That clients send requests or stop is
  not assumed, and so the quota of a client that never stops comes back too.
* `Migration`: `WF_vars(Upgrade)`: alembic executes its next statement or is run again,
  as the README of the repository tells its operator to (122-124); downgrades end, and
  transactions of the traffic end. A statement that needs the lock is continuously
  enabled only while no transaction is open; with `MaxId` bounding the inserts the traffic
  leaves such a gap, as PostgreSQL's lock queue does in reality for a waiter within its
  timeout. `UpgradeCompletes` rests on that.
* `WorkerPools`: `WF_vars(Proceed(r))`, since a wait for a connection ends at `pool_timeout`
  and one for Redis at its socket timeout; `SF_vars(OnLoop(r))`, since the event loop and
  the thread limiter serve those who wait in order of arrival, so that a token which is
  taken and freed again and again comes to everyone. No fairness of `Connect`: the pool
  makes no promise about order, and `EveryRequestEnds` holds all the same.

## 4. Theorems

All are proved by TLAPS for every value of the constants that the named assumptions
allow, most of them by an inductive invariant. TLC checks the property of each on the
instances above as well.

* **`LinksProofs`**: `TypeCorrect` (`Spec => []TypeOK`) and `Coherence`
  (`Spec => []StaleHasCause`). `TypeOK` is not inductive: that a handler at `"delete"`
  has a code to delete is a fact about `pc` and `loc` together, so `Typed` adds
  `LocalsOK`, which ties the locals of every step to it. `StaleHasCause` is inductive
  relative to `Typed`. Its proof sorts the steps into those that leave table, cache and
  pending invalidations alone (`QuietStep`), commits that leave an invalidation due
  (`CommitThenDue`), commits no one heard of, handlers that lose an invalidation
  (`UnreachedCause`) and commands executed by Redis (`ApplyCause`). Assumed: finitely
  many handlers, distinct special values, positive bounds.

  `LookupsAreTrue`, `AllocationsAreExact` and, without negative caching,
  `AnnouncedLinksResolve`: `AInv` adds to `Typed` the exact locals of every step
  (`Shapes`), `StaleHasCause`, and what a handler relies on (`Held`): a lookup's
  destination is among those seen since it began or the cache was in doubt when it was
  read; a creation has made as many rows as its step says; only a lookup is answered with
  a destination. `NoNegative` says that without negative caching no negative entry is in
  the cache, under way or about to be written. Finding 1 shows that this assumption cannot
  be dropped.

  `InvalidationsArrive`: without faults no invalidation fails to reach Redis. Its
  invariant `Healthy` is about the circuits: none is open, no handler is about to record a
  failure, nothing is under way without its client. `CollisionsAreRetriedWithoutDeletions`
  is the other half of finding 2: when the database does not fail and no code ever
  disappears from the table, a collision is never answered by an error. Its hypothesis
  restricts the behaviour, not the constants (`[][Exists(c) => Exists(c)']_vars`); `Met`
  says that a handler that has collided with a code and comes to look for it finds it.
* **`LinkRefinementProofs`**: `Implements` (`HSpec => ImplementsDirectory`): every initial
  state of `Links` maps to one of the directory, and every step to a step or a stutter.
  The invariant `HInv` adds to `Typed` the exact locals of every step (`Shapes` of
  `LinksProofs`, which `RequestIn` depends on: for instance that a deletion at `"delete"`
  has found its row, and that only creations and deletions come to the cache with a DEL)
  and `SaidInv`: whatever the table, a cache entry, a command under way or a handler holds of
  a code is a destination that the code has had. Each step of a handler has a lemma of
  its own that names the step of the directory it is.
* **`CircuitBreakerProofs`**: `CooldownIsBounded`, `WarningsAreSpaced`, `CooldownIsKept`,
  and `CircuitIsAGate` (`Spec => ImplementsGate`).
  The invariant `CircuitInv` bounds every stamp by the clock and the deadline by the
  clock and the cooldown, says that the deadline covers every failure recorded since the
  circuit was last closed, and that the last warning of an epoch is the largest of the
  log: without the last two, a late stamp could undo what was proved of earlier ones. That
  the circuit is a gate rests on `DeadlineOnlyGrows`: a failure never moves the deadline
  back, whatever its stamp.
* **`RateLimiterProofs`**: `CountersCorrect`, `RetryAfterHonest`, `ExpiryIsLeft`,
  `TypeCorrect`, `QuotaIsBounded`, `RefusalsAreEarned`. `LimiterInv` says that a counter
  and its expiry come and go together, and carries what Redis knew at the decision
  (`basis`) to the answer. The arithmetic of rounding is in `SecondsBound` and
  `RetryAfterBound`. The bound of twice the limit needs to know which grants belong to
  which counter: `Bounded` splits the grants of the last window into those of the living
  counter, no more than it says, and older ones, no more than the limit, which are a
  window old by the time it expires (`TickBounded`). `QuotaIsBounded` assumes
  `~FailOpen`. In the other direction, `Used` says that as long as no counter lost its
  expiry, a counter is covered by grants as young as itself; so a refusal has seen that
  many. The counting is done with the theorems about finite cardinalities.
* **`AvatarsProofs`**: `TypeCorrect`, `PhotosAreThere`, `NoFileIsForgotten`, and
  `UploadedPhotosAreServed` for a database that does not fail, the complement of
  finding 3. That a removal never hits a photo in use needs `PhotoInv`: names are given
  once, no two rows name the same file, a file that is not yet committed is in no row, and
  a file about to be removed is named by none, unless its request was told that the commit
  failed.
* **`AccountsProofs`**: `AccountsTypes`, `ConflictsAreReal`, `AnswersAreAsked`,
  `PasswordsWereKnown`, `SessionsAreEarned`, `ChangesAreAsked`, `NewPasswordsHold`.
  `AccountsInv` says of each request, by its step, what it may hold (`StepOK`) and what
  it must have seen (`RequestOK`): an accepted password was the account's when the row
  was loaded, and a loaded row that nobody raced is still the table's. `OthersKept`
  shows once that a step keeps this for every other request, since rows and earnings
  only grow and a change of a row is noted by those about it; each handler's lemma shows
  it for its own. `CollideKeeps` is the heart of `ConflictsAreReal`: the column an index
  refuses is one that was asked for, because unchanged columns were distinct before.
  `WrittenRow` is what an UPDATE makes of the row that is there then, not of the one
  that was loaded; `ChangesAreAsked` and `NewPasswordsHold` follow from it. Assumed:
  `Nothing` is none of the other values.
* **`MigrationProofs`**: `TypeCorrect`, `RowsKeepTheirIds`, `IntegersFit`, `NoneIsLeftOut`,
  `FirstRunIsHarmless`, for any range of ids, size of batches, number of open
  transactions, interruptions and downgrades. `NoneIsLeftOut` (the backfill reaches every
  row) is about a scan that goes upward while rows come and go: the invariant says that
  rows without a shadow id were inserted before the trigger, that none of them is still
  in an open transaction once the trigger is there, and that those left lie beyond the
  last id of the scan. `RowsKeepTheirIds` needs that every shadow id is the row's id and
  that all are filled when the columns are swapped, which the validated NOT NULL
  constraint guarantees even when the backfill was cut short. `MigrationIsInvisible`
  (`Spec => ImplementsTable`) maps every step to one of `UrlTable` or a stutter: the swap
  is one because it replaces every id by itself, and the backfill of codes is a `GiveCode`
  because its rows were committed (`BatchCommitted`) and no later row takes their ids, the
  UPDATE looks again whether the code is missing, and the unique index refuses a code that
  was taken since the look.
* **`WorkerPoolsProofs`**: `TypeCorrect`, `CacheWaitsHoldNothing`, `CommittedIsAnswered`,
  `NoDeadlock`, for any number of requests and pools of any size. What the endpoints have
  in common is found from `Steps` first: a sequence of theirs is put together from those of
  its parts, and facts about neighbouring steps (`Script`: a part ends before the next
  begins; `Releases`: the transaction ends right before the cache is used; `CommitsLast`:
  after the commit of a link nothing connects) are proved for the parts and carried over
  to their concatenation. `PoolInv` then says where a request can be that has a thread, the
  loop or a connection, has committed or was refused a connection. `NoDeadlock` follows:
  whoever is on the loop or holds a thread waits for no other thread and no loop, and a
  wait for a connection ends by `TimeOut`; with the loop free and no thread taken, anyone
  can go on.

Only model-checked is liveness: `DeletedLinkGoesDark`, `ThrottleEnds`, `UpgradeCompletes`
and `EveryRequestEnds` depend on fairness, and so on when an action is enabled, which is
beyond this prover. Every invariant and every action property of a passing run is a
theorem. The properties of the runs that find a violation are not, of course; what holds in
their place is `AnnouncedLinksResolve` (without negative caching),
`CollisionsAreRetriedWithoutDeletions`, `UploadedPhotosAreServed` and `FirstRunIsHarmless`.

## 5. Findings

1. **A new link can answer 404** (`links_negative`). The comment at router.py 107-108
   says the invalidation after a creation clears a negative entry of the code. A redirect
   that read the table before the commit writes its negative entry after that
   invalidation, and the announced link is missing until the negative TTL has passed.
2. **A collision can end in a 500** (`links_collision`). `create_short_url` tells a
   collision from other integrity errors by looking for the colliding row
   (url_shortner.py 37-41); if it was deleted in between, the collision is re-raised.
   Nothing else does this: `CollisionsAreRetriedWithoutDeletions`.
3. **An uploaded photo can disappear** (`avatars_refresh`). `db.refresh(user)` stands in
   the same `try` as `db.commit()` (auth.py 413-420): if only the refresh fails, the
   file of a committed row is removed. Without such a failure it stays
   (`UploadedPhotosAreServed`).
4. **A failed migration can stop the service from creating links** (`migration_rerun`).
   The README of the repository (122-124) says that a migration whose final lock timed out
   "fails safely and can be rerun". By then `id_bigint` has a NOT NULL check. The rerun
   drops the trigger that fills the column, in a commit of its own (revision b7f9d2c4e681,
   line 229), and creates it again in the next statement; if it stops between the two, every
   INSERT is refused, and no migration is running, until a further rerun. The first run is
   harmless (`FirstRunRefusesNothing`), and reruns do complete (`UpgradeCompletes`).

Also met, without a sentence of the repository that says otherwise, or too small for a
run of its own:

* The README of the repository (line 87) describes `SHORT_CODE_MAX_ATTEMPTS` as retries,
  while the code counts attempts, the first included.
* The docstring at cache.py 55 speaks of rate-limited warnings; each readiness probe that
  reaches Redis resets the circuit (health.py 53-56), which also forgets the last warning,
  so with a flapping Redis warnings can follow at the rate of the probes.
  `WarningsSpaced` holds between resets.
* A change of password that was under way when another one committed succeeds with the
  old password and replaces the new one (auth.py 446-452). `PasswordWasKnown` states what
  does hold.
* `register`, `update_profile` and `upload_avatar` refresh the row after the commit: on an
  exhausted pool a committed request is answered by an error. `CommittedLinksAreAnswered`
  shows that links are free of this.
* Signed-in creations and the change of password hold the connection of their user's
  session while the rate limiter asks Redis; `NoConnectionAtCache` is about the cache only.
* The probes are synchronous handlers and need a thread. When every thread waits for a
  connection, liveness and readiness wait too, up to `pool_timeout`.
* The backfill of ids ends at a batch whose UPDATE finds no row. If a whole batch is
  deleted between its SELECT and its UPDATE (one statement, under one snapshot), rows
  beyond it stay unfilled; the validation of the NOT NULL check then fails, and a rerun
  completes. This is the exception in `BackfillIsComplete`.
* The revision runs its last step in the transaction of `env.py`; an `upgrade head` with
  later revisions keeps the exclusive lock on `urls` until these are done. The downgrade is
  refused also when only the sequence has passed 32 bits. The offline branch of
  `_backfill_null_short_codes` for PostgreSQL cannot be reached.

## 6. Limits of the models

* Pure data is abstract: codes, destinations, addresses, names and passwords are members
  of small sets, after the validators. That `generate_code` is uniform, and how URLs are
  formatted or matched by the dashboard's search, is not modelled.
* PostgreSQL is taken at its word: a statement with its commit is atomic, unique indexes
  hold, a commit can succeed without its client hearing of it. Redis executes a command
  or a script atomically; a command whose client timed out is executed once, later, or
  not at all. Redis losing its data is `Expire` for the cache; the rate-limit server
  keeps its data (`appendonly yes`).
* Negative caching and fail-open are constants; the runs use the values that make the
  property in question hard. With `FailOpen` there is no bound on what is let through
  while Redis is away, so `SlidingBound` is stated for fail-closed, as deployed
  (docker-compose.yml, `RATE_LIMIT_FAIL_OPEN: "false"`).
* The session cookie is modelled as set by the handlers that change the session. Its
  `max_age` is `Lapse`.
* `Migration` takes a lock as granted when no transaction is open and all at once; waiting
  in the queue, where PostgreSQL blocks later writers, is not a state of its own.
* `WorkerPools` has the pools of one process; PostgreSQL's own limit of connections, shared
  by the workers, is a setting of the deployment.

## 7. Not modelled

* *Link dashboard* (`account_links`, `account_overview`): two reads that change nothing.
  The total and the page come from two statements and can disagree; the page asks again.
* *Readiness report*: a conjunction of independent reads. What a probe does to a circuit
  is in `CircuitBreaker`, that it needs a thread in `WorkerPools`.
* *Other schema revisions and the SQLite branches*: one transaction of DDL each, without
  traffic beside them.
* *Redis connection pools*: their limit shows as the error of a command, which is modelled.
* *Configuration, observability, assembly of the application*: parsed once, counted but not
  read back, ordered at start; nothing interleaves.
* *Pages*: browser code; late answers are told apart by a request number.
* *Load tests and deployment*: read for the settings in use.
