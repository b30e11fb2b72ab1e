------------------------------- MODULE Migration -------------------------------
(***************************************************************************)
(* Revision b7f9d2c4e681: urls.id grows from 32 to 64 bits while the       *)
(* service goes on inserting and deleting rows.  On PostgreSQL the upgrade *)
(* is a sequence of statements that commit one by one (a shadow column, a  *)
(* trigger that fills it for new rows, backfills in batches, NOT NULL      *)
(* checks, an index built beside the traffic), and one last transaction    *)
(* that swaps the columns.  It can stop anywhere, and is then run again.   *)
(* The downgrade is one transaction, behind a guard.                       *)
(*                                                                         *)
(* Rows are named by the id they were inserted with.  A DDL statement      *)
(* waits for the transactions that have written to the table, up to the    *)
(* lock timeout, and commits at once.                                      *)
(***************************************************************************)
EXTENDS Integers, FiniteSets

CONSTANTS
    IntMin, IntMax,         \* the range of INTEGER
    MaxId,                  \* bound: the largest id drawn from the sequence
    Legacy,                 \* ids of the rows there may be at first
    Code,                   \* codes the service draws
    LegacyCode(_, _),       \* the code for a row without one, per attempt
    Attempts,               \* codes tried for one row
    BatchSize,              \* rows in one batch, of either backfill
    Gone, Null,             \* no row; NULL
    MaxOpen,                \* bound: uncommitted inserts at a time
    MaxStops,               \* bound: runs cut off from outside
    MaxDowngrades           \* bound

Id == IntMin .. MaxId
Codes == Code \cup {LegacyCode(k, n) : k \in Id, n \in 0 .. Attempts - 1}

ASSUME MigrationAssumption ==
    /\ IntMin \in Int /\ IntMax \in Int /\ MaxId \in Int
    /\ IntMin <= 0 /\ 0 < IntMax /\ IntMax <= MaxId
    /\ Legacy \subseteq IntMin .. IntMax
    /\ Attempts \in Nat \ {0} /\ BatchSize \in Nat \ {0}
    /\ MaxOpen \in Nat /\ MaxStops \in Nat /\ MaxDowngrades \in Nat
ASSUME NullsAssumption ==
    /\ Null \notin Id /\ Null \notin Codes
    /\ Gone \notin [id : Id \cup {Null}, shadow : Id \cup {Null},
                    code : Codes \cup {Null}]
    /\ Gone \notin [id : Id \cup {Null}, code : Codes \cup {Null}]

VARIABLES
    rows,       \* the table, rows of open transactions included
    open,       \* rows inserted by transactions that have not ended
    next,       \* what the sequence gives next
    schema,     \* columns, constraints, trigger and index of the table
    at,         \* the statement that alembic executes next
    batch, last, attempt,   \* locals of the two backfills
    stops, downgrades       \* how often each happened

VARIABLES       \* observations, which no action of the code reads
    emptied,    \* a whole batch of ids was deleted under its UPDATE
    rerun       \* an upgrade has stopped before its end

table == <<rows, open, next>>
locals == <<batch, last, attempt>>
seen == <<emptied, rerun>>
vars == <<table, schema, at, locals, stops, downgrades, seen>>

Row == [id : Id \cup {Null}, shadow : Id \cup {Null}, code : Codes \cup {Null}]
Check == {"none", "new", "valid"}       \* "new" is NOT VALID: for new rows
Schema == [wide : BOOLEAN, shadow : BOOLEAN, trigger : BOOLEAN,
           codeCheck : Check, codeNotNull : BOOLEAN,
           idCheck : Check, idNotNull : BOOLEAN,
           index : {"none", "invalid", "valid"}]
Original == [wide |-> FALSE, shadow |-> FALSE, trigger |-> FALSE,
             codeCheck |-> "none", codeNotNull |-> FALSE,
             idCheck |-> "none", idNotNull |-> FALSE, index |-> "none"]
Step == {"idle", "codeCheck", "shadow", "dropTrigger", "trigger",
         "nulls", "candidate", "assign", "ids", "update",
         "idCheck", "validCodes", "codesNotNull", "dropCodeCheck",
         "validIds", "idsNotNull", "index", "build", "swap",
         "guard", "narrow"}

Rows == {k \in Id : rows[k] # Gone}
Committed == Rows \ open
Taken(c) == \E k \in Rows : rows[k].code = c

Init ==
    /\ rows \in [Id -> {Gone} \cup
                       {[id |-> k, shadow |-> Null, code |-> c] :
                            k \in Legacy, c \in Code \cup {Null}}]
    /\ \A k \in Id : rows[k] # Gone => rows[k].id = k
    /\ \A j, k \in Rows : rows[j].code = rows[k].code /\ j # k
                              => rows[j].code = Null
    /\ open = {}
    /\ next \in 1 .. IntMax + 1 /\ \A k \in Legacy : k < next
    /\ schema = Original /\ at = "idle"
    /\ batch = {} /\ last = IntMin - 1 /\ attempt = 0
    /\ stops = 0 /\ downgrades = 0 /\ emptied = FALSE /\ rerun = FALSE

-----------------------------------------------------------------------------
(* The traffic. *)

\* Mutant: the trigger fires on UPDATE only.
SyncUpdates(k) == Null
\* snaplink_sync_url_bigint_id, BEFORE INSERT.
Sync(k) == IF schema.trigger THEN k ELSE Null

NoNullCodes == schema.codeCheck # "none" \/ schema.codeNotNull
NoNullIds == schema.idCheck # "none" \/ schema.idNotNull
Accepts(row) == /\ NoNullCodes => row.code # Null
                /\ NoNullIds => row.shadow # Null

\* An INSERT, not yet committed; one that is refused has used up an id too.
Insert(c) ==
    LET row == [id |-> next, shadow |-> Sync(next), code |-> c] IN
    /\ next <= IF schema.wide THEN MaxId ELSE IntMax
    /\ Cardinality(open) < MaxOpen
    /\ c = Null \/ ~Taken(c)
    /\ next' = next + 1
    /\ IF Accepts(row) THEN /\ rows' = [rows EXCEPT ![next] = row]
                            /\ open' = open \cup {next}
                       ELSE UNCHANGED <<rows, open>>
    /\ UNCHANGED <<schema, at, locals, stops, downgrades, seen>>

Commit(k) ==
    /\ open' = open \ {k}
    /\ UNCHANGED <<rows, next, schema, at, locals, stops, downgrades, seen>>
Rollback(k) ==
    /\ open' = open \ {k} /\ rows' = [rows EXCEPT ![k] = Gone]
    /\ UNCHANGED <<next, schema, at, locals, stops, downgrades, seen>>

Delete(k) ==
    /\ rows' = [rows EXCEPT ![k] = Gone]
    /\ UNCHANGED <<open, next, schema, at, locals, stops, downgrades, seen>>

-----------------------------------------------------------------------------
(* The upgrade, up to the backfills. *)

\* alembic goes on, or gives up with an exception.
Goto(p) == /\ at' = p /\ rerun' = (rerun \/ (p = "idle" /\ ~schema.wide))
           /\ UNCHANGED <<stops, downgrades>>
GotoIf(ok, p) == Goto(IF ok THEN p ELSE "idle")

\* A statement that locks the table, from step p to step q.
Ddl(p, q, s) ==
    /\ at = p /\ open = {}
    /\ schema' = s
    /\ Goto(q)
    /\ UNCHANGED <<table, locals, emptied>>

Start ==
    /\ at = "idle" /\ ~schema.wide
    /\ Goto("codeCheck")
    /\ UNCHANGED <<table, schema, locals, emptied>>

AddCodeCheck == Ddl("codeCheck", "shadow",
    [schema EXCEPT !.codeCheck = IF @ = "none" THEN "new" ELSE @])
\* Mutant: both checks at once.
AddCheckedColumn == Ddl("shadow", "dropTrigger",
    [schema EXCEPT !.shadow = TRUE,
                   !.idCheck = IF @ = "none" THEN "new" ELSE @])
AddColumn == Ddl("shadow", "dropTrigger", [schema EXCEPT !.shadow = TRUE])
DropTrigger == Ddl("dropTrigger", "trigger", [schema EXCEPT !.trigger = FALSE])
CreateTrigger == Ddl("trigger", "nulls", [schema EXCEPT !.trigger = TRUE])

-----------------------------------------------------------------------------
(* The backfills.  Their statements see what is committed, and change what  *)
(* is still there when they come to it.                                     *)

Smallest(k, S) == k \in S /\ \A j \in S : k <= j
\* The first rows of S, at most BatchSize of them.
Batches(S) ==
    {B \in SUBSET S : /\ Cardinality(B) <= BatchSize
                      /\ \A j \in B, k \in S \ B : j < k
                      /\ B # S => Cardinality(B) = BatchSize}

\* Mutant: ids are positive.
FromZero == 0
FromStart == IntMin - 1

\* _backfill_null_short_codes
SelectNulls ==
    LET nulls == {k \in Committed : rows[k].code = Null} IN
    /\ at = "nulls"
    /\ batch' \in Batches(nulls)
    /\ attempt' = 0 /\ last' = FromStart
    /\ Goto(IF nulls = {} THEN "ids" ELSE "candidate")
    /\ UNCHANGED <<table, schema, emptied>>

Candidate(k) == LegacyCode(k, attempt)
Coded(k) == [rows[k] EXCEPT !.code = Candidate(k)]
\* Is the candidate of the next row taken, as far as one can see?
TryCandidate == \E k \in batch :
    /\ at = "candidate" /\ Smallest(k, batch)
    /\ \/ /\ \A j \in Committed : rows[j].code # Candidate(k)
          /\ UNCHANGED attempt /\ Goto("assign")
       \/ /\ \E j \in Committed : rows[j].code = Candidate(k)
          /\ attempt' = IF attempt + 1 < Attempts THEN attempt + 1 ELSE 0
          /\ GotoIf(attempt + 1 < Attempts, "candidate")
    /\ UNCHANGED <<table, schema, batch, last, emptied>>

\* Mutant: the look that was taken at the candidate is trusted.
LookedFree(k) == TRUE
\* The unique index has the last word.
Assignable(k) == ~Taken(Candidate(k))
\* UPDATE ... WHERE id = k AND short_code IS NULL
AssignCode == \E k \in batch :
    /\ at = "assign" /\ Smallest(k, batch)
    /\ \A j \in open : rows[j].code # Candidate(k)
    /\ LET found == rows[k] # Gone /\ rows[k].code = Null IN
       IF found => Assignable(k)
       THEN /\ rows' = IF found THEN [rows EXCEPT ![k] = Coded(k)] ELSE rows
            /\ batch' = batch \ {k} /\ attempt' = 0
            /\ Goto(IF batch' = {} THEN "nulls" ELSE "candidate")
       ELSE Goto("idle") /\ UNCHANGED <<rows, batch, attempt>>
    /\ UNCHANGED <<open, next, schema, last, emptied>>

\* _backfill_bigint_ids: the common table expression, and then its UPDATE.
SelectIds ==
    LET unfilled == {k \in Committed : k > last /\ rows[k].shadow = Null} IN
    /\ at = "ids"
    /\ batch' \in Batches(unfilled)
    /\ Goto("update")
    /\ UNCHANGED <<table, schema, last, attempt, emptied>>
UpdateIds ==
    LET updated == {k \in batch : rows[k] # Gone} IN
    /\ at = "update"
    /\ rows' = [k \in Id |-> IF k \in updated
                             THEN [rows[k] EXCEPT !.shadow = rows[k].id]
                             ELSE rows[k]]
    /\ IF updated = {} THEN Goto("idCheck") /\ UNCHANGED last
       ELSE /\ Goto("ids")
            /\ last' \in updated /\ \A k \in updated : k <= last'
    /\ batch' = {} /\ emptied' = (emptied \/ (updated = {} /\ batch # {}))
    /\ UNCHANGED <<open, next, schema, attempt>>

-----------------------------------------------------------------------------
(* The constraints, the index and the swap. *)

AddIdCheck == Ddl("idCheck", "validCodes",
    [schema EXCEPT !.idCheck = IF @ = "none" THEN "new" ELSE @])

\* VALIDATE CONSTRAINT lets writers go on, and looks at what is committed.
ValidateCodes ==
    LET ok == schema.codeCheck = "valid"
              \/ \A k \in Committed : rows[k].code # Null IN
    /\ at = "validCodes"
    /\ schema' = IF ok THEN [schema EXCEPT !.codeCheck = "valid"] ELSE schema
    /\ GotoIf(ok, "codesNotNull")
    /\ UNCHANGED <<table, locals, emptied>>
SetCodesNotNull == Ddl("codesNotNull", "dropCodeCheck",
    [schema EXCEPT !.codeNotNull = TRUE])
DropCodeCheck == Ddl("dropCodeCheck", "validIds",
    [schema EXCEPT !.codeCheck = "none"])
ValidateIds ==
    LET ok == schema.idCheck = "valid"
              \/ \A k \in Committed : rows[k].shadow # Null IN
    /\ at = "validIds"
    /\ schema' = IF ok THEN [schema EXCEPT !.idCheck = "valid"] ELSE schema
    /\ GotoIf(ok, "idsNotNull")
    /\ UNCHANGED <<table, locals, emptied>>
SetIdsNotNull == Ddl("idsNotNull", "index",
    [schema EXCEPT !.idNotNull = TRUE])

\* Mutant: CREATE ... IF NOT EXISTS.
ReuseIndex ==
    /\ at = "index"
    /\ schema' = IF schema.index = "none"
                 THEN [schema EXCEPT !.index = "invalid"] ELSE schema
    /\ Goto(IF schema.index = "none" THEN "build" ELSE "swap")
    /\ UNCHANGED <<table, locals, emptied>>
\* _prepare_shadow_index: a usable index is kept, another one dropped.  The
\* index is invalid until it has been built beside the traffic.
PrepareIndex ==
    /\ at = "index"
    /\ schema' = IF schema.index = "valid" THEN schema
                 ELSE [schema EXCEPT !.index = "invalid"]
    /\ Goto(IF schema.index = "valid" THEN "swap" ELSE "build")
    /\ UNCHANGED <<table, locals, emptied>>
BuildIndex ==
    /\ at = "build"
    /\ schema' = [schema EXCEPT !.index = "valid"]
    /\ Goto("swap")
    /\ UNCHANGED <<table, locals, emptied>>

\* The last transaction: the shadow column, NOT NULL and with a unique index,
\* becomes the primary key; what was needed on the way is dropped.
Swap ==
    /\ at = "swap" /\ open = {} /\ schema.index = "valid"
    /\ rows' = [k \in Id |-> IF rows[k] = Gone THEN Gone
                             ELSE [rows[k] EXCEPT !.id = rows[k].shadow,
                                                  !.shadow = Null]]
    /\ schema' = [Original EXCEPT !.wide = TRUE, !.codeNotNull = TRUE]
    /\ at' = "idle" /\ rerun' = FALSE /\ emptied' = FALSE
    /\ UNCHANGED <<open, next, locals, stops, downgrades>>

\* A lock timeout, a lost connection, a signal: what is committed stays.
Stop ==
    /\ at # "idle" /\ stops < MaxStops
    /\ stops' = stops + 1
    /\ at' = "idle" /\ rerun' = (rerun \/ ~schema.wide)
    /\ UNCHANGED <<table, schema, locals, downgrades, emptied>>

-----------------------------------------------------------------------------
(* The downgrade. *)

Fits(k) == rows[k].id \in IntMin .. IntMax
StartDowngrade ==
    /\ at = "idle" /\ schema.wide /\ downgrades < MaxDowngrades
    /\ at' = "guard" /\ downgrades' = downgrades + 1
    /\ UNCHANGED <<table, schema, locals, stops, seen>>
\* _guard_postgresql_downgrade looks before the table is locked.
Guard ==
    /\ at = "guard"
    /\ GotoIf(\A k \in Committed : Fits(k), "narrow")
    /\ UNCHANGED <<table, schema, locals, emptied>>

Narrowed == [Original EXCEPT !.wide = FALSE]
\* Mutant: the cast keeps the low bits.
NarrowBits ==
    /\ at = "narrow" /\ open = {}
    /\ schema' = Narrowed
    /\ rows' = [k \in Id |-> IF rows[k] = Gone THEN Gone ELSE
                 [rows[k] EXCEPT !.id = IntMin + ((@ - IntMin) %
                                                  (IntMax - IntMin + 1))]]
    /\ at' = "idle"
    /\ UNCHANGED <<open, next, locals, stops, downgrades, seen>>
\* Mutant: the guard is trusted.
NarrowUnchecked ==
    /\ at = "narrow" /\ open = {}
    /\ schema' = Narrowed
    /\ at' = "idle"
    /\ UNCHANGED <<table, locals, stops, downgrades, seen>>
\* The cast of a larger id, or the type of a sequence that is past it, raises
\* and takes the transaction back.
Narrow ==
    /\ at = "narrow" /\ open = {}
    /\ schema' = IF (\A k \in Rows : Fits(k)) /\ next <= IntMax + 1
                 THEN Narrowed ELSE schema
    /\ at' = "idle"
    /\ UNCHANGED <<table, locals, stops, downgrades, seen>>

-----------------------------------------------------------------------------

Traffic ==
    \/ \E c \in Code \cup {Null} : Insert(c)
    \/ \E k \in open : Commit(k) \/ Rollback(k)
    \/ \E k \in Committed : Delete(k)
Upgrade ==
    \/ Start \/ AddCodeCheck \/ AddColumn \/ DropTrigger \/ CreateTrigger
    \/ SelectNulls \/ TryCandidate \/ AssignCode \/ SelectIds \/ UpdateIds
    \/ AddIdCheck \/ ValidateCodes \/ SetCodesNotNull \/ DropCodeCheck
    \/ ValidateIds \/ SetIdsNotNull \/ PrepareIndex \/ BuildIndex \/ Swap
Downgrade == StartDowngrade \/ Guard \/ Narrow
Next == Traffic \/ Upgrade \/ Stop \/ Downgrade

Spec == Init /\ [][Next]_vars

\* alembic goes on and is run again until it succeeds; transactions end.
Fairness == /\ WF_vars(Upgrade) /\ WF_vars(Guard \/ Narrow)
            /\ WF_vars(\E k \in open : Commit(k) \/ Rollback(k))
FairSpec == Spec /\ Fairness

-----------------------------------------------------------------------------
(* Properties. *)

TypeOK ==
    /\ rows \in [Id -> Row \cup {Gone}] /\ open \subseteq Rows
    /\ next \in 1 .. MaxId + 1
    /\ schema \in Schema /\ at \in Step
    /\ batch \subseteq Id /\ last \in IntMin - 1 .. MaxId
    /\ attempt \in 0 .. Attempts - 1
    /\ stops \in 0 .. MaxStops /\ downgrades \in 0 .. MaxDowngrades
    /\ emptied \in BOOLEAN /\ rerun \in BOOLEAN

\* Upgrades and downgrades leave every row the id it was inserted with,
\* whenever it was inserted and however often they were cut off.
IdsAreKept == \A k \in Rows : rows[k].id = k

\* While the column is an INTEGER, no id and no value of the sequence is
\* beyond it: an id that was inserted after the guard had looked is found
\* before the downgrade commits.
NarrowIdsFit ==
    ~schema.wide => next <= IntMax + 1 /\ \A k \in Rows : rows[k].id <= IntMax

\* The backfill of ids leaves none out, also of the rows inserted and deleted
\* meanwhile, or before the trigger in transactions that ended later; unless
\* all the rows of one batch were deleted under its UPDATE, which ends it.
BackfillIsComplete ==
    /\ at \in {"idCheck", "validCodes", "codesNotNull", "dropCodeCheck",
               "validIds"}
    /\ ~emptied
    => \A k \in Rows : rows[k].shadow # Null

\* An upgrade that is not a second attempt never makes the table refuse the
\* rows that the service inserts.
FirstRunRefusesNothing ==
    NoNullIds /\ ~rerun => schema.trigger

\* An upgrade that failed can be run again, and the service goes on in the
\* meantime: between two attempts the table refuses no rows.
FailsSafely == at = "idle" /\ NoNullIds => schema.trigger

\* Run again until it ends, the upgrade comes to its end, whatever was left
\* by the attempts before: filled and half-filled columns, checks, a trigger
\* or none, an invalid index.
UpgradeCompletes == ~schema.wide ~> schema.wide

\* The rows, in the columns that the service selects.
Visible == [k \in Id |-> IF rows[k] = Gone THEN Gone
                         ELSE [id |-> rows[k].id, code |-> rows[k].code]]

Table == INSTANCE UrlTable
         WITH links <- Visible, pending <- open, Absent <- Gone

\* The service beside upgrades and downgrades, cut off or not, sees nothing
\* but its own table: a step of theirs is none of the table's, or gives a
\* committed row that lacks a code one that no other row has.
ImplementsTable == Table!Spec
=============================================================================
