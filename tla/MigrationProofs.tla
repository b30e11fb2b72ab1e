---------------------------- MODULE MigrationProofs ----------------------------
(***************************************************************************)
(* Theorems about Migration, for any table, any traffic beside it, any     *)
(* size of the batches and any number of attempts and downgrades.          *)
(***************************************************************************)
EXTENDS Migration, FiniteSetTheorems, TLAPS

\* Every row is the one that was inserted, under an id drawn before next.
RowsAreOwn ==
    \A k \in Rows : rows[k].id = k /\ rows[k].shadow \in {Null, k} /\ k < next
SequenceFits == ~schema.wide => next <= IntMax + 1

Unfilled == {k \in Rows : rows[k].shadow = Null}
\* What the checks of the shadow column have established, for rows whose
\* transactions have ended and for the others.
ChecksHold ==
    /\ schema.idCheck = "valid" \/ schema.idNotNull => Unfilled = {}
    /\ NoNullIds => Unfilled \cap open = {}

\* From the statement that created the trigger to the swap.
Triggered == {"nulls", "candidate", "assign", "ids", "update", "idCheck",
              "validCodes", "codesNotNull", "dropCodeCheck", "validIds",
              "idsNotNull", "index", "build", "swap"}
Backfilled == {"idCheck", "validCodes", "codesNotNull", "dropCodeCheck",
               "validIds"}
CheckedIds == {"validCodes", "codesNotNull", "dropCodeCheck", "validIds",
               "idsNotNull", "index", "build", "swap"}
StepsFollow ==
    /\ at \in CheckedIds => NoNullIds
    /\ at = "idsNotNull" => schema.idCheck = "valid"
    /\ at \in {"index", "build", "swap"} => schema.idNotNull
    /\ at \in Triggered => schema.trigger /\ Unfilled \cap open = {}
    /\ at \in Step \ {"idle", "guard", "narrow"} => ~schema.wide

\* The backfill has left no row behind.
NoneBehind ==
    ~emptied =>
        /\ at = "ids" => \A k \in Unfilled : k > last
        /\ at = "update" =>
             /\ \A k \in Unfilled : k > last
             /\ \A k \in Unfilled \ batch : \A j \in batch : j < k
             /\ batch = {} => Unfilled = {}
        /\ at \in Backfilled => Unfilled = {}

\* A table with checks and without a trigger is the work of a second attempt.
RefusalsExplained ==
    /\ NoNullIds => ~schema.wide /\ (rerun \/ at \in CheckedIds)

IInv == /\ TypeOK /\ RowsAreOwn /\ SequenceFits /\ ChecksHold /\ StepsFollow
        /\ NoneBehind /\ RefusalsExplained

-----------------------------------------------------------------------------
(* Type correctness. *)

\* A row and its locals are of their types in the initial states.
LEMMA TypedInit == Init => TypeOK
<1> SUFFICES ASSUME Init PROVE TypeOK
  OBVIOUS
<1> USE MigrationAssumption
<1>1. ASSUME NEW k \in Legacy, NEW c \in Code \cup {Null}
      PROVE [id |-> k, shadow |-> Null, code |-> c] \in Row
  <2>1. k \in Id
    BY DEF Id
  <2> QED BY <2>1 DEF Row, Codes
<1>2. rows \in [Id -> Row \cup {Gone}]
  BY <1>1 DEF Init
<1>3. schema \in Schema
  BY DEF Init, Original, Schema, Check
<1>4. next \in 1 .. MaxId + 1 /\ attempt \in 0 .. Attempts - 1
  BY DEF Init
<1>5. last \in IntMin - 1 .. MaxId /\ stops \in 0 .. MaxStops
      /\ downgrades \in 0 .. MaxDowngrades
  BY DEF Init
<1> QED BY <1>2, <1>3, <1>4, <1>5 DEF Init, TypeOK, Step, Rows

\* The traffic leaves rows in the table and transactions that have rows.
LEMMA TypedTraffic == TypeOK /\ Traffic => TypeOK'
<1> SUFFICES ASSUME TypeOK, Traffic PROVE TypeOK'
  OBVIOUS
<1> USE MigrationAssumption, NullsAssumption
<1>1. CASE \E c \in Code \cup {Null} : Insert(c)
  <2>1. PICK c \in Code \cup {Null} : Insert(c)
    BY <1>1
  <2> DEFINE row == [id |-> next, shadow |-> Sync(next), code |-> c]
  <2>2. next \in Id /\ next' = next + 1 /\ next' \in 1 .. MaxId + 1
    BY <2>1 DEF Insert, TypeOK, Id
  <2>3. row \in Row
    BY <2>2 DEF Row, Sync, Codes
  <2>4. rows' \in [Id -> Row \cup {Gone}] /\ open' \subseteq Rows'
    <3>1. CASE Accepts(row)
      <4>1. rows' = [rows EXCEPT ![next] = row] /\ open' = open \cup {next}
        BY <2>1, <3>1 DEF Insert
      <4> HIDE DEF row
      <4> QED BY <2>2, <2>3, <4>1 DEF TypeOK, Rows, Row
    <3>2. CASE ~Accepts(row)
      BY <2>1, <3>2 DEF Insert, TypeOK, Rows
    <3> QED BY <3>1, <3>2
  <2> QED BY <2>1, <2>2, <2>4 DEF Insert, TypeOK, locals, seen
<1>2. CASE \E k \in open : Commit(k) \/ Rollback(k)
  BY <1>2 DEF Commit, Rollback, TypeOK, Rows, locals, seen
<1>3. CASE \E k \in Committed : Delete(k)
  BY <1>3 DEF Delete, TypeOK, Rows, Committed, locals, seen
<1> QED BY <1>1, <1>2, <1>3 DEF Traffic

\* The statements that look at or change the schema only.
Ddls == \/ AddCodeCheck \/ AddColumn \/ DropTrigger \/ CreateTrigger
        \/ AddIdCheck \/ SetCodesNotNull \/ DropCodeCheck \/ SetIdsNotNull
Validations == ValidateCodes \/ ValidateIds
Indexing == PrepareIndex \/ BuildIndex
Backfills == \/ SelectNulls \/ TryCandidate \/ AssignCode
             \/ SelectIds \/ UpdateIds

\* Statements about the schema keep it in its set.
LEMMA TypedSchema ==
    TypeOK /\ (Start \/ Ddls \/ Validations \/ Indexing \/ Stop) => TypeOK'
<1> SUFFICES ASSUME TypeOK, Start \/ Ddls \/ Validations \/ Indexing \/ Stop
             PROVE TypeOK'
  OBVIOUS
<1> USE DEF TypeOK, Goto, Schema, Check, Step, Rows, table, locals
<1>1. CASE Start
  BY <1>1 DEF Start
<1>2. CASE Ddls
  BY <1>2 DEF Ddls, Ddl, AddCodeCheck, AddColumn, DropTrigger, CreateTrigger,
              AddIdCheck, SetCodesNotNull, DropCodeCheck, SetIdsNotNull
<1>3. CASE Validations
  BY <1>3 DEF Validations, ValidateCodes, ValidateIds, GotoIf
<1>4. CASE Indexing
  BY <1>4 DEF Indexing, PrepareIndex, BuildIndex
<1>5. CASE Stop
  BY <1>5, MigrationAssumption DEF Stop
<1> QED BY <1>1, <1>2, <1>3, <1>4, <1>5

\* The backfills write codes and ids, and their locals are rows of the table.
LEMMA TypedBackfills == TypeOK /\ Backfills => TypeOK'
<1> SUFFICES ASSUME TypeOK, Backfills PROVE TypeOK'
  OBVIOUS
<1> USE MigrationAssumption DEF Goto, Step, table
<1>1. CASE SelectNulls
  <2>1. batch' \subseteq Id
    BY <1>1 DEF SelectNulls, Batches, Committed, Rows
  <2>2. attempt' \in 0 .. Attempts - 1 /\ last' \in IntMin - 1 .. MaxId
    BY <1>1 DEF SelectNulls, FromStart
  <2>3. at' \in Step /\ rerun' \in BOOLEAN
        /\ UNCHANGED <<table, schema, stops, downgrades, emptied>>
    BY <1>1 DEF SelectNulls, TypeOK
  <2> QED BY <2>1, <2>2, <2>3 DEF TypeOK, Rows
<1>2. CASE TryCandidate
  <2>1. attempt' \in 0 .. Attempts - 1
    BY <1>2 DEF TryCandidate, TypeOK
  <2>2. at' \in Step /\ rerun' \in BOOLEAN
        /\ UNCHANGED <<table, schema, batch, last, stops, downgrades, emptied>>
    BY <1>2 DEF TryCandidate, GotoIf, TypeOK
  <2> QED BY <2>1, <2>2 DEF TypeOK, Rows
<1>3. CASE AssignCode
  <2>1. PICK k \in batch :
           rows' = rows \/ /\ rows[k] # Gone
                           /\ rows' = [rows EXCEPT ![k] = Coded(k)]
    BY <1>3 DEF AssignCode
  <2>2. k \in Id /\ Candidate(k) \in Codes
    BY <2>1 DEF TypeOK, Candidate, Codes
  <2>3. rows[k] # Gone => Coded(k) \in Row /\ Coded(k) # Gone
    BY ONLY <2>2, TypeOK, NullsAssumption DEF TypeOK, Row, Coded
  <2>4. rows' \in [Id -> Row \cup {Gone}] /\ Rows' = Rows
    BY <2>1, <2>2, <2>3 DEF TypeOK, Rows
  <2>5. batch' \subseteq Id /\ attempt' \in 0 .. Attempts - 1
    BY <1>3 DEF AssignCode, TypeOK
  <2>6. at' \in Step /\ rerun' \in BOOLEAN
        /\ UNCHANGED <<open, next, schema, last, stops, downgrades, emptied>>
    BY <1>3 DEF AssignCode, TypeOK
  <2> QED BY <2>4, <2>5, <2>6 DEF TypeOK
<1>4. CASE SelectIds
  BY <1>4 DEF SelectIds, Batches, Committed, Rows, TypeOK
<1>5. CASE UpdateIds
  <2> DEFINE filled(k) == [rows[k] EXCEPT !.shadow = rows[k].id]
  <2>1. \A k \in Id : rows[k] # Gone => filled(k) \in Row /\ filled(k) # Gone
    BY NullsAssumption DEF TypeOK, Row
  <2>2. \A k \in Id : \/ rows'[k] = rows[k]
                      \/ rows[k] # Gone /\ rows'[k] = filled(k)
    BY <1>5 DEF UpdateIds
  <2>3. rows' \in [Id -> Row \cup {Gone}] /\ Rows' = Rows
    BY <1>5, <2>1, <2>2 DEF UpdateIds, TypeOK, Rows
  <2> QED BY <1>5, <2>3 DEF UpdateIds, TypeOK, Id
<1> QED BY <1>1, <1>2, <1>3, <1>4, <1>5 DEF Backfills

\* The swap and the downgrade leave rows where there were rows.
LEMMA TypedSwap == TypeOK /\ (Swap \/ Downgrade) => TypeOK'
<1> SUFFICES ASSUME TypeOK, Swap \/ Downgrade PROVE TypeOK'
  OBVIOUS
<1> USE MigrationAssumption
<1>1. CASE Swap
  <2> DEFINE new(k) == [rows[k] EXCEPT !.id = rows[k].shadow, !.shadow = Null]
  <2>1. \A k \in Id : rows[k] # Gone => new(k) \in Row
    BY DEF TypeOK, Row
  <2>2. rows' = [k \in Id |-> IF rows[k] = Gone THEN Gone ELSE new(k)]
    BY <1>1 DEF Swap
  <2>3. rows' \in [Id -> Row \cup {Gone}]
    <3> HIDE DEF new
    <3> QED BY <2>1, <2>2
  <2> QED BY <1>1, <2>3 DEF Swap, TypeOK, Schema, Original, Check, Step,
                            Rows, locals
<1>2. CASE Downgrade
  <2> USE DEF TypeOK, Step, Rows, table, locals, seen
  <2>1. CASE StartDowngrade
    BY <2>1 DEF StartDowngrade
  <2>2. CASE Guard
    BY <2>2 DEF Guard, Goto, GotoIf
  <2>3. CASE Narrow
    BY <2>3 DEF Narrow, Narrowed, Original, Schema, Check
  <2> QED BY <1>2, <2>1, <2>2, <2>3 DEF Downgrade
<1> QED BY <1>1, <1>2

\* Every step keeps the types.
LEMMA TypedNext == TypeOK /\ [Next]_vars => TypeOK'
<1>1. TypeOK /\ UNCHANGED vars => TypeOK'
  BY DEF vars, table, locals, seen, TypeOK, Rows
<1> QED BY <1>1, TypedTraffic, TypedSchema, TypedBackfills, TypedSwap
        DEF Next, Upgrade, Ddls, Validations, Indexing, Backfills

-----------------------------------------------------------------------------
(* The inductive invariant. *)

\* The invariant holds at first.
LEMMA InvInit == Init => IInv
<1> SUFFICES ASSUME Init PROVE IInv
  OBVIOUS
<1>1. RowsAreOwn
  <2> SUFFICES ASSUME NEW k \in Rows
               PROVE rows[k].id = k /\ rows[k].shadow = Null /\ k < next
    BY DEF RowsAreOwn
  <2>1. k \in Id /\ rows[k] # Gone
    BY DEF Rows
  <2>2. PICK j \in Legacy, c \in Code \cup {Null} :
           rows[k] = [id |-> j, shadow |-> Null, code |-> c]
    BY <2>1 DEF Init
  <2> QED BY <2>1, <2>2 DEF Init
<1>2. ~NoNullIds /\ schema.idCheck = "none" /\ at = "idle" /\ ~schema.wide
      /\ ~schema.idNotNull
  BY DEF Init, NoNullIds, Original
<1>3. SequenceFits
  BY MigrationAssumption DEF Init, SequenceFits
<1> QED BY <1>1, <1>2, <1>3, TypedInit
        DEF IInv, ChecksHold, StepsFollow, NoneBehind, RefusalsExplained,
            Triggered, CheckedIds, Backfilled

\* Inserts come filled while there is a trigger, and are refused unfilled
\* while there is a check; commits, rollbacks and deletions fill nothing and
\* empty nothing.
LEMMA InvTraffic == IInv /\ Traffic => IInv'
<1> SUFFICES ASSUME IInv, Traffic PROVE IInv'
  OBVIOUS
<1>1. TypeOK'
  BY TypedTraffic DEF IInv
<1>2. CASE \E c \in Code \cup {Null} : Insert(c)
  <2>1. PICK c \in Code \cup {Null} : Insert(c)
    BY <1>2
  <2> DEFINE row == [id |-> next, shadow |-> Sync(next), code |-> c]
  <2>2. /\ next \in Id /\ next' = next + 1 /\ next \in Int
        /\ ~schema.wide => next <= IntMax
    BY <2>1, MigrationAssumption DEF Insert, IInv, TypeOK, Id
  <2>3. \/ Accepts(row) /\ rows' = [rows EXCEPT ![next] = row]
                        /\ open' = open \cup {next}
        \/ UNCHANGED <<rows, open>>
    BY <2>1 DEF Insert
  <2>4. UNCHANGED <<schema, at, locals, stops, downgrades, seen>>
    BY <2>1 DEF Insert
  <2>5. /\ row.id = next /\ row.shadow \in {Null, next}
        /\ schema.trigger => row.shadow = next
        /\ Accepts(row) /\ NoNullIds => row.shadow # Null
    BY DEF Sync, Accepts
  <2>6. next # Null
    BY <2>2, NullsAssumption
  <2> HIDE DEF row
  <2>7. \A k \in Rows' : \/ k \in Rows /\ rows'[k] = rows[k]
                         \/ /\ k = next /\ rows'[k] = row /\ Accepts(row)
    BY <2>2, <2>3 DEF Rows, IInv, TypeOK
  <2>8. \A k \in open' :
        k \in open \/ (k = next /\ rows'[k] = row /\ Accepts(row))
    BY <2>2, <2>3 DEF IInv, TypeOK
  <2>9. Unfilled' \subseteq Unfilled \cup {next}
        /\ (schema.trigger \/ NoNullIds => Unfilled' \subseteq Unfilled)
    <3>1. ASSUME NEW k \in Unfilled'
          PROVE k \in Unfilled \/ (k = next /\ ~schema.trigger /\ ~NoNullIds)
      <4>1. k \in Rows' /\ rows'[k].shadow = Null
        BY DEF Unfilled
      <4> QED BY <2>5, <2>6, <2>7, <4>1 DEF Unfilled
    <3> QED BY <3>1
  <2>10. schema.trigger \/ NoNullIds =>
            Unfilled' \cap open' \subseteq Unfilled \cap open
    BY <2>5, <2>6, <2>7, <2>8, <2>9 DEF Unfilled
  <2>11. RowsAreOwn'
    BY <2>2, <2>5, <2>7 DEF RowsAreOwn, IInv, Rows, Id
  <2>12. SequenceFits'
    BY <2>2, <2>4, MigrationAssumption DEF SequenceFits
  <2>13. ChecksHold' /\ StepsFollow' /\ RefusalsExplained'
    BY <2>4, <2>9, <2>10
    DEF IInv, ChecksHold, StepsFollow, RefusalsExplained, NoNullIds, seen
  <2>14. NoneBehind'
    <3>1. at \in Triggered => Unfilled' \subseteq Unfilled
      BY <2>9 DEF IInv, StepsFollow
    <3> QED BY <2>4, <3>1
            DEF IInv, NoneBehind, Triggered, Backfilled, locals, seen
  <2> QED BY <1>1, <2>11, <2>12, <2>13, <2>14 DEF IInv
<1>3. CASE \/ \E k \in open : Commit(k) \/ Rollback(k)
           \/ \E k \in Committed : Delete(k)
  <2>1. /\ UNCHANGED <<next, schema, at, locals, stops, downgrades, seen>>
        /\ open' \subseteq open
    BY <1>3 DEF Commit, Rollback, Delete
  <2>2. \A k \in Rows' : k \in Rows /\ rows'[k] = rows[k]
    BY <1>3 DEF Commit, Rollback, Delete, Rows, Committed, IInv, TypeOK
  <2>3. Unfilled' \subseteq Unfilled
    BY <2>2 DEF Unfilled
  <2> QED BY <1>1, <2>1, <2>2, <2>3
          DEF IInv, RowsAreOwn, ChecksHold, StepsFollow, NoneBehind,
              RefusalsExplained, SequenceFits, NoNullIds, locals, seen,
              Triggered, Backfilled, CheckedIds
<1> QED BY <1>2, <1>3 DEF Traffic

\* Statements that change the schema leave the rows; those that add a check,
\* or the trigger, find no transaction open.
LEMMA InvSchema ==
    IInv /\ (Start \/ Ddls \/ Validations \/ Indexing \/ Stop) => IInv'
<1> SUFFICES ASSUME IInv, Start \/ Ddls \/ Validations \/ Indexing \/ Stop
             PROVE IInv'
  OBVIOUS
<1>1. TypeOK'
  BY TypedSchema DEF IInv
<1>2. UNCHANGED table /\ UNCHANGED emptied /\ schema'.wide = schema.wide
  BY DEF IInv, TypeOK, Schema, Start, Ddls, Ddl, Validations, Indexing, Stop,
         AddCodeCheck, AddColumn, DropTrigger, CreateTrigger, AddIdCheck,
         SetCodesNotNull, DropCodeCheck, SetIdsNotNull, ValidateCodes,
         ValidateIds, PrepareIndex, BuildIndex
<1>3. UNCHANGED Rows /\ UNCHANGED Unfilled
  BY <1>2 DEF Rows, Unfilled, table
<1>4. RowsAreOwn' /\ SequenceFits'
  BY <1>2, <1>3 DEF IInv, RowsAreOwn, SequenceFits, table
<1> USE DEF ChecksHold, StepsFollow, NoneBehind, RefusalsExplained, NoNullIds,
            Triggered, Backfilled, CheckedIds, Goto, TypeOK, Schema, table
<1>5. CASE Start
  BY <1>1, <1>3, <1>4, <1>5 DEF Start, IInv
<1>6. CASE Ddls
  BY <1>1, <1>3, <1>4, <1>6
  DEF Ddls, Ddl, AddCodeCheck, AddColumn, DropTrigger, CreateTrigger,
      AddIdCheck, SetCodesNotNull, DropCodeCheck, SetIdsNotNull, IInv
<1>7. CASE Validations
  <2>1. CASE ValidateCodes
    BY <1>1, <1>3, <1>4, <2>1 DEF ValidateCodes, GotoIf, IInv
  <2>2. CASE ValidateIds
    <3>1. schema'.idCheck = "valid" /\ schema.idCheck # "valid" => Unfilled = {}
      BY <2>2 DEF ValidateIds, IInv, Unfilled, Committed
    <3> QED BY <1>1, <1>3, <1>4, <2>2, <3>1 DEF ValidateIds, GotoIf, IInv
  <2> QED BY <1>7, <2>1, <2>2 DEF Validations
<1>8. CASE Indexing
  BY <1>1, <1>3, <1>4, <1>8 DEF Indexing, PrepareIndex, BuildIndex, IInv
<1>9. CASE Stop
  BY <1>1, <1>3, <1>4, <1>9 DEF Stop, IInv
<1> QED BY <1>5, <1>6, <1>7, <1>8, <1>9

\* The next batch has the first of the rows it is drawn from, or all of them.
LEMMA BatchIsFirst ==
    ASSUME NEW S, NEW B \in Batches(S), S \subseteq Int
    PROVE  /\ B \subseteq S
           /\ \A j \in B, k \in S \ B : j < k
           /\ B = {} => S = {}
<1>1. B # S => Cardinality(B) = BatchSize
  BY DEF Batches
<1>2. B = {} => Cardinality(B) = 0
  BY FS_EmptySet
<1> QED BY <1>1, <1>2, MigrationAssumption DEF Batches

\* The backfill of codes leaves ids alone; each batch of ids is the first one
\* of the rows still to be filled, and the rows that remain are behind it.
LEMMA InvBackfills == IInv /\ Backfills => IInv'
<1> SUFFICES ASSUME IInv, Backfills PROVE IInv'
  OBVIOUS
<1>1. TypeOK'
  BY TypedBackfills DEF IInv
<1>2. UNCHANGED <<open, next, schema>>
  BY DEF Backfills, SelectNulls, TryCandidate, AssignCode, SelectIds,
         UpdateIds, table
<1>3. SequenceFits'
  BY <1>2 DEF IInv, SequenceFits
<1> USE DEF NoNullIds, Triggered, Backfilled, CheckedIds
<1>4. CASE SelectNulls \/ TryCandidate \/ AssignCode
  <2>1. \A k \in Id : \/ rows'[k] = rows[k]
                      \/ rows[k] # Gone /\ rows'[k] = Coded(k)
    BY <1>4 DEF SelectNulls, TryCandidate, AssignCode, table, IInv, TypeOK
  <2>2. \A k \in Rows : Coded(k).id = rows[k].id
                        /\ Coded(k).shadow = rows[k].shadow
    BY DEF Coded, Rows, IInv, TypeOK, Row
  <2>3. \A k \in Rows' : k \in Rows /\ rows'[k].id = rows[k].id
                         /\ rows'[k].shadow = rows[k].shadow
    BY <2>1, <2>2 DEF Rows
  <2>4. Unfilled' \subseteq Unfilled
    BY <2>3 DEF Unfilled
  <2>5. RowsAreOwn'
    BY <1>2, <2>3 DEF IInv, RowsAreOwn
  <2>6. at \in {"nulls", "candidate", "assign"}
        /\ at' \in {"nulls", "candidate", "assign", "ids", "idle"}
        /\ (at' = "idle" => rerun') /\ (rerun => rerun')
    BY <1>4 DEF SelectNulls, TryCandidate, AssignCode, Goto, GotoIf, IInv,
                StepsFollow, TypeOK, Step
  <2>7. at' = "ids" => last' = IntMin - 1
    BY <1>4 DEF SelectNulls, TryCandidate, AssignCode, Goto, GotoIf, FromStart
  <2>8. NoneBehind'
    <3>1. \A k \in Unfilled' : k > IntMin - 1
      BY MigrationAssumption, <2>4 DEF Unfilled, Rows, Id
    <3> QED BY <2>6, <2>7, <3>1 DEF NoneBehind
  <2>9. ChecksHold' /\ StepsFollow'
    BY <1>2, <2>4, <2>6 DEF IInv, ChecksHold, StepsFollow, Step
  <2>10. RefusalsExplained'
    BY <1>2, <2>6 DEF IInv, RefusalsExplained
  <2> QED BY <1>1, <1>3, <2>5, <2>8, <2>9, <2>10 DEF IInv
<1>5. CASE SelectIds
  <2>1. UNCHANGED Rows /\ UNCHANGED Unfilled /\ RowsAreOwn'
    BY <1>5 DEF SelectIds, table, IInv, RowsAreOwn, Unfilled, Rows
  <2> DEFINE S == {k \in Committed : k > last /\ rows[k].shadow = Null}
  <2>2. ~emptied => S = Unfilled
    <3> SUFFICES ASSUME ~emptied, NEW k \in Unfilled
                 PROVE  k \notin open /\ k > last
      BY DEF Unfilled, Committed
    <3> QED BY <1>5 DEF SelectIds, IInv, NoneBehind, StepsFollow
  <2>3. /\ batch' \subseteq S
        /\ \A j \in batch', k \in S \ batch' : j < k
        /\ batch' = {} => S = {}
    <3>1. S \subseteq Int
      BY MigrationAssumption DEF Committed, Rows, Id
    <3> QED BY <1>5, <3>1, BatchIsFirst DEF SelectIds
  <2>4. NoneBehind'
    BY <1>5, <2>1, <2>2, <2>3 DEF SelectIds, Goto, IInv, NoneBehind
  <2>5. ChecksHold' /\ StepsFollow' /\ RefusalsExplained'
    BY <1>2, <1>5, <2>1
    DEF SelectIds, Goto, IInv, ChecksHold, StepsFollow, RefusalsExplained, Step
  <2> QED BY <1>1, <1>3, <2>1, <2>4, <2>5 DEF IInv
<1>6. CASE UpdateIds
  <2> DEFINE updated == {k \in batch : rows[k] # Gone}
             filled(k) == [rows[k] EXCEPT !.shadow = rows[k].id]
  <2>1. \A k \in Rows : filled(k).id = k /\ filled(k).shadow = k /\ k # Null
    BY NullsAssumption DEF Rows, IInv, RowsAreOwn, TypeOK, Row
  <2>2. \A k \in Id : rows'[k] = IF k \in updated THEN filled(k) ELSE rows[k]
    BY <1>6 DEF UpdateIds
  <2>3. \A k \in Rows' :
           k \in Rows /\ (IF k \in updated THEN rows'[k] = filled(k)
                          ELSE rows'[k] = rows[k])
    BY <2>2 DEF Rows
  <2>4. Unfilled' \subseteq Unfilled \ updated
    <3> SUFFICES ASSUME NEW k \in Rows', rows'[k].shadow = Null
                 PROVE  k \in Rows /\ rows[k].shadow = Null /\ k \notin updated
      BY DEF Unfilled
    <3> HIDE DEF updated, filled
    <3> QED BY <2>1, <2>3
  <2>5. RowsAreOwn'
    BY <1>2, <2>1, <2>3 DEF IInv, RowsAreOwn
  <2>6. updated \subseteq batch /\ Unfilled \cap batch \subseteq updated
    BY DEF Unfilled, Rows
  <2>7. /\ at = "update" /\ batch' = {}
        /\ \/ /\ updated = {} /\ at' = "idCheck"
              /\ emptied' = (emptied \/ batch # {})
           \/ /\ updated # {} /\ at' = "ids" /\ emptied' = emptied
              /\ last' \in updated /\ \A k \in updated : k <= last'
        /\ rerun' = rerun
    BY <1>6 DEF UpdateIds, Goto, IInv, TypeOK
  <2> HIDE DEF updated
  <2>8. NoneBehind'
    BY <2>4, <2>6, <2>7 DEF IInv, NoneBehind
  <2>9. ChecksHold' /\ StepsFollow' /\ RefusalsExplained'
    BY <1>2, <2>4, <2>7
    DEF IInv, ChecksHold, StepsFollow, RefusalsExplained, Step
  <2> QED BY <1>1, <1>3, <2>5, <2>8, <2>9 DEF IInv
<1> QED BY <1>4, <1>5, <1>6 DEF Backfills

\* The swap finds every shadow filled, with the row's own id; a downgrade
\* leaves the rows alone.
LEMMA InvSwap == IInv /\ (Swap \/ Downgrade) => IInv'
<1> SUFFICES ASSUME IInv, Swap \/ Downgrade PROVE IInv'
  OBVIOUS
<1>1. TypeOK'
  BY TypedSwap DEF IInv
<1> USE DEF NoNullIds, Triggered, Backfilled, CheckedIds
<1>2. CASE Swap
  <2> DEFINE new(k) == [rows[k] EXCEPT !.id = rows[k].shadow, !.shadow = Null]
  <2>1. Unfilled = {}
    BY <1>2 DEF Swap, IInv, StepsFollow, ChecksHold
  <2>2. \A k \in Rows : new(k).id = k /\ new(k).shadow = Null /\ k < next
    BY <2>1 DEF Unfilled, Rows, IInv, RowsAreOwn, TypeOK, Row
  <2>3. \A k \in Rows' : k \in Rows /\ rows'[k] = new(k)
    BY <1>2 DEF Swap, Rows
  <2>4. RowsAreOwn'
    <3> HIDE DEF new
    <3> QED BY <1>2, <2>2, <2>3 DEF Swap, RowsAreOwn
  <2>5. schema' = [Original EXCEPT !.wide = TRUE, !.codeNotNull = TRUE]
        /\ at' = "idle"
    BY <1>2 DEF Swap
  <2> QED BY <1>1, <2>4, <2>5
          DEF Original, IInv, SequenceFits, ChecksHold, StepsFollow,
              NoneBehind, RefusalsExplained
<1>3. CASE Downgrade
  <2>1. UNCHANGED table /\ UNCHANGED emptied /\ (rerun => rerun')
        /\ at \in {"idle", "guard", "narrow"} /\ at' \in {"idle", "guard", "narrow"}
        /\ \/ UNCHANGED schema
           \/ schema' = Original /\ next <= IntMax + 1
    BY <1>3 DEF Downgrade, StartDowngrade, Guard, Narrow, Narrowed, Original,
                Goto, GotoIf, table, seen, IInv, TypeOK
  <2>2. UNCHANGED Rows /\ UNCHANGED Unfilled
    BY <2>1 DEF Rows, Unfilled, table
  <2> QED BY <1>1, <2>1, <2>2
          DEF IInv, RowsAreOwn, SequenceFits, ChecksHold, StepsFollow,
              NoneBehind, RefusalsExplained, Original, table
<1> QED BY <1>2, <1>3

\* Every step keeps the invariant.
LEMMA InvNext == IInv /\ [Next]_vars => IInv'
<1>1. IInv /\ UNCHANGED vars => IInv'
  BY DEF vars, table, locals, seen, IInv, TypeOK, RowsAreOwn, SequenceFits,
         ChecksHold, StepsFollow, NoneBehind, RefusalsExplained, Rows,
         Unfilled, NoNullIds
<1> QED BY <1>1, InvTraffic, InvSchema, InvBackfills, InvSwap
        DEF Next, Upgrade, Ddls, Validations, Indexing, Backfills

-----------------------------------------------------------------------------
(* The theorems. *)

\* The invariant holds always.
LEMMA Invariance == Spec => []IInv
BY InvInit, InvNext, PTL DEF Spec

\* The table, the schema and the locals of the upgrade stay in the sets the
\* code draws them from.
THEOREM TypeCorrect == Spec => []TypeOK
<1>1. IInv => TypeOK
  BY DEF IInv
<1> QED BY <1>1, Invariance, PTL

\* No attempt at the upgrade and no downgrade, complete or not, gives a row
\* another id: the swap only happens when every shadow is filled.
THEOREM RowsKeepTheirIds == Spec => []IdsAreKept
<1>1. IInv => IdsAreKept
  BY DEF IInv, RowsAreOwn, IdsAreKept
<1> QED BY <1>1, Invariance, PTL

\* A column of type INTEGER has no larger id and its sequence gives none.
THEOREM IntegersFit == Spec => []NarrowIdsFit
<1>1. IInv => NarrowIdsFit
  <2> SUFFICES ASSUME IInv, ~schema.wide
               PROVE  /\ next <= IntMax + 1
                      /\ \A k \in Rows : rows[k].id <= IntMax
    BY DEF NarrowIdsFit
  <2>1. next <= IntMax + 1 /\ next \in Int
    BY MigrationAssumption DEF IInv, SequenceFits, TypeOK
  <2>2. \A k \in Rows : rows[k].id = k /\ k < next /\ k \in Int
    BY MigrationAssumption DEF IInv, RowsAreOwn, Rows, Id
  <2> QED BY <2>1, <2>2, MigrationAssumption
<1> QED BY <1>1, Invariance, PTL

\* The backfill of ids ends with none left, for every size of its batches and
\* whatever is inserted and deleted beside it.
THEOREM NoneIsLeftOut == Spec => []BackfillIsComplete
<1>1. IInv => BackfillIsComplete
  BY DEF IInv, NoneBehind, BackfillIsComplete, Backfilled, Unfilled
<1> QED BY <1>1, Invariance, PTL

\* On a first attempt, the check of the shadow ids comes with a trigger that
\* fills them.
THEOREM FirstRunIsHarmless == Spec => []FirstRunRefusesNothing
<1>1. IInv => FirstRunRefusesNothing
  BY DEF IInv, StepsFollow, RefusalsExplained, FirstRunRefusesNothing,
         CheckedIds, Triggered
<1> QED BY <1>1, Invariance, PTL

-----------------------------------------------------------------------------
(* The refinement of UrlTable. *)

\* A batch of the backfill of codes has rows that were committed: no row that
\* is inserted later, or not yet committed, ever takes the id of one of them.
BatchCommitted ==
    at \in {"candidate", "assign"} => \A k \in batch : k \notin open /\ k < next

TInv == IInv /\ BatchCommitted

\* No batch is under way at first.
LEMMA TInit == Init => TInv
<1>1. Init => at = "idle"
  BY DEF Init
<1> QED BY <1>1, InvInit DEF TInv, BatchCommitted

\* A batch stays committed: ids are drawn once.
LEMMA TNext == TInv /\ [Next]_vars => TInv'
<1> SUFFICES ASSUME TInv, [Next]_vars PROVE BatchCommitted'
  BY InvNext DEF TInv
<1> USE MigrationAssumption
<1>1. IInv /\ IInv' /\ TypeOK /\ TypeOK'
  BY InvNext DEF TInv, IInv
<1>2. CASE UNCHANGED vars
  BY <1>2 DEF vars, table, locals, TInv, BatchCommitted
<1>3. CASE Traffic
  <2>1. UNCHANGED <<at, batch>> /\ next' >= next /\ next \in Int
    <3>1. next \in Int
      BY <1>1 DEF TypeOK
    <3>2. UNCHANGED <<at, locals>> /\ next' \in {next, next + 1}
      BY <1>3 DEF Traffic, Insert, Commit, Rollback, Delete
    <3> QED BY <3>1, <3>2 DEF locals
  <2>2. \A k \in Id \ {next} : k \in open' => k \in open
    BY <1>3 DEF Traffic, Insert, Commit, Rollback, Delete
  <2>3. batch \subseteq Id /\ next' \in Int
    BY <1>1 DEF TypeOK
  <2> QED BY <2>1, <2>2, <2>3 DEF TInv, BatchCommitted, Id
<1>4. CASE SelectNulls
  <2>1. UNCHANGED <<rows, open, next>> /\ batch' \subseteq Committed
    BY <1>4 DEF SelectNulls, Batches, table
  <2> QED BY <1>1, <2>1 DEF BatchCommitted, Committed, IInv, RowsAreOwn
<1>5. CASE TryCandidate
  BY <1>5 DEF TryCandidate, table, TInv, BatchCommitted
<1>6. CASE AssignCode
  <2>1. at = "assign" /\ UNCHANGED <<open, next>> /\ batch' \subseteq batch
    BY <1>6 DEF AssignCode
  <2> QED BY <2>1 DEF TInv, BatchCommitted
<1>7. CASE \/ Start \/ Ddls \/ Validations \/ Indexing \/ Stop \/ Downgrade
           \/ Swap \/ SelectIds \/ UpdateIds
  <2>1. at' \notin {"candidate", "assign"}
    BY <1>7
    DEF Start, Ddls, Ddl, Validations, Indexing, Stop, Downgrade, Swap,
        SelectIds, UpdateIds, AddCodeCheck, AddColumn, DropTrigger,
        CreateTrigger, AddIdCheck, SetCodesNotNull, DropCodeCheck,
        SetIdsNotNull, ValidateCodes, ValidateIds, PrepareIndex, BuildIndex,
        StartDowngrade, Guard, Narrow, Goto, GotoIf
  <2> QED BY <2>1 DEF BatchCommitted
<1> QED BY <1>2, <1>3, <1>4, <1>5, <1>6, <1>7
        DEF Next, Upgrade, Ddls, Validations, Indexing

\* What the service sees of a row.
LEMMA VisibleRows ==
    ASSUME TypeOK
    PROVE  /\ Table!Present = Rows
           /\ \A k \in Rows : /\ Visible[k].id = rows[k].id
                             /\ Visible[k].code = rows[k].code
<1>1. ASSUME NEW k \in Rows
      PROVE  /\ Visible[k].id = rows[k].id /\ Visible[k].code = rows[k].code
             /\ Visible[k] # Gone
  <2>1. rows[k] \in Row /\ k \in Id
    BY DEF TypeOK, Rows
  <2>2. Visible[k] = [id |-> rows[k].id, code |-> rows[k].code]
    BY <2>1 DEF Visible, Rows
  <2>3. Visible[k] \in [id : Id \cup {Null}, code : Codes \cup {Null}]
    BY <2>1, <2>2 DEF Row
  <2> QED BY <2>2, <2>3, NullsAssumption
<1>2. \A k \in Id \ Rows : Visible[k] = Gone
  BY DEF Visible, Rows
<1> QED BY <1>1, <1>2 DEF Table!Present, Rows

\* A code is free of the rows the service sees when it is free of the table's.
LEMMA FreeCodes ==
    ASSUME TypeOK, NEW c, ~Taken(c)
    PROVE  Table!Free(c)
<1>1. \A k \in Rows : Visible[k].code = rows[k].code
  BY VisibleRows
<1>2. \A k \in Rows : rows[k].code # c
  BY DEF Taken
<1>3. Table!Present = Rows
  BY VisibleRows
<1>4. \A k \in Table!Present : Visible[k].code # c
  BY <1>1, <1>2, <1>3
<1> QED BY <1>4 DEF Table!Free

\* The traffic acts on the table it sees.
LEMMA TrafficStep ==
    ASSUME TInv, Traffic
    PROVE  Table!Next
<1> USE MigrationAssumption, NullsAssumption
<1>1. TypeOK
  BY DEF TInv, IInv
<1>2. ASSUME NEW c \in Code \cup {Null}, Insert(c)
      PROVE  Table!Next
  <2> DEFINE row == [id |-> next, shadow |-> Sync(next), code |-> c]
  <2>1. next \in Id /\ next' = next + 1 /\ (c = Null \/ ~Taken(c))
    BY <1>1, <1>2 DEF Insert, TypeOK, Id
  <2>2. c = Null \/ Table!Free(c)
    BY <1>1, <2>1, FreeCodes
  <2>3. CASE Accepts(row)
    <3>1. rows' = [rows EXCEPT ![next] = row] /\ open' = open \cup {next}
      BY <1>2, <2>3 DEF Insert
    <3>2. row \in Row
      BY <2>1 DEF Row, Sync, Codes
    <3>3. row # Gone /\ row.id = next /\ row.code = c
      BY <3>2 DEF Row
    <3> HIDE DEF row
    <3>4. Visible' = [Visible EXCEPT ![next] = [id |-> next, code |-> c]]
      BY <1>1, <2>1, <3>1, <3>3 DEF Visible, TypeOK
    <3>5. Table!Insert(c)
      BY <1>1, <2>1, <2>2, <3>1, <3>4 DEF Table!Insert
    <3> QED BY <3>5 DEF Table!Next
  <2>4. CASE ~Accepts(row)
    <3>1. UNCHANGED <<rows, open>>
      BY <1>2, <2>4 DEF Insert
    <3>2. UNCHANGED Visible
      BY <3>1 DEF Visible
    <3>3. Table!Insert(c)
      BY <2>1, <2>2, <3>1, <3>2 DEF Table!Insert
    <3> QED BY <3>3 DEF Table!Next
  <2> QED BY <2>3, <2>4
<1>3. ASSUME NEW k \in open, Commit(k)
      PROVE  Table!Next
  <2>1. UNCHANGED <<Visible, next>> /\ open' = open \ {k}
    BY <1>3 DEF Commit, Visible
  <2>2. Table!Commit(k)
    BY <1>1, <2>1 DEF Table!Commit
  <2> QED BY <2>2 DEF Table!Next
<1>4. ASSUME NEW k \in open, Rollback(k)
      PROVE  Table!Next
  <2>1. Visible' = [Visible EXCEPT ![k] = Gone]
    BY <1>1, <1>4 DEF Rollback, Visible, TypeOK, Rows
  <2>2. Table!Rollback(k)
    BY <1>1, <1>4, <2>1 DEF Rollback, Table!Rollback
  <2> QED BY <2>2 DEF Table!Next
<1>5. ASSUME NEW k \in Committed, Delete(k)
      PROVE  Table!Next
  <2>1. Visible' = [Visible EXCEPT ![k] = Gone]
    BY <1>1, <1>5 DEF Delete, Visible, TypeOK, Rows, Committed
  <2>2. Table!Delete(k)
    BY <1>1, <1>5, <2>1 DEF Delete, Table!Delete
  <2>3. k \in Table!Present \ open
    BY <1>1, VisibleRows DEF Committed
  <2> QED BY <2>2, <2>3 DEF Table!Next
<1> QED BY <1>2, <1>3, <1>4, <1>5 DEF Traffic

\* The backfill of codes gives a committed row the code it lacks.
LEMMA AssignStep ==
    ASSUME TInv, AssignCode
    PROVE  Table!Next \/ UNCHANGED <<Visible, open, next>>
<1>1. TypeOK /\ IInv
  BY DEF TInv, IInv
<1>2. PICK k \in batch :
         /\ at = "assign" /\ UNCHANGED <<open, next>>
         /\ \/ rows' = rows
            \/ /\ rows[k] # Gone /\ rows[k].code = Null
               /\ ~Taken(Candidate(k)) /\ rows' = [rows EXCEPT ![k] = Coded(k)]
  BY DEF AssignCode, Assignable
<1>3. CASE rows' = rows
  BY <1>2, <1>3 DEF Visible
<1>4. CASE /\ rows[k] # Gone /\ rows[k].code = Null
           /\ ~Taken(Candidate(k)) /\ rows' = [rows EXCEPT ![k] = Coded(k)]
  <2> DEFINE c == Candidate(k)
  <2>1. k \in Id /\ k \in Rows /\ rows[k] \in Row
    BY <1>1, <1>2, <1>4 DEF TypeOK, Rows
  <2>2. k \notin open /\ rows[k].code = Null /\ rows[k].id = k
    BY <1>1, <1>2, <1>4, <2>1 DEF TInv, BatchCommitted, IInv, RowsAreOwn
  <2>3. c \in Codes
    BY <1>1, <2>1 DEF Candidate, Codes, TypeOK
  <2>4. Table!Free(c)
    BY <1>1, <1>4, FreeCodes
  <2>5. Coded(k).id = k /\ Coded(k).code = c /\ Coded(k) # Gone
    <3>1. Coded(k) \in Row /\ Coded(k).id = k /\ Coded(k).code = c
      BY <2>1, <2>2, <2>3 DEF Coded, Row
    <3> QED BY <3>1, NullsAssumption DEF Row
  <2> HIDE DEF c
  <2>6. Visible' = [Visible EXCEPT ![k] = [id |-> k, code |-> c]]
    BY <1>1, <1>4, <2>1, <2>5 DEF Visible, TypeOK
  <2>7. Visible[k].code = Null
    BY <1>1, <2>1, <2>2, VisibleRows
  <2>8. Table!GiveCode(k, c)
    BY <1>2, <1>4, <2>4, <2>6, <2>7 DEF Table!GiveCode
  <2>9. k \in Table!Present \ open
    BY <1>1, <2>1, <2>2, VisibleRows
  <2> QED BY <2>3, <2>8, <2>9 DEF Table!Next
<1> QED BY <1>2, <1>3, <1>4

\* Every other step of an upgrade or a downgrade leaves the visible columns:
\* the shadow is none of them, and the swap replaces an id by itself.
LEMMA OtherStep ==
    ASSUME TInv,
           \/ Start \/ Ddls \/ Validations \/ Indexing \/ Stop \/ Downgrade
           \/ Swap \/ SelectNulls \/ TryCandidate \/ SelectIds \/ UpdateIds
    PROVE  UNCHANGED <<Visible, open, next>>
<1>1. TypeOK /\ IInv
  BY DEF TInv, IInv
<1>2. CASE \/ Start \/ Ddls \/ Validations \/ Indexing \/ Stop \/ Downgrade
           \/ SelectNulls \/ TryCandidate \/ SelectIds
  <2>1. UNCHANGED <<rows, open, next>>
    BY <1>2
    DEF Start, Ddls, Ddl, Validations, Indexing, Stop, Downgrade,
        SelectNulls, TryCandidate, SelectIds, AddCodeCheck, AddColumn,
        DropTrigger, CreateTrigger, AddIdCheck, SetCodesNotNull,
        DropCodeCheck, SetIdsNotNull, ValidateCodes, ValidateIds,
        PrepareIndex, BuildIndex, StartDowngrade, Guard, Narrow, table
  <2>2. UNCHANGED Visible
    BY <2>1 DEF Visible
  <2> QED BY <2>1, <2>2
<1>3. CASE UpdateIds
  <2>1. ASSUME NEW k \in Id
        PROVE  /\ (rows'[k] = Gone) = (rows[k] = Gone)
               /\ rows[k] # Gone => rows'[k].id = rows[k].id
                                    /\ rows'[k].code = rows[k].code
    <3> DEFINE filled == [rows[k] EXCEPT !.shadow = rows[k].id]
    <3>1. rows'[k] = rows[k] \/ (rows[k] # Gone /\ rows'[k] = filled)
      BY <1>3 DEF UpdateIds
    <3>2. rows[k] # Gone => /\ filled \in Row
                            /\ filled.id = rows[k].id
                            /\ filled.code = rows[k].code
      BY <1>1 DEF TypeOK, Row
    <3>3. filled \in Row => filled # Gone
      BY NullsAssumption DEF Row
    <3> HIDE DEF filled
    <3> QED BY <3>1, <3>2, <3>3
  <2>2. UNCHANGED Visible
    BY <2>1 DEF Visible
  <2>3. UNCHANGED <<open, next>>
    BY <1>3 DEF UpdateIds
  <2> QED BY <2>2, <2>3
<1>4. CASE Swap
  <2>1. Unfilled = {}
    BY <1>1, <1>4 DEF Swap, IInv, StepsFollow, ChecksHold
  <2>2. ASSUME NEW k \in Id
        PROVE  /\ (rows'[k] = Gone) = (rows[k] = Gone)
               /\ rows[k] # Gone => rows'[k].id = rows[k].id
                                    /\ rows'[k].code = rows[k].code
    <3> DEFINE new == [rows[k] EXCEPT !.id = rows[k].shadow, !.shadow = Null]
    <3>1. rows'[k] = IF rows[k] = Gone THEN Gone ELSE new
      BY <1>4 DEF Swap
    <3>2. ASSUME rows[k] # Gone
          PROVE  new \in Row /\ new.id = rows[k].id /\ new.code = rows[k].code
      <4>1. k \in Rows /\ rows[k] \in Row
        BY <1>1, <3>2 DEF Rows, TypeOK
      <4>2. rows[k].id = k /\ rows[k].shadow = k
        BY <1>1, <2>1, <4>1 DEF IInv, RowsAreOwn, Unfilled
      <4> QED BY <4>1, <4>2 DEF Row
    <3>3. new \in Row => new # Gone
      BY NullsAssumption DEF Row
    <3> HIDE DEF new
    <3> QED BY <3>1, <3>2, <3>3
  <2>3. UNCHANGED Visible
    BY <2>2 DEF Visible
  <2>4. UNCHANGED <<open, next>>
    BY <1>4 DEF Swap
  <2> QED BY <2>3, <2>4
<1> QED BY <1>2, <1>3, <1>4

\* Upgrades and downgrades are invisible to the service, wherever they stop and
\* whatever it does beside them: it has the table of UrlTable.
THEOREM MigrationIsInvisible == Spec => ImplementsTable
<1>1. Init => Table!Init
  <2> SUFFICES ASSUME Init PROVE Table!Init
    OBVIOUS
  <2>1. TypeOK /\ RowsAreOwn
    BY InvInit DEF IInv
  <2>2. Table!Present = Rows
    BY <2>1, VisibleRows
  <2>3. \A k \in Rows : /\ Visible[k].id = k /\ k < next
                        /\ Visible[k].code = rows[k].code
    BY <2>1, VisibleRows DEF RowsAreOwn
  <2>4. open = {}
        /\ \A j, k \in Rows : rows[j].code = rows[k].code /\ j # k
                                  => rows[j].code = Null
    BY DEF Init
  <2> QED BY <2>2, <2>3, <2>4 DEF Table!Init
<1>2. TInv /\ [Next]_vars => [Table!Next]_(Table!tableVars)
  <2> SUFFICES ASSUME TInv, [Next]_vars
               PROVE  Table!Next \/ UNCHANGED <<Visible, open, next>>
    BY DEF Table!tableVars
  <2>1. CASE UNCHANGED vars
    BY <2>1 DEF vars, table, Visible
  <2> QED BY <2>1, TrafficStep, AssignStep, OtherStep
          DEF Next, Upgrade, Ddls, Validations, Indexing
<1> QED BY <1>1, <1>2, TInit, TNext, PTL
        DEF Spec, ImplementsTable, Table!Spec
=============================================================================
