-------------------------------- MODULE UrlTable --------------------------------
(***************************************************************************)
(* What the service knows of the table urls: rows that it inserts, commits *)
(* or rolls back, and deletes.  No column is being replaced, there is no   *)
(* schema and no step of a migration: beside the service's own statements, *)
(* all that ever happens to a row is that it is given a missing code.      *)
(***************************************************************************)
EXTENDS Integers

CONSTANTS
    Id,                 \* ids there can be
    Code,               \* codes the service draws
    Codes,              \* all codes
    Null, Absent        \* no code; no row

VARIABLES
    links,              \* per id, its row as the service selects it
    pending,            \* ids inserted by transactions that have not ended
    next                \* what the sequence gives next

tableVars == <<links, pending, next>>

Present == {k \in Id : links[k] # Absent}
Free(c) == \A k \in Present : links[k].code # c

Init ==
    /\ \A k \in Present : links[k].id = k /\ k < next
    /\ \A j, k \in Present : links[j].code = links[k].code /\ j # k
                                 => links[j].code = Null
    /\ pending = {}

\* A row that is refused has used up its id.
Insert(c) ==
    /\ next \in Id
    /\ c = Null \/ Free(c)
    /\ next' = next + 1
    /\ \/ /\ links' = [links EXCEPT ![next] = [id |-> next, code |-> c]]
          /\ pending' = pending \cup {next}
       \/ UNCHANGED <<links, pending>>

Commit(k) == pending' = pending \ {k} /\ UNCHANGED <<links, next>>
Rollback(k) ==
    /\ pending' = pending \ {k} /\ links' = [links EXCEPT ![k] = Absent]
    /\ UNCHANGED next
Delete(k) ==
    /\ links' = [links EXCEPT ![k] = Absent]
    /\ UNCHANGED <<pending, next>>

\* A committed row without a code is given one that no row has.
GiveCode(k, c) ==
    /\ links[k].code = Null /\ Free(c)
    /\ links' = [links EXCEPT ![k] = [id |-> k, code |-> c]]
    /\ UNCHANGED <<pending, next>>

Next ==
    \/ \E c \in Code \cup {Null} : Insert(c)
    \/ \E k \in pending : Commit(k) \/ Rollback(k)
    \/ \E k \in Present \ pending :
          Delete(k) \/ \E c \in Codes : GiveCode(k, c)

Spec == Init /\ [][Next]_tableVars
=============================================================================
