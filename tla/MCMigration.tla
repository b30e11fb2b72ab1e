------------------------------ MODULE MCMigration ------------------------------
(* An instance of Migration for TLC. *)
EXTENDS Migration

\* The first candidates of all rows are one code, which the service may draw
\* too; the others are distinct.
MCCode == {<<0, 0>>, <<0, 1>>}
MCLegacyCode(k, n) == IF n = 0 THEN <<0, 0>> ELSE <<k, n>>
MCMin == -1
MCLegacy == {-1, 1}
===============================================================================
