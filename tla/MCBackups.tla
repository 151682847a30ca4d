----------------------------- MODULE MCBackups -----------------------------
(***************************************************************************)
(* A small instance of Backups: two tables, one of them referring to the   *)
(* other, and a calendar of short weeks.                                   *)
(***************************************************************************)
EXTENDS Backups

CONSTANTS users, tokens

MCTables == {users, tokens}
MCReferences == {<<tokens, users>>}

\* A Sunday every other day, kept for two such weeks.
MCRules == {[days |-> {0, 2, 4}, span |-> 4, count |-> 2]}
=============================================================================
