----------------------------- MODULE MCMigrations -----------------------------
(* Two files of two statements, so that a file can be left half done. *)
EXTENDS Migrations

CONSTANTS p1, p2, p3

MCSize == [v \in Version |-> 2]
===============================================================================
