----------------------------- MODULE MCRunQueue -----------------------------
(* RunQueue for TLC: Postgres behind two scanners, and SQLite behind one. *)
EXTENDS RunQueue

CONSTANTS s1, s2

Installations == {[atomic |-> TRUE, crew |-> {s1, s2}], [atomic |-> FALSE, crew |-> {s1}]}
=============================================================================
