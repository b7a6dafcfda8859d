------------------------------ MODULE MCFanout ------------------------------
(* Fanout for TLC: the first two templates of spawn_once. *)
EXTENDS Fanout

Templates == <<"analysis", "implementation">>
=============================================================================
