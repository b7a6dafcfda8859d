----------------------------- MODULE MCAutonomy -----------------------------
(* Autonomy for TLC: workers that race are interchangeable. *)
EXTENDS Autonomy, TLC

WorkerSymmetry == Permutations(Workers)
=============================================================================
