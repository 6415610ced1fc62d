--------------------------- MODULE MCProcessRunner ---------------------------
(* The process runner under one caller that may call anything in any order. *)
EXTENDS ProcessRunner, TLC

(* Nothing tells two locations, two configurations or two process objects  *)
(* apart; only invariants are checked under it.                            *)
Symmetry == Permutations(Locations) \cup Permutations(Configs) \cup Permutations(Procs)
=============================================================================
