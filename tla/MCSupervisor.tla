---------------------------- MODULE MCSupervisor ----------------------------
(* Small instances of the supervisor: the location created first has the   *)
(* greater id, so the two loops of Reload visit in different orders.       *)
EXTENDS Supervisor, TLC

CONSTANTS l1, l2

TwoLocations == {l1, l2}
TwoCreatedRank == l1 :> 1 @@ l2 :> 2
TwoIdRank == l1 :> 2 @@ l2 :> 1
OwnSubnets == l1 :> 1 @@ l2 :> 2
OneSubnet == l1 :> 1 @@ l2 :> 1

(* Nothing tells two process objects, two callers or two configurations    *)
(* apart; only invariants are checked under it.                            *)
Symmetry == Permutations(Procs) \cup Permutations(Callers) \cup Permutations(Configs)
=============================================================================
