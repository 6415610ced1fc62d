----------------------------- MODULE MCRegistry -----------------------------
(* Two clients with a location each.                                       *)
EXTENDS Registry, TLC

CONSTANTS c1, c2, l1, l2, r1, r2

TwoClients == {c1, c2}
TwoLocations == {l1, l2}
OneEach == l1 :> c1 @@ l2 :> c2
TwoRequests == {r1, r2}
OneClient == {c1}
OneLocation == {l1}
OnlyOne == l1 :> c1
BothOfOne == l1 :> c1 @@ l2 :> c1
Symmetry == Permutations(TwoRequests)
=============================================================================
