-------------------------- MODULE MCTrafficSampler --------------------------
(* One client with two locations.                                          *)
EXTENDS TrafficSampler, TLC

CONSTANTS c1, l1, l2

OneClient == {c1}
TwoLocations == {l1, l2}
OldAndNew == l1 :> 1 @@ l2 :> 2
BothOfOne == l1 :> c1 @@ l2 :> c1
NoneOrTwo == {2, NoQuota}
=============================================================================
