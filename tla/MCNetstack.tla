----------------------------- MODULE MCNetstack -----------------------------
(* Two locations; states that differ in each of their parts.               *)
EXTENDS Netstack, TLC

CONSTANTS d1, slow, l1, l2

TwoLocations == {l1, l2}
OwnSubnets == l1 :> 1 @@ l2 :> 2
OneSubnet == l1 :> 1 @@ l2 :> 1

OneDns == {d1}
OneSpeed == {slow}
Plain == [dns |-> d1, speed |-> NoLimit, traffic |-> TRUE]
Limited == [Plain EXCEPT !.speed = slow]
Cut == [Plain EXCEPT !.traffic = FALSE]
SomeStates == {Plain, Limited, Cut}
=============================================================================
