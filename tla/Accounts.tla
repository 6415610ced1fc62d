------------------------------- MODULE Accounts -------------------------------
(***************************************************************************)
(* What the traffic sampler promises, without counters, baselines or       *)
(* samples: bytes pass through locations, and bytes that have passed and   *)
(* were not charged yet are charged, to the location's rows and to its     *)
(* client at once.  Nothing is charged twice, and nothing is taken back.   *)
(***************************************************************************)
EXTENDS Integers

CONSTANTS Clients, Locations, ClientOf

VARIABLES
  passed,  (* bytes that passed through each location                      *)
  ledger,  (* bytes charged to each location                               *)
  used     (* bytes charged to each client                                 *)

accountVars == <<passed, ledger, used>>

Init ==
    /\ passed = [l \in Locations |-> 0]
    /\ ledger = [l \in Locations |-> 0]
    /\ used = [c \in Clients |-> 0]

Pass(l) ==
    /\ passed' = [passed EXCEPT ![l] = @ + 1]
    /\ UNCHANGED <<ledger, used>>

Unpaid(l) == passed[l] - ledger[l]

Charge(l, bytes) ==
    /\ bytes <= Unpaid(l)
    /\ ledger' = [ledger EXCEPT ![l] = @ + bytes]
    /\ used' = [used EXCEPT ![ClientOf[l]] = @ + bytes]
    /\ UNCHANGED passed

Next ==
    \E l \in Locations :
        \/ Pass(l)
        \/ \E bytes \in 1..Unpaid(l) : Charge(l, bytes)

Spec == Init /\ [][Next]_accountVars

=============================================================================
