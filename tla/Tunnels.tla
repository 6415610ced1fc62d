------------------------------- MODULE Tunnels -------------------------------
(***************************************************************************)
(* What the runtime promises, without saying how: tunnels go up only while *)
(* the supervisor is busy, at most one configuration is up at a location,  *)
(* and a supervisor that is not busy has on record every tunnel that is    *)
(* up, with the configuration it is up with.  A tunnel may go down at any  *)
(* time (its process exits or is killed).                                  *)
(***************************************************************************)
CONSTANTS Locations, Configs, None

VARIABLES
  live,      (* the pairs <<location, configuration>> that are up          *)
  recorded,  (* the configuration on record for each location, or None     *)
  busy       (* is somebody inside the supervisor                          *)

tunnelVars == <<live, recorded, busy>>

NothingRecorded == [l \in Locations |-> None]

Init ==
    /\ live = {}
    /\ recorded = NothingRecorded
    /\ busy = FALSE

OnRecord(t) == recorded[t[1]] = t[2]

Acquire ==
    /\ ~ busy
    /\ busy' = TRUE
    /\ UNCHANGED <<live, recorded>>

(* A location must be down before it comes up with a new configuration.    *)
Up(l, c) ==
    /\ busy
    /\ \A t \in live : t[1] # l
    /\ live' = live \cup {<<l, c>>}
    /\ UNCHANGED <<recorded, busy>>

Down(t) ==
    /\ live' = live \ {t}
    /\ UNCHANGED <<recorded, busy>>

Record(l, v) ==
    /\ busy
    /\ recorded' = [recorded EXCEPT ![l] = v]
    /\ UNCHANGED <<live, busy>>

(* Nobody leaves with a tunnel up that is not on record.                   *)
Release ==
    /\ busy
    /\ \A t \in live : OnRecord(t)
    /\ busy' = FALSE
    /\ UNCHANGED <<live, recorded>>

(* The panel dies and systemd kills its control group.                     *)
Reset ==
    /\ live' = {}
    /\ recorded' = NothingRecorded
    /\ busy' = FALSE

Next ==
    \/ Acquire
    \/ \E l \in Locations, c \in Configs : Up(l, c)
    \/ \E t \in live : Down(t)
    \/ \E l \in Locations, v \in Configs \cup {None} : Record(l, v)
    \/ Release
    \/ Reset

Spec == Init /\ [][Next]_tunnelVars

(* Every tunnel that is up while nobody is inside the supervisor is one it *)
(* has on record, so that the next Reload or StopAll can find it.          *)
Accounted == ~ busy => \A t \in live : OnRecord(t)

=============================================================================
