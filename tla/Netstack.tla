------------------------------- MODULE Netstack -------------------------------
(***************************************************************************)
(* The network stack of internal/netstack/netstack.go: Ensure and Cleanup  *)
(* as the sequences of commands they are, over what the kernel holds, and  *)
(* the cache of ensured states that lets Ensure skip them.                 *)
(*                                                                         *)
(* The process runner calls Ensure from Start and Cleanup from Stop, one   *)
(* call at a time.  A command may fail, its context may be cancelled (then *)
(* every later command of the call fails), and the panel may die between   *)
(* two commands; what the kernel holds survives it, the cache does not.    *)
(***************************************************************************)
EXTENDS Naturals

CONSTANTS Locations,
          Subnet,     (* the /30 of each location, from a hash of its id   *)
          States,     (* records: dns, speed, traffic                      *)
          Dns, Speeds,
          NoLimit,    (* SpeedLimitBPS is nil, no qdisc                    *)
          None,       (* a missing cache entry, file, call                 *)
          MaxFaults   (* bound on failed commands, cancellations, crashes  *)

Subnets == {Subnet[l] : l \in Locations}
State == [dns : Dns, speed : Speeds \cup {NoLimit}, traffic : BOOLEAN]

ASSUME NetstackAssumption ==
    /\ None \notin Locations \cup Dns \cup State
    /\ NoLimit \notin Speeds
    /\ States \subseteq State
    /\ MaxFaults \in Nat

VARIABLES
  have,     (* what exists of each location's namespace and veth pair      *)
  link,     (* the namespace's end of the pair: "up" or "down"             *)
  qdisc,    (* the limits on its two ends                                  *)
  rules,    (* the MASQUERADE rules of each subnet                         *)
  dns,      (* its resolv.conf                                             *)
  nat,      (* the chain and the jump to it                                *)
  ensured,  (* stack.ensured                                               *)
  process,  (* what the runner has started there: none, up, dead           *)
  call,     (* the call under way                                          *)
  faults,
  spoiled,  (* history: did a command fail there, or the panel die, since  *)
            (* the last Ensure or Cleanup in which everything worked       *)
  lapses    (* history: what has made the cache entry untrue since it was  *)
            (* entered                                                     *)

kernelVars == <<have, link, qdisc, rules, dns, nat>>
history == <<spoiled, lapses>>
vars == <<kernelVars, ensured, process, call, faults, history>>

-----------------------------------------------------------------------------
(* What a command that only adds something needs to be there before.       *)
Needs == [hostAddress |-> {"veth"},
          hostUp      |-> {"veth"},
          nsAddress   |-> {"namespace", "peer"},
          loopback    |-> {"namespace"}]
Items == {"namespace", "veth", "peer", "route"} \cup DOMAIN Needs
(* What goes with the pair of devices.                                     *)
OfVeth == {"veth", "peer", "hostAddress", "hostUp", "nsAddress", "route"}

EnsureSteps == {"check", "namespace", "veth", "peer", "link", "route", "nat", "rule",
                "resolv", "limitHost", "limitPeer", "remember"} \cup DOMAIN Needs
CleanupSteps == {"noLimits", "noRule", "noVeth", "noNamespace", "noResolv", "forget"}
(* kept: Ensure could not delete a qdisc, and went on.                     *)
NoCall == [loc |-> None, state |-> None, step |-> "idle", cancelled |-> FALSE,
           clean |-> TRUE, kept |-> FALSE]

(* An Ensure for another state failed when it had set the link; a Cleanup  *)
(* returned an error; the Ensure of the entry kept a qdisc; the Cleanup of *)
(* a location with the same subnet took the last rule.                     *)
Lapses == {"ensure", "cleanup", "limit", "rule"}
Lapsed(l, kinds) == lapses[l] \cap kinds # {}

At(step) == call.step = step
Goto(step) == call' = [call EXCEPT !.step = step]
Here == call.loc

Init ==
    /\ have = [l \in Locations |-> {}]
    /\ link = [l \in Locations |-> "down"]
    /\ qdisc = [l \in Locations |-> [host |-> NoLimit, peer |-> NoLimit]]
    /\ rules = [n \in Subnets |-> 0]
    /\ dns = [l \in Locations |-> None]
    /\ nat = FALSE
    /\ ensured = [l \in Locations |-> None]
    /\ process = [l \in Locations |-> "none"]
    /\ call = NoCall
    /\ faults = 0
    /\ spoiled = [l \in Locations |-> FALSE]
    /\ lapses = [l \in Locations |-> {}]

-----------------------------------------------------------------------------
(* The runner                                                              *)
Start(l, s) ==
    /\ At("idle")
    /\ process[l] # "up"
    /\ process' = [process EXCEPT ![l] = "none"]
    /\ call' = [NoCall EXCEPT !.loc = l, !.state = s, !.step = "check"]
    /\ UNCHANGED <<kernelVars, ensured, faults, history>>

(* After a Restart whose Start failed there is no process to kill.         *)
Stop(l) ==
    /\ At("idle")
    /\ process' = [process EXCEPT ![l] = "dead"]
    /\ call' = [NoCall EXCEPT !.loc = l, !.step = "noLimits"]
    /\ UNCHANGED <<kernelVars, ensured, faults, history>>

Dies(l) ==
    /\ process[l] = "up"
    /\ process' = [process EXCEPT ![l] = "dead"]
    /\ UNCHANGED <<kernelVars, ensured, call, faults, history>>

Fault ==
    /\ faults < MaxFaults
    /\ faults' = faults + 1

Cancel ==
    /\ ~ At("idle")
    /\ ~ call.cancelled
    /\ Fault
    /\ call' = [call EXCEPT !.cancelled = TRUE, !.clean = FALSE]
    /\ UNCHANGED <<kernelVars, ensured, process, history>>

(* The panel dies; systemd kills the tunnels with it.                      *)
PanelRestart ==
    /\ Fault
    /\ ensured' = [l \in Locations |-> None]
    /\ process' = [l \in Locations |-> "none"]
    /\ call' = NoCall
    /\ spoiled' = [l \in Locations |-> TRUE]
    /\ lapses' = [l \in Locations |-> {}]
    /\ UNCHANGED kernelVars

-----------------------------------------------------------------------------
(* Ensure                                                                  *)

(* Can the command of this step work on what is there?  A route through a  *)
(* gateway needs the link it leaves by to be up.                           *)
Possible(step) ==
    CASE step \in DOMAIN Needs -> Needs[step] \subseteq have[Here]
      [] step = "link" -> "peer" \in have[Here]
      [] step = "route" -> "nsAddress" \in have[Here] /\ link[Here] = "up"
      [] step = "limitHost" -> "veth" \in have[Here]
      [] step = "limitPeer" -> "peer" \in have[Here]
      [] OTHER -> TRUE

Works(step) == At(step) /\ ~ call.cancelled /\ Possible(step)
Add(item) == have' = [have EXCEPT ![Here] = @ \cup {item}]

CacheHit ==
    /\ At("check")
    /\ ensured[Here] = call.state
    /\ process' = [process EXCEPT ![Here] = "up"]
    /\ call' = NoCall
    /\ UNCHANGED <<kernelVars, ensured, faults, history>>

CacheMiss ==
    /\ At("check")
    /\ ensured[Here] # call.state
    /\ Goto("namespace")
    /\ UNCHANGED <<kernelVars, ensured, process, faults, history>>

EnsureNamespace ==
    /\ Works("namespace")
    /\ Add("namespace")
    /\ Goto("veth")
    /\ UNCHANGED <<link, qdisc, rules, dns, nat, ensured, process, faults, history>>

(* A host end that is there is taken for a whole pair.                     *)
EnsureVeth ==
    /\ Works("veth")
    /\ Add("veth")
    /\ Goto(IF "veth" \in have[Here] THEN "hostAddress" ELSE "peer")
    /\ UNCHANGED <<link, qdisc, rules, dns, nat, ensured, process, faults, history>>

MovePeer ==
    /\ Works("peer")
    /\ Add("peer")
    /\ Goto("hostAddress")
    /\ UNCHANGED <<link, qdisc, rules, dns, nat, ensured, process, faults, history>>

(* Variant of After: the route before the link it leaves by.               *)
AfterWithoutLink == [hostAddress |-> "hostUp", hostUp |-> "nsAddress",
                     nsAddress |-> "loopback", loopback |-> "route"]
After == [hostAddress |-> "hostUp", hostUp |-> "nsAddress",
          nsAddress |-> "loopback", loopback |-> "link"]

Configure(step) ==
    /\ Works(step)
    /\ Add(step)
    /\ Goto(After[step])
    /\ UNCHANGED <<link, qdisc, rules, dns, nat, ensured, process, faults, history>>

(* Variant of SetLink: a word that is not one of the link's states.        *)
SetLinkWord ==
    /\ Works("link")
    /\ link' = [link EXCEPT ![Here] = IF call.state.traffic THEN "up" ELSE "cut"]
    /\ have' = [have EXCEPT ![Here] = IF call.state.traffic THEN @ ELSE @ \ {"route"}]
    /\ Goto("route")
    /\ UNCHANGED <<qdisc, rules, dns, nat, ensured, process, faults, history>>

(* A link that goes down takes its routes with it.                         *)
SetLink ==
    /\ Works("link")
    /\ link' = [link EXCEPT ![Here] = IF call.state.traffic THEN "up" ELSE "down"]
    /\ have' = [have EXCEPT ![Here] = IF call.state.traffic THEN @ ELSE @ \ {"route"}]
    /\ Goto("route")
    /\ UNCHANGED <<qdisc, rules, dns, nat, ensured, process, faults, history>>

AddRoute ==
    /\ Works("route")
    /\ Add("route")
    /\ Goto("nat")
    /\ UNCHANGED <<link, qdisc, rules, dns, nat, ensured, process, faults, history>>

(* ensureNAT: the chain and the jump, then the rule of the subnet.         *)
EnsureChain ==
    /\ Works("nat")
    /\ nat' = TRUE
    /\ Goto("rule")
    /\ UNCHANGED <<have, link, qdisc, rules, dns, ensured, process, faults, history>>

EnsureRule ==
    /\ Works("rule")
    /\ rules' = [rules EXCEPT ![Subnet[Here]] = IF @ = 0 THEN 1 ELSE @]
    /\ Goto("resolv")
    /\ UNCHANGED <<have, link, qdisc, dns, nat, ensured, process, faults, history>>

(* A check of the rule that fails counts as a missing rule.                *)
DuplicateRule ==
    /\ Works("rule")
    /\ rules[Subnet[Here]] > 0
    /\ Fault
    /\ rules' = [rules EXCEPT ![Subnet[Here]] = @ + 1]
    /\ call' = [call EXCEPT !.step = "resolv", !.clean = FALSE]
    /\ UNCHANGED <<have, link, qdisc, dns, nat, ensured, process, history>>

(* The file is written whether or not the context is cancelled.            *)
WriteDNS ==
    /\ At("resolv")
    /\ dns' = [dns EXCEPT ![Here] = call.state.dns]
    /\ Goto("limitHost")
    /\ UNCHANGED <<have, link, qdisc, rules, nat, ensured, process, faults, history>>

(* reconcileTC: a limit is set, no limit deletes the qdisc.                *)
LimitHost ==
    /\ Works("limitHost")
    /\ qdisc' = [qdisc EXCEPT ![Here].host = call.state.speed]
    /\ Goto("limitPeer")
    /\ UNCHANGED <<have, link, rules, dns, nat, ensured, process, faults, history>>

LimitPeer ==
    /\ Works("limitPeer")
    /\ qdisc' = [qdisc EXCEPT ![Here].peer = call.state.speed]
    /\ Goto("remember")
    /\ UNCHANGED <<have, link, rules, dns, nat, ensured, process, faults, history>>

(* A command fails if it cannot work, once the context is cancelled, or by *)
(* a fault of its own; the file is no command.                             *)
Fails(step) ==
    /\ At(step)
    /\ IF (call.cancelled /\ step # "resolv") \/ ~ Possible(step)
       THEN UNCHANGED faults
       ELSE Fault

(* A qdisc that cannot be deleted is passed over.                          *)
LimitStays ==
    /\ call.step \in {"limitHost", "limitPeer"}
    /\ call.state.speed = NoLimit
    /\ Fails(call.step)
    /\ call' = [call EXCEPT !.step = IF @ = "limitHost" THEN "limitPeer" ELSE "remember",
                            !.clean = FALSE, !.kept = TRUE]
    /\ UNCHANGED <<kernelVars, ensured, process, history>>

(* The entry is made, and true but for a qdisc that was kept.              *)
EnterState ==
    /\ ensured' = [ensured EXCEPT ![Here] = call.state]
    /\ lapses' = [lapses EXCEPT ![Here] = IF call.kept THEN {"limit"} ELSE {}]

Remember ==
    /\ At("remember")
    /\ EnterState
    /\ process' = [process EXCEPT ![Here] = "up"]
    /\ spoiled' = [spoiled EXCEPT ![Here] = ~ call.clean]
    /\ call' = NoCall
    /\ UNCHANGED <<kernelVars, faults>>

(* As Remember, but the configuration cannot be rendered or the process    *)
(* not started: Start cleans up.                                           *)
RememberAndUndo ==
    /\ At("remember")
    /\ Fault
    /\ EnterState
    /\ call' = [call EXCEPT !.step = "noLimits", !.clean = FALSE]
    /\ UNCHANGED <<kernelVars, process, spoiled>>

(* Any other failed command ends Ensure, and Start without a Cleanup.      *)
Unsure(step) ==
    \/ step \notin {"limitHost", "limitPeer"}
    \/ call.state.speed # NoLimit

(* The steps from which on the link, the route, the file and the qdiscs    *)
(* may no longer be those of the entry.                                    *)
Changing == {"route", "nat", "rule", "resolv", "limitHost", "limitPeer"}

EnsureFails ==
    /\ \E step \in EnsureSteps \ {"check", "remember"} : Fails(step) /\ Unsure(step)
    /\ spoiled' = [spoiled EXCEPT ![Here] = TRUE]
    /\ lapses' = IF call.step \in Changing
                 THEN [lapses EXCEPT ![Here] = @ \cup {"ensure"}]
                 ELSE lapses
    /\ call' = NoCall
    /\ UNCHANGED <<kernelVars, ensured, process>>

-----------------------------------------------------------------------------
(* Cleanup: a command that fails is passed over.                           *)
NextCleanup == [noLimits |-> "noRule", noRule |-> "noVeth", noVeth |-> "noNamespace",
                noNamespace |-> "noResolv"]

PassedOver ==
    /\ call.step \in DOMAIN NextCleanup
    /\ IF call.cancelled THEN UNCHANGED faults ELSE Fault
    /\ call' = [call EXCEPT !.step = NextCleanup[@], !.clean = FALSE]
    /\ UNCHANGED <<kernelVars, ensured, process, history>>

Cleans(step) ==
    /\ At(step)
    /\ ~ call.cancelled
    /\ Goto(NextCleanup[step])
    /\ UNCHANGED <<nat, dns, ensured, process, faults, spoiled>>

NoDevice == [host |-> NoLimit, peer |-> NoLimit]

DeleteLimits ==
    /\ Cleans("noLimits")
    /\ qdisc' = [qdisc EXCEPT ![Here] = NoDevice]
    /\ UNCHANGED <<have, link, rules, lapses>>

(* The rule names the subnet, not the location.                            *)
DeleteRule ==
    /\ Cleans("noRule")
    /\ rules' = [rules EXCEPT ![Subnet[Here]] = IF @ = 0 THEN 0 ELSE @ - 1]
    /\ lapses' = [l \in Locations |->
         IF l # Here /\ Subnet[l] = Subnet[Here] /\ rules[Subnet[Here]] <= 1
         THEN lapses[l] \cup {"rule"}
         ELSE lapses[l]]
    /\ UNCHANGED <<have, link, qdisc>>

(* One end of a pair takes the other with it.                              *)
DeleteVeth ==
    /\ Cleans("noVeth")
    /\ have' = [have EXCEPT ![Here] = @ \ OfVeth]
    /\ link' = [link EXCEPT ![Here] = "down"]
    /\ qdisc' = [qdisc EXCEPT ![Here] = NoDevice]
    /\ UNCHANGED <<rules, lapses>>

(* Variant of DeleteNamespace: it is left for the next Ensure.             *)
KeepNamespace ==
    /\ Cleans("noNamespace")
    /\ UNCHANGED <<have, link, qdisc, rules, lapses>>

(* A namespace takes the devices in it with it.                            *)
DeleteNamespace ==
    /\ Cleans("noNamespace")
    /\ LET gone == {"namespace", "loopback"}
                     \cup (IF "peer" \in have[Here] THEN OfVeth ELSE {})
       IN  have' = [have EXCEPT ![Here] = @ \ gone]
    /\ IF "peer" \in have[Here]
       THEN /\ link' = [link EXCEPT ![Here] = "down"]
            /\ qdisc' = [qdisc EXCEPT ![Here] = NoDevice]
       ELSE UNCHANGED <<link, qdisc>>
    /\ UNCHANGED <<rules, lapses>>

RemoveResolv ==
    /\ At("noResolv")
    /\ dns' = [dns EXCEPT ![Here] = None]
    /\ Goto("forget")
    /\ UNCHANGED <<have, link, qdisc, rules, nat, ensured, process, faults, history>>

(* The one failure Cleanup reports: the cache keeps the location.          *)
RemoveResolvFails ==
    /\ At("noResolv")
    /\ Fault
    /\ spoiled' = [spoiled EXCEPT ![Here] = TRUE]
    /\ lapses' = [lapses EXCEPT ![Here] = @ \cup {"cleanup"}]
    /\ call' = NoCall
    /\ UNCHANGED <<kernelVars, ensured, process>>

(* Variant of Forget: the cache keeps the location.                        *)
ForgetNothing ==
    /\ At("forget")
    /\ process' = [process EXCEPT ![Here] = "none"]
    /\ spoiled' = [spoiled EXCEPT ![Here] = ~ call.clean]
    /\ lapses' = [lapses EXCEPT ![Here] = {}]
    /\ call' = NoCall
    /\ UNCHANGED <<kernelVars, ensured, faults>>

Forget ==
    /\ At("forget")
    /\ ensured' = [ensured EXCEPT ![Here] = None]
    /\ process' = [process EXCEPT ![Here] = "none"]
    /\ spoiled' = [spoiled EXCEPT ![Here] = ~ call.clean]
    /\ lapses' = [lapses EXCEPT ![Here] = {}]
    /\ call' = NoCall
    /\ UNCHANGED <<kernelVars, faults>>

-----------------------------------------------------------------------------
Ensure ==
    \/ CacheHit \/ CacheMiss \/ EnsureNamespace \/ EnsureVeth \/ MovePeer
    \/ \E step \in DOMAIN Needs : Configure(step)
    \/ SetLink \/ AddRoute \/ EnsureChain \/ EnsureRule \/ DuplicateRule \/ WriteDNS
    \/ LimitHost \/ LimitPeer \/ LimitStays \/ Remember \/ RememberAndUndo \/ EnsureFails

Cleanup ==
    \/ PassedOver \/ DeleteLimits \/ DeleteRule \/ DeleteVeth \/ DeleteNamespace
    \/ RemoveResolv \/ RemoveResolvFails \/ Forget

Runner ==
    \/ \E l \in Locations, s \in States : Start(l, s)
    \/ \E l \in Locations : Stop(l) \/ Dies(l)
    \/ Cancel \/ PanelRestart

Next == Ensure \/ Cleanup \/ Runner

Spec == Init /\ [][Next]_vars

-----------------------------------------------------------------------------
(* Types of the kernel's and the stack's state.                            *)
KernelTypeOK ==
    /\ have \in [Locations -> SUBSET Items]
    /\ link \in [Locations -> {"up", "down"}]
    /\ qdisc \in [Locations -> [host : Speeds \cup {NoLimit}, peer : Speeds \cup {NoLimit}]]
    /\ rules \in [Subnets -> Nat]
    /\ dns \in [Locations -> Dns \cup {None}]
    /\ nat \in BOOLEAN

Call == [loc : Locations \cup {None}, state : State \cup {None},
         step : EnsureSteps \cup CleanupSteps \cup {"idle"},
         cancelled : BOOLEAN, clean : BOOLEAN, kept : BOOLEAN]

NetstackTypeOK ==
    /\ KernelTypeOK
    /\ call \in Call
    /\ ensured \in [Locations -> State \cup {None}]
    /\ process \in [Locations -> {"none", "up", "dead"}]
    /\ faults \in Nat
    /\ spoiled \in [Locations -> BOOLEAN]
    /\ lapses \in [Locations -> SUBSET Lapses]

(* What Ensure makes for every state alike is there.                       *)
Built(l) ==
    /\ nat
    /\ ~ Lapsed(l, {"cleanup"}) => Items \ {"route"} \subseteq have[l]
    /\ ~ Lapsed(l, {"cleanup", "rule"}) => rules[Subnet[l]] > 0

(* The rest is as the state of the entry describes it.                     *)
Configured(l) ==
    LET s == ensured[l]
    IN  /\ ~ Lapsed(l, {"cleanup", "ensure"}) =>
             /\ link[l] = IF s.traffic THEN "up" ELSE "down"
             /\ s.traffic => "route" \in have[l]
             /\ dns[l] = s.dns
        /\ ~ Lapsed(l, {"cleanup", "ensure", "limit"}) =>
             qdisc[l] = [host |-> s.speed, peer |-> s.speed]

(* Where a process runs, an Ensure has returned, and no call is under way. *)
UpIsEnsured ==
    \A l \in Locations : process[l] = "up" => ensured[l] # None /\ call.loc # l

(* Ensure skips its work only for a location that is as it was ensured,    *)
(* whatever was left over when it was, and whatever commands, calls and    *)
(* panels failed since, but for four lapses: a Cleanup that returned an    *)
(* error had removed everything and the entry stayed (and a Start goes on  *)
(* with nothing in the kernel); a failed Ensure for another state had set  *)
(* the link, and perhaps more, and the entry stayed, so that going back to *)
(* the old state undoes nothing; a qdisc was kept; another location with   *)
(* the same subnet took the rule.  Each leaves the rest of the entry true. *)
(* So a process that runs, runs on the network of its entry but for these. *)
EnsuredIsReal ==
    /\ \A l \in Locations :
         ensured[l] # None /\ call.loc # l => Built(l) /\ Configured(l)
    /\ UpIsEnsured

(* A location that the runner has stopped, or not started, has left        *)
(* neither namespace nor veth behind, and nothing a Doctor would call      *)
(* stale, unless a command for it has failed since it was last in order.   *)
StoppedLeavesNothing ==
    \A l \in Locations :
        process[l] = "none" /\ ~ spoiled[l] /\ call.loc # l =>
            have[l] = {} /\ dns[l] = None

(* An Ensure in which no command fails by itself comes through, whatever   *)
(* an earlier one, a Cleanup or a dead panel left, but for two cases: it   *)
(* is to cut the traffic, or somebody made the veth and did not get to     *)
(* move its end into the namespace.                                        *)
EnsureComesThrough ==
    \A step \in EnsureSteps \ {"check", "remember"} :
        At(step) /\ ~ call.cancelled /\ ~ Possible(step) =>
            ~ call.state.traffic \/ "peer" \notin have[Here]

(* Ensure with traffic disabled sets its link down and then succeeds, as   *)
(* the stack's tests have it: it never comes to its end.                   *)
CutComesThrough ==
    At("route") /\ ~ call.cancelled /\ call.clean => Possible("route")

-----------------------------------------------------------------------------
(* The inductive invariant behind the properties above.                    *)

(* A call knows what it is about.                                          *)
CallShape ==
    /\ At("idle") => call.loc = None
    /\ ~ At("idle") => call.loc \in Locations
    /\ call.step \in EnsureSteps => call.state \in State

(* What Ensure has behind it at each step.                                 *)
LastSteps == {"nat", "rule", "resolv", "limitHost", "limitPeer", "remember"}
EnsureProgress ==
    /\ call.step \in EnsureSteps \ {"check", "namespace"} => "namespace" \in have[Here]
    /\ call.step \in EnsureSteps \ {"check", "namespace", "veth"} => "veth" \in have[Here]
    /\ call.step \in {"hostUp", "nsAddress", "loopback", "link", "route"} =>
         "hostAddress" \in have[Here]
    /\ call.step \in {"nsAddress", "loopback", "link", "route"} => "hostUp" \in have[Here]
    /\ call.step \in {"loopback", "link", "route"} => {"nsAddress", "peer"} \subseteq have[Here]
    /\ call.step \in {"link", "route"} => "loopback" \in have[Here]
    /\ call.step \in {"route"} \cup LastSteps =>
         link[Here] = IF call.state.traffic THEN "up" ELSE "down"
    /\ call.step \in LastSteps => have[Here] = Items
    /\ call.step \in LastSteps \ {"nat"} => nat
    /\ call.step \in LastSteps \ {"nat", "rule"} => rules[Subnet[Here]] > 0
    /\ call.step \in {"limitHost", "limitPeer", "remember"} => dns[Here] = call.state.dns
    /\ call.step \in {"limitPeer", "remember"} /\ ~ call.kept =>
         qdisc[Here].host = call.state.speed
    /\ At("remember") /\ ~ call.kept => qdisc[Here].peer = call.state.speed

(* What a Cleanup in which nothing failed has behind it.                   *)
CleanupProgress ==
    call.clean =>
        /\ At("noNamespace") => have[Here] \cap OfVeth = {}
        /\ call.step \in {"noResolv", "forget"} => have[Here] = {}
        /\ At("forget") => dns[Here] = None

(* Ensure only adds to what it finds until it sets the link, and it makes  *)
(* a new entry when it has brought the rest about; what Cleanup has taken  *)
(* away is in no entry when it is over.                                    *)
CacheIsReal ==
    \A l \in Locations :
        ensured[l] # None =>
            /\ nat
            /\ ~ (call.loc = l /\ call.step \in CleanupSteps) => Built(l)
            /\ (call.loc = l => call.step \in EnsureSteps \ (Changing \cup {"remember"})) =>
                 Configured(l)

NetInv ==
    /\ NetstackTypeOK
    /\ CallShape
    /\ EnsureProgress
    /\ CleanupProgress
    /\ CacheIsReal
    /\ StoppedLeavesNothing

=============================================================================
