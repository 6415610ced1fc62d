---------------------------- MODULE TrafficSampler ----------------------------
(***************************************************************************)
(* The traffic sampler of internal/traffic/traffic.go: the byte counters   *)
(* of each location's host veth, the counters' baselines and the clients'  *)
(* use in the database, and the Reload the sampler asks for when a client  *)
(* crosses its quota or its expiry date.                                   *)
(*                                                                         *)
(* A sample is a loop of small steps: the two counter files of a location  *)
(* are read one after the other, then one transaction charges the client.  *)
(* Between any two steps bytes pass, a location is restarted (its veth is  *)
(* made anew and counts from zero), stopped or deleted, and the            *)
(* administrator changes the client.                                       *)
(*                                                                         *)
(* The supervisor is what Supervisor.tla shows it to be: a Reload makes    *)
(* exactly the locations that the database wants carry traffic, or ends    *)
(* with an error after a part of them.                                     *)
(***************************************************************************)
EXTENDS Integers, FiniteSets, FiniteSetsExt

CONSTANTS Clients, Locations,
          ClientOf,       (* the client of each location                   *)
          CreatedRank,    (* the order of created_at, then id              *)
          Quotas,         (* the values quota_bytes can take               *)
          NoQuota,        (* quota_bytes is NULL                           *)
          None,           (* a missing row, a missing veth                 *)
          MaxSent,        (* bound on the bytes that pass                  *)
          MaxChanges,     (* bound on what the administrator does          *)
          MaxFaults       (* bound on failed steps and panel restarts      *)

ASSUME LocationsAssumption ==
    /\ IsFiniteSet(Locations)
    /\ ClientOf \in [Locations -> Clients]
    /\ CreatedRank \in [Locations -> Nat]
    /\ \A l, m \in Locations : CreatedRank[l] = CreatedRank[m] => l = m
    /\ None \notin Locations \cup [rx : Nat, tx : Nat]

ASSUME QuotaAssumption ==
    /\ Quotas \subseteq Nat \cup {NoQuota}
    /\ NoQuota \notin Nat

ASSUME BoundsAssumption == {MaxSent, MaxChanges, MaxFaults} \subseteq Nat

VARIABLES
  present,   (* does the location have a row                               *)
  enabled,   (* clients.enabled                                            *)
  expired,   (* has clients.expires_at passed                              *)
  quota,     (* clients.quota_bytes                                        *)
  used,      (* clients.quota_used_bytes                                   *)
  lockMode,  (* the setting quota_lock_mode                                *)
  ledger,    (* bytes in the rows of traffic_counters, by location         *)
  baseline,  (* traffic_counter_state of each location                     *)
  running,   (* has a location a process: down or up                       *)
  veth,      (* the counters of its host veth                              *)
  observed,  (* sampler.observed                                           *)
  pc,        (* where Sample is                                            *)
  todo,      (* locations the sample has not visited                       *)
  at,        (* the location it is at                                      *)
  read,      (* the counters it has read there                             *)
  changes, faults,
  (* History: bytes that passed through a location; how many veths it had; *)
  (* its first baseline.                                                   *)
  sent, veths, first

LockModes == {"stop", "disable_traffic"}

dbVars == <<present, enabled, expired, quota, used, lockMode, ledger, baseline>>
netVars == <<running, veth, sent, veths>>
samplerVars == <<observed, pc, todo, at, read>>
vars == <<dbVars, netVars, samplerVars, changes, faults, first>>

-----------------------------------------------------------------------------
Counter == [rx : 0..MaxSent, tx : 0..MaxSent]
ZeroCounter == [rx |-> 0, tx |-> 0]
Total(counter) == counter.rx + counter.tx
ClientState == [quota : BOOLEAN, expired : BOOLEAN]

SumOver(f, S) == FoldSet(LAMBDA l, sum : f[l] + sum, 0, S)
OfClient(c) == {l \in Locations : ClientOf[l] = c}

(* QuotaUsedBytes >= QuotaBytes, of what is in the database.               *)
Exceeds(u, q) == q # NoQuota /\ u >= q
Over(c) == Exceeds(used[c], quota[c])

(* deriveRuntimeState                                                      *)
StateOf(c) == [quota |-> Over(c), expired |-> expired[c]]

(* What Reload is to make of a location: loadDesired.                      *)
Desired(l) ==
    LET c == ClientOf[l] IN
    CASE ~ present[l] \/ ~ enabled[c] \/ expired[c] -> "down"
      [] Over(c) /\ lockMode = "stop" -> "down"
      [] Over(c) /\ lockMode = "disable_traffic" -> "cut"
      [] OTHER -> "up"

(* A location that is to run without traffic: Ensure sets its link down    *)
(* and the route it adds next is refused (Netstack!CutComesThrough).       *)
Refused == {l \in Locations : Desired(l) = "cut"}

Init ==
    /\ present = [l \in Locations |-> TRUE]
    /\ enabled = [c \in Clients |-> TRUE]
    /\ expired = [c \in Clients |-> FALSE]
    /\ quota \in [Clients -> Quotas]
    /\ used = [c \in Clients |-> 0]
    /\ lockMode \in LockModes
    /\ ledger = [l \in Locations |-> 0]
    /\ baseline = [l \in Locations |-> None]
    /\ running = [l \in Locations |-> "down"]
    /\ veth = [l \in Locations |-> None]
    /\ observed = [c \in Clients |-> None]
    /\ pc = "booting"
    /\ todo = {}
    /\ at = None
    /\ read = ZeroCounter
    /\ changes = 0
    /\ faults = 0
    /\ sent = [l \in Locations |-> 0]
    /\ veths = [l \in Locations |-> 0]
    /\ first = [l \in Locations |-> None]

-----------------------------------------------------------------------------
(* The kernel and the supervisor                                           *)

(* A byte passes, in either direction.                                     *)
Pass(l) ==
    /\ running[l] = "up"
    /\ veth[l] # None
    /\ SumOver(sent, Locations) < MaxSent
    /\ \/ veth' = [veth EXCEPT ![l].rx = @ + 1]
       \/ veth' = [veth EXCEPT ![l].tx = @ + 1]
    /\ sent' = [sent EXCEPT ![l] = @ + 1]
    /\ UNCHANGED <<dbVars, running, veths, samplerVars, changes, faults, first>>

(* A started location keeps a veth that is there (the panel died without   *)
(* removing it); a stop removes it; a restart removes and makes it.        *)
VethAfter(l, target) ==
    CASE target = running[l] -> veth[l]
      [] target = "down" -> None
      [] running[l] = "down" /\ veth[l] # None -> veth[l]
      [] OTHER -> ZeroCounter

(* The supervisor has stopped and started processes, and made veths.       *)
Moves(processes, counters) ==
    /\ running' = processes
    /\ veth' = counters
    /\ veths' = [l \in Locations |->
                    IF counters[l] = ZeroCounter /\ veth[l] # ZeroCounter
                      THEN veths[l] + 1 ELSE veths[l]]

(* Every location is made what it is to be.                                *)
ReloadAll ==
    /\ Refused = {}
    /\ Moves([l \in Locations |-> Desired(l)],
             [l \in Locations |-> VethAfter(l, Desired(l))])

(* An error at the location fallen (None: before anything was stopped      *)
(* there) ends the Reload: it has no process, and left is what is left of  *)
(* its veth; of the others only those gone over before are what they are   *)
(* to be.  Their order, by age, is left out: any may have been.            *)
ReloadInPart(fallen, left) ==
    \E done \in SUBSET (Locations \ Refused) :
      Moves([l \in Locations |-> CASE l = fallen -> "down"
                                   [] l \in done \ {fallen} -> Desired(l)
                                   [] OTHER -> running[l]],
            [l \in Locations |-> CASE l = fallen -> left
                                   [] l \in done \ {fallen} ->
                                        VethAfter(l, Desired(l))
                                   [] OTHER -> veth[l]])

(* Restart stops a location that is to be cut, and cannot start it.        *)
ReloadRefused == \E l \in Refused : ReloadInPart(l, VethAfter(l, "cut"))

(* Some call fails: the load, a Stop half-way, a Start after or before the *)
(* network was cleaned up.                                                 *)
ReloadFails ==
    \/ ReloadInPart(None, None)
    \/ \E l \in Locations :
         /\ Desired(l) # running[l]
         /\ \E left \in {None, veth[l], ZeroCounter} :
              /\ left \in {None, veth[l]} \/ Desired(l) # "down"
              /\ ReloadInPart(l, left)

(* Somebody else reloads: POST /api/v1/reload, SIGHUP.                     *)
ReloadElsewhere ==
    /\ pc # "booting"
    /\ changes < MaxChanges
    /\ changes' = changes + 1
    /\ ReloadAll \/ ReloadRefused
    /\ running' # running
    /\ UNCHANGED <<dbVars, sent, samplerVars, faults, first>>

(* A location whose configuration changed is restarted.                    *)
RestartLocation(l) ==
    /\ running[l] = "up" /\ Desired(l) = "up"
    /\ changes < MaxChanges
    /\ changes' = changes + 1
    /\ veth' = [veth EXCEPT ![l] = ZeroCounter]
    /\ veths' = [veths EXCEPT ![l] = @ + 1]
    /\ UNCHANGED <<dbVars, running, sent, samplerVars, faults, first>>

-----------------------------------------------------------------------------
(* The administrator and the calendar                                      *)
Change ==
    /\ changes < MaxChanges
    /\ changes' = changes + 1
    /\ UNCHANGED <<used, ledger, netVars, samplerVars, faults, first>>

(* UpdateClient                                                            *)
SetQuota(c, q) ==
    /\ quota[c] # q
    /\ quota' = [quota EXCEPT ![c] = q]
    /\ Change
    /\ UNCHANGED <<present, enabled, expired, lockMode, baseline>>

(* The setting is written; the next Reload reads it.                       *)
SetLockMode(mode) ==
    /\ lockMode # mode
    /\ lockMode' = mode
    /\ Change
    /\ UNCHANGED <<present, enabled, expired, quota, baseline>>

ToggleClient(c) ==
    /\ enabled' = [enabled EXCEPT ![c] = ~ @]
    /\ Change
    /\ UNCHANGED <<present, expired, quota, lockMode, baseline>>

(* The date passes, or the administrator sets a later one.                 *)
ToggleExpiry(c) ==
    /\ expired' = [expired EXCEPT ![c] = ~ @]
    /\ Change
    /\ UNCHANGED <<present, enabled, quota, lockMode, baseline>>

(* Its rows in traffic_counters stay, with location_id NULL; its row in    *)
(* traffic_counter_state goes with it.                                     *)
DeleteLocation(l) ==
    /\ present[l]
    /\ present' = [present EXCEPT ![l] = FALSE]
    /\ baseline' = [baseline EXCEPT ![l] = None]
    /\ Change
    /\ UNCHANGED <<enabled, expired, quota, lockMode>>

-----------------------------------------------------------------------------
(* Sample                                                                  *)
Fault ==
    /\ faults < MaxFaults
    /\ faults' = faults + 1

(* A tick: loadLocations.                                                  *)
BeginSample ==
    /\ pc \in {"idle", "failed"}
    /\ pc' = "visiting"
    /\ todo' = {l \in Locations : present[l] /\ enabled[ClientOf[l]]}
    /\ UNCHANGED <<dbVars, netVars, observed, at, read, changes, faults, first>>

(* The oldest location that was not visited.                               *)
Oldest(l) == l \in todo /\ \A m \in todo : CreatedRank[l] <= CreatedRank[m]

(* The first of the two counter files.                                     *)
ReadRX(l) ==
    /\ pc = "visiting"
    /\ Oldest(l)
    /\ veth[l] # None
    /\ read' = [rx |-> veth[l].rx, tx |-> 0]
    /\ at' = l
    /\ pc' = "reading"
    /\ UNCHANGED <<dbVars, netVars, observed, todo, changes, faults, first>>

ReadTX ==
    /\ pc = "reading"
    /\ veth[at] # None
    /\ read' = [read EXCEPT !.tx = veth[at].tx]
    /\ pc' = "persisting"
    /\ UNCHANGED <<dbVars, netVars, observed, todo, at, changes, faults, first>>

(* isMissingCounter: a location without a veth is passed over.             *)
SkipMissing ==
    /\ \/ /\ pc = "visiting"
          /\ \E l \in todo : Oldest(l) /\ veth[l] = None /\ todo' = todo \ {l}
       \/ /\ pc = "reading"
          /\ veth[at] = None
          /\ todo' = todo \ {at}
    /\ pc' = "visiting"
    /\ at' = None
    /\ read' = ZeroCounter
    /\ UNCHANGED <<dbVars, netVars, observed, changes, faults, first>>

(* The sample ends with an error; the next tick starts a new one.          *)
Abort ==
    /\ pc' = "idle"
    /\ todo' = {}
    /\ at' = None
    /\ read' = ZeroCounter
    /\ UNCHANGED <<dbVars, netVars, observed, changes, first>>

SampleFails ==
    /\ pc \in {"visiting", "reading", "persisting", "observing"}
    /\ Fault
    /\ Abort

(* The location was deleted meanwhile: the foreign key of                  *)
(* traffic_counter_state refuses its row.                                  *)
PersistRefused ==
    /\ pc = "persisting"
    /\ ~ present[at]
    /\ Abort
    /\ UNCHANGED faults

(* Variants of Grew: a counter that stood still counts as one that went    *)
(* back; only one of the two counters is compared.                         *)
GrewStrictly ==
    /\ baseline[at] # None
    /\ read.rx > baseline[at].rx
    /\ read.tx > baseline[at].tx
GrewSent ==
    /\ baseline[at] # None
    /\ read.tx >= baseline[at].tx

(* There is a baseline and neither counter went back behind it.            *)
Grew ==
    /\ baseline[at] # None
    /\ read.rx >= baseline[at].rx
    /\ read.tx >= baseline[at].tx

Visited ==
    /\ todo' = todo \ {at}
    /\ pc' = "visiting"
    /\ at' = None
    /\ read' = ZeroCounter

(* Variant of ChargeDelta: the whole counter is charged.                   *)
ChargeCounter ==
    /\ pc = "persisting"
    /\ present[at]
    /\ Grew
    /\ used' = [used EXCEPT ![ClientOf[at]] = @ + Total(read)]
    /\ ledger' = [ledger EXCEPT ![at] = @ + Total(read)]
    /\ baseline' = [baseline EXCEPT ![at] = read]
    /\ Visited
    /\ UNCHANGED <<present, enabled, expired, quota, lockMode, netVars, observed,
                   changes, faults, first>>

(* persistCounter, one transaction: the first sight of a location or a     *)
(* counter that went back only sets the baseline.                          *)
SetBaseline ==
    /\ pc = "persisting"
    /\ present[at]
    /\ ~ Grew
    /\ baseline' = [baseline EXCEPT ![at] = read]
    /\ first' = [first EXCEPT ![at] = IF @ = None THEN read ELSE @]
    /\ Visited
    /\ UNCHANGED <<present, enabled, expired, quota, used, lockMode, ledger,
                   netVars, observed, changes, faults>>

ChargeDelta ==
    /\ pc = "persisting"
    /\ present[at]
    /\ Grew
    /\ LET c == ClientOf[at]
           delta == Total(read) - Total(baseline[at])
       IN  /\ used' = [used EXCEPT ![c] = @ + delta]
           /\ ledger' = [ledger EXCEPT ![at] = @ + delta]
    /\ baseline' = [baseline EXCEPT ![at] = read]
    /\ Visited
    /\ UNCHANGED <<present, enabled, expired, quota, lockMode, netVars, observed, changes,
                   faults, first>>

EndVisits ==
    /\ pc = "visiting"
    /\ todo = {}
    /\ pc' = "observing"
    /\ UNCHANGED <<dbVars, netVars, observed, todo, at, read, changes,
                   faults, first>>

(* reloadIfRuntimeStateCrossed compares the enabled clients with what it   *)
(* remembers of them, and remembers only what it now sees, whatever comes  *)
(* of the Reload.                                                          *)
OverQuotaNow(c) == observed[c] # None /\ ~ observed[c].quota /\ Over(c)
ExpiredNow(c) == observed[c] # None /\ ~ observed[c].expired /\ expired[c]
Crossing(c) == enabled[c] /\ (OverQuotaNow(c) \/ ExpiredNow(c))

Seen == [c \in Clients |-> IF enabled[c] THEN StateOf(c) ELSE None]

(* Variant of Observe: only the expiry date asks for a Reload.             *)
ObserveExpiry ==
    /\ pc = "observing"
    /\ observed' = Seen
    /\ pc' = IF \E c \in Clients : enabled[c] /\ ExpiredNow(c)
             THEN "reloading" ELSE "idle"
    /\ UNCHANGED <<dbVars, netVars, todo, at, read, changes, faults, first>>

Observe ==
    /\ pc = "observing"
    /\ observed' = Seen
    /\ pc' = IF \E c \in Clients : Crossing(c) THEN "reloading" ELSE "idle"
    /\ UNCHANGED <<dbVars, netVars, todo, at, read, changes, faults, first>>

(* The sampler's Reload, and the one at the start of the panel; an error   *)
(* of either is logged, and nothing more.                                  *)
EndReload(outcome) ==
    /\ pc \in {"booting", "reloading"}
    /\ pc' = outcome
    /\ UNCHANGED <<dbVars, sent, observed, todo, at, read, changes, first>>

OwnReload ==
    /\ EndReload("idle")
    /\ ReloadAll
    /\ UNCHANGED faults

OwnReloadRefused ==
    /\ EndReload("failed")
    /\ ReloadRefused
    /\ UNCHANGED faults

OwnReloadFails ==
    /\ EndReload("failed")
    /\ Fault
    /\ ReloadFails

ReloadElsewhereFails ==
    /\ pc # "booting"
    /\ Fault
    /\ ReloadFails
    /\ running' # running
    /\ UNCHANGED <<dbVars, sent, samplerVars, changes, first>>

(* The panel dies and is started again: no process is left, the veths are. *)
PanelRestart ==
    /\ pc # "booting"
    /\ Fault
    /\ running' = [l \in Locations |-> "down"]
    /\ observed' = [c \in Clients |-> None]
    /\ pc' = "booting"
    /\ todo' = {}
    /\ at' = None
    /\ read' = ZeroCounter
    /\ UNCHANGED <<dbVars, veth, sent, veths, changes, first>>

-----------------------------------------------------------------------------
SamplerStep ==
    \/ BeginSample
    \/ \E l \in Locations : ReadRX(l)
    \/ ReadTX \/ SkipMissing \/ PersistRefused
    \/ SetBaseline \/ ChargeDelta
    \/ EndVisits \/ Observe \/ OwnReload \/ OwnReloadRefused

Failure ==
    \/ SampleFails \/ OwnReloadFails \/ ReloadElsewhereFails
    \/ PanelRestart

Environment ==
    \/ \E l \in Locations : Pass(l) \/ RestartLocation(l) \/ DeleteLocation(l)
    \/ \E c \in Clients : ToggleClient(c) \/ ToggleExpiry(c)
    \/ \E c \in Clients, q \in Quotas : SetQuota(c, q)
    \/ \E mode \in LockModes : SetLockMode(mode)
    \/ ReloadElsewhere

Next == SamplerStep \/ Failure \/ Environment

Spec == Init /\ [][Next]_vars

(* Sampler.Run loops on a ticker and ends only with the panel.             *)
FairSpec == Spec /\ WF_vars(SamplerStep)

-----------------------------------------------------------------------------
(* Types of the sampler's state.                                           *)
SamplerTypeOK ==
    /\ present \in [Locations -> BOOLEAN]
    /\ enabled \in [Clients -> BOOLEAN]
    /\ expired \in [Clients -> BOOLEAN]
    /\ quota \in [Clients -> Quotas]
    /\ used \in [Clients -> Nat]
    /\ lockMode \in LockModes
    /\ ledger \in [Locations -> Nat]
    /\ baseline \in [Locations -> Counter \cup {None}]
    /\ running \in [Locations -> {"down", "up"}]
    /\ veth \in [Locations -> Counter \cup {None}]
    /\ observed \in [Clients -> ClientState \cup {None}]
    /\ pc \in {"booting", "idle", "visiting", "reading", "persisting",
               "observing", "reloading", "failed"}
    /\ todo \subseteq Locations
    /\ at \in Locations \cup {None}
    /\ read \in Counter

(* Neither a location nor its client is ever charged for a byte that did   *)
(* not pass, although the two counters are read at different times and a   *)
(* veth that is made anew between them may count past the baseline again.  *)
NeverOvercharged ==
    /\ \A l \in Locations : ledger[l] <= sent[l]
    /\ \A c \in Clients : used[c] <= SumOver(sent, OfClient(c))

(* The ledger of a location whose veth has not been made anew.             *)
ChargedOnce(l) ==
    veths[l] = 1 /\ baseline[l] # None =>
        ledger[l] = Total(baseline[l]) - Total(first[l])

(* While the veth of a location is one and the same, every byte since its  *)
(* first sample has been charged exactly once, up to the last sample:      *)
(* aborted samples, panel restarts and stops of the client lose none.  And *)
(* what a client is charged is what its locations are, veths made anew or  *)
(* not.                                                                    *)
ChargedExactly ==
    /\ \A l \in Locations : ChargedOnce(l)
    /\ \A c \in Clients : used[c] = SumOver(ledger, OfClient(c))

A == INSTANCE Accounts WITH passed <- sent

(* The sampler implements the accounts: charges come in one transaction,   *)
(* cover bytes that passed and were not charged before, and stay, whatever *)
(* is deleted, disabled or restarted.                                      *)
ImplementsAccounts == A!Spec

-----------------------------------------------------------------------------
(* What makes them inductive.                                              *)

(* Types of the history; of all bytes that may pass, some have.            *)
HistoryTypeOK ==
    /\ sent \in [Locations -> Nat]
    /\ veths \in [Locations -> Nat]
    /\ first \in [Locations -> Counter \cup {None}]
    /\ SumOver(sent, Locations) <= MaxSent
    /\ faults \in Nat

(* The sample is at l, with one of its counters read, or both.             *)
Reading(l) == pc = "reading" /\ at = l
Persisting(l) == pc = "persisting" /\ at = l

(* What is being visited was to be visited.                                *)
Visits == pc \in {"reading", "persisting"} => at \in todo

(* The counters of a location, zero without a veth.                        *)
Now(l) == IF veth[l] = None THEN ZeroCounter ELSE veth[l]

(* The part of a baseline b, or of one that is about to be replaced by a   *)
(* reading r, that a counter which now is at v can have counted: nothing   *)
(* when the counter has been made anew since.                              *)
Kept(b, v) == IF b <= v THEN b ELSE 0
Due(b, r, v) == IF r <= v THEN Kept(b, r) ELSE IF b <= r THEN b - r ELSE 0

(* sent[l] - Total(Now(l)) bytes passed through earlier veths: the ledger  *)
(* holds no more than those and what of the baseline is left in this one.  *)
LedgerBound(l) ==
    LET n == Now(l)
        b == baseline[l]
        Allows(kept) == ledger[l] + Total(n) <= sent[l] + kept
    IN  /\ ledger[l] <= sent[l]
        /\ Total(n) <= sent[l]
        /\ b # None =>
             /\ Allows(Kept(b.rx, n.rx) + Kept(b.tx, n.tx))
             /\ Reading(l) => Allows(Due(b.rx, read.rx, n.rx) + Kept(b.tx, n.tx))
             /\ Persisting(l) => Allows(Due(b.rx, read.rx, n.rx) + Due(b.tx, read.tx, n.tx))

(* A location that is there and has no baseline was never sampled.         *)
FirstSight(l) ==
    present[l] /\ baseline[l] = None => ledger[l] = 0 /\ first[l] = None

(* Neither counter of x is ahead of that of y.                             *)
AtMost(x, y) == x.rx <= y.rx /\ x.tx <= y.tx

(* The one veth of a location has counted its baseline and the reading.    *)
OneVeth(l) ==
    /\ veths[l] = 0 =>
         veth[l] = None /\ baseline[l] = None /\ ~ Reading(l) /\ ~ Persisting(l)
    /\ veths[l] = 1 /\ veth[l] # None =>
         /\ baseline[l] # None => AtMost(baseline[l], veth[l])
         /\ Reading(l) \/ Persisting(l) => AtMost(read, veth[l])
    /\ veths[l] = 1 /\ baseline[l] # None =>
         /\ first[l] # None
         /\ Reading(l) => baseline[l].rx <= read.rx
         /\ Persisting(l) => AtMost(baseline[l], read)

SamplerInv ==
    /\ SamplerTypeOK
    /\ HistoryTypeOK
    /\ Visits
    /\ \A l \in Locations : LedgerBound(l) /\ FirstSight(l) /\ OneVeth(l)
    /\ ChargedExactly

-----------------------------------------------------------------------------
(* None of the client's locations carries traffic, or it was disabled      *)
(* since: the administrator's change, and its Reload, take over.           *)
Closed(c) ==
    \/ ~ enabled[c]
    \/ \A l \in OfClient(c) : running[l] # "up"

(* A client that the sampler remembers as within its quota and its time,   *)
(* and that no longer is, stops carrying traffic, unless the administrator *)
(* disables it or extends what it may use, or a Reload of the sampler ends *)
(* with an error.  Samples that fail, failed Reloads of others and a       *)
(* restart of the panel only put it off.                                   *)
CrossingStops ==
    \A c \in Clients :
        /\ OverQuotaNow(c) ~> ~ Over(c) \/ Closed(c) \/ pc = "failed"
        /\ ExpiredNow(c) ~> ~ expired[c] \/ Closed(c) \/ pc = "failed"

-----------------------------------------------------------------------------
(* Why it does: what the promise above rests on, but for fairness.         *)

(* The sampler has a crossing before it, or has asked for the Reload.      *)
OverPending(c) == OverQuotaNow(c) \/ (pc = "reloading" /\ Over(c))
ExpiryPending(c) == ExpiredNow(c) \/ (pc = "reloading" /\ expired[c])

(* The step that does forget a crossing: a Reload of the sampler that ends *)
(* with an error, after the memory was overwritten (traffic.go:265).       *)
ReloadEndsInError == pc = "reloading" /\ pc' = "failed"

(* A crossing is not forgotten before the client's tunnels are closed, in  *)
(* either mode, whatever samples that end with an error, Reloads of others *)
(* that succeed or fail, panels that die and changes of the administrator  *)
(* come between, and however often something failed before.                *)
CrossingIsKept ==
    [][\A c \in Clients :
         ReloadEndsInError \/
           /\ OverPending(c) => OverPending(c)' \/ ~ Over(c)' \/ Closed(c)'
           /\ ExpiryPending(c) => ExpiryPending(c)' \/ ~ expired'[c] \/ Closed(c)']_vars

(* The steps a sample still has to take at most.                           *)
PhaseLeft == [idle |-> 0, failed |-> 0, booting |-> 1, reloading |-> 1, observing |-> 2,
              persisting |-> 1, reading |-> 2, visiting |-> 3]
SampleLeft == 4 * Cardinality(todo) + PhaseLeft[pc]

(* Every step of a sample brings it nearer to its end; only a tick or a    *)
(* start of the panel begins again.                                        *)
SampleAdvances ==
    [][<<pc, todo>>' # <<pc, todo>> /\ pc \notin {"idle", "failed"} /\ pc' # "booting" =>
         SampleLeft' < SampleLeft]_vars

=============================================================================
