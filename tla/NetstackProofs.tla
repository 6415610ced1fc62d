---------------------------- MODULE NetstackProofs ----------------------------
(***************************************************************************)
(* NetInv is an invariant of the network stack, for every set of           *)
(* locations, subnets and states and any number of faults, and the four    *)
(* properties of Netstack that the runs check follow from it.              *)
(*                                                                         *)
(* A step of Ensure or Cleanup touches one location.  What the cache says  *)
(* of it may be untrue while the call is under way (CacheIsReal says how   *)
(* much is); EnsureProgress and CleanupProgress carry what the call has    *)
(* brought about so far to its last step, which makes the new entry true   *)
(* and StoppedLeavesNothing true of the location again.  An Ensure that    *)
(* fails after it has set the link, a Cleanup that returns an error and a  *)
(* rule taken from another location are entered in lapses instead, and the *)
(* part of the entry that the lapse leaves alone stays true.               *)
(***************************************************************************)
EXTENDS Netstack, TLAPS

(* The fields of an ensured state.                                         *)
LEMMA StateFields ==
  \A s \in State :
    s.dns \in Dns /\ s.speed \in Speeds \cup {NoLimit} /\ s.traffic \in BOOLEAN
BY DEF State

(* Every location has a subnet.                                            *)
LEMMA SubnetOf == \A l \in Locations : Subnet[l] \in Subnets
BY DEF Subnets

(* A step of Cleanup leads to a step of Cleanup.                           *)
LEMMA NextCleanupStep == \A step \in DOMAIN NextCleanup : NextCleanup[step] \in
     CleanupSteps
BY DEF NextCleanup, CleanupSteps

(* The entry that Ensure makes at its end is what it has brought about.    *)
LEMMA EntryIsReal ==
  ASSUME NetInv, At("remember"), EnterState, UNCHANGED kernelVars,
         NEW l \in Locations, l = Here
  PROVE  (Built(l) /\ Configured(l))'
<1>1. ensured'[l] = call.state /\ (~ call.kept => lapses'[l] = {})
      /\ (call.kept => lapses'[l] = {"limit"})
  BY DEF NetInv, NetstackTypeOK, EnterState
<1>2. /\ have[l] = Items
      /\ link[l] = IF call.state.traffic THEN "up" ELSE "down"
      /\ nat
      /\ rules[Subnet[l]] > 0
      /\ dns[l] = call.state.dns
      /\ ~ call.kept => qdisc[l].host = call.state.speed /\ qdisc[l].peer = call.state.speed
  BY DEF NetInv, EnsureProgress, LastSteps, At
<1>3. ~ call.kept => qdisc[l] = [host |-> call.state.speed, peer |-> call.state.speed]
  <2>1. qdisc[l] \in [host : Speeds \cup {NoLimit}, peer : Speeds \cup {NoLimit}]
    BY DEF NetInv, NetstackTypeOK, KernelTypeOK
  <2> QED
    BY <1>2, <2>1
<1>4. Built(l)'
  BY <1>1, <1>2 DEF Built, Lapsed, kernelVars
<1>5. Configured(l)'
  BY <1>1, <1>2, <1>3 DEF Configured, Lapsed, kernelVars, Items
<1> QED
  BY <1>4, <1>5

(* The entries of the other locations stay what they are.                  *)
LEMMA OthersStayReal ==
  ASSUME NetInv, EnterState, UNCHANGED kernelVars,
         NEW l \in Locations, l # Here, ensured'[l] # None
  PROVE  (Built(l) /\ Configured(l))'
<1>1. ensured'[l] = ensured[l] /\ lapses'[l] = lapses[l]
  BY DEF NetInv, NetstackTypeOK, EnterState
<1>2. Built(l) /\ Configured(l)
  BY <1>1 DEF NetInv, CacheIsReal, Here
<1> QED
  BY <1>1, <1>2 DEF Built, Configured, Lapsed, kernelVars

(* A stack that has just started satisfies the invariant.                  *)
LEMMA NetInit == Init => NetInv
<1> SUFFICES ASSUME Init PROVE NetInv
  OBVIOUS
<1> USE NetstackAssumption, SubnetOf DEF Init, NoCall, At
<1>1. KernelTypeOK
  BY DEF KernelTypeOK
<1>2. call \in Call
  BY DEF Call
<1>3. NetstackTypeOK
  BY <1>1, <1>2 DEF NetstackTypeOK
<1>4. CallShape /\ EnsureProgress /\ CleanupProgress
  BY DEF CallShape, EnsureProgress, CleanupProgress, EnsureSteps, LastSteps, Needs
<1>5. CacheIsReal /\ StoppedLeavesNothing
  BY DEF CacheIsReal, StoppedLeavesNothing
<1> QED
  BY <1>3, <1>4, <1>5 DEF NetInv

(* Every command of Ensure and Cleanup, failed or not, every act of the    *)
(* runner and the panel's death keep the invariant.                        *)
LEMMA NetStep == NetInv /\ [Next]_vars => NetInv'
<1> SUFFICES ASSUME NetInv, [Next]_vars PROVE NetInv'
  OBVIOUS
<1> USE NetstackAssumption, StateFields, SubnetOf, NextCleanupStep
    DEF NetInv, NetstackTypeOK, CallShape, EnsureSteps, CleanupSteps, LastSteps,
        Needs, At, Goto, Here, Add, Works, NoCall, NoDevice, Items, OfVeth,
        vars, kernelVars, history, Changing
<1>1. CASE CacheHit
  <2>1. KernelTypeOK'
    BY <1>1 DEF KernelTypeOK, CacheHit
  <2>2. /\ ensured' \in [Locations -> State \cup {None}]
        /\ process' \in [Locations -> {"none", "up", "dead"}]
        /\ faults' \in Nat /\ spoiled' \in [Locations -> BOOLEAN]
        /\ lapses' \in [Locations -> SUBSET Lapses]
    BY <1>1 DEF Fault, Call, CacheHit
  <2>3. CallShape'
    BY <1>1 DEF CallShape, CacheHit
  <2>4. EnsureProgress'
    BY <1>1 DEF EnsureProgress, CacheHit, KernelTypeOK, Call, Possible
  <2>5. CleanupProgress'
    BY <1>1 DEF CleanupProgress, CacheHit, KernelTypeOK, Call, Possible
  <2>6. CacheIsReal'
    BY <1>1 DEF CacheIsReal, CacheHit, KernelTypeOK, Call, Built, Configured,
         Lapsed
  <2>7. StoppedLeavesNothing'
    BY <1>1 DEF StoppedLeavesNothing, CacheHit, KernelTypeOK, Call
  <2>8. call' \in Call
    BY <1>1 DEF Call, CacheHit
  <2> QED
    BY <2>1, <2>2, <2>3, <2>4, <2>5, <2>6, <2>7, <2>8 DEF NetstackTypeOK
<1>2. CASE CacheMiss
  <2>1. KernelTypeOK'
    BY <1>2 DEF KernelTypeOK, CacheMiss
  <2>2. /\ ensured' \in [Locations -> State \cup {None}]
        /\ process' \in [Locations -> {"none", "up", "dead"}]
        /\ faults' \in Nat /\ spoiled' \in [Locations -> BOOLEAN]
        /\ lapses' \in [Locations -> SUBSET Lapses]
    BY <1>2 DEF Fault, Call, CacheMiss
  <2>3. CallShape'
    BY <1>2 DEF CallShape, CacheMiss
  <2>4. EnsureProgress'
    BY <1>2 DEF EnsureProgress, CacheMiss, KernelTypeOK, Call, Possible
  <2>5. CleanupProgress'
    BY <1>2 DEF CleanupProgress, CacheMiss, KernelTypeOK, Call, Possible
  <2>6. CacheIsReal'
    BY <1>2 DEF CacheIsReal, CacheMiss, KernelTypeOK, Call, Built, Configured,
         Lapsed
  <2>7. StoppedLeavesNothing'
    BY <1>2 DEF StoppedLeavesNothing, CacheMiss, KernelTypeOK, Call
  <2>8. call' \in Call
    BY <1>2 DEF Call, CacheMiss
  <2> QED
    BY <2>1, <2>2, <2>3, <2>4, <2>5, <2>6, <2>7, <2>8 DEF NetstackTypeOK
<1>3. CASE EnsureNamespace
  <2>1. KernelTypeOK'
    BY <1>3 DEF KernelTypeOK, EnsureNamespace
  <2>2. /\ ensured' \in [Locations -> State \cup {None}]
        /\ process' \in [Locations -> {"none", "up", "dead"}]
        /\ faults' \in Nat /\ spoiled' \in [Locations -> BOOLEAN]
        /\ lapses' \in [Locations -> SUBSET Lapses]
    BY <1>3 DEF Fault, Call, EnsureNamespace
  <2>3. CallShape'
    BY <1>3 DEF CallShape, EnsureNamespace
  <2>4. EnsureProgress'
    BY <1>3 DEF EnsureProgress, EnsureNamespace, KernelTypeOK, Call, Possible
  <2>5. CleanupProgress'
    BY <1>3 DEF CleanupProgress, EnsureNamespace, KernelTypeOK, Call, Possible
  <2>6. CacheIsReal'
    BY <1>3 DEF CacheIsReal, EnsureNamespace, KernelTypeOK, Call, Built, Configured,
         Lapsed
  <2>7. StoppedLeavesNothing'
    BY <1>3 DEF StoppedLeavesNothing, EnsureNamespace, KernelTypeOK, Call
  <2>8. call' \in Call
    BY <1>3 DEF Call, EnsureNamespace
  <2> QED
    BY <2>1, <2>2, <2>3, <2>4, <2>5, <2>6, <2>7, <2>8 DEF NetstackTypeOK
<1>4. CASE EnsureVeth
  <2>1. KernelTypeOK'
    BY <1>4 DEF KernelTypeOK, EnsureVeth
  <2>2. /\ ensured' \in [Locations -> State \cup {None}]
        /\ process' \in [Locations -> {"none", "up", "dead"}]
        /\ faults' \in Nat /\ spoiled' \in [Locations -> BOOLEAN]
        /\ lapses' \in [Locations -> SUBSET Lapses]
    BY <1>4 DEF Fault, Call, EnsureVeth
  <2>3. CallShape'
    BY <1>4 DEF CallShape, EnsureVeth
  <2>4. EnsureProgress'
    BY <1>4 DEF EnsureProgress, EnsureVeth, KernelTypeOK, Call, Possible
  <2>5. CleanupProgress'
    BY <1>4 DEF CleanupProgress, EnsureVeth, KernelTypeOK, Call, Possible
  <2>6. CacheIsReal'
    BY <1>4 DEF CacheIsReal, EnsureVeth, KernelTypeOK, Call, Built, Configured,
         Lapsed
  <2>7. StoppedLeavesNothing'
    BY <1>4 DEF StoppedLeavesNothing, EnsureVeth, KernelTypeOK, Call
  <2>8. call' \in Call
    BY <1>4 DEF Call, EnsureVeth
  <2> QED
    BY <2>1, <2>2, <2>3, <2>4, <2>5, <2>6, <2>7, <2>8 DEF NetstackTypeOK
<1>5. CASE MovePeer
  <2>1. KernelTypeOK'
    BY <1>5 DEF KernelTypeOK, MovePeer
  <2>2. /\ ensured' \in [Locations -> State \cup {None}]
        /\ process' \in [Locations -> {"none", "up", "dead"}]
        /\ faults' \in Nat /\ spoiled' \in [Locations -> BOOLEAN]
        /\ lapses' \in [Locations -> SUBSET Lapses]
    BY <1>5 DEF Fault, Call, MovePeer
  <2>3. CallShape'
    BY <1>5 DEF CallShape, MovePeer
  <2>4. EnsureProgress'
    BY <1>5 DEF EnsureProgress, MovePeer, KernelTypeOK, Call, Possible
  <2>5. CleanupProgress'
    BY <1>5 DEF CleanupProgress, MovePeer, KernelTypeOK, Call, Possible
  <2>6. CacheIsReal'
    BY <1>5 DEF CacheIsReal, MovePeer, KernelTypeOK, Call, Built, Configured,
         Lapsed
  <2>7. StoppedLeavesNothing'
    BY <1>5 DEF StoppedLeavesNothing, MovePeer, KernelTypeOK, Call
  <2>8. call' \in Call
    BY <1>5 DEF Call, MovePeer
  <2> QED
    BY <2>1, <2>2, <2>3, <2>4, <2>5, <2>6, <2>7, <2>8 DEF NetstackTypeOK
<1>6. ASSUME NEW step \in DOMAIN Needs, Configure(step) PROVE NetInv'
  <2>1. KernelTypeOK'
    BY <1>6 DEF KernelTypeOK, Configure, After
  <2>2. /\ ensured' \in [Locations -> State \cup {None}]
        /\ process' \in [Locations -> {"none", "up", "dead"}]
        /\ faults' \in Nat /\ spoiled' \in [Locations -> BOOLEAN]
        /\ lapses' \in [Locations -> SUBSET Lapses]
    BY <1>6 DEF Fault, Call, Configure, After
  <2>3. CallShape'
    BY <1>6 DEF CallShape, Configure, After
  <2>4. EnsureProgress'
    BY <1>6 DEF EnsureProgress, Configure, After, KernelTypeOK, Call, Possible
  <2>5. CleanupProgress'
    BY <1>6 DEF CleanupProgress, Configure, After, KernelTypeOK, Call, Possible
  <2>6. CacheIsReal'
    BY <1>6 DEF CacheIsReal, Configure, After, KernelTypeOK, Call, Built, Configured,
         Lapsed
  <2>7. StoppedLeavesNothing'
    BY <1>6 DEF StoppedLeavesNothing, Configure, After, KernelTypeOK, Call
  <2>8. call' \in Call
    BY <1>6 DEF Call, Configure, After
  <2> QED
    BY <2>1, <2>2, <2>3, <2>4, <2>5, <2>6, <2>7, <2>8 DEF NetstackTypeOK
<1>7. CASE SetLink
  <2>1. KernelTypeOK'
    BY <1>7 DEF KernelTypeOK, SetLink
  <2>2. /\ ensured' \in [Locations -> State \cup {None}]
        /\ process' \in [Locations -> {"none", "up", "dead"}]
        /\ faults' \in Nat /\ spoiled' \in [Locations -> BOOLEAN]
        /\ lapses' \in [Locations -> SUBSET Lapses]
    BY <1>7 DEF Fault, Call, SetLink
  <2>3. CallShape'
    BY <1>7 DEF CallShape, SetLink
  <2>4. EnsureProgress'
    BY <1>7 DEF EnsureProgress, SetLink, KernelTypeOK, Call, Possible
  <2>5. CleanupProgress'
    BY <1>7 DEF CleanupProgress, SetLink, KernelTypeOK, Call, Possible
  <2>6. CacheIsReal'
    BY <1>7 DEF CacheIsReal, SetLink, KernelTypeOK, Call, Built, Configured,
         Lapsed
  <2>7. StoppedLeavesNothing'
    BY <1>7 DEF StoppedLeavesNothing, SetLink, KernelTypeOK, Call
  <2>8. call' \in Call
    BY <1>7 DEF Call, SetLink
  <2> QED
    BY <2>1, <2>2, <2>3, <2>4, <2>5, <2>6, <2>7, <2>8 DEF NetstackTypeOK
<1>8. CASE AddRoute
  <2>1. KernelTypeOK'
    BY <1>8 DEF KernelTypeOK, AddRoute
  <2>2. /\ ensured' \in [Locations -> State \cup {None}]
        /\ process' \in [Locations -> {"none", "up", "dead"}]
        /\ faults' \in Nat /\ spoiled' \in [Locations -> BOOLEAN]
        /\ lapses' \in [Locations -> SUBSET Lapses]
    BY <1>8 DEF Fault, Call, AddRoute
  <2>3. CallShape'
    BY <1>8 DEF CallShape, AddRoute
  <2>4. EnsureProgress'
    BY <1>8 DEF EnsureProgress, AddRoute, KernelTypeOK, Call, Possible
  <2>5. CleanupProgress'
    BY <1>8 DEF CleanupProgress, AddRoute, KernelTypeOK, Call, Possible
  <2>6. CacheIsReal'
    BY <1>8 DEF CacheIsReal, AddRoute, KernelTypeOK, Call, Built, Configured,
         Lapsed
  <2>7. StoppedLeavesNothing'
    BY <1>8 DEF StoppedLeavesNothing, AddRoute, KernelTypeOK, Call
  <2>8. call' \in Call
    BY <1>8 DEF Call, AddRoute
  <2> QED
    BY <2>1, <2>2, <2>3, <2>4, <2>5, <2>6, <2>7, <2>8 DEF NetstackTypeOK
<1>9. CASE EnsureChain
  <2>1. KernelTypeOK'
    BY <1>9 DEF KernelTypeOK, EnsureChain
  <2>2. /\ ensured' \in [Locations -> State \cup {None}]
        /\ process' \in [Locations -> {"none", "up", "dead"}]
        /\ faults' \in Nat /\ spoiled' \in [Locations -> BOOLEAN]
        /\ lapses' \in [Locations -> SUBSET Lapses]
    BY <1>9 DEF Fault, Call, EnsureChain
  <2>3. CallShape'
    BY <1>9 DEF CallShape, EnsureChain
  <2>4. EnsureProgress'
    BY <1>9 DEF EnsureProgress, EnsureChain, KernelTypeOK, Call, Possible
  <2>5. CleanupProgress'
    BY <1>9 DEF CleanupProgress, EnsureChain, KernelTypeOK, Call, Possible
  <2>6. CacheIsReal'
    BY <1>9 DEF CacheIsReal, EnsureChain, KernelTypeOK, Call, Built, Configured,
         Lapsed
  <2>7. StoppedLeavesNothing'
    BY <1>9 DEF StoppedLeavesNothing, EnsureChain, KernelTypeOK, Call
  <2>8. call' \in Call
    BY <1>9 DEF Call, EnsureChain
  <2> QED
    BY <2>1, <2>2, <2>3, <2>4, <2>5, <2>6, <2>7, <2>8 DEF NetstackTypeOK
<1>10. CASE EnsureRule
  <2>1. KernelTypeOK'
    BY <1>10 DEF KernelTypeOK, EnsureRule
  <2>2. /\ ensured' \in [Locations -> State \cup {None}]
        /\ process' \in [Locations -> {"none", "up", "dead"}]
        /\ faults' \in Nat /\ spoiled' \in [Locations -> BOOLEAN]
        /\ lapses' \in [Locations -> SUBSET Lapses]
    BY <1>10 DEF Fault, Call, EnsureRule
  <2>3. CallShape'
    BY <1>10 DEF CallShape, EnsureRule
  <2>4. EnsureProgress'
    BY <1>10 DEF EnsureProgress, EnsureRule, KernelTypeOK, Call, Possible
  <2>5. CleanupProgress'
    BY <1>10 DEF CleanupProgress, EnsureRule, KernelTypeOK, Call, Possible
  <2>6. CacheIsReal'
    BY <1>10 DEF CacheIsReal, EnsureRule, KernelTypeOK, Call, Built, Configured,
         Lapsed
  <2>7. StoppedLeavesNothing'
    BY <1>10 DEF StoppedLeavesNothing, EnsureRule, KernelTypeOK, Call
  <2>8. call' \in Call
    BY <1>10 DEF Call, EnsureRule
  <2> QED
    BY <2>1, <2>2, <2>3, <2>4, <2>5, <2>6, <2>7, <2>8 DEF NetstackTypeOK
<1>11. CASE DuplicateRule
  <2>1. KernelTypeOK'
    BY <1>11 DEF KernelTypeOK, DuplicateRule
  <2>2. /\ ensured' \in [Locations -> State \cup {None}]
        /\ process' \in [Locations -> {"none", "up", "dead"}]
        /\ faults' \in Nat /\ spoiled' \in [Locations -> BOOLEAN]
        /\ lapses' \in [Locations -> SUBSET Lapses]
    BY <1>11 DEF Fault, Call, DuplicateRule
  <2>3. CallShape'
    BY <1>11 DEF CallShape, DuplicateRule
  <2>4. EnsureProgress'
    BY <1>11 DEF EnsureProgress, DuplicateRule, KernelTypeOK, Call, Possible
  <2>5. CleanupProgress'
    BY <1>11 DEF CleanupProgress, DuplicateRule, KernelTypeOK, Call, Possible
  <2>6. CacheIsReal'
    BY <1>11 DEF CacheIsReal, DuplicateRule, KernelTypeOK, Call, Built, Configured,
         Lapsed
  <2>7. StoppedLeavesNothing'
    BY <1>11 DEF StoppedLeavesNothing, DuplicateRule, KernelTypeOK, Call
  <2>8. call' \in Call
    BY <1>11 DEF Call, DuplicateRule
  <2> QED
    BY <2>1, <2>2, <2>3, <2>4, <2>5, <2>6, <2>7, <2>8 DEF NetstackTypeOK
<1>12. CASE WriteDNS
  <2>1. KernelTypeOK'
    BY <1>12 DEF KernelTypeOK, WriteDNS
  <2>2. /\ ensured' \in [Locations -> State \cup {None}]
        /\ process' \in [Locations -> {"none", "up", "dead"}]
        /\ faults' \in Nat /\ spoiled' \in [Locations -> BOOLEAN]
        /\ lapses' \in [Locations -> SUBSET Lapses]
    BY <1>12 DEF Fault, Call, WriteDNS
  <2>3. CallShape'
    BY <1>12 DEF CallShape, WriteDNS
  <2>4. EnsureProgress'
    BY <1>12 DEF EnsureProgress, WriteDNS, KernelTypeOK, Call, Possible
  <2>5. CleanupProgress'
    BY <1>12 DEF CleanupProgress, WriteDNS, KernelTypeOK, Call, Possible
  <2>6. CacheIsReal'
    BY <1>12 DEF CacheIsReal, WriteDNS, KernelTypeOK, Call, Built, Configured,
         Lapsed
  <2>7. StoppedLeavesNothing'
    BY <1>12 DEF StoppedLeavesNothing, WriteDNS, KernelTypeOK, Call
  <2>8. call' \in Call
    BY <1>12 DEF Call, WriteDNS
  <2> QED
    BY <2>1, <2>2, <2>3, <2>4, <2>5, <2>6, <2>7, <2>8 DEF NetstackTypeOK
<1>13. CASE LimitHost
  <2>1. KernelTypeOK'
    BY <1>13 DEF KernelTypeOK, LimitHost
  <2>2. /\ ensured' \in [Locations -> State \cup {None}]
        /\ process' \in [Locations -> {"none", "up", "dead"}]
        /\ faults' \in Nat /\ spoiled' \in [Locations -> BOOLEAN]
        /\ lapses' \in [Locations -> SUBSET Lapses]
    BY <1>13 DEF Fault, Call, LimitHost
  <2>3. CallShape'
    BY <1>13 DEF CallShape, LimitHost
  <2>4. EnsureProgress'
    BY <1>13 DEF EnsureProgress, LimitHost, KernelTypeOK, Call, Possible
  <2>5. CleanupProgress'
    BY <1>13 DEF CleanupProgress, LimitHost, KernelTypeOK, Call, Possible
  <2>6. CacheIsReal'
    BY <1>13 DEF CacheIsReal, LimitHost, KernelTypeOK, Call, Built, Configured,
         Lapsed
  <2>7. StoppedLeavesNothing'
    BY <1>13 DEF StoppedLeavesNothing, LimitHost, KernelTypeOK, Call
  <2>8. call' \in Call
    BY <1>13 DEF Call, LimitHost
  <2> QED
    BY <2>1, <2>2, <2>3, <2>4, <2>5, <2>6, <2>7, <2>8 DEF NetstackTypeOK
<1>14. CASE LimitPeer
  <2>1. KernelTypeOK'
    BY <1>14 DEF KernelTypeOK, LimitPeer
  <2>2. /\ ensured' \in [Locations -> State \cup {None}]
        /\ process' \in [Locations -> {"none", "up", "dead"}]
        /\ faults' \in Nat /\ spoiled' \in [Locations -> BOOLEAN]
        /\ lapses' \in [Locations -> SUBSET Lapses]
    BY <1>14 DEF Fault, Call, LimitPeer
  <2>3. CallShape'
    BY <1>14 DEF CallShape, LimitPeer
  <2>4. EnsureProgress'
    BY <1>14 DEF EnsureProgress, LimitPeer, KernelTypeOK, Call, Possible
  <2>5. CleanupProgress'
    BY <1>14 DEF CleanupProgress, LimitPeer, KernelTypeOK, Call, Possible
  <2>6. CacheIsReal'
    BY <1>14 DEF CacheIsReal, LimitPeer, KernelTypeOK, Call, Built, Configured,
         Lapsed
  <2>7. StoppedLeavesNothing'
    BY <1>14 DEF StoppedLeavesNothing, LimitPeer, KernelTypeOK, Call
  <2>8. call' \in Call
    BY <1>14 DEF Call, LimitPeer
  <2> QED
    BY <2>1, <2>2, <2>3, <2>4, <2>5, <2>6, <2>7, <2>8 DEF NetstackTypeOK
<1>15. CASE LimitStays
  <2>1. KernelTypeOK'
    BY <1>15 DEF KernelTypeOK, LimitStays, Fails
  <2>2. /\ ensured' \in [Locations -> State \cup {None}]
        /\ process' \in [Locations -> {"none", "up", "dead"}]
        /\ faults' \in Nat /\ spoiled' \in [Locations -> BOOLEAN]
        /\ lapses' \in [Locations -> SUBSET Lapses]
    BY <1>15 DEF Fault, Call, LimitStays, Fails
  <2>3. CallShape'
    BY <1>15 DEF CallShape, LimitStays, Fails
  <2>4. EnsureProgress'
    BY <1>15 DEF EnsureProgress, LimitStays, Fails, KernelTypeOK, Call, Possible
  <2>5. CleanupProgress'
    BY <1>15 DEF CleanupProgress, LimitStays, Fails, KernelTypeOK, Call, Possible
  <2>6. CacheIsReal'
    BY <1>15 DEF CacheIsReal, LimitStays, Fails, KernelTypeOK, Call, Built, Configured,
         Lapsed
  <2>7. StoppedLeavesNothing'
    BY <1>15 DEF StoppedLeavesNothing, LimitStays, Fails, KernelTypeOK, Call
  <2>8. call' \in Call
    BY <1>15 DEF Call, LimitStays, Fails
  <2> QED
    BY <2>1, <2>2, <2>3, <2>4, <2>5, <2>6, <2>7, <2>8 DEF NetstackTypeOK
<1>16. CASE Remember
  <2>1. KernelTypeOK'
    BY <1>16 DEF KernelTypeOK, Remember
  <2>2. /\ ensured' \in [Locations -> State \cup {None}]
        /\ process' \in [Locations -> {"none", "up", "dead"}]
        /\ faults' \in Nat /\ spoiled' \in [Locations -> BOOLEAN]
        /\ lapses' \in [Locations -> SUBSET Lapses]
    BY <1>16 DEF Fault, Call, Remember, EnterState, Lapses
  <2>3. CallShape'
    BY <1>16 DEF CallShape, Remember
  <2>4. EnsureProgress'
    BY <1>16 DEF EnsureProgress, Remember, KernelTypeOK, Call, Possible
  <2>5. CleanupProgress'
    BY <1>16 DEF CleanupProgress, Remember, KernelTypeOK, Call, Possible
  <2>6. CacheIsReal'
    <3>1. ASSUME NEW l \in Locations, ensured'[l] # None PROVE (Built(l) /\ Configured(l))'
      BY <1>16, <3>1, EntryIsReal, OthersStayReal DEF Remember
    <3>2. nat'
      BY <1>16 DEF Remember, EnsureProgress
    <3> QED
      BY <3>1, <3>2 DEF CacheIsReal
  <2>7. StoppedLeavesNothing'
    BY <1>16 DEF StoppedLeavesNothing, Remember, KernelTypeOK, Call
  <2>8. call' \in Call
    BY <1>16 DEF Call, Remember
  <2> QED
    BY <2>1, <2>2, <2>3, <2>4, <2>5, <2>6, <2>7, <2>8 DEF NetstackTypeOK
<1>17. CASE RememberAndUndo
  <2>1. KernelTypeOK'
    BY <1>17 DEF KernelTypeOK, RememberAndUndo
  <2>2. /\ ensured' \in [Locations -> State \cup {None}]
        /\ process' \in [Locations -> {"none", "up", "dead"}]
        /\ faults' \in Nat /\ spoiled' \in [Locations -> BOOLEAN]
        /\ lapses' \in [Locations -> SUBSET Lapses]
    BY <1>17 DEF Fault, Call, RememberAndUndo, EnterState, Lapses
  <2>3. CallShape'
    BY <1>17 DEF CallShape, RememberAndUndo
  <2>4. EnsureProgress'
    BY <1>17 DEF EnsureProgress, RememberAndUndo, KernelTypeOK, Call, Possible
  <2>5. CleanupProgress'
    BY <1>17 DEF CleanupProgress, RememberAndUndo, KernelTypeOK, Call, Possible
  <2>6. CacheIsReal'
    <3>1. ASSUME NEW l \in Locations, ensured'[l] # None, l # Here
          PROVE  (Built(l) /\ Configured(l))'
      BY <1>17, <3>1, OthersStayReal DEF RememberAndUndo
    <3>2. call'.loc = Here /\ call'.step = "noLimits"
      BY <1>17 DEF RememberAndUndo, Call
    <3>3. nat'
      BY <1>17 DEF RememberAndUndo, EnsureProgress
    <3> QED
      BY <3>1, <3>2, <3>3 DEF CacheIsReal
  <2>7. StoppedLeavesNothing'
    BY <1>17 DEF StoppedLeavesNothing, RememberAndUndo, KernelTypeOK, Call
  <2>8. call' \in Call
    BY <1>17 DEF Call, RememberAndUndo
  <2> QED
    BY <2>1, <2>2, <2>3, <2>4, <2>5, <2>6, <2>7, <2>8 DEF NetstackTypeOK
<1>18. CASE EnsureFails
  <2>1. KernelTypeOK'
    BY <1>18 DEF KernelTypeOK, EnsureFails, Fails, Unsure
  <2>2. /\ ensured' \in [Locations -> State \cup {None}]
        /\ process' \in [Locations -> {"none", "up", "dead"}]
        /\ faults' \in Nat /\ spoiled' \in [Locations -> BOOLEAN]
        /\ lapses' \in [Locations -> SUBSET Lapses]
    BY <1>18 DEF Fault, Call, EnsureFails, Fails, Unsure, Lapses
  <2>3. CallShape'
    BY <1>18 DEF CallShape, EnsureFails, Fails, Unsure
  <2>4. EnsureProgress'
    BY <1>18 DEF EnsureProgress, EnsureFails, Fails, Unsure, KernelTypeOK, Call, Possible
  <2>5. CleanupProgress'
    BY <1>18 DEF CleanupProgress, EnsureFails, Fails, Unsure, KernelTypeOK, Call, Possible
  <2>6. CacheIsReal'
    <3> SUFFICES ASSUME NEW l \in Locations, ensured'[l] # None
                 PROVE  nat' /\ (Built(l) /\ Configured(l))'
      BY DEF CacheIsReal
    <3>1. /\ UNCHANGED kernelVars /\ UNCHANGED ensured /\ nat
          /\ call.step \in EnsureSteps \ {"check", "remember"}
      BY <1>18 DEF EnsureFails, Fails, CacheIsReal
    <3>2. Built(l)
      BY <3>1 DEF CacheIsReal
    <3>3. CASE l = Here /\ call.step \in Changing
      <4>1. "ensure" \in lapses'[l] /\ lapses[l] \subseteq lapses'[l]
        BY <1>18, <3>3 DEF EnsureFails
      <4> QED
        BY <3>1, <3>2, <4>1 DEF Built, Configured, Lapsed
    <3>4. CASE ~ (l = Here /\ call.step \in Changing)
      <4>1. lapses'[l] = lapses[l]
        BY <1>18, <3>4 DEF EnsureFails
      <4>2. Configured(l)
        BY <3>1, <3>4 DEF CacheIsReal
      <4> QED
        BY <3>1, <3>2, <4>1, <4>2 DEF Built, Configured, Lapsed
    <3> QED
      BY <3>3, <3>4
  <2>7. StoppedLeavesNothing'
    BY <1>18 DEF StoppedLeavesNothing, EnsureFails, Fails, Unsure, KernelTypeOK, Call
  <2>8. call' \in Call
    BY <1>18 DEF Call, EnsureFails, Fails, Unsure
  <2> QED
    BY <2>1, <2>2, <2>3, <2>4, <2>5, <2>6, <2>7, <2>8 DEF NetstackTypeOK
<1>19. CASE PassedOver
  <2>1. KernelTypeOK'
    BY <1>19 DEF KernelTypeOK, PassedOver
  <2>2. /\ ensured' \in [Locations -> State \cup {None}]
        /\ process' \in [Locations -> {"none", "up", "dead"}]
        /\ faults' \in Nat /\ spoiled' \in [Locations -> BOOLEAN]
        /\ lapses' \in [Locations -> SUBSET Lapses]
    BY <1>19 DEF Fault, Call, PassedOver
  <2>3. CallShape'
    <3>1. At("idle")' <=> FALSE
      BY <1>19, NextCleanupStep DEF PassedOver, NextCleanup
    <3>2. call'.loc = call.loc /\ call'.step \notin EnsureSteps
      BY <1>19 DEF PassedOver, NextCleanup, Call
    <3> QED
      BY <1>19, <3>1, <3>2 DEF CallShape, PassedOver, NextCleanup
  <2>4. EnsureProgress'
    BY <1>19 DEF EnsureProgress, PassedOver, KernelTypeOK, Call, Possible
  <2>5. CleanupProgress'
    BY <1>19 DEF CleanupProgress, PassedOver, KernelTypeOK, Call, Possible
  <2>6. CacheIsReal'
    BY <1>19 DEF CacheIsReal, PassedOver, KernelTypeOK, Call, Built, Configured,
         Lapsed
  <2>7. StoppedLeavesNothing'
    BY <1>19 DEF StoppedLeavesNothing, PassedOver, KernelTypeOK, Call
  <2>8. call' \in Call
    BY <1>19 DEF Call, PassedOver
  <2> QED
    BY <2>1, <2>2, <2>3, <2>4, <2>5, <2>6, <2>7, <2>8 DEF NetstackTypeOK
<1>20. CASE DeleteLimits
  <2>1. KernelTypeOK'
    BY <1>20 DEF KernelTypeOK, DeleteLimits, Cleans, NextCleanup
  <2>2. /\ ensured' \in [Locations -> State \cup {None}]
        /\ process' \in [Locations -> {"none", "up", "dead"}]
        /\ faults' \in Nat /\ spoiled' \in [Locations -> BOOLEAN]
        /\ lapses' \in [Locations -> SUBSET Lapses]
    BY <1>20 DEF Fault, Call, DeleteLimits, Cleans, NextCleanup
  <2>3. CallShape'
    BY <1>20 DEF CallShape, DeleteLimits, Cleans, NextCleanup
  <2>4. EnsureProgress'
    BY <1>20 DEF EnsureProgress, DeleteLimits, Cleans, NextCleanup, KernelTypeOK, Call,
         Possible
  <2>5. CleanupProgress'
    BY <1>20 DEF CleanupProgress, DeleteLimits, Cleans, NextCleanup, KernelTypeOK, Call,
         Possible
  <2>6. CacheIsReal'
    BY <1>20 DEF CacheIsReal, DeleteLimits, Cleans, NextCleanup, KernelTypeOK, Call,
         Built, Configured, Lapsed
  <2>7. StoppedLeavesNothing'
    BY <1>20 DEF StoppedLeavesNothing, DeleteLimits, Cleans, NextCleanup, KernelTypeOK,
         Call
  <2>8. call' \in Call
    BY <1>20 DEF Call, DeleteLimits, Cleans, NextCleanup
  <2> QED
    BY <2>1, <2>2, <2>3, <2>4, <2>5, <2>6, <2>7, <2>8 DEF NetstackTypeOK
<1>21. CASE DeleteRule
  <2>1. KernelTypeOK'
    <3>1. Subnet[Here] \in Subnets /\ rules[Subnet[Here]] \in Nat
      BY <1>21 DEF KernelTypeOK, DeleteRule, Cleans
    <3>2. (IF rules[Subnet[Here]] = 0 THEN 0 ELSE rules[Subnet[Here]] - 1) \in Nat
      BY <3>1
    <3>3. rules' \in [Subnets -> Nat]
      BY <1>21, <3>2 DEF KernelTypeOK, DeleteRule
    <3> QED
      BY <1>21, <3>3 DEF KernelTypeOK, DeleteRule, Cleans
  <2>2. /\ ensured' \in [Locations -> State \cup {None}]
        /\ process' \in [Locations -> {"none", "up", "dead"}]
        /\ faults' \in Nat /\ spoiled' \in [Locations -> BOOLEAN]
        /\ lapses' \in [Locations -> SUBSET Lapses]
    BY <1>21 DEF Fault, Call, DeleteRule, Cleans, NextCleanup, Lapses
  <2>3. CallShape'
    BY <1>21 DEF CallShape, DeleteRule, Cleans, NextCleanup
  <2>4. EnsureProgress'
    BY <1>21 DEF EnsureProgress, DeleteRule, Cleans, NextCleanup, KernelTypeOK, Call,
         Possible
  <2>5. CleanupProgress'
    BY <1>21 DEF CleanupProgress, DeleteRule, Cleans, NextCleanup, KernelTypeOK, Call,
         Possible
  <2>6. CacheIsReal'
    <3>1. /\ UNCHANGED <<have, link, qdisc, dns, nat, ensured>>
          /\ call'.loc = Here /\ call'.step = "noVeth" /\ Here \in Locations
          /\ rules \in [Subnets -> Nat]
      BY <1>21 DEF DeleteRule, Cleans, NextCleanup, KernelTypeOK, Call
    <3>2. ASSUME NEW l \in Locations, ensured[l] # None, l # Here
          PROVE  (Built(l) /\ Configured(l))'
      <4>1. Built(l) /\ Configured(l)
        BY <3>2 DEF CacheIsReal
      <4>2. CASE Subnet[l] = Subnet[Here] /\ rules[Subnet[Here]] <= 1
        <5>1. "rule" \in lapses'[l] /\ lapses[l] \subseteq lapses'[l]
          BY <1>21, <3>2, <4>2 DEF DeleteRule
        <5> QED
          BY <3>1, <4>1, <5>1 DEF Built, Configured, Lapsed
      <4>3. CASE ~ (Subnet[l] = Subnet[Here] /\ rules[Subnet[Here]] <= 1)
        <5>1. lapses'[l] = lapses[l]
          BY <1>21, <4>3 DEF DeleteRule
        <5>2. rules[Subnet[l]] > 0 => rules'[Subnet[l]] > 0
          BY <1>21, <3>1, <4>3 DEF DeleteRule
        <5> QED
          BY <3>1, <4>1, <5>1, <5>2 DEF Built, Configured, Lapsed
      <4> QED
        BY <4>2, <4>3
    <3> QED
      BY <3>1, <3>2 DEF CacheIsReal
  <2>7. StoppedLeavesNothing'
    BY <1>21 DEF StoppedLeavesNothing, DeleteRule, Cleans, NextCleanup, KernelTypeOK, Call
  <2>8. call' \in Call
    BY <1>21 DEF Call, DeleteRule, Cleans, NextCleanup
  <2> QED
    BY <2>1, <2>2, <2>3, <2>4, <2>5, <2>6, <2>7, <2>8 DEF NetstackTypeOK
<1>22. CASE DeleteVeth
  <2>1. KernelTypeOK'
    BY <1>22 DEF KernelTypeOK, DeleteVeth, Cleans, NextCleanup
  <2>2. /\ ensured' \in [Locations -> State \cup {None}]
        /\ process' \in [Locations -> {"none", "up", "dead"}]
        /\ faults' \in Nat /\ spoiled' \in [Locations -> BOOLEAN]
        /\ lapses' \in [Locations -> SUBSET Lapses]
    BY <1>22 DEF Fault, Call, DeleteVeth, Cleans, NextCleanup
  <2>3. CallShape'
    BY <1>22 DEF CallShape, DeleteVeth, Cleans, NextCleanup
  <2>4. EnsureProgress'
    BY <1>22 DEF EnsureProgress, DeleteVeth, Cleans, NextCleanup, KernelTypeOK, Call,
         Possible
  <2>5. CleanupProgress'
    BY <1>22 DEF CleanupProgress, DeleteVeth, Cleans, NextCleanup, KernelTypeOK, Call,
         Possible
  <2>6. CacheIsReal'
    BY <1>22 DEF CacheIsReal, DeleteVeth, Cleans, NextCleanup, KernelTypeOK, Call, Built, Configured,
         Lapsed
  <2>7. StoppedLeavesNothing'
    BY <1>22 DEF StoppedLeavesNothing, DeleteVeth, Cleans, NextCleanup, KernelTypeOK, Call
  <2>8. call' \in Call
    BY <1>22 DEF Call, DeleteVeth, Cleans, NextCleanup
  <2> QED
    BY <2>1, <2>2, <2>3, <2>4, <2>5, <2>6, <2>7, <2>8 DEF NetstackTypeOK
<1>23. CASE DeleteNamespace
  <2>1. KernelTypeOK'
    <3>1. have' \in [Locations -> SUBSET Items]
      BY <1>23 DEF KernelTypeOK, DeleteNamespace
    <3>2. link' \in [Locations -> {"up", "down"}]
      BY <1>23 DEF KernelTypeOK, DeleteNamespace
    <3>3. qdisc' \in [Locations -> [host : Speeds \cup {NoLimit}, peer : Speeds \cup
         {NoLimit}]]
      BY <1>23 DEF KernelTypeOK, DeleteNamespace
    <3> QED
      BY <1>23, <3>1, <3>2, <3>3 DEF KernelTypeOK, DeleteNamespace, Cleans
  <2>2. /\ ensured' \in [Locations -> State \cup {None}]
        /\ process' \in [Locations -> {"none", "up", "dead"}]
        /\ faults' \in Nat /\ spoiled' \in [Locations -> BOOLEAN]
        /\ lapses' \in [Locations -> SUBSET Lapses]
    BY <1>23 DEF Fault, Call, DeleteNamespace, Cleans, NextCleanup
  <2>3. CallShape'
    BY <1>23 DEF CallShape, DeleteNamespace, Cleans, NextCleanup
  <2>4. EnsureProgress'
    BY <1>23 DEF EnsureProgress, DeleteNamespace, Cleans, NextCleanup, KernelTypeOK,
         Call, Possible
  <2>5. CleanupProgress'
    BY <1>23 DEF CleanupProgress, DeleteNamespace, Cleans, NextCleanup, KernelTypeOK,
         Call, Possible
  <2>6. CacheIsReal'
    BY <1>23 DEF CacheIsReal, DeleteNamespace, Cleans, NextCleanup, KernelTypeOK, Call,
         Built, Configured, Lapsed
  <2>7. StoppedLeavesNothing'
    BY <1>23 DEF StoppedLeavesNothing, DeleteNamespace, Cleans, NextCleanup,
         KernelTypeOK, Call
  <2>8. call' \in Call
    BY <1>23 DEF Call, DeleteNamespace, Cleans, NextCleanup
  <2> QED
    BY <2>1, <2>2, <2>3, <2>4, <2>5, <2>6, <2>7, <2>8 DEF NetstackTypeOK
<1>24. CASE RemoveResolv
  <2>1. KernelTypeOK'
    BY <1>24 DEF KernelTypeOK, RemoveResolv
  <2>2. /\ ensured' \in [Locations -> State \cup {None}]
        /\ process' \in [Locations -> {"none", "up", "dead"}]
        /\ faults' \in Nat /\ spoiled' \in [Locations -> BOOLEAN]
        /\ lapses' \in [Locations -> SUBSET Lapses]
    BY <1>24 DEF Fault, Call, RemoveResolv
  <2>3. CallShape'
    BY <1>24 DEF CallShape, RemoveResolv
  <2>4. EnsureProgress'
    BY <1>24 DEF EnsureProgress, RemoveResolv, KernelTypeOK, Call, Possible
  <2>5. CleanupProgress'
    BY <1>24 DEF CleanupProgress, RemoveResolv, KernelTypeOK, Call, Possible
  <2>6. CacheIsReal'
    BY <1>24 DEF CacheIsReal, RemoveResolv, KernelTypeOK, Call, Built, Configured,
         Lapsed
  <2>7. StoppedLeavesNothing'
    BY <1>24 DEF StoppedLeavesNothing, RemoveResolv, KernelTypeOK, Call
  <2>8. call' \in Call
    BY <1>24 DEF Call, RemoveResolv
  <2> QED
    BY <2>1, <2>2, <2>3, <2>4, <2>5, <2>6, <2>7, <2>8 DEF NetstackTypeOK
<1>25. CASE RemoveResolvFails
  <2>1. KernelTypeOK'
    BY <1>25 DEF KernelTypeOK, RemoveResolvFails
  <2>2. /\ ensured' \in [Locations -> State \cup {None}]
        /\ process' \in [Locations -> {"none", "up", "dead"}]
        /\ faults' \in Nat /\ spoiled' \in [Locations -> BOOLEAN]
        /\ lapses' \in [Locations -> SUBSET Lapses]
    BY <1>25 DEF Fault, Call, RemoveResolvFails, Lapses
  <2>3. CallShape'
    BY <1>25 DEF CallShape, RemoveResolvFails
  <2>4. EnsureProgress'
    BY <1>25 DEF EnsureProgress, RemoveResolvFails, KernelTypeOK, Call, Possible
  <2>5. CleanupProgress'
    BY <1>25 DEF CleanupProgress, RemoveResolvFails, KernelTypeOK, Call, Possible
  <2>6. CacheIsReal'
    <3>1. UNCHANGED kernelVars /\ UNCHANGED ensured /\ call' = NoCall
      BY <1>25 DEF RemoveResolvFails
    <3>2. ASSUME NEW l \in Locations, ensured[l] # None
          PROVE  nat /\ (Built(l) /\ Configured(l))'
      <4>1. CASE l = Here
        <5>1. "cleanup" \in lapses'[l]
          BY <1>25, <4>1 DEF RemoveResolvFails
        <5> QED
          BY <3>1, <3>2, <5>1 DEF Built, Configured, Lapsed, CacheIsReal
      <4>2. CASE l # Here
        <5>1. lapses'[l] = lapses[l]
          BY <1>25, <4>2 DEF RemoveResolvFails
        <5> QED
          BY <3>1, <3>2, <4>2, <5>1 DEF Built, Configured, Lapsed, CacheIsReal
      <4> QED
        BY <4>1, <4>2
    <3> QED
      BY <3>1, <3>2 DEF CacheIsReal
  <2>7. StoppedLeavesNothing'
    BY <1>25 DEF StoppedLeavesNothing, RemoveResolvFails, KernelTypeOK, Call
  <2>8. call' \in Call
    BY <1>25 DEF Call, RemoveResolvFails
  <2> QED
    BY <2>1, <2>2, <2>3, <2>4, <2>5, <2>6, <2>7, <2>8 DEF NetstackTypeOK
<1>26. CASE Forget
  <2>1. KernelTypeOK'
    BY <1>26 DEF KernelTypeOK, Forget
  <2>2. /\ ensured' \in [Locations -> State \cup {None}]
        /\ process' \in [Locations -> {"none", "up", "dead"}]
        /\ faults' \in Nat /\ spoiled' \in [Locations -> BOOLEAN]
        /\ lapses' \in [Locations -> SUBSET Lapses]
    BY <1>26 DEF Fault, Call, Forget
  <2>3. CallShape'
    BY <1>26 DEF CallShape, Forget
  <2>4. EnsureProgress'
    BY <1>26 DEF EnsureProgress, Forget, KernelTypeOK, Call, Possible
  <2>5. CleanupProgress'
    BY <1>26 DEF CleanupProgress, Forget, KernelTypeOK, Call, Possible
  <2>6. CacheIsReal'
    BY <1>26 DEF CacheIsReal, Forget, KernelTypeOK, Call, Built, Configured,
         Lapsed
  <2>7. StoppedLeavesNothing'
    <3> SUFFICES ASSUME NEW l \in Locations, process'[l] = "none", ~ spoiled'[l]
                 PROVE have'[l] = {} /\ dns'[l] = None
      BY DEF StoppedLeavesNothing
    <3>1. CASE l = Here
      BY <1>26, <3>1 DEF Forget, CleanupProgress
    <3>2. CASE l # Here
      BY <1>26, <3>2 DEF Forget, StoppedLeavesNothing
    <3> QED
      BY <3>1, <3>2
  <2>8. call' \in Call
    BY <1>26 DEF Call, Forget
  <2> QED
    BY <2>1, <2>2, <2>3, <2>4, <2>5, <2>6, <2>7, <2>8 DEF NetstackTypeOK
<1>27. ASSUME NEW l \in Locations, NEW s \in States, Start(l, s) PROVE NetInv'
  <2>1. KernelTypeOK'
    BY <1>27 DEF KernelTypeOK, Start
  <2>2. /\ ensured' \in [Locations -> State \cup {None}]
        /\ process' \in [Locations -> {"none", "up", "dead"}]
        /\ faults' \in Nat /\ spoiled' \in [Locations -> BOOLEAN]
        /\ lapses' \in [Locations -> SUBSET Lapses]
    BY <1>27 DEF Fault, Call, Start
  <2>3. CallShape'
    BY <1>27 DEF CallShape, Start
  <2>4. EnsureProgress'
    BY <1>27 DEF EnsureProgress, Start, KernelTypeOK, Call, Possible
  <2>5. CleanupProgress'
    BY <1>27 DEF CleanupProgress, Start, KernelTypeOK, Call, Possible
  <2>6. CacheIsReal'
    BY <1>27 DEF CacheIsReal, Start, KernelTypeOK, Call, Built, Configured,
         Lapsed
  <2>7. StoppedLeavesNothing'
    BY <1>27 DEF StoppedLeavesNothing, Start, KernelTypeOK, Call
  <2>8. call' \in Call
    BY <1>27 DEF Call, Start
  <2> QED
    BY <2>1, <2>2, <2>3, <2>4, <2>5, <2>6, <2>7, <2>8 DEF NetstackTypeOK
<1>28. ASSUME NEW l \in Locations, Stop(l) PROVE NetInv'
  <2>1. KernelTypeOK'
    BY <1>28 DEF KernelTypeOK, Stop
  <2>2. /\ ensured' \in [Locations -> State \cup {None}]
        /\ process' \in [Locations -> {"none", "up", "dead"}]
        /\ faults' \in Nat /\ spoiled' \in [Locations -> BOOLEAN]
        /\ lapses' \in [Locations -> SUBSET Lapses]
    BY <1>28 DEF Fault, Call, Stop
  <2>3. CallShape'
    BY <1>28 DEF CallShape, Stop
  <2>4. EnsureProgress'
    BY <1>28 DEF EnsureProgress, Stop, KernelTypeOK, Call, Possible
  <2>5. CleanupProgress'
    BY <1>28 DEF CleanupProgress, Stop, KernelTypeOK, Call, Possible
  <2>6. CacheIsReal'
    BY <1>28 DEF CacheIsReal, Stop, KernelTypeOK, Call, Built, Configured,
         Lapsed
  <2>7. StoppedLeavesNothing'
    BY <1>28 DEF StoppedLeavesNothing, Stop, KernelTypeOK, Call
  <2>8. call' \in Call
    BY <1>28 DEF Call, Stop
  <2> QED
    BY <2>1, <2>2, <2>3, <2>4, <2>5, <2>6, <2>7, <2>8 DEF NetstackTypeOK
<1>29. ASSUME NEW l \in Locations, Dies(l) PROVE NetInv'
  <2>1. KernelTypeOK'
    BY <1>29 DEF KernelTypeOK, Dies
  <2>2. /\ ensured' \in [Locations -> State \cup {None}]
        /\ process' \in [Locations -> {"none", "up", "dead"}]
        /\ faults' \in Nat /\ spoiled' \in [Locations -> BOOLEAN]
        /\ lapses' \in [Locations -> SUBSET Lapses]
    BY <1>29 DEF Fault, Call, Dies
  <2>3. CallShape'
    BY <1>29 DEF CallShape, Dies
  <2>4. EnsureProgress'
    BY <1>29 DEF EnsureProgress, Dies, KernelTypeOK, Call, Possible
  <2>5. CleanupProgress'
    BY <1>29 DEF CleanupProgress, Dies, KernelTypeOK, Call, Possible
  <2>6. CacheIsReal'
    BY <1>29 DEF CacheIsReal, Dies, KernelTypeOK, Call, Built, Configured,
         Lapsed
  <2>7. StoppedLeavesNothing'
    BY <1>29 DEF StoppedLeavesNothing, Dies, KernelTypeOK, Call
  <2>8. call' \in Call
    BY <1>29 DEF Call, Dies
  <2> QED
    BY <2>1, <2>2, <2>3, <2>4, <2>5, <2>6, <2>7, <2>8 DEF NetstackTypeOK
<1>30. CASE Cancel
  <2>1. KernelTypeOK'
    BY <1>30 DEF KernelTypeOK, Cancel
  <2>2. /\ ensured' \in [Locations -> State \cup {None}]
        /\ process' \in [Locations -> {"none", "up", "dead"}]
        /\ faults' \in Nat /\ spoiled' \in [Locations -> BOOLEAN]
        /\ lapses' \in [Locations -> SUBSET Lapses]
    BY <1>30 DEF Fault, Call, Cancel
  <2>3. CallShape'
    BY <1>30 DEF CallShape, Cancel
  <2>4. EnsureProgress'
    BY <1>30 DEF EnsureProgress, Cancel, KernelTypeOK, Call, Possible
  <2>5. CleanupProgress'
    BY <1>30 DEF CleanupProgress, Cancel, KernelTypeOK, Call, Possible
  <2>6. CacheIsReal'
    BY <1>30 DEF CacheIsReal, Cancel, KernelTypeOK, Call, Built, Configured,
         Lapsed
  <2>7. StoppedLeavesNothing'
    BY <1>30 DEF StoppedLeavesNothing, Cancel, KernelTypeOK, Call
  <2>8. call' \in Call
    BY <1>30 DEF Call, Cancel
  <2> QED
    BY <2>1, <2>2, <2>3, <2>4, <2>5, <2>6, <2>7, <2>8 DEF NetstackTypeOK
<1>31. CASE PanelRestart
  <2>1. KernelTypeOK'
    BY <1>31 DEF KernelTypeOK, PanelRestart
  <2>2. /\ ensured' \in [Locations -> State \cup {None}]
        /\ process' \in [Locations -> {"none", "up", "dead"}]
        /\ faults' \in Nat /\ spoiled' \in [Locations -> BOOLEAN]
        /\ lapses' \in [Locations -> SUBSET Lapses]
    BY <1>31 DEF Fault, Call, PanelRestart
  <2>3. CallShape'
    BY <1>31 DEF CallShape, PanelRestart
  <2>4. EnsureProgress'
    BY <1>31 DEF EnsureProgress, PanelRestart, KernelTypeOK, Call, Possible
  <2>5. CleanupProgress'
    BY <1>31 DEF CleanupProgress, PanelRestart, KernelTypeOK, Call, Possible
  <2>6. CacheIsReal'
    BY <1>31 DEF CacheIsReal, PanelRestart, KernelTypeOK, Call, Built, Configured,
         Lapsed
  <2>7. StoppedLeavesNothing'
    BY <1>31 DEF StoppedLeavesNothing, PanelRestart, KernelTypeOK, Call
  <2>8. call' \in Call
    BY <1>31 DEF Call, PanelRestart
  <2> QED
    BY <2>1, <2>2, <2>3, <2>4, <2>5, <2>6, <2>7, <2>8 DEF NetstackTypeOK
<1>32. CASE UNCHANGED vars
  BY <1>32 DEF NetstackTypeOK, KernelTypeOK, Call, CallShape, EnsureProgress,
       CleanupProgress, CacheIsReal, StoppedLeavesNothing, Built, Configured, Lapsed
<1> QED
  BY <1>1, <1>2, <1>3, <1>4, <1>5, <1>6, <1>7, <1>8, <1>9, <1>10, <1>11, <1>12, <1>13,
       <1>14, <1>15, <1>16, <1>17, <1>18, <1>19, <1>20, <1>21, <1>22, <1>23, <1>24,
       <1>25, <1>26, <1>27, <1>28, <1>29, <1>30, <1>31, <1>32
  DEF Next, Ensure, Cleanup, Runner

(* The network stack keeps its inductive invariant.                        *)
THEOREM NetInvariant == Spec => []NetInv
BY NetInit, NetStep, PTL DEF Spec

(* Types: among them, a link is up or down and a subnet has as many rules  *)
(* as ensureNAT made.                                                      *)
THEOREM NetstackTypes == Spec => []NetstackTypeOK
<1>1. NetInv => NetstackTypeOK
  BY DEF NetInv
<1> QED
  BY <1>1, NetInvariant, PTL

(* A process is started when an Ensure has returned, and stopped before    *)
(* the Cleanup that makes the cache forget; a restart forgets both.        *)
LEMMA UpStep == NetInv /\ UpIsEnsured /\ [Next]_vars => UpIsEnsured'
<1> SUFFICES ASSUME NetInv, UpIsEnsured, [Next]_vars, NEW l \in Locations,
                    process'[l] = "up"
             PROVE  ensured'[l] # None /\ call'.loc # l
  BY DEF UpIsEnsured
<1>1. /\ call \in Call /\ CallShape
      /\ process \in [Locations -> {"none", "up", "dead"}]
      /\ ensured \in [Locations -> State \cup {None}]
  BY DEF NetInv, NetstackTypeOK
<1>2. /\ NoCall.loc = None /\ None \notin Locations /\ None \notin State /\ NoCall.step = "idle"
      /\ call.loc \in Locations \cup {None} /\ call.state \in State \cup {None}
  BY <1>1, NetstackAssumption DEF NoCall, Call
<1> DEFINE Quiet == /\ process'[l] = "up" => process[l] = "up"
                    /\ ensured'[l] = ensured[l] /\ call'.loc \in {call.loc, None}
<1>3. ASSUME Quiet PROVE ensured'[l] # None /\ call'.loc # l
  BY <1>2, <1>3 DEF UpIsEnsured
<1>4. \A step : Goto(step) => call'.loc = call.loc
  BY <1>1 DEF Goto, Call
<1>5. CASE CacheMiss \/ EnsureNamespace \/ EnsureVeth \/ MovePeer \/ SetLink \/ AddRoute
           \/ EnsureChain \/ EnsureRule \/ WriteDNS \/ LimitHost \/ LimitPeer
  BY <1>3, <1>4, <1>5 DEF CacheMiss, EnsureNamespace, EnsureVeth, MovePeer, SetLink,
     AddRoute, EnsureChain, EnsureRule, WriteDNS, LimitHost, LimitPeer
<1>6. ASSUME NEW step \in DOMAIN Needs, Configure(step)
      PROVE  ensured'[l] # None /\ call'.loc # l
  BY <1>3, <1>4, <1>6 DEF Configure
<1>7. CASE DuplicateRule \/ LimitStays \/ PassedOver \/ Cancel
  <2>1. UNCHANGED <<process, ensured>> /\ call'.loc = call.loc
    BY <1>1, <1>7 DEF DuplicateRule, LimitStays, PassedOver, Cancel, Call
  <2> QED
    BY <1>3, <2>1
<1>8. CASE EnsureFails \/ RemoveResolvFails
  BY <1>2, <1>3, <1>8 DEF EnsureFails, RemoveResolvFails
<1>9. CASE CacheHit \/ Remember
  <2>1. call.loc \in Locations /\ call.state # None
    <3>1. call.step \in {"check", "remember"}
      BY <1>9 DEF CacheHit, Remember, At
    <3> QED
      BY <1>1, <1>2, <3>1 DEF At, CallShape, EnsureSteps
  <2>2. ensured'[call.loc] = call.state /\ call'.loc = None
    BY <1>1, <1>2, <1>9, <2>1 DEF CacheHit, Remember, EnterState, Here
  <2>3. CASE l = call.loc
    BY <1>2, <2>1, <2>2, <2>3
  <2>4. CASE l # call.loc
    <3>1. Quiet
      BY <1>1, <1>9, <2>2, <2>4 DEF CacheHit, Remember, EnterState, Here
    <3> QED
      BY <1>3, <3>1
  <2> QED
    BY <2>3, <2>4
<1>10. CASE RememberAndUndo
  <2>1. process' = process /\ call'.loc = call.loc
    BY <1>1, <1>10 DEF RememberAndUndo, Call
  <2>2. l # call.loc
    BY <2>1 DEF UpIsEnsured
  <2>3. ensured'[l] = ensured[l]
    BY <1>1, <1>10, <2>2 DEF RememberAndUndo, EnterState, Here
  <2> QED
    BY <1>3, <2>1, <2>3
<1>11. CASE DeleteLimits \/ DeleteRule \/ DeleteVeth \/ DeleteNamespace \/ RemoveResolv
  BY <1>3, <1>4, <1>11 DEF DeleteLimits, DeleteRule, DeleteVeth, DeleteNamespace, Cleans,
     RemoveResolv
<1>12. CASE Forget
  <2>1. process' = [process EXCEPT ![call.loc] = "none"] /\ call'.loc = None
    BY <1>2, <1>12 DEF Forget, Here
  <2>2. l # call.loc
    BY <1>1, <2>1
  <2>3. ensured'[l] = ensured[l] /\ process'[l] = process[l]
    BY <1>1, <1>12, <2>1, <2>2 DEF Forget, Here
  <2> QED
    BY <1>3, <2>1, <2>3
<1>13. ASSUME NEW k \in Locations, NEW s \in States, Start(k, s)
       PROVE  ensured'[l] # None /\ call'.loc # l
  <2>1. call'.loc = k /\ process' = [process EXCEPT ![k] = "none"] /\ ensured' = ensured
    BY <1>13 DEF Start, NoCall
  <2>2. l # k /\ process[l] = "up"
    BY <1>1, <2>1
  <2> QED
    BY <2>1, <2>2 DEF UpIsEnsured
<1>14. ASSUME NEW k \in Locations, Stop(k)
       PROVE  ensured'[l] # None /\ call'.loc # l
  <2>1. call'.loc = k /\ process' = [process EXCEPT ![k] = "dead"] /\ ensured' = ensured
    BY <1>14 DEF Stop, NoCall
  <2>2. l # k /\ process[l] = "up"
    BY <1>1, <2>1
  <2> QED
    BY <2>1, <2>2 DEF UpIsEnsured
<1>15. ASSUME NEW k \in Locations, Dies(k)
       PROVE  ensured'[l] # None /\ call'.loc # l
  <2>1. process'[l] = process[l]
    BY <1>1, <1>15 DEF Dies
  <2> QED
    BY <1>3, <1>15, <2>1 DEF Dies
<1>16. CASE PanelRestart
  BY <1>16 DEF PanelRestart
<1>17. CASE UNCHANGED vars
  BY <1>3, <1>17 DEF vars
<1> QED
  BY <1>5, <1>6, <1>7, <1>8, <1>9, <1>10, <1>11, <1>12, <1>13, <1>14, <1>15, <1>16, <1>17
     DEF Next, Ensure, Cleanup, Runner

(* The cache that lets Ensure return at once (netstack.go:162-171) is      *)
(* right about the kernel but for the four lapses that EnsuredIsReal names,*)
(* and about what a lapse does not touch: whatever commands fail, contexts *)
(* are cancelled and panels die, and whichever locations share a subnet.   *)
(* Whatever runs was started for what the cache says.                      *)
THEOREM CacheIsTrueButForLapses == Spec => []EnsuredIsReal
<1>1. Init => UpIsEnsured
  BY DEF Init, UpIsEnsured
<1>2. NetInv /\ UpIsEnsured => EnsuredIsReal
  BY DEF NetInv, CacheIsReal, EnsuredIsReal
<1> QED
  BY <1>1, <1>2, UpStep, NetInvariant, PTL DEF Spec

(* A Cleanup in which nothing failed leaves nothing, and a location no     *)
(* Ensure has reached has nothing.                                         *)
THEOREM StopLeavesNothingBehind == Spec => []StoppedLeavesNothing
<1>1. NetInv => StoppedLeavesNothing
  BY DEF NetInv
<1> QED
  BY <1>1, NetInvariant, PTL

(* Ensure can be repeated from whatever an interrupted one left, but for   *)
(* the half-made veth and the cut link.                                    *)
THEOREM RetryComesThrough == Spec => []EnsureComesThrough
<1>1. ASSUME NetInv, NEW step \in EnsureSteps \ {"check", "remember"},
             At(step), ~ Possible(step), call.state.traffic, "peer" \in have[Here]
      PROVE  FALSE
  <2> USE <1>1 DEF NetInv, At, Here, Needs
  <2>1. EnsureProgress
    OBVIOUS
  <2>2. CASE step \in DOMAIN Needs
    BY <2>1, <2>2 DEF Possible, EnsureProgress, EnsureSteps
  <2>3. CASE step \in {"link", "route"}
    BY <2>1, <2>3 DEF Possible, EnsureProgress, EnsureSteps
  <2>4. CASE step \in {"limitHost", "limitPeer"}
    BY <2>1, <2>4 DEF Possible, EnsureProgress, EnsureSteps, LastSteps, Items
  <2> QED
    BY <2>2, <2>3, <2>4 DEF Possible, EnsureSteps
<1>2. NetInv => EnsureComesThrough
  BY <1>1 DEF EnsureComesThrough, NetInv, NetstackTypeOK, Call, CallShape, At, State
<1> QED
  BY <1>2, NetInvariant, PTL
=============================================================================
