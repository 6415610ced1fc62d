------------------------ MODULE TrafficSamplerProofs ------------------------
(***************************************************************************)
(* SamplerInv is an invariant of the sampler, for any number of clients    *)
(* and locations, any quotas and any number of bytes, changes and faults:  *)
(* no client is charged for a byte that did not pass, and of a veth that   *)
(* lives on every byte is charged once.                                    *)
(*                                                                         *)
(* Two kinds of facts meet here.  LedgerBound, FirstSight, OneVeth and     *)
(* ChargedOnce are about one location, and a step is followed through its  *)
(* account alone (Local).  What a client is charged is a sum over its      *)
(* locations: the first part shows that SumOver behaves as a sum, by       *)
(* induction over the subsets of a finite set, and a charge then adds to   *)
(* one term of it.                                                         *)
(***************************************************************************)
EXTENDS TrafficSampler, FiniteSetTheorems, WellFoundedInduction, TLAPS

-----------------------------------------------------------------------------
(* Sums over finite sets                                                   *)

(* The element the fold takes out of T first.                              *)
Some(T) == CHOOSE x \in T : TRUE

(* sum is the function the fold over the subsets of S defines.             *)
Sums(sum, f, S) ==
    sum = [T \in SUBSET S |-> IF T = {} THEN 0
                              ELSE f[Some(T)] + sum[T \ {Some(T)}]]

(* What the definition of FoldSet comes to for a sum.                      *)
LEMMA SumIsChosen ==
  ASSUME NEW f, NEW S
  PROVE  SumOver(f, S) = (CHOOSE sum : Sums(sum, f, S))[S]
  BY DEF SumOver, FoldSet, MapThenFoldSet, Sums, Some

(* Induction over the subsets of a finite set: a set of subsets that has   *)
(* the empty one, and each subset whose remainder it has, has them all.    *)
(* The smallest subset it lacks would be a counterexample.                 *)
LEMMA SubsetInduction ==
  ASSUME NEW S, IsFiniteSet(S), NEW Good,
         {} \in Good,
         \A T \in SUBSET S : T # {} /\ T \ {Some(T)} \in Good => T \in Good
  PROVE  SUBSET S \subseteq Good
<1> DEFINE Bad == (SUBSET S) \ Good
<1>1. SUFFICES ASSUME Bad # {} PROVE FALSE
  OBVIOUS
<1>2. IsWellFoundedOn(StrictSubsetOrdering(S), SUBSET S)
  BY FS_StrictSubsetOrderingWellFounded, FS_FiniteSubsetsOfFinite
<1>3. PICK T \in Bad : \A U \in Bad : ~ (<<U, T>> \in StrictSubsetOrdering(S))
  <2>1. Bad \subseteq SUBSET S
    OBVIOUS
  <2> HIDE DEF Bad
  <2> QED
    BY <1>1, <1>2, <2>1, WFMin
<1>4. T # {} /\ Some(T) \in T
  BY DEF Some
<1>5. T \ {Some(T)} \notin Bad
  <2> DEFINE U == T \ {Some(T)}
  <2>1. U \in SUBSET S /\ T \in SUBSET S /\ U \subseteq T /\ U # T
    BY <1>4
  <2>2. <<U, T>> \in StrictSubsetOrdering(S)
    BY <2>1 DEF StrictSubsetOrdering
  <2> HIDE DEF U
  <2> QED
    BY <1>3, <2>2 DEF U
<1> QED
  BY <1>4, <1>5

(* Taking that element out makes a subset smaller by one.                  *)
LEMMA CutDown ==
  ASSUME NEW S, IsFiniteSet(S), NEW T \in SUBSET S
  PROVE  /\ Cardinality(T) \in Nat
         /\ Cardinality(T) = 0 <=> T = {}
         /\ T # {} => /\ Some(T) \in T
                      /\ T \ {Some(T)} \in SUBSET S
                      /\ Cardinality(T \ {Some(T)}) = Cardinality(T) - 1
<1>1. IsFiniteSet(T)
  BY FS_Subset
<1>2. T # {} => Some(T) \in T
  BY DEF Some
<1> QED
  BY <1>1, <1>2, FS_CardinalityType, FS_EmptySet, FS_RemoveElement

(* The recursion of the fold has a solution: one for the subsets of up to  *)
(* n elements can be continued to those of n + 1. The least n without one  *)
(* would be a counterexample.                                              *)
LEMMA SumsExist ==
  ASSUME NEW f, NEW S, IsFiniteSet(S)
  PROVE  \E sum : Sums(sum, f, S)
<1> DEFINE Small(n) == {T \in SUBSET S : Cardinality(T) <= n}
           Law(sum, D) == sum = [T \in D |-> IF T = {} THEN 0
                                  ELSE f[Some(T)] + sum[T \ {Some(T)}]]
           Bad == {n \in Nat : ~ \E sum : Law(sum, Small(n))}
           R == {p \in Nat \X Nat : p[1] < p[2]}
<1>2. Law([T \in Small(0) |-> 0], Small(0))
  <2>1. ASSUME NEW T \in Small(0) PROVE T = {}
    <3>1. T \in SUBSET S /\ Cardinality(T) <= 0
      OBVIOUS
    <3>2. Cardinality(T) \in Nat /\ (Cardinality(T) = 0 <=> T = {})
      BY CutDown, <3>1
    <3> QED
      BY <3>1, <3>2
  <2> QED
    BY <2>1
<1>3. ASSUME NEW n \in Nat, NEW g, Law(g, Small(n))
      PROVE  \E sum : Law(sum, Small(n + 1))
  <2> DEFINE h == [T \in Small(n + 1) |-> IF T = {} THEN 0
                     ELSE f[Some(T)] + g[T \ {Some(T)}]]
  <2>1. ASSUME NEW T \in Small(n + 1), T # {} PROVE T \ {Some(T)} \in Small(n)
    <3>1. T \in SUBSET S /\ Cardinality(T) <= n + 1
      OBVIOUS
    <3>2. /\ Cardinality(T) \in Nat
          /\ T \ {Some(T)} \in SUBSET S
          /\ Cardinality(T \ {Some(T)}) = Cardinality(T) - 1
      BY CutDown, <2>1, <3>1
    <3>3. Cardinality(T \ {Some(T)}) <= n
      BY <3>1, <3>2
    <3> QED
      BY <3>2, <3>3
  <2>2. \A T \in Small(n) : g[T] = IF T = {} THEN 0 ELSE f[Some(T)] + g[T \ {Some(T)}]
    <3> HIDE DEF Small
    <3>1. g = [T \in Small(n) |-> IF T = {} THEN 0 ELSE f[Some(T)] + g[T \ {Some(T)}]]
      BY <1>3
    <3> QED
      BY <3>1, Zenon
  <2>3. ASSUME NEW T \in Small(n) PROVE T \in Small(n + 1)
    <3>1. T \in SUBSET S /\ Cardinality(T) <= n
      OBVIOUS
    <3>2. Cardinality(T) \in Nat
      BY CutDown, <3>1
    <3>3. Cardinality(T) <= n + 1
      BY <3>1, <3>2
    <3> QED
      BY <3>1, <3>3
  <2>4. \A T \in Small(n) : h[T] = g[T]
    BY <2>2, <2>3
  <2>5. \A T \in Small(n + 1) : T # {} => h[T \ {Some(T)}] = g[T \ {Some(T)}]
    BY <2>1, <2>4
  <2>6. h = [T \in Small(n + 1) |-> IF T = {} THEN 0
               ELSE f[Some(T)] + h[T \ {Some(T)}]]
    <3> HIDE DEF Small
    <3> QED BY <2>5
  <2> QED
    BY <2>6
<1>4. Bad = {}
  <2> SUFFICES ASSUME Bad # {} PROVE FALSE
    OBVIOUS
  <2>1. IsWellFoundedOn(R, Nat)
    BY NatLessThanWellFounded DEF OpToRel
  <2>2. Bad \subseteq Nat
    OBVIOUS
  <2>3. PICK n \in Bad : \A m \in Bad : ~ (<<m, n>> \in R)
    <3> HIDE DEF R, Bad
    <3> QED BY <2>1, <2>2, WFMin
  <2>4. n # 0
    <3> SUFFICES ASSUME n = 0 PROVE FALSE
      OBVIOUS
    <3> QED BY <1>2, Zenon
  <2>5. n - 1 \in Nat /\ n - 1 \notin Bad
    <3>1. n \in Nat /\ n - 1 \in Nat /\ n - 1 < n
      BY <2>2, <2>4
    <3>2. <<n - 1, n>> \in R
      BY <3>1
    <3> QED
      BY <2>3, <3>1, <3>2
  <2>6. PICK g : Law(g, Small(n - 1))
    BY <2>5
  <2>7. \E sum : Law(sum, Small((n - 1) + 1))
    <3> HIDE DEF Law, Small
    <3> QED BY <1>3, <2>5, <2>6
  <2>8. (n - 1) + 1 = n
    BY <2>2
  <2> HIDE DEF Law, Small
  <2> QED BY <2>7, <2>8
<1>5. SUBSET S = Small(Cardinality(S)) /\ Cardinality(S) \in Nat
  BY FS_Subset, FS_CardinalityType
<1>6. PICK g : Law(g, Small(Cardinality(S)))
  BY <1>4, <1>5
<1> QED
  BY <1>5, <1>6 DEF Sums

(* So SumOver is the value of such a function at S.                        *)
LEMMA SumOverIsASum ==
  ASSUME NEW f, NEW S, IsFiniteSet(S)
  PROVE  \E sum : Sums(sum, f, S) /\ SumOver(f, S) = sum[S]
<1> DEFINE sum == CHOOSE s : Sums(s, f, S)
<1>1. Sums(sum, f, S)
  BY SumsExist, Zenon
<1>2. SumOver(f, S) = sum[S]
  BY SumIsChosen
<1> QED
  BY <1>1, <1>2

(* The recursion, as the proofs below use it.                              *)
LEMMA SumLaw ==
  ASSUME NEW f, NEW S, NEW sum, Sums(sum, f, S)
  PROVE  /\ sum[{}] = 0
         /\ \A T \in SUBSET S : T # {} =>
              /\ sum[T] = f[Some(T)] + sum[T \ {Some(T)}]
              /\ Some(T) \in T
<1>1. \A T \in SUBSET S : sum[T] = IF T = {} THEN 0 ELSE f[Some(T)] + sum[T \ {Some(T)}]
  BY Zenon DEF Sums
<1> QED
  BY <1>1 DEF Some

(* Sums of natural numbers are natural numbers.                            *)
LEMMA SumIsNat ==
  ASSUME NEW f, NEW S, IsFiniteSet(S), \A x \in S : f[x] \in Nat,
         NEW sum, Sums(sum, f, S)
  PROVE  \A T \in SUBSET S : sum[T] \in Nat
<1> DEFINE Good == {T \in SUBSET S : sum[T] \in Nat}
<1>1. {} \in Good
  BY SumLaw
<1>2. \A T \in SUBSET S : T # {} /\ T \ {Some(T)} \in Good => T \in Good
  BY SumLaw
<1> HIDE DEF Good
<1>3. SUBSET S \subseteq Good
  BY <1>1, <1>2, SubsetInduction
<1> QED
  BY <1>3 DEF Good

(* The same of SumOver.                                                    *)
LEMMA SumNat ==
  ASSUME NEW f, NEW S, IsFiniteSet(S), \A x \in S : f[x] \in Nat
  PROVE  SumOver(f, S) \in Nat
<1>1. PICK sum : Sums(sum, f, S) /\ SumOver(f, S) = sum[S]
  BY SumOverIsASum
<1> QED
  BY <1>1, SumIsNat

(* Larger terms make a larger sum.                                         *)
LEMMA SumMonotone ==
  ASSUME NEW f, NEW g, NEW S, IsFiniteSet(S),
         \A x \in S : f[x] \in Nat /\ g[x] \in Nat /\ f[x] <= g[x]
  PROVE  SumOver(f, S) <= SumOver(g, S)
<1>1. PICK sf : Sums(sf, f, S) /\ SumOver(f, S) = sf[S]
  BY SumOverIsASum
<1>2. PICK sg : Sums(sg, g, S) /\ SumOver(g, S) = sg[S]
  BY SumOverIsASum
<1> DEFINE Good == {T \in SUBSET S : sf[T] <= sg[T]}
<1>3. \A T \in SUBSET S : sf[T] \in Nat /\ sg[T] \in Nat
  BY <1>1, <1>2, SumIsNat
<1>4. {} \in Good
  BY <1>1, <1>2, SumLaw
<1>5. ASSUME NEW T \in SUBSET S, T # {}, T \ {Some(T)} \in Good
      PROVE  T \in Good
  <2>1. sf[T] = f[Some(T)] + sf[T \ {Some(T)}] /\ Some(T) \in T
    BY <1>1, <1>5, SumLaw
  <2>2. sg[T] = g[Some(T)] + sg[T \ {Some(T)}] /\ Some(T) \in T
    BY <1>2, <1>5, SumLaw
  <2> QED
    BY <1>3, <1>5, <2>1, <2>2
<1> HIDE DEF Good
<1>6. SUBSET S \subseteq Good
  BY <1>4, <1>5, SubsetInduction
<1> QED
  BY <1>1, <1>2, <1>6 DEF Good

(* What is added to one term is added to the sum, if the term is in it.    *)
LEMMA SumAdds ==
  ASSUME NEW f, NEW g, NEW S, IsFiniteSet(S), NEW l, NEW d \in Nat,
         \A x \in S : f[x] \in Nat /\ g[x] = IF x = l THEN f[x] + d ELSE f[x]
  PROVE  SumOver(g, S) = IF l \in S THEN SumOver(f, S) + d ELSE SumOver(f, S)
<1>1. PICK sf : Sums(sf, f, S) /\ SumOver(f, S) = sf[S]
  BY SumOverIsASum
<1>2. PICK sg : Sums(sg, g, S) /\ SumOver(g, S) = sg[S]
  BY SumOverIsASum
<1> DEFINE Good == {T \in SUBSET S : sg[T] = IF l \in T THEN sf[T] + d ELSE sf[T]}
<1>3. \A T \in SUBSET S : sf[T] \in Nat
  BY <1>1, SumIsNat
<1>4. {} \in Good
  BY <1>1, <1>2, SumLaw
<1>5. ASSUME NEW T \in SUBSET S, T # {}, T \ {Some(T)} \in Good
      PROVE  T \in Good
  <2>1. sf[T] = f[Some(T)] + sf[T \ {Some(T)}] /\ Some(T) \in T
    BY <1>1, <1>5, SumLaw
  <2>2. sg[T] = g[Some(T)] + sg[T \ {Some(T)}] /\ Some(T) \in T
    BY <1>2, <1>5, SumLaw
  <2>3. sf[T \ {Some(T)}] \in Nat
    BY <1>3
  <2>4. l \in T <=> l = Some(T) \/ l \in T \ {Some(T)}
    BY <2>1
  <2> QED
    BY <1>5, <2>1, <2>2, <2>3, <2>4
<1> HIDE DEF Good
<1>6. SUBSET S \subseteq Good
  BY <1>4, <1>5, SubsetInduction
<1> QED
  BY <1>1, <1>2, <1>6 DEF Good

(* No term exceeds the sum.                                                *)
LEMMA SumBounds ==
  ASSUME NEW f, NEW S, IsFiniteSet(S), \A x \in S : f[x] \in Nat, NEW l \in S
  PROVE  f[l] <= SumOver(f, S)
<1> DEFINE g == [x \in S |-> IF x = l THEN 0 ELSE f[x]]
<1>1. \A x \in S : g[x] \in Nat /\ f[x] = IF x = l THEN g[x] + f[l] ELSE g[x]
  OBVIOUS
<1> HIDE DEF g
<1>2. SumOver(f, S) = SumOver(g, S) + f[l]
  BY <1>1, SumAdds
<1>3. SumOver(g, S) \in Nat
  BY <1>1, SumNat
<1> QED
  BY <1>2, <1>3

(* A sum of nothing is zero.                                               *)
LEMMA SumZero ==
  ASSUME NEW f, NEW S, IsFiniteSet(S), \A x \in S : f[x] = 0
  PROVE  SumOver(f, S) = 0
<1>1. PICK sum : Sums(sum, f, S) /\ SumOver(f, S) = sum[S]
  BY SumOverIsASum
<1> DEFINE Good == {T \in SUBSET S : sum[T] = 0}
<1>2. {} \in Good
  BY <1>1, SumLaw
<1>3. \A T \in SUBSET S : T # {} /\ T \ {Some(T)} \in Good => T \in Good
  BY <1>1, SumLaw
<1> HIDE DEF Good
<1>4. SUBSET S \subseteq Good
  BY <1>2, <1>3, SubsetInduction
<1> QED
  BY <1>1, <1>4 DEF Good

-----------------------------------------------------------------------------
(* What SamplerInv says of one location.                                   *)
Local(l) == LedgerBound(l) /\ FirstSight(l) /\ OneVeth(l) /\ ChargedOnce(l)

(* A client has finitely many locations.                                   *)
LEMMA FiniteClients ==
  ASSUME NEW c PROVE IsFiniteSet(OfClient(c)) /\ OfClient(c) \subseteq Locations
  BY LocationsAssumption, FS_Subset DEF OfClient

(* A missing row or veth is never taken for counters.                      *)
LEMMA NoneIsNoCounter ==
  None \notin Counter /\ None \notin Locations /\ ZeroCounter # None
<1>1. Counter \subseteq [rx : Nat, tx : Nat]
  BY BoundsAssumption DEF Counter
<1>2. ZeroCounter \in [rx : Nat, tx : Nat]
  BY DEF ZeroCounter
<1> QED
  BY <1>1, <1>2, LocationsAssumption

(* A panel that starts for the first time satisfies the invariant.         *)
LEMMA InitInv == Init => SamplerInv
<1> SUFFICES ASSUME Init PROVE SamplerInv
  OBVIOUS
<1> USE DEF Init
<1>1. MaxSent \in Nat /\ ZeroCounter \in Counter
  BY BoundsAssumption DEF ZeroCounter, Counter
<1>2. SamplerTypeOK
  BY <1>1 DEF SamplerTypeOK
<1>3. SumOver(sent, Locations) = 0
  BY SumZero, LocationsAssumption
<1>4. HistoryTypeOK
  BY <1>1, <1>3 DEF HistoryTypeOK
<1>5. \A l \in Locations : LedgerBound(l) /\ FirstSight(l) /\ OneVeth(l) /\ ChargedOnce(l)
  BY DEF LedgerBound, Now, ZeroCounter, Total, FirstSight, OneVeth, ChargedOnce,
         Reading, Persisting
<1>6. ASSUME NEW c \in Clients PROVE used[c] = SumOver(ledger, OfClient(c))
  <2>1. \A l \in OfClient(c) : ledger[l] = 0
    BY FiniteClients
  <2> QED
    BY <2>1, SumZero, FiniteClients
<1>7. Visits
  BY DEF Visits
<1> QED
  BY <1>2, <1>4, <1>5, <1>6, <1>7 DEF SamplerInv, ChargedExactly

(* A step that touches neither a location's account nor what was read of   *)
(* it leaves its invariant alone.                                          *)
SameAccount(l) ==
    /\ baseline'[l] = baseline[l] /\ ledger'[l] = ledger[l]
    /\ veth'[l] = veth[l] /\ sent'[l] = sent[l] /\ veths'[l] = veths[l]
    /\ first'[l] = first[l] /\ present'[l] = present[l]

(* If the location is being visited after the step, it was before, with    *)
(* the same counters read.                                                 *)
SameVisit(l) ==
    /\ Reading(l)' => Reading(l) /\ read' = read
    /\ Persisting(l)' => Persisting(l) /\ read' = read

(* Such a step keeps what is known of the location.                        *)
LEMMA UntouchedLocal ==
  ASSUME NEW l \in Locations, Local(l), SameAccount(l), SameVisit(l)
  PROVE  Local(l)'
<1> USE DEF SameAccount, SameVisit
<1>1. Now(l)' = Now(l)
  BY DEF Now
<1>2. LedgerBound(l)'
  BY <1>1 DEF Local, LedgerBound
<1>3. FirstSight(l)'
  BY DEF Local, FirstSight
<1>4. OneVeth(l)'
  BY DEF Local, OneVeth
<1>5. ChargedOnce(l)'
  BY DEF Local, ChargedOnce
<1> QED
  BY <1>2, <1>3, <1>4, <1>5 DEF Local

(* A byte passes.                                                          *)
LEMMA PassLocal ==
  ASSUME SamplerInv, NEW k \in Locations, Pass(k), NEW l \in Locations
  PROVE  Local(l)'
<1> USE DEF Pass
<1>1. Local(l)
  BY DEF SamplerInv, ChargedExactly, Local
<1>2. CASE l # k
  <2>1. SameAccount(l) /\ SameVisit(l)
    BY <1>2 DEF SameAccount, SameVisit, Reading, Persisting, SamplerInv, SamplerTypeOK,
                HistoryTypeOK, dbVars, samplerVars
  <2> QED
    BY <1>1, <2>1, UntouchedLocal
<1>3. CASE l = k
  <2>1. /\ veth[l] \in Counter /\ ledger[l] \in Nat /\ sent[l] \in Nat
        /\ veths[l] \in Nat /\ read \in Counter /\ baseline[l] \in Counter \cup {None}
    BY <1>3 DEF SamplerInv, SamplerTypeOK, HistoryTypeOK
  <2>2. /\ veth[l].rx \in Nat /\ veth[l].tx \in Nat /\ read.rx \in Nat /\ read.tx \in Nat
        /\ baseline[l] # None => baseline[l].rx \in Nat /\ baseline[l].tx \in Nat
    BY <2>1, BoundsAssumption DEF Counter
  <2>3. \/ veth'[l] = [veth[l] EXCEPT !.rx = @ + 1]
        \/ veth'[l] = [veth[l] EXCEPT !.tx = @ + 1]
    BY <1>3 DEF SamplerInv, SamplerTypeOK
  <2>4. \/ veth'[l].rx = veth[l].rx + 1 /\ veth'[l].tx = veth[l].tx
        \/ veth'[l].rx = veth[l].rx /\ veth'[l].tx = veth[l].tx + 1
    BY <2>1, <2>3 DEF Counter
  <2>5. veth[l] # None /\ veth'[l] # None
    <3>1. veth'[l] \in [rx : Nat, tx : Nat]
      BY <2>1, <2>2, <2>3 DEF Counter
    <3> QED
      BY <1>3, <3>1, LocationsAssumption
  <2>6. /\ sent'[l] = sent[l] + 1 /\ veths' = veths /\ ledger' = ledger /\ first' = first
        /\ baseline' = baseline /\ present' = present /\ read' = read /\ pc' = pc /\ at' = at
    BY <1>3 DEF SamplerInv, HistoryTypeOK, dbVars, samplerVars
  <2>7. LedgerBound(l)'
    <3> HIDE DEF Pass
    <3> QED
      BY <1>1, <2>1, <2>2, <2>4, <2>5, <2>6
         DEF Local, LedgerBound, Now, Total, Kept, Due, Reading, Persisting
  <2>8. FirstSight(l)' /\ ChargedOnce(l)'
    BY <1>1, <2>6 DEF Local, FirstSight, ChargedOnce
  <2>9. OneVeth(l)'
    <3> HIDE DEF Pass
    <3> QED
      BY <1>1, <2>2, <2>4, <2>5, <2>6 DEF Local, OneVeth, AtMost, Reading, Persisting
  <2> QED
    BY <2>7, <2>8, <2>9 DEF Local
<1> QED
  BY <1>2, <1>3

(* What is known of the numbers a location's account is made of.           *)
LEMMA AccountTypes ==
  ASSUME SamplerInv, NEW l \in Locations
  PROVE  /\ ledger[l] \in Nat /\ sent[l] \in Nat /\ veths[l] \in Nat
         /\ read.rx \in Nat /\ read.tx \in Nat
         /\ veth[l] # None => veth[l].rx \in Nat /\ veth[l].tx \in Nat
         /\ baseline[l] # None => baseline[l].rx \in Nat /\ baseline[l].tx \in Nat
<1>1. /\ veth[l] \in Counter \cup {None} /\ baseline[l] \in Counter \cup {None}
      /\ read \in Counter
  BY DEF SamplerInv, SamplerTypeOK
<1>2. \A x \in Counter : x.rx \in Nat /\ x.tx \in Nat
  BY BoundsAssumption DEF Counter
<1> QED
  BY <1>1, <1>2 DEF SamplerInv, SamplerTypeOK, HistoryTypeOK

(* A veth is removed, made anew, or left alone.                            *)
Remade(l) ==
    \/ veth'[l] = veth[l] /\ veths'[l] = veths[l]
    \/ veth'[l] = None /\ veths'[l] = veths[l]
    \/ veth'[l] = ZeroCounter /\ veths'[l] = veths[l] + 1

(* A veth that is removed or made anew keeps less of the baseline, never   *)
(* more, and is no longer the first.                                       *)
LEMMA RemadeLocal ==
  ASSUME SamplerInv, NEW l \in Locations, Remade(l), UNCHANGED <<dbVars, sent, first>>,
         SameVisit(l)
  PROVE  Local(l)'
<1>1. Local(l)
  BY DEF SamplerInv, ChargedExactly, Local
<1>2. /\ ledger' = ledger /\ sent' = sent /\ baseline' = baseline /\ first' = first
      /\ present' = present
  BY DEF dbVars
<1>3. ZeroCounter # None /\ ZeroCounter.rx = 0 /\ ZeroCounter.tx = 0
  <2>1. ZeroCounter # None
    BY NoneIsNoCounter
  <2>2. ZeroCounter.rx = 0 /\ ZeroCounter.tx = 0
    BY DEF ZeroCounter
  <2> QED
    BY <2>1, <2>2
<1>4. LedgerBound(l)'
  <2>1. Now(l)' = Now(l) \/ Now(l)' = ZeroCounter
    BY <1>3 DEF Remade, Now
  <2>2. Now(l).rx \in Nat /\ Now(l).tx \in Nat
    BY <1>3, AccountTypes DEF Now
  <2>3. CASE Now(l)' = Now(l)
    BY <1>1, <1>2, <2>3 DEF SameVisit, Local, LedgerBound
  <2>4. CASE Now(l)' = ZeroCounter
    BY <1>1, <1>2, <1>3, <2>2, <2>4, AccountTypes
       DEF SameVisit, Local, LedgerBound, Total, Kept, Due
  <2> QED
    BY <2>1, <2>3, <2>4
<1>5. FirstSight(l)'
  BY <1>1, <1>2 DEF Local, FirstSight
<1>6. veths'[l] = 1 => veths[l] = 1 \/ (veths[l] = 0 /\ baseline[l] = None)
  <2>1. veths[l] \in Nat
    BY AccountTypes
  <2>2. veths[l] = 0 => baseline[l] = None
    BY <1>1 DEF Local, OneVeth
  <2> QED
    BY <2>1, <2>2 DEF Remade
<1>7. ChargedOnce(l)'
  BY <1>1, <1>2, <1>6 DEF Local, ChargedOnce
<1>8. OneVeth(l)'
  BY <1>1, <1>2, <1>3, AccountTypes DEF Remade, SameVisit, Local, OneVeth, AtMost
<1> QED
  BY <1>4, <1>5, <1>7, <1>8 DEF Local

(* What the supervisor leaves of a veth is its counters, none, or zero.    *)
Leaves(l) == {veth[l], None, ZeroCounter}

(* A Reload, whoever asks for it and however far it comes, is such a move  *)
(* of each location's veth.                                                *)
LEMMA MovesRemake ==
  ASSUME NEW processes, NEW counters, Moves(processes, counters),
         NEW l \in Locations, counters[l] \in Leaves(l),
         DOMAIN counters = Locations
  PROVE  Remade(l)
<1>1. ZeroCounter # None
  BY NoneIsNoCounter
<1>2. veth'[l] = counters[l]
  BY DEF Moves
<1>3. veths'[l] = IF counters[l] = ZeroCounter /\ veth[l] # ZeroCounter
                    THEN veths[l] + 1 ELSE veths[l]
  BY DEF Moves
<1> QED
  BY <1>1, <1>2, <1>3 DEF Remade, Leaves

(* What any Reload does: each location gets a process or none, and its     *)
(* veth is one of those.                                                   *)
Reloading ==
    \E processes, counters :
        /\ processes \in [Locations -> {"down", "up"}]
        /\ DOMAIN counters = Locations
        /\ counters = [l \in Locations |-> counters[l]]
        /\ \A l \in Locations : counters[l] \in Leaves(l)
        /\ Moves(processes, counters)

(* A location that is not refused is to be up or down.                     *)
LEMMA DesiredIsAState ==
  ASSUME NEW l \in Locations, l \notin Refused
  PROVE  Desired(l) \in {"down", "up"}
  BY DEF Refused, Desired

(* The veth of a location that is stopped, started, restarted or let be.   *)
LEMMA VethAfterLeaves ==
  ASSUME NEW l, NEW target
  PROVE  VethAfter(l, target) \in Leaves(l)
  BY DEF VethAfter, Leaves

(* A Reload that succeeds.                                                 *)
LEMMA AllIsReloading ==
  ASSUME ReloadAll
  PROVE  Reloading
<1> DEFINE processes == [l \in Locations |-> Desired(l)]
           counters == [l \in Locations |-> VethAfter(l, Desired(l))]
<1>1. processes \in [Locations -> {"down", "up"}]
  BY DesiredIsAState DEF ReloadAll
<1>2. \A l \in Locations : counters[l] \in Leaves(l)
  BY VethAfterLeaves
<1>3. DOMAIN counters = Locations /\ counters = [l \in Locations |-> counters[l]]
  OBVIOUS
<1>4. Moves(processes, counters)
  BY DEF ReloadAll
<1> HIDE DEF processes, counters
<1> QED
  BY <1>1, <1>2, <1>3, <1>4 DEF Reloading

(* A Reload that ends at an error.                                         *)
LEMMA PartIsReloading ==
  ASSUME SamplerInv, NEW fallen, NEW left, fallen \in Locations => left \in Leaves(fallen),
         ReloadInPart(fallen, left)
  PROVE  Reloading
<1>1. PICK done \in SUBSET (Locations \ Refused) :
        Moves([l \in Locations |-> CASE l = fallen -> "down"
                                   [] l \in done \ {fallen} -> Desired(l)
                                   [] OTHER -> running[l]],
              [l \in Locations |-> CASE l = fallen -> left
                                   [] l \in done \ {fallen} ->
                                        VethAfter(l, Desired(l))
                                   [] OTHER -> veth[l]])
  BY DEF ReloadInPart
<1> DEFINE processes == [l \in Locations |-> CASE l = fallen -> "down"
                                   [] l \in done \ {fallen} -> Desired(l)
                                   [] OTHER -> running[l]]
           counters == [l \in Locations |-> CASE l = fallen -> left
                                   [] l \in done \ {fallen} ->
                                        VethAfter(l, Desired(l))
                                   [] OTHER -> veth[l]]
<1>2. processes \in [Locations -> {"down", "up"}]
  <2>1. \A l \in Locations : running[l] \in {"down", "up"}
    BY DEF SamplerInv, SamplerTypeOK
  <2> QED
    BY <2>1, DesiredIsAState
<1>3. ASSUME NEW l \in Locations PROVE counters[l] \in Leaves(l)
  <2>1. veth[l] \in Leaves(l)
    BY DEF Leaves
  <2>2. CASE l = fallen
    BY <2>2
  <2>3. CASE l # fallen
    BY <2>1, <2>3, VethAfterLeaves
  <2> QED
    BY <2>2, <2>3
<1>4. DOMAIN counters = Locations /\ counters = [l \in Locations |-> counters[l]]
  OBVIOUS
<1>5. Moves(processes, counters)
  BY <1>1
<1> HIDE DEF processes, counters
<1> QED
  BY <1>2, <1>3, <1>4, <1>5 DEF Reloading

(* The Reloads of the specification.                                       *)
LEMMA ReloadsAreReloading ==
  ASSUME SamplerInv, ReloadAll \/ ReloadRefused \/ ReloadFails
  PROVE  Reloading
<1>1. CASE ReloadAll
  BY <1>1, AllIsReloading
<1>2. CASE ReloadRefused
  <2>1. PICK l \in Refused : ReloadInPart(l, VethAfter(l, "cut"))
    BY <1>2 DEF ReloadRefused
  <2>2. VethAfter(l, "cut") \in Leaves(l)
    BY VethAfterLeaves
  <2> QED
    BY <2>1, <2>2, PartIsReloading
<1>3. CASE ReloadFails
  <2>1. CASE ReloadInPart(None, None)
    BY <2>1, PartIsReloading, NoneIsNoCounter
  <2>2. ASSUME NEW l \in Locations, NEW left \in {None, veth[l], ZeroCounter},
               ReloadInPart(l, left)
        PROVE  Reloading
    <3>1. left \in Leaves(l)
      BY DEF Leaves
    <3> QED
      BY <2>2, <3>1, PartIsReloading
  <2> QED
    BY <1>3, <2>1, <2>2 DEF ReloadFails
<1> QED
  BY <1>1, <1>2, <1>3

(* So every Reload is such a move.                                         *)
LEMMA ReloadRemakes ==
  ASSUME SamplerInv, ReloadAll \/ ReloadRefused \/ ReloadFails, NEW l \in Locations
  PROVE  Remade(l)
<1>1. PICK processes, counters :
        /\ processes \in [Locations -> {"down", "up"}]
        /\ DOMAIN counters = Locations
        /\ counters = [k \in Locations |-> counters[k]]
        /\ \A k \in Locations : counters[k] \in Leaves(k)
        /\ Moves(processes, counters)
  BY ReloadsAreReloading DEF Reloading
<1> QED
  BY <1>1, MovesRemake

(* DeleteLocation: with the baseline goes all that could be charged to it. *)
LEMMA DeleteLocal ==
  ASSUME SamplerInv, NEW k \in Locations, DeleteLocation(k), NEW l \in Locations
  PROVE  Local(l)'
<1> USE DEF DeleteLocation, Change
<1>1. Local(l)
  BY DEF SamplerInv, ChargedExactly, Local
<1>2. SameVisit(l)
  BY DEF SameVisit, Reading, Persisting, samplerVars
<1>3. CASE l # k
  BY <1>1, <1>2, <1>3, UntouchedLocal
     DEF SameAccount, SamplerInv, SamplerTypeOK, netVars
<1>4. CASE l = k
  <2>1. baseline'[l] = None /\ present'[l] = FALSE
    BY <1>4 DEF SamplerInv, SamplerTypeOK
  <2>2. /\ ledger' = ledger /\ veth' = veth /\ sent' = sent /\ veths' = veths
        /\ first' = first
    BY DEF netVars
  <2> HIDE DEF DeleteLocation, Change
  <2> QED
    BY <1>1, <1>2, <2>1, <2>2
       DEF Local, LedgerBound, FirstSight, OneVeth, ChargedOnce, Now, SameVisit
<1> QED
  BY <1>3, <1>4

-----------------------------------------------------------------------------
(* The steps of a visit.                                                   *)

(* The first file is read: what its counter says now is what it has        *)
(* counted.                                                                *)
LEMMA ReadRXLocal ==
  ASSUME SamplerInv, NEW k \in Locations, ReadRX(k), NEW l \in Locations
  PROVE  Local(l)'
<1> USE DEF ReadRX
<1>1. Local(l)
  BY DEF SamplerInv, ChargedExactly, Local
<1>2. SameAccount(l)
  BY DEF SameAccount, dbVars, netVars
<1>3. CASE l # k
  BY <1>1, <1>2, <1>3, UntouchedLocal DEF SameVisit, Reading, Persisting
<1>4. CASE l = k
  <2>1. /\ ~ Persisting(l)' /\ veth[l] # None
        /\ read'.rx = veth[l].rx /\ read'.tx = 0
    BY <1>4 DEF Persisting
  <2>2. Now(l)' = Now(l) /\ Now(l) = veth[l]
    BY <1>2, <2>1 DEF SameAccount, Now
  <2> HIDE DEF ReadRX
  <2>3. LedgerBound(l)'
    BY <1>1, <1>2, <2>1, <2>2, AccountTypes
       DEF SameAccount, Local, LedgerBound, Due, Kept
  <2>4. OneVeth(l)'
    BY <1>1, <1>2, <2>1, AccountTypes DEF SameAccount, Local, OneVeth, AtMost
  <2>5. FirstSight(l)' /\ ChargedOnce(l)'
    BY <1>1, <1>2 DEF SameAccount, Local, FirstSight, ChargedOnce
  <2> QED
    BY <2>3, <2>4, <2>5 DEF Local
<1> QED
  BY <1>3, <1>4

(* The second file is read after the first: the veth may have been made    *)
(* anew between them, and then either counter may be of another veth.      *)
LEMMA ReadTXLocal ==
  ASSUME SamplerInv, ReadTX, NEW l \in Locations
  PROVE  Local(l)'
<1> USE DEF ReadTX
<1>1. Local(l)
  BY DEF SamplerInv, ChargedExactly, Local
<1>2. SameAccount(l)
  BY DEF SameAccount, dbVars, netVars
<1>3. CASE l # at
  BY <1>1, <1>2, <1>3, UntouchedLocal DEF SameVisit, Reading, Persisting
<1>4. CASE l = at
  <2>1. /\ ~ Reading(l)' /\ veth[l] # None /\ Reading(l)
        /\ read'.rx = read.rx /\ read'.tx = veth[l].tx
    BY <1>4 DEF Reading, SamplerInv, SamplerTypeOK, Counter
  <2>2. Now(l)' = Now(l) /\ Now(l) = veth[l]
    BY <1>2, <2>1 DEF SameAccount, Now
  <2> HIDE DEF ReadTX
  <2>3. LedgerBound(l)'
    BY <1>1, <1>2, <2>1, <2>2, AccountTypes
       DEF SameAccount, Local, LedgerBound, Due, Kept
  <2>4. OneVeth(l)'
    BY <1>1, <1>2, <2>1, AccountTypes DEF SameAccount, Local, OneVeth, AtMost
  <2>5. FirstSight(l)' /\ ChargedOnce(l)'
    BY <1>1, <1>2 DEF SameAccount, Local, FirstSight, ChargedOnce
  <2> QED
    BY <2>3, <2>4, <2>5 DEF Local
<1> QED
  BY <1>3, <1>4

(* persistCounter at the first sight of a location, or when a counter went *)
(* back: nothing is charged.                                               *)
LEMMA SetBaselineLocal ==
  ASSUME SamplerInv, SetBaseline, NEW l \in Locations
  PROVE  Local(l)'
<1> USE DEF SetBaseline, Visited
<1>1. Local(l)
  BY DEF SamplerInv, ChargedExactly, Local
<1>2. at \in Locations
  BY DEF SamplerInv, Visits, SamplerTypeOK
<1>3. ~ Reading(l)' /\ ~ Persisting(l)'
  BY DEF Reading, Persisting
<1>4. CASE l # at
  <2>1. SameAccount(l)
    BY <1>2, <1>4 DEF SameAccount, netVars, SamplerInv, SamplerTypeOK, HistoryTypeOK
  <2> QED
    BY <1>1, <1>3, <2>1, UntouchedLocal DEF SameVisit
<1>5. CASE l = at
  <2>1. /\ baseline'[l] = read /\ ledger' = ledger /\ sent' = sent /\ veth' = veth
        /\ veths' = veths /\ present' = present
        /\ first'[l] = IF first[l] = None THEN read ELSE first[l]
        /\ read # None
    BY <1>5, NoneIsNoCounter DEF netVars, SamplerInv, SamplerTypeOK, HistoryTypeOK
  <2>2. Now(l)' = Now(l)
    BY <2>1 DEF Now
  <2>3. Persisting(l) /\ ~ Reading(l) /\ present[l]
    BY <1>5 DEF Persisting, Reading
  <2>4. baseline[l] # None => ~ AtMost(baseline[l], read)
    BY <1>5, AccountTypes DEF Grew, AtMost
  <2> HIDE DEF SetBaseline, Visited
  <2>5. LedgerBound(l)'
    <3>1. /\ Now(l).rx \in Nat /\ Now(l).tx \in Nat
      BY AccountTypes DEF Now, ZeroCounter
    <3>2. ledger[l] + Total(Now(l)) <= sent[l] + Kept(read.rx, Now(l).rx) + Kept(read.tx, Now(l).tx)
      <4>1. CASE baseline[l] = None
        BY <1>1, <2>3, <3>1, <4>1, AccountTypes DEF Local, LedgerBound, FirstSight, Kept, Total
      <4>2. CASE baseline[l] # None
        BY <1>1, <2>3, <3>1, <4>2, AccountTypes DEF Local, LedgerBound, Kept, Due, Total
      <4> QED
        BY <4>1, <4>2
    <3> QED
      BY <1>1, <1>3, <2>1, <2>2, <3>1, <3>2, AccountTypes DEF Local, LedgerBound, Kept, Total
  <2>6. FirstSight(l)'
    BY <2>1 DEF FirstSight
  <2>7. veths[l] = 1 => baseline[l] = None
    BY <1>1, <2>3, <2>4 DEF Local, OneVeth
  <2>8. ChargedOnce(l)'
    BY <1>1, <2>1, <2>3, <2>7, AccountTypes DEF Local, FirstSight, ChargedOnce, Total
  <2>9. OneVeth(l)'
    BY <1>1, <1>3, <2>1, <2>3 DEF Local, OneVeth, AtMost
  <2> QED
    BY <2>5, <2>6, <2>8, <2>9 DEF Local
<1> QED
  BY <1>4, <1>5

(* persistCounter when neither counter went back: what is charged passed   *)
(* since the baseline or through a veth made since.                        *)
LEMMA ChargeDeltaLocal ==
  ASSUME SamplerInv, ChargeDelta, NEW l \in Locations
  PROVE  Local(l)'
<1> USE DEF ChargeDelta, Visited
<1>1. Local(l)
  BY DEF SamplerInv, ChargedExactly, Local
<1>2. at \in Locations
  BY DEF SamplerInv, Visits, SamplerTypeOK
<1>3. ~ Reading(l)' /\ ~ Persisting(l)'
  BY DEF Reading, Persisting
<1>4. CASE l # at
  <2>1. SameAccount(l)
    BY <1>2, <1>4 DEF SameAccount, netVars, SamplerInv, SamplerTypeOK, HistoryTypeOK
  <2> QED
    BY <1>1, <1>3, <2>1, UntouchedLocal DEF SameVisit
<1>5. CASE l = at
  <2>1. /\ baseline'[l] = read /\ sent' = sent /\ veth' = veth
        /\ ledger'[l] = ledger[l] + (Total(read) - Total(baseline[l]))
        /\ veths' = veths /\ present' = present /\ first' = first
        /\ read # None
    BY <1>5, NoneIsNoCounter DEF netVars, SamplerInv, SamplerTypeOK, HistoryTypeOK
  <2>2. Now(l)' = Now(l)
    BY <2>1 DEF Now
  <2>3. Persisting(l) /\ ~ Reading(l) /\ present[l]
    BY <1>5 DEF Persisting, Reading
  <2>4. baseline[l] # None /\ baseline[l].rx <= read.rx /\ baseline[l].tx <= read.tx
    BY <1>5, AccountTypes DEF Grew
  <2> HIDE DEF ChargeDelta, Visited
  <2>5. LedgerBound(l)'
    <3>1. /\ Now(l).rx \in Nat /\ Now(l).tx \in Nat
      BY AccountTypes DEF Now, ZeroCounter
    <3>2. ledger'[l] + Total(Now(l)) <= sent[l] + (Kept(read.rx, Now(l).rx) + Kept(read.tx, Now(l).tx))
      BY <1>1, <2>1, <2>3, <2>4, <3>1, AccountTypes DEF Local, LedgerBound, Kept, Due, Total
    <3>3. ledger'[l] \in Nat /\ ledger'[l] <= sent[l]
      BY <2>1, <2>4, <3>1, <3>2, AccountTypes DEF Kept, Total
    <3> QED
      BY <1>1, <1>3, <2>1, <2>2, <3>1, <3>2, <3>3, AccountTypes DEF Local, LedgerBound, Total
  <2>6. FirstSight(l)'
    BY <2>1 DEF FirstSight
  <2>8. ChargedOnce(l)'
    <3>1. veths[l] = 1 => first[l] \in Counter
      BY <1>1, <2>4 DEF Local, OneVeth, SamplerInv, HistoryTypeOK
    <3>2. veths[l] = 1 => first[l].rx \in Nat /\ first[l].tx \in Nat
      BY <3>1, BoundsAssumption DEF Counter
    <3> QED
      BY <1>1, <2>1, <2>4, <3>2, AccountTypes DEF Local, ChargedOnce, Total
  <2>9. OneVeth(l)'
    BY <1>1, <1>3, <2>1, <2>3, <2>4 DEF Local, OneVeth, AtMost
  <2> QED
    BY <2>5, <2>6, <2>8, <2>9 DEF Local
<1> QED
  BY <1>4, <1>5

-----------------------------------------------------------------------------
(* No step, of the sampler, of the administrator or of the kernel, breaks  *)
(* what is known of a location.                                            *)
LEMMA LocalStep ==
  ASSUME SamplerInv, [Next]_vars, NEW l \in Locations
  PROVE  Local(l)'
<1>1. Local(l)
  BY DEF SamplerInv, ChargedExactly, Local
<1> DEFINE Same == UNCHANGED <<baseline, ledger, veth, sent, veths, first, present>>
           NoVisit == pc' \notin {"reading", "persisting"}
<1>2. ASSUME Same, NoVisit \/ UNCHANGED <<pc, at, read>> PROVE Local(l)'
  BY <1>1, <1>2, UntouchedLocal DEF SameAccount, SameVisit, Reading, Persisting
<1>3. ASSUME NEW k \in Locations, Pass(k) PROVE Local(l)'
  BY <1>3, PassLocal
<1>4. ASSUME NEW k \in Locations, RestartLocation(k) PROVE Local(l)'
  <2>1. Remade(l)
    BY <1>4 DEF RestartLocation, Remade, SamplerInv, SamplerTypeOK, HistoryTypeOK
  <2>2. UNCHANGED <<dbVars, sent, first>> /\ SameVisit(l)
    BY <1>4 DEF RestartLocation, SameVisit, Reading, Persisting, samplerVars
  <2> QED
    BY <2>1, <2>2, RemadeLocal
<1>5. ASSUME NEW k \in Locations, DeleteLocation(k) PROVE Local(l)'
  BY <1>5, DeleteLocal
<1>6. ASSUME NEW c \in Clients, ToggleClient(c) \/ ToggleExpiry(c) PROVE Local(l)'
  BY <1>2, <1>6 DEF ToggleClient, ToggleExpiry, Change, netVars, samplerVars
<1>7. ASSUME NEW c \in Clients, NEW q \in Quotas, SetQuota(c, q) PROVE Local(l)'
  BY <1>2, <1>7 DEF SetQuota, Change, netVars, samplerVars
<1>20. ASSUME NEW mode, SetLockMode(mode) PROVE Local(l)'
  BY <1>2, <1>20 DEF SetLockMode, Change, netVars, samplerVars
<1>8. CASE ReloadElsewhere \/ ReloadElsewhereFails
  <2>1. Remade(l)
    BY <1>8, ReloadRemakes DEF ReloadElsewhere, ReloadElsewhereFails
  <2>2. UNCHANGED <<dbVars, sent, first>> /\ SameVisit(l)
    BY <1>8 DEF ReloadElsewhere, ReloadElsewhereFails, SameVisit, Reading, Persisting,
                samplerVars
  <2> QED
    BY <2>1, <2>2, RemadeLocal
<1>9. CASE OwnReload \/ OwnReloadRefused \/ OwnReloadFails
  <2>1. Remade(l)
    BY <1>9, ReloadRemakes DEF OwnReload, OwnReloadRefused, OwnReloadFails
  <2>2. UNCHANGED <<dbVars, sent, first>> /\ SameVisit(l)
    BY <1>9 DEF OwnReload, OwnReloadRefused, OwnReloadFails, EndReload, SameVisit, Reading,
                Persisting
  <2> QED
    BY <2>1, <2>2, RemadeLocal
<1>10. CASE BeginSample
  BY <1>2, <1>10 DEF BeginSample, dbVars, netVars
<1>11. ASSUME NEW k \in Locations, ReadRX(k) PROVE Local(l)'
  BY <1>11, ReadRXLocal
<1>12. CASE ReadTX
  BY <1>12, ReadTXLocal
<1>13. CASE SkipMissing
  BY <1>2, <1>13 DEF SkipMissing, dbVars, netVars
<1>14. CASE PersistRefused \/ SampleFails
  BY <1>2, <1>14 DEF PersistRefused, SampleFails, Abort, dbVars, netVars
<1>15. CASE SetBaseline
  BY <1>15, SetBaselineLocal
<1>16. CASE ChargeDelta
  BY <1>16, ChargeDeltaLocal
<1>17. CASE EndVisits \/ PanelRestart
  BY <1>2, <1>17 DEF EndVisits, PanelRestart, dbVars, netVars
<1>18. CASE Observe
  BY <1>2, <1>18 DEF Observe, dbVars, netVars
<1>19. CASE UNCHANGED vars
  BY <1>2, <1>19 DEF vars, dbVars, netVars, samplerVars
<1> HIDE DEF Same, NoVisit
<1> QED
  BY <1>3, <1>4, <1>5, <1>6, <1>7, <1>8, <1>9, <1>10, <1>11, <1>12, <1>13, <1>14, <1>15,
     <1>16, <1>17, <1>18, <1>19, <1>20 DEF Next, SamplerStep, Failure, Environment

(* The location a sample is at exists.                                     *)
LEMMA VisitsStep ==
  ASSUME SamplerInv, [Next]_vars
  PROVE  Visits'
<1>1. Visits
  BY DEF SamplerInv
<1> QED
  BY <1>1 DEF Visits, Next, SamplerStep, Failure, Environment, vars, samplerVars, Pass,
     RestartLocation, DeleteLocation, Change, ToggleClient, ToggleExpiry, SetQuota,
     SetLockMode, ReloadElsewhere, ReloadElsewhereFails, EndReload, OwnReload,
     OwnReloadRefused, BeginSample, Oldest, ReadRX, ReadTX, SkipMissing,
     PersistRefused, SampleFails, Abort, SetBaseline, ChargeDelta, Visited, EndVisits,
     OwnReloadFails, PanelRestart, Observe

-----------------------------------------------------------------------------
(* What the clients are charged.                                           *)
Charges == \A c \in Clients : used[c] = SumOver(ledger, OfClient(c))

(* The client's row and the row of traffic_counters are written in one     *)
(* transaction, so the sum over a client's locations follows what it is    *)
(* charged.                                                                *)
LEMMA ChargesStep ==
  ASSUME SamplerInv, [Next]_vars
  PROVE  Charges'
<1>1. Charges
  BY DEF SamplerInv, ChargedExactly, Charges
<1>2. CASE ChargeDelta
  <2> USE DEF ChargeDelta
  <2>1. at \in Locations /\ ClientOf[at] \in Clients
    BY <1>2, LocationsAssumption DEF SamplerInv, Visits, SamplerTypeOK
  <2> DEFINE d == Total(read) - Total(baseline[at])
  <2>2. d \in Nat
    BY <1>2, <2>1, AccountTypes DEF Grew, Total
  <2>3. \A x \in Locations : /\ ledger[x] \in Nat
                             /\ ledger'[x] = IF x = at THEN ledger[x] + d ELSE ledger[x]
    BY <1>2, AccountTypes DEF SamplerInv, SamplerTypeOK
  <2>4. \A c \in Clients : used'[c] = IF c = ClientOf[at] THEN used[c] + d ELSE used[c]
    BY <1>2 DEF SamplerInv, SamplerTypeOK
  <2> HIDE DEF ChargeDelta, d
  <2>5. ASSUME NEW c \in Clients PROVE used'[c] = SumOver(ledger', OfClient(c))
    <3>1. SumOver(ledger', OfClient(c)) =
             IF at \in OfClient(c) THEN SumOver(ledger, OfClient(c)) + d
                                   ELSE SumOver(ledger, OfClient(c))
      <4>1. \A x \in OfClient(c) : /\ ledger[x] \in Nat
                                   /\ ledger'[x] = IF x = at THEN ledger[x] + d ELSE ledger[x]
        BY <2>3, FiniteClients
      <4>2. IsFiniteSet(OfClient(c))
        BY FiniteClients
      <4> DEFINE before == ledger
                 after == ledger'
                 owned == OfClient(c)
      <4>3. \A x \in owned : /\ before[x] \in Nat
                            /\ after[x] = IF x = at THEN before[x] + d ELSE before[x]
        BY <4>1
      <4>4. IsFiniteSet(owned)
        BY <4>2
      <4> HIDE DEF before, after, owned
      <4>5. SumOver(after, owned) = IF at \in owned THEN SumOver(before, owned) + d
                                                    ELSE SumOver(before, owned)
        BY <2>2, <4>3, <4>4, SumAdds
      <4> QED
        BY <4>5 DEF before, after, owned
    <3>2. at \in OfClient(c) <=> c = ClientOf[at]
      BY <2>1 DEF OfClient
    <3> QED
      BY <1>1, <2>4, <3>1, <3>2 DEF Charges
  <2> QED
    BY <2>5 DEF Charges
<1>3. ASSUME used' = used, ledger' = ledger PROVE Charges'
  BY <1>1, <1>3 DEF Charges
<1>4. CASE ~ ChargeDelta
  BY <1>3, <1>4 DEF Next, SamplerStep, Failure, Environment, vars, dbVars, Pass,
     RestartLocation, DeleteLocation, Change, ToggleClient, ToggleExpiry, SetQuota,
     SetLockMode, ReloadElsewhere, ReloadElsewhereFails, EndReload, OwnReload,
     OwnReloadRefused, BeginSample, ReadRX, ReadTX, SkipMissing,
     PersistRefused, SampleFails, Abort, SetBaseline, EndVisits,
     OwnReloadFails, PanelRestart, Observe
<1> QED
  BY <1>2, <1>4

-----------------------------------------------------------------------------
(* The types of the state and of its history.                              *)
Types == SamplerTypeOK /\ HistoryTypeOK

(* A counter never exceeds the bound on the bytes that pass.               *)
LEMMA PassTypes ==
  ASSUME SamplerInv, NEW k \in Locations, Pass(k)
  PROVE  Types'
<1>1. SamplerTypeOK /\ HistoryTypeOK
  BY DEF SamplerInv
<1>2. \A x \in Locations : sent[x] \in Nat
  BY <1>1 DEF HistoryTypeOK
<1>3. SumOver(sent, Locations) \in Nat /\ sent[k] <= SumOver(sent, Locations)
  BY <1>2, LocationsAssumption, SumNat, SumBounds
<1>4. SumOver(sent', Locations) = SumOver(sent, Locations) + 1
  <2> DEFINE before == sent
             after == sent'
             byte == 1
  <2>1. \A x \in Locations : /\ before[x] \in Nat
                             /\ after[x] = IF x = k THEN before[x] + byte ELSE before[x]
    BY <1>1 DEF Pass, HistoryTypeOK
  <2>2. byte \in Nat /\ IsFiniteSet(Locations)
    BY LocationsAssumption
  <2> HIDE DEF before, after, byte
  <2>3. SumOver(after, Locations) = IF k \in Locations
                                      THEN SumOver(before, Locations) + byte
                                      ELSE SumOver(before, Locations)
    BY <2>1, <2>2, SumAdds
  <2> QED
    BY <2>3 DEF before, after, byte
<1>5. MaxSent \in Nat /\ SumOver(sent, Locations) + 1 <= MaxSent
  BY <1>3, BoundsAssumption DEF Pass
<1>6. veth[k] \in Counter /\ veth[k].rx + veth[k].tx <= sent[k]
  <2>1. veth[k] \in Counter
    BY <1>1 DEF Pass, SamplerTypeOK
  <2>2. Total(Now(k)) <= sent[k] /\ veth[k] # None
    BY DEF Pass, SamplerInv, LedgerBound
  <2> QED
    BY <2>1, <2>2 DEF Now, Total
<1>7. \/ [veth[k] EXCEPT !.rx = @ + 1] \in Counter /\ veth' = [veth EXCEPT ![k].rx = @ + 1]
      \/ [veth[k] EXCEPT !.tx = @ + 1] \in Counter /\ veth' = [veth EXCEPT ![k].tx = @ + 1]
  <2>1. veth[k].rx + 1 \in 0..MaxSent /\ veth[k].tx + 1 \in 0..MaxSent
    BY <1>2, <1>3, <1>5, <1>6 DEF Counter
  <2>2. /\ [veth[k] EXCEPT !.rx = @ + 1] \in Counter
        /\ [veth[k] EXCEPT !.tx = @ + 1] \in Counter
    BY <1>6, <2>1 DEF Counter
  <2>3. veth' = [veth EXCEPT ![k].rx = @ + 1] \/ veth' = [veth EXCEPT ![k].tx = @ + 1]
    BY DEF Pass
  <2> QED
    BY <2>2, <2>3
<1>8. veth' \in [Locations -> Counter \cup {None}]
  <2>1. veth \in [Locations -> Counter \cup {None}]
    BY <1>1 DEF SamplerTypeOK
  <2> QED
    BY <1>7, <2>1
<1>9. SamplerTypeOK'
  <2>1. UNCHANGED <<present, enabled, expired, quota, used, lockMode, ledger, baseline,
                    running, observed, pc, todo, at, read>>
    BY DEF Pass, dbVars, samplerVars
  <2> QED
    BY <1>1, <1>8, <2>1 DEF SamplerTypeOK
<1>10. HistoryTypeOK'
  BY <1>1, <1>3, <1>4, <1>5 DEF Pass, HistoryTypeOK
<1> QED
  BY <1>9, <1>10 DEF Types

(* A step that only moves tunnels and veths keeps the types.               *)
LEMMA VethMoveTypes ==
  ASSUME SamplerInv, veth' \in [Locations -> Counter \cup {None}],
         running' \in [Locations -> {"down", "up"}], veths' \in [Locations -> Nat],
         UNCHANGED <<dbVars, sent, first, observed, todo, at, read>>,
         pc' \in {pc, "idle", "failed"}, faults' \in Nat
  PROVE  Types'
<1>1. SamplerTypeOK'
  BY DEF SamplerInv, SamplerTypeOK, dbVars
<1>2. HistoryTypeOK'
  BY DEF SamplerInv, HistoryTypeOK, dbVars
<1> QED
  BY <1>1, <1>2 DEF Types

(* A new veth has counters.                                                *)
LEMMA ZeroIsCounter == ZeroCounter \in Counter
  BY BoundsAssumption DEF ZeroCounter, Counter

(* A Reload is such a step.                                                *)
LEMMA ReloadTypes ==
  ASSUME SamplerInv, ReloadAll \/ ReloadRefused \/ ReloadFails,
         UNCHANGED <<dbVars, sent, first, observed, todo, at, read>>,
         pc' \in {pc, "idle", "failed"}, faults' \in Nat
  PROVE  Types'
<1>1. PICK processes, counters :
        /\ processes \in [Locations -> {"down", "up"}]
        /\ DOMAIN counters = Locations
        /\ counters = [l \in Locations |-> counters[l]]
        /\ \A l \in Locations : counters[l] \in Leaves(l)
        /\ Moves(processes, counters)
  BY ReloadsAreReloading DEF Reloading
<1>2. \A l \in Locations : Leaves(l) \subseteq Counter \cup {None}
  BY ZeroIsCounter DEF Leaves, SamplerInv, SamplerTypeOK
<1>3. counters \in [Locations -> Counter \cup {None}]
  BY <1>1, <1>2
<1>4. veths \in [Locations -> Nat]
  BY DEF SamplerInv, HistoryTypeOK
<1>5. veths' \in [Locations -> Nat]
  BY <1>1, <1>4 DEF Moves
<1>6. running' = processes /\ veth' = counters
  BY <1>1 DEF Moves
<1> QED
  BY <1>1, <1>3, <1>5, <1>6, VethMoveTypes

(* Every step keeps the types.                                             *)
LEMMA TypesStep ==
  ASSUME SamplerInv, [Next]_vars
  PROVE  Types'
<1> USE ZeroIsCounter DEF Types
<1>1. SamplerTypeOK /\ HistoryTypeOK
  BY DEF SamplerInv
<1>2. ASSUME NEW k \in Locations, Pass(k) PROVE Types'
  BY <1>2, PassTypes
<1>3. ASSUME NEW k \in Locations, RestartLocation(k) PROVE Types'
  <2>1. veth' \in [Locations -> Counter \cup {None}] /\ veths' \in [Locations -> Nat]
    BY <1>1, <1>3 DEF RestartLocation, SamplerTypeOK, HistoryTypeOK
  <2> QED
    BY <1>1, <1>3, <2>1, VethMoveTypes
       DEF RestartLocation, SamplerTypeOK, HistoryTypeOK, samplerVars
<1>4. ASSUME NEW k \in Locations, DeleteLocation(k) PROVE Types'
  BY <1>1, <1>4 DEF DeleteLocation, Change, netVars, samplerVars, SamplerTypeOK, HistoryTypeOK
<1>5. ASSUME NEW c \in Clients, ToggleClient(c) PROVE Types'
  BY <1>1, <1>5 DEF ToggleClient, Change, netVars, samplerVars, SamplerTypeOK, HistoryTypeOK
<1>6. ASSUME NEW c \in Clients, ToggleExpiry(c) PROVE Types'
  BY <1>1, <1>6 DEF ToggleExpiry, Change, netVars, samplerVars, SamplerTypeOK, HistoryTypeOK
<1>7. ASSUME NEW c \in Clients, NEW q \in Quotas, SetQuota(c, q) PROVE Types'
  BY <1>1, <1>7 DEF SetQuota, Change, netVars, samplerVars, SamplerTypeOK, HistoryTypeOK
<1>21. ASSUME NEW mode \in LockModes, SetLockMode(mode) PROVE Types'
  BY <1>1, <1>21 DEF SetLockMode, Change, netVars, samplerVars, SamplerTypeOK, HistoryTypeOK
<1>22. faults \in Nat /\ faults + 1 \in Nat
  BY <1>1 DEF HistoryTypeOK
<1>8. CASE ReloadElsewhere \/ ReloadElsewhereFails
  <2>1. faults' \in Nat
    BY <1>8, <1>22 DEF ReloadElsewhere, ReloadElsewhereFails, Fault
  <2> QED
    BY <1>8, <2>1, ReloadTypes DEF ReloadElsewhere, ReloadElsewhereFails, samplerVars
<1>9. CASE OwnReload \/ OwnReloadRefused \/ OwnReloadFails
  <2>1. faults' \in Nat
    BY <1>9, <1>22 DEF OwnReload, OwnReloadRefused, OwnReloadFails, Fault
  <2> QED
    BY <1>9, <2>1, ReloadTypes DEF OwnReload, OwnReloadRefused, OwnReloadFails, EndReload
<1>10. CASE BeginSample
  BY <1>1, <1>10 DEF BeginSample, dbVars, netVars, SamplerTypeOK, HistoryTypeOK
<1>11. ASSUME NEW k \in Locations, ReadRX(k) PROVE Types'
  <2>1. veth[k] \in Counter
    BY <1>1, <1>11 DEF ReadRX, SamplerTypeOK
  <2>2. read' \in Counter
    BY <1>11, <2>1, BoundsAssumption DEF ReadRX, Counter
  <2> QED
    BY <1>1, <1>11, <2>2 DEF ReadRX, dbVars, netVars, SamplerTypeOK, HistoryTypeOK
<1>12. CASE ReadTX
  <2>1. veth[at] \in Counter
    BY <1>1, <1>12 DEF ReadTX, SamplerInv, Visits, SamplerTypeOK
  <2>2. read' \in Counter
    BY <1>1, <1>12, <2>1 DEF ReadTX, SamplerTypeOK, Counter
  <2> QED
    BY <1>1, <1>12, <2>2 DEF ReadTX, dbVars, netVars, SamplerTypeOK, HistoryTypeOK
<1>13. CASE SkipMissing
  BY <1>1, <1>13 DEF SkipMissing, dbVars, netVars, SamplerTypeOK, HistoryTypeOK
<1>14. CASE PersistRefused \/ SampleFails
  BY <1>1, <1>14 DEF PersistRefused, SampleFails, Abort, Fault, dbVars, netVars, SamplerTypeOK,
                   HistoryTypeOK
<1>15. CASE SetBaseline
  BY <1>1, <1>15 DEF SetBaseline, Visited, netVars, SamplerTypeOK, HistoryTypeOK
<1>16. CASE ChargeDelta
  <2>1. at \in Locations /\ ClientOf[at] \in Clients
    BY <1>16, LocationsAssumption DEF ChargeDelta, SamplerInv, Visits, SamplerTypeOK
  <2>2. Total(read) - Total(baseline[at]) \in Nat
    BY <1>16, <2>1, AccountTypes DEF ChargeDelta, Grew, Total
  <2>3. used' \in [Clients -> Nat] /\ ledger' \in [Locations -> Nat]
    BY <1>1, <1>16, <2>1, <2>2 DEF ChargeDelta, SamplerTypeOK
  <2>4. baseline' \in [Locations -> Counter \cup {None}]
    BY <1>1, <1>16, <2>1 DEF ChargeDelta, SamplerTypeOK
  <2> QED
    BY <1>1, <1>16, <2>3, <2>4
       DEF ChargeDelta, Visited, netVars, SamplerTypeOK, HistoryTypeOK
<1>17. CASE EndVisits
  BY <1>1, <1>17 DEF EndVisits, dbVars, netVars, SamplerTypeOK, HistoryTypeOK
<1>18. CASE Observe
  <2>1. \A c \in Clients : StateOf(c) \in ClientState
    BY <1>1 DEF StateOf, ClientState, Over, Exceeds, SamplerTypeOK
  <2>2. observed' \in [Clients -> ClientState \cup {None}]
    BY <1>18, <2>1 DEF Observe, Seen
  <2> QED
    BY <1>1, <1>18, <2>2 DEF Observe, dbVars, netVars, SamplerTypeOK, HistoryTypeOK
<1>19. CASE PanelRestart
  BY <1>1, <1>19 DEF PanelRestart, Fault, dbVars, netVars, SamplerTypeOK, HistoryTypeOK
<1>20. CASE UNCHANGED vars
  BY <1>1, <1>20 DEF vars, dbVars, netVars, samplerVars, SamplerTypeOK, HistoryTypeOK
<1> QED
  BY <1>2, <1>3, <1>4, <1>5, <1>6, <1>7, <1>8, <1>9, <1>10, <1>11, <1>12, <1>13, <1>14,
     <1>15, <1>16, <1>17, <1>18, <1>19, <1>20, <1>21 DEF Next, SamplerStep, Failure, Environment

-----------------------------------------------------------------------------
(* Every step keeps the invariant.                                         *)
LEMMA NextInv == SamplerInv /\ [Next]_vars => SamplerInv'
<1> SUFFICES ASSUME SamplerInv, [Next]_vars PROVE SamplerInv'
  OBVIOUS
<1>1. Types'
  BY TypesStep
<1>2. Visits'
  BY VisitsStep
<1>3. \A l \in Locations : Local(l)'
  BY LocalStep
<1>4. Charges'
  BY ChargesStep
<1> QED
  BY <1>1, <1>2, <1>3, <1>4 DEF SamplerInv, ChargedExactly, Types, Local, Charges

(* The sampler keeps its invariant, whatever the order of samples, bytes,  *)
(* restarts of tunnels and of the panel, and changes.                      *)
THEOREM SamplerInvariant == Spec => []SamplerInv
  BY InitInv, NextInv, PTL DEF Spec

(* The state of the sampler keeps its types: among them, no counter of a   *)
(* client or a location ever becomes negative.                             *)
THEOREM SamplerTypes == Spec => []SamplerTypeOK
<1>1. SamplerInv => SamplerTypeOK
  BY DEF SamplerInv
<1> QED
  BY <1>1, SamplerInvariant, PTL

(* The bound of each location gives that of its client.                    *)
LEMMA InvGivesNeverOvercharged == SamplerInv => NeverOvercharged
<1> SUFFICES ASSUME SamplerInv PROVE NeverOvercharged
  OBVIOUS
<1>1. \A l \in Locations : ledger[l] <= sent[l] /\ ledger[l] \in Nat /\ sent[l] \in Nat
  BY AccountTypes DEF SamplerInv, LedgerBound
<1>2. ASSUME NEW c \in Clients
      PROVE  SumOver(ledger, OfClient(c)) <= SumOver(sent, OfClient(c))
  BY <1>1, FiniteClients, SumMonotone
<1> QED
  BY <1>1, <1>2 DEF NeverOvercharged, SamplerInv, ChargedExactly

(* persistCounter never charges a client for a byte that did not pass,     *)
(* although the two counters are read apart and restarts reset them.       *)
THEOREM NobodyIsOvercharged == Spec => []NeverOvercharged
  BY InvGivesNeverOvercharged, SamplerInvariant, PTL

(* persistCounter charges every byte since the first sample exactly once   *)
(* while the veth of the location stays, and a client exactly what its     *)
(* locations are.                                                          *)
THEOREM EveryByteIsChargedOnce == Spec => []ChargedExactly
<1>1. SamplerInv => ChargedExactly
  BY DEF SamplerInv
<1> QED
  BY <1>1, SamplerInvariant, PTL

-----------------------------------------------------------------------------
(* The sampler implements Accounts.                                        *)

(* A byte that passes is one that passes.                                  *)
LEMMA PassRefines ==
  ASSUME NEW l \in Locations, Pass(l)
  PROVE  A!Next
<1>1. A!Pass(l)
  BY DEF Pass, A!Pass, dbVars
<1> QED
  BY <1>1 DEF A!Next

(* What a visit charges passed and was not charged before; it may be       *)
(* nothing.                                                                *)
LEMMA ChargeRefines ==
  ASSUME SamplerInv, ChargeDelta
  PROVE  [A!Next]_(A!accountVars)
<1> DEFINE delta == Total(read) - Total(baseline[at])
<1>1. at \in Locations
  BY DEF ChargeDelta, SamplerInv, Visits, SamplerTypeOK
<1>2. delta \in Nat
  BY <1>1, AccountTypes DEF ChargeDelta, Grew, Total
<1>3. /\ ledger' = [ledger EXCEPT ![at] = @ + delta]
      /\ used' = [used EXCEPT ![ClientOf[at]] = @ + delta]
      /\ UNCHANGED sent
  BY DEF ChargeDelta, netVars
<1>4. ledger \in [Locations -> Nat] /\ used \in [Clients -> Nat] /\ sent \in [Locations -> Nat]
  BY DEF SamplerInv, SamplerTypeOK, HistoryTypeOK
<1>5. ledger[at] + delta <= sent[at]
  <2>1. ledger'[at] <= sent'[at]
    BY <1>1, ChargeDeltaLocal DEF Local, LedgerBound
  <2> HIDE DEF delta
  <2> QED
    BY <1>1, <1>2, <1>3, <1>4, <2>1
<1> HIDE DEF delta
<1>6. CASE delta = 0
  <2>1. ledger' = ledger /\ used' = used
    BY <1>1, <1>3, <1>4, <1>6
  <2> QED
    BY <1>3, <2>1 DEF A!accountVars
<1>7. CASE delta # 0
  <2>1. delta \in 1..A!Unpaid(at)
    BY <1>1, <1>2, <1>4, <1>5, <1>7 DEF A!Unpaid
  <2>2. A!Charge(at, delta)
    BY <1>3, <2>1, <1>1, <1>4 DEF A!Charge, A!Unpaid
  <2> QED
    BY <1>1, <2>1, <2>2 DEF A!Next
<1> QED
  BY <1>6, <1>7

(* persistCounter and the kernel's counting, seen as charges and bytes: no *)
(* other step, and no failure or restart, touches an account.              *)
THEOREM SamplerKeepsAccounts == Spec => ImplementsAccounts
<1>1. Init => A!Init
  BY DEF Init, A!Init
<1>2. SamplerInv /\ [Next]_vars => [A!Next]_(A!accountVars)
  <2> SUFFICES ASSUME SamplerInv, [Next]_vars PROVE [A!Next]_(A!accountVars)
    OBVIOUS
  <2>1. ASSUME NEW l \in Locations, Pass(l) PROVE [A!Next]_(A!accountVars)
    BY <2>1, PassRefines
  <2>2. CASE ChargeDelta
    BY <2>2, ChargeRefines
  <2>3. CASE ~ ChargeDelta /\ \A l \in Locations : ~ Pass(l)
    <3>1. UNCHANGED <<sent, ledger, used>>
      BY <2>3 DEF Next, SamplerStep, Failure, Environment, vars, dbVars, netVars,
         RestartLocation, DeleteLocation, Change, ToggleClient, ToggleExpiry, SetQuota,
         SetLockMode, ReloadElsewhere, ReloadElsewhereFails, EndReload, OwnReload,
         OwnReloadRefused, BeginSample, ReadRX, ReadTX, SkipMissing,
         PersistRefused, SampleFails, Abort, SetBaseline, EndVisits, OwnReloadFails,
         PanelRestart, Observe
    <3> QED
      BY <3>1 DEF A!accountVars
  <2> QED
    BY <2>1, <2>2, <2>3
<1> QED
  BY <1>1, <1>2, SamplerInvariant, PTL DEF Spec, ImplementsAccounts, A!Spec

-----------------------------------------------------------------------------
(* A sample comes to its end.                                              *)

(* The locations to visit can be counted, and one that has been visited    *)
(* counts for one.                                                         *)
LEMMA TodoIsFinite ==
  ASSUME SamplerInv
  PROVE  /\ Cardinality(todo) \in Nat
         /\ \A l \in todo : Cardinality(todo \ {l}) = Cardinality(todo) - 1
         /\ Cardinality({}) = 0
<1>1. IsFiniteSet(todo)
  BY LocationsAssumption, FS_Subset DEF SamplerInv, SamplerTypeOK
<1> QED
  BY <1>1, FS_CardinalityType, FS_RemoveElement, FS_EmptySet

(* Where a step of the sample leads, and what it leaves to be visited.     *)
LEMMA SampleMoves ==
  ASSUME SamplerInv, [Next]_vars, <<pc, todo>>' # <<pc, todo>>, pc \notin {"idle", "failed"},
         pc' # "booting"
  PROVE  \/ /\ todo' = todo
            /\ <<pc, pc'>> \in {<<"visiting", "reading">>, <<"reading", "persisting">>,
                               <<"visiting", "observing">>, <<"observing", "reloading">>,
                               <<"observing", "idle">>, <<"reloading", "idle">>,
                               <<"booting", "idle">>, <<"reloading", "failed">>,
                               <<"booting", "failed">>}
         \/ /\ \E l \in todo : todo' = todo \ {l}
            /\ pc \in {"visiting", "reading", "persisting"} /\ pc' = "visiting"
         \/ /\ todo' = {}
            /\ pc \in {"visiting", "reading", "persisting", "observing"} /\ pc' = "idle"
<1>1. CASE SamplerStep
  <2>1. CASE SkipMissing \/ SetBaseline \/ ChargeDelta
    BY <2>1 DEF SkipMissing, SetBaseline, ChargeDelta, Visited, SamplerInv, Visits
  <2>2. CASE ReadTX \/ EndVisits \/ Observe \/ OwnReload \/ OwnReloadRefused
    BY <2>2 DEF ReadTX, EndVisits, Observe, OwnReload, OwnReloadRefused, EndReload
  <2>3. ASSUME NEW l \in Locations, ReadRX(l)
        PROVE  todo' = todo /\ pc = "visiting" /\ pc' = "reading"
    BY <2>3 DEF ReadRX
  <2>4. CASE PersistRefused
    BY <2>4 DEF PersistRefused, Abort
  <2>5. ~ BeginSample
    BY DEF BeginSample
  <2> QED
    BY <1>1, <2>1, <2>2, <2>3, <2>4, <2>5 DEF SamplerStep
<1>2. CASE Failure
  BY <1>2 DEF Failure, SampleFails, Abort, OwnReloadFails, EndReload, ReloadElsewhereFails,
              samplerVars, PanelRestart
<1>3. CASE Environment \/ UNCHANGED vars
  <2>1. UNCHANGED <<pc, todo>>
    BY <1>3 DEF Environment, vars, samplerVars, Pass, RestartLocation, DeleteLocation,
       Change, ToggleClient, ToggleExpiry, SetQuota, SetLockMode, ReloadElsewhere
  <2> QED
    BY <2>1
<1> QED
  BY <1>1, <1>2, <1>3 DEF Next

(* Each of these moves leaves fewer steps to take.                         *)
LEMMA SampleGoesOn ==
  ASSUME SamplerInv, [Next]_vars, <<pc, todo>>' # <<pc, todo>>, pc \notin {"idle", "failed"},
         pc' # "booting"
  PROVE  SampleLeft' < SampleLeft
<1> DEFINE n == Cardinality(todo)
           m == Cardinality(todo')
<1>1. /\ PhaseLeft["idle"] = 0 /\ PhaseLeft["failed"] = 0
      /\ PhaseLeft["booting"] = 1 /\ PhaseLeft["reloading"] = 1
      /\ PhaseLeft["observing"] = 2 /\ PhaseLeft["persisting"] = 1
      /\ PhaseLeft["reading"] = 2 /\ PhaseLeft["visiting"] = 3
  BY DEF PhaseLeft
<1>2. SampleLeft = 4 * n + PhaseLeft[pc] /\ SampleLeft' = 4 * m + PhaseLeft[pc']
  BY DEF SampleLeft
<1>3. n \in Nat
  BY TodoIsFinite
<1>4. CASE todo' = todo
  <2>1. /\ m = n
        /\ <<pc, pc'>> \in {<<"visiting", "reading">>, <<"reading", "persisting">>,
                           <<"visiting", "observing">>, <<"observing", "reloading">>,
                           <<"observing", "idle">>, <<"reloading", "idle">>,
                           <<"booting", "idle">>, <<"reloading", "failed">>,
                           <<"booting", "failed">>}
           \/ (pc \in {"visiting", "reading", "persisting", "observing"} /\ pc' = "idle")
    BY <1>4, SampleMoves
  <2>2. PhaseLeft[pc'] < PhaseLeft[pc] /\ PhaseLeft[pc'] \in Nat /\ PhaseLeft[pc] \in Nat
    BY <1>1, <2>1
  <2> HIDE DEF n, m
  <2> QED
    BY <1>2, <1>3, <2>1, <2>2
<1>5. CASE \E l \in todo : todo' = todo \ {l}
  <2>1. m = n - 1
    BY <1>5, TodoIsFinite
  <2>2. /\ PhaseLeft[pc] \in 1..3 /\ PhaseLeft[pc'] \in 0..3
    <3>1. pc \in {"visiting", "reading", "persisting", "observing"} /\ pc' \in {"visiting", "idle"}
      BY <1>5, SampleMoves
    <3> QED
      BY <1>1, <3>1
  <2> HIDE DEF n, m
  <2> QED
    BY <1>2, <1>3, <2>1, <2>2
<1>6. CASE todo' = {} /\ pc' = "idle"
                 /\ pc \in {"visiting", "reading", "persisting", "observing"}
  <2>1. m = 0
    BY <1>6, TodoIsFinite
  <2>2. PhaseLeft[pc] \in 1..3 /\ PhaseLeft[pc'] = 0
    BY <1>1, <1>6
  <2> HIDE DEF n, m
  <2> QED
    BY <1>2, <1>3, <2>1, <2>2
<1> QED
  BY <1>4, <1>5, <1>6, SampleMoves

(* Every step of a sample, its failures among them, brings it nearer to    *)
(* its end: no sample turns back or goes round in a circle, so that the    *)
(* ticker comes to the next one.                                           *)
THEOREM SamplesEnd == Spec => SampleAdvances
<1>1. SamplerInv /\ [Next]_vars =>
        [<<pc, todo>>' # <<pc, todo>> /\ pc \notin {"idle", "failed"} /\ pc' # "booting" =>
           SampleLeft' < SampleLeft]_vars
  BY SampleGoesOn
<1> QED
  BY <1>1, SamplerInvariant, PTL DEF Spec, SampleAdvances

-----------------------------------------------------------------------------
(* A crossing is not forgotten.                                            *)
CrossingsStay(c) ==
    ReloadEndsInError \/
      /\ OverPending(c) => OverPending(c)' \/ ~ Over(c)' \/ Closed(c)'
      /\ ExpiryPending(c) => ExpiryPending(c)' \/ ~ expired'[c] \/ Closed(c)'

(* A step that neither makes the sampler remember anew nor ends its Reload *)
(* leaves the crossing before it, or undoes it.                            *)
LEMMA MemoryKept ==
  ASSUME NEW c, observed' = observed, pc = "reloading" => pc' = "reloading"
  PROVE  CrossingsStay(c)
  BY DEF CrossingsStay, OverPending, ExpiryPending, OverQuotaNow, ExpiredNow

(* The sampler remembers a crossing only as it asks for the Reload.        *)
LEMMA ObserveKeeps ==
  ASSUME NEW c \in Clients, Observe
  PROVE  CrossingsStay(c)
<1>1. UNCHANGED <<enabled, expired, quota, used>> /\ pc = "observing"
  BY DEF Observe, dbVars
<1>2. Crossing(c) => pc' = "reloading"
  BY DEF Observe
<1>3. Over(c)' = Over(c)
  BY <1>1 DEF Over
<1>4. ~ enabled[c] => Closed(c)'
  BY <1>1 DEF Closed
<1> QED
  BY <1>1, <1>2, <1>3, <1>4
     DEF CrossingsStay, OverPending, ExpiryPending, Crossing

(* A Reload that succeeds lets no tunnel of the client carry traffic: one  *)
(* that is to be without traffic would have made it fail.                  *)
LEMMA ReloadCloses ==
  ASSUME SamplerInv, NEW c \in Clients, OwnReload
  PROVE  CrossingsStay(c)
<1>1. running' = [l \in Locations |-> Desired(l)]
  BY DEF OwnReload, ReloadAll, Moves
<1>2. ASSUME NEW l \in OfClient(c), Over(c) \/ expired[c]
      PROVE  l \in Locations /\ Desired(l) # "up"
  <2>1. l \in Locations /\ ClientOf[l] = c
    BY DEF OfClient
  <2>2. lockMode \in {"stop", "disable_traffic"}
    BY DEF SamplerInv, SamplerTypeOK, LockModes
  <2> QED
    BY <1>2, <2>1, <2>2 DEF Desired
<1>3. Over(c) \/ expired[c] => Closed(c)'
  BY <1>1, <1>2 DEF Closed
<1> QED
  BY <1>3 DEF CrossingsStay, OverPending, ExpiryPending, OverQuotaNow, ExpiredNow

(* Once a client that was within its quota and its time is seen to be over *)
(* either, every step keeps that in mind until a Reload has closed its     *)
(* tunnels: samples that end with an error, Reloads of others, panels that *)
(* die and changes of the administrator do not swallow it.  Only a Reload  *)
(* of the sampler's own that ends with an error does, in disable_traffic   *)
(* mode each one.                                                          *)
THEOREM CrossingsAreKept == Spec => CrossingIsKept
<1>1. SamplerInv /\ [Next]_vars => [\A c \in Clients : CrossingsStay(c)]_vars
  <2> SUFFICES ASSUME SamplerInv, [Next]_vars, NEW c \in Clients
               PROVE  CrossingsStay(c)
    OBVIOUS
  <2>1. CASE Observe
    BY <2>1, ObserveKeeps
  <2>2. CASE OwnReload
    BY <2>2, ReloadCloses
  <2>3. CASE OwnReloadRefused \/ OwnReloadFails
    <3>1. pc \in {"booting", "reloading"} /\ pc' = "failed" /\ observed' = observed
      BY <2>3 DEF OwnReloadRefused, OwnReloadFails, EndReload
    <3>2. CASE pc = "reloading"
      BY <3>1, <3>2 DEF CrossingsStay, ReloadEndsInError
    <3>3. CASE pc # "reloading"
      BY <3>1, <3>3, MemoryKept
    <3> QED
      BY <3>2, <3>3
  <2>4. CASE PanelRestart
    <3>1. Closed(c)'
      BY <2>4 DEF PanelRestart, Closed, OfClient
    <3> QED
      BY <3>1 DEF CrossingsStay
  <2>5. CASE ~ Observe /\ ~ OwnReload /\ ~ OwnReloadRefused /\ ~ OwnReloadFails /\ ~ PanelRestart
    <3>1. observed' = observed /\ (pc = "reloading" => pc' = "reloading")
      BY <2>5 DEF Next, SamplerStep, Failure, Environment, vars, samplerVars, Pass,
         RestartLocation, DeleteLocation, Change, ToggleClient, ToggleExpiry, SetQuota,
         SetLockMode, ReloadElsewhere, ReloadElsewhereFails, BeginSample, ReadRX, ReadTX,
         SkipMissing, PersistRefused, SampleFails, Abort, SetBaseline, ChargeDelta, Visited,
         EndVisits
    <3> QED
      BY <3>1, MemoryKept
  <2> QED
    BY <2>1, <2>2, <2>3, <2>4, <2>5
<1>2. CrossingIsKept <=> [][\A c \in Clients : CrossingsStay(c)]_vars
  BY PTL DEF CrossingIsKept, CrossingsStay
<1> QED
  BY <1>1, <1>2, SamplerInvariant, PTL DEF Spec

=============================================================================
