------------------------ MODULE ClientsScreenProofs ------------------------
(***************************************************************************)
(* ScreenInv is an invariant of the clients page, for any clients, filters *)
(* and requests, and the four invariants the run checks follow.            *)
(*                                                                         *)
(* Freshness speaks of the queries that are not in use as well: an answer  *)
(* read before a change is reported must not arrive as the newest later,   *)
(* when its client is back in the detail.  A query not in use may be old,  *)
(* but Render fetches it when it comes into use.                           *)
(***************************************************************************)
EXTENDS ClientsScreen, TLAPS, WellFoundedInduction

(* A call under way has been sent, with what it needs, and knows no write  *)
(* that has not been made.                                                 *)
CallShape ==
    \A k \in Slots :
        \/ call[k] = NoCall
        \/ /\ call[k].kind \in Kinds /\ call[k].step \in {"sent", "done"}
           /\ call[k].kind = "rotate" =>
                /\ call[k].ticks \in Ticks
                /\ call[k].sent \in 1..Len(Requests(call[k].ticks))
           /\ \A key \in Keys : call[k].at[key] <= clock[key]

(* A drawer or a dialog that is closed is empty; the client a deletion is  *)
(* for was on show.                                                        *)
DialogShape ==
    /\ drawer.kind = "none" => drawer = NoDrawer
    /\ confirm.kind = "none" => confirm = NoConfirm
    /\ confirm.kind = "delete client" => confirm.client \in named

(* No query is to show a write that has not been made, and each write      *)
(* touches the list.                                                       *)
Clocks == \A key \in Keys : acked[key] <= clock[key] /\ clock[key] <= clock[List]

(* An answer on its way is as new as what it must show, and so is one that *)
(* has arrived in a query in use, unless the query has lapsed.             *)
ReadIsFresh(q, n) ==
    q.step = "read" => q.val = Refused \/ (q.val \in Answers /\ q.val.at >= n)
ShownIsFresh(q, n) ==
    q.step = "idle" /\ ~q.failed => q.data # None /\ q.data.at >= n
Freshness ==
    \A key \in Keys :
        /\ ReadIsFresh(query[key], Owed(key))
        /\ Active(key) => ShownIsFresh(query[key], Owed(key))

ScreenInv ==
    /\ ScreenTypeOK /\ Clocks
    /\ CallShape /\ DialogShape /\ DeletesAsked
    /\ Freshness

(* The first of some clients is one of them: their ranks have a least      *)
(* element.                                                                *)
LEMMA LeastOf ==
    ASSUME NEW S, S \subseteq Clients, S # {}
    PROVE  First(S) \in S
<1> DEFINE R == {p \in Nat \X Nat : p[1] < p[2]}
           T == {Rank[c] : c \in S}
<1>1. T \subseteq Nat /\ T # {}
  BY ScreenAssumption
<1>2. IsWellFoundedOn(R, Nat)
  BY NatLessThanWellFounded DEF OpToRel
<1> HIDE DEF R
<1>3. PICK m \in T : \A n \in T : <<n, m>> \notin R
  BY <1>1, <1>2, WFMin
<1>4. ASSUME NEW n \in T PROVE m <= n
  <2>1. n \in Nat /\ m \in Nat
    BY <1>1
  <2>2. n < m => <<n, m>> \in R
    BY <2>1 DEF R
  <2> QED
    BY <1>3, <2>1, <2>2
<1>5. \E c \in S : \A d \in S : Rank[c] <= Rank[d]
  BY <1>4
<1> QED
  BY <1>5 DEF First

(* The larger of two numbers.                                              *)
LEMMA Larger ==
    ASSUME NEW m \in Nat, NEW n \in Nat
    PROVE  Max({m, n}) \in {m, n} /\ Max({m, n}) >= m /\ Max({m, n}) >= n
<1>1. \E x \in {m, n} : \A y \in {m, n} : x >= y
  OBVIOUS
<1> QED
  BY <1>1 DEF Max

-----------------------------------------------------------------------------
(* What the operators of the query cache make of an entry.                 *)
LEMMA EntryOperations ==
    ASSUME NEW q \in Entry(Answers, {}), NEW a \in Answers \cup {Refused}
    PROVE  /\ NewEntry \in Entry(Answers, {})
           /\ Fetch(q, None) \in Entry(Answers, {}) /\ Refetch(q, None) \in Entry(Answers, {})
           /\ Read(q, a) \in Entry(Answers, {}) /\ Failed(q) \in Entry(Answers, {})
           /\ q.val \in Answers \cup {Refused} => Arrived(q) \in Entry(Answers, {})
<1> USE DEF Entry, Steps, Flying
<1>1. NewEntry \in Entry(Answers, {})
  BY DEF NewEntry
<1>2. Fetch(q, None) \in Entry(Answers, {}) /\ Refetch(q, None) \in Entry(Answers, {})
  BY DEF Fetch, Refetch, Sent
<1>3. Read(q, a) \in Entry(Answers, {}) /\ Failed(q) \in Entry(Answers, {})
  BY DEF Read, Failed
<1>4. q.val \in Answers \cup {Refused} => Arrived(q) \in Entry(Answers, {})
  BY <1>3 DEF Arrived, Accepted
<1> QED
  BY <1>1, <1>2, <1>3, <1>4

(* They keep what is fresh so, and an answer that is fresh when read is so *)
(* when it arrives.                                                        *)
LEMMA EntryFreshness ==
    ASSUME NEW q \in Entry(Answers, {}), NEW n \in Nat
    PROVE  /\ Fetch(q, None).data = q.data /\ Refetch(q, None).data = q.data
           /\ Failed(q).data = q.data
           /\ ReadIsFresh(q, n) => /\ ReadIsFresh(Fetch(q, None), n)
                                   /\ ReadIsFresh(Refetch(q, None), n)
           /\ ReadIsFresh(Failed(q), n)
           /\ Fetch(q, None).step # "idle" /\ Refetch(q, None).step # "idle"
           /\ ShownIsFresh(Failed(q), n)
           /\ q.step = "read" /\ ReadIsFresh(q, n) =>
                ReadIsFresh(Arrived(q), n) /\ ShownIsFresh(Arrived(q), n)
<1> USE DEF Entry, Steps, Flying, ReadIsFresh, ShownIsFresh
<1>1. /\ Fetch(q, None).data = q.data /\ Refetch(q, None).data = q.data
      /\ ReadIsFresh(q, n) => /\ ReadIsFresh(Fetch(q, None), n)
                              /\ ReadIsFresh(Refetch(q, None), n)
      /\ Fetch(q, None).step # "idle" /\ Refetch(q, None).step # "idle"
  BY DEF Fetch, Refetch, Sent
<1>2. /\ Failed(q).data = q.data
      /\ ReadIsFresh(Failed(q), n) /\ ShownIsFresh(Failed(q), n)
  BY DEF Failed
<1>3. q.step = "read" /\ ReadIsFresh(q, n) =>
        ReadIsFresh(Arrived(q), n) /\ ShownIsFresh(Arrived(q), n)
  BY <1>2, ScreenAssumption DEF Arrived, Accepted
<1> QED
  BY <1>1, <1>2, <1>3

(* The client in the detail, and the one an effect selects, are clients or *)
(* none.                                                                   *)
LEMMA ShownTyped ==
    ASSUME NEW q \in Entry(Answers, {}), NEW f \in Filters, NEW s \in Clients \cup {None}
    PROVE  /\ ShownIn(q, f, s) \in Clients \cup {None}
           /\ Selection(q, s) \in Clients \cup {None}
<1> DEFINE ids == IF q.data = None THEN {} ELSE q.data.ids
<1>1. ids \subseteq Clients
  BY DEF Entry, Answers
<1>2. ids \cap f # {} => First(ids \cap f) \in Clients
  BY <1>1, LeastOf
<1>3. OneOf(ids) \in Clients \cup {None}
  BY <1>1, LeastOf DEF OneOf
<1>4. ShownIn(q, f, s) \in Clients \cup {None}
  BY <1>1, <1>2, <1>3 DEF ShownIn
<1>5. Selection(q, s) \in Clients \cup {None}
  BY <1>3 DEF Selection
<1> QED
  BY <1>4, <1>5

(* So is the one on show.                                                  *)
LEMMA ShownIsTyped == ScreenTypeOK => Shown \in Clients \cup {None}
<1> SUFFICES ASSUME ScreenTypeOK PROVE Shown \in Clients \cup {None}
  OBVIOUS
<1>1. query[List] \in Entry(Answers, {})
  BY DEF ScreenTypeOK, Keys
<1> QED
  BY <1>1, ShownTyped DEF ScreenTypeOK, Shown

(* What a query owes is a number of writes.                                *)
LEMMA OwedIsNatural ==
    ASSUME ScreenTypeOK, NEW key \in Keys
    PROVE  Owed(key) \in Nat
<1>1. acked[key] \in Nat
  BY ScreenAssumption DEF ScreenTypeOK
<1> QED
  BY <1>1 DEF Owed

(* A rendered page: a client that comes into the detail is fetched.        *)
LEMMA Rendered ==
    ASSUME NEW q \in [Keys -> Entry(Answers, {})], NEW f \in Filters,
           NEW s \in Clients \cup {None}, Render(q, f, s), open'
    PROVE  /\ query' \in [Keys -> Entry(Answers, {})]
           /\ filter' \in Filters /\ selected' \in Clients \cup {None}
           /\ \A key \in Keys : query'[key] \in {q[key], Fetch(q[key], None)}
           /\ \A key \in Keys : Active(key)' /\ key \notin {List, Shown} =>
                query'[key] = Fetch(q[key], None)
<1> DEFINE chosen == Selection(q[List], s)
           passed == {ShownIn(q[List], f, s), ShownIn(q[List], f, chosen)}
<1>1. List \in Keys /\ List \notin Clients \cup {None}
  BY ScreenAssumption DEF Keys
<1>2. chosen \in Clients \cup {None} /\ passed \subseteq Clients \cup {None}
  BY <1>1, ShownTyped
<1>3. /\ filter' = f /\ selected' = chosen
      /\ query' = [key \in Keys |-> IF key \in passed \ {Shown} THEN Fetch(q[key], None)
                                    ELSE q[key]]
  BY DEF Render
<1> HIDE DEF passed, chosen
<1>4. query' \in [Keys -> Entry(Answers, {})]
  BY <1>3, EntryOperations
<1>5. query'[List] = q[List]
  BY <1>1, <1>2, <1>3
<1>6. Shown' \in passed
  BY <1>3, <1>5 DEF Shown, passed
<1>7. ASSUME NEW key \in Keys, Active(key)', key \notin {List, Shown}
      PROVE  query'[key] = Fetch(q[key], None)
  BY <1>3, <1>6, <1>7 DEF Active
<1> QED
  BY <1>2, <1>3, <1>4, <1>7

(* What is on show after the page is rendered is fresh, or being fetched.  *)
LEMMA RenderedFresh ==
    ASSUME ScreenTypeOK, NEW q \in [Keys -> Entry(Answers, {})], NEW f \in Filters,
           NEW s \in Clients \cup {None}, Render(q, f, s), open', UNCHANGED <<acked, lapsed>>,
           \A key \in Keys : /\ ReadIsFresh(q[key], Owed(key))
                             /\ key \in {List, Shown} => ShownIsFresh(q[key], Owed(key))
    PROVE  Freshness'
<1> SUFFICES ASSUME NEW key \in Keys
             PROVE  /\ ReadIsFresh(query'[key], Owed(key))
                    /\ Active(key)' => ShownIsFresh(query'[key], Owed(key))
  BY DEF Freshness, ReadIsFresh, ShownIsFresh, Owed
<1>1. Owed(key) \in Nat
  BY OwedIsNatural
<1>2. /\ query'[key] \in {q[key], Fetch(q[key], None)}
      /\ Active(key)' /\ key \notin {List, Shown} => query'[key] = Fetch(q[key], None)
  BY Rendered
<1>3. /\ ReadIsFresh(Fetch(q[key], None), Owed(key))
      /\ ShownIsFresh(Fetch(q[key], None), Owed(key))
  BY <1>1, EntryFreshness DEF ShownIsFresh
<1> QED
  BY <1>2, <1>3

(* The page shows the same client as long as the list has the same data.   *)
LEMMA SameShown ==
    ASSUME UNCHANGED <<open, selected, filter>>, query'[List].data = query[List].data
    PROVE  /\ Shown' = Shown
           /\ \A key \in Keys : Active(key)' = Active(key)
BY DEF Shown, ShownIn, Active

-----------------------------------------------------------------------------
(* The initial states.                                                     *)
LEMMA ScreenInit == Init => ScreenInv
<1> SUFFICES ASSUME Init PROVE ScreenInv
  OBVIOUS
<1> USE ScreenAssumption DEF Init
<1>1. List \in Keys
  BY DEF Keys
<1>2. NewEntry \in Entry(Answers, {})
  BY DEF NewEntry, Entry, Steps, Flying
<1>3. ScreenTypeOK
  <2>1. /\ there \in [Clients -> {"new", "there", "gone"}]
        /\ clock \in [Keys -> 0..MaxWrites] /\ acked \in [Keys -> 0..MaxWrites]
    OBVIOUS
  <2>2. query \in [Keys -> Entry(Answers, {})]
    BY <1>2
  <2>3. call \in [Slots -> Call]
    BY DEF NoCall, Call
  <2>4. /\ drawer \in [kind : DrawerKinds \cup {"none"}, client : Clients \cup {None},
                      call : Slots \cup {None}]
        /\ confirm \in [kind : ConfirmKinds \cup {"none"}, client : Clients \cup {None}]
    BY DEF NoDrawer, NoConfirm
  <2>5. /\ moves \in 0..MaxMoves /\ named \in SUBSET Clients
        /\ selected \in Clients \cup {None} /\ filter \in Filters
    OBVIOUS
  <2>6. open \in BOOLEAN /\ lapsed \in [Keys -> SUBSET {"joined", "restore"}]
    OBVIOUS
  <2> HIDE DEF Init
  <2> QED
    BY <2>1, <2>2, <2>3, <2>4, <2>5, <2>6 DEF ScreenTypeOK
<1>4. Clocks
  BY <1>1 DEF Clocks
<1>5. CallShape /\ DialogShape /\ DeletesAsked
  BY DEF CallShape, DialogShape, DeletesAsked, NoCall, NoDrawer, NoConfirm
<1>6. Freshness
  BY DEF Freshness, ReadIsFresh, Active, NewEntry
<1> QED
  BY <1>3, <1>4, <1>5, <1>6 DEF ScreenInv

(* A step of the view, after which the page is rendered anew or not.       *)
CallsKept == UNCHANGED <<clock, call, acked, lapsed>>

(* Such a step leaves the calls as they are.                               *)
LEMMA CallsStay ==
    ASSUME ScreenInv, CallsKept, named \subseteq named'
    PROVE  Clocks' /\ CallShape' /\ DeletesAsked'
BY DEF ScreenInv, CallsKept, Clocks, CallShape, DeletesAsked

(* A step that renders the page with queries that are fresh.               *)
LEMMA RenderStep ==
    ASSUME ScreenInv, NEW q \in [Keys -> Entry(Answers, {})], NEW f \in Filters,
           NEW s \in Clients \cup {None}, Render(q, f, s), open' = TRUE, CallsKept,
           UNCHANGED <<there, drawer, confirm, named>>, moves' \in 0..MaxMoves,
           \A key \in Keys : /\ ReadIsFresh(q[key], Owed(key))
                             /\ key \in {List, Shown} => ShownIsFresh(q[key], Owed(key))
    PROVE  ScreenInv'
<1>1. ScreenTypeOK /\ UNCHANGED <<acked, lapsed>>
  BY DEF ScreenInv, CallsKept
<1>2. ScreenTypeOK'
  BY <1>1, Rendered DEF ScreenTypeOK, CallsKept
<1>3. Freshness'
  BY <1>1, RenderedFresh
<1>4. DialogShape'
  BY DEF ScreenInv, DialogShape
<1> QED
  BY <1>2, <1>3, <1>4, CallsStay DEF ScreenInv

(* The page is opened: the list is fetched.                                *)
LEMMA OpenPageStep == ASSUME ScreenInv, OpenPage PROVE ScreenInv'
<1> DEFINE q == [query EXCEPT ![List] = Fetch(@, None)]
<1>1. ScreenTypeOK /\ Freshness /\ List \in Keys
  BY DEF ScreenInv, Keys
<1>2. q \in [Keys -> Entry(Answers, {})]
  BY <1>1, EntryOperations DEF ScreenTypeOK
<1>3. Shown = None /\ None \notin Keys
  BY ScreenAssumption DEF OpenPage, Shown, Keys
<1>4. ASSUME NEW key \in Keys
      PROVE  /\ ReadIsFresh(q[key], Owed(key))
             /\ key \in {List, Shown} => ShownIsFresh(q[key], Owed(key))
  <2>1. /\ query[key] \in Entry(Answers, {}) /\ Owed(key) \in Nat
        /\ ReadIsFresh(query[key], Owed(key))
    BY <1>1, OwedIsNatural DEF ScreenTypeOK, Freshness
  <2>2. q[key] = IF key = List THEN Fetch(query[key], None) ELSE query[key]
    BY <1>1 DEF ScreenTypeOK
  <2> QED
    BY <1>3, <2>1, <2>2, EntryFreshness DEF ShownIsFresh
<1>5. /\ Render(q, Clients, None) /\ open' = TRUE /\ CallsKept
      /\ UNCHANGED <<there, drawer, confirm, named, moves>>
  BY DEF OpenPage, CallsKept, serverVars, history
<1>6. moves \in 0..MaxMoves /\ Clients \in Filters
  BY <1>1, ScreenAssumption DEF ScreenTypeOK
<1> HIDE DEF q
<1> QED
  BY <1>2, <1>4, <1>5, <1>6, RenderStep

(* Another client or filter is chosen.                                     *)
LEMMA SelectStep ==
    ASSUME ScreenInv, (\E c \in Clients : Select(c)) \/ (\E f \in Filters : Search(f))
    PROVE  ScreenInv'
<1>1. PICK f \in Filters, s \in Clients \cup {None} :
        /\ Render(query, f, s) /\ open = TRUE /\ open' = TRUE /\ Move /\ CallsKept
        /\ UNCHANGED <<there, drawer, confirm, named>>
  BY DEF ScreenInv, ScreenTypeOK, Select, Search, Uncovered, CallsKept, history
<1>2. query \in [Keys -> Entry(Answers, {})] /\ moves' \in 0..MaxMoves
  BY <1>1, ScreenAssumption DEF ScreenInv, ScreenTypeOK, Move
<1>3. \A key \in Keys : /\ ReadIsFresh(query[key], Owed(key))
                        /\ key \in {List, Shown} => ShownIsFresh(query[key], Owed(key))
  BY <1>1 DEF ScreenInv, Freshness, Active
<1> QED
  BY <1>1, <1>2, <1>3, RenderStep

(* Steps after which the same answers are on show, or none.                *)
LEMMA FreshStays ==
    ASSUME Freshness, UNCHANGED <<query, acked, lapsed>>, \A key \in Keys : Active(key)' => Active(key)
    PROVE  Freshness'
BY DEF Freshness, ReadIsFresh, ShownIsFresh, Owed

(* The page is left: nothing is on show.                                   *)
LEMMA LeavePageStep == ASSUME ScreenInv, LeavePage PROVE ScreenInv'
<1> USE ScreenAssumption DEF LeavePage, ScreenInv, history
<1>1. ASSUME NEW k \in Slots
      PROVE  /\ call'[k] = [call[k] EXCEPT !.mine = FALSE]
             /\ call[k] \in Call /\ call'[k] \in Call
  <2>1. call'[k] = [call[k] EXCEPT !.mine = FALSE]
    OBVIOUS
  <2>2. call[k] \in Call
    BY DEF ScreenTypeOK
  <2> HIDE DEF LeavePage, ScreenInv
  <2>3. [call[k] EXCEPT !.mine = FALSE] \in Call
    BY <2>2 DEF Call
  <2> QED
    BY <2>1, <2>2, <2>3
<1>2. ScreenTypeOK'
  <2>1. call' \in [Slots -> Call]
    BY <1>1
  <2>2. /\ drawer' \in [kind : DrawerKinds \cup {"none"}, client : Clients \cup {None},
                       call : Slots \cup {None}]
        /\ confirm' \in [kind : ConfirmKinds \cup {"none"}, client : Clients \cup {None}]
    BY DEF NoDrawer, NoConfirm
  <2>3. moves' \in 0..MaxMoves
    BY DEF ScreenTypeOK, Move
  <2>4. open' \in BOOLEAN
    OBVIOUS
  <2> QED
    BY <2>1, <2>2, <2>3, <2>4 DEF ScreenTypeOK
<1>3. \A k \in Slots :
        /\ call'[k].kind = call[k].kind /\ call'[k].client = call[k].client
        /\ call'[k].step = call[k].step /\ call'[k].ticks = call[k].ticks
        /\ call'[k].sent = call[k].sent /\ call'[k].at = call[k].at
        /\ call[k] = NoCall => call'[k] = NoCall
  BY <1>1 DEF Call, NoCall
<1>4. Clocks' /\ CallShape' /\ DialogShape' /\ DeletesAsked'
  <2>1. /\ Clocks /\ CallShape /\ DeletesAsked
        /\ UNCHANGED <<clock, acked, named>>
        /\ drawer' = NoDrawer /\ confirm' = NoConfirm
    OBVIOUS
  <2> HIDE DEF LeavePage, ScreenInv
  <2>2. Clocks'
    BY <2>1 DEF Clocks
  <2>3. CallShape'
    BY <1>3, <2>1 DEF CallShape
  <2>4. DialogShape'
    BY <2>1 DEF DialogShape, NoConfirm
  <2>5. DeletesAsked'
    BY <1>3, <2>1 DEF DeletesAsked
  <2> QED
    BY <2>2, <2>3, <2>4, <2>5
<1>5. Freshness'
  BY FreshStays DEF Active
<1> QED
  BY <1>2, <1>4, <1>5

(* The window gets the focus: what is on show is fetched.                  *)
LEMMA FocusStep == ASSUME ScreenInv, Focus PROVE ScreenInv'
<1>1. /\ ScreenTypeOK /\ Freshness /\ List \in Keys
      /\ \A key \in Keys : Owed(key) \in Nat /\ query[key] \in Entry(Answers, {})
  BY OwedIsNatural DEF ScreenInv, ScreenTypeOK, Keys
<1>2. /\ Move /\ UNCHANGED <<there, viewVars, named>> /\ CallsKept
      /\ query' = [key \in Keys |-> IF Active(key) THEN Fetch(query[key], None) ELSE query[key]]
  BY DEF Focus, CallsKept, history
<1>3. query' \in [Keys -> Entry(Answers, {})]
  BY <1>1, <1>2, EntryOperations
<1>4. ScreenTypeOK'
  BY <1>1, <1>2, <1>3, ScreenAssumption DEF ScreenTypeOK, CallsKept, viewVars, Move
<1>5. \A key \in Keys : Active(key)' = Active(key)
  BY <1>1, <1>2, EntryFreshness, SameShown DEF viewVars
<1>6. ASSUME NEW key \in Keys
      PROVE  /\ ReadIsFresh(query'[key], Owed(key))
             /\ Active(key)' => ShownIsFresh(query'[key], Owed(key))
  BY <1>1, <1>2, <1>5, EntryFreshness DEF Freshness, ShownIsFresh
<1>7. Freshness'
  BY <1>2, <1>6 DEF Freshness, CallsKept, ReadIsFresh, ShownIsFresh, Owed
<1>8. DialogShape'
  BY <1>2 DEF ScreenInv, DialogShape, viewVars
<1> QED
  BY <1>2, <1>4, <1>7, <1>8, CallsStay DEF ScreenInv

(* A drawer or a dialog is opened or closed.                               *)
LEMMA DialogStep ==
    ASSUME ScreenInv,
           \/ Close \/ \E kind \in DrawerKinds : OpenDrawer(kind)
           \/ \E kind \in ConfirmKinds : OpenConfirm(kind)
    PROVE  ScreenInv'
<1>1. /\ UNCHANGED <<there, query, open, selected, filter>> /\ CallsKept
      /\ moves' = moves \/ Move
  BY DEF Close, OpenDrawer, OpenConfirm, CallsKept, serverVars, history
<1>2. ScreenTypeOK /\ Shown \in Clients \cup {None}
  BY ShownIsTyped DEF ScreenInv
<1>3. /\ drawer' \in [kind : DrawerKinds \cup {"none"}, client : Clients \cup {None},
                     call : Slots \cup {None}]
      /\ drawer'.kind = "none" => drawer' = NoDrawer
  <2>1. CASE Close
    BY <2>1 DEF Close, NoDrawer
  <2>2. CASE \E kind \in DrawerKinds : OpenDrawer(kind)
    BY <1>2, <2>2 DEF OpenDrawer, NoDrawer, DrawerKinds
  <2>3. CASE \E kind \in ConfirmKinds : OpenConfirm(kind)
    BY <1>2, <2>3 DEF OpenConfirm, ScreenTypeOK, ScreenInv, DialogShape
  <2> QED
    BY <2>1, <2>2, <2>3
<1>4. /\ confirm' \in [kind : ConfirmKinds \cup {"none"}, client : Clients \cup {None}]
      /\ confirm'.kind = "none" => confirm' = NoConfirm
      /\ confirm'.kind = "delete client" => confirm'.client \in named'
      /\ named \subseteq named' /\ named' \subseteq Clients
  <2>1. CASE Close
    BY <1>2, <2>1 DEF Close, NoConfirm, history, ScreenTypeOK
  <2>2. CASE \E kind \in DrawerKinds : OpenDrawer(kind)
    BY <1>2, <2>2 DEF OpenDrawer, ScreenTypeOK, ScreenInv, DialogShape, history
  <2>3. CASE \E kind \in ConfirmKinds : OpenConfirm(kind)
    BY <1>2, <2>3 DEF OpenConfirm, NoConfirm, ConfirmKinds, ScreenTypeOK
  <2> QED
    BY <2>1, <2>2, <2>3
<1>5. moves' \in 0..MaxMoves
  BY <1>1, <1>2, ScreenAssumption DEF ScreenTypeOK, Move
<1>6. ScreenTypeOK'
  BY <1>1, <1>2, <1>3, <1>4, <1>5 DEF ScreenTypeOK, CallsKept
<1>7. DialogShape'
  BY <1>3, <1>4 DEF DialogShape
<1>8. Freshness'
  BY <1>1, FreshStays DEF ScreenInv, CallsKept, Active, Shown
<1> QED
  BY <1>1, <1>4, <1>6, <1>7, <1>8, CallsStay DEF ScreenInv

-----------------------------------------------------------------------------
(* A rotation is two requests for the token and the keys, else one.        *)
LEMMA RequestsOf ==
    ASSUME NEW ticks \in Ticks
    PROVE  \/ /\ ticks = {"token", "keys"} /\ Requests(ticks) = <<{"token"}, {}>>
              /\ Len(Requests(ticks)) = 2
           \/ /\ {"token", "keys"} \subseteq ticks => "rooms" \in ticks
              /\ Requests(ticks) = <<ticks \cap {"token", "rooms"}>>
              /\ Len(Requests(ticks)) = 1
<1>1. ticks \subseteq Credentials
  BY DEF Ticks
<1>2. CASE {"token", "keys"} \subseteq ticks /\ "rooms" \notin ticks
  <2>1. ticks = {"token", "keys"}
    BY <1>1, <1>2 DEF Credentials
  <2>2. Requests(ticks) = <<{"token"}, {}>>
    BY <1>2 DEF Requests
  <2>3. Len(<<{"token"}, {}>>) = 2
    OBVIOUS
  <2> QED
    BY <2>1, <2>2, <2>3
<1>3. CASE ~({"token", "keys"} \subseteq ticks /\ "rooms" \notin ticks)
  <2>1. Requests(ticks) = <<ticks \cap {"token", "rooms"}>>
    BY <1>3 DEF Requests
  <2>2. Len(<<ticks \cap {"token", "rooms"}>>) = 1
    OBVIOUS
  <2> QED
    BY <1>3, <2>1, <2>2
<1> QED
  BY <1>2, <1>3

(* Either way what is renewed is what was ticked, and the keys with the    *)
(* rooms.                                                                  *)
LEMMA RotationIsExact ==
    ASSUME NEW ticks \in Ticks,
           NEW renewed,
           renewed = UNION {Rotated(Requests(ticks)[i]) : i \in 1..Len(Requests(ticks))}
    PROVE  /\ ticks \subseteq renewed
           /\ renewed \subseteq ticks \cup (IF "rooms" \in ticks THEN {"keys"} ELSE {})
<1>1. ticks \subseteq Credentials
  BY DEF Ticks
<1>4. \E x \in Credentials : x \in ticks
  <2>1. ticks # {}
    BY DEF Ticks
  <2> QED
    BY <1>1, <2>1
<1>2. CASE ticks = {"token", "keys"} /\ Requests(ticks) = <<{"token"}, {}>>
                                     /\ Len(Requests(ticks)) = 2
  <2>1. 1..2 = {1, 2} /\ <<{"token"}, {}>>[1] = {"token"} /\ <<{"token"}, {}>>[2] = {}
    OBVIOUS
  <2>2. renewed = Rotated({"token"}) \cup Rotated({})
    BY <1>2, <2>1
  <2>3. Rotated({"token"}) = {"token"} /\ Rotated({}) = {"keys"}
    BY DEF Rotated
  <2> QED
    BY <1>2, <2>2, <2>3
<1>3. CASE /\ {"token", "keys"} \subseteq ticks => "rooms" \in ticks
           /\ Requests(ticks) = <<ticks \cap {"token", "rooms"}>>
           /\ Len(Requests(ticks)) = 1
  <2>1. 1..1 = {1} /\ <<ticks \cap {"token", "rooms"}>>[1] = ticks \cap {"token", "rooms"}
    OBVIOUS
  <2>2. renewed = Rotated(ticks \cap {"token", "rooms"})
    BY <1>3, <2>1
  <2>3. /\ renewed \subseteq Credentials
        /\ "token" \in renewed <=> "token" \in ticks
        /\ "rooms" \in renewed <=> "rooms" \in ticks
        /\ "keys" \in renewed <=> ("token" \in ticks => "rooms" \in ticks)
    BY <2>2 DEF Rotated, Credentials
  <2>4. "token" \in ticks \/ "keys" \in ticks \/ "rooms" \in ticks
    BY <1>4 DEF Credentials
  <2> QED
    BY <1>1, <1>3, <2>3, <2>4 DEF Credentials
<1> QED
  BY <1>2, <1>3, RequestsOf

-----------------------------------------------------------------------------
(* A write of the database: the clocks of what it touches go on by one.    *)
LEMMA CommitStep ==
    ASSUME ScreenTypeOK, Clocks, NEW kind \in Kinds, NEW c \in Clients \cup {None},
           Commit(kind, c)
    PROVE  /\ clock' \in [Keys -> 0..MaxWrites]
           /\ \A key \in Keys : clock[key] <= clock'[key] /\ clock'[key] <= clock'[List]
<1>1. List \in Keys /\ clock \in [Keys -> 0..MaxWrites] /\ MaxWrites \in Nat
  BY ScreenAssumption DEF Keys, ScreenTypeOK
<1>2. CASE kind = "reload"
  BY <1>1, <1>2 DEF Commit, Clocks
<1>3. CASE kind # "reload"
  <2>1. List \in Touched(kind, c)
    BY <1>3 DEF Touched, Keys
  <2>2. /\ clock[List] < MaxWrites
        /\ clock' = [key \in Keys |-> IF key \in Touched(kind, c) THEN clock[key] + 1
                                      ELSE clock[key]]
    BY <1>3 DEF Commit
  <2>3. \A key \in Keys : clock[key] \in 0..MaxWrites /\ clock[key] <= clock[List]
    BY <1>1 DEF Clocks
  <2> HIDE DEF Touched
  <2>4. clock'[List] = clock[List] + 1
    BY <1>1, <2>1, <2>2
  <2>5. ASSUME NEW key \in Keys
        PROVE  /\ clock'[key] \in 0..MaxWrites
               /\ clock[key] <= clock'[key] /\ clock'[key] <= clock'[List]
    BY <1>1, <2>2, <2>3, <2>4
  <2> QED
    BY <2>2, <2>5
<1> QED
  BY <1>2, <1>3

(* What a request makes of the clients keeps its type.                     *)
LEMMA EffectStep ==
    ASSUME ScreenTypeOK, NEW kind \in Kinds, NEW c \in Clients \cup {None},
           there' \in Effect(kind, c)
    PROVE  there' \in [Clients -> {"new", "there", "gone"}]
<1>1. there \in [Clients -> {"new", "there", "gone"}]
  BY DEF ScreenTypeOK
<1>2. CASE kind \in {"create client", "import"}
  BY <1>1, <1>2 DEF Effect
<1>3. CASE kind = "delete client"
  BY <1>1, <1>3 DEF Effect
<1>4. CASE kind = "restore"
  BY <1>1, <1>4 DEF Effect
<1>5. CASE kind \notin {"create client", "import", "delete client", "restore"}
  BY <1>1, <1>5 DEF Effect
<1> QED
  BY <1>2, <1>3, <1>4, <1>5

(* Another administrator writes: nothing on show has to show it.           *)
LEMMA WriteElsewhereStep == ASSUME ScreenInv, WriteElsewhere PROVE ScreenInv'
<1>1. PICK kind \in Kinds, c \in Clients : there' \in Effect(kind, c) /\ Commit(kind, c)
  BY DEF WriteElsewhere, Kinds, DrawerKinds, ConfirmKinds
<1>2. ScreenTypeOK /\ Clocks
  BY DEF ScreenInv
<1>3. /\ clock' \in [Keys -> 0..MaxWrites]
      /\ \A key \in Keys : clock[key] <= clock'[key] /\ clock'[key] <= clock'[List]
  BY <1>1, <1>2, CommitStep
<1>4. there' \in [Clients -> {"new", "there", "gone"}]
  BY <1>1, <1>2, EffectStep
<1>5. UNCHANGED <<moves, query, viewVars, call, history>>
  BY DEF WriteElsewhere
<1>6. ScreenTypeOK'
  BY <1>2, <1>3, <1>4, <1>5 DEF ScreenTypeOK, viewVars, history
<1>7. \A key \in Keys : clock[key] \in Nat /\ clock'[key] \in Nat /\ acked[key] \in Nat
  BY <1>2, <1>3, ScreenAssumption DEF ScreenTypeOK
<1>8. Clocks'
  BY <1>2, <1>3, <1>5, <1>7 DEF Clocks, history
<1>9. CallShape'
  <2>1. ASSUME NEW k \in Slots, NEW key \in Keys, call[k] # NoCall
        PROVE  call[k].at[key] <= clock'[key]
    <3>1. call[k].at[key] \in Nat
      BY <1>2, ScreenAssumption DEF ScreenTypeOK, Call
    <3>2. call[k].at[key] <= clock[key]
      BY <2>1 DEF ScreenInv, CallShape
    <3> QED
      BY <1>3, <1>7, <3>1, <3>2
  <2> QED
    BY <1>5, <2>1 DEF ScreenInv, CallShape
<1>10. DialogShape' /\ DeletesAsked'
  BY <1>5 DEF ScreenInv, DialogShape, DeletesAsked, viewVars, history
<1>11. Freshness'
  BY <1>5, FreshStays DEF ScreenInv, viewVars, history, Active, Shown
<1> QED
  BY <1>6, <1>8, <1>9, <1>10, <1>11 DEF ScreenInv

-----------------------------------------------------------------------------
(* A query changes to an entry that is fresh.                              *)
LEMMA QueryIsStep ==
    ASSUME ScreenInv, NEW key \in Keys, NEW q \in Entry(Answers, {}), QueryIs(key, q),
           ReadIsFresh(q, Owed(key)), ShownIsFresh(q, Owed(key)), moves' \in 0..MaxMoves
    PROVE  ScreenInv'
<1> DEFINE all == [query EXCEPT ![key] = q]
<1>1. ScreenTypeOK /\ Freshness
  BY DEF ScreenInv
<1>2. UNCHANGED <<there, clock, open, drawer, confirm, call, history>> /\ CallsKept
  BY DEF QueryIs, CallsKept, history
<1>3. /\ all \in [Keys -> Entry(Answers, {})]
      /\ \A k \in Keys : all[k] = IF k = key THEN q ELSE query[k]
  BY <1>1 DEF ScreenTypeOK
<1>4. CASE open
  <2>1. open = TRUE /\ open' = TRUE
    BY <1>1, <1>2, <1>4 DEF ScreenTypeOK
  <2>2. Render(all, filter, selected)
    BY <1>4 DEF QueryIs
  <2>3. ASSUME NEW k \in Keys
        PROVE  /\ ReadIsFresh(all[k], Owed(k))
               /\ k \in {List, Shown} => ShownIsFresh(all[k], Owed(k))
    BY <1>1, <1>3, <1>4 DEF Freshness, Active
  <2>4. filter \in Filters /\ selected \in Clients \cup {None}
    BY <1>1 DEF ScreenTypeOK
  <2> HIDE DEF all
  <2> QED
    BY <1>2, <1>3, <2>1, <2>2, <2>3, <2>4, RenderStep DEF history
<1>5. CASE ~open
  <2>1. query' = all /\ UNCHANGED <<filter, selected>>
    BY <1>5 DEF QueryIs
  <2>2. ScreenTypeOK'
    BY <1>1, <1>2, <1>3, <2>1 DEF ScreenTypeOK, history
  <2>3. Freshness'
    <3>1. \A k \in Keys : ReadIsFresh(query'[k], Owed(k))
      BY <1>1, <1>3, <2>1 DEF Freshness
    <3>2. \A k \in Keys : ~Active(k)'
      BY <1>2, <1>5 DEF Active
    <3> QED
      BY <1>2, <3>1, <3>2 DEF Freshness, ReadIsFresh, Owed, history
  <2>4. DialogShape'
    BY <1>2 DEF ScreenInv, DialogShape, history
  <2> QED
    BY <1>2, <2>2, <2>3, <2>4, CallsStay DEF ScreenInv, history
<1> QED
  BY <1>4, <1>5

(* The answer to a query arrives, or fails to.                             *)
LEMMA ArriveQueryStep ==
    ASSUME ScreenInv, NEW key \in Keys, ArriveQuery(key) \/ FailQuery(key)
    PROVE  ScreenInv'
<1>1. /\ query[key] \in Entry(Answers, {}) /\ Owed(key) \in Nat
      /\ ReadIsFresh(query[key], Owed(key)) /\ moves \in 0..MaxMoves
  BY OwedIsNatural DEF ScreenInv, ScreenTypeOK, Freshness
<1>2. CASE ArriveQuery(key)
  <2>1. /\ query[key].step = "read" /\ QueryIs(key, Arrived(query[key])) /\ moves' = moves
        /\ query[key].val \in Answers \cup {Refused}
    BY <1>1, <1>2 DEF ArriveQuery, ReadIsFresh
  <2>2. Arrived(query[key]) \in Entry(Answers, {})
    BY <1>1, <2>1, EntryOperations
  <2> QED
    BY <1>1, <2>1, <2>2, EntryFreshness, QueryIsStep
<1>3. CASE FailQuery(key)
  <2>1. QueryIs(key, Failed(query[key])) /\ moves' \in 0..MaxMoves
    BY <1>1, <1>3, ScreenAssumption DEF FailQuery, Move
  <2>2. Failed(query[key]) \in Entry(Answers, {})
    BY <1>1, EntryOperations
  <2> QED
    BY <1>1, <2>1, <2>2, EntryFreshness, QueryIsStep
<1> QED
  BY <1>2, <1>3

(* The server reads the answer to a query: it takes in all writes so far.  *)
LEMMA ServeQueryStep ==
    ASSUME ScreenInv, NEW key \in Keys, ServeQuery(key)
    PROVE  ScreenInv'
<1> DEFINE answer == IF key = List THEN [at |-> clock[List], ids |-> There]
                     ELSE IF key \in There THEN [at |-> clock[key], ids |-> {}]
                     ELSE Refused
<1>1. /\ ScreenTypeOK /\ Freshness /\ List \in Keys
      /\ query[key] \in Entry(Answers, {}) /\ acked[key] \in Nat
      /\ clock[key] \in Nat /\ clock[List] \in Nat /\ acked[key] <= clock[key]
  BY ScreenAssumption DEF ScreenInv, ScreenTypeOK, Clocks, Keys
<1>2. answer = Refused \/ (answer \in Answers /\ answer.at = clock[key])
  BY <1>1 DEF Answers, There
<1> HIDE DEF answer
<1>3. /\ query' = [query EXCEPT ![key] = Read(query[key], answer)]
      /\ lapsed' = [lapsed EXCEPT ![key] = {}]
      /\ UNCHANGED <<serverVars, viewVars, call, acked, named>>
  BY DEF ServeQuery, answer
<1>4. /\ Read(query[key], answer) \in Entry(Answers, {})
      /\ Read(query[key], answer).step = "read" /\ Read(query[key], answer).val = answer
      /\ Read(query[key], answer).data = query[key].data
  BY <1>1, <1>2, EntryOperations DEF Read, Entry
<1>5. \A k \in Keys : query'[k] = IF k = key THEN Read(query[key], answer) ELSE query[k]
  BY <1>1, <1>3 DEF ScreenTypeOK
<1>6. ScreenTypeOK'
  <2>1. query' \in [Keys -> Entry(Answers, {})]
    BY <1>1, <1>3, <1>4 DEF ScreenTypeOK
  <2> QED
    BY <1>1, <1>3, <2>1 DEF ScreenTypeOK, serverVars, viewVars
<1>7. \A k \in Keys : Active(k)' = Active(k)
  BY <1>1, <1>3, <1>4, <1>5, SameShown DEF viewVars
<1>8. /\ Owed(key)' = acked[key]
      /\ \A k \in Keys \ {key} : Owed(k)' = Owed(k)
  BY <1>1, <1>3 DEF ScreenTypeOK, Owed
<1>9. ASSUME NEW k \in Keys
      PROVE  /\ ReadIsFresh(query'[k], Owed(k)')
             /\ Active(k)' => ShownIsFresh(query'[k], Owed(k)')
  <2>1. CASE k = key
    BY <1>1, <1>2, <1>4, <1>5, <1>8, <2>1 DEF ReadIsFresh, ShownIsFresh
  <2>2. CASE k # key
    BY <1>1, <1>5, <1>7, <1>8, <2>2 DEF Freshness
  <2> QED
    BY <2>1, <2>2
<1>10. Freshness'
  BY <1>9 DEF Freshness, ReadIsFresh, ShownIsFresh
<1>11. Clocks' /\ CallShape' /\ DialogShape' /\ DeletesAsked'
  BY <1>3 DEF ScreenInv, Clocks, CallShape, DialogShape, DeletesAsked, serverVars, viewVars
<1> QED
  BY <1>6, <1>10, <1>11 DEF ScreenInv

-----------------------------------------------------------------------------
(* A call that is sent.                                                    *)
NewCall(kind, c, ticks) ==
    [kind |-> kind, client |-> c, step |-> "sent", ticks |-> ticks, sent |-> 1,
     at |-> NoCall.at, mine |-> open]

(* Its fields have their types and it knows no write.                      *)
LEMMA NewCallFields ==
    ASSUME NEW kind \in Kinds, NEW c \in Clients \cup {None}, NEW ticks \in SUBSET Credentials,
           open \in BOOLEAN
    PROVE  /\ NewCall(kind, c, ticks) \in Call
           /\ \A key \in Keys : NoCall.at[key] = 0
<1>1. NoCall.at \in [Keys -> 0..MaxWrites] /\ \A key \in Keys : NoCall.at[key] = 0
  BY ScreenAssumption DEF NoCall
<1> QED
  BY <1>1 DEF NewCall, Call

(* The clocks are natural numbers.                                         *)
LEMMA ClocksAreNatural ==
    ASSUME ScreenTypeOK
    PROVE  \A key \in Keys : clock[key] \in Nat /\ 0 <= clock[key] /\ acked[key] \in Nat
BY ScreenAssumption DEF ScreenTypeOK

(* The drawer after a step.                                                *)
DrawerShape(d) ==
    /\ d \in [kind : DrawerKinds \cup {"none"}, client : Clients \cup {None},
              call : Slots \cup {None}]
    /\ d.kind = "none" => d = NoDrawer

(* A mutation leaves.                                                      *)
LEMMA SendStep ==
    ASSUME ScreenInv, NEW k \in Slots, NEW kind \in Kinds, NEW c \in Clients \cup {None},
           NEW ticks \in SUBSET Credentials, Send(k, kind, c, ticks),
           kind = "rotate" => ticks \in Ticks, kind = "delete client" => c \in named,
           moves' \in 0..MaxMoves,
           DrawerShape(drawer')
    PROVE  ScreenInv'
<1> DEFINE new == NewCall(kind, c, ticks)
<1>0. open \in BOOLEAN
  BY DEF ScreenInv, ScreenTypeOK
<1>1. /\ call' = [call EXCEPT ![k] = new]
      /\ UNCHANGED <<there, clock, query, open, selected, filter, confirm, history>>
  BY DEF Send, NewCall
<1>2. ScreenTypeOK /\ Clocks /\ CallShape /\ DialogShape /\ DeletesAsked /\ Freshness
  BY DEF ScreenInv
<1>3. /\ new \in Call
      /\ new.kind = kind /\ new.client = c /\ new.step = "sent" /\ new.ticks = ticks
      /\ new.sent = 1 /\ \A key \in Keys : new.at[key] = 0
  BY <1>0, NewCallFields DEF NewCall
<1> HIDE DEF new
<1>5. \A j \in Slots : call'[j] = IF j = k THEN new ELSE call[j]
  BY <1>1, <1>2 DEF ScreenTypeOK
<1>6. ScreenTypeOK'
  <2>1. call' \in [Slots -> Call]
    BY <1>1, <1>2, <1>3 DEF ScreenTypeOK
  <2>2. /\ UNCHANGED <<there, clock, query, open, selected, filter, confirm, acked, named,
                      lapsed>>
    BY <1>1 DEF history
  <2> QED
    BY <1>2, <2>1, <2>2 DEF ScreenTypeOK, DrawerShape
<1>7. CallShape'
  <2>1. \A key \in Keys : new.at[key] = 0 /\ 0 <= clock[key]
    BY <1>2, <1>3, ClocksAreNatural, Zenon
  <2>2. kind = "rotate" => 1 \in 1..Len(Requests(ticks))
    BY RequestsOf
  <2>3. clock' = clock
    BY <1>1
  <2>4. ASSUME NEW j \in Slots, j # k
        PROVE  call'[j] = call[j]
    BY <1>5, <2>4
  <2>5. call'[k] = new
    BY <1>5
  <2>6. new.kind = "rotate" => new.ticks \in Ticks /\ new.sent \in 1..Len(Requests(new.ticks))
    BY <1>3, <2>2
  <2> QED
    BY <1>2, <1>3, <2>1, <2>3, <2>4, <2>5, <2>6 DEF CallShape
<1>8. Clocks' /\ DialogShape' /\ DeletesAsked'
  <2>1. UNCHANGED <<clock, acked, confirm, named>>
    BY <1>1 DEF history
  <2>2. Clocks'
    BY <1>2, <2>1 DEF Clocks
  <2>3. DialogShape'
    BY <1>2, <2>1 DEF DialogShape, DrawerShape
  <2>4. DeletesAsked'
    BY <1>2, <1>3, <1>5, <2>1 DEF DeletesAsked
  <2> QED
    BY <2>2, <2>3, <2>4
<1>9. Freshness'
  BY <1>1, <1>2, FreshStays DEF history, Active, Shown
<1> QED
  BY <1>6, <1>7, <1>8, <1>9 DEF ScreenInv

(* The ways it can: a drawer, a dialog, the buttons elsewhere.             *)
LEMMA SubmitStep ==
    ASSUME ScreenInv, NEW k \in Slots,
           \/ SubmitDrawer(k) \/ Confirm(k) \/ \E kind \in OtherKinds : Ask(k, kind)
    PROVE  ScreenInv'
<1>1. /\ ScreenTypeOK /\ DialogShape /\ moves \in 0..MaxMoves /\ DrawerShape(drawer)
      /\ drawer \in [kind : DrawerKinds \cup {"none"}, client : Clients \cup {None},
                     call : Slots \cup {None}]
      /\ confirm \in [kind : ConfirmKinds \cup {"none"}, client : Clients \cup {None}]
  BY DEF ScreenInv, ScreenTypeOK, DialogShape, DrawerShape
<1>2. /\ DrawerKinds \cup ConfirmKinds \cup OtherKinds \subseteq Kinds
      /\ {} \in SUBSET Credentials
  BY DEF Kinds
<1>3. CASE SubmitDrawer(k)
  <2>1. /\ drawer.kind \in DrawerKinds /\ drawer.client \in Clients \cup {None}
        /\ drawer' = [drawer EXCEPT !.call = k] /\ moves' = moves
        /\ Send(k, drawer.kind, drawer.client, {})
    BY <1>1, <1>3 DEF SubmitDrawer, DialogShape
  <2>2. drawer.kind # "none" /\ drawer.kind \notin {"rotate", "delete client"}
    BY <2>1 DEF DrawerKinds
  <2>3. DrawerShape(drawer')
    BY <1>1, <2>1, <2>2 DEF DrawerShape
  <2> QED
    BY <1>1, <1>2, <2>1, <2>2, <2>3, SendStep
<1>4. CASE Confirm(k)
  <2>1. PICK ticks \in IF confirm.kind = "rotate" THEN Ticks ELSE {{}} :
          /\ Send(k, confirm.kind, confirm.client, ticks)
          /\ confirm # NoConfirm /\ UNCHANGED <<moves, drawer>>
    BY <1>4 DEF Confirm, Confirmed
  <2>2. /\ confirm.kind \in ConfirmKinds /\ confirm.client \in Clients \cup {None}
        /\ confirm.kind = "delete client" => confirm.client \in named
    BY <1>1, <2>1 DEF DialogShape
  <2>3. /\ ticks \in SUBSET Credentials
        /\ confirm.kind = "rotate" => ticks \in Ticks
    BY <2>1 DEF Ticks
  <2> QED
    BY <1>1, <1>2, <2>1, <2>2, <2>3, SendStep
<1>5. CASE \E kind \in OtherKinds : Ask(k, kind)
  <2>1. PICK kind \in OtherKinds : Ask(k, kind)
    BY <1>5
  <2>2. Send(k, kind, None, {}) /\ drawer' = drawer /\ Move
    BY <2>1 DEF Ask
  <2>3. moves' \in 0..MaxMoves
    BY <1>1, <2>2, ScreenAssumption DEF Move
  <2>4. kind \notin {"rotate", "delete client"}
    BY DEF OtherKinds
  <2> QED
    BY <1>1, <1>2, <2>2, <2>3, <2>4, SendStep
<1> QED
  BY <1>3, <1>4, <1>5

(* The server does what a request asks.                                    *)
LEMMA ServeStep ==
    ASSUME ScreenInv, NEW k \in Slots, Serve(k)
    PROVE  ScreenInv'
<1>1. ScreenTypeOK /\ Clocks /\ CallShape /\ DialogShape /\ DeletesAsked /\ Freshness
  BY DEF ScreenInv
<1>2. /\ call[k].step = "sent" /\ there' \in Effect(call[k].kind, call[k].client)
      /\ Commit(call[k].kind, call[k].client)
      /\ call' = [call EXCEPT ![k].step = "done", ![k].at = clock']
      /\ UNCHANGED <<moves, query, viewVars, history>>
  BY DEF Serve
<1>3. call[k] # NoCall /\ call[k].kind \in Kinds /\ call[k].client \in Clients \cup {None}
  <2>1. call[k] # NoCall
    BY <1>2 DEF NoCall
  <2>2. call[k] \in Call
    BY <1>1 DEF ScreenTypeOK
  <2> QED
    BY <1>1, <2>1, <2>2 DEF CallShape, Call
<1>4. /\ clock' \in [Keys -> 0..MaxWrites]
      /\ \A key \in Keys : clock[key] <= clock'[key] /\ clock'[key] <= clock'[List]
  BY <1>1, <1>2, <1>3, CommitStep
<1>5. there' \in [Clients -> {"new", "there", "gone"}]
  BY <1>1, <1>2, <1>3, EffectStep
<1> DEFINE new == [call[k] EXCEPT !.step = "done", !.at = clock']
<1>6. /\ \A j \in Slots : call'[j] = IF j = k THEN new ELSE call[j]
      /\ \A j \in Slots : call[j] \in Call
  BY <1>1, <1>2 DEF ScreenTypeOK
<1>7. /\ new \in Call /\ new.kind = call[k].kind /\ new.client = call[k].client
      /\ new.step = "done" /\ new.ticks = call[k].ticks /\ new.sent = call[k].sent
      /\ new.at = clock'
  BY <1>4, <1>6 DEF Call
<1> HIDE DEF new
<1>8. \A key \in Keys : clock[key] \in Nat /\ clock'[key] \in Nat /\ acked[key] \in Nat
  BY <1>1, <1>4, ScreenAssumption DEF ScreenTypeOK
<1>9. ScreenTypeOK'
  <2>1. call' \in [Slots -> Call]
    BY <1>1, <1>2, <1>6, <1>7 DEF ScreenTypeOK
  <2> QED
    BY <1>1, <1>2, <1>4, <1>5, <2>1 DEF ScreenTypeOK, viewVars, history
<1>10. Clocks'
  BY <1>1, <1>2, <1>4, <1>8 DEF Clocks, history
<1>11. CallShape'
  <2> SUFFICES ASSUME NEW j \in Slots, call'[j] # NoCall
               PROVE  /\ call'[j].kind \in Kinds /\ call'[j].step \in {"sent", "done"}
                      /\ call'[j].kind = "rotate" =>
                           /\ call'[j].ticks \in Ticks
                           /\ call'[j].sent \in 1..Len(Requests(call'[j].ticks))
                      /\ \A key \in Keys : call'[j].at[key] <= clock'[key]
    BY DEF CallShape
  <2>1. CASE j = k
    BY <1>1, <1>3, <1>6, <1>7, <1>8, <2>1 DEF CallShape
  <2>2. CASE j # k
    <3>1. call'[j] = call[j] /\ call[j] # NoCall
      BY <1>6, <2>2
    <3>2. \A key \in Keys : call[j].at[key] \in Nat
      BY <1>6, ScreenAssumption DEF Call
    <3>3. \A key \in Keys : call[j].at[key] <= clock'[key]
      BY <1>1, <1>4, <1>8, <3>1, <3>2 DEF CallShape
    <3> QED
      BY <1>1, <3>1, <3>3 DEF CallShape
  <2> QED
    BY <2>1, <2>2
<1>12. DialogShape' /\ DeletesAsked'
  <2>1. UNCHANGED <<drawer, confirm, named>>
    BY <1>2 DEF viewVars, history
  <2>2. DialogShape'
    BY <1>1, <2>1 DEF DialogShape
  <2>3. \A j \in Slots : call'[j].kind = call[j].kind /\ call'[j].client = call[j].client
    BY <1>6, <1>7
  <2>4. DeletesAsked'
    BY <1>1, <2>1, <2>3 DEF DeletesAsked
  <2> QED
    BY <2>2, <2>4
<1>13. Freshness'
  BY <1>1, <1>2, FreshStays DEF viewVars, history, Active, Shown
<1> QED
  BY <1>9, <1>10, <1>11, <1>12, <1>13 DEF ScreenInv

(* The second request of a rotation.                                       *)
LEMMA NextRequestStep ==
    ASSUME ScreenInv, NEW k \in Slots, NextRequest(k)
    PROVE  ScreenInv'
<1>1. ScreenTypeOK /\ Clocks /\ CallShape /\ DialogShape /\ DeletesAsked /\ Freshness
  BY DEF ScreenInv
<1> DEFINE new == [call[k] EXCEPT !.step = "sent", !.sent = @ + 1]
<1>2. /\ call[k].step = "done" /\ ~LastOf(call[k])
      /\ call' = [call EXCEPT ![k] = new]
      /\ UNCHANGED <<serverVars, query, viewVars, history>>
  BY DEF NextRequest
<1>3. /\ call[k] \in Call /\ call[k].kind = "rotate" /\ call[k].ticks \in Ticks
      /\ call[k].sent \in 1..Len(Requests(call[k].ticks))
      /\ call[k].sent # Len(Requests(call[k].ticks))
      /\ call[k] # NoCall
  BY <1>1, <1>2 DEF ScreenTypeOK, CallShape, LastOf, NoCall
<1>4. /\ Len(Requests(call[k].ticks)) \in 1..2
      /\ call[k].sent + 1 \in 1..Len(Requests(call[k].ticks)) /\ call[k].sent + 1 \in 0..2
  <2> DEFINE n == Len(Requests(call[k].ticks))
             s == call[k].sent
  <2>1. n \in {1, 2}
    BY <1>3, RequestsOf
  <2>2. s \in 1..n /\ s # n
    BY <1>3
  <2> HIDE DEF n, s
  <2>3. n \in 1..2 /\ s + 1 \in 1..n /\ s + 1 \in 0..2
    BY <2>1, <2>2
  <2> QED
    BY <2>3 DEF n, s
<1>5. /\ new \in Call /\ new.kind = call[k].kind /\ new.client = call[k].client
      /\ new.step = "sent" /\ new.ticks = call[k].ticks /\ new.sent = call[k].sent + 1
      /\ new.at = call[k].at
  BY <1>3, <1>4 DEF Call
<1> HIDE DEF new
<1>6. \A j \in Slots : call'[j] = IF j = k THEN new ELSE call[j]
  BY <1>1, <1>2 DEF ScreenTypeOK
<1>7. UNCHANGED <<there, clock, moves, drawer, confirm, acked, named>>
  BY <1>2 DEF serverVars, viewVars, history
<1>8. ScreenTypeOK'
  <2>1. call' \in [Slots -> Call]
    BY <1>1, <1>2, <1>5 DEF ScreenTypeOK
  <2> QED
    BY <1>1, <1>2, <2>1 DEF ScreenTypeOK, serverVars, viewVars, history
<1>9. Clocks' /\ DialogShape'
  BY <1>1, <1>7 DEF Clocks, DialogShape
<1>10. CallShape'
  BY <1>1, <1>3, <1>4, <1>5, <1>6, <1>7 DEF CallShape
<1>11. DeletesAsked'
  BY <1>1, <1>5, <1>6, <1>7 DEF DeletesAsked
<1>12. Freshness'
  BY <1>1, <1>2, FreshStays DEF viewVars, history, Active, Shown
<1> QED
  BY <1>8, <1>9, <1>10, <1>11, <1>12 DEF ScreenInv

(* A call that is over leaves an empty slot.                               *)
LEMMA TakenStep ==
    ASSUME ScreenInv, NEW k \in Slots, Taken(k), clock' = clock, named' = named
    PROVE  call' \in [Slots -> Call] /\ CallShape' /\ DeletesAsked'
<1>1. ScreenTypeOK /\ CallShape /\ DeletesAsked
  BY DEF ScreenInv
<1>2. NoCall \in Call /\ NoCall.kind = "none"
  <2>1. [key \in Keys |-> 0] \in [Keys -> 0..MaxWrites]
    BY ScreenAssumption
  <2> QED
    BY <2>1 DEF NoCall, Call
<1>3. /\ call' = [call EXCEPT ![k] = NoCall]
      /\ \A j \in Slots : call'[j] = IF j = k THEN NoCall ELSE call[j]
  BY <1>1 DEF Taken, ScreenTypeOK
<1>4. call' \in [Slots -> Call]
  BY <1>1, <1>2, <1>3 DEF ScreenTypeOK
<1>5. CallShape'
  BY <1>1, <1>3 DEF CallShape
<1>6. DeletesAsked'
  <2>1. ASSUME NEW j \in Slots, call'[j].kind = "delete client"
        PROVE  call[j].kind = "delete client" /\ call'[j] = call[j]
    BY <1>2, <1>3, <2>1
  <2> QED
    BY <1>1, <2>1 DEF DeletesAsked
<1> QED
  BY <1>4, <1>5, <1>6

(* A call fails: nothing is reported as done.                              *)
LEMMA FailStep ==
    ASSUME ScreenInv, NEW k \in Slots, Fail(k)
    PROVE  ScreenInv'
<1>1. ScreenTypeOK /\ Clocks /\ DialogShape /\ Freshness
  BY DEF ScreenInv
<1>2. /\ Taken(k) /\ UNCHANGED <<there, clock, query, open, selected, filter, confirm, history>>
      /\ drawer' = IF drawer.call = k THEN [drawer EXCEPT !.call = None] ELSE drawer
  BY DEF Fail
<1>3. moves' \in 0..MaxMoves
  <2>1. moves' = moves \/ Move
    BY DEF Fail
  <2> QED
    BY <1>1, <2>1, ScreenAssumption DEF ScreenTypeOK, Move
<1>4. call' \in [Slots -> Call] /\ CallShape' /\ DeletesAsked'
  BY <1>2, TakenStep DEF history
<1>5. DrawerShape(drawer')
  <2>1. DrawerShape(drawer)
    BY <1>1 DEF ScreenTypeOK, DialogShape, DrawerShape
  <2>2. NoDrawer.call = None
    BY DEF NoDrawer
  <2> QED
    BY <1>2, <2>1, <2>2, ScreenAssumption DEF DrawerShape
<1>6. ScreenTypeOK'
  BY <1>1, <1>2, <1>3, <1>4, <1>5 DEF ScreenTypeOK, DrawerShape, history
<1>7. Clocks' /\ DialogShape'
  BY <1>1, <1>2, <1>5 DEF Clocks, DialogShape, DrawerShape, history
<1>8. Freshness'
  BY <1>1, <1>2, FreshStays DEF Active, Shown, history
<1> QED
  BY <1>4, <1>6, <1>7, <1>8 DEF ScreenInv

(* A fetch that an invalidation does not replace is a first load.          *)
LEMMA Unreplaced ==
    ASSUME NEW q \in Entry(Answers, {}), Refetch(q, None).step = "read"
    PROVE  q.step = "read" /\ q.data = None
BY DEF Refetch, Sent, Entry, Steps, Flying

(* What takes in some writes takes in fewer.                               *)
LEMMA FreshForNothing ==
    ASSUME NEW q \in Entry(Answers, {}), NEW n \in Nat
    PROVE  /\ ReadIsFresh(q, n) => ReadIsFresh(q, 0)
           /\ ShownIsFresh(q, n) => ShownIsFresh(q, 0)
BY DEF ReadIsFresh, ShownIsFresh, Entry, Answers

(* A call succeeds: what it touches and is on show is fetched again or has *)
(* lapsed, so that raising what must be shown breaks no entry in use.      *)
LEMMA SucceedStep ==
    ASSUME ScreenInv, NEW k \in Slots, Succeed(k)
    PROVE  ScreenInv'
<1> DEFINE touched == Touched(call[k].kind, call[k].client)
           asked == Invalidated(call[k].kind, call[k].client)
<1>1. ScreenTypeOK /\ Clocks /\ CallShape /\ DialogShape /\ Freshness /\ List \in Keys
  BY DEF ScreenInv, Keys
<1>2. /\ call[k].step = "done" /\ Taken(k)
      /\ Invalidate(asked)
      /\ drawer' \in {drawer, NoDrawer} /\ confirm' \in {confirm, NoConfirm}
      /\ acked' = [key \in Keys |-> IF key \in touched THEN Max({acked[key], call[k].at[key]})
                                    ELSE acked[key]]
      /\ lapsed' = [key \in Keys |-> IF key \in touched
                                     THEN lapsed[key] \cup Lapses(call[k].kind, key)
                                     ELSE lapsed[key]]
      /\ UNCHANGED <<there, clock, moves, open, selected, filter, named>>
  BY DEF Succeed, serverVars
<1>3. /\ call[k] # NoCall /\ call[k].kind \in Kinds
      /\ \A key \in Keys : call[k].at[key] <= clock[key] /\ call[k].at[key] \in 0..MaxWrites
  <2>1. call[k] # NoCall /\ call[k] \in Call
    BY <1>1, <1>2 DEF NoCall, ScreenTypeOK
  <2> QED
    BY <1>1, <2>1 DEF CallShape, Call
<1>4. /\ asked \subseteq touched
      /\ \A key \in touched \ asked : call[k].kind = "restore" /\ key \in Clients
  <2>1. CASE call[k].kind # "restore"
    <3>1. asked = touched
      BY <1>3, <2>1 DEF Invalidated, Touched, Kinds, DrawerKinds, ConfirmKinds, OtherKinds
    <3> QED
      BY <3>1
  <2>2. CASE call[k].kind = "restore"
    BY <2>2 DEF Invalidated, Touched, Keys
  <2> QED
    BY <2>1, <2>2
<1> HIDE DEF touched, asked
<1>5. query' = [key \in Keys |-> IF key \in asked /\ Active(key)
                                 THEN Refetch(query[key], None) ELSE query[key]]
  BY <1>2 DEF Invalidate
<1>6. ASSUME NEW key \in Keys
      PROVE  /\ query[key] \in Entry(Answers, {}) /\ Refetch(query[key], None) \in Entry(Answers, {})
             /\ acked[key] \in 0..MaxWrites /\ acked[key] <= clock[key]
             /\ Owed(key) \in Nat
             /\ ReadIsFresh(query[key], Owed(key))
             /\ Active(key) => ShownIsFresh(query[key], Owed(key))
  BY <1>1, EntryOperations, OwedIsNatural DEF ScreenTypeOK, Clocks, Freshness
<1>7. query' \in [Keys -> Entry(Answers, {})]
  BY <1>5, <1>6
<1>8. ASSUME NEW key \in Keys
      PROVE  /\ acked'[key] \in 0..MaxWrites /\ acked'[key] <= clock[key]
             /\ lapsed'[key] \subseteq {"joined", "restore"}
             /\ key \notin touched => acked'[key] = acked[key] /\ lapsed'[key] = lapsed[key]
             /\ key \in touched => lapsed'[key] = lapsed[key] \cup Lapses(call[k].kind, key)
  <2>1. Max({acked[key], call[k].at[key]}) \in {acked[key], call[k].at[key]}
    <3>1. acked[key] \in Nat /\ call[k].at[key] \in Nat
      BY <1>3, <1>6, ScreenAssumption
    <3> QED
      BY <3>1, Larger
  <2>2. lapsed[key] \subseteq {"joined", "restore"}
    BY <1>1 DEF ScreenTypeOK
  <2> QED
    BY <1>2, <1>3, <1>6, <2>1, <2>2 DEF Lapses
<1>9. call' \in [Slots -> Call] /\ CallShape' /\ DeletesAsked'
  BY <1>2, TakenStep
<1>10. /\ DrawerShape(drawer')
       /\ confirm' \in [kind : ConfirmKinds \cup {"none"}, client : Clients \cup {None}]
       /\ confirm'.kind = "none" => confirm' = NoConfirm
       /\ confirm'.kind = "delete client" => confirm'.client \in named
  <2>1. DrawerShape(drawer) /\ DrawerShape(NoDrawer)
    BY <1>1 DEF DrawerShape, ScreenTypeOK, DialogShape, NoDrawer
  <2>2. DrawerShape(drawer')
    BY <1>2, <2>1
  <2>3. NoConfirm \in [kind : ConfirmKinds \cup {"none"}, client : Clients \cup {None}]
    BY DEF NoConfirm
  <2>4. NoConfirm.kind = "none"
    BY DEF NoConfirm
  <2>5. CASE confirm' = confirm
    BY <1>1, <2>2, <2>5 DEF ScreenTypeOK, DialogShape
  <2>6. CASE confirm' = NoConfirm
    BY <2>2, <2>3, <2>4, <2>6
  <2> QED
    BY <1>2, <2>5, <2>6
<1>11. /\ acked' \in [Keys -> 0..MaxWrites]
       /\ lapsed' \in [Keys -> SUBSET {"joined", "restore"}]
  BY <1>2, <1>8
<1>12. ScreenTypeOK'
  BY <1>1, <1>2, <1>7, <1>9, <1>10, <1>11 DEF ScreenTypeOK, DrawerShape
<1>13. Clocks' /\ DialogShape'
  BY <1>1, <1>2, <1>8, <1>10 DEF Clocks, DialogShape, DrawerShape
<1>14. \A key \in Keys : Active(key)' = Active(key)
  <2>1. query'[List].data = query[List].data
    BY <1>1, <1>5, <1>6, EntryFreshness
  <2> QED
    BY <1>2, <2>1, SameShown
<1>15. ASSUME NEW key \in Keys
       PROVE  /\ ReadIsFresh(query'[key], Owed(key)')
              /\ Active(key)' => ShownIsFresh(query'[key], Owed(key)')
  <2>1. /\ query'[key] = IF key \in asked /\ Active(key) THEN Refetch(query[key], None)
                         ELSE query[key]
        /\ Refetch(query[key], None).step # "idle"
        /\ ReadIsFresh(Refetch(query[key], None), Owed(key))
    BY <1>5, <1>6, EntryFreshness
  <2>2. CASE key \notin touched
    <3>1. Owed(key)' = Owed(key) /\ query'[key] = query[key]
      BY <1>4, <1>8, <2>1, <2>2 DEF Owed
    <3> QED
      BY <1>6, <1>14, <3>1
  <2>3. CASE key \in touched /\ lapsed'[key] # {}
    <3>1. Owed(key)' = 0
      BY <2>3 DEF Owed
    <3>2. ReadIsFresh(query'[key], Owed(key))
      BY <1>6, <2>1
    <3>3. Active(key)' => ShownIsFresh(query'[key], Owed(key))
      BY <1>6, <1>14, <2>1 DEF ShownIsFresh
    <3>4. query'[key] \in Entry(Answers, {})
      BY <1>7
    <3> HIDE DEF Owed
    <3>5. /\ ReadIsFresh(query'[key], 0)
          /\ Active(key)' => ShownIsFresh(query'[key], 0)
      BY <1>6, <3>2, <3>3, <3>4, FreshForNothing
    <3> QED
      BY <3>1, <3>5
  <2>4. CASE key \in touched /\ lapsed'[key] = {}
    <3>1. /\ ~(query[key].step = "read" /\ (Active(key) => query[key].data = None))
          /\ ~(/\ call[k].kind = "restore" /\ key \in Clients
               /\ Active(key) /\ query[key].step # "sent")
      <4>1. "joined" \notin Lapses(call[k].kind, key)
        BY <1>8, <2>4
      <4>2. "restore" \notin Lapses(call[k].kind, key)
        BY <1>8, <2>4
      <4> QED
        BY <4>1, <4>2 DEF Lapses
    <3>2. CASE key \in asked /\ Active(key)
      <4>1. query'[key].step # "read" /\ query'[key].step # "idle"
        BY <1>6, <2>1, <3>1, <3>2, Unreplaced
      <4> QED
        BY <4>1 DEF ReadIsFresh, ShownIsFresh
    <3>3. CASE key \notin asked /\ Active(key)
      <4>1. query'[key].step = "sent"
        BY <1>4, <2>1, <2>4, <3>1, <3>3
      <4> QED
        BY <4>1 DEF ReadIsFresh, ShownIsFresh
    <3>4. CASE ~Active(key)
      <4>1. query'[key].step # "read" /\ ~Active(key)'
        BY <1>14, <2>1, <3>1, <3>4
      <4> QED
        BY <4>1 DEF ReadIsFresh
    <3> QED
      BY <3>2, <3>3, <3>4
  <2> QED
    BY <2>2, <2>3, <2>4
<1>16. Freshness'
  BY <1>15 DEF Freshness, ReadIsFresh, ShownIsFresh
<1> QED
  BY <1>9, <1>12, <1>13, <1>16 DEF ScreenInv

-----------------------------------------------------------------------------
(* Every step keeps ScreenInv.                                             *)
LEMMA ScreenStep == ScreenInv /\ [Next]_vars => ScreenInv'
<1> SUFFICES ASSUME ScreenInv, [Next]_vars PROVE ScreenInv'
  OBVIOUS
<1>1. CASE User
  BY <1>1, OpenPageStep, LeavePageStep, FocusStep, SelectStep, DialogStep, SubmitStep DEF User
<1>2. CASE \E key \in Keys : QueryStep(key)
  BY <1>2, ServeQueryStep, ArriveQueryStep DEF QueryStep
<1>3. CASE \E k \in Slots : CallStep(k)
  BY <1>3, ServeStep, NextRequestStep, SucceedStep, FailStep DEF CallStep
<1>4. CASE WriteElsewhere
  BY <1>4, WriteElsewhereStep
<1>5. CASE UNCHANGED vars
  <2>1. /\ UNCHANGED <<there, clock, moves, query, open, selected, filter, drawer, confirm>>
        /\ UNCHANGED <<call, acked, named, lapsed>>
    BY <1>5 DEF vars, serverVars, viewVars, history
  <2>2. ScreenTypeOK'
    BY <2>1 DEF ScreenInv, ScreenTypeOK
  <2>3. DialogShape' /\ CallsKept
    BY <2>1 DEF ScreenInv, DialogShape, CallsKept
  <2>4. Freshness'
    BY <2>1, FreshStays DEF ScreenInv, Active, Shown
  <2> QED
    BY <2>1, <2>2, <2>3, <2>4, CallsStay DEF ScreenInv
<1> QED
  BY <1>1, <1>2, <1>3, <1>4, <1>5 DEF Next

(* ScreenInv holds of every reachable state.                               *)
THEOREM ScreenInvariance == Spec => []ScreenInv
BY ScreenInit, ScreenStep, PTL DEF Spec

(* The state of the page and of what it talks to stays in its types.       *)
THEOREM ScreenTypes == Spec => []ScreenTypeOK
<1>1. ScreenInv => ScreenTypeOK
  BY DEF ScreenInv
<1> QED
  BY <1>1, ScreenInvariance, PTL

(* Whatever the order of answers, moves and writes of others, the page     *)
(* comes to show what it has reported as done (App.tsx:528), but for a     *)
(* load that was under way and was not replaced, and for the locations on  *)
(* show when a restore was reported, until they are read again.            *)
THEOREM ReportedChangesAreShown == Spec => []AcknowledgedIsShown
<1>1. ScreenInv => AcknowledgedIsShown
  BY DEF ScreenInv, Freshness, ShownIsFresh, AcknowledgedIsShown
<1> QED
  BY <1>1, ScreenInvariance, PTL

(* No client is deleted but one whose deletion was asked for               *)
(* (App.tsx:383, 758).                                                     *)
THEOREM OnlyAskedDeletions == Spec => []DeletesAsked
<1>1. ScreenInv => DeletesAsked
  BY DEF ScreenInv
<1> QED
  BY <1>1, ScreenInvariance, PTL

(* A rotation over one request or two renews exactly what was ticked       *)
(* (App.tsx:729-739).                                                      *)
THEOREM RotationsAreExact == Spec => []RotatesWhatIsTicked
<1>1. ScreenInv => RotatesWhatIsTicked
  <2> SUFFICES ASSUME ScreenInv, NEW k \in Slots, call[k].kind = "rotate",
                      call[k].step = "done", LastOf(call[k]),
                      NEW renewed,
                      renewed = UNION {Rotated(Requests(call[k].ticks)[i]) : i \in 1..call[k].sent}
               PROVE  /\ call[k].ticks \subseteq renewed
                      /\ renewed \subseteq call[k].ticks \cup
                           (IF "rooms" \in call[k].ticks THEN {"keys"} ELSE {})
    BY DEF RotatesWhatIsTicked
  <2>1. call[k].ticks \in Ticks
    BY DEF ScreenInv, CallShape, NoCall
  <2>2. call[k].sent = Len(Requests(call[k].ticks))
    BY DEF LastOf
  <2>3. renewed = UNION {Rotated(Requests(call[k].ticks)[i]) :
                          i \in 1..Len(Requests(call[k].ticks))}
    BY <2>2
  <2> QED
    BY <2>1, <2>3, RotationIsExact
<1> QED
  BY <1>1, ScreenInvariance, PTL
=============================================================================
