---------------------------- MODULE ClientsScreen ----------------------------
(***************************************************************************)
(* The clients page of the web interface: ClientsView, ClientDetail, the   *)
(* drawers and ConfirmModal, with the reload button of AdminShell and the  *)
(* restore and import of BackupsView, whose answers refresh what the page  *)
(* shows (frontend/src/App.tsx), against the handlers of server.go.        *)
(*                                                                         *)
(* The page shows answers it keeps: the list of clients and one list of    *)
(* locations per client.  Its own changes make them be fetched again; so   *)
(* do a mount and a window that gets the focus.  Other administrators      *)
(* change the same rows.  An answer is as old as the last write it takes   *)
(* in of those that touch it.                                              *)
(***************************************************************************)
EXTENDS Naturals, Sequences, FiniteSetsExt, QueryClient

CONSTANTS Clients,    (* ids, those of clients not created yet among them  *)
          Rank,       (* their position in ORDER BY created_at, id         *)
          Filters,    (* what may be typed into the search field, as the   *)
                      (* clients whose names contain it                    *)
          Slots,      (* requests on their way: their bound                *)
          List,       (* the query key ["clients"]                         *)
          MaxWrites,  (* bound on writes of the database                   *)
          MaxMoves    (* bound on what is opened or asked for, on requests *)
                      (* that fail, on windows that get the focus, and on  *)
                      (* moves to another client or page                   *)

Answers == [at : Nat, ids : SUBSET Clients]

ASSUME ScreenAssumption ==
    /\ None \notin Clients \cup Slots \cup Answers
    /\ Refused \notin Answers
    /\ List \notin Clients \cup {None}
    /\ Rank \in [Clients -> Nat]
    /\ Clients \in Filters /\ Filters \subseteq SUBSET Clients
    /\ MaxWrites \in Nat /\ MaxMoves \in Nat

VARIABLES
  there,    (* per client: not created yet, a row, or deleted              *)
  clock,    (* per query: writes so far that touch its answer              *)
  moves,
  query,    (* the cached queries: List, and the locations of each client  *)
  open,     (* the page is on the screen                                   *)
  selected, (* ClientsView: selectedId                                     *)
  filter,   (* ClientsView: query                                          *)
  drawer,   (* ClientsView: drawer, and the call its Save waits for        *)
  confirm,  (* ClientsView: confirm                                        *)
  call,     (* the mutations on their way                                  *)
  acked,    (* history, per query: the last own write it should show       *)
  named,    (* history: clients on show when their deletion was asked for  *)
  lapsed    (* history, per query: why its last answer may be older than   *)
            (* that write                                                  *)

serverVars == <<there, clock, moves>>
viewVars == <<open, selected, filter, drawer, confirm>>
history == <<acked, named, lapsed>>
vars == <<serverVars, query, viewVars, call, history>>

-----------------------------------------------------------------------------
Keys == {List} \cup Clients
Credentials == {"token", "keys", "rooms"}

NoDrawer == [kind |-> "none", client |-> None, call |-> None]
NoConfirm == [kind |-> "none", client |-> None]
NoCall == [kind |-> "none", client |-> None, step |-> "idle", ticks |-> {}, sent |-> 0,
           at |-> [key \in Keys |-> 0], mine |-> FALSE]
DrawerKinds == {"create client", "save client", "save location"}
ConfirmKinds == {"delete client", "delete location", "rotate"}
OtherKinds == {"reload", "restore", "import"}
Kinds == DrawerKinds \cup ConfirmKinds \cup OtherKinds
Call == [kind : Kinds \cup {"none"}, client : Clients \cup {None},
         step : {"idle", "sent", "done"}, ticks : SUBSET Credentials, sent : 0..2,
         at : [Keys -> 0..MaxWrites], mine : BOOLEAN]

There == {c \in Clients : there[c] = "there"}
First(S) == CHOOSE c \in S : \A d \in S : Rank[c] <= Rank[d]
OneOf(S) == IF S = {} THEN None ELSE First(S)

(* The client in the detail: the selected one, if it is in the list; else  *)
(* the first that passes the filter, else the first.                       *)
ShownIn(q, f, s) ==
    LET ids == IF q.data = None THEN {} ELSE q.data.ids
    IN  IF s \in ids THEN s
        ELSE IF ids \cap f # {} THEN First(ids \cap f)
        ELSE OneOf(ids)
Shown == IF open THEN ShownIn(query[List], filter, selected) ELSE None

(* An effect selects the first client as long as none is.                  *)
Selection(q, s) ==
    IF s = None /\ q.data # None THEN OneOf(q.data.ids) ELSE s

Active(key) == open /\ key \in {List, Shown}
Touched(kind, c) ==
    CASE kind \in {"save location", "delete location", "rotate"} -> {List, c}
      [] kind \in {"reload", "restore"} -> Keys
      [] OTHER -> {List}

(* The queries onSuccess invalidates, and a variant that forgets the list. *)
OwnKeys(kind, c) == IF kind \in {"save location", "delete location"} THEN {c} ELSE Touched(kind, c)
Invalidated(kind, c) ==
    CASE kind \in {"create client", "save client", "delete client"} -> {List}
      [] kind \in {"save location", "delete location", "rotate"} -> {c, List}
      [] kind = "reload" -> Keys
      [] kind \in {"restore", "import"} -> {List}
Invalidate(keys) ==
    query' = [key \in Keys |-> IF key \in keys /\ Active(key)
                               THEN Refetch(query[key], None) ELSE query[key]]

(* The page is rendered with a list, a filter and a selection: the         *)
(* locations of a client that comes into the detail are fetched, those of  *)
(* one shown before the effect has run included.                           *)
Render(q, f, s) ==
    LET chosen == Selection(q[List], s)
        passed == {ShownIn(q[List], f, s), ShownIn(q[List], f, chosen)}
    IN  /\ filter' = f
        /\ selected' = chosen
        /\ query' = [key \in Keys |-> IF key \in passed \ {Shown}
                                      THEN Fetch(q[key], None) ELSE q[key]]

Init ==
    /\ there \in [Clients -> {"new", "there"}]
    /\ clock = [key \in Keys |-> 0]
    /\ moves = 0
    /\ query = [key \in Keys |-> NewEntry]
    /\ open = FALSE
    /\ selected = None
    /\ filter = Clients
    /\ drawer = NoDrawer
    /\ confirm = NoConfirm
    /\ call = [k \in Slots |-> NoCall]
    /\ acked = [key \in Keys |-> 0]
    /\ named = {}
    /\ lapsed = [key \in Keys |-> {}]

-----------------------------------------------------------------------------
(* Moving about the page.                                                  *)
Move == moves < MaxMoves /\ moves' = moves + 1

OpenPage ==
    /\ ~open
    /\ open' = TRUE
    /\ Render([query EXCEPT ![List] = Fetch(@, None)], Clients, None)
    /\ UNCHANGED <<serverVars, drawer, confirm, call, history>>

(* ClientsView is gone, with all it holds; what it asked for goes on, and  *)
(* its onClose reaches nobody.                                             *)
LeavePage ==
    /\ open /\ Move
    /\ open' = FALSE /\ selected' = None /\ filter' = Clients
    /\ drawer' = NoDrawer /\ confirm' = NoConfirm
    /\ call' = [k \in Slots |-> [call[k] EXCEPT !.mine = FALSE]]
    /\ UNCHANGED <<there, clock, query, history>>

(* A drawer or a dialog covers the page.                                   *)
Uncovered == open /\ drawer = NoDrawer /\ confirm = NoConfirm

Select(c) ==
    /\ Uncovered /\ Move
    /\ query[List].data # None /\ c \in query[List].data.ids \cap filter
    /\ Render(query, filter, c)
    /\ UNCHANGED <<there, clock, open, drawer, confirm, call, history>>

Search(f) ==
    /\ Uncovered /\ Move
    /\ Render(query, f, selected)
    /\ UNCHANGED <<there, clock, open, drawer, confirm, call, history>>

Focus ==
    /\ Move
    /\ query' = [key \in Keys |-> IF Active(key) THEN Fetch(query[key], None) ELSE query[key]]
    /\ UNCHANGED <<there, clock, viewVars, call, history>>

OpenDrawer(kind) ==
    /\ Uncovered /\ Move
    /\ kind # "create client" => Shown # None
    /\ drawer' = [NoDrawer EXCEPT !.kind = kind,
                                  !.client = IF kind = "create client" THEN None ELSE Shown]
    /\ UNCHANGED <<there, clock, query, open, selected, filter, confirm, call, history>>

OpenConfirm(kind) ==
    /\ Uncovered /\ Move
    /\ Shown # None
    /\ confirm' = [NoConfirm EXCEPT !.kind = kind, !.client = Shown]
    /\ named' = IF kind = "delete client" THEN named \cup {Shown} ELSE named
    /\ UNCHANGED <<there, clock, query, open, selected, filter, drawer, call, acked, lapsed>>

Close ==
    /\ ~Uncovered /\ open
    /\ drawer' = NoDrawer /\ confirm' = NoConfirm
    /\ UNCHANGED <<serverVars, query, open, selected, filter, call, history>>

-----------------------------------------------------------------------------
(* A rotation sends one request or two, whatever boxes are ticked (ticking *)
(* the rooms ticks the keys, which may then be unticked).  The server      *)
(* renews for each the token alone, or the keys and, if asked, the rooms.  *)
OneRequest(ticks) == <<ticks \cap {"token", "rooms"}>>
Requests(ticks) ==
    IF {"token", "keys"} \subseteq ticks /\ "rooms" \notin ticks
    THEN <<{"token"}, {}>>
    ELSE <<ticks \cap {"token", "rooms"}>>
Rotated(asked) ==
    (asked \cap {"token"}) \cup
    (IF "token" \in asked /\ "rooms" \notin asked THEN {}
     ELSE {"keys"} \cup (asked \cap {"rooms"}))
Ticks == (SUBSET Credentials) \ {{}}
LastOf(cl) == cl.kind = "rotate" => cl.sent = Len(Requests(cl.ticks))

(* Mutations leave.                                                        *)
Send(k, kind, c, ticks) ==
    /\ call[k] = NoCall
    /\ call' = [call EXCEPT ![k] = [kind |-> kind, client |-> c, step |-> "sent", ticks |-> ticks,
                                    sent |-> 1, at |-> NoCall.at, mine |-> open]]
    /\ UNCHANGED <<there, clock, query, open, selected, filter, confirm, history>>

(* The Save button is disabled while its own call is on its way.           *)
SubmitDrawer(k) ==
    /\ drawer # NoDrawer /\ drawer.call = None
    /\ drawer' = [drawer EXCEPT !.call = k]
    /\ Send(k, drawer.kind, drawer.client, {})
    /\ UNCHANGED moves

(* Delete and Rotate stay enabled while theirs is.                         *)
Confirmed(k, c) ==
    /\ confirm # NoConfirm
    /\ \E ticks \in IF confirm.kind = "rotate" THEN Ticks ELSE {{}} :
         Send(k, confirm.kind, c, ticks)
    /\ UNCHANGED <<moves, drawer>>
ConfirmShown(k) == Confirmed(k, Shown)
Confirm(k) == Confirmed(k, confirm.client)

(* Reload is on every page; restore and import are on that of the backups. *)
Ask(k, kind) ==
    /\ IF kind = "reload" THEN \A j \in Slots : call[j].kind # "reload" ELSE ~open
    /\ Move
    /\ Send(k, kind, None, {})
    /\ UNCHANGED drawer

-----------------------------------------------------------------------------
(* What a request makes of the rows of the clients.                        *)
Effect(kind, c) ==
    CASE kind \in {"create client", "import"} ->
           {[there EXCEPT ![d] = "there"] : d \in {d \in Clients : there[d] = "new"}}
      [] kind = "delete client" -> {[there EXCEPT ![c] = "gone"] : d \in There \cap {c}}
      [] kind = "restore" -> {[d \in Clients |-> IF there[d] = "new" THEN "new"
                                                 ELSE IF d \in S THEN "there" ELSE "gone"] :
                               S \in SUBSET Clients}
      [] kind = "reload" -> {there}
      [] OTHER -> {there : d \in There \cap {c}}

Commit(kind, c) ==
    IF kind = "reload" THEN UNCHANGED clock
    ELSE /\ clock[List] < MaxWrites
         /\ clock' = [key \in Keys |-> IF key \in Touched(kind, c) THEN clock[key] + 1
                                       ELSE clock[key]]

Serve(k) ==
    /\ call[k].step = "sent"
    /\ there' \in Effect(call[k].kind, call[k].client)
    /\ Commit(call[k].kind, call[k].client)
    /\ call' = [call EXCEPT ![k].step = "done", ![k].at = clock']
    /\ UNCHANGED <<moves, query, viewVars, history>>

(* Other administrators.                                                   *)
WriteElsewhere ==
    /\ \E kind \in {"create client", "delete client", "save location"}, c \in Clients :
         there' \in Effect(kind, c) /\ Commit(kind, c)
    /\ UNCHANGED <<moves, query, viewVars, call, history>>

(* What the server reads takes in all that was reported as done before.    *)
ServeQuery(key) ==
    /\ query[key].step = "sent"
    /\ query' = [query EXCEPT ![key] =
                   Read(@, IF key = List THEN [at |-> clock[List], ids |-> There]
                           ELSE IF key \in There THEN [at |-> clock[key], ids |-> {}]
                           ELSE Refused)]
    /\ lapsed' = [lapsed EXCEPT ![key] = {}]
    /\ UNCHANGED <<serverVars, viewVars, call, acked, named>>

-----------------------------------------------------------------------------
(* Answers arrive.                                                         *)
QueryIs(key, q) ==
    /\ IF open THEN Render([query EXCEPT ![key] = q], filter, selected)
       ELSE query' = [query EXCEPT ![key] = q] /\ UNCHANGED <<filter, selected>>
    /\ UNCHANGED <<there, clock, open, drawer, confirm, call, history>>
ArriveQuery(key) ==
    query[key].step = "read" /\ QueryIs(key, Arrived(query[key])) /\ UNCHANGED moves
FailQuery(key) ==
    query[key].step \in Flying /\ QueryIs(key, Failed(query[key])) /\ Move

Taken(k) == call' = [call EXCEPT ![k] = NoCall]

(* The token is rotated; the keys are asked for next.                      *)
NextRequest(k) ==
    /\ call[k].step = "done" /\ ~LastOf(call[k])
    /\ call' = [call EXCEPT ![k].step = "sent", ![k].sent = @ + 1]
    /\ UNCHANGED <<serverVars, query, viewVars, history>>

(* A change reported as done is not asked for in two cases.  A first load, *)
(* or a fetch for a query that is not in use, is not replaced, and its     *)
(* answer may have been read before.  A restore, which replaces the rows   *)
(* of every location, leaves the locations on show as they are.            *)
Lapses(kind, key) ==
    {why \in {"joined", "restore"} :
        IF why = "joined"
        THEN query[key].step = "read" /\ (Active(key) => query[key].data = None)
        ELSE kind = "restore" /\ key \in Clients /\ Active(key) /\ query[key].step # "sent"}

(* onSuccess: what is shown is fetched again, and whatever drawer or       *)
(* dialog is open by now is closed.                                        *)
Succeed(k) ==
    LET touched == Touched(call[k].kind, call[k].client)
    IN  /\ call[k].step = "done" /\ LastOf(call[k])
        /\ Taken(k)
        /\ Invalidate(Invalidated(call[k].kind, call[k].client))
        /\ drawer' = IF call[k].kind \in DrawerKinds /\ call[k].mine THEN NoDrawer ELSE drawer
        /\ confirm' = IF call[k].kind \in ConfirmKinds /\ call[k].mine THEN NoConfirm ELSE confirm
        /\ acked' = [key \in Keys |-> IF key \in touched THEN Max({acked[key], call[k].at[key]})
                                      ELSE acked[key]]
        /\ lapsed' = [key \in Keys |-> IF key \in touched
                                       THEN lapsed[key] \cup Lapses(call[k].kind, key)
                                       ELSE lapsed[key]]
        /\ UNCHANGED <<serverVars, open, selected, filter, named>>

(* Refused for want of the client, or for what it asks; or lost on its way *)
(* there or back: an error is shown, and nothing is fetched again.         *)
Fail(k) ==
    /\ call[k] # NoCall
    /\ IF call[k].step = "sent" /\ Effect(call[k].kind, call[k].client) = {}
       THEN UNCHANGED moves ELSE Move
    /\ Taken(k)
    /\ drawer' = IF drawer.call = k THEN [drawer EXCEPT !.call = None] ELSE drawer
    /\ UNCHANGED <<there, clock, query, open, selected, filter, confirm, history>>

-----------------------------------------------------------------------------
User ==
    \/ OpenPage \/ LeavePage \/ Focus \/ Close
    \/ \E c \in Clients : Select(c)
    \/ \E f \in Filters : Search(f)
    \/ \E kind \in DrawerKinds : OpenDrawer(kind)
    \/ \E kind \in ConfirmKinds : OpenConfirm(kind)
    \/ \E k \in Slots :
         \/ SubmitDrawer(k) \/ Confirm(k)
         \/ \E kind \in OtherKinds : Ask(k, kind)
QueryStep(key) == ServeQuery(key) \/ ArriveQuery(key) \/ FailQuery(key)
CallStep(k) == Serve(k) \/ NextRequest(k) \/ Succeed(k) \/ Fail(k)
Next ==
    \/ User
    \/ \E key \in Keys : QueryStep(key)
    \/ \E k \in Slots : CallStep(k)
    \/ WriteElsewhere
Spec == Init /\ [][Next]_vars

-----------------------------------------------------------------------------
ScreenTypeOK ==
    /\ there \in [Clients -> {"new", "there", "gone"}]
    /\ clock \in [Keys -> 0..MaxWrites]
    /\ moves \in 0..MaxMoves
    /\ query \in [Keys -> Entry(Answers, {})]
    /\ open \in BOOLEAN
    /\ selected \in Clients \cup {None}
    /\ filter \in Filters
    /\ drawer \in [kind : DrawerKinds \cup {"none"}, client : Clients \cup {None},
                   call : Slots \cup {None}]
    /\ confirm \in [kind : ConfirmKinds \cup {"none"}, client : Clients \cup {None}]
    /\ call \in [Slots -> Call]
    /\ acked \in [Keys -> 0..MaxWrites]
    /\ named \in SUBSET Clients
    /\ lapsed \in [Keys -> SUBSET {"joined", "restore"}]

(* The write an answer must take in, unless the query has lapsed since it  *)
(* was last read.                                                          *)
Owed(key) == IF lapsed[key] = {} THEN acked[key] ELSE 0

(* What the page shows takes in every change it has reported as done, once *)
(* nothing is being fetched: after any order of answers, changes of the    *)
(* selection, visits to other pages, and writes of others (the calls of    *)
(* invalidateQueries, App.tsx:193-197, 492-495, 528-532, 712-744, 953).    *)
(* Until the query is read again this excepts what Lapses names: a load    *)
(* that was under way is shown though it is older than the change, and so  *)
(* are the locations on show when a restore is reported (App.tsx:949-953). *)
AcknowledgedIsShown ==
    \A key \in Keys :
        Active(key) /\ query[key].step = "idle" /\ ~query[key].failed =>
            query[key].data # None /\ query[key].data.at >= Owed(key)

(* The page deletes no client but one that was in the detail when its      *)
(* deletion was asked for, whatever is in the detail when it is confirmed  *)
(* (App.tsx:383, 758).                                                     *)
DeletesAsked ==
    \A k \in Slots : call[k].kind = "delete client" => call[k].client \in named

(* A rotation that is reported as done has renewed all that was ticked and *)
(* nothing else, but for the keys with the rooms, over one request or two, *)
(* whatever boxes were ticked (App.tsx:729-739, server.go:552-585).        *)
RotatesWhatIsTicked ==
    \A k \in Slots :
        call[k].kind = "rotate" /\ call[k].step = "done" /\ LastOf(call[k]) =>
            LET ticks == call[k].ticks
                renewed == UNION {Rotated(Requests(ticks)[i]) : i \in 1..call[k].sent}
            IN  /\ ticks \subseteq renewed
                /\ renewed \subseteq ticks \cup (IF "rooms" \in ticks THEN {"keys"} ELSE {})
=============================================================================
