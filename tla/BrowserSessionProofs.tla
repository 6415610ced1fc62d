------------------------ MODULE BrowserSessionProofs ------------------------
(***************************************************************************)
(* SessionInv is an invariant of signing in and out, for any tabs,         *)
(* sessions and requests, and the properties the run checks follow.        *)
(*                                                                         *)
(* Used and Fresh say that an answer on its way carries a session nobody   *)
(* holds yet, so that the arrival of one tab's login takes the cookie from *)
(* the others.  Pending says that a tab whose login is on its way has read *)
(* the state before, unless it has left since: the request its arrival     *)
(* makes is then a new one.  Shown follows such a request to the screen.   *)
(***************************************************************************)
EXTENDS BrowserSession, TLAPS

Ended ==
    \A k \in Calls :
        call[k].kind = "logout" /\ call[k].step = "done" =>
            call[k].csrf \in Sessions /\ status[call[k].csrf] = "gone"

Used ==
    /\ \A t \in Tabs : stored[t] # None => status[stored[t]] # "unused"
    /\ cookie # None => status[cookie] # "unused"
    /\ \A s \in Sessions : status[s] # "unused" => admin

Fresh ==
    \A k \in Calls :
        /\ call[k].kind \in LoginKinds /\ call[k].step = "done" =>
             call[k].session # None
        /\ call[k].session # None =>
             /\ status[call[k].session] # "unused"
             /\ cookie # call[k].session
             /\ \A t \in Tabs : stored[t] # call[k].session
             /\ \A j \in Calls \ {k} : call[j].session # call[k].session

Pending ==
    \A k \in Calls :
        call[k].kind \in LoginKinds /\ call[k].tab # None =>
            crossed[call[k].tab] \/ state[call[k].tab].data # None

Answers == \A t \in Tabs : state[t].step = "read" => state[t].val \in StateAnswer

In == [setup |-> FALSE, auth |-> TRUE]
ShownIn(t) ==
    stored[t] # None /\ cookie = stored[t] /\ Live(cookie) /\ ~crossed[t] =>
        /\ state[t].step = "sent" => state[t].val = cookie
        /\ state[t].step = "read" => state[t].val = In
        /\ state[t].step = "idle" /\ ~state[t].failed => state[t].data = In
Shown == \A t \in Tabs : ShownIn(t)

(* AuthScreen waits only while it is on the page; over entries dropped     *)
(* from the cache the page does not change, so it waits for every login    *)
(* sent since.                                                             *)
Forms ==
    \A t \in Tabs :
        /\ form[t] # None => Screen(t) \in LoginKinds
        /\ state[t].step \in {"stuck", "cut"} /\ ~crossed[t] =>
             \A k \in LoginsOf(t) : form[t] = k

SessionInv ==
    /\ SessionTypeOK /\ LogoutForgets /\ Ended /\ Used /\ Fresh
    /\ Pending /\ Answers /\ Shown /\ Forms

-----------------------------------------------------------------------------
(* What the operators of the query cache make of an entry.                 *)
LEMMA EntryOperations ==
    ASSUME NEW V, NEW C, NEW q \in Entry(V, C), NEW c \in C \cup {None},
           NEW a \in V \cup {Refused}
    PROVE  /\ NewEntry \in Entry(V, C)
           /\ Sent(q, c) \in Entry(V, C) /\ Sent(NewEntry, c) \in Entry(V, C)
           /\ Fetch(q, c) \in Entry(V, C) /\ Refetch(q, c) \in Entry(V, C)
           /\ Refetch(NewEntry, c) \in Entry(V, C)
           /\ Read(q, a) \in Entry(V, C) /\ Failed(q) \in Entry(V, C)
           /\ Dropped(q) \in Entry(V, C)
           /\ q.step = "sent" => Arrived(Read(q, a)) \in Entry(V, C)
           /\ q.val \in V => Arrived(q) \in Entry(V, C)
<1> USE DEF Entry, Steps, Flying
<1>1. NewEntry \in Entry(V, C)
  BY DEF NewEntry
<1>2. Sent(q, c) \in Entry(V, C) /\ Sent(NewEntry, c) \in Entry(V, C)
  BY DEF Sent, NewEntry
<1>3. Fetch(q, c) \in Entry(V, C) /\ Refetch(q, c) \in Entry(V, C)
  BY <1>2 DEF Fetch, Refetch
<1>4. Refetch(NewEntry, c) \in Entry(V, C)
  BY <1>1, <1>2 DEF Refetch
<1>5. Read(q, a) \in Entry(V, C) /\ Failed(q) \in Entry(V, C)
  BY DEF Read, Failed
<1>6. Dropped(q) \in Entry(V, C)
  BY DEF Dropped
<1>7. q.step = "sent" => Arrived(Read(q, a)) \in Entry(V, C)
  BY DEF Arrived, Accepted, Failed, Read
<1>8. q.val \in V => Arrived(q) \in Entry(V, C)
  BY DEF Arrived, Accepted, Failed
<1> QED
  BY <1>1, <1>2, <1>3, <1>4, <1>5, <1>6, <1>7, <1>8

(* The fields of a call, and the updates the steps make of it.             *)
LEMMA CallFields ==
    ASSUME NEW q \in [Calls -> Call], NEW k \in Calls
    PROVE  /\ q[k].kind \in LoginKinds \cup {"logout", "none"}
           /\ q[k].tab \in Tabs \cup {None} /\ q[k].csrf \in Sessions \cup {None}
           /\ q[k].cookie \in Sessions \cup {None}
           /\ q[k].step \in {"idle", "sent", "done", "refused"}
           /\ q[k].session \in Sessions \cup {None}
<1>1. q[k] \in Call
  OBVIOUS
<1> QED
  BY <1>1 DEF Call

LEMMA CallUpdates ==
    ASSUME NEW q \in [Calls -> Call], NEW k \in Calls,
           NEW m \in {"done", "refused"}, NEW s \in Sessions \cup {None}
    PROVE  /\ [q EXCEPT ![k].step = m, ![k].session = s] \in [Calls -> Call]
           /\ [q EXCEPT ![k] = NoCall] \in [Calls -> Call]
           /\ [q[k] EXCEPT !.tab = None] \in Call
<1>1. q[k] \in Call /\ NoCall \in Call
  BY DEF Call, NoCall
<1>2. [q[k] EXCEPT !.step = m, !.session = s] \in Call
  BY <1>1 DEF Call
<1> QED
  BY <1>1, <1>2 DEF Call

(* A rendered tab keeps its types.                                         *)
LEMMA RenderType ==
    ASSUME SessionTypeOK, cookie' \in Sessions \cup {None},
           NEW t \in Tabs, NEW s \in Sessions \cup {None},
           NEW q \in Entry(StateAnswer, Sessions),
           NEW p \in Entry({"private"}, Sessions), NEW f \in Calls \cup {None},
           Render(t, s, q, p, f)
    PROVE  /\ stored' \in [Tabs -> Sessions \cup {None}]
           /\ state' \in [Tabs -> Entry(StateAnswer, Sessions)]
           /\ settings' \in [Tabs -> Entry({"private"}, Sessions)]
           /\ form' \in [Tabs -> Calls \cup {None}]
<1>1. Fetch(p, cookie') \in Entry({"private"}, Sessions)
  BY EntryOperations
<1> QED
  BY <1>1 DEF Render, SessionTypeOK

(* Typing, action by action; Answers is needed where an answer is taken.   *)
LEMMA SessionTypeStep ==
    SessionTypeOK /\ Answers /\ [Next]_vars => SessionTypeOK'
<1> SUFFICES ASSUME SessionTypeOK, Answers, [Next]_vars
             PROVE  SessionTypeOK'
  OBVIOUS
<1> USE SessionAssumption, QueryAssumption
<1>t. /\ \A t \in Tabs : state[t] \in Entry(StateAnswer, Sessions)
      /\ \A t \in Tabs : settings[t] \in Entry({"private"}, Sessions)
      /\ \A t \in Tabs : form[t] \in Calls \cup {None}
      /\ \A t \in Tabs : stored[t] \in Sessions \cup {None}
  BY DEF SessionTypeOK
<1>u. Upset => upsets' \in 0..MaxUpsets
  BY DEF SessionTypeOK, Upset
<1>n. /\ NewEntry \in Entry(StateAnswer, Sessions)
      /\ NewEntry \in Entry({"private"}, Sessions)
  BY DEF Entry, NewEntry, Steps, Flying
<1>s. ASSUME NEW s \in Sessions \cup {None}
      PROVE  Swept(s) \in [Sessions -> {"unused", "live", "expired", "gone"}]
  BY DEF Swept, SessionTypeOK
<1>1. ASSUME NEW t \in Tabs, NEW s \in Sessions \cup {None}, PageLoad(t, s)
      PROVE  SessionTypeOK'
  <2>1. Sent(NewEntry, cookie) \in Entry(StateAnswer, Sessions)
    BY <1>t, EntryOperations DEF SessionTypeOK
  <2>2. call' \in [Calls -> Call]
    <3>1. \A k \in Calls : [call[k] EXCEPT !.tab = None] \in Call /\ call[k] \in Call
      BY CallUpdates DEF SessionTypeOK
    <3> QED
      BY <1>1, <3>1 DEF PageLoad
  <2> QED
    BY <1>1, <1>u, <1>n, <2>1, <2>2 DEF PageLoad, SessionTypeOK, serverVars
<1>2. ASSUME NEW t \in Tabs, Focus(t) PROVE SessionTypeOK'
  <2>1. /\ Fetch(state[t], cookie) \in Entry(StateAnswer, Sessions)
        /\ Fetch(settings[t], cookie) \in Entry({"private"}, Sessions)
    BY <1>t, EntryOperations DEF SessionTypeOK
  <2> QED
    BY <1>2, <1>t, <1>u, <2>1 DEF Focus, SessionTypeOK, serverVars
<1>3. ASSUME NEW t \in Tabs, NEW k \in Calls, NEW kind \in LoginKinds \cup {"logout"},
             Send(t, k, kind), form' \in [Tabs -> Calls \cup {None}]
      PROVE  SessionTypeOK'
  <2>1. call' \in [Calls -> Call]
    BY <1>3, <1>t DEF Send, SessionTypeOK, Call, NoCall
  <2> QED
    BY <1>3, <2>1 DEF Send, SessionTypeOK, serverVars
<1>4. ASSUME NEW t \in Tabs, NEW k \in Calls, Submit(t, k) PROVE SessionTypeOK'
  <2>1. form' \in [Tabs -> Calls \cup {None}]
    BY <1>4 DEF Submit, SessionTypeOK
  <2> QED
    BY <1>4, <1>3, <2>1 DEF Submit
<1>5. ASSUME NEW t \in Tabs, NEW k \in Calls, Logout(t, k) PROVE SessionTypeOK'
  BY <1>5, <1>3 DEF Logout, SessionTypeOK
<1>6. ASSUME NEW t \in Tabs, ServeState(t) PROVE SessionTypeOK'
  <2> DEFINE a == [setup |-> ~admin, auth |-> admin /\ Live(state[t].val)]
  <2>1. a \in StateAnswer
    BY DEF StateAnswer, SessionTypeOK, Live
  <2>2. Read(state[t], a) \in Entry(StateAnswer, Sessions)
    BY <1>t, <2>1, EntryOperations
  <2>3. Swept(state[t].val) \in [Sessions -> {"unused", "live", "expired", "gone"}]
    BY DEF Swept, SessionTypeOK
  <2> QED
    BY <1>6, <2>2, <2>3 DEF ServeState, SessionTypeOK
<1>7. ASSUME NEW k \in Calls, NEW m \in {"done", "refused"},
             NEW s \in Sessions \cup {None}, Answer(k, m, s)
      PROVE  call' \in [Calls -> Call]
  BY <1>7, CallUpdates DEF Answer, SessionTypeOK
<1>8. ASSUME NEW k \in Calls, ServeSetup(k) PROVE SessionTypeOK'
  <2>1. call' \in [Calls -> Call]
    BY <1>7, <1>8 DEF ServeSetup, CreateSession
  <2>2. status' \in [Sessions -> {"unused", "live", "expired", "gone"}]
    BY <1>8 DEF ServeSetup, CreateSession, SessionTypeOK
  <2> QED
    BY <1>8, <1>u, <2>1, <2>2 DEF ServeSetup, SessionTypeOK, tabVars
<1>9. ASSUME NEW k \in Calls, ServeLogin(k) PROVE SessionTypeOK'
  <2>1. call' \in [Calls -> Call]
    BY <1>7, <1>9 DEF ServeLogin, CreateSession
  <2> QED
    BY <1>9, <2>1 DEF ServeLogin, CreateSession, SessionTypeOK, tabVars
<1>10. ASSUME NEW k \in Calls, ServeLogout(k) PROVE SessionTypeOK'
  <2>1. call' \in [Calls -> Call]
    BY <1>7, <1>10 DEF ServeLogout, EndSessionOfCookie
  <2> QED
    BY <1>10, <2>1 DEF ServeLogout, EndSessionOfCookie, SessionTypeOK, tabVars
<1>11. ASSUME NEW k \in Calls, Refuse(k) PROVE SessionTypeOK'
  <2>1. call' \in [Calls -> Call]
    BY <1>7, <1>11 DEF Refuse
  <2>2. status' \in [Sessions -> {"unused", "live", "expired", "gone"}]
    BY <1>11, CallFields DEF Refuse, Swept, SessionTypeOK
  <2> QED
    BY <1>11, <1>u, <2>1, <2>2 DEF Refuse, SessionTypeOK, tabVars
<1>12. ASSUME NEW s \in Sessions, Expire(s) PROVE SessionTypeOK'
  BY <1>12, <1>u DEF Expire, SessionTypeOK, tabVars
<1>13. ASSUME NEW t \in Tabs, NEW q \in Entry(StateAnswer, Sessions), StateIs(t, q),
              upsets' \in 0..MaxUpsets
       PROVE  SessionTypeOK'
  <2>1. cookie' \in Sessions \cup {None}
    BY <1>13 DEF StateIs, SessionTypeOK
  <2>2. /\ stored' \in [Tabs -> Sessions \cup {None}]
        /\ state' \in [Tabs -> Entry(StateAnswer, Sessions)]
        /\ settings' \in [Tabs -> Entry({"private"}, Sessions)]
        /\ form' \in [Tabs -> Calls \cup {None}]
    BY <1>13, <1>t, <2>1, RenderType DEF StateIs
  <2> QED
    BY <1>13, <2>2 DEF StateIs, SessionTypeOK, serverVars
<1>14. ASSUME NEW t \in Tabs, ArriveState(t) PROVE SessionTypeOK'
  <2>1. Arrived(state[t]) \in Entry(StateAnswer, Sessions)
    <3>1. state[t].val \in StateAnswer
      BY <1>14 DEF ArriveState, Answers
    <3> QED
      BY <1>t, <3>1, EntryOperations
  <2> QED
    BY <1>13, <1>14, <2>1 DEF ArriveState, SessionTypeOK
<1>15. ASSUME NEW t \in Tabs, FailState(t) PROVE SessionTypeOK'
  <2>1. Failed(state[t]) \in Entry(StateAnswer, Sessions)
    BY <1>t, EntryOperations
  <2> QED
    BY <1>13, <1>15, <1>u, <2>1 DEF FailState
<1>16. ASSUME NEW t \in Tabs, ArriveSettings(t) PROVE SessionTypeOK'
  <2> DEFINE a == IF Live(settings[t].val) THEN "private" ELSE Refused
  <2>1. Arrived(Read(settings[t], a)) \in Entry({"private"}, Sessions)
    <3>1. a \in {"private"} \cup {Refused}
      OBVIOUS
    <3>2. settings[t].step = "sent"
      BY <1>16 DEF ArriveSettings
    <3> HIDE DEF a
    <3> QED
      BY <1>t, <3>1, <3>2, EntryOperations
  <2>2. Swept(settings[t].val) \in [Sessions -> {"unused", "live", "expired", "gone"}]
    BY DEF Swept, SessionTypeOK
  <2> QED
    BY <1>16, <2>1, <2>2 DEF ArriveSettings, SettingsAre, SessionTypeOK
<1>17. ASSUME NEW t \in Tabs, FailSettings(t) PROVE SessionTypeOK'
  <2>1. Failed(settings[t]) \in Entry({"private"}, Sessions)
    BY <1>t, EntryOperations
  <2> QED
    BY <1>17, <1>u, <2>1 DEF FailSettings, SettingsAre, SessionTypeOK
<1>18. ASSUME NEW k \in Calls, Taken(k) PROVE call' \in [Calls -> Call]
  BY <1>18, CallUpdates DEF Taken, SessionTypeOK
<1>19. ASSUME NEW k \in Calls, ArriveLogin(k) PROVE SessionTypeOK'
  <2>1. call' \in [Calls -> Call]
    BY <1>18, <1>19 DEF ArriveLogin
  <2>2. cookie' \in Sessions \cup {None}
    BY <1>19, CallFields DEF ArriveLogin, SessionTypeOK
  <2>3. CASE call[k].tab = None
    BY <1>19, <2>1, <2>2, <2>3 DEF ArriveLogin, tabVars, serverVars, SessionTypeOK
  <2>4. CASE call[k].tab # None
    <3> DEFINE t == call[k].tab
               q == IF state[t].step \in {"stuck", "cut"} THEN NewEntry ELSE state[t]
    <3>1. t \in Tabs /\ call[k].session \in Sessions \cup {None}
      BY <2>4, CallFields DEF SessionTypeOK
    <3>2. q \in Entry(StateAnswer, Sessions)
      BY <1>t, <1>n, <3>1
    <3> HIDE DEF q
    <3>3. Refetch(q, cookie') \in Entry(StateAnswer, Sessions)
      BY <2>2, <3>2, EntryOperations
    <3>4. Render(t, call[k].session, Refetch(q, cookie'), settings[t], None)
      BY <1>19, <2>4 DEF ArriveLogin, EnterSession, q
    <3>5. /\ stored' \in [Tabs -> Sessions \cup {None}]
          /\ state' \in [Tabs -> Entry(StateAnswer, Sessions)]
          /\ settings' \in [Tabs -> Entry({"private"}, Sessions)]
          /\ form' \in [Tabs -> Calls \cup {None}]
      BY <1>t, <2>2, <3>1, <3>3, <3>4, RenderType
    <3> QED
      BY <1>19, <2>1, <2>2, <3>5 DEF ArriveLogin, serverVars, SessionTypeOK
  <2> QED
    BY <2>3, <2>4
<1>20. ASSUME NEW k \in Calls, LoginFails(k) PROVE SessionTypeOK'
  <2>1. call' \in [Calls -> Call]
    BY <1>18, <1>20 DEF LoginFails
  <2>2. cookie' \in Sessions \cup {None}
    BY <1>20, CallFields DEF LoginFails, SessionTypeOK
  <2> QED
    BY <1>20, <1>t, <1>u, <2>1, <2>2 DEF LoginFails, FormWithout, serverVars, SessionTypeOK
<1>21. ASSUME NEW k \in Calls, LogoutSettles(k) PROVE SessionTypeOK'
  <2>1. call' \in [Calls -> Call]
    BY <1>18, <1>21 DEF LogoutSettles
  <2>2. cookie' \in Sessions \cup {None} /\ upsets' \in 0..MaxUpsets
    BY <1>21, <1>u DEF LogoutSettles, SessionTypeOK
  <2>3. CASE call[k].tab = None
    BY <1>21, <2>1, <2>2, <2>3 DEF LogoutSettles, tabVars, serverVars, SessionTypeOK
  <2>4. CASE call[k].tab # None
    <3> DEFINE t == call[k].tab
    <3>1. t \in Tabs
      BY <2>4, CallFields DEF SessionTypeOK
    <3>2. LeaveSession(t)
      BY <1>21, <2>4 DEF LogoutSettles
    <3> HIDE DEF t
    <3>3. /\ Sent(NewEntry, cookie') \in Entry(StateAnswer, Sessions)
          /\ Dropped(state[t]) \in Entry(StateAnswer, Sessions)
      BY <1>t, <2>2, <3>1, EntryOperations
    <3>4. crossed' \in [Tabs -> BOOLEAN]
      BY <3>2 DEF LeaveSession, SessionTypeOK
    <3>5. /\ stored' \in [Tabs -> Sessions \cup {None}]
          /\ state' \in [Tabs -> Entry(StateAnswer, Sessions)]
          /\ settings' \in [Tabs -> Entry({"private"}, Sessions)]
          /\ form' \in [Tabs -> Calls \cup {None}]
      <4>1. CASE stored[t] # None
        BY <1>n, <2>2, <3>1, <3>2, <3>3, <4>1, RenderType DEF LeaveSession
      <4>2. CASE stored[t] = None
        BY <1>t, <1>n, <2>2, <3>1, <3>2, <3>3, <4>2, RenderType DEF LeaveSession
      <4> QED
        BY <4>1, <4>2
    <3> QED
      BY <1>21, <2>1, <2>2, <3>4, <3>5 DEF LogoutSettles, serverVars, SessionTypeOK
  <2> QED
    BY <2>3, <2>4
<1>22. CASE UNCHANGED vars
  BY <1>22 DEF vars, serverVars, tabVars, SessionTypeOK
<1> QED
  BY <1>1, <1>2, <1>4, <1>5, <1>6, <1>8, <1>9, <1>10, <1>11, <1>12, <1>14, <1>15,
     <1>16, <1>17, <1>19, <1>20, <1>21, <1>22
     DEF Next, User, QueryStep, CallStep

-----------------------------------------------------------------------------
(* Everything of the invariant but the types.                              *)
Facts ==
    /\ LogoutForgets /\ Ended /\ Used /\ Fresh /\ Pending /\ Answers /\ Shown
    /\ Forms

(* The user: nothing he does takes a session or an answer.                 *)
LEMMA UserStep ==
    ASSUME SessionInv, User
    PROVE  Facts'
<1> USE SessionAssumption, QueryAssumption DEF SessionInv
<1>1. ASSUME NEW t \in Tabs, NEW s \in Sessions \cup {None}, PageLoad(t, s)
      PROVE  Facts'
  <2> USE <1>1 DEF PageLoad, serverVars
  <2>0. /\ \A k \in Calls : /\ call'[k].kind = call[k].kind /\ call'[k].step = call[k].step
                            /\ call'[k].csrf = call[k].csrf
                            /\ call'[k].session = call[k].session
                            /\ call'[k].tab = IF call[k].tab = t THEN None ELSE call[k].tab
        /\ \A u \in Tabs : stored'[u] = IF u = t THEN s ELSE stored[u]
        /\ \A u \in Tabs : u # t => /\ state'[u] = state[u] /\ settings'[u] = settings[u]
                                     /\ crossed'[u] = crossed[u]
        /\ state'[t] = Sent(NewEntry, cookie) /\ settings'[t] = NewEntry
    BY CallFields DEF SessionTypeOK, Call
  <2>1. LogoutForgets'
    BY <2>0 DEF LogoutForgets
  <2>2. Ended'
    BY <2>0 DEF Ended
  <2>3. Used' /\ Fresh'
    BY <2>0 DEF Used, Fresh
  <2>4. Pending'
    BY <2>0, CallFields DEF Pending, SessionTypeOK
  <2>5. /\ Sent(NewEntry, cookie).step = "sent"
        /\ Sent(NewEntry, cookie).val = cookie
    BY DEF Sent, NewEntry
  <2>6. Answers' /\ Shown'
    BY <2>0, <2>5 DEF Answers, Shown, ShownIn, Live
  <2>7. Forms'
    BY <2>0, <2>5 DEF Forms, Screen, LoginsOf, SessionTypeOK
  <2> QED
    BY <2>1, <2>2, <2>3, <2>4, <2>6, <2>7 DEF Facts
<1>2. ASSUME NEW t \in Tabs, Focus(t) PROVE Facts'
  <2> USE <1>2 DEF Focus, serverVars
  <2>0. /\ \A u \in Tabs : u # t => state'[u] = state[u] /\ settings'[u] = settings[u]
        /\ state'[t] = Fetch(state[t], cookie)
        /\ stored[t] = None => settings'[t] = settings[t]
    BY DEF SessionTypeOK, Authenticated
  <2>1. LogoutForgets'
    BY <2>0 DEF LogoutForgets
  <2>2. Ended' /\ Used' /\ Fresh'
    BY DEF Ended, Used, Fresh
  <2>3. Fetch(state[t], cookie).data = state[t].data
    BY DEF Fetch, Sent, SessionTypeOK, Entry
  <2>4. Pending'
    BY <2>0, <2>3, CallFields DEF Pending, SessionTypeOK
  <2>5. Answers' /\ Shown'
    BY <2>0 DEF Answers, Shown, ShownIn, Fetch, Sent, Live, SessionTypeOK, Entry
  <2>6. /\ Fetch(state[t], cookie).step \in {"stuck", "cut"} =>
             Fetch(state[t], cookie) = state[t]
        /\ form'[t] # None => form'[t] = form[t] /\ Screen(t)' \in LoginKinds
        /\ Screen(t) \in LoginKinds /\ state'[t] = state[t] => form'[t] = form[t]
        /\ \A u \in Tabs : u # t => form'[u] = form[u] /\ Screen(u)' = Screen(u)
    BY <2>0 DEF Fetch, Sent, Screen, SessionTypeOK, Entry
  <2>7. Forms'
    BY <2>0, <2>6 DEF Forms, LoginsOf, SessionTypeOK
  <2> QED
    BY <2>1, <2>2, <2>4, <2>5, <2>7 DEF Facts
<1>3. ASSUME NEW t \in Tabs, NEW k \in Calls, NEW kind \in LoginKinds \cup {"logout"},
             Send(t, k, kind), kind \in LoginKinds => state[t].data # None,
             \/ kind = "logout" /\ UNCHANGED form
             \/ /\ Screen(t) \in LoginKinds /\ form[t] = None
                /\ form' = [form EXCEPT ![t] = k]
      PROVE  Facts'
  <2> USE <1>3 DEF Send, serverVars
  <2>0. /\ \A j \in Calls : j # k => call'[j] = call[j]
        /\ call'[k].kind = kind /\ call'[k].tab = t /\ call'[k].step = "sent"
        /\ call'[k].session = None
    BY DEF SessionTypeOK, NoCall
  <2>1. LogoutForgets' /\ Used' /\ Answers' /\ Shown'
    BY DEF LogoutForgets, Used, Answers, Shown, ShownIn, Live
  <2>2. Ended'
    BY <2>0 DEF Ended
  <2>3. Fresh'
    BY <2>0 DEF Fresh, NoCall
  <2>4. Pending'
    BY <2>0 DEF Pending
  <2>5. Forms'
    <3>1. \A u \in Tabs : Screen(u)' = Screen(u)
      BY DEF Screen
    <3>2. \A u \in Tabs : LoginsOf(u)' \subseteq LoginsOf(u) \cup {k}
      BY <2>0 DEF LoginsOf
    <3>3. \A u \in Tabs : u # t \/ kind = "logout" => LoginsOf(u)' \subseteq LoginsOf(u)
      BY <2>0 DEF LoginsOf, LoginKinds
    <3>4. CASE UNCHANGED form /\ kind = "logout"
      BY <3>1, <3>3, <3>4 DEF Forms
    <3>5. CASE /\ Screen(t) \in LoginKinds /\ form[t] = None
               /\ form' = [form EXCEPT ![t] = k]
      <4>1. ASSUME state[t].step \in {"stuck", "cut"}, ~crossed[t]
            PROVE  LoginsOf(t)' \subseteq {k}
        <5>1. \A j \in LoginsOf(t) : j = None /\ j \in Calls
          BY <3>5, <4>1 DEF Forms, LoginsOf
        <5> QED
          BY <3>2, <5>1
      <4>2. \A u \in Tabs : form'[u] = IF u = t THEN k ELSE form[u]
        BY <3>5 DEF SessionTypeOK
      <4> QED
        BY <3>1, <3>3, <3>5, <4>1, <4>2 DEF Forms
    <3> QED
      BY <1>3, <3>4, <3>5
  <2> QED
    BY <2>1, <2>2, <2>3, <2>4, <2>5 DEF Facts
<1>4. ASSUME NEW t \in Tabs, NEW k \in Calls, Submit(t, k) PROVE Facts'
  <2>1. Screen(t) \in LoginKinds /\ Send(t, k, Screen(t))
    BY <1>4 DEF Submit
  <2>2. state[t].data # None
    BY <2>1 DEF Screen, ScreenOf, LoginKinds
  <2> QED
    BY <1>3, <1>4, <2>1, <2>2 DEF Submit
<1>5. ASSUME NEW t \in Tabs, NEW k \in Calls, Logout(t, k) PROVE Facts'
  BY <1>3, <1>5 DEF Logout, LoginKinds
<1> QED
  BY <1>1, <1>2, <1>4, <1>5 DEF User

(* A session that ends, or is found expired, stays used; the live ones     *)
(* that remain were live before.                                           *)
LEMMA SweptStatus ==
    ASSUME SessionInv, NEW s
    PROVE  /\ \A u \in Sessions : Swept(s)[u] = "unused" <=> status[u] = "unused"
           /\ \A u \in Sessions : Swept(s)[u] = "live" <=> status[u] = "live"
           /\ \A u \in Sessions : status[u] = "gone" => Swept(s)[u] = "gone"
BY DEF SessionInv, SessionTypeOK, Swept

(* The state is read, arrives or fails; the settings do.                   *)
LEMMA QueryFacts ==
    ASSUME SessionInv, NEW t \in Tabs, QueryStep(t)
    PROVE  Facts'
<1> USE SessionAssumption, QueryAssumption DEF SessionInv
<1>t. /\ state[t] \in Entry(StateAnswer, Sessions) /\ stored[t] \in Sessions \cup {None}
      /\ settings[t] \in Entry({"private"}, Sessions)
  BY DEF SessionTypeOK
<1>s. ASSUME NEW s, status' = Swept(s),
             UNCHANGED <<admin, cookie, stored, call, crossed>>
      PROVE  Ended' /\ Used' /\ Fresh'
  BY <1>s, SweptStatus, CallFields DEF Ended, Used, Fresh, SessionTypeOK
<1>1. CASE ServeState(t)
  <2> USE <1>1 DEF ServeState
  <2> DEFINE a == [setup |-> ~admin, auth |-> admin /\ Live(state[t].val)]
  <2>0. /\ \A u \in Tabs : u # t => state'[u] = state[u]
        /\ state'[t] = Read(state[t], a) /\ a \in StateAnswer
    BY DEF SessionTypeOK, StateAnswer, Live
  <2>1. LogoutForgets'
    BY DEF LogoutForgets
  <2>2. Ended' /\ Used' /\ Fresh'
    BY <1>s
  <2>3. Read(state[t], a).data = state[t].data
    BY <1>t DEF Read, Entry
  <2>4. Pending'
    BY <2>0, <2>3, CallFields DEF Pending, SessionTypeOK
  <2>5. Answers'
    BY <1>t, <2>0 DEF Answers, Read, Entry
  <2>6. Live(cookie)' => Live(cookie)
    BY SweptStatus DEF Live, SessionTypeOK
  <2>7. Live(cookie) => admin
    BY DEF Live, Used, SessionTypeOK
  <2>8. Read(state[t], a).step = "read" /\ Read(state[t], a).val = a
    BY <1>t DEF Read, Entry
  <2>9. state[t].val = cookie /\ Live(cookie) => a = In
    BY <2>7 DEF In, Live
  <2> HIDE DEF a
  <2>10. ShownIn(t)'
    BY <2>0, <2>6, <2>8, <2>9 DEF Shown, ShownIn
  <2>11. Shown'
    BY <2>0, <2>6, <2>10 DEF Shown, ShownIn
  <2>12. Screen(t)' = Screen(t) /\ \A u \in Tabs : u # t => Screen(u)' = Screen(u)
    <3>1. /\ Read(state[t], a).data = state[t].data
          /\ Read(state[t], a).failed = state[t].failed
      BY <1>t DEF Read, Entry
    <3> QED
      BY <2>0, <2>8, <3>1 DEF Screen, ScreenOf, IsLoading, Authenticated, Flying
  <2>13. Forms'
    BY <2>0, <2>8, <2>12 DEF Forms, LoginsOf
  <2> QED
    BY <2>1, <2>2, <2>4, <2>5, <2>11, <2>13 DEF Facts
<1>2. ASSUME NEW q, StateIs(t, q), q.step = "idle",
             state[t].data # None => q.data # None,
             ShownIn(t) => \/ q.failed \/ q.data = In
                           \/ ~(stored[t] # None /\ cookie = stored[t] /\ Live(cookie)
                                /\ ~crossed[t])
      PROVE  Facts'
  <2> USE <1>2 DEF StateIs, serverVars
  <2>0. /\ \A u \in Tabs : u # t => state'[u] = state[u] /\ settings'[u] = settings[u]
        /\ state'[t] = q /\ \A u \in Tabs : stored'[u] = stored[u]
        /\ stored[t] = None => settings'[t] = settings[t]
    BY DEF Render, SessionTypeOK, Authenticated
  <2>1. LogoutForgets'
    BY <2>0 DEF LogoutForgets
  <2>2. Ended' /\ Used' /\ Fresh'
    BY <2>0 DEF Ended, Used, Fresh
  <2>3. Pending'
    BY <2>0, CallFields DEF Pending, SessionTypeOK
  <2>4. Answers' /\ Shown'
    BY <2>0 DEF Answers, Shown, ShownIn, Live
  <2>5. /\ form'[t] # None => Screen(t)' \in LoginKinds
        /\ \A u \in Tabs : u # t => form'[u] = form[u] /\ Screen(u)' = Screen(u)
    BY <2>0 DEF Render, Screen, SessionTypeOK
  <2>6. Forms'
    BY <2>0, <2>5 DEF Forms, LoginsOf
  <2> QED
    BY <2>1, <2>2, <2>3, <2>4, <2>6 DEF Facts
<1>3. CASE ArriveState(t)
  <2>1. state[t].step = "read" /\ state[t].val \in StateAnswer
    BY <1>3 DEF ArriveState, Answers
  <2>2. \/ Arrived(state[t]) = Failed(state[t])
        \/ Arrived(state[t]) = Accepted(state[t])
    BY DEF Arrived
  <2>3. state[t].val # None
    BY <2>1
  <2>4. /\ Arrived(state[t]).step = "idle"
        /\ state[t].data # None => Arrived(state[t]).data # None
        /\ Arrived(state[t]).failed \/ Arrived(state[t]).data = state[t].val
    <3>1. /\ Failed(state[t]).step = "idle" /\ Failed(state[t]).failed
          /\ Failed(state[t]).data = state[t].data
      BY <1>t DEF Failed, Entry
    <3>2. /\ Accepted(state[t]).step = "idle" /\ Accepted(state[t]).data = state[t].val
      BY DEF Accepted
    <3> QED
      BY <2>2, <2>3, <3>1, <3>2
  <2> QED
    BY <1>2, <1>3, <2>1, <2>4 DEF ArriveState, ShownIn
<1>4. CASE FailState(t)
  <2>1. /\ Failed(state[t]).step = "idle" /\ Failed(state[t]).failed
        /\ Failed(state[t]).data = state[t].data
    BY <1>t DEF Failed, Entry
  <2> QED
    BY <1>2, <1>4, <2>1 DEF FailState
<1>5. ASSUME NEW q, NEW s, settings[t].step = "sent",
             SettingsAre(t, q), status' = status \/ status' = Swept(s)
      PROVE  Facts'
  <2> USE <1>5 DEF SettingsAre
  <2>0. stored[t] # None
    BY DEF LogoutForgets, NewEntry
  <2>1. LogoutForgets'
    BY <2>0 DEF LogoutForgets, SessionTypeOK
  <2>2. Ended' /\ Used' /\ Fresh'
    BY <1>s DEF Ended, Used, Fresh
  <2>3. Pending' /\ Answers'
    BY DEF Pending, Answers
  <2>4. Live(cookie)' => Live(cookie)
    BY SweptStatus DEF Live, SessionTypeOK
  <2>5. Shown'
    BY <2>4 DEF Shown, ShownIn
  <2>6. Forms'
    BY DEF Forms, Screen, LoginsOf
  <2> QED
    BY <2>1, <2>2, <2>3, <2>5, <2>6 DEF Facts
<1>6. CASE ArriveSettings(t)
  BY <1>5, <1>6 DEF ArriveSettings
<1>7. CASE FailSettings(t)
  BY <1>5, <1>7 DEF FailSettings
<1> QED
  BY <1>1, <1>3, <1>4, <1>6, <1>7 DEF QueryStep

(* The fields of a call that is answered, or taken, and of the others.     *)
LEMMA AnswerFields ==
    ASSUME SessionInv, NEW k \in Calls, NEW m, NEW s, Answer(k, m, s)
    PROVE  /\ \A j \in Calls : j # k => call'[j] = call[j]
           /\ call'[k].kind = call[k].kind /\ call'[k].tab = call[k].tab
           /\ call'[k].csrf = call[k].csrf
           /\ call'[k].step = m /\ call'[k].session = s
BY DEF SessionInv, SessionTypeOK, Call, Answer

LEMMA TakenFields ==
    ASSUME SessionInv, NEW k \in Calls, Taken(k)
    PROVE  /\ \A j \in Calls : j # k => call'[j] = call[j]
           /\ call'[k].kind = "none" /\ call'[k].tab = None
           /\ call'[k].step = "idle" /\ call'[k].session = None
BY DEF SessionInv, SessionTypeOK, Taken, NoCall

(* The server answers a call, and a session expires.                       *)
LEMMA ServeFacts ==
    ASSUME SessionInv, NEW k \in Calls,
           ServeSetup(k) \/ ServeLogin(k) \/ ServeLogout(k) \/ Refuse(k)
    PROVE  Facts'
<1> USE SessionAssumption, QueryAssumption DEF SessionInv
<1>k. /\ call[k].kind \in LoginKinds \cup {"logout", "none"}
      /\ call[k].csrf \in Sessions \cup {None} /\ call[k].cookie \in Sessions \cup {None}
  BY CallFields DEF SessionTypeOK
<1>1. ASSUME NEW m, NEW s, Answer(k, m, s), UNCHANGED <<tabVars, crossed>>
      PROVE  LogoutForgets' /\ Pending' /\ Answers' /\ Forms'
  <2>1. LogoutForgets' /\ Answers'
    BY <1>1 DEF LogoutForgets, Answers, tabVars
  <2>2. Pending'
    BY <1>1, AnswerFields DEF Pending, tabVars
  <2>3. \A t \in Tabs : LoginsOf(t)' = LoginsOf(t) /\ Screen(t)' = Screen(t)
    BY <1>1, AnswerFields DEF LoginsOf, Screen, tabVars
  <2>4. Forms'
    BY <1>1, <2>3 DEF Forms, tabVars
  <2> QED
    BY <2>1, <2>2, <2>4
<1>2. ASSUME UNCHANGED <<cookie, tabVars, crossed>>, Live(cookie)' => Live(cookie)
      PROVE  Shown'
  BY <1>2 DEF Shown, ShownIn, tabVars
<1>3. ASSUME NEW s \in Sessions, CreateSession(k, s), call[k].kind \in LoginKinds,
             admin', UNCHANGED <<cookie, tabVars, crossed>>
      PROVE  Facts'
  <2>0. /\ status[s] = "unused" /\ status' = [status EXCEPT ![s] = "live"]
        /\ Answer(k, "done", s)
    BY <1>3 DEF CreateSession
  <2>1. Live(cookie)' => Live(cookie)
    BY <1>3, <2>0 DEF Live, Used, SessionTypeOK
  <2>2. Ended'
    BY <1>3, <2>0, AnswerFields DEF Ended, SessionTypeOK, LoginKinds
  <2>3. Used'
    BY <1>3, <2>0 DEF Used, SessionTypeOK, tabVars
  <2>4. Fresh'
    <3>1. \A j \in Calls \ {k} : call[j].session # s
      BY <2>0 DEF Fresh
    <3>2. cookie # s /\ \A t \in Tabs : stored[t] # s
      BY <2>0 DEF Used
    <3>3. \A j \in Calls : call[j].session \in Sessions \cup {None}
      BY CallFields DEF SessionTypeOK
    <3> QED
      BY <1>3, <2>0, <3>1, <3>2, <3>3, AnswerFields DEF Fresh, SessionTypeOK, tabVars
  <2> QED
    BY <1>1, <1>2, <1>3, <2>0, <2>1, <2>2, <2>3, <2>4 DEF Facts
<1>4. ASSUME NEW s, Answer(k, "refused", None), status' = Swept(s),
             admin' \in {admin, TRUE}, UNCHANGED <<cookie, tabVars, crossed>>
      PROVE  Facts'
  <2>1. Live(cookie)' => Live(cookie)
    BY <1>4, SweptStatus DEF Live, SessionTypeOK
  <2>2. Ended'
    <3>1. \A u \in Sessions : status[u] = "gone" => status'[u] = "gone"
      BY <1>4, SweptStatus
    <3> QED
      BY <1>4, <3>1, AnswerFields DEF Ended
  <2>3. Used'
    <3>1. \A u \in Sessions : status'[u] = "unused" <=> status[u] = "unused"
      BY <1>4, SweptStatus
    <3>2. admin => admin'
      BY <1>4
    <3>3. cookie' = cookie /\ stored' = stored
      BY <1>4 DEF tabVars
    <3> QED
      BY <3>1, <3>2, <3>3 DEF Used, SessionTypeOK
  <2>4. Fresh'
    <3>1. \A j \in Calls : call[j].session \in Sessions \cup {None}
      BY CallFields DEF SessionTypeOK
    <3> QED
      BY <1>4, <3>1, AnswerFields, SweptStatus DEF Fresh, tabVars
  <2> QED
    BY <1>1, <1>2, <1>4, <2>1, <2>2, <2>3, <2>4 DEF Facts
<1>n. status = Swept(None)
  BY DEF Swept
<1>5. CASE ServeSetup(k)
  <2>1. /\ call[k].kind \in LoginKinds /\ admin' = TRUE
        /\ UNCHANGED <<cookie, tabVars, crossed>>
    BY <1>5 DEF ServeSetup, Serving, LoginKinds
  <2>2. CASE \E s \in Sessions : CreateSession(k, s)
    BY <1>3, <2>1, <2>2
  <2>3. CASE Answer(k, "refused", None) /\ UNCHANGED status
    BY <1>4, <1>n, <2>1, <2>3
  <2> QED
    BY <1>5, <2>2, <2>3 DEF ServeSetup
<1>6. CASE ServeLogin(k)
  BY <1>3, <1>6 DEF ServeLogin, Serving, LoginKinds
<1>7. CASE ServeLogout(k)
  <2> DEFINE c == call[k].cookie
  <2>0. /\ call[k].csrf = c /\ c \in Sessions /\ status[c] = "live"
        /\ status' = [status EXCEPT ![c] = "gone"] /\ Answer(k, "done", None)
        /\ call[k].kind = "logout"
        /\ UNCHANGED <<admin, cookie, tabVars, crossed>>
    BY <1>7, <1>k DEF ServeLogout, EndSessionOfCookie, Live, Serving
  <2> HIDE DEF c
  <2>1. Live(cookie)' => Live(cookie)
    BY <2>0 DEF Live, SessionTypeOK
  <2>2. Ended'
    BY <2>0, AnswerFields DEF Ended, SessionTypeOK
  <2>3. Used'
    BY <2>0 DEF Used, SessionTypeOK, tabVars
  <2>4. Fresh'
    <3>1. \A j \in Calls : call[j].session \in Sessions \cup {None}
      BY CallFields DEF SessionTypeOK
    <3> QED
      BY <2>0, <3>1, AnswerFields DEF Fresh, SessionTypeOK, tabVars, LoginKinds
  <2> QED
    BY <1>1, <1>2, <2>0, <2>1, <2>2, <2>3, <2>4 DEF Facts
<1>8. CASE Refuse(k)
  <2>1. status' = Swept(call[k].cookie) \/ status' = Swept(None)
    BY <1>8, <1>n DEF Refuse
  <2> QED
    BY <1>4, <1>8, <2>1 DEF Refuse
<1> QED
  BY <1>5, <1>6, <1>7, <1>8

LEMMA ExpireFacts ==
    ASSUME SessionInv, NEW s \in Sessions, Expire(s)
    PROVE  Facts'
<1> USE SessionAssumption DEF SessionInv, Expire, tabVars
<1>1. LogoutForgets' /\ Pending' /\ Answers'
  BY DEF LogoutForgets, Pending, Answers
<1>2. Ended'
  BY DEF Ended, SessionTypeOK
<1>3. Used'
  BY DEF Used, SessionTypeOK
<1>4. Fresh'
  BY CallFields DEF Fresh, SessionTypeOK
<1>5. Shown'
  BY DEF Shown, ShownIn, Live, SessionTypeOK
<1>6. Forms'
  BY DEF Forms, Screen, LoginsOf
<1> QED
  BY <1>1, <1>2, <1>3, <1>4, <1>5, <1>6 DEF Facts

(* A login arrives: its tab sends a new request for the state, under the   *)
(* new session.                                                            *)
LEMMA ArriveLoginFacts ==
    ASSUME SessionInv, NEW k \in Calls, ArriveLogin(k)
    PROVE  Facts'
<1> USE SessionAssumption, QueryAssumption DEF SessionInv
<1> DEFINE s == call[k].session
           t == call[k].tab
<1>0. /\ call[k].kind \in LoginKinds /\ s \in Sessions /\ cookie' = s
      /\ t \in Tabs \cup {None} /\ Taken(k) /\ UNCHANGED <<serverVars, crossed>>
  BY CallFields DEF ArriveLogin, Fresh, SessionTypeOK
<1>1. /\ status[s] # "unused" /\ \A u \in Tabs : stored[u] # s
      /\ \A j \in Calls \ {k} : call[j].session # s
  BY <1>0 DEF Fresh
<1>2. CASE t = None
  <2> USE <1>0, <1>2 DEF serverVars, tabVars
  <2>0. UNCHANGED tabVars
    BY DEF ArriveLogin
  <2>1. LogoutForgets' /\ Answers'
    BY <2>0 DEF LogoutForgets, Answers
  <2>2. Ended' /\ Pending'
    BY <2>0, TakenFields DEF Ended, Pending, LoginKinds
  <2>3. Used' /\ Fresh'
    BY <1>1, <2>0, TakenFields DEF Used, Fresh, LoginKinds
  <2>4. Shown'
    BY <1>1, <2>0 DEF Shown, ShownIn
  <2>5. \A u \in Tabs : LoginsOf(u)' \subseteq LoginsOf(u) /\ Screen(u)' = Screen(u)
    BY <2>0, TakenFields DEF LoginsOf, Screen, LoginKinds
  <2>6. Forms'
    BY <2>0, <2>5 DEF Forms
  <2> QED
    BY <2>1, <2>2, <2>3, <2>4, <2>6 DEF Facts
<1>3. CASE t # None
  <2> DEFINE q == IF state[t].step \in {"stuck", "cut"} THEN NewEntry ELSE state[t]
  <2>0. t \in Tabs /\ Render(t, s, Refetch(q, s), settings[t], None)
    BY <1>0, <1>3 DEF ArriveLogin, EnterSession
  <2>t. state[t] \in Entry(StateAnswer, Sessions)
    BY <2>0 DEF SessionTypeOK
  <2>q. crossed[t] \/ Refetch(q, s) = Sent(q, s)
    <3>1. crossed[t] \/ state[t].data # None
      BY <1>0, <1>3 DEF Pending
    <3> QED
      BY <2>t, <3>1 DEF Refetch, NewEntry, Entry, Steps
  <2>d. /\ Sent(q, s).step = "sent" /\ Sent(q, s).val = s
        /\ Sent(q, s).data = q.data
        /\ Refetch(q, s) = q \/ Refetch(q, s) = Sent(q, s)
    BY <2>t DEF Refetch, Sent, NewEntry, Entry
  <2>a. Refetch(q, s).step = "read" => Refetch(q, s).val \in StateAnswer
    BY <2>0, <2>d DEF Answers, NewEntry
  <2>p. crossed[t] \/ state[t].data # None
    BY <1>0, <1>3 DEF Pending
  <2>1. /\ \A u \in Tabs : u # t => /\ state'[u] = state[u] /\ settings'[u] = settings[u]
                                    /\ stored'[u] = stored[u]
        /\ stored'[t] = s /\ state'[t] = Refetch(q, s)
    BY <2>0 DEF Render, SessionTypeOK
  <2> HIDE DEF s, t, q
  <2>2. LogoutForgets'
    BY <1>0, <2>1 DEF LogoutForgets
  <2>3. Answers'
    BY <2>1, <2>a DEF Answers
  <2>4. Ended'
    BY <1>0, TakenFields DEF Ended, serverVars
  <2>5. Used'
    BY <1>0, <1>1, <2>1 DEF Used, serverVars
  <2>6. Fresh'
    BY <1>0, <1>1, <2>1, TakenFields DEF Fresh, serverVars, LoginKinds
  <2>7. \A j \in Calls : call'[j].kind \in LoginKinds => j # k /\ call'[j] = call[j]
    BY <1>0, TakenFields DEF LoginKinds
  <2>8. Pending'
    <3>1. ASSUME NEW j \in Calls, call'[j].kind \in LoginKinds, call'[j].tab = t,
                 ~crossed[t]
          PROVE  state'[t].data # None
      <4>1. j # k /\ call[j].kind \in LoginKinds /\ call[j].tab = t
        BY <2>7, <3>1
      <4>2. k \in LoginsOf(t) /\ j \in LoginsOf(t)
        BY <1>0, <4>1 DEF LoginsOf, t
      <4>3. state[t].step \notin {"stuck", "cut"}
        BY <2>0, <3>1, <4>1, <4>2 DEF Forms
      <4> QED
        BY <2>1, <2>d, <2>p, <3>1, <4>3 DEF q
    <3> QED
      BY <1>0, <2>1, <2>7, <3>1, CallFields DEF Pending, SessionTypeOK
  <2>9. Shown'
    <3>1. \A u \in Tabs : u # t => stored'[u] # cookie'
      BY <1>0, <1>1, <2>1
    <3>2. ~crossed[t] => state'[t].step = "sent" /\ state'[t].val = cookie'
      BY <1>0, <2>1, <2>q, <2>d
    <3> QED
      BY <1>0, <3>1, <3>2 DEF Shown, ShownIn
  <2>10. Forms'
    <3>1. /\ form'[t] = None
          /\ \A u \in Tabs : u # t => form'[u] = form[u] /\ Screen(u)' = Screen(u)
      BY <2>0, <2>1 DEF Render, Screen, SessionTypeOK
    <3>2. ~crossed[t] => state'[t].step = "sent"
      BY <2>1, <2>q, <2>d
    <3>3. \A u \in Tabs : LoginsOf(u)' \subseteq LoginsOf(u)
      BY <2>7 DEF LoginsOf
    <3> QED
      BY <1>0, <2>1, <3>1, <3>2, <3>3 DEF Forms
  <2> QED
    BY <2>2, <2>3, <2>4, <2>5, <2>6, <2>8, <2>9, <2>10 DEF Facts
<1> QED
  BY <1>2, <1>3

(* A login that fails sets no more than a cookie no tab knows.             *)
LEMMA LoginFailsFacts ==
    ASSUME SessionInv, NEW k \in Calls, LoginFails(k)
    PROVE  Facts'
<1> USE SessionAssumption, QueryAssumption DEF SessionInv
<1>0. /\ UNCHANGED <<serverVars, stored, state, settings, crossed>> /\ Taken(k)
      /\ \/ cookie' = cookie
         \/ cookie' = call[k].session /\ call[k].session # None
      /\ \A t \in Tabs : form'[t] = IF form[t] = k THEN None ELSE form[t]
  BY DEF LoginFails, Fresh, FormWithout
<1> USE <1>0 DEF serverVars
<1>1. LogoutForgets' /\ Answers'
  BY DEF LogoutForgets, Answers
<1>2. Ended' /\ Pending'
  BY TakenFields DEF Ended, Pending, LoginKinds
<1>3. Used'
  BY DEF Used, Fresh
<1>4. Fresh'
  BY TakenFields DEF Fresh, LoginKinds
<1>5. Shown'
  <2>1. CASE cookie' = cookie
    BY <2>1 DEF Shown, ShownIn, Live
  <2>2. CASE cookie' = call[k].session /\ call[k].session # None
    <3>1. \A t \in Tabs : stored[t] # cookie'
      BY <2>2 DEF Fresh
    <3> QED
      BY <3>1 DEF Shown, ShownIn
  <2> QED
    BY <2>1, <2>2
<1>6. \A t \in Tabs : Screen(t)' = Screen(t) /\ LoginsOf(t)' \subseteq LoginsOf(t) \ {k}
  BY TakenFields DEF Screen, LoginsOf, LoginKinds
<1>7. Forms'
  BY <1>6 DEF Forms
<1> QED
  BY <1>1, <1>2, <1>3, <1>4, <1>5, <1>7 DEF Facts

(* A logout settles: its tab has no session left to show.                  *)
LEMMA LogoutSettlesFacts ==
    ASSUME SessionInv, NEW k \in Calls, LogoutSettles(k)
    PROVE  Facts'
<1> USE SessionAssumption, QueryAssumption DEF SessionInv
<1>t. PICK t : t = call[k].tab
  OBVIOUS
<1>0. /\ Taken(k) /\ UNCHANGED serverVars /\ cookie' \in {cookie, None}
      /\ t \in Tabs \cup {None}
  BY <1>t, CallFields DEF LogoutSettles, SessionTypeOK
<1>l. \A u \in Tabs : LoginsOf(u)' \subseteq LoginsOf(u)
  BY <1>0, TakenFields DEF LoginsOf, LoginKinds
<1>1. CASE t = None
  <2> USE <1>0, <1>1 DEF serverVars, tabVars
  <2>0. UNCHANGED <<tabVars, crossed>>
    BY <1>t DEF LogoutSettles
  <2>1. LogoutForgets' /\ Answers'
    BY <2>0 DEF LogoutForgets, Answers
  <2>2. Ended' /\ Pending'
    BY <2>0, TakenFields DEF Ended, Pending, LoginKinds
  <2>3. Used' /\ Fresh'
    BY <2>0, TakenFields DEF Used, Fresh, LoginKinds
  <2>4. Shown'
    BY <2>0 DEF Shown, ShownIn, Live
  <2>5. \A u \in Tabs : Screen(u)' = Screen(u)
    BY <2>0 DEF Screen
  <2>6. Forms'
    BY <1>l, <2>0, <2>5 DEF Forms
  <2> QED
    BY <2>1, <2>2, <2>3, <2>4, <2>6 DEF Facts
<1>2. CASE t # None
  <2>0. t \in Tabs /\ LeaveSession(t)
    BY <1>t, <1>0, <1>2 DEF LogoutSettles
  <2>1. /\ \A u \in Tabs : u # t => /\ state'[u] = state[u] /\ settings'[u] = settings[u]
                                    /\ stored'[u] = stored[u] /\ form'[u] = form[u]
                                    /\ crossed'[u] = crossed[u]
        /\ stored'[t] = None
        /\ settings'[t] = NewEntry
        /\ form'[t] # None => form'[t] = form[t] /\ Screen(t)' \in LoginKinds
        /\ crossed'[t] = (LoginsOf(t) # {})
        /\ \/ state'[t] = Sent(NewEntry, cookie')
           \/ stored[t] = None /\ state'[t] = Dropped(state[t])
    <3>1. PICK q : /\ Render(t, None, q, NewEntry, IF stored[t] # None THEN None ELSE form[t])
                   /\ \/ q = Sent(NewEntry, cookie')
                      \/ stored[t] = None /\ q = Dropped(state[t])
      <4>1. CASE stored[t] # None
        BY <2>0, <4>1 DEF LeaveSession
      <4>2. CASE stored[t] = None
        BY <2>0, <4>2 DEF LeaveSession
      <4> QED
        BY <4>1, <4>2
    <3>2. crossed' = [crossed EXCEPT ![t] = LoginsOf(t) # {}] /\ crossed \in [Tabs -> BOOLEAN]
      BY <2>0 DEF LeaveSession, SessionTypeOK
    <3>3. /\ crossed'[t] = (LoginsOf(t) # {})
          /\ \A u \in Tabs : u # t => crossed'[u] = crossed[u]
      BY <2>0, <3>2, Zenon
    <3>4. /\ stored' = [stored EXCEPT ![t] = None]
          /\ state' = [state EXCEPT ![t] = q]
          /\ settings' = [settings EXCEPT ![t] = NewEntry]
      BY <3>1 DEF Render, Authenticated
    <3>5. form' = [form EXCEPT ![t] = IF ScreenOf(None, q) \in LoginKinds
                      THEN (IF stored[t] # None THEN None ELSE form[t]) ELSE None]
      BY <3>1 DEF Render
    <3>6. /\ stored \in [Tabs -> Sessions \cup {None}] /\ form \in [Tabs -> Calls \cup {None}]
          /\ state \in [Tabs -> Entry(StateAnswer, Sessions)]
          /\ settings \in [Tabs -> Entry({"private"}, Sessions)]
      BY DEF SessionTypeOK
    <3>7. \A u \in Tabs : u # t => /\ state'[u] = state[u] /\ settings'[u] = settings[u]
                                   /\ stored'[u] = stored[u] /\ form'[u] = form[u]
      BY <3>4, <3>5, <3>6
    <3>8. stored'[t] = None /\ settings'[t] = NewEntry /\ state'[t] = q
      BY <2>0, <3>4, <3>6
    <3>9. form'[t] # None => form'[t] = form[t] /\ ScreenOf(None, q) \in LoginKinds
      BY <2>0, <3>5, <3>6
    <3> QED
      BY <3>1, <3>3, <3>7, <3>8, <3>9 DEF Screen
  <2>2. LogoutForgets'
    BY <2>1 DEF LogoutForgets
  <2>3. state'[t].step # "read"
    BY <2>0, <2>1 DEF Sent, NewEntry, Dropped, SessionTypeOK, Entry, Flying, Steps
  <2>4. Answers'
    BY <2>1, <2>3 DEF Answers
  <2>5. Ended'
    BY <1>0, TakenFields DEF Ended, serverVars
  <2>6. Used'
    BY <1>0, <2>1 DEF Used, serverVars
  <2>7. Fresh'
    BY <1>0, <2>1, TakenFields DEF Fresh, serverVars, LoginKinds
  <2>8. Pending'
    <3>1. \A j \in Calls : call'[j].kind \in LoginKinds =>
             call'[j] = call[j] /\ (call[j].tab = t => j \in LoginsOf(t))
      BY <1>0, TakenFields DEF LoginKinds, LoginsOf
    <3>2. SUFFICES ASSUME NEW j \in Calls, call'[j].kind \in LoginKinds, call'[j].tab # None
                   PROVE  crossed'[call'[j].tab] \/ state'[call'[j].tab].data # None
      BY DEF Pending
    <3>3. CASE call[j].tab = t
      BY <2>1, <3>1, <3>2, <3>3
    <3>4. CASE call[j].tab # t
      <4>1. call[j].tab \in Tabs /\ call'[j] = call[j]
        BY <3>1, <3>2, CallFields DEF SessionTypeOK
      <4> QED
        BY <2>1, <3>2, <3>4, <4>1 DEF Pending
    <3> QED
      BY <3>3, <3>4
  <2>9. Shown'
    BY <1>0, <2>1 DEF Shown, ShownIn, Live, serverVars
  <2>10. Forms'
    <3>1. \A u \in Tabs : u # t => Screen(u)' = Screen(u)
      BY <2>1 DEF Screen
    <3>2. ~crossed'[t] => ~(\E j \in Calls : j \in LoginsOf(t)')
      <4>1. LoginsOf(t)' \subseteq LoginsOf(t)
        BY <1>l, <2>0
      <4> QED
        BY <2>1, <4>1
    <3>3. ASSUME NEW u \in Tabs, u # t
          PROVE  /\ form'[u] # None => Screen(u)' \in LoginKinds
                 /\ state'[u].step \in {"stuck", "cut"} /\ ~crossed'[u] =>
                      \A j \in LoginsOf(u)' : form'[u] = j
      BY <1>l, <2>1, <3>1, <3>3 DEF Forms
    <3>4. /\ form'[t] # None => Screen(t)' \in LoginKinds
          /\ ~crossed'[t] => \A j \in LoginsOf(t)' : form'[t] = j
      BY <2>1, <3>2 DEF LoginsOf
    <3> QED
      BY <3>3, <3>4 DEF Forms
  <2> QED
    BY <2>2, <2>4, <2>5, <2>6, <2>7, <2>8, <2>9, <2>10 DEF Facts
<1> QED
  BY <1>1, <1>2

-----------------------------------------------------------------------------
LEMMA SessionInit == Init => SessionInv
<1> SUFFICES ASSUME Init PROVE SessionInv
  OBVIOUS
<1> USE SessionAssumption, QueryAssumption DEF Init
<1>1. NewEntry \in Entry(StateAnswer, Sessions) /\ NewEntry \in Entry({"private"}, Sessions)
  BY DEF Entry, NewEntry, Steps, Flying
<1>2. /\ Sent(NewEntry, None) \in Entry(StateAnswer, Sessions)
      /\ Sent(NewEntry, None).step = "sent"
  <2>1. Sent(NewEntry, None) \in Entry(StateAnswer, Sessions)
    BY <1>1, EntryOperations
  <2> QED
    BY <2>1 DEF Sent, NewEntry
<1>3. SessionTypeOK
  BY <1>1, <1>2 DEF SessionTypeOK, Call, NoCall
<1>4. LogoutForgets /\ Ended /\ Used /\ Fresh /\ Pending /\ Answers /\ Shown /\ Forms
  BY <1>2 DEF LogoutForgets, Ended, Used, Fresh, Pending, Answers, Shown, ShownIn, Forms,
              NoCall, LoginKinds
<1> QED
  BY <1>3, <1>4 DEF SessionInv

LEMMA SessionStep == SessionInv /\ [Next]_vars => SessionInv'
<1> SUFFICES ASSUME SessionInv, [Next]_vars PROVE SessionInv'
  OBVIOUS
<1>1. SessionTypeOK'
  BY SessionTypeStep DEF SessionInv
<1>2. CASE Next
  <2>1. ASSUME NEW k \in Calls, CallStep(k) PROVE Facts'
    BY <2>1, ServeFacts, ArriveLoginFacts, LoginFailsFacts, LogoutSettlesFacts DEF CallStep
  <2>2. Facts'
    BY <1>2, <2>1, UserStep, QueryFacts, ExpireFacts DEF Next
  <2> QED
    BY <1>1, <2>2 DEF Facts, SessionInv
<1>3. CASE UNCHANGED vars
  BY <1>3 DEF vars, serverVars, tabVars, SessionInv, SessionTypeOK, LogoutForgets, Ended,
              Used, Fresh, Pending, Answers, Shown, ShownIn, Live, Forms, Screen, LoginsOf
<1> QED
  BY <1>2, <1>3

(* SessionInv holds of every reachable state.                              *)
THEOREM SessionInvariance == Spec => []SessionInv
BY SessionInit, SessionStep, PTL DEF Spec

(* The variables keep the types of SessionTypeOK.                          *)
THEOREM SessionTyping == Spec => []SessionTypeOK
<1>1. SessionInv => SessionTypeOK
  BY DEF SessionInv
<1> QED
  BY <1>1, SessionInvariance, PTL

(* A tab whose session has the cookie shows the panel (App.tsx:82-86).     *)
THEOREM LoggedInTabsShowThePanel == Spec => []LoggedInIsShown
<1>1. SessionInv => LoggedInIsShown
  <2> SUFFICES ASSUME SessionInv, NEW t \in Tabs,
                      stored[t] # None, cookie = stored[t], Live(cookie),
                      state[t].step = "idle", ~state[t].failed, ~crossed[t]
               PROVE  Screen(t) = "shell"
    BY DEF LoggedInIsShown
  <2>1. state[t].data = In
    BY DEF SessionInv, Shown, ShownIn
  <2>2. In # None /\ In.auth /\ ~In.setup
    <3>1. In \in StateAnswer /\ In.auth /\ ~In.setup
      BY DEF In, StateAnswer
    <3> QED
      BY <3>1, SessionAssumption
  <2>3. ~IsLoading(state[t])
    BY <2>1, <2>2 DEF IsLoading
  <2>4. Authenticated(stored[t], state[t])
    BY <2>1, <2>2 DEF Authenticated
  <2> QED
    BY <2>1, <2>2, <2>3, <2>4 DEF Screen, ScreenOf
<1> QED
  BY <1>1, SessionInvariance, PTL

(* A tab that has left keeps nothing it read (App.tsx:88-92).              *)
THEOREM LeavingForgets == Spec => []LogoutForgets
<1>1. SessionInv => LogoutForgets
  BY DEF SessionInv
<1> QED
  BY <1>1, SessionInvariance, PTL

(* Which sessions a step ends, and which logouts it confirms.              *)
EndedNow(s) == status[s] = "live" /\ status'[s] = "gone"
ConfirmedNow(k) == Serving(k, "logout") /\ call'[k].step = "done"

(* A request that finds an expired session sweeps that row alone.          *)
LEMMA SweptIsExpired ==
  ASSUME SessionTypeOK, NEW u, status' = Swept(u), NEW s \in Sessions
  PROVE  ~EndedNow(s)
  BY DEF EndedNow, Swept, SessionTypeOK

(* ServeLogout ends the session whose token it was given: it is that of    *)
(* the cookie.                                                             *)
LEMMA ServeLogoutEnds ==
  ASSUME SessionTypeOK, NEW k \in Calls, ServeLogout(k), NEW s \in Sessions
  PROVE  EndedNow(s) <=> \E j \in Calls : ConfirmedNow(j) /\ call[j].csrf = s
<1>1. /\ Serving(k, "logout") /\ call[k].csrf = call[k].cookie
      /\ Live(call[k].csrf)
      /\ status' = [status EXCEPT ![call[k].csrf] = "gone"]
      /\ call' = [call EXCEPT ![k].step = "done", ![k].session = None]
  BY DEF ServeLogout, EndSessionOfCookie, Answer
<1>2. call \in [Calls -> Call] /\ status \in [Sessions -> {"unused", "live", "expired", "gone"}]
  BY DEF SessionTypeOK
<1>3. call[k] \in Call
  BY <1>2
<1>4. call'[k].step = "done" /\ \A j \in Calls \ {k} : call'[j] = call[j]
  BY <1>1, <1>2, <1>3 DEF Call
<1>5. ConfirmedNow(k)
  BY <1>1, <1>4 DEF ConfirmedNow
<1>6. ASSUME NEW j \in Calls, ConfirmedNow(j) PROVE j = k
  BY <1>4, <1>6 DEF ConfirmedNow, Serving
<1>7. EndedNow(s) <=> s = call[k].csrf
  BY <1>1, <1>2 DEF EndedNow, Live
<1> QED
  BY <1>5, <1>6, <1>7

(* No other step ends a session that lives, or confirms a logout.          *)
LEMMA NothingElseEnds ==
  ASSUME SessionTypeOK, [Next]_vars, \A k \in Calls : ~ServeLogout(k)
  PROVE  /\ \A s \in Sessions : ~EndedNow(s)
         /\ \A k \in Calls : ~ConfirmedNow(k)
<1> DEFINE NoEnd == \A s \in Sessions : ~EndedNow(s)
           NoneConfirmed == \A k \in Calls : ~ConfirmedNow(k)
<1>t. /\ call \in [Calls -> Call]
      /\ status \in [Sessions -> {"unused", "live", "expired", "gone"}]
  BY DEF SessionTypeOK
<1>1. ASSUME status' = status PROVE NoEnd
  BY <1>1 DEF EndedNow
<1>2. ASSUME call' = call PROVE NoneConfirmed
  BY <1>2 DEF ConfirmedNow, Serving
<1>3. ASSUME NEW k \in Calls, NEW c, call' = [call EXCEPT ![k] = c], c.step # "done"
      PROVE  NoneConfirmed
  BY <1>t, <1>3 DEF ConfirmedNow, Serving
<1>4. ASSUME NEW k \in Calls, NEW step, NEW u, Answer(k, step, u),
             call[k].kind # "logout" \/ step = "refused"
      PROVE  NoneConfirmed
  <2>1. call[k] \in Call
    BY <1>t
  <2>2. call'[k].step = step /\ \A j \in Calls \ {k} : call'[j] = call[j]
    BY <1>t, <1>4, <2>1 DEF Answer, Call
  <2> QED
    BY <1>4, <2>2 DEF ConfirmedNow, Serving
<1>5. ASSUME NEW k \in Calls, NEW u, CreateSession(k, u) PROVE NoEnd
  BY <1>t, <1>5 DEF CreateSession, EndedNow
<1>6. ASSUME NEW t \in Tabs, NEW u, PageLoad(t, u) PROVE NoEnd /\ NoneConfirmed
  <2>1. \A k \in Calls : call'[k].step = call[k].step
    <3>1. call' = [k \in Calls |-> IF call[k].tab = t
                                   THEN [call[k] EXCEPT !.tab = None] ELSE call[k]]
      BY <1>6 DEF PageLoad
    <3>2. \A k \in Calls : call[k] \in Call
      BY <1>t
    <3> QED
      BY <3>1, <3>2 DEF Call
  <2>2. NoneConfirmed
    BY <2>1 DEF ConfirmedNow, Serving
  <2> QED
    BY <1>1, <1>6, <2>2 DEF PageLoad, serverVars
<1>7. ASSUME NEW t \in Tabs, Focus(t) PROVE NoEnd /\ NoneConfirmed
  BY <1>1, <1>2, <1>7 DEF Focus, serverVars
<1>8. ASSUME NEW t \in Tabs, NEW k \in Calls, NEW kind, Send(t, k, kind)
      PROVE  NoEnd /\ NoneConfirmed
  <2>1. /\ call' = [call EXCEPT ![k] = call'[k]] /\ call'[k].step = "sent"
    BY <1>t, <1>8 DEF Send, NoCall
  <2>2. NoneConfirmed
    BY <1>t, <2>1 DEF ConfirmedNow, Serving
  <2> QED
    BY <1>1, <1>8, <2>2 DEF Send, serverVars
<1>9. ASSUME NEW t \in Tabs, QueryStep(t) PROVE NoEnd /\ NoneConfirmed
  <2>1. call' = call
    BY <1>9 DEF QueryStep, ServeState, ArriveState, FailState, StateIs, ArriveSettings,
                FailSettings, SettingsAre
  <2>2. CASE ServeState(t)
    BY <1>2, <2>1, <2>2, SweptIsExpired DEF ServeState
  <2>3. CASE ArriveSettings(t)
    BY <1>2, <2>1, <2>3, SweptIsExpired DEF ArriveSettings
  <2>4. CASE ArriveState(t) \/ FailState(t) \/ FailSettings(t)
    <3>1. status' = status
      BY <2>4 DEF ArriveState, FailState, StateIs, serverVars, FailSettings
    <3> QED
      BY <1>1, <1>2, <2>1, <3>1
  <2> QED
    BY <1>9, <2>2, <2>3, <2>4 DEF QueryStep
<1>10. ASSUME NEW k \in Calls, ServeSetup(k) PROVE NoEnd /\ NoneConfirmed
  <2>1. call[k].kind # "logout"
    BY <1>10 DEF ServeSetup, Serving
  <2>2. CASE \E u \in Sessions : CreateSession(k, u)
    BY <1>4, <1>5, <2>1, <2>2 DEF CreateSession
  <2>3. CASE Answer(k, "refused", None) /\ UNCHANGED status
    BY <1>1, <1>4, <2>3
  <2> QED
    BY <1>10, <2>2, <2>3 DEF ServeSetup
<1>11. ASSUME NEW k \in Calls, ServeLogin(k) PROVE NoEnd /\ NoneConfirmed
  <2>1. call[k].kind # "logout"
    BY <1>11 DEF ServeLogin, Serving
  <2> QED
    BY <1>4, <1>5, <1>11, <2>1 DEF ServeLogin, CreateSession
<1>12. ASSUME NEW k \in Calls, Refuse(k) PROVE NoEnd /\ NoneConfirmed
  <2>1. NoneConfirmed
    BY <1>4, <1>12 DEF Refuse
  <2>2. status' = Swept(call[k].cookie) \/ status' = status
    BY <1>12 DEF Refuse
  <2> QED
    BY <1>1, <2>1, <2>2, SweptIsExpired
<1>13. ASSUME NEW k \in Calls, ArriveLogin(k) \/ LoginFails(k) \/ LogoutSettles(k)
       PROVE  NoEnd /\ NoneConfirmed
  <2>1. call' = [call EXCEPT ![k] = NoCall] /\ UNCHANGED status
    BY <1>13 DEF ArriveLogin, LoginFails, LogoutSettles, Taken, serverVars
  <2>2. NoCall.step # "done"
    BY DEF NoCall
  <2> QED
    BY <1>1, <1>3, <2>1, <2>2
<1>14. ASSUME NEW s \in Sessions, Expire(s) PROVE NoEnd /\ NoneConfirmed
  <2>1. call' = call
    BY <1>14 DEF Expire
  <2>2. NoEnd
    BY <1>t, <1>14 DEF Expire, EndedNow
  <2> QED
    BY <1>2, <2>1, <2>2
<1>15. ASSUME UNCHANGED vars PROVE NoEnd /\ NoneConfirmed
  BY <1>1, <1>2, <1>15 DEF vars, serverVars
<1>16. ASSUME User PROVE NoEnd /\ NoneConfirmed
  BY <1>6, <1>7, <1>8, <1>16 DEF User, Submit, Logout
<1>17. ASSUME NEW k \in Calls, CallStep(k) PROVE NoEnd /\ NoneConfirmed
  BY <1>10, <1>11, <1>12, <1>13, <1>17 DEF CallStep
<1> HIDE DEF NoEnd, NoneConfirmed
<1>18. NoEnd /\ NoneConfirmed
  <2>1. CASE \E t \in Tabs : QueryStep(t)
    BY <1>9, <2>1
  <2>2. CASE \E k \in Calls : CallStep(k)
    BY <1>17, <2>2
  <2>3. CASE \E s \in Sessions : Expire(s)
    BY <1>14, <2>3
  <2> QED
    BY <1>15, <1>16, <2>1, <2>2, <2>3 DEF Next
<1> QED
  BY <1>18 DEF NoEnd, NoneConfirmed

(* A session that lives is ended by the logout of a tab that has its token *)
(* and by nothing else; the server refuses one that carries the cookie of  *)
(* a newer session, which therefore survives (server.go:345-356).          *)
THEOREM ConfirmedLogoutEnds == Spec => LogoutEndsTheSession
<1> DEFINE Exact ==
      \A s \in Sessions :
        EndedNow(s) <=> \E k \in Calls : ConfirmedNow(k) /\ call[k].csrf = s
<1>1. ASSUME SessionInv, [Next]_vars PROVE Exact
  <2>1. SessionTypeOK
    BY <1>1 DEF SessionInv
  <2>2. CASE \E k \in Calls : ServeLogout(k)
    BY <2>1, <2>2, ServeLogoutEnds
  <2>3. CASE \A k \in Calls : ~ServeLogout(k)
    BY <1>1, <2>1, <2>3, NothingElseEnds
  <2> QED
    BY <2>2, <2>3
<1>2. Exact =>
        \A s \in Sessions :
          status[s] = "live" /\ status'[s] = "gone" <=>
            \E k \in Calls :
              Serving(k, "logout") /\ call[k].csrf = s /\ call'[k].step = "done"
  BY DEF EndedNow, ConfirmedNow
<1> HIDE DEF Exact
<1> QED
  BY <1>1, <1>2, SessionInvariance, PTL DEF Spec, LogoutEndsTheSession
=============================================================================
