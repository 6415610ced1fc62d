--------------------------- MODULE BrowserSession ---------------------------
(***************************************************************************)
(* Signing in and out of the panel with a browser: App, AuthScreen and the *)
(* logout of AdminShell (frontend/src/App.tsx) over session.ts and api.ts, *)
(* against the handlers of server.go and the sessions of auth.go.          *)
(*                                                                         *)
(* The tabs of a browser share one cookie; each keeps the CSRF token of    *)
(* its own session in sessionStorage.  A request carries the cookie of the *)
(* moment it is sent, and an answer sets or clears whatever cookie there   *)
(* is when it arrives.  A session stands for its cookie and its token.     *)
(***************************************************************************)
EXTENDS Naturals, QueryClient

CONSTANTS Tabs, Sessions, Calls,
          MaxUpsets  (* bound on what upsets the exchange: expiries,       *)
                     (* requests that fail, pages loaded again, windows    *)
                     (* that get the focus                                 *)

(* What the handler of the state answers with.                             *)
StateAnswer == [setup : BOOLEAN, auth : BOOLEAN]

ASSUME SessionAssumption ==
    /\ None \notin Tabs \cup Sessions \cup Calls
    /\ Refused \notin Sessions
    /\ None \notin StateAnswer /\ Refused \notin StateAnswer
    /\ MaxUpsets \in Nat

VARIABLES
  admin,    (* whether the first administrator exists                      *)
  status,   (* the row of each session                                     *)
  cookie,   (* the browser's session cookie                                *)
  stored,   (* per tab: the session in sessionStorage and in App's state   *)
  state,    (* per tab: the query ["state"]                                *)
  settings, (* per tab: the query ["settings"], read under a session       *)
  form,     (* per tab: the call AuthScreen waits for                      *)
  call,     (* requests on their way                                       *)
  upsets,
  crossed   (* history, per tab: it left while a login was on its way      *)

serverVars == <<admin, status>>
tabVars == <<stored, state, settings, form>>
vars == <<serverVars, cookie, tabVars, call, upsets, crossed>>

-----------------------------------------------------------------------------
NoCall == [kind |-> "none", tab |-> None, csrf |-> None, cookie |-> None,
           step |-> "idle", session |-> None]
LoginKinds == {"setup", "login"}
Call == [kind : LoginKinds \cup {"logout", "none"}, tab : Tabs \cup {None},
         csrf : Sessions \cup {None}, cookie : Sessions \cup {None},
         step : {"idle", "sent", "done", "refused"}, session : Sessions \cup {None}]

(* What App shows, for the session it has and the state it has read.       *)
Authenticated(s, q) == s # None /\ q.data # None /\ q.data.auth
ScreenOf(s, q) ==
    CASE IsLoading(q) -> "loading"
      [] ~IsLoading(q) /\ (q.failed \/ q.data = None) -> "error"
      [] ~IsLoading(q) /\ ~q.failed /\ q.data # None /\ q.data.setup -> "setup"
      [] OTHER -> IF Authenticated(s, q) THEN "shell" ELSE "login"
Screen(t) == ScreenOf(stored[t], state[t])

(* App is rendered with a session, a state query and a settings query: the *)
(* last is fetched as soon as it is enabled, and AuthScreen, once it is    *)
(* off the page, forgets the call it waits for.                            *)
Render(t, s, q, p, f) ==
    /\ stored' = [stored EXCEPT ![t] = s]
    /\ state' = [state EXCEPT ![t] = q]
    /\ settings' = [settings EXCEPT ![t] =
                      IF Authenticated(s, q) /\ ~Authenticated(stored[t], state[t])
                      THEN Fetch(p, cookie') ELSE p]
    /\ form' = [form EXCEPT ![t] = IF ScreenOf(s, q) \in LoginKinds THEN f ELSE None]

LoginsOf(t) == {k \in Calls : call[k].tab = t /\ call[k].kind \in LoginKinds}

(* The tab goes back to a login screen with an empty cache.  Without a     *)
(* session App's state does not change: App is not rendered, and watches   *)
(* the queries that have just been dropped.                                *)
StoreSession(t, s) == Render(t, s, state[t], settings[t], None)
EnterSession(t, s) ==
    LET attached == IF state[t].step \in {"stuck", "cut"} THEN NewEntry ELSE state[t]
    IN  Render(t, s, Refetch(attached, cookie'), settings[t], None)
LeaveKeepingCache(t) ==
    /\ Render(t, None, Refetch(state[t], cookie'), settings[t], form[t])
    /\ crossed' = [crossed EXCEPT ![t] = LoginsOf(t) # {}]
LeaveSession(t) ==
    /\ IF stored[t] # None
       THEN Render(t, None, Sent(NewEntry, cookie'), NewEntry, None)
       ELSE Render(t, None, Dropped(state[t]), NewEntry, form[t])
    /\ crossed' = [crossed EXCEPT ![t] = LoginsOf(t) # {}]

-----------------------------------------------------------------------------
Init ==
    /\ admin \in BOOLEAN
    /\ status = [s \in Sessions |-> "unused"]
    /\ cookie = None
    /\ stored = [t \in Tabs |-> None]
    /\ state = [t \in Tabs |-> Sent(NewEntry, None)]
    /\ settings = [t \in Tabs |-> NewEntry]
    /\ form = [t \in Tabs |-> None]
    /\ call = [k \in Calls |-> NoCall]
    /\ upsets = 0
    /\ crossed = [t \in Tabs |-> FALSE]

Upset == upsets < MaxUpsets /\ upsets' = upsets + 1

(* A page is opened anew, or reloaded, or as a copy of another tab, with   *)
(* its sessionStorage.  Nobody is left to take the answers on their way.   *)
PageLoad(t, s) ==
    /\ Upset
    /\ s \in {stored[u] : u \in Tabs} \cup {None}
    /\ stored' = [stored EXCEPT ![t] = s]
    /\ state' = [state EXCEPT ![t] = Sent(NewEntry, cookie)]
    /\ settings' = [settings EXCEPT ![t] = NewEntry]
    /\ form' = [form EXCEPT ![t] = None]
    /\ call' = [k \in Calls |-> IF call[k].tab = t
                                THEN [call[k] EXCEPT !.tab = None] ELSE call[k]]
    /\ crossed' = [crossed EXCEPT ![t] = FALSE]
    /\ UNCHANGED <<serverVars, cookie>>

(* The window gets the focus: the queries in use are fetched again.        *)
Focus(t) ==
    /\ Upset
    /\ state' = [state EXCEPT ![t] = Fetch(@, cookie)]
    /\ settings' = [settings EXCEPT ![t] =
                      IF Authenticated(stored[t], state[t]) THEN Fetch(@, cookie) ELSE @]
    /\ form' = [form EXCEPT ![t] =
                  IF ScreenOf(stored[t], state'[t]) \in LoginKinds THEN @ ELSE None]
    /\ UNCHANGED <<serverVars, cookie, stored, call, crossed>>

Send(t, k, kind) ==
    /\ call[k] = NoCall
    /\ call' = [call EXCEPT ![k] = [NoCall EXCEPT !.kind = kind, !.tab = t, !.step = "sent",
                                      !.csrf = IF kind = "logout" THEN stored[t] ELSE None,
                                      !.cookie = cookie]]
    /\ UNCHANGED <<upsets, serverVars, cookie, stored, state, settings, crossed>>

(* The button of the form is disabled while its call is on its way; that   *)
(* of the logout is not.                                                   *)
Submit(t, k) ==
    /\ Screen(t) \in LoginKinds /\ form[t] = None
    /\ form' = [form EXCEPT ![t] = k]
    /\ Send(t, k, Screen(t))
Logout(t, k) ==
    /\ Screen(t) = "shell"
    /\ Send(t, k, "logout")
    /\ UNCHANGED form

-----------------------------------------------------------------------------
(* The server.  A request with an expired session deletes its row.         *)
Live(s) == s # None /\ status[s] = "live"
Swept(s) == IF s # None /\ status[s] = "expired"
            THEN [status EXCEPT ![s] = "gone"] ELSE status

Answer(k, step, s) ==
    call' = [call EXCEPT ![k].step = step, ![k].session = s]

ServeState(t) ==
    /\ state[t].step = "sent"
    /\ state' = [state EXCEPT ![t] =
                   Read(@, [setup |-> ~admin, auth |-> admin /\ Live(@.val)])]
    /\ status' = Swept(state[t].val)
    /\ UNCHANGED <<upsets, admin, cookie, stored, settings, form, call, crossed>>

(* A new session: an id and a token nobody has had.                        *)
CreateSession(k, s) ==
    /\ status[s] = "unused"
    /\ status' = [status EXCEPT ![s] = "live"]
    /\ Answer(k, "done", s)

Serving(k, kind) == call[k].kind = kind /\ call[k].step = "sent"

(* The first administrator is committed before his session is created.     *)
ServeSetup(k) ==
    /\ Serving(k, "setup")
    /\ ~admin
    /\ admin' = TRUE
    /\ \/ (\E s \in Sessions : CreateSession(k, s)) /\ UNCHANGED upsets
       \/ Answer(k, "refused", None) /\ Upset /\ UNCHANGED status
    /\ UNCHANGED <<cookie, tabVars, crossed>>

ServeLogin(k) ==
    /\ Serving(k, "login")
    /\ admin
    /\ \E s \in Sessions : CreateSession(k, s)
    /\ UNCHANGED <<admin, cookie, tabVars, upsets, crossed>>

(* The session of the cookie is the one that ends, if the token is its.    *)
EndSessionOfCookie(k) ==
    /\ Serving(k, "logout")
    /\ Live(call[k].cookie)
    /\ status' = [status EXCEPT ![call[k].cookie] = "gone"]
    /\ Answer(k, "done", None)
    /\ UNCHANGED <<admin, cookie, tabVars, upsets, crossed>>
ServeLogout(k) == call[k].csrf = call[k].cookie /\ EndSessionOfCookie(k)

(* A setup that is complete, no session, the token of another session; or  *)
(* a wrong password, a limiter, a database that fails.                     *)
Acceptable(k) ==
    CASE call[k].kind = "setup" -> ~admin
      [] call[k].kind = "login" -> admin
      [] OTHER -> Live(call[k].cookie) /\ call[k].csrf = call[k].cookie
Refuse(k) ==
    /\ call[k].step = "sent"
    /\ Answer(k, "refused", None)
    /\ IF Acceptable(k) THEN Upset ELSE UNCHANGED upsets
    /\ status' = IF call[k].kind = "logout" THEN Swept(call[k].cookie) ELSE status
    /\ UNCHANGED <<admin, cookie, tabVars, crossed>>

(* The browser forgets a cookie when it expires, by its own clock.         *)
Expire(s) ==
    /\ Upset
    /\ status[s] = "live"
    /\ status' = [status EXCEPT ![s] = "expired"]
    /\ cookie' \in {cookie, IF cookie = s THEN None ELSE cookie}
    /\ UNCHANGED <<admin, tabVars, call, crossed>>

-----------------------------------------------------------------------------
(* Answers arrive.                                                         *)
StateIs(t, q) ==
    /\ UNCHANGED <<serverVars, cookie, call, crossed>>
    /\ Render(t, stored[t], q, settings[t], form[t])
ArriveState(t) ==
    state[t].step = "read" /\ StateIs(t, Arrived(state[t])) /\ UNCHANGED upsets
FailState(t) ==
    state[t].step \in Flying /\ StateIs(t, Failed(state[t])) /\ Upset

(* The settings are read and answered in one step: nothing asked of them   *)
(* depends on what falls between.                                          *)
SettingsAre(t, q) ==
    /\ settings' = [settings EXCEPT ![t] = q]
    /\ UNCHANGED <<admin, cookie, stored, state, form, call, crossed>>
ArriveSettings(t) ==
    /\ settings[t].step = "sent"
    /\ LET s == settings[t].val
       IN  /\ SettingsAre(t, Arrived(Read(settings[t], IF Live(s) THEN "private" ELSE Refused)))
           /\ status' = Swept(s)
    /\ UNCHANGED upsets
FailSettings(t) ==
    /\ settings[t].step = "sent"
    /\ SettingsAre(t, Failed(settings[t]))
    /\ Upset /\ UNCHANGED status

Taken(k) == call' = [call EXCEPT ![k] = NoCall]
FormWithout(t, k) == IF form[t] = k THEN None ELSE form[t]

ArriveLogin(k) ==
    /\ call[k].kind \in LoginKinds /\ call[k].step = "done"
    /\ Taken(k)
    /\ cookie' = call[k].session
    /\ IF call[k].tab = None THEN UNCHANGED tabVars
       ELSE EnterSession(call[k].tab, call[k].session)
    /\ UNCHANGED <<serverVars, upsets, crossed>>

(* A login refused, or whose answer is lost, in whole or after its cookie, *)
(* leaves the form with an error.                                          *)
LoginFails(k) ==
    /\ call[k].kind \in LoginKinds
    /\ Taken(k)
    /\ IF call[k].step = "refused" THEN UNCHANGED upsets ELSE Upset
    /\ cookie' \in {cookie, IF call[k].step = "done" THEN call[k].session ELSE cookie}
    /\ form' = [t \in Tabs |-> FormWithout(t, k)]
    /\ UNCHANGED <<serverVars, stored, state, settings, crossed>>

(* However it ends, a logout makes its tab leave.                          *)
LogoutSettles(k) ==
    /\ call[k].kind = "logout"
    /\ Taken(k)
    /\ \/ call[k].step = "done" /\ cookie' = None /\ UNCHANGED upsets
       \/ call[k].step = "refused" /\ UNCHANGED <<cookie, upsets>>
       \/ call[k].step # "refused" /\ Upset /\ UNCHANGED cookie
    /\ IF call[k].tab = None THEN UNCHANGED <<tabVars, crossed>>
       ELSE LeaveSession(call[k].tab)
    /\ UNCHANGED serverVars

-----------------------------------------------------------------------------
QueryStep(t) ==
    \/ ServeState(t) \/ ArriveState(t) \/ FailState(t)
    \/ ArriveSettings(t) \/ FailSettings(t)
CallStep(k) ==
    \/ ServeSetup(k) \/ ServeLogin(k) \/ ServeLogout(k) \/ Refuse(k)
    \/ ArriveLogin(k) \/ LoginFails(k) \/ LogoutSettles(k)
User ==
    \/ \E t \in Tabs, s \in Sessions \cup {None} : PageLoad(t, s)
    \/ \E t \in Tabs : Focus(t)
    \/ \E t \in Tabs, k \in Calls : Submit(t, k) \/ Logout(t, k)
Next ==
    \/ User
    \/ \E t \in Tabs : QueryStep(t)
    \/ \E k \in Calls : CallStep(k)
    \/ \E s \in Sessions : Expire(s)

Spec == Init /\ [][Next]_vars

-----------------------------------------------------------------------------
SessionTypeOK ==
    /\ admin \in BOOLEAN
    /\ status \in [Sessions -> {"unused", "live", "expired", "gone"}]
    /\ cookie \in Sessions \cup {None}
    /\ stored \in [Tabs -> Sessions \cup {None}]
    /\ state \in [Tabs -> Entry(StateAnswer, Sessions)]
    /\ settings \in [Tabs -> Entry({"private"}, Sessions)]
    /\ form \in [Tabs -> Calls \cup {None}]
    /\ call \in [Calls -> Call]
    /\ upsets \in 0..MaxUpsets
    /\ crossed \in [Tabs -> BOOLEAN]

(* A tab that holds the session of the cookie, and has the answer of its   *)
(* last request, shows the panel and not a login form: however logins,     *)
(* logouts, expiries and reloads of all the tabs fall between the requests *)
(* for the state (App.tsx:85-89).  Excepted: a tab that left while a login *)
(* of its own was on its way, which joins a first load already answered.   *)
LoggedInIsShown ==
    \A t \in Tabs :
        /\ stored[t] # None /\ cookie = stored[t] /\ Live(cookie)
        /\ state[t].step = "idle" /\ ~state[t].failed /\ ~crossed[t]
        => Screen(t) = "shell"

(* A tab that has left keeps nothing it has read under a session, and has  *)
(* no request for it on its way (App.tsx:91-95).                           *)
LogoutForgets ==
    \A t \in Tabs : stored[t] = None => settings[t] = NewEntry

(* A session that has not expired is ended by a logout of a tab that holds *)
(* its token, and by nothing else; the logout of another tab, which the    *)
(* browser sends with the newer cookie, ends neither that session nor any  *)
(* (server.go:345-356).  And each logout that is confirmed has ended one.  *)
LogoutEndsTheSession ==
    [][\A s \in Sessions :
         status[s] = "live" /\ status'[s] = "gone" <=>
           \E k \in Calls :
             Serving(k, "logout") /\ call[k].csrf = s /\ call'[k].step = "done"]_vars
=============================================================================
