----------------------------- MODULE QueryClient -----------------------------
(***************************************************************************)
(* One entry of the query cache of the web interface: TanStack Query, an   *)
(* external library, as main.tsx configures it (retry: false and otherwise *)
(* the defaults, so nothing in the cache is ever fresh) and as App.tsx     *)
(* relies on it.  An entry holds the last answer, whether the last fetch   *)
(* failed, and at most one fetch on its way.                               *)
(***************************************************************************)
CONSTANTS None, Refused

ASSUME QueryAssumption == None # Refused

(* A fetch is sent, then read by the server, then its answer arrives.  An  *)
(* entry dropped from the cache under a component that is not rendered     *)
(* again is seen by that component as it was, for good: stuck if a fetch   *)
(* was on its way, cut if not.                                             *)
Flying == {"sent", "read"}
Steps == Flying \cup {"idle", "stuck", "cut"}
Entry(Values, Contexts) ==
    [data : Values \cup {None}, failed : BOOLEAN, step : Steps,
     val : Values \cup Contexts \cup {None, Refused}]

NewEntry == [data |-> None, failed |-> FALSE, step |-> "idle", val |-> None]

(* A request leaves with what it carries in val.                           *)
Sent(q, context) ==
    [q EXCEPT !.step = "sent", !.val = context,
              !.failed = @ /\ q.data # None]

(* A mount and a window that gets the focus join a fetch on its way; an    *)
(* invalidation replaces it, unless it is the first load.                  *)
Fetch(q, context) == IF q.step = "idle" THEN Sent(q, context) ELSE q
Refetch(q, context) ==
    IF q.step = "idle" \/ (q.step \in Flying /\ q.data # None)
    THEN Sent(q, context) ELSE q

Read(q, answer) == [q EXCEPT !.step = "read", !.val = answer]
Failed(q) == [q EXCEPT !.step = "idle", !.val = None, !.failed = TRUE]
Accepted(q) == [data |-> q.val, failed |-> FALSE, step |-> "idle", val |-> None]
Arrived(q) ==
    IF q.val = Refused THEN Failed(q)
    ELSE Accepted(q)
Dropped(q) ==
    [q EXCEPT !.step = CASE q.step \in Flying -> "stuck"
                         [] q.step = "idle" -> "cut"
                         [] OTHER -> q.step,
              !.val = None]

IsLoading(q) == q.data = None /\ q.step \in Flying \cup {"stuck"}
=============================================================================
