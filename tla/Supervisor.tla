------------------------------ MODULE Supervisor ------------------------------
(***************************************************************************)
(* The supervisor of internal/supervisor/supervisor.go over the process    *)
(* runner: several goroutines call Reload (an HTTP handler, the traffic    *)
(* sampler, the SIGHUP handler, a restore) or StopAll, while the           *)
(* administrator changes the database and the panel may be restarted.      *)
(*                                                                         *)
(* Reload reads the desired state and validates it BEFORE it takes         *)
(* supervisor.mu, then works through that snapshot with the lock held.     *)
(***************************************************************************)
EXTENDS ProcessRunner, FiniteSets

CONSTANTS Callers,      (* goroutines that call Reload and StopAll          *)
          Absent,       (* the location has no row (or no client)           *)
          Inactive,     (* its row is there, and a Reason keeps it down     *)
          CreatedRank,  (* position of a location in ORDER BY created_at, id*)
          IdRank,       (* position of a location in the order of the ids   *)
          Subnet,       (* the subnet a location's id is hashed to          *)
          MaxWrites     (* bound on changes of the database                 *)

ASSUME SupervisorAssumption ==
    /\ None \notin Callers
    /\ Absent \notin Configs \cup {None, Inactive}
    /\ Inactive \notin Configs \cup {None}
    /\ MaxWrites \in Nat

ASSUME LocationsAssumption ==
    /\ IsFiniteSet(Locations)
    /\ \A l \in Locations : CreatedRank[l] \in Nat /\ IdRank[l] \in Nat

VARIABLES
  desired,  (* the database: an entry for each location                    *)
  writes,   (* changes of the database so far                              *)
  pc,       (* where each caller is                                        *)
  loaded,   (* the entries each caller has loaded                          *)
  owner,    (* who holds supervisor.mu                                     *)
  running,  (* supervisor.running, a configuration or None                 *)
  todo,     (* locations the owner's current loop has not visited          *)
  doomed    (* history: locations that the Reload under way found running, *)
            (* with a process that an earlier, failed Stop had killed      *)

supVars == <<desired, writes, pc, loaded, owner, running, todo, doomed>>
vars == <<runnerVars, supVars>>

-----------------------------------------------------------------------------
Entries == Configs \cup {Absent, Inactive}
Active(e) == e \in Configs
NothingLoaded == [l \in Locations |-> Absent]
NothingRunning == [l \in Locations |-> None]
Phases == {"idle", "loaded", "visiting", "removing"}

Known == {l \in Locations : running[l] # None}

(* CheckSubnetCollisions over the entries without a reason.                *)
Validates(entries) ==
    \A k, l \in Locations :
        Active(entries[k]) /\ Active(entries[l]) /\ Subnet[k] = Subnet[l] => k = l

Init ==
    /\ RunnerInit
    /\ desired \in [Locations -> Entries]
    /\ writes = 0
    /\ pc = [c \in Callers |-> "idle"]
    /\ loaded = [c \in Callers |-> NothingLoaded]
    /\ owner = None
    /\ running = NothingRunning
    /\ todo = {}
    /\ doomed = {}

-----------------------------------------------------------------------------
(* The administrator (or the sampler, or time) changes what is desired of  *)
(* one location.                                                           *)
AdminWrite(l, e) ==
    /\ desired[l] # e
    /\ writes < MaxWrites
    /\ writes' = writes + 1
    /\ desired' = [desired EXCEPT ![l] = e]
    /\ UNCHANGED <<runnerVars, pc, loaded, owner, running, todo, doomed>>

(* loadDesired and Validate; a rejected snapshot ends the call, unchanged. *)
Load(c) ==
    /\ pc[c] = "idle"
    /\ Validates(desired)
    /\ pc' = [pc EXCEPT ![c] = "loaded"]
    /\ loaded' = [loaded EXCEPT ![c] = desired]
    /\ UNCHANGED <<runnerVars, desired, writes, owner, running, todo, doomed>>

Lock(c) ==
    /\ pc[c] = "loaded"
    /\ owner = None
    /\ owner' = c
    /\ pc' = [pc EXCEPT ![c] = "visiting"]
    /\ todo' = {l \in Locations : loaded[c][l] # Absent}
    /\ UNCHANGED <<runnerVars, desired, writes, loaded, running, doomed>>

(* The next entry of the snapshot, in the order of the query.              *)
NextEntry(l) ==
    /\ l \in todo
    /\ \A k \in todo : CreatedRank[l] <= CreatedRank[k]

(* The next of the locations to remove, in the order of the sorted ids.    *)
NextRemoved(l) ==
    /\ l \in todo
    /\ \A k \in todo : IdRank[l] <= IdRank[k]

Visiting(c, l) ==
    /\ owner = c
    /\ pc[c] = "visiting"
    /\ At("idle")
    /\ NextEntry(l)

(* Variant of RunnerRunning: only a crash counts as not running.           *)
RunningUnlessFailed(l) == statuses[l] # "failed"
RunnerRunning(l) == statuses[l] = "running"

CallUnchanged ==
    UNCHANGED <<processes, statuses, procs, file, network, faults>>

(* entry.reason # "" and the location is running.                          *)
VisitStop(c, l) ==
    /\ Visiting(c, l)
    /\ loaded[c][l] = Inactive
    /\ running[l] # None
    /\ BeginStop(l)
    /\ CallUnchanged
    /\ UNCHANGED supVars

(* The runner lost the process: forget the location, then start it again.  *)
VisitRevive(c, l) ==
    /\ Visiting(c, l)
    /\ Active(loaded[c][l])
    /\ running[l] # None
    /\ ~ RunnerRunning(l)
    /\ running' = [running EXCEPT ![l] = None]
    /\ BeginStart(l, loaded[c][l])
    /\ CallUnchanged
    /\ UNCHANGED <<desired, writes, pc, loaded, owner, todo, doomed>>

VisitStart(c, l) ==
    /\ Visiting(c, l)
    /\ Active(loaded[c][l])
    /\ running[l] = None
    /\ BeginStart(l, loaded[c][l])
    /\ CallUnchanged
    /\ UNCHANGED supVars

(* Variants of VisitRestart: the new process is started beside the old     *)
(* one; a location is restarted without looking at its fingerprint.        *)
RestartBesides(c, l) ==
    /\ Visiting(c, l)
    /\ Active(loaded[c][l])
    /\ running[l] \notin {None, loaded[c][l]}
    /\ RunnerRunning(l)
    /\ BeginStart(l, loaded[c][l])
    /\ CallUnchanged
    /\ UNCHANGED supVars
RestartAlways(c, l) ==
    /\ Visiting(c, l)
    /\ Active(loaded[c][l])
    /\ running[l] # None
    /\ RunnerRunning(l)
    /\ BeginRestart(l, loaded[c][l])
    /\ CallUnchanged
    /\ UNCHANGED supVars

VisitRestart(c, l) ==
    /\ Visiting(c, l)
    /\ Active(loaded[c][l])
    /\ running[l] \notin {None, loaded[c][l]}
    /\ RunnerRunning(l)
    /\ BeginRestart(l, loaded[c][l])
    /\ CallUnchanged
    /\ UNCHANGED supVars

(* Skipped (inactive and not running) or unchanged.                        *)
VisitNothing(c, l) ==
    /\ Visiting(c, l)
    /\ \/ loaded[c][l] = Inactive /\ running[l] = None
       \/ /\ Active(loaded[c][l])
          /\ running[l] = loaded[c][l]
          /\ RunnerRunning(l)
    /\ todo' = todo \ {l}
    /\ doomed' = IF processes[l] # None /\ procs[processes[l]].stopping
                 THEN doomed \cup {l}
                 ELSE doomed
    /\ UNCHANGED <<runnerVars, desired, writes, pc, loaded, owner, running>>

Visit(c, l) ==
    \/ VisitStop(c, l) \/ VisitRevive(c, l) \/ VisitStart(c, l)
    \/ VisitRestart(c, l) \/ VisitNothing(c, l)

(* Variant of CallSucceeded: the entry itself goes into the table.         *)
RecordEntry(c) ==
    /\ owner = c
    /\ At("ok")
    /\ running' = [running EXCEPT ![call.loc] = loaded[c][call.loc]]
    /\ todo' = todo \ {call.loc}
    /\ call' = NoCall
    /\ CallUnchanged
    /\ UNCHANGED <<desired, writes, pc, loaded, owner, doomed>>

(* The runner answered without error: the table is updated for the entry.  *)
CallSucceeded(c) ==
    /\ owner = c
    /\ At("ok")
    /\ running' = [running EXCEPT ![call.loc] = call.cfg]
    /\ todo' = todo \ {call.loc}
    /\ call' = NoCall
    /\ CallUnchanged
    /\ UNCHANGED <<desired, writes, pc, loaded, owner, doomed>>

(* Variant of Return: the mutex stays locked.                              *)
ReturnLocked(c) ==
    /\ owner' = owner
    /\ pc' = [pc EXCEPT ![c] = "idle"]
    /\ loaded' = [loaded EXCEPT ![c] = NothingLoaded]
    /\ todo' = {}
    /\ doomed' = {}

(* The caller unlocks and returns.                                         *)
Return(c) ==
    /\ owner' = None
    /\ pc' = [pc EXCEPT ![c] = "idle"]
    /\ loaded' = [loaded EXCEPT ![c] = NothingLoaded]
    /\ todo' = {}
    /\ doomed' = {}

(* Variant of CallFailed: a location whose call failed is forgotten.       *)
ForgetOnFailure(c) ==
    /\ owner = c
    /\ At("err")
    /\ call' = NoCall
    /\ running' = [running EXCEPT ![call.loc] = None]
    /\ Return(c)
    /\ CallUnchanged
    /\ UNCHANGED <<desired, writes>>

(* The first error ends the whole Reload or StopAll: what comes after it   *)
(* is not visited, and the table keeps what it says of this location.      *)
CallFailed(c) ==
    /\ owner = c
    /\ At("err")
    /\ call' = NoCall
    /\ Return(c)
    /\ CallUnchanged
    /\ UNCHANGED <<desired, writes, running>>

(* After the entries, the running locations that had none.                 *)
CollectRemoved(c) ==
    /\ owner = c
    /\ pc[c] = "visiting"
    /\ At("idle")
    /\ todo = {}
    /\ pc' = [pc EXCEPT ![c] = "removing"]
    /\ todo' = {l \in Known : loaded[c][l] = Absent}
    /\ UNCHANGED <<runnerVars, desired, writes, loaded, owner, running, doomed>>

(* StopAll is the same loop over everything that is running.               *)
StopAll(c) ==
    /\ pc[c] = "idle"
    /\ owner = None
    /\ owner' = c
    /\ pc' = [pc EXCEPT ![c] = "removing"]
    /\ todo' = Known
    /\ UNCHANGED <<runnerVars, desired, writes, loaded, running, doomed>>

Remove(c, l) ==
    /\ owner = c
    /\ pc[c] = "removing"
    /\ At("idle")
    /\ NextRemoved(l)
    /\ BeginStop(l)
    /\ CallUnchanged
    /\ UNCHANGED supVars

Finish(c) ==
    /\ owner = c
    /\ pc[c] = "removing"
    /\ At("idle")
    /\ todo = {}
    /\ Return(c)
    /\ UNCHANGED <<runnerVars, desired, writes, running>>

(* The panel dies at any point: its memory is gone, systemd kills what is  *)
(* left in its control group, the files and the namespaces stay.           *)
PanelRestart ==
    /\ faults < MaxFaults
    /\ faults' = faults + 1
    /\ processes' = [l \in Locations |-> None]
    /\ statuses' = [l \in Locations |-> "unknown"]
    /\ procs' = [p \in Procs |-> FreeProc]
    /\ call' = NoCall
    /\ pc' = [c \in Callers |-> "idle"]
    /\ loaded' = [c \in Callers |-> NothingLoaded]
    /\ owner' = None
    /\ running' = NothingRunning
    /\ todo' = {}
    /\ doomed' = {}
    /\ ensured' = [l \in Locations |-> None]
    /\ cleaned' = [l \in Locations |-> "clean"]
    /\ UNCHANGED <<file, net, desired, writes>>

-----------------------------------------------------------------------------
(* The two loops of the lock's holder, between the runner's calls; one of  *)
(* these steps at most can be taken at a time.                             *)
LoopStep(c) ==
    \/ \E l \in Locations : Visit(c, l) \/ Remove(c, l)
    \/ CallSucceeded(c) \/ CallFailed(c)
    \/ CollectRemoved(c) \/ Finish(c)

CallerStep(c) == Load(c) \/ Lock(c) \/ StopAll(c) \/ LoopStep(c)

RunnerMoves == RunnerStep /\ UNCHANGED supVars

Environment == \E l \in Locations, e \in Entries : AdminWrite(l, e)

Next ==
    \/ \E c \in Callers : CallerStep(c)
    \/ RunnerMoves
    \/ Environment
    \/ PanelRestart

Spec == Init /\ [][Next]_vars

-----------------------------------------------------------------------------
(* The configuration a location should run with after a Reload of e.       *)
Want(e) == IF Active(e) THEN e ELSE None

(* Types of the supervisor's state.                                        *)
SupTypeOK ==
    /\ RunnerTypeOK
    /\ desired \in [Locations -> Entries]
    /\ writes \in Nat
    /\ pc \in [Callers -> Phases]
    /\ loaded \in [Callers -> [Locations -> Entries]]
    /\ owner \in Callers \cup {None}
    /\ running \in [Locations -> Configs \cup {None}]
    /\ todo \in SUBSET Locations
    /\ doomed \in SUBSET Locations

(* While nobody holds supervisor.mu, every live process is one that        *)
(* supervisor.running knows, with the configuration it knows: the next     *)
(* Reload or StopAll can find it, whatever failed before.                  *)
AccountedFor ==
    owner = None =>
        \A p \in Procs : Live(p) => running[procs[p].loc] = procs[p].cfg

(* Start is never called for a location that has a process in the table:   *)
(* the "already running" error of the runner cannot come out of a Reload.  *)
StartFindsNoProcess == At("check") => processes[call.loc] = None

(* A Reload that has no more to do has made exactly the active entries of  *)
(* its snapshot the running ones, and no other process is alive, although  *)
(* errors of earlier calls, panel restarts and exits left the table in any *)
(* state; and each of those entries has a process in the table, or had one *)
(* that has crashed since it was looked at.  The one entry left without is *)
(* that of a process which a failed Stop had killed and whose watch        *)
(* goroutine had not yet taken it out of the table.  A StopAll leaves none *)
(* alive.                                                                  *)
ReloadEstablishes ==
    \A c \in Callers :
        owner = c /\ pc[c] = "removing" /\ At("idle") /\ todo = {} =>
            /\ running = [l \in Locations |-> Want(loaded[c][l])]
            /\ \A p \in Procs : Live(p) => procs[p].cfg = loaded[c][procs[p].loc]
            /\ \A l \in Locations \ doomed :
                 Active(loaded[c][l]) => statuses[l] \in {"running", "failed"}

(* The supervisor kills a process only if the snapshot of the Reload under *)
(* way does not ask for just that configuration: an unchanged location     *)
(* keeps its process.                                                      *)
UnchangedIsNotKilled ==
    At("kill") => loaded[owner][call.loc] # procs[call.proc].cfg

(* What Tunnels calls live, recorded and busy.                             *)
liveTunnels ==
    {t \in Locations \X Configs :
        \E p \in Procs : Live(p) /\ procs[p].loc = t[1] /\ procs[p].cfg = t[2]}

T == INSTANCE Tunnels WITH
        live <- liveTunnels, recorded <- running, busy <- (owner # None)

(* The supervisor and its runner implement the abstract promise.           *)
ImplementsTunnels == T!Spec

(* The loops and the calls in them: one goroutine, whoever holds the lock. *)
HolderStep ==
    \/ \E c \in Callers : LoopStep(c)
    \/ (StartStep \/ StopStep) /\ UNCHANGED supVars

(* Goroutines go on, and SIGKILL, which cannot be caught, takes effect;    *)
(* sync.Mutex hands the lock to a waiter that has waited long enough, so a *)
(* caller that keeps finding it free gets it.                              *)
Fairness ==
    /\ \A c \in Callers : SF_vars(Lock(c))
    /\ WF_vars(HolderStep)
    /\ \A p \in Procs :
         WF_vars((KillTakesEffect(p) \/ Reap(p) \/ Watch(p)) /\ UNCHANGED supVars)

FairSpec == Spec /\ Fairness

(* Every Reload that has loaded its snapshot returns: it gets the lock,    *)
(* and no Stop waits for ever for the death of its process.                *)
ReloadReturns == \A c \in Callers : pc[c] = "loaded" ~> pc[c] = "idle"

(* The status of a process that died does not stay "running".              *)
DeathIsReported ==
    \A l \in Locations :
        (\E p \in Procs : processes[l] = p /\ ~ Live(p)) ~> statuses[l] # "running"

-----------------------------------------------------------------------------
(* Why a Reload comes to its end and a death is reported: what the two     *)
(* promises above rest on, but for fairness.                               *)

(* The steps of a call that are still to come at most, and between two     *)
(* calls the next one.                                                     *)
CallLeft ==
    [idle |-> 13,
     mark |-> 12, kill |-> 11, wait |-> 10, remove |-> 9, cleanup |-> 8, unregister |-> 7,
     check |-> 6, ensure |-> 5, render |-> 4, exec |-> 3, register |-> 2,
     ok |-> 1, err |-> 1]

(* The steps a Reload or StopAll still has to take at most: each location  *)
(* of the loop it is in and, before the second loop, each of that one.     *)
WorkLeft ==
    LET unvisited == Cardinality(todo)
        removals == IF pc[owner] = "visiting" THEN Cardinality(Locations) + 1 ELSE 0
    IN  14 * (unvisited + removals) + CallLeft[call.step]

MaxWork == 28 * Cardinality(Locations) + 27

(* Whoever holds the lock has no more work than its two loops of calls.    *)
BoundedWork == owner # None => WorkLeft \in 0..MaxWork

(* What the lock's holder does brings it nearer to its end: no entry is    *)
(* visited twice and no call tries again, whatever fails, exits and is     *)
(* changed meanwhile.                                                      *)
ReloadAdvances ==
    [][owner # None /\ owner' = owner =>
         \/ WorkLeft' < WorkLeft
         \/ UNCHANGED <<call, todo, pc[owner], running, loaded[owner]>>]_vars

(* Nothing holds it up: a loop that has not come to its end has a next     *)
(* location, with an entry its loop is for; a Start finds the location     *)
(* free; and what a Stop waits for is a process that has been killed, or   *)
(* has died and nobody keeps its watch goroutine from reaping it.          *)
Watchable(p) ==
    \/ procs[p].state = "reaped"
    \/ procs[p].state = "dead" /\ ~ (At("register") /\ call.proc = p)

HolderIsNotStuck ==
    owner # None =>
        /\ At("idle") /\ pc[owner] = "visiting" /\ todo # {} =>
             \E l \in Locations : NextEntry(l) /\ loaded[owner][l] # Absent
        /\ At("idle") /\ pc[owner] = "removing" /\ todo # {} =>
             \E l \in Locations : NextRemoved(l)
        /\ At("check") => processes[call.loc] = None
        /\ At("wait") /\ Unreaped(call.proc) =>
             procs[call.proc].state = "killed" \/ Watchable(call.proc)

(* The table has a process that is no more, and its goroutine is there.    *)
Gone(l) == processes[l] # None /\ ~ Live(processes[l])
GoneIsWatched == \A l \in Locations : Gone(l) => Watchable(processes[l])

(* Until its status says so, it stays in the table: no Start hides it.     *)
DeathIsKept ==
    [][\A l \in Locations :
         Gone(l) => \/ statuses'[l] # "running"
                    \/ /\ Gone(l)'
                       /\ processes'[l] = processes[l]
                       /\ procs[processes[l]].state = "reaped" =>
                            procs'[processes[l]].state = "reaped"]_vars

-----------------------------------------------------------------------------
(* The inductive invariant behind the properties.                          *)

(* Exactly the owner of the lock is inside, and only he has a call under   *)
(* way; a caller that has returned keeps no snapshot.                      *)
LockShape ==
    /\ owner = None => At("idle")
    /\ \A c \in Callers :
         /\ pc[c] \in {"visiting", "removing"} <=> owner = c
         /\ pc[c] = "idle" => loaded[c] = NothingLoaded

(* The process in the table runs what supervisor.running says, or what the *)
(* call that has just succeeded will make it say.                          *)
TableMatchesRunning ==
    \A l \in Locations :
        processes[l] # None =>
            procs[processes[l]].cfg =
                IF At("ok") /\ call.loc = l THEN call.cfg ELSE running[l]

(* What the loop has left behind is as the snapshot wants it; the call     *)
(* under way is for a location still to do, with what is wanted of it.     *)
LoopProgress ==
    owner # None =>
        /\ \A l \in Locations :
             l \in todo => (loaded[owner][l] = Absent <=> pc[owner] = "removing")
        /\ \A l \in Locations :
             l \notin todo =>
                 \/ running[l] = Want(loaded[owner][l])
                 \/ pc[owner] = "visiting" /\ loaded[owner][l] = Absent
        /\ ~ At("idle") => /\ call.loc \in todo
                           /\ call.cfg = Want(loaded[owner][call.loc])

(* What a Start has put into the table is there for the caller to see, or  *)
(* has crashed; so it is with what the loop has left behind, unless it     *)
(* took a killed process for a running one.                                *)
Up(l) ==
    \/ statuses[l] = "failed"
    \/ statuses[l] = "running" /\ ~ procs[processes[l]].stopping

VisitedAreUp ==
    /\ At("ok") /\ call.op # "stop" => Up(call.loc)
    /\ owner # None =>
         \A l \in Locations \ (todo \cup doomed) :
             Active(loaded[owner][l]) => Up(l)

(* A restart replaces a configuration by another one, and what a Stop is   *)
(* about to kill is what supervisor.running says (or has exited).          *)
KillTarget ==
    /\ call.op = "restart" /\ call.step \in StopSteps => running[call.loc] # call.cfg
    /\ At("kill") => procs[call.proc].cfg \in {None, running[call.loc]}

SupInv ==
    /\ RunnerInv
    /\ SupTypeOK
    /\ LockShape
    /\ TableMatchesRunning
    /\ LoopProgress
    /\ VisitedAreUp
    /\ KillTarget
    /\ StartFindsNoProcess

=============================================================================
