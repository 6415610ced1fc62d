---------------------------- MODULE ProcessRunner ----------------------------
(***************************************************************************)
(* The process runner of internal/supervisor/process_runner.go: Start,     *)
(* Stop and Restart of one olcrtc process per location, and the goroutine  *)
(* that watches each process.                                              *)
(*                                                                         *)
(* One caller at a time is inside Start, Stop or Restart (the supervisor   *)
(* calls them under its mutex); its progress is the record call.  Every    *)
(* watch goroutine and every operating-system process moves on its own.    *)
(* A step of a call that can fail (a cancelled context, a command, a file  *)
(* operation) has a failing twin; MaxFaults bounds how many failures a     *)
(* behaviour injects.                                                      *)
(***************************************************************************)
EXTENDS Naturals

CONSTANTS Locations,  (* location ids                                      *)
          Configs,    (* what LocationState.fingerprint tells apart        *)
          Procs,      (* managedProcess objects: the bound on processes    *)
                      (* whose watch goroutine has not finished            *)
          None,       (* a nil pointer, a missing map entry, a missing file*)
          MaxFaults   (* bound on injected failures                        *)

ASSUME RunnerAssumption ==
    /\ None \notin Locations \cup Configs \cup Procs
    /\ MaxFaults \in Nat

VARIABLES
  processes,  (* runner.processes: location -> managedProcess              *)
  statuses,   (* runner.statuses                                           *)
  procs,      (* the managedProcess objects, with the process of each      *)
  file,       (* the rendered configuration of each location, on disk      *)
  net,        (* has the location a namespace                              *)
  ensured,    (* the network stack's cache: the configuration it has last  *)
              (* made the namespace for, or None                           *)
  cleaned,    (* history: how the last Cleanup of the location ended, if   *)
              (* Ensure has not done its work since                        *)
  call,       (* the call in progress                                      *)
  faults      (* failures injected so far                                  *)

network == <<net, ensured, cleaned>>
runnerVars == <<processes, statuses, procs, file, network, call, faults>>

-----------------------------------------------------------------------------
(* A process is live until it exits, also when it has been sent SIGKILL    *)
(* (killed); once it has exited (dead) cmd.Wait returns and done is filled *)
(* and closed (reaped), then the watch goroutine's locked section has run  *)
(* (free).                                                                 *)
ProcStates == {"free", "live", "killed", "dead", "reaped"}
FreeProc == [loc |-> None, cfg |-> None, state |-> "free", stopping |-> FALSE]

RunnerStatuses == {"unknown", "running", "stopped", "failed"}

StartSteps == {"check", "ensure", "render", "exec", "register"}
StopSteps == {"mark", "kill", "wait", "remove", "cleanup", "unregister"}
ReturnSteps == {"ok", "err"}
Ops == {"start", "stop", "restart"}
NoCall ==
    [op |-> None, loc |-> None, cfg |-> None, step |-> "idle", proc |-> None]

Proc == [loc : Locations \cup {None}, cfg : Configs \cup {None},
         state : ProcStates, stopping : BOOLEAN]
Call == [op : Ops \cup {None}, loc : Locations \cup {None},
         cfg : Configs \cup {None},
         step : {"idle"} \cup StartSteps \cup StopSteps \cup ReturnSteps,
         proc : Procs \cup {None}]

Live(p) == procs[p].state \in {"live", "killed"}
Unreaped(p) == procs[p].state \in {"live", "killed", "dead"}

(* A Cleanup in which everything worked; one that returned nil although it *)
(* could not delete the namespace; one that returned an error.             *)
CleanupEnds == {"clean", "partial", "failed"}

RunnerInit ==
    /\ processes = [l \in Locations |-> None]
    /\ statuses = [l \in Locations |-> "unknown"]
    /\ procs = [p \in Procs |-> FreeProc]
    /\ file = [l \in Locations |-> None]
    /\ net = [l \in Locations |-> FALSE]
    /\ ensured = [l \in Locations |-> None]
    /\ cleaned = [l \in Locations |-> "clean"]
    /\ call = NoCall
    /\ faults = 0

-----------------------------------------------------------------------------
(* Entering a call; what the caller does with its answer is the caller's.  *)
BeginStart(l, c) ==
    call' = [op |-> "start", loc |-> l, cfg |-> c, step |-> "check", proc |-> None]
BeginStop(l) ==
    call' = [op |-> "stop", loc |-> l, cfg |-> None, step |-> "mark", proc |-> None]
BeginRestart(l, c) ==
    call' = [op |-> "restart", loc |-> l, cfg |-> c, step |-> "mark", proc |-> None]

At(step) == call.step = step
Goto(step) == call' = [call EXCEPT !.step = step]

(* The step fails and the call returns an error.                           *)
FailAt(step) ==
    /\ At(step)
    /\ faults < MaxFaults
    /\ faults' = faults + 1
    /\ Goto("err")

(* Cleanup, as the runner sees it: it passes over commands that fail, and  *)
(* reports only a directory it cannot remove.  Then the cache of the stack *)
(* keeps the location, whatever has become of its namespace.               *)
Cleans ==
    /\ net' = [net EXCEPT ![call.loc] = FALSE]
    /\ ensured' = [ensured EXCEPT ![call.loc] = None]
    /\ cleaned' = [cleaned EXCEPT ![call.loc] = "clean"]
CleansInPart ==
    /\ ensured' = [ensured EXCEPT ![call.loc] = None]
    /\ cleaned' = [cleaned EXCEPT ![call.loc] = "partial"]
    /\ UNCHANGED net
CleanupError ==
    /\ \/ net' = [net EXCEPT ![call.loc] = FALSE]
       \/ UNCHANGED net
    /\ cleaned' = [cleaned EXCEPT ![call.loc] = "failed"]
    /\ UNCHANGED ensured

(* A start fails after Ensure; the error of its cleanupNetwork, a failure  *)
(* on top of the first one, is ignored.                                    *)
StartFailsAt(step) ==
    /\ At(step)
    /\ \/ faults < MaxFaults /\ faults' = faults + 1 /\ Cleans
       \/ faults + 1 < MaxFaults /\ faults' = faults + 2 /\ (CleansInPart \/ CleanupError)
    /\ Goto("err")
    /\ UNCHANGED <<processes, statuses, procs, file>>

-----------------------------------------------------------------------------
(* Start                                                                   *)
StartRefused ==
    /\ At("check")
    /\ processes[call.loc] # None
    /\ Goto("err")
    /\ UNCHANGED <<processes, statuses, procs, file, network, faults>>

StartAccepted ==
    /\ At("check")
    /\ processes[call.loc] = None
    /\ Goto("ensure")
    /\ UNCHANGED <<processes, statuses, procs, file, network, faults>>

StartCancelled ==
    /\ FailAt("check")
    /\ UNCHANGED <<processes, statuses, procs, file, network>>

(* Ensure finds in its cache what it is asked for, and does nothing.  Two  *)
(* configurations may agree in all that the stack looks at.                *)
EnsureFromCache ==
    /\ At("ensure")
    /\ ensured[call.loc] # None
    /\ Goto("render")
    /\ UNCHANGED <<processes, statuses, procs, file, network, faults>>

EnsureNetwork ==
    /\ At("ensure")
    /\ ensured[call.loc] # call.cfg
    /\ net' = [net EXCEPT ![call.loc] = TRUE]
    /\ ensured' = [ensured EXCEPT ![call.loc] = call.cfg]
    /\ cleaned' = [cleaned EXCEPT ![call.loc] = "clean"]
    /\ Goto("render")
    /\ UNCHANGED <<processes, statuses, procs, file, faults>>

(* A failed Ensure returns without cleanup: whatever it made stays, and so *)
(* does the cache entry of an earlier one.                                 *)
EnsureNetworkFails ==
    /\ FailAt("ensure")
    /\ ensured[call.loc] # call.cfg
    /\ \/ net' = [net EXCEPT ![call.loc] = TRUE]
       \/ UNCHANGED net
    /\ UNCHANGED <<processes, statuses, procs, file, ensured, cleaned>>

Render ==
    /\ At("render")
    /\ file' = [file EXCEPT ![call.loc] = call.cfg]
    /\ Goto("exec")
    /\ UNCHANGED <<processes, statuses, procs, network, faults>>

RenderFails == StartFailsAt("render")

Exec ==
    /\ At("exec")
    /\ \E p \in Procs :
         /\ procs[p].state = "free"
         /\ procs' = [procs EXCEPT ![p] =
              [loc |-> call.loc, cfg |-> call.cfg,
               state |-> "live", stopping |-> FALSE]]
         /\ call' = [call EXCEPT !.step = "register", !.proc = p]
    /\ UNCHANGED <<processes, statuses, file, network, faults>>

(* cmd.Start failed: the network is torn down, the file stays.             *)
ExecFails == StartFailsAt("exec")

Register ==
    /\ At("register")
    /\ processes' = [processes EXCEPT ![call.loc] = call.proc]
    /\ statuses' = [statuses EXCEPT ![call.loc] = "running"]
    /\ Goto("ok")
    /\ UNCHANGED <<procs, file, network, faults>>

-----------------------------------------------------------------------------
(* Stop                                                                    *)
MarkStopping ==
    /\ At("mark")
    /\ LET p == processes[call.loc] IN
         IF p = None
         THEN /\ Goto("remove")
              /\ UNCHANGED procs
         ELSE /\ procs' = [procs EXCEPT ![p].stopping = TRUE]
              /\ call' = [call EXCEPT !.step = "kill", !.proc = p]
    /\ UNCHANGED <<processes, statuses, file, network, faults>>

StopCancelled ==
    /\ FailAt("mark")
    /\ UNCHANGED <<processes, statuses, procs, file, network>>

(* SIGKILL is sent, and Kill returns; a process that has exited is told    *)
(* nothing.                                                                *)
Kill ==
    /\ At("kill")
    /\ procs' = IF Live(call.proc)
                THEN [procs EXCEPT ![call.proc].state = "killed"]
                ELSE procs
    /\ Goto("wait")
    /\ UNCHANGED <<processes, statuses, file, network, faults>>

(* Variant of AwaitDone: Stop does not wait for the watch goroutine.       *)
NoAwait ==
    /\ At("wait")
    /\ Goto("remove")
    /\ UNCHANGED <<processes, statuses, procs, file, network, faults>>

(* <-process.done: filled, then closed, by the watch goroutine.            *)
AwaitDone ==
    /\ At("wait")
    /\ ~ Unreaped(call.proc)
    /\ Goto("remove")
    /\ UNCHANGED <<processes, statuses, procs, file, network, faults>>

RemoveConfig ==
    /\ At("remove")
    /\ file' = [file EXCEPT ![call.loc] = None]
    /\ Goto("cleanup")
    /\ UNCHANGED <<processes, statuses, procs, network, faults>>

RemoveConfigFails ==
    /\ FailAt("remove")
    /\ UNCHANGED <<processes, statuses, procs, file, network>>

CleanupNetwork ==
    /\ At("cleanup")
    /\ Cleans
    /\ Goto("unregister")
    /\ UNCHANGED <<processes, statuses, procs, file, faults>>

CleanupNetworkInPart ==
    /\ At("cleanup")
    /\ faults < MaxFaults
    /\ faults' = faults + 1
    /\ CleansInPart
    /\ Goto("unregister")
    /\ UNCHANGED <<processes, statuses, procs, file>>

(* Variant of CleanupNetworkFails: Stop goes on as if nothing had happened. *)
CleanupErrorPassedOver ==
    /\ At("cleanup")
    /\ faults < MaxFaults
    /\ faults' = faults + 1
    /\ CleanupError
    /\ Goto("unregister")
    /\ UNCHANGED <<processes, statuses, procs, file>>

CleanupNetworkFails ==
    /\ FailAt("cleanup")
    /\ CleanupError
    /\ UNCHANGED <<processes, statuses, procs, file>>

(* Variant of Unregister: the status is one that only the supervisor       *)
(* reports.                                                                *)
UnregisterPending ==
    /\ At("unregister")
    /\ processes' = [processes EXCEPT ![call.loc] = None]
    /\ statuses' = [statuses EXCEPT ![call.loc] = "pending"]
    /\ Goto(IF call.op = "restart" THEN "check" ELSE "ok")
    /\ UNCHANGED <<procs, file, network, faults>>

(* The last locked section of Stop; Restart goes on with Start.            *)
Unregister ==
    /\ At("unregister")
    /\ processes' = [processes EXCEPT ![call.loc] = None]
    /\ statuses' = [statuses EXCEPT ![call.loc] = "stopped"]
    /\ call' = [call EXCEPT !.step = IF call.op = "restart" THEN "check" ELSE "ok",
                            !.proc = None]
    /\ UNCHANGED <<procs, file, network, faults>>

-----------------------------------------------------------------------------
(* The processes and their watch goroutines                                *)

(* An olcrtc process exits by itself.                                      *)
ProcessExit(p) ==
    /\ procs[p].state = "live"
    /\ procs' = [procs EXCEPT ![p].state = "dead"]
    /\ UNCHANGED <<processes, statuses, file, network, call, faults>>

(* The kernel delivers the signal.                                         *)
KillTakesEffect(p) ==
    /\ procs[p].state = "killed"
    /\ procs' = [procs EXCEPT ![p].state = "dead"]
    /\ UNCHANGED <<processes, statuses, file, network, call, faults>>

(* cmd.Wait returns and done is signalled.  The goroutine is created after *)
(* the process is registered.                                              *)
Reap(p) ==
    /\ procs[p].state = "dead"
    /\ ~ (At("register") /\ call.proc = p)
    /\ procs' = [procs EXCEPT ![p].state = "reaped"]
    /\ UNCHANGED <<processes, statuses, file, network, call, faults>>

(* Variants of Watch: the late goroutine of an old process clears the      *)
(* entry of the new one; the goroutine reports nothing.                    *)
WatchAnyProcess(p) ==
    /\ procs[p].state = "reaped"
    /\ processes' = [processes EXCEPT ![procs[p].loc] = None]
    /\ statuses' = [statuses EXCEPT ![procs[p].loc] =
         IF procs[p].stopping THEN "stopped" ELSE "failed"]
    /\ procs' = [procs EXCEPT ![p] = FreeProc]
    /\ UNCHANGED <<file, network, call, faults>>
WatchSilent(p) ==
    /\ procs[p].state = "reaped"
    /\ procs' = [procs EXCEPT ![p] = FreeProc]
    /\ UNCHANGED <<processes, statuses, file, network, call, faults>>

(* The locked section of watch: a process that is no longer the one in the *)
(* table is none of its business.                                          *)
Watch(p) ==
    /\ procs[p].state = "reaped"
    /\ LET l == procs[p].loc IN
         IF processes[l] = p
         THEN /\ processes' = [processes EXCEPT ![l] = None]
              /\ statuses' = [statuses EXCEPT ![l] =
                   IF procs[p].stopping THEN "stopped" ELSE "failed"]
         ELSE UNCHANGED <<processes, statuses>>
    /\ procs' = [procs EXCEPT ![p] = FreeProc]
    /\ UNCHANGED <<file, network, call, faults>>

-----------------------------------------------------------------------------
StartStep ==
    \/ StartRefused \/ StartAccepted \/ StartCancelled
    \/ EnsureFromCache \/ EnsureNetwork \/ EnsureNetworkFails
    \/ Render \/ RenderFails
    \/ Exec \/ ExecFails
    \/ Register

StopStep ==
    \/ MarkStopping \/ StopCancelled
    \/ Kill \/ AwaitDone
    \/ RemoveConfig \/ RemoveConfigFails
    \/ CleanupNetwork \/ CleanupNetworkInPart \/ CleanupNetworkFails
    \/ Unregister

WatchStep == \E p \in Procs : Reap(p) \/ Watch(p)
ExitStep == \E p \in Procs : ProcessExit(p) \/ KillTakesEffect(p)

RunnerStep == StartStep \/ StopStep \/ WatchStep \/ ExitStep

(* A caller that starts, stops and restarts in any order, one call at a    *)
(* time, whatever the answers are.                                         *)
Enter ==
    /\ At("idle")
    /\ \E l \in Locations :
         \/ BeginStop(l)
         \/ \E c \in Configs : BeginStart(l, c) \/ BeginRestart(l, c)
    /\ UNCHANGED <<processes, statuses, procs, file, network, faults>>

Leave ==
    /\ call.step \in ReturnSteps
    /\ call' = NoCall
    /\ UNCHANGED <<processes, statuses, procs, file, network, faults>>

RunnerNext == RunnerStep \/ Enter \/ Leave

RunnerSpec == RunnerInit /\ [][RunnerNext]_runnerVars

-----------------------------------------------------------------------------
(* Types of the runner's state.                                            *)
RunnerTypeOK ==
    /\ processes \in [Locations -> Procs \cup {None}]
    /\ statuses \in [Locations -> RunnerStatuses]
    /\ procs \in [Procs -> Proc]
    /\ file \in [Locations -> Configs \cup {None}]
    /\ net \in [Locations -> BOOLEAN]
    /\ ensured \in [Locations -> Configs \cup {None}]
    /\ cleaned \in [Locations -> CleanupEnds]
    /\ call \in Call
    /\ faults \in Nat

(* Status says running exactly of the locations whose process is in the    *)
(* table: a reload that sees another status may start a new process.       *)
StatusMatchesTable ==
    \A l \in Locations : statuses[l] = "running" <=> processes[l] # None

(* The process p is reachable: from the table, or by the Start that has    *)
(* created it and not yet entered it there.                                *)
Reachable(p) ==
    \/ processes[procs[p].loc] = p
    \/ At("register") /\ call.proc = p /\ call.loc = procs[p].loc

(* No olcrtc process is lost: one that nobody has waited for yet can still *)
(* be stopped, however a late watch goroutine and a restart interleave.    *)
NoLostProcess ==
    \A p \in Procs : Unreaped(p) => procs[p].loc \in Locations /\ Reachable(p)

(* A location never has two live processes, not even while it restarts.    *)
OneProcessPerLocation ==
    \A p, q \in Procs : Live(p) /\ Live(q) /\ procs[p].loc = procs[q].loc => p = q

(* A process that is alive, also one that has been sent its SIGKILL and    *)
(* has not exited yet, finds the configuration it was started with, and    *)
(* its namespace: both are removed only after it has exited.  The one case *)
(* of a process without namespace is that of a Cleanup that had returned   *)
(* an error: the cache of the stack kept the location, and Ensure believed *)
(* it.                                                                     *)
LiveHasResources ==
    \A p \in Procs :
        Live(p) => /\ file[procs[p].loc] = procs[p].cfg
                   /\ net[procs[p].loc] \/ cleaned[procs[p].loc] = "failed"

(* When Stop returns success, nothing of the location is left, in the      *)
(* stack's cache either, and status says so, whatever its watch goroutine  *)
(* has done meanwhile.  Of the namespace this is so unless a command of    *)
(* the Cleanup failed, which Stop does not learn.                          *)
StopLeavesNothing ==
    At("ok") /\ call.op = "stop" =>
        /\ \A p \in Procs : procs[p].loc = call.loc => ~ Unreaped(p)
        /\ file[call.loc] = None
        /\ ensured[call.loc] = None
        /\ net[call.loc] => cleaned[call.loc] = "partial"
        /\ statuses[call.loc] = "stopped"

-----------------------------------------------------------------------------
(* The inductive invariant behind the properties above.                    *)

(* A process object in use has a location and a configuration.             *)
UsedProcs ==
    \A p \in Procs :
        procs[p].state # "free" => procs[p].loc \in Locations /\ procs[p].cfg \in Configs

(* The table holds processes in use, each under its own location.          *)
TableIsSound ==
    \A l \in Locations :
        processes[l] # None => /\ procs[processes[l]].loc = l
                               /\ procs[processes[l]].state # "free"

(* A call knows what it is about.                                          *)
CallShape ==
    /\ At("idle") => call = NoCall
    /\ ~ At("idle") => /\ call.loc \in Locations
                       /\ call.op \in Ops
                       /\ IF call.op = "stop" THEN call.cfg = None
                                              ELSE call.cfg \in Configs
    /\ call.step \in StartSteps => call.op # "stop"
    /\ call.step \in StopSteps => call.op # "start"

(* What is in the stack's cache is there, but for a failed Cleanup.        *)
CacheIsBacked ==
    \A l \in Locations : ensured[l] # None => net[l] \/ cleaned[l] = "failed"

(* From its check on, a Start has the location for itself, and what it has *)
(* prepared is still there when the process is created.                    *)
Starting ==
    /\ call.step \in StartSteps \ {"check"} => processes[call.loc] = None
    /\ call.step \in {"render", "exec", "register"} =>
         net[call.loc] \/ cleaned[call.loc] = "failed"
    /\ call.step \in {"exec", "register"} => file[call.loc] = call.cfg
    /\ At("register") => /\ call.proc \in Procs
                         /\ Unreaped(call.proc)
                         /\ procs[call.proc].loc = call.loc
                         /\ procs[call.proc].cfg = call.cfg
                         /\ ~ procs[call.proc].stopping

(* A Stop waits for the process in the table, and tears the location down  *)
(* only when nothing runs there any more.                                  *)
Stopping ==
    /\ call.step \in {"kill", "wait"} =>
         /\ call.proc \in Procs
         /\ processes[call.loc] \in {call.proc, None}
    /\ At("wait") => procs[call.proc].state # "live"
    /\ call.step \in {"remove", "cleanup", "unregister"} =>
         \A p \in Procs : procs[p].loc = call.loc => ~ Unreaped(p)
    /\ call.step \in {"cleanup", "unregister"} => file[call.loc] = None
    /\ At("unregister") =>
         /\ ensured[call.loc] = None
         /\ net[call.loc] => cleaned[call.loc] = "partial"
    /\ At("ok") /\ call.op = "stop" => processes[call.loc] = None

RunnerInv ==
    /\ RunnerTypeOK
    /\ UsedProcs
    /\ TableIsSound
    /\ CallShape
    /\ CacheIsBacked
    /\ Starting
    /\ Stopping
    /\ StatusMatchesTable
    /\ NoLostProcess
    /\ LiveHasResources
    /\ StopLeavesNothing

=============================================================================
