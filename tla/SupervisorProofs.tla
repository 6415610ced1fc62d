--------------------------- MODULE SupervisorProofs ---------------------------
(***************************************************************************)
(* Proofs about the process runner and about the supervisor over it, for   *)
(* any callers, locations, configurations and process objects.             *)
(***************************************************************************)
EXTENDS Supervisor, FiniteSetTheorems, WellFoundedInduction, TLAPS

(***************************************************************************)
(* The process runner: its inductive invariant RunnerInv and what follows, *)
(* for whoever calls it one call at a time.                                *)
(***************************************************************************)

(* Once a Start has found the table empty for its location, and once a     *)
(* Stop has waited for its process, no process runs there.                 *)
LEMMA NothingRunsThere ==
  ASSUME RunnerInv, call.step \in {"ensure", "render", "exec",
                                   "remove", "cleanup", "unregister"}
  PROVE  \A p \in Procs : procs[p].loc = call.loc => ~ Unreaped(p)
  BY RunnerAssumption
     DEF RunnerInv, RunnerTypeOK, Call, Starting, Stopping, NoLostProcess, Reachable,
         TableIsSound, CallShape, At, Unreaped, StartSteps, StopSteps, ReturnSteps, Ops

(* A start that fails after Ensure cleans up where nothing runs, however   *)
(* the Cleanup ends.                                                       *)
LEMMA StartFailsInv ==
  ASSUME RunnerInv, StartFailsAt("render") \/ StartFailsAt("exec")
  PROVE  RunnerInv'
<1>1. \A p \in Procs : procs[p].loc = call.loc => ~ Unreaped(p)
  BY NothingRunsThere DEF StartFailsAt, At
<1>2. call.loc \in Locations
  BY DEF RunnerInv, CallShape, StartFailsAt, At
<1> USE RunnerAssumption DEF RunnerInv, RunnerTypeOK, At, Goto, FailAt, Call,
        StartSteps, StopSteps, ReturnSteps, Ops, ProcStates, RunnerStatuses, Proc,
        UsedProcs, TableIsSound, CallShape, CacheIsBacked, Starting, Stopping,
        CleanupEnds, network,
        StatusMatchesTable, NoLostProcess, Reachable, LiveHasResources,
        StopLeavesNothing, Live, Unreaped
<1>3. CASE Cleans
  BY <1>1, <1>2, <1>3 DEF StartFailsAt, Cleans
<1>4. CASE CleansInPart
  BY <1>1, <1>2, <1>4 DEF StartFailsAt, CleansInPart
<1>5. CASE CleanupError
  <2>1. CASE net' = [net EXCEPT ![call.loc] = FALSE]
    BY <1>1, <1>2, <1>5, <2>1 DEF StartFailsAt, CleanupError
  <2>2. CASE UNCHANGED net
    BY <1>1, <1>2, <1>5, <2>2 DEF StartFailsAt, CleanupError
  <2> QED
    BY <1>5, <2>1, <2>2 DEF CleanupError
<1> QED
  BY <1>3, <1>4, <1>5 DEF StartFailsAt

(* Every step of Start, failing ones included, preserves RunnerInv.        *)
LEMMA StartStepInv == RunnerInv /\ StartStep => RunnerInv'
<1> SUFFICES ASSUME RunnerInv, StartStep PROVE RunnerInv'
  OBVIOUS
<1> USE RunnerAssumption DEF RunnerInv, RunnerTypeOK, At, Goto, FailAt, Call,
        StartSteps, StopSteps, ReturnSteps, Ops, ProcStates, RunnerStatuses, Proc,
        UsedProcs, TableIsSound, CallShape, CacheIsBacked, Starting, Stopping,
        CleanupEnds, network,
        StatusMatchesTable, NoLostProcess, Reachable, LiveHasResources,
        StopLeavesNothing, Live, Unreaped
<1>1. CASE StartRefused
  BY <1>1 DEF StartRefused
<1>2. CASE StartAccepted
  BY <1>2 DEF StartAccepted
<1>3. CASE StartCancelled
  BY <1>3 DEF StartCancelled
<1>4. CASE EnsureNetwork
  BY <1>4 DEF EnsureNetwork
<1>5. CASE EnsureNetworkFails
  <2>1. CASE net' = [net EXCEPT ![call.loc] = TRUE]
    BY <1>5, <2>1 DEF EnsureNetworkFails
  <2>2. CASE UNCHANGED net
    BY <1>5, <2>2 DEF EnsureNetworkFails
  <2> QED
    BY <1>5, <2>1, <2>2 DEF EnsureNetworkFails
<1>6. CASE Render
  BY <1>6 DEF Render
<1>7. CASE RenderFails
  BY <1>7, StartFailsInv DEF RenderFails
<1>8. CASE Exec
  <2>1. PICK p \in Procs :
          /\ procs[p].state = "free"
          /\ procs' = [procs EXCEPT ![p] =
               [loc |-> call.loc, cfg |-> call.cfg,
                state |-> "live", stopping |-> FALSE]]
          /\ call' = [call EXCEPT !.step = "register", !.proc = p]
    BY <1>8 DEF Exec
  <2>2. call.loc \in Locations /\ call.cfg \in Configs
    BY <1>8 DEF Exec
  <2>3. \A q \in Procs : procs[q].loc = call.loc => ~ Unreaped(q)
    BY <1>8, NothingRunsThere DEF Exec
  <2>4. RunnerTypeOK'
    BY <1>8, <2>1, <2>2, <2>3 DEF Exec
  <2>5. UsedProcs'
    BY <1>8, <2>1, <2>2, <2>3 DEF Exec
  <2>6. TableIsSound'
    BY <1>8, <2>1, <2>2, <2>3 DEF Exec
  <2>7. CallShape'
    BY <1>8, <2>1, <2>2, <2>3 DEF Exec
  <2>8. Starting'
    BY <1>8, <2>1, <2>2, <2>3 DEF Exec
  <2>9. Stopping'
    BY <1>8, <2>1, <2>2, <2>3 DEF Exec
  <2>10. StatusMatchesTable'
    BY <1>8, <2>1, <2>2, <2>3 DEF Exec
  <2>11. NoLostProcess'
    BY <1>8, <2>1, <2>2, <2>3 DEF Exec
  <2>12. LiveHasResources'
    BY <1>8, <2>1, <2>2, <2>3 DEF Exec
  <2>13. StopLeavesNothing'
    BY <1>8, <2>1, <2>2, <2>3 DEF Exec
  <2>14. CacheIsBacked'
    BY <1>8 DEF Exec
  <2> QED
    BY <2>4, <2>5, <2>6, <2>7, <2>8, <2>9, <2>10, <2>11, <2>12, <2>13, <2>14
<1>9. CASE ExecFails
  BY <1>9, StartFailsInv DEF ExecFails
<1>10. CASE Register
  BY <1>10 DEF Register
<1>11. CASE EnsureFromCache
  BY <1>11 DEF EnsureFromCache
<1> QED
  BY <1>1, <1>2, <1>3, <1>4, <1>5, <1>6, <1>7, <1>8, <1>9, <1>10, <1>11 DEF StartStep

(* Every step of Stop, failing ones included, preserves RunnerInv.         *)
LEMMA StopStepInv == RunnerInv /\ StopStep => RunnerInv'
<1> SUFFICES ASSUME RunnerInv, StopStep PROVE RunnerInv'
  OBVIOUS
<1> USE RunnerAssumption DEF RunnerInv, RunnerTypeOK, At, Goto, FailAt, Call,
        StartSteps, StopSteps, ReturnSteps, Ops, ProcStates, RunnerStatuses, Proc,
        UsedProcs, TableIsSound, CallShape, CacheIsBacked, Starting, Stopping,
        CleanupEnds, network,
        StatusMatchesTable, NoLostProcess, Reachable, LiveHasResources,
        StopLeavesNothing, Live, Unreaped
<1>1. CASE MarkStopping
  <2>1. CASE processes[call.loc] = None
    BY <1>1, <2>1 DEF MarkStopping
  <2>2. CASE processes[call.loc] # None
    <3> DEFINE p == processes[call.loc]
    <3>1. call.loc \in Locations /\ p \in Procs
      BY <1>1, <2>2 DEF MarkStopping
    <3>2. call' = [call EXCEPT !.step = "kill", !.proc = p]
      BY <1>1, <2>2 DEF MarkStopping
    <3>3. procs' = [procs EXCEPT ![p].stopping = TRUE]
      BY <1>1, <2>2 DEF MarkStopping
    <3>4. UNCHANGED <<processes, statuses, file, network, faults>>
      BY <1>1 DEF MarkStopping
    <3>5. \A q \in Procs : /\ procs'[q].loc = procs[q].loc
                            /\ procs'[q].cfg = procs[q].cfg
                            /\ procs'[q].state = procs[q].state
      BY <3>1, <3>3
    <3>6. call.step = "mark"
      BY <1>1 DEF MarkStopping
    <3>7. RunnerTypeOK'
      <4>1. call' \in Call
        BY <3>1, <3>2, <3>6
      <4>2. procs' \in [Procs -> Proc]
        <5>1. procs[p] \in Proc
          BY <3>1
        <5>2. [procs[p] EXCEPT !.stopping = TRUE] \in Proc
          BY <5>1
        <5> QED
          BY <3>1, <3>3, <5>2
      <4> QED
        BY <3>4, <4>1, <4>2
    <3>8. UsedProcs'
      BY <2>2, <3>1, <3>2, <3>3, <3>4, <3>5, <3>6
    <3>9. TableIsSound'
      BY <2>2, <3>1, <3>2, <3>3, <3>4, <3>5, <3>6
    <3>10. CallShape'
      BY <2>2, <3>1, <3>2, <3>3, <3>4, <3>5, <3>6
    <3>11. Starting'
      BY <2>2, <3>1, <3>2, <3>3, <3>4, <3>5, <3>6
    <3>12. Stopping'
      BY <2>2, <3>1, <3>2, <3>3, <3>4, <3>5, <3>6
    <3>13. StatusMatchesTable'
      BY <2>2, <3>1, <3>2, <3>3, <3>4, <3>5, <3>6
    <3>14. NoLostProcess'
      BY <2>2, <3>1, <3>2, <3>3, <3>4, <3>5, <3>6
    <3>15. LiveHasResources'
      BY <2>2, <3>1, <3>2, <3>3, <3>4, <3>5, <3>6
    <3>16. StopLeavesNothing'
      BY <2>2, <3>1, <3>2, <3>3, <3>4, <3>5, <3>6
    <3>17. CacheIsBacked'
      BY <3>4
    <3> QED
      BY <3>7, <3>8, <3>9, <3>10, <3>11, <3>12, <3>13, <3>14, <3>15, <3>16, <3>17
  <2> QED
    BY <2>1, <2>2
<1>2. CASE StopCancelled
  BY <1>2 DEF StopCancelled
<1>3. CASE Kill
  BY <1>3 DEF Kill
<1>4. CASE AwaitDone
  BY <1>4 DEF AwaitDone
<1>5. CASE RemoveConfig
  BY <1>5 DEF RemoveConfig
<1>6. CASE RemoveConfigFails
  BY <1>6 DEF RemoveConfigFails
<1>7. CASE CleanupNetwork \/ CleanupNetworkInPart
  <2>1. \A p \in Procs : procs[p].loc = call.loc => ~ Live(p)
    BY <1>7, NothingRunsThere DEF CleanupNetwork, CleanupNetworkInPart
  <2>2. CASE CleanupNetwork
    BY <2>1, <2>2 DEF CleanupNetwork, Cleans
  <2>3. CASE CleanupNetworkInPart
    BY <2>1, <2>3 DEF CleanupNetworkInPart, CleansInPart
  <2> QED
    BY <1>7, <2>2, <2>3
<1>8. CASE CleanupNetworkFails
  <2>1. \A p \in Procs : procs[p].loc = call.loc => ~ Live(p)
    BY <1>8, NothingRunsThere DEF CleanupNetworkFails
  <2>2. CASE net' = [net EXCEPT ![call.loc] = FALSE]
    BY <1>8, <2>1, <2>2 DEF CleanupNetworkFails, CleanupError
  <2>3. CASE UNCHANGED net
    BY <1>8, <2>1, <2>3 DEF CleanupNetworkFails, CleanupError
  <2> QED
    BY <1>8, <2>2, <2>3 DEF CleanupNetworkFails, CleanupError
<1>9. CASE Unregister
  <2>1. call.loc \in Locations
    BY <1>9 DEF Unregister
  <2>2. \A q \in Procs : procs[q].loc = call.loc => ~ Unreaped(q)
    BY <1>9, NothingRunsThere DEF Unregister
  <2>3. RunnerTypeOK'
    BY <1>9, <2>1, <2>2 DEF Unregister
  <2>4. UsedProcs'
    BY <1>9, <2>1, <2>2 DEF Unregister
  <2>5. TableIsSound'
    BY <1>9, <2>1, <2>2 DEF Unregister
  <2>6. CallShape'
    BY <1>9, <2>1, <2>2 DEF Unregister
  <2>7. Starting'
    BY <1>9, <2>1, <2>2 DEF Unregister
  <2>8. Stopping'
    BY <1>9, <2>1, <2>2 DEF Unregister
  <2>9. StatusMatchesTable'
    BY <1>9, <2>1, <2>2 DEF Unregister
  <2>10. NoLostProcess'
    BY <1>9, <2>1, <2>2 DEF Unregister
  <2>11. LiveHasResources'
    BY <1>9, <2>1, <2>2 DEF Unregister
  <2>12. StopLeavesNothing'
    BY <1>9, <2>1, <2>2 DEF Unregister
  <2>13. CacheIsBacked'
    BY <1>9 DEF Unregister
  <2> QED
    BY <2>3, <2>4, <2>5, <2>6, <2>7, <2>8, <2>9, <2>10, <2>11, <2>12, <2>13
<1> QED
  BY <1>1, <1>2, <1>3, <1>4, <1>5, <1>6, <1>7, <1>8, <1>9 DEF StopStep

(* An exit, a cmd.Wait and a watch goroutine preserve RunnerInv at any     *)
(* point of a call.                                                        *)
LEMMA ProcessStepInv == RunnerInv /\ (WatchStep \/ ExitStep) => RunnerInv'
<1> SUFFICES ASSUME RunnerInv, NEW p \in Procs,
                    ProcessExit(p) \/ KillTakesEffect(p) \/ Reap(p) \/ Watch(p)
             PROVE  RunnerInv'
  BY DEF WatchStep, ExitStep
<1> USE RunnerAssumption DEF RunnerInv, RunnerTypeOK, At, Goto, FailAt, Call,
        StartSteps, StopSteps, ReturnSteps, Ops, ProcStates, RunnerStatuses, Proc,
        UsedProcs, TableIsSound, CallShape, CacheIsBacked, Starting, Stopping,
        CleanupEnds, network,
        StatusMatchesTable, NoLostProcess, Reachable, LiveHasResources,
        StopLeavesNothing, Live, Unreaped
<1>1. CASE ProcessExit(p) \/ KillTakesEffect(p)
  <2>1. CASE ProcessExit(p)
    BY <2>1 DEF ProcessExit
  <2>2. CASE KillTakesEffect(p)
    BY <2>2 DEF KillTakesEffect
  <2> QED
    BY <1>1, <2>1, <2>2
<1>2. CASE Reap(p)
  BY <1>2 DEF Reap
<1>3. CASE Watch(p)
  <2>1. /\ procs[p].state = "reaped"
        /\ procs[p].loc \in Locations
        /\ procs' = [procs EXCEPT ![p] = FreeProc]
        /\ UNCHANGED <<file, network, call, faults>>
    BY <1>3 DEF Watch
  <2>2. CASE processes[procs[p].loc] = p
    <3>1. processes' = [processes EXCEPT ![procs[p].loc] = None]
      BY <1>3, <2>2 DEF Watch
    <3>2. \E s \in {"stopped", "failed"} :
             statuses' = [statuses EXCEPT ![procs[p].loc] = s]
      BY <1>3, <2>2 DEF Watch
    <3> QED
      BY <2>1, <2>2, <3>1, <3>2 DEF FreeProc
  <2>3. CASE processes[procs[p].loc] # p
    <3>1. UNCHANGED <<processes, statuses>>
      BY <1>3, <2>3 DEF Watch
    <3> QED
      BY <2>1, <2>3, <3>1 DEF FreeProc
  <2> QED
    BY <2>2, <2>3
<1> QED
  BY <1>1, <1>2, <1>3

(* A call begins; CallUnchanged is the rest of the runner's state.         *)
LEMMA BeginInv ==
  ASSUME RunnerInv, At("idle"), NEW l \in Locations, NEW c \in Configs,
         BeginStart(l, c) \/ BeginStop(l) \/ BeginRestart(l, c),
         UNCHANGED <<processes, statuses, procs, file, network, faults>>
  PROVE  RunnerInv'
<1> USE RunnerAssumption DEF RunnerInv, RunnerTypeOK, At, Call,
        StartSteps, StopSteps, ReturnSteps, Ops, ProcStates, RunnerStatuses, Proc,
        UsedProcs, TableIsSound, CallShape, CacheIsBacked, Starting, Stopping,
        CleanupEnds, network,
        StatusMatchesTable, NoLostProcess, Reachable, LiveHasResources,
        StopLeavesNothing, Live, Unreaped
<1>1. CASE BeginStart(l, c)
  BY <1>1 DEF BeginStart
<1>2. CASE BeginStop(l)
  BY <1>2 DEF BeginStop
<1>3. CASE BeginRestart(l, c)
  BY <1>3 DEF BeginRestart
<1> QED
  BY <1>1, <1>2, <1>3

(* BeginStop needs no configuration.                                       *)
LEMMA BeginStopInv ==
  ASSUME RunnerInv, At("idle"), NEW l \in Locations, BeginStop(l),
         UNCHANGED <<processes, statuses, procs, file, network, faults>>
  PROVE  RunnerInv'
BY RunnerAssumption
   DEF RunnerInv, RunnerTypeOK, At, Call, BeginStop,
        StartSteps, StopSteps, ReturnSteps, Ops, ProcStates, RunnerStatuses, Proc,
        UsedProcs, TableIsSound, CallShape, CacheIsBacked, Starting, Stopping,
        CleanupEnds, network,
        StatusMatchesTable, NoLostProcess, Reachable, LiveHasResources,
        StopLeavesNothing, Live, Unreaped

(* A call that has answered is over.                                       *)
LEMMA LeaveInv ==
  ASSUME RunnerInv, call.step \in ReturnSteps, call' = NoCall,
         UNCHANGED <<processes, statuses, procs, file, network, faults>>
  PROVE  RunnerInv'
BY RunnerAssumption
   DEF RunnerInv, RunnerTypeOK, At, Call, NoCall,
        StartSteps, StopSteps, ReturnSteps, Ops, ProcStates, RunnerStatuses, Proc,
        UsedProcs, TableIsSound, CallShape, CacheIsBacked, Starting, Stopping,
        CleanupEnds, network,
        StatusMatchesTable, NoLostProcess, Reachable, LiveHasResources,
        StopLeavesNothing, Live, Unreaped

(* So does every step of the runner.                                       *)
LEMMA RunnerStepInv == RunnerInv /\ RunnerStep => RunnerInv'
BY StartStepInv, StopStepInv, ProcessStepInv DEF RunnerStep

(* A new runner satisfies RunnerInv.                                       *)
LEMMA RunnerInitInv == RunnerInit => RunnerInv
BY RunnerAssumption
   DEF RunnerInit, RunnerInv, RunnerTypeOK, At, Call, NoCall, FreeProc,
        StartSteps, StopSteps, ReturnSteps, Ops, ProcStates, RunnerStatuses, Proc,
        UsedProcs, TableIsSound, CallShape, CacheIsBacked, Starting, Stopping,
        CleanupEnds, network,
        StatusMatchesTable, NoLostProcess, Reachable, LiveHasResources,
        StopLeavesNothing, Live, Unreaped

(* RunnerInv is about the state of the runner only.                        *)
LEMMA RunnerStutterInv == RunnerInv /\ UNCHANGED runnerVars => RunnerInv'
BY DEF runnerVars, RunnerInv, RunnerTypeOK, At,
        UsedProcs, TableIsSound, CallShape, CacheIsBacked, Starting, Stopping,
        CleanupEnds, network,
        StatusMatchesTable, NoLostProcess, Reachable, LiveHasResources,
        StopLeavesNothing, Live, Unreaped

-----------------------------------------------------------------------------
(* RunnerInv is an invariant of the runner, whatever the caller does.      *)
THEOREM RunnerInvariant == RunnerSpec => []RunnerInv
<1>1. RunnerInv /\ Enter => RunnerInv'
  <2> SUFFICES ASSUME RunnerInv, Enter PROVE RunnerInv'
    OBVIOUS
  <2>1. PICK l \in Locations :
            BeginStop(l) \/ \E c \in Configs : BeginStart(l, c) \/ BeginRestart(l, c)
    BY DEF Enter
  <2>2. At("idle") /\ UNCHANGED <<processes, statuses, procs, file, network, faults>>
    BY DEF Enter
  <2>3. CASE BeginStop(l)
    BY <2>2, <2>3, BeginStopInv
  <2>4. CASE \E c \in Configs : BeginStart(l, c) \/ BeginRestart(l, c)
    BY <2>2, <2>4, BeginInv
  <2> QED
    BY <2>1, <2>3, <2>4
<1>2. RunnerInv /\ Leave => RunnerInv'
  BY LeaveInv DEF Leave
<1>3. RunnerInv /\ [RunnerNext]_runnerVars => RunnerInv'
  BY <1>1, <1>2, RunnerStepInv, RunnerStutterInv DEF RunnerNext
<1> QED
  BY <1>3, RunnerInitInv, PTL DEF RunnerSpec

(* Two live processes of a location would both be in its one table entry.  *)
LEMMA InvGivesOneProcess == RunnerInv => OneProcessPerLocation
BY RunnerAssumption
   DEF RunnerInv, RunnerTypeOK, OneProcessPerLocation, NoLostProcess, Reachable,
       Starting, StartSteps, TableIsSound, At, Live, Unreaped

(* The types of the runner's state.                                        *)
THEOREM RunnerTypes == RunnerSpec => []RunnerTypeOK
<1>1. RunnerInv => RunnerTypeOK
  BY DEF RunnerInv
<1> QED
  BY <1>1, RunnerInvariant, PTL

(* However watch goroutines, exits and failures interleave with Start,     *)
(* Stop and Restart, a location never has two live processes.              *)
THEOREM NeverTwoProcesses == RunnerSpec => []OneProcessPerLocation
BY InvGivesOneProcess, RunnerInvariant, PTL

(* No process that still runs drops out of the table.                      *)
THEOREM ProcessesAreNeverLost == RunnerSpec => []NoLostProcess
<1>1. RunnerInv => NoLostProcess
  BY DEF RunnerInv
<1> QED
  BY <1>1, RunnerInvariant, PTL

(* Status says running exactly of the locations that have a process.       *)
THEOREM StatusIsRight == RunnerSpec => []StatusMatchesTable
<1>1. RunnerInv => StatusMatchesTable
  BY DEF RunnerInv
<1> QED
  BY <1>1, RunnerInvariant, PTL

(* The configuration and the namespace of a process outlive it, however    *)
(* long its SIGKILL takes, unless a failed Cleanup has left the cache      *)
(* promising a namespace that is not there.                                *)
THEOREM ResourcesOutliveProcess == RunnerSpec => []LiveHasResources
<1>1. RunnerInv => LiveHasResources
  BY DEF RunnerInv
<1> QED
  BY <1>1, RunnerInvariant, PTL

(* A Stop that returns success has left nothing of the location behind.    *)
THEOREM StopIsComplete == RunnerSpec => []StopLeavesNothing
<1>1. RunnerInv => StopLeavesNothing
  BY DEF RunnerInv
<1> QED
  BY <1>1, RunnerInvariant, PTL

-----------------------------------------------------------------------------
(***************************************************************************)
(* The supervisor.                                                         *)
(***************************************************************************)
(* The part of the inductive invariant that is about the runner's call and *)
(* the table.                                                              *)
CallInv ==
    TableMatchesRunning /\ KillTarget /\ StartFindsNoProcess

(* A step of the runner leaves the call's subject alone, and a caller that *)
(* is not inside the runner stays out of it.                               *)
LEMMA CallFrame ==
  RunnerInv /\ RunnerStep =>
    /\ call'.loc = call.loc /\ call'.cfg = call.cfg /\ call'.op = call.op
    /\ call'.step = "idle" <=> call.step = "idle"
<1> SUFFICES ASSUME RunnerInv, RunnerStep
             PROVE  /\ call'.loc = call.loc /\ call'.cfg = call.cfg /\ call'.op = call.op
                    /\ call'.step = "idle" <=> call.step = "idle"
  OBVIOUS
<1> USE DEF RunnerInv, RunnerTypeOK, At, Goto, FailAt, Call
<1>1. CASE StartStep
  BY <1>1 DEF StartStep, StartRefused, StartAccepted, StartCancelled, EnsureFromCache,
             EnsureNetwork, EnsureNetworkFails, Render, RenderFails, Exec, ExecFails,
             StartFailsAt, Register
<1>2. CASE StopStep
  BY <1>2 DEF StopStep, MarkStopping, StopCancelled, Kill, AwaitDone,
             RemoveConfig, RemoveConfigFails, CleanupNetwork, CleanupNetworkInPart,
             CleanupNetworkFails, Unregister
<1>3. CASE WatchStep
  BY <1>3 DEF WatchStep, Reap, Watch
<1>4. CASE ExitStep
  BY <1>4 DEF ExitStep, ProcessExit, KillTakesEffect
<1> QED
  BY <1>1, <1>2, <1>3, <1>4 DEF RunnerStep

(* The steps of Start keep the table in agreement with supervisor.running. *)
LEMMA StartStepCallInv == SupInv /\ StartStep /\ UNCHANGED supVars => CallInv'
<1> SUFFICES ASSUME SupInv, StartStep, UNCHANGED supVars PROVE CallInv'
  OBVIOUS
<1> USE RunnerAssumption, SupervisorAssumption
    DEF supVars, SupInv, SupTypeOK, RunnerInv, RunnerTypeOK, CallInv, CallShape,
        TableMatchesRunning, KillTarget, StartFindsNoProcess, TableIsSound, UsedProcs,
        At, Goto, FailAt, Call, StartSteps, StopSteps, ReturnSteps, Ops, Proc,
        ProcStates, RunnerStatuses
<1>1. CASE StartRefused
  BY <1>1 DEF StartRefused
<1>2. CASE StartAccepted
  BY <1>2 DEF StartAccepted, Starting
<1>3. CASE StartCancelled
  BY <1>3 DEF StartCancelled
<1>4. CASE EnsureNetwork
  BY <1>4 DEF EnsureNetwork
<1>5. CASE EnsureNetworkFails
  BY <1>5 DEF EnsureNetworkFails
<1>6. CASE Render
  BY <1>6 DEF Render
<1>7. CASE RenderFails
  BY <1>7 DEF RenderFails, StartFailsAt
<1>8. CASE Exec
  BY <1>8 DEF Exec
<1>9. CASE ExecFails
  BY <1>9 DEF ExecFails, StartFailsAt
<1>10. CASE Register
  BY <1>10 DEF Register, Starting, Unreaped
<1>11. CASE EnsureFromCache
  BY <1>11 DEF EnsureFromCache
<1> QED
  BY <1>1, <1>2, <1>3, <1>4, <1>5, <1>6, <1>7, <1>8, <1>9, <1>10, <1>11 DEF StartStep

(* The steps of Stop do; what they kill is what supervisor.running says.   *)
LEMMA StopStepCallInv == SupInv /\ StopStep /\ UNCHANGED supVars => CallInv'
<1> SUFFICES ASSUME SupInv, StopStep, UNCHANGED supVars PROVE CallInv'
  OBVIOUS
<1> USE RunnerAssumption, SupervisorAssumption
    DEF supVars, SupInv, SupTypeOK, RunnerInv, RunnerTypeOK, CallInv, CallShape,
        TableMatchesRunning, KillTarget, StartFindsNoProcess, TableIsSound, UsedProcs,
        At, Goto, FailAt, Call, StartSteps, StopSteps, ReturnSteps, Ops, Proc,
        ProcStates, RunnerStatuses
<1>1. CASE MarkStopping
  <2>1. CASE processes[call.loc] = None
    BY <1>1, <2>1 DEF MarkStopping
  <2>2. CASE processes[call.loc] # None
    <3> DEFINE p == processes[call.loc]
    <3>1. call.loc \in Locations /\ p \in Procs /\ procs[p].cfg = running[call.loc]
      BY <1>1, <2>2 DEF MarkStopping
    <3>2. call' = [call EXCEPT !.step = "kill", !.proc = p]
      BY <1>1, <2>2 DEF MarkStopping
    <3>3. procs' = [procs EXCEPT ![p].stopping = TRUE]
      BY <1>1, <2>2 DEF MarkStopping
    <3>4. UNCHANGED <<processes, statuses, file, network, faults>>
      BY <1>1 DEF MarkStopping
    <3>5. \A q \in Procs : procs'[q].cfg = procs[q].cfg
      BY <3>1, <3>3
    <3>6. call.step = "mark"
      BY <1>1 DEF MarkStopping
    <3>7. TableMatchesRunning'
      BY <3>2, <3>4, <3>5, <3>6
    <3>8. KillTarget'
      BY <3>1, <3>2, <3>5, <3>6
    <3>9. StartFindsNoProcess'
      BY <3>2
    <3> QED
      BY <3>7, <3>8, <3>9
  <2> QED
    BY <2>1, <2>2
<1>2. CASE StopCancelled
  BY <1>2 DEF StopCancelled
<1>3. CASE Kill
  BY <1>3 DEF Kill, Live
<1>4. CASE AwaitDone
  BY <1>4 DEF AwaitDone
<1>5. CASE RemoveConfig
  BY <1>5 DEF RemoveConfig
<1>6. CASE RemoveConfigFails
  BY <1>6 DEF RemoveConfigFails
<1>7. CASE CleanupNetwork \/ CleanupNetworkInPart
  <2>1. CASE CleanupNetwork
    BY <2>1 DEF CleanupNetwork
  <2>2. CASE CleanupNetworkInPart
    BY <2>2 DEF CleanupNetworkInPart
  <2> QED
    BY <1>7, <2>1, <2>2
<1>8. CASE CleanupNetworkFails
  BY <1>8 DEF CleanupNetworkFails
<1>9. CASE Unregister
  BY <1>9 DEF Unregister
<1> QED
  BY <1>1, <1>2, <1>3, <1>4, <1>5, <1>6, <1>7, <1>8, <1>9 DEF StopStep

(* Exits and watch goroutines only take entries out of the table.          *)
LEMMA ProcessStepCallInv ==
  SupInv /\ (WatchStep \/ ExitStep) /\ UNCHANGED supVars => CallInv'
<1> SUFFICES ASSUME SupInv, NEW p \in Procs, UNCHANGED supVars,
                    ProcessExit(p) \/ KillTakesEffect(p) \/ Reap(p) \/ Watch(p)
             PROVE  CallInv'
  BY DEF WatchStep, ExitStep
<1> USE RunnerAssumption, SupervisorAssumption
    DEF supVars, SupInv, SupTypeOK, RunnerInv, RunnerTypeOK, CallInv, CallShape,
        TableMatchesRunning, KillTarget, StartFindsNoProcess, TableIsSound, UsedProcs,
        At, Goto, FailAt, Call, StartSteps, StopSteps, ReturnSteps, Ops, Proc,
        ProcStates, RunnerStatuses
<1>1. CASE ProcessExit(p) \/ KillTakesEffect(p)
  <2>1. CASE ProcessExit(p)
    BY <2>1 DEF ProcessExit
  <2>2. CASE KillTakesEffect(p)
    BY <2>2 DEF KillTakesEffect
  <2> QED
    BY <1>1, <2>1, <2>2
<1>2. CASE Reap(p)
  BY <1>2 DEF Reap
<1>3. CASE Watch(p)
  <2>1. procs' = [procs EXCEPT ![p] = FreeProc] /\ UNCHANGED call
    BY <1>3 DEF Watch
  <2>2. \A l \in Locations : processes'[l] \in {processes[l], None}
    BY <1>3 DEF Watch
  <2>3. processes'[procs[p].loc] # p
    BY <1>3 DEF Watch
  <2>4. TableMatchesRunning'
    BY <2>1, <2>2, <2>3
  <2>5. KillTarget'
    BY <2>1 DEF FreeProc
  <2>6. StartFindsNoProcess'
    BY <2>1, <2>2
  <2> QED
    BY <2>4, <2>5, <2>6
<1> QED
  BY <1>1, <1>2, <1>3

(* What is up at a location the call is not about, or at one whose call has *)
(* just succeeded, stays so or crashes.                                    *)
LEMMA UpIsKept ==
  ASSUME SupInv, RunnerStep, NEW l \in Locations, Up(l), l # call.loc \/ At("ok")
  PROVE  Up(l)'
<1>1. /\ processes \in [Locations -> Procs \cup {None}]
      /\ statuses \in [Locations -> RunnerStatuses]
      /\ procs \in [Procs -> Proc]
      /\ call \in Call
      /\ statuses[l] = "running" <=> processes[l] # None
      /\ processes[l] # None => /\ processes[l] \in Procs
                                /\ procs[processes[l]].loc = l
                                /\ procs[processes[l]].state # "free"
  BY DEF SupInv, RunnerInv, RunnerTypeOK, StatusMatchesTable, TableIsSound
<1> DEFINE p == processes[l]
<1>2. ASSUME UNCHANGED <<processes, statuses>>,
             p # None => procs'[p].stopping = procs[p].stopping
      PROVE  Up(l)'
  BY <1>1, <1>2 DEF Up
<1>3. ASSUME StartStep \/ StopStep PROVE l # call.loc
  BY <1>3 DEF At, Goto, FailAt, StartStep, StartRefused, StartAccepted, StartCancelled,
     EnsureFromCache, EnsureNetwork, EnsureNetworkFails, Render, RenderFails, Exec, ExecFails,
     StartFailsAt, Register, StopStep, MarkStopping, StopCancelled, Kill, AwaitDone,
     RemoveConfig, RemoveConfigFails, CleanupNetwork, CleanupNetworkInPart,
     CleanupNetworkFails, Unregister
<1>4. CASE StartStep
  <2>1. CASE Register
    BY <1>1, <1>3, <1>4, <2>1 DEF Register, Up
  <2>2. CASE Exec
    BY <1>1, <1>2, <2>2 DEF Exec
  <2>3. CASE ~ Register /\ ~ Exec
    BY <1>2, <1>4, <2>3 DEF StartStep, StartRefused, StartAccepted, StartCancelled, FailAt,
       EnsureFromCache, EnsureNetwork, EnsureNetworkFails, Render, RenderFails, ExecFails,
       StartFailsAt
  <2> QED
    BY <2>1, <2>2, <2>3
<1>5. CASE StopStep
  <2>1. CASE Unregister
    BY <1>1, <1>3, <1>5, <2>1 DEF Unregister, Up
  <2>2. CASE MarkStopping
    <3>1. call.loc \in Locations
      BY <2>2 DEF MarkStopping, SupInv, RunnerInv, CallShape, At
    <3>2. processes[call.loc] # None => processes[call.loc] # p
      BY <1>1, <1>3, <1>5, <3>1 DEF SupInv, RunnerInv, TableIsSound
    <3> QED
      BY <1>1, <1>2, <2>2, <3>2 DEF MarkStopping
  <2>3. CASE Kill
    BY <1>1, <1>2, <2>3 DEF Kill, Proc
  <2>4. CASE ~ Unregister /\ ~ MarkStopping /\ ~ Kill
    BY <1>2, <1>5, <2>4 DEF StopStep, StopCancelled, FailAt, AwaitDone, RemoveConfig,
       RemoveConfigFails, CleanupNetwork, CleanupNetworkInPart, CleanupNetworkFails
  <2> QED
    BY <2>1, <2>2, <2>3, <2>4
<1>6. ASSUME NEW q \in Procs, ProcessExit(q) \/ KillTakesEffect(q) \/ Reap(q) PROVE Up(l)'
  BY <1>1, <1>2, <1>6 DEF ProcessExit, KillTakesEffect, Reap, Proc
<1>7. ASSUME NEW q \in Procs, Watch(q) PROVE Up(l)'
  <2>1. CASE q = p
    <3>1. procs[q].loc = l /\ processes[l] = q /\ ~ procs[q].stopping
      BY <1>1, <2>1, RunnerAssumption DEF Up
    <3>2. statuses' = [statuses EXCEPT ![l] = "failed"]
      BY <1>7, <3>1 DEF Watch
    <3> QED
      BY <1>1, <3>2 DEF Up
  <2>2. CASE q # p
    <3>1. procs'[p] = procs[p]
      BY <1>1, <1>7, <2>2 DEF Watch
    <3>2. processes'[l] = p /\ statuses'[l] = statuses[l]
      BY <1>1, <1>7, <2>2 DEF Watch
    <3> QED
      BY <3>1, <3>2 DEF Up
  <2> QED
    BY <2>1, <2>2
<1> QED
  BY <1>4, <1>5, <1>6, <1>7 DEF RunnerStep, WatchStep, ExitStep

(* A call that answers ok to a start has put a process into the table.     *)
LEMMA OkIsUp ==
  ASSUME SupInv, RunnerStep, call'.step = "ok", call'.op # "stop"
  PROVE  Up(call.loc)'
<1>1. call'.loc = call.loc /\ call'.op = call.op
  BY CallFrame DEF SupInv
<1>2. CASE At("ok")
  <2>1. PICK l \in Locations : l = call.loc
    BY <1>2 DEF SupInv, RunnerInv, CallShape, At
  <2>2. Up(l)
    BY <1>1, <1>2, <2>1 DEF SupInv, VisitedAreUp
  <2>3. Up(l)'
    BY <1>2, <2>2, UpIsKept
  <2> QED
    BY <1>1, <2>1, <2>3 DEF Up
<1>3. CASE ~ At("ok")
  <2>1. call \in Call
    BY DEF SupInv, RunnerInv, RunnerTypeOK
  <2>2. Register
    <3> USE <2>1, <1>3 DEF At, Goto, FailAt, Call
    <3>1. CASE StartStep
      BY <3>1 DEF StartStep, StartRefused, StartAccepted, StartCancelled, EnsureFromCache,
         EnsureNetwork, EnsureNetworkFails, Render, RenderFails, Exec, ExecFails, StartFailsAt
    <3>2. CASE StopStep
      <4>1. Unregister
        BY <3>2 DEF StopStep, MarkStopping, StopCancelled, Kill, AwaitDone, RemoveConfig,
           RemoveConfigFails, CleanupNetwork, CleanupNetworkInPart, CleanupNetworkFails
      <4>2. call.op # "restart" /\ call.op # "stop" /\ call.step \in StopSteps
        BY <1>1, <4>1 DEF Unregister, StopSteps
      <4> QED
        BY <4>2 DEF SupInv, RunnerInv, CallShape, Ops, StopSteps
    <3>3. CASE WatchStep \/ ExitStep
      BY <3>3 DEF WatchStep, ExitStep, Reap, Watch, ProcessExit, KillTakesEffect
    <3> QED
      BY <3>1, <3>2, <3>3 DEF RunnerStep
  <2>3. call.loc \in Locations /\ call.proc \in Procs /\ ~ procs[call.proc].stopping
    BY <2>2 DEF Register, SupInv, RunnerInv, Starting, CallShape, At
  <2> QED
    BY <1>1, <2>2, <2>3 DEF Register, Up, SupInv, RunnerInv, RunnerTypeOK
<1> QED
  BY <1>2, <1>3

(* The steps of the runner preserve the whole invariant.                   *)
LEMMA RunnerMovesInv == SupInv /\ RunnerMoves => SupInv'
<1> SUFFICES ASSUME SupInv, RunnerStep, UNCHANGED supVars PROVE SupInv'
  BY DEF RunnerMoves
<1>1. RunnerInv'
  BY RunnerStepInv DEF SupInv
<1>2. CallInv'
  BY StartStepCallInv, StopStepCallInv, ProcessStepCallInv DEF RunnerStep
<1>3. /\ call'.loc = call.loc /\ call'.cfg = call.cfg
      /\ call'.step = "idle" <=> call.step = "idle"
  BY CallFrame DEF SupInv
<1>4. SupTypeOK'
  BY <1>1 DEF SupInv, SupTypeOK, RunnerInv, supVars
<1>5. LockShape' /\ LoopProgress'
  BY <1>3 DEF SupInv, LockShape, LoopProgress, supVars, At, Want, Active
<1>6. ASSUME owner # None, NEW l \in Locations \ (todo \cup doomed), Active(loaded[owner][l])
      PROVE  Up(l)'
  <2>1. l # call.loc
    BY <1>6, RunnerAssumption DEF SupInv, RunnerInv, CallShape, LoopProgress, At, NoCall
  <2> QED
    BY <1>6, <2>1, UpIsKept DEF SupInv, VisitedAreUp
<1>7. VisitedAreUp'
  BY <1>6, OkIsUp DEF VisitedAreUp, At, supVars, Up
<1> QED
  BY <1>1, <1>2, <1>4, <1>5, <1>7 DEF SupInv, CallInv

-----------------------------------------------------------------------------
(* The steps of a caller: its loop over the snapshot, with the lock held.  *)

(* Starting a call changes no type of the supervisor.                      *)
LEMMA TypesOfBegin ==
  ASSUME RunnerInv', SupTypeOK, UNCHANGED <<desired, writes, pc, loaded, owner, todo, doomed>>,
         running' \in [Locations -> Configs \cup {None}]
  PROVE  SupTypeOK'
BY DEF SupTypeOK, RunnerInv

(* A visit of an entry preserves the invariant, one case per branch of the *)
(* switch.                                                                 *)
LEMMA VisitInv ==
  ASSUME SupInv, NEW c \in Callers, NEW l \in Locations, Visit(c, l)
  PROVE  SupInv'
<1> USE RunnerAssumption, SupervisorAssumption
<1>1. /\ owner = c /\ owner # None /\ pc[c] = "visiting" /\ At("idle") /\ l \in todo
      /\ loaded[c][l] # Absent
      /\ loaded[c][l] \in Entries
  BY DEF Visit, VisitStop, VisitRevive, VisitStart, VisitRestart, VisitNothing, Visiting,
         NextEntry, SupInv, LoopProgress, SupTypeOK
<1>2. running[l] = None => processes[l] = None
  BY <1>1 DEF SupInv, TableMatchesRunning, RunnerInv, RunnerTypeOK, UsedProcs,
              TableIsSound, At
<1> USE DEF CallInv, TableMatchesRunning, KillTarget, StartFindsNoProcess, LockShape,
        LoopProgress, VisitedAreUp, Up, Want, Active, Entries, supVars, runnerVars, At,
        CallUnchanged, StopSteps
<1>3. CASE VisitStop(c, l)
  <2>1. RunnerInv'
    BY <1>1, <1>3, BeginStopInv DEF VisitStop, SupInv
  <2>2. SupTypeOK'
    BY <1>3, <2>1, TypesOfBegin DEF VisitStop, SupInv, SupTypeOK
  <2> QED
    BY <1>1, <1>3, <2>1, <2>2 DEF VisitStop, BeginStop, SupInv
<1>4. CASE VisitRevive(c, l)
  <2>1. RunnerInv'
    BY <1>1, <1>4, BeginInv DEF VisitRevive, SupInv
  <2>2. SupTypeOK'
    BY <1>4, <2>1, TypesOfBegin DEF VisitRevive, SupInv, SupTypeOK
  <2>3. processes[l] = None
    BY <1>4 DEF VisitRevive, RunnerRunning, SupInv, RunnerInv, StatusMatchesTable
  <2> QED
    BY <1>1, <1>4, <2>1, <2>2, <2>3 DEF VisitRevive, BeginStart, SupInv, SupTypeOK
<1>5. CASE VisitStart(c, l)
  <2>1. RunnerInv'
    BY <1>1, <1>5, BeginInv DEF VisitStart, SupInv
  <2>2. SupTypeOK'
    BY <1>5, <2>1, TypesOfBegin DEF VisitStart, SupInv, SupTypeOK
  <2> QED
    BY <1>1, <1>2, <1>5, <2>1, <2>2 DEF VisitStart, BeginStart, SupInv
<1>6. CASE VisitRestart(c, l)
  <2>1. RunnerInv'
    BY <1>1, <1>6, BeginInv DEF VisitRestart, SupInv
  <2>2. SupTypeOK'
    BY <1>6, <2>1, TypesOfBegin DEF VisitRestart, SupInv, SupTypeOK
  <2> QED
    BY <1>1, <1>6, <2>1, <2>2 DEF VisitRestart, BeginRestart, SupInv
<1>7. CASE VisitNothing(c, l)
  <2>1. RunnerInv'
    BY <1>7, RunnerStutterInv DEF VisitNothing, SupInv
  <2>2. SupTypeOK'
    BY <1>7, <2>1 DEF VisitNothing, SupInv, SupTypeOK, RunnerInv
  <2>3. VisitedAreUp'
    <3>1. ASSUME NEW k \in Locations \ (todo' \cup doomed'), Active(loaded[c][k])
          PROVE  Up(k)
      BY <1>1, <1>7, <3>1 DEF VisitNothing, SupInv, RunnerRunning, RunnerInv,
         StatusMatchesTable
    <3> QED
      BY <1>1, <1>7, <3>1 DEF VisitNothing
  <2> HIDE DEF VisitedAreUp
  <2> QED
    BY <1>1, <1>7, <2>1, <2>2, <2>3 DEF VisitNothing, SupInv
<1> QED
  BY <1>3, <1>4, <1>5, <1>6, <1>7 DEF Visit

(* So does the removal of a location whose row has gone.                   *)
LEMMA RemoveInv ==
  ASSUME SupInv, NEW c \in Callers, NEW l \in Locations, Remove(c, l)
  PROVE  SupInv'
<1> USE RunnerAssumption, SupervisorAssumption
<1>1. /\ owner = c /\ owner # None /\ pc[c] = "removing" /\ At("idle") /\ l \in todo
      /\ loaded[c][l] = Absent
  BY DEF Remove, NextRemoved, SupInv, LoopProgress
<1>2. RunnerInv'
  BY <1>1, BeginStopInv DEF Remove, SupInv, CallUnchanged
<1>3. SupTypeOK'
  BY <1>2, TypesOfBegin DEF Remove, SupInv, SupTypeOK, supVars
<1> QED
  BY <1>1, <1>2, <1>3
     DEF Remove, BeginStop, SupInv, TableMatchesRunning, KillTarget, StartFindsNoProcess,
         LockShape, LoopProgress, VisitedAreUp, Up, Want, Active, supVars, At,
         CallUnchanged, StopSteps

(* Entering the answer of the runner into the table does.                  *)
LEMMA CallSucceededInv ==
  ASSUME SupInv, NEW c \in Callers, CallSucceeded(c)
  PROVE  SupInv'
<1> USE RunnerAssumption, SupervisorAssumption
<1>1. /\ owner = c /\ owner # None /\ At("ok") /\ call' = NoCall
      /\ running' = [running EXCEPT ![call.loc] = call.cfg]
      /\ todo' = todo \ {call.loc}
      /\ UNCHANGED <<processes, statuses, procs, file, network, faults>>
      /\ UNCHANGED <<desired, writes, pc, loaded, owner, doomed>>
  BY DEF CallSucceeded, CallUnchanged
<1>2. call.loc \in Locations /\ call.cfg \in Configs \cup {None}
  BY <1>1 DEF SupInv, RunnerInv, CallShape, At
<1>3. RunnerInv'
  BY <1>1, LeaveInv DEF SupInv, At, ReturnSteps
<1>4. SupTypeOK'
  BY <1>1, <1>2, <1>3 DEF SupInv, SupTypeOK, RunnerInv
<1>5. TableMatchesRunning'
  BY <1>1, <1>2 DEF SupInv, SupTypeOK, TableMatchesRunning, At, NoCall
<1>6. LockShape' /\ KillTarget' /\ StartFindsNoProcess'
  BY <1>1 DEF SupInv, LockShape, KillTarget, StartFindsNoProcess, At, NoCall, StopSteps
<1>7. LoopProgress'
  BY <1>1, <1>2 DEF SupInv, SupTypeOK, LoopProgress, At, NoCall
<1>8. VisitedAreUp'
  <2>1. Active(loaded[owner][call.loc]) => Up(call.loc)
    <3> SUFFICES ASSUME Active(loaded[owner][call.loc]) PROVE Up(call.loc)
      OBVIOUS
    <3>1. call.cfg \in Configs
      BY <1>1 DEF SupInv, LoopProgress, Want, Active, At
    <3>2. call.op # "stop"
      BY <1>1, <3>1 DEF SupInv, RunnerInv, CallShape, At
    <3> QED
      BY <1>1, <3>2 DEF SupInv, VisitedAreUp
  <2>2. \A l \in Locations \ (todo' \cup doomed') : Active(loaded[owner][l]) => Up(l)
    BY <1>1, <2>1 DEF SupInv, VisitedAreUp
  <2> QED
    BY <1>1, <2>2 DEF VisitedAreUp, Up, At, NoCall
<1> QED
  BY <1>3, <1>4, <1>5, <1>6, <1>7, <1>8 DEF SupInv

(* Leaving, with an error or at the end, does.                             *)
LEMMA ReturnInv ==
  ASSUME SupInv, NEW c \in Callers, owner = c, CallFailed(c) \/ Finish(c)
  PROVE  SupInv'
<1> USE RunnerAssumption, SupervisorAssumption
<1>1. /\ UNCHANGED <<processes, statuses, procs, file, network, faults, desired, writes, running>>
      /\ owner' = None
      /\ pc' = [pc EXCEPT ![c] = "idle"]
      /\ loaded' = [loaded EXCEPT ![c] = NothingLoaded]
      /\ todo' = {} /\ doomed' = {}
      /\ call' = NoCall
      /\ ~ At("ok")
  BY DEF CallFailed, Finish, Return, CallUnchanged, runnerVars, SupInv, RunnerInv,
         CallShape, At
<1>2. RunnerInv'
  BY <1>1, LeaveInv, RunnerStutterInv
     DEF SupInv, At, ReturnSteps, CallFailed, Finish, runnerVars
<1>3. SupTypeOK'
  BY <1>1, <1>2 DEF SupInv, SupTypeOK, RunnerInv, Phases, Entries, NothingLoaded
<1> QED
  BY <1>1, <1>2, <1>3
     DEF SupInv, SupTypeOK, TableMatchesRunning, KillTarget, StartFindsNoProcess, LockShape,
         LoopProgress, VisitedAreUp, NoCall, At, StopSteps

(* Load, Lock, StopAll and CollectRemoved leave the runner alone.          *)
LEMMA TurnInv ==
  ASSUME SupInv, NEW c \in Callers, Load(c) \/ Lock(c) \/ StopAll(c) \/ CollectRemoved(c)
  PROVE  SupInv'
<1> USE RunnerAssumption, SupervisorAssumption
<1>1. UNCHANGED runnerVars /\ UNCHANGED running /\ At("idle")' = At("idle")
  BY DEF Load, Lock, StopAll, CollectRemoved, runnerVars, At
<1>2. RunnerInv'
  BY <1>1, RunnerStutterInv DEF SupInv
<1>3. TableMatchesRunning' /\ KillTarget' /\ StartFindsNoProcess'
  BY <1>1 DEF SupInv, TableMatchesRunning, KillTarget, StartFindsNoProcess, At, runnerVars
<1>4. SupTypeOK'
  <2> USE DEF SupInv, SupTypeOK, RunnerInv, Phases, Known
  <2>1. CASE Load(c)
    BY <1>2, <2>1 DEF Load
  <2>2. CASE Lock(c)
    BY <1>2, <2>2 DEF Lock
  <2>3. CASE StopAll(c)
    BY <1>2, <2>3 DEF StopAll
  <2>4. CASE CollectRemoved(c)
    BY <1>2, <2>4 DEF CollectRemoved
  <2> QED
    BY <2>1, <2>2, <2>3, <2>4
<1> USE DEF SupInv, SupTypeOK, LockShape, LoopProgress, VisitedAreUp, Up, Active,
        runnerVars, At, Phases
<1>5. CASE Load(c)
  BY <1>2, <1>3, <1>4, <1>5 DEF Load
<1>6. CASE Lock(c)
  BY <1>2, <1>3, <1>4, <1>6 DEF Lock
<1>7. CASE StopAll(c)
  BY <1>2, <1>3, <1>4, <1>7 DEF StopAll, NothingLoaded, Known, Want
<1>8. CASE CollectRemoved(c)
  BY <1>2, <1>3, <1>4, <1>8 DEF CollectRemoved, Known, Want
<1> QED
  BY <1>5, <1>6, <1>7, <1>8

(* So does every step of a caller.                                         *)
LEMMA CallerStepInv ==
  ASSUME SupInv, NEW c \in Callers, CallerStep(c)
  PROVE  SupInv'
<1>1. ASSUME NEW l \in Locations, Visit(c, l) \/ Remove(c, l) PROVE SupInv'
  BY <1>1, VisitInv, RemoveInv
<1>2. CASE CallFailed(c) \/ Finish(c)
  BY <1>2, ReturnInv DEF CallFailed, Finish
<1>3. CASE CallSucceeded(c)
  BY <1>3, CallSucceededInv
<1>4. CASE Load(c) \/ Lock(c) \/ StopAll(c) \/ CollectRemoved(c)
  BY <1>4, TurnInv
<1> QED
  BY <1>1, <1>2, <1>3, <1>4 DEF CallerStep, LoopStep

(* The panel starts again from nothing.                                    *)
LEMMA PanelRestartInv == SupInv /\ PanelRestart => SupInv'
<1> SUFFICES ASSUME SupInv, PanelRestart PROVE SupInv'
  OBVIOUS
<1> USE RunnerAssumption, SupervisorAssumption
<1>1. /\ processes' = [l \in Locations |-> None]
      /\ statuses' = [l \in Locations |-> "unknown"]
      /\ procs' = [p \in Procs |-> FreeProc]
      /\ call' = NoCall
      /\ faults' \in Nat
      /\ ensured' = [l \in Locations |-> None]
      /\ cleaned' = [l \in Locations |-> "clean"]
      /\ UNCHANGED <<file, net>>
  BY DEF PanelRestart, SupInv, RunnerInv, RunnerTypeOK
<1>2. RunnerInv'
  BY <1>1 DEF SupInv, RunnerInv, RunnerTypeOK, At, Call, NoCall, FreeProc,
        StartSteps, StopSteps, ReturnSteps, Ops, ProcStates, RunnerStatuses, Proc,
        UsedProcs, TableIsSound, CallShape, CacheIsBacked, Starting, Stopping,
        CleanupEnds, network,
        StatusMatchesTable, NoLostProcess, Reachable, LiveHasResources,
        StopLeavesNothing, Live, Unreaped
<1>3. SupTypeOK'
  BY <1>2 DEF PanelRestart, SupInv, SupTypeOK, RunnerInv, Phases, Entries, NothingLoaded,
              NothingRunning
<1> QED
  BY <1>1, <1>2, <1>3
     DEF PanelRestart, SupInv, TableMatchesRunning, KillTarget, StartFindsNoProcess,
         LockShape, LoopProgress, VisitedAreUp, NoCall, At, StopSteps

(* A new panel satisfies the invariant, whatever its database holds.       *)
LEMMA InitInv == Init => SupInv
<1> SUFFICES ASSUME Init PROVE SupInv
  OBVIOUS
<1>1. RunnerInv
  BY RunnerInitInv DEF Init
<1> QED
  BY <1>1, RunnerAssumption, SupervisorAssumption
     DEF Init, RunnerInit, SupInv, SupTypeOK, RunnerInv, TableMatchesRunning, KillTarget,
         StartFindsNoProcess, LockShape, LoopProgress, VisitedAreUp, NoCall, At,
         StopSteps, Phases, Entries, NothingLoaded, NothingRunning

(* The invariant is inductive.                                             *)
LEMMA NextInv == SupInv /\ [Next]_vars => SupInv'
<1> SUFFICES ASSUME SupInv, [Next]_vars PROVE SupInv'
  OBVIOUS
<1>1. ASSUME NEW c \in Callers, CallerStep(c) PROVE SupInv'
  BY <1>1, CallerStepInv
<1>2. CASE RunnerMoves
  BY <1>2, RunnerMovesInv
<1>3. CASE PanelRestart
  BY <1>3, PanelRestartInv
<1>4. CASE UNCHANGED runnerVars /\ UNCHANGED <<pc, loaded, owner, running, todo, doomed>>
           /\ desired' \in [Locations -> Entries] /\ writes' \in Nat
  <2>1. RunnerInv'
    BY <1>4, RunnerStutterInv DEF SupInv
  <2>2. SupTypeOK'
    BY <1>4, <2>1 DEF SupInv, SupTypeOK, RunnerInv
  <2> QED
    BY <1>4, <2>1, <2>2
       DEF SupInv, runnerVars, TableMatchesRunning, KillTarget, StartFindsNoProcess,
           LockShape, LoopProgress, VisitedAreUp, Up, At
<1>5. CASE Environment
  BY <1>4, <1>5 DEF Environment, AdminWrite, SupInv, SupTypeOK
<1>6. CASE UNCHANGED vars
  BY <1>4, <1>6 DEF vars, supVars, SupInv, SupTypeOK
<1> QED
  BY <1>1, <1>2, <1>3, <1>5, <1>6 DEF Next

-----------------------------------------------------------------------------
(* The inductive invariant holds, however callers, failures, exits and     *)
(* panel restarts interleave.                                              *)
THEOREM SupervisorInvariant == Spec => []SupInv
BY InitInv, NextInv, PTL DEF Spec

(* The types of the supervisor's state.                                    *)
THEOREM SupervisorTypes == Spec => []SupTypeOK
<1>1. SupInv => SupTypeOK
  BY DEF SupInv
<1> QED
  BY <1>1, SupervisorInvariant, PTL

(* With the lock free no Start is under way: a live process is in the      *)
(* table.                                                                  *)
LEMMA InvGivesAccounted == SupInv => AccountedFor
BY RunnerAssumption
   DEF SupInv, AccountedFor, LockShape, TableMatchesRunning, RunnerInv, NoLostProcess,
       Reachable, Live, Unreaped, At

(* No process ever runs behind the back of supervisor.running: what is     *)
(* alive while the lock is free is on record, with its configuration.      *)
THEOREM EveryProcessIsOnRecord == Spec => []AccountedFor
BY InvGivesAccounted, SupervisorInvariant, PTL

(* The runner's "already running" error cannot come out of a Reload.       *)
THEOREM NeverAlreadyRunning == Spec => []StartFindsNoProcess
<1>1. SupInv => StartFindsNoProcess
  BY DEF SupInv
<1> QED
  BY <1>1, SupervisorInvariant, PTL

(* Nothing is left to do, so the loop has established every entry; what is *)
(* alive is in the table, and runs what supervisor.running says.           *)
LEMMA InvGivesEstablishes == SupInv => ReloadEstablishes
<1> SUFFICES ASSUME SupInv, NEW c \in Callers, owner = c, pc[c] = "removing", At("idle"),
                    todo = {}
             PROVE  /\ running = [l \in Locations |-> Want(loaded[c][l])]
                    /\ \A p \in Procs : Live(p) => procs[p].cfg = loaded[c][procs[p].loc]
                    /\ \A l \in Locations \ doomed :
                         Active(loaded[c][l]) => statuses[l] \in {"running", "failed"}
  BY DEF ReloadEstablishes
<1>1. running \in [Locations -> Configs \cup {None}]
  BY DEF SupInv, SupTypeOK
<1>2. ASSUME NEW l \in Locations PROVE running[l] = Want(loaded[c][l])
  BY SupervisorAssumption DEF SupInv, LoopProgress
<1>3. ASSUME NEW p \in Procs, Live(p) PROVE procs[p].cfg = loaded[c][procs[p].loc]
  <2>1. /\ procs[p].loc \in Locations /\ procs[p].cfg \in Configs
        /\ processes[procs[p].loc] = p
    BY <1>3 DEF SupInv, RunnerInv, NoLostProcess, Reachable, UsedProcs, Live, Unreaped, At
  <2>2. procs[p].cfg = Want(loaded[c][procs[p].loc])
    BY <1>2, <2>1, RunnerAssumption DEF SupInv, TableMatchesRunning, At
  <2> QED
    BY <2>1, <2>2, RunnerAssumption DEF Want, Active
<1>4. ASSUME NEW l \in Locations \ doomed, Active(loaded[c][l])
      PROVE  statuses[l] \in {"running", "failed"}
  BY <1>4, SupervisorAssumption DEF SupInv, VisitedAreUp, Up
<1> QED
  BY <1>1, <1>2, <1>3, <1>4

(* A Reload that ends without an error has made the active entries of its  *)
(* snapshot, and nothing else, the running ones; only they are alive, and  *)
(* each of them is up, or has crashed, or was being killed when the Reload *)
(* looked at it.                                                           *)
THEOREM ReloadMakesItSo == Spec => []ReloadEstablishes
BY InvGivesEstablishes, SupervisorInvariant, PTL

(* A Stop kills for an inactive or absent entry, a Restart for another     *)
(* one.                                                                    *)
LEMMA InvGivesNotKilled == SupInv => UnchangedIsNotKilled
<1> SUFFICES ASSUME SupInv, At("kill") PROVE loaded[owner][call.loc] # procs[call.proc].cfg
  BY DEF UnchangedIsNotKilled
<1> USE RunnerAssumption, SupervisorAssumption
<1>1. /\ owner # None /\ owner \in Callers
      /\ call.loc \in Locations
      /\ call.op \in {"stop", "restart"}
      /\ call.cfg = Want(loaded[owner][call.loc])
  BY DEF SupInv, LockShape, LoopProgress, RunnerInv, CallShape, At, SupTypeOK, StopSteps,
         Ops
<1>2. loaded[owner][call.loc] \in Entries
  BY <1>1 DEF SupInv, SupTypeOK
<1>3. procs[call.proc].cfg \in {None, running[call.loc]}
  BY DEF SupInv, KillTarget
<1>4. running[call.loc] \in Configs \cup {None}
  BY <1>1 DEF SupInv, SupTypeOK
<1>5. CASE call.op = "stop"
  <2>1. call.cfg = None
    BY <1>1, <1>5 DEF SupInv, RunnerInv, CallShape, At
  <2> QED
    BY <1>1, <1>2, <1>3, <1>4, <2>1 DEF Want, Active, Entries
<1>6. CASE call.op = "restart"
  <2>1. running[call.loc] # call.cfg /\ call.cfg \in Configs
    BY <1>1, <1>6 DEF SupInv, KillTarget, RunnerInv, CallShape, At, StopSteps
  <2> QED
    BY <1>1, <1>2, <1>3, <1>4, <2>1 DEF Want, Active, Entries
<1> QED
  BY <1>1, <1>5, <1>6

(* A Reload never kills the process of a location whose entry is unchanged.*)
THEOREM UnchangedLocationsKeepRunning == Spec => []UnchangedIsNotKilled
BY InvGivesNotKilled, SupervisorInvariant, PTL

-----------------------------------------------------------------------------
(* How far the lock's holder can go                                        *)

(* Every step has its place in the order of a call.                        *)
LEMMA StepsAreRanked ==
  SupInv => call.step \in DOMAIN CallLeft /\ CallLeft[call.step] \in 1..13
BY DEF SupInv, RunnerInv, RunnerTypeOK, Call, CallLeft, StartSteps, StopSteps, ReturnSteps

(* A loop has no more to visit than there are locations.                   *)
LEMMA LoopIsFinite ==
  ASSUME SupInv
  PROVE  /\ IsFiniteSet(todo)
         /\ Cardinality(todo) \in Nat /\ Cardinality(Locations) \in Nat
         /\ Cardinality(todo) <= Cardinality(Locations)
BY LocationsAssumption, FS_Subset, FS_CardinalityType DEF SupInv, SupTypeOK

(* Two loops over the locations and a call for each.                       *)
LEMMA InvGivesBoundedWork == SupInv => BoundedWork
BY StepsAreRanked, LoopIsFinite DEF BoundedWork, WorkLeft, MaxWork

(* A step of a call leads to a later one.                                  *)
LEMMA CallAdvances ==
  ASSUME SupInv, StartStep \/ StopStep
  PROVE  /\ CallLeft[call'.step] \in Int
         /\ CallLeft[call'.step] < CallLeft[call.step]
<1>1. call \in [op : Ops \cup {None}, loc : Locations \cup {None}, cfg : Configs \cup {None},
                step : DOMAIN CallLeft, proc : Procs \cup {None}]
  BY DEF SupInv, RunnerInv, RunnerTypeOK, Call, CallLeft, StartSteps, StopSteps, ReturnSteps
<1>2. /\ At("check") => call'.step \in {"ensure", "err"}
      /\ At("ensure") => call'.step \in {"render", "err"}
      /\ At("render") => call'.step \in {"exec", "err"}
      /\ At("exec") => call'.step \in {"register", "err"}
      /\ At("register") => call'.step = "ok"
      /\ At("mark") => call'.step \in {"kill", "remove", "err"}
      /\ At("kill") => call'.step = "wait"
      /\ At("wait") => call'.step = "remove"
      /\ At("remove") => call'.step \in {"cleanup", "err"}
      /\ At("cleanup") => call'.step \in {"unregister", "err"}
      /\ At("unregister") => call'.step \in {"check", "ok"}
      /\ ~ At("idle") /\ ~ At("ok") /\ ~ At("err")
  <2> USE <1>1 DEF At, Goto, FailAt
  <2>1. CASE StartStep
    BY <2>1 DEF StartStep, StartRefused, StartAccepted, StartCancelled, EnsureFromCache,
       EnsureNetwork, EnsureNetworkFails, Render, RenderFails, Exec, ExecFails, StartFailsAt,
       Register
  <2>2. CASE StopStep
    BY <2>2 DEF StopStep, MarkStopping, StopCancelled, Kill, AwaitDone, RemoveConfig,
       RemoveConfigFails, CleanupNetwork, CleanupNetworkInPart, CleanupNetworkFails,
       Unregister
  <2> QED
    BY <2>1, <2>2
<1>3. call.step \in DOMAIN CallLeft
  BY <1>1
<1> QED
  BY <1>2, <1>3 DEF CallLeft, At

(* A step of the lock's holder, or of anybody meanwhile.                   *)
LEMMA HolderAdvances ==
  ASSUME SupInv, [Next]_vars, owner # None, owner' = owner
  PROVE  \/ WorkLeft' < WorkLeft
         \/ UNCHANGED <<call, todo, pc[owner], running, loaded[owner]>>
<1> DEFINE Still == UNCHANGED <<call, todo, pc[owner], running, loaded[owner]>>
<1>1. owner \in Callers /\ pc \in [Callers -> Phases] /\ pc[owner] \in {"visiting", "removing"}
  BY DEF SupInv, SupTypeOK, LockShape
<1>2. CallLeft[call.step] \in 1..13
  BY StepsAreRanked
<1>3. CallLeft["idle"] = 13 /\ CallLeft["mark"] = 12 /\ CallLeft["check"] = 6
  BY DEF CallLeft
<1>4. ASSUME UNCHANGED <<todo, pc>>, CallLeft[call'.step] \in Int,
             CallLeft[call'.step] < CallLeft[call.step]
      PROVE  WorkLeft' < WorkLeft
  BY <1>2, <1>4, LoopIsFinite DEF WorkLeft
<1>5. ASSUME NEW c \in Callers, CallerStep(c) PROVE WorkLeft' < WorkLeft \/ Still
  <2>1. CASE Load(c)
    BY <1>1, <1>5, <2>1 DEF Load, SupInv, SupTypeOK, runnerVars
  <2>2. CASE Lock(c) \/ StopAll(c) \/ CallFailed(c) \/ Finish(c)
    BY <2>2, SupervisorAssumption DEF Lock, StopAll, CallFailed, Finish, Return
  <2>3. ASSUME NEW l \in Locations,
               VisitStop(c, l) \/ VisitRevive(c, l) \/ VisitStart(c, l) \/ VisitRestart(c, l)
                 \/ Remove(c, l)
        PROVE  WorkLeft' < WorkLeft
    <3>1. call.step = "idle" /\ call'.step \in {"mark", "check"} /\ UNCHANGED <<todo, pc>>
      BY <2>3 DEF VisitStop, VisitRevive, VisitStart, VisitRestart, Remove, Visiting, At,
         BeginStop, BeginStart, BeginRestart, supVars
    <3> QED
      BY <1>3, <1>4, <3>1
  <2>4. ASSUME NEW l \in todo, todo' = todo \ {l}, UNCHANGED pc,
               \/ UNCHANGED call
               \/ call.step = "ok" /\ call'.step = "idle"
        PROVE  WorkLeft' < WorkLeft
    <3>1. Cardinality(todo') = Cardinality(todo) - 1
      BY <2>4, LoopIsFinite, FS_RemoveElement
    <3>2. CallLeft[call'.step] \in Int /\ CallLeft[call'.step] < CallLeft[call.step] + 14
      BY <1>2, <1>3, <2>4
    <3> QED
      BY <1>2, <2>4, <3>1, <3>2, LoopIsFinite DEF WorkLeft
  <2>5. ASSUME NEW l \in Locations, VisitNothing(c, l) PROVE WorkLeft' < WorkLeft
    BY <2>4, <2>5 DEF VisitNothing, Visiting, NextEntry, runnerVars
  <2>6. CASE CallSucceeded(c)
    <3>1. call.loc \in todo /\ call.step = "ok" /\ call'.step = "idle"
      BY <2>6 DEF CallSucceeded, SupInv, LoopProgress, At, NoCall
    <3> QED
      BY <2>4, <2>6, <3>1 DEF CallSucceeded
  <2>7. CASE CollectRemoved(c)
    <3>1. /\ Cardinality(todo) = 0
          /\ Cardinality(todo') \in Nat /\ Cardinality(todo') <= Cardinality(Locations)
      <4>1. todo = {} /\ todo' \in SUBSET Locations
        BY <2>7 DEF CollectRemoved, Known
      <4> QED
        BY <4>1, LocationsAssumption, FS_Subset, FS_CardinalityType, FS_EmptySet
    <3>2. pc[owner] = "visiting" /\ pc'[owner] = "removing" /\ UNCHANGED call
      BY <1>1, <2>7 DEF CollectRemoved, runnerVars
    <3> QED
      BY <1>2, <3>1, <3>2, LoopIsFinite DEF WorkLeft
  <2> QED
    BY <1>5, <2>1, <2>2, <2>3, <2>5, <2>6, <2>7 DEF CallerStep, LoopStep, Visit
<1>6. CASE RunnerMoves
  <2>1. CASE StartStep \/ StopStep
    <3>1. /\ CallLeft[call'.step] \in Int
          /\ CallLeft[call'.step] < CallLeft[call.step]
      BY <2>1, CallAdvances
    <3> QED
      BY <1>4, <1>6, <3>1 DEF RunnerMoves, supVars
  <2>2. CASE WatchStep \/ ExitStep
    BY <1>6, <2>2 DEF RunnerMoves, supVars, WatchStep, ExitStep, Reap, Watch,
       ProcessExit, KillTakesEffect
  <2> QED
    BY <1>6, <2>1, <2>2 DEF RunnerMoves, RunnerStep
<1>7. CASE Environment
  BY <1>7 DEF Environment, AdminWrite, runnerVars
<1>8. CASE PanelRestart
  BY <1>8 DEF PanelRestart
<1>9. CASE UNCHANGED vars
  BY <1>9 DEF vars, supVars, runnerVars
<1> QED
  BY <1>5, <1>6, <1>7, <1>8, <1>9 DEF Next

(* The work of a Reload or StopAll is bounded by twice the number of       *)
(* locations, in calls.                                                    *)
THEOREM ReloadIsBounded == Spec => []BoundedWork
BY InvGivesBoundedWork, SupervisorInvariant, PTL

(* Each step of the lock's holder leaves less work: a Reload cannot go on  *)
(* for ever, whatever fails, exits or is written to the database meanwhile.*)
THEOREM ReloadGetsOn == Spec => ReloadAdvances
<1>1. SupInv /\ [Next]_vars =>
        [owner # None /\ owner' = owner =>
           \/ WorkLeft' < WorkLeft
           \/ UNCHANGED <<call, todo, pc[owner], running, loaded[owner]>>]_vars
  BY HolderAdvances
<1> QED
  BY <1>1, SupervisorInvariant, PTL DEF Spec, ReloadAdvances

(* Of some ranked locations one comes first.                               *)
LEMMA OneIsFirst ==
  ASSUME NEW rank, NEW S, S # {}, \A l \in S : rank[l] \in Nat
  PROVE  \E l \in S : \A k \in S : rank[l] <= rank[k]
<1> DEFINE Ranks == {rank[l] : l \in S}
           R == {p \in Nat \X Nat : p[1] < p[2]}
<1>1. Ranks \subseteq Nat /\ Ranks # {}
  OBVIOUS
<1>2. IsWellFoundedOn(R, Nat)
  BY NatLessThanWellFounded DEF OpToRel
<1>3. PICK n \in Ranks : \A m \in Ranks : ~ (<<m, n>> \in R)
  <2> HIDE DEF Ranks, R
  <2> QED
    BY <1>1, <1>2, WFMin
<1>4. ASSUME NEW m \in Ranks PROVE n <= m
  <2>1. m \in Nat /\ n \in Nat
    BY <1>1
  <2>2. ~ (<<m, n>> \in R)
    BY <1>3
  <2>3. m < n => <<m, n>> \in R
    BY <2>1
  <2> QED
    BY <2>1, <2>2, <2>3
<1> QED
  BY <1>4

(* A loop has a next location, and a Stop waits for a process that is      *)
(* killed or has died.                                                     *)
LEMMA InvGivesNotStuck == SupInv => HolderIsNotStuck
<1> SUFFICES ASSUME SupInv, owner # None PROVE HolderIsNotStuck
  BY DEF HolderIsNotStuck
<1>1. todo \in SUBSET Locations
  BY DEF SupInv, SupTypeOK
<1>2. ASSUME pc[owner] = "visiting", todo # {}
      PROVE  \E l \in Locations : NextEntry(l) /\ loaded[owner][l] # Absent
  <2>1. PICK l \in todo : \A k \in todo : CreatedRank[l] <= CreatedRank[k]
    <3>1. \A l \in todo : CreatedRank[l] \in Nat
      BY <1>1, LocationsAssumption
    <3> QED
      BY <1>2, <3>1, OneIsFirst
  <2>2. loaded[owner][l] # Absent
    BY <1>1, <1>2 DEF SupInv, LoopProgress
  <2> QED
    BY <1>1, <2>1, <2>2 DEF NextEntry
<1>3. ASSUME todo # {} PROVE \E l \in Locations : NextRemoved(l)
  <2>1. PICK l \in todo : \A k \in todo : IdRank[l] <= IdRank[k]
    <3>1. \A l \in todo : IdRank[l] \in Nat
      BY <1>1, LocationsAssumption
    <3> QED
      BY <1>3, <3>1, OneIsFirst
  <2> QED
    BY <1>1, <2>1 DEF NextRemoved
<1>4. At("check") => processes[call.loc] = None
  BY DEF SupInv, StartFindsNoProcess
<1>5. At("wait") /\ Unreaped(call.proc) =>
        procs[call.proc].state = "killed" \/ Watchable(call.proc)
  BY DEF SupInv, RunnerInv, Stopping, At, Unreaped, Live, Watchable
<1> QED
  BY <1>2, <1>3, <1>4, <1>5 DEF HolderIsNotStuck

(* The goroutine of a process in the table has not come to its end.        *)
LEMMA InvGivesWatched == SupInv => GoneIsWatched
<1> SUFFICES ASSUME SupInv, NEW l \in Locations, Gone(l) PROVE Watchable(processes[l])
  BY DEF GoneIsWatched
<1> DEFINE p == processes[l]
<1>1. p \in Procs /\ procs[p].loc = l /\ procs[p].state \in {"dead", "reaped"}
  BY DEF SupInv, RunnerInv, RunnerTypeOK, TableIsSound, Gone, Live, Proc, ProcStates
<1>2. ~ (At("register") /\ call.proc = p)
  BY <1>1 DEF SupInv, RunnerInv, Starting, StartSteps, At, Gone
<1> QED
  BY <1>1, <1>2 DEF Watchable

(* A step takes a dead process out of the table only with its status.      *)
LEMMA DeathStep ==
  ASSUME SupInv, SupInv', [Next]_vars, NEW l \in Locations, Gone(l),
         statuses'[l] = "running"
  PROVE  /\ Gone(l)' /\ processes'[l] = processes[l]
         /\ procs[processes[l]].state = "reaped" => procs'[processes[l]].state = "reaped"
<1> DEFINE p == processes[l]
           Kept == Gone(l)' /\ processes'[l] = p
                   /\ (procs[p].state = "reaped" => procs'[p].state = "reaped")
<1>1. /\ p \in Procs /\ procs[p].loc = l /\ procs[p].state \in {"dead", "reaped"}
      /\ p # None
  BY DEF SupInv, RunnerInv, RunnerTypeOK, TableIsSound, Gone, Live, Proc, ProcStates
<1>2. processes'[l] # None
  BY DEF SupInv, RunnerInv, StatusMatchesTable
<1>3. /\ processes \in [Locations -> Procs \cup {None}] /\ procs \in [Procs -> Proc]
      /\ call \in Call
  BY DEF SupInv, RunnerInv, RunnerTypeOK
<1>4. ASSUME UNCHANGED <<processes, procs>> PROVE Kept
  BY <1>4 DEF Gone, Live
<1>5. CASE RunnerMoves
  <2>1. CASE Register
    <3>1. call.loc # l
      BY <1>1, <2>1 DEF Register, SupInv, RunnerInv, Starting, StartSteps, At
    <3>2. processes'[l] = p /\ UNCHANGED procs
      BY <1>3, <2>1, <3>1 DEF Register
    <3> QED
      BY <1>1, <3>2 DEF Gone, Live
  <2>2. CASE Unregister
    <3>1. call.loc # l
      BY <1>2, <1>3, <2>2 DEF Unregister
    <3>2. processes'[l] = p /\ UNCHANGED procs
      BY <1>3, <2>2, <3>1 DEF Unregister
    <3> QED
      BY <1>1, <3>2 DEF Gone, Live
  <2>3. ASSUME UNCHANGED processes, procs'[p].state = procs[p].state PROVE Kept
    BY <1>1, <2>3 DEF Gone, Live
  <2>4. CASE Exec
    BY <1>1, <1>3, <2>3, <2>4 DEF Exec
  <2>5. CASE MarkStopping
    BY <1>1, <1>3, <2>3, <2>5 DEF MarkStopping, Proc
  <2>6. CASE Kill
    <3>1. call.proc \in Procs /\ (Live(call.proc) => call.proc # p)
      BY <1>1, <2>6 DEF Kill, Live, SupInv, RunnerInv, Stopping, At
    <3>2. procs'[p] = procs[p]
      BY <1>1, <1>3, <2>6, <3>1 DEF Kill
    <3> QED
      BY <2>3, <2>6, <3>2 DEF Kill
  <2>7. ASSUME NEW q \in Procs, ProcessExit(q) \/ KillTakesEffect(q) PROVE Kept
    <3>1. q # p
      BY <1>1, <2>7 DEF ProcessExit, KillTakesEffect
    <3> QED
      BY <1>1, <1>3, <2>3, <2>7, <3>1 DEF ProcessExit, KillTakesEffect
  <2>8. ASSUME NEW q \in Procs, Reap(q) PROVE Kept
    <3>1. /\ UNCHANGED processes
          /\ procs'[p].state = IF q = p THEN "reaped" ELSE procs[p].state
      BY <1>1, <1>3, <2>8 DEF Reap, Proc
    <3> QED
      BY <1>1, <3>1 DEF Gone, Live
  <2>9. ASSUME NEW q \in Procs, Watch(q) PROVE Kept
    <3>1. q # p
      BY <1>1, <1>2, <1>3, <2>9 DEF Watch
    <3>2. procs'[p] = procs[p]
      BY <1>1, <1>3, <2>9, <3>1 DEF Watch
    <3>3. processes'[l] = p
      BY <1>2, <1>3, <2>9, <3>1 DEF Watch
    <3> QED
      BY <1>1, <3>2, <3>3 DEF Gone, Live
  <2> QED
    BY <1>4, <1>5, <2>1, <2>2, <2>4, <2>5, <2>6, <2>7, <2>8, <2>9
       DEF RunnerMoves, RunnerStep, StartStep, StopStep, WatchStep, ExitStep, StartRefused,
           StartAccepted, StartCancelled, EnsureFromCache, EnsureNetwork,
           EnsureNetworkFails, Render, RenderFails, ExecFails, StartFailsAt, StopCancelled,
           AwaitDone, RemoveConfig, RemoveConfigFails, CleanupNetwork,
           CleanupNetworkInPart, CleanupNetworkFails
<1>6. CASE PanelRestart
  BY <1>2, <1>6 DEF PanelRestart
<1>7. ASSUME NEW c \in Callers, CallerStep(c) PROVE Kept
  BY <1>4, <1>7 DEF CallerStep, LoopStep, Load, Lock, StopAll, Visit, VisitStop, VisitRevive, VisitStart,
     VisitRestart, VisitNothing, Remove, CallSucceeded, CallFailed, CollectRemoved, Finish,
     CallUnchanged, runnerVars
<1>8. CASE Environment
  BY <1>4, <1>8 DEF Environment, AdminWrite, runnerVars
<1>9. CASE UNCHANGED vars
  BY <1>4, <1>9 DEF vars, runnerVars
<1> QED
  BY <1>5, <1>6, <1>7, <1>8, <1>9 DEF Next

(* Whoever holds the lock has a next location, finds it free, and waits    *)
(* only for what has died: no Reload or StopAll blocks another for ever.   *)
THEOREM HolderGoesOn == Spec => []HolderIsNotStuck
BY InvGivesNotStuck, SupervisorInvariant, PTL

(* A process that died has its watch goroutine.                            *)
THEOREM DeathsAreWatched == Spec => []GoneIsWatched
BY InvGivesWatched, SupervisorInvariant, PTL

(* Nothing takes a process that died out of the table without saying so.   *)
THEOREM DeathsAreKept == Spec => DeathIsKept
<1>1. SupInv /\ SupInv' /\ [Next]_vars =>
        [\A l \in Locations :
           Gone(l) => \/ statuses'[l] # "running"
                      \/ /\ Gone(l)'
                         /\ processes'[l] = processes[l]
                         /\ procs[processes[l]].state = "reaped" =>
                              procs'[processes[l]].state = "reaped"]_vars
  BY DeathStep
<1> QED
  BY <1>1, SupervisorInvariant, PTL DEF Spec, DeathIsKept

-----------------------------------------------------------------------------
(* Refinement: every step of the supervisor and its runner is a step of    *)
(* Tunnels, or changes nothing of what Tunnels sees.                       *)

(* What it means that a tunnel is up.                                      *)
LEMMA MemberOfLive ==
  ASSUME NEW l \in Locations, NEW c \in Configs
  PROVE  <<l, c>> \in liveTunnels <=>
            \E p \in Procs : Live(p) /\ procs[p].loc = l /\ procs[p].cfg = c
BY DEF liveTunnels

(* Only the fields of live processes matter to liveTunnels.                *)
LEMMA SameLive ==
  ASSUME \A p \in Procs : /\ Live(p)' <=> Live(p)
                          /\ Live(p) => /\ procs'[p].loc = procs[p].loc
                                        /\ procs'[p].cfg = procs[p].cfg
  PROVE  liveTunnels' = liveTunnels
BY DEF liveTunnels, Live

(* The end of a live process is the end of exactly its tunnel.             *)
LEMMA DeathIsDown ==
  ASSUME SupInv, NEW p \in Procs, ProcessExit(p) \/ KillTakesEffect(p),
         UNCHANGED <<running, owner>>
  PROVE  T!Next
<1>0. Live(p) /\ procs' = [procs EXCEPT ![p].state = "dead"]
  BY DEF ProcessExit, KillTakesEffect, Live
<1> DEFINE t == <<procs[p].loc, procs[p].cfg>>
<1>1. t \in Locations \X Configs
  BY <1>0 DEF SupInv, RunnerInv, UsedProcs, Live
<1>2. t \in liveTunnels
  BY <1>0, <1>1 DEF liveTunnels
<1>3. OneProcessPerLocation
  BY InvGivesOneProcess DEF SupInv
<1>4. \A q \in Procs : /\ procs'[q].loc = procs[q].loc
                       /\ procs'[q].cfg = procs[q].cfg
                       /\ procs'[q].state = IF q = p THEN "dead" ELSE procs[q].state
  BY <1>0 DEF SupInv, RunnerInv, RunnerTypeOK, Proc
<1>5. \A q \in Procs : Live(q)' <=> Live(q) /\ q # p
  BY <1>4 DEF Live
<1>6. liveTunnels' = liveTunnels \ {t}
  <2>1. ASSUME NEW u \in Locations \X Configs
        PROVE  u \in liveTunnels' <=> u \in liveTunnels \ {t}
    <3>1. ASSUME u \in liveTunnels' PROVE u \in liveTunnels \ {t}
      <4>1. PICK q \in Procs : Live(q) /\ q # p /\ procs[q].loc = u[1] /\ procs[q].cfg = u[2]
        BY <3>1, <1>4, <1>5 DEF liveTunnels
      <4>2. procs[q].loc # procs[p].loc
        BY <4>1, <1>0, <1>3 DEF OneProcessPerLocation
      <4> QED
        BY <4>1, <4>2 DEF liveTunnels
    <3>2. ASSUME u \in liveTunnels, u # t PROVE u \in liveTunnels'
      <4>1. PICK q \in Procs : Live(q) /\ procs[q].loc = u[1] /\ procs[q].cfg = u[2]
        BY <3>2 DEF liveTunnels
      <4>2. q # p
        BY <3>2, <4>1
      <4> QED
        BY <4>1, <4>2, <1>4, <1>5 DEF liveTunnels
    <3> QED
      BY <3>1, <3>2
  <2> QED
    BY <2>1 DEF liveTunnels
<1>7. T!Down(t)
  BY <1>6 DEF T!Down
<1> QED
  BY <1>2, <1>7 DEF T!Next

(* A new process is a new tunnel, at a location that had none.             *)
LEMMA ExecIsUp == SupInv /\ Exec /\ UNCHANGED supVars => T!Next
<1> SUFFICES ASSUME SupInv, Exec, UNCHANGED supVars PROVE T!Next
  OBVIOUS
<1> DEFINE t == <<call.loc, call.cfg>>
<1>1. PICK p \in Procs :
          /\ procs[p].state = "free"
          /\ procs' = [procs EXCEPT ![p] =
               [loc |-> call.loc, cfg |-> call.cfg,
                state |-> "live", stopping |-> FALSE]]
  BY DEF Exec
<1>2. call.loc \in Locations /\ call.cfg \in Configs /\ owner # None
  BY DEF Exec, SupInv, RunnerInv, CallShape, At, LockShape, StartSteps
<1>3. \A q \in Procs : procs[q].loc = call.loc => ~ Live(q)
  BY NothingRunsThere DEF Exec, At, SupInv, Live, Unreaped
<1>4. \A q \in Procs : q # p => procs'[q] = procs[q]
  BY <1>1 DEF SupInv, RunnerInv, RunnerTypeOK
<1>5. procs'[p].loc = call.loc /\ procs'[p].cfg = call.cfg /\ procs'[p].state = "live"
  BY <1>1 DEF SupInv, RunnerInv, RunnerTypeOK
<1>6. ~ Live(p)
  BY <1>1 DEF Live
<1>7. liveTunnels' = liveTunnels \cup {t}
  <2>1. ASSUME NEW u \in Locations \X Configs
        PROVE  u \in liveTunnels' <=> u \in liveTunnels \/ u = t
    <3>1. ASSUME u \in liveTunnels' PROVE u \in liveTunnels \/ u = t
      <4>1. PICK q \in Procs : /\ procs'[q].state \in {"live", "killed"}
                               /\ procs'[q].loc = u[1] /\ procs'[q].cfg = u[2]
        BY <3>1 DEF liveTunnels, Live
      <4> QED
        BY <4>1, <1>4, <1>5 DEF liveTunnels, Live
    <3>2. ASSUME u \in liveTunnels PROVE u \in liveTunnels'
      <4>1. PICK q \in Procs : Live(q) /\ procs[q].loc = u[1] /\ procs[q].cfg = u[2]
        BY <3>2 DEF liveTunnels
      <4> QED
        BY <4>1, <1>4, <1>6 DEF liveTunnels, Live
    <3>3. ASSUME u = t PROVE u \in liveTunnels'
      BY <3>3, <1>5, <1>2 DEF liveTunnels, Live
    <3> QED
      BY <3>1, <3>2, <3>3
  <2> QED
    BY <2>1, <1>2 DEF liveTunnels
<1>8. \A u \in liveTunnels : u[1] # call.loc
  BY <1>3 DEF liveTunnels
<1>9. T!Up(call.loc, call.cfg)
  BY <1>2, <1>7, <1>8 DEF T!Up, supVars
<1> QED
  BY <1>2, <1>9 DEF T!Next

(* Any other step of the runner leaves the live processes as they are.     *)
LEMMA RunnerMovesRefine == SupInv /\ RunnerMoves => [T!Next]_(T!tunnelVars)
<1> SUFFICES ASSUME SupInv, RunnerStep, UNCHANGED supVars
             PROVE  [T!Next]_(T!tunnelVars)
  BY DEF RunnerMoves
<1>1. UNCHANGED <<running, owner>>
  BY DEF supVars
<1>2. ASSUME liveTunnels' = liveTunnels PROVE UNCHANGED T!tunnelVars
  BY <1>1, <1>2 DEF T!tunnelVars
<1>3. CASE UNCHANGED procs
  BY <1>2, <1>3, SameLive DEF Live
<1>4. CASE Exec
  BY <1>4, ExecIsUp
<1>5. CASE MarkStopping
  <2>1. \A q \in Procs : /\ procs'[q].loc = procs[q].loc
                         /\ procs'[q].cfg = procs[q].cfg
                         /\ procs'[q].state = procs[q].state
    BY <1>5 DEF MarkStopping, SupInv, RunnerInv, RunnerTypeOK, Proc
  <2> QED
    BY <1>2, <2>1, SameLive DEF Live
<1>6. CASE Kill
  <2>1. \A q \in Procs : /\ procs'[q].loc = procs[q].loc
                         /\ procs'[q].cfg = procs[q].cfg
                         /\ Live(q)' <=> Live(q)
    BY <1>6 DEF Kill, Live, SupInv, RunnerInv, RunnerTypeOK, Proc
  <2> QED
    BY <1>2, <2>1, SameLive
<1>7. ASSUME NEW p \in Procs, ProcessExit(p) \/ KillTakesEffect(p)
      PROVE  [T!Next]_(T!tunnelVars)
  BY <1>1, <1>7, DeathIsDown
<1>8. ASSUME NEW p \in Procs, Reap(p) \/ Watch(p) PROVE [T!Next]_(T!tunnelVars)
  <2>1. /\ ~ Live(p) /\ ~ Live(p)'
        /\ \A q \in Procs : q # p => procs'[q] = procs[q]
    BY <1>8 DEF Reap, Watch, Live, FreeProc, SupInv, RunnerInv, RunnerTypeOK, Proc
  <2> QED
    BY <1>2, <2>1, SameLive DEF Live
<1> QED
  BY <1>3, <1>4, <1>5, <1>6, <1>7, <1>8
     DEF RunnerStep, StartStep, StopStep, WatchStep, ExitStep, StartRefused, StartAccepted,
         StartCancelled, EnsureFromCache, EnsureNetwork, EnsureNetworkFails, Render,
         RenderFails, ExecFails, StartFailsAt, Register, StopCancelled, AwaitDone,
         RemoveConfig, RemoveConfigFails, CleanupNetwork, CleanupNetworkInPart,
         CleanupNetworkFails, Unregister

(* A caller's step is at most one of Acquire, Record and Release.          *)
LEMMA CallerRefines ==
  ASSUME SupInv, NEW c \in Callers, CallerStep(c)
  PROVE  [T!Next]_(T!tunnelVars)
<1> USE RunnerAssumption, SupervisorAssumption
<1>1. liveTunnels' = liveTunnels
  <2>1. UNCHANGED procs
    BY DEF CallerStep, LoopStep, Load, Lock, StopAll, Visit, VisitStop, VisitRevive, VisitStart,
           VisitRestart, VisitNothing, Remove, CallSucceeded, CallFailed, CollectRemoved,
           Finish, CallUnchanged, runnerVars
  <2> QED
    BY <2>1, SameLive DEF Live
<1>2. CASE Lock(c) \/ StopAll(c)
  <2>1. T!Acquire
    BY <1>1, <1>2 DEF Lock, StopAll, T!Acquire
  <2> QED
    BY <2>1 DEF T!Next
<1>3. CASE CallFailed(c) \/ Finish(c)
  <2>1. owner = c /\ owner' = None /\ UNCHANGED running
    BY <1>3 DEF CallFailed, Finish, Return
  <2>2. ASSUME NEW t \in liveTunnels PROVE running[t[1]] = t[2]
    <3>1. PICK p \in Procs : Live(p) /\ procs[p].loc = t[1] /\ procs[p].cfg = t[2]
      BY DEF liveTunnels
    <3>2. ~ At("register") /\ ~ At("ok")
      BY <1>3 DEF CallFailed, Finish, At
    <3>3. procs[p].loc \in Locations /\ processes[procs[p].loc] = p
      BY <3>1, <3>2 DEF SupInv, RunnerInv, NoLostProcess, Reachable, Live, Unreaped
    <3> QED
      BY <3>1, <3>2, <3>3 DEF SupInv, TableMatchesRunning
  <2>3. T!Release
    BY <1>1, <2>1, <2>2 DEF T!Release, T!OnRecord
  <2> QED
    BY <2>3 DEF T!Next
<1>4. CASE CallSucceeded(c)
  <2>1. call.loc \in Locations /\ call.cfg \in Configs \cup {None}
    BY <1>4 DEF CallSucceeded, SupInv, RunnerInv, CallShape, At
  <2>2. T!Record(call.loc, call.cfg)
    BY <1>1, <1>4 DEF CallSucceeded, T!Record
  <2> QED
    BY <2>1, <2>2 DEF T!Next
<1>5. ASSUME NEW l \in Locations, VisitRevive(c, l) PROVE [T!Next]_(T!tunnelVars)
  <2>1. T!Record(l, None)
    BY <1>1, <1>5 DEF VisitRevive, Visiting, T!Record
  <2> QED
    BY <2>1 DEF T!Next
<1>6. CASE UNCHANGED <<running, owner>>
  BY <1>1, <1>6 DEF T!tunnelVars
<1> QED
  BY <1>2, <1>3, <1>4, <1>5, <1>6
     DEF CallerStep, LoopStep, Load, Visit, VisitStop, VisitStart, VisitRestart, VisitNothing,
         Remove, CollectRemoved, supVars

(* A panel restart takes everything down.                                  *)
LEMMA RestartRefines == SupInv /\ PanelRestart => T!Next
<1> SUFFICES ASSUME SupInv, PanelRestart PROVE T!Next
  OBVIOUS
<1>1. \A p \in Procs : ~ Live(p)'
  BY DEF PanelRestart, FreeProc, Live
<1>2. liveTunnels' = {}
  BY <1>1 DEF liveTunnels
<1>3. T!Reset
  BY <1>2 DEF T!Reset, T!NothingRecorded, PanelRestart, NothingRunning
<1> QED
  BY <1>3 DEF T!Next

(* The supervisor and its process runner implement Tunnels.                *)
THEOREM SupervisorImplementsTunnels == Spec => ImplementsTunnels
<1>1. Init => T!Init
  <2> SUFFICES ASSUME Init PROVE T!Init
    OBVIOUS
  <2>1. \A p \in Procs : ~ Live(p)
    BY DEF Init, RunnerInit, FreeProc, Live
  <2>2. liveTunnels = {}
    BY <2>1 DEF liveTunnels
  <2> QED
    BY <2>2 DEF Init, T!Init, T!NothingRecorded, NothingRunning
<1>2. SupInv /\ [Next]_vars => [T!Next]_(T!tunnelVars)
  <2> SUFFICES ASSUME SupInv, [Next]_vars PROVE [T!Next]_(T!tunnelVars)
    OBVIOUS
  <2>1. ASSUME NEW c \in Callers, CallerStep(c) PROVE [T!Next]_(T!tunnelVars)
    BY <2>1, CallerRefines
  <2>2. CASE RunnerMoves
    BY <2>2, RunnerMovesRefine
  <2>3. CASE PanelRestart
    BY <2>3, RestartRefines
  <2>4. CASE UNCHANGED <<procs, running, owner>>
    BY <2>4, SameLive DEF T!tunnelVars, Live
  <2>5. CASE Environment
    BY <2>4, <2>5 DEF Environment, AdminWrite, runnerVars
  <2>6. CASE UNCHANGED vars
    BY <2>4, <2>6 DEF vars, runnerVars, supVars
  <2> QED
    BY <2>1, <2>2, <2>3, <2>5, <2>6 DEF Next
<1> QED
  BY <1>1, <1>2, SupervisorInvariant, PTL DEF Spec, ImplementsTunnels, T!Spec

==============================================================================
