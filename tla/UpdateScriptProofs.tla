-------------------------- MODULE UpdateScriptProofs --------------------------
(***************************************************************************)
(* update.sh keeps what it found until the new panel is seen to work, and  *)
(* a rollback puts it back, for every number of runs.                      *)
(***************************************************************************)
EXTENDS UpdateScript, TLAPS

(* What the machine starts with are files.                                 *)
LEMMA FilesExist == {0, None} \subseteq File /\ 0 \in Version
BY UpdateAssumption DEF File, Version

(* A run that begins installs a version.                                   *)
LEMMA RunIsVersion ==
  /\ None \in File
  /\ Version \subseteq File
  /\ run \in Version /\ run < MaxRuns => run + 1 \in Version
BY UpdateAssumption DEF File, Version

(* The files are where they should be before the first run.                *)
LEMMA UpdateInit == Init => UpdateInv
<1> SUFFICES ASSUME Init PROVE UpdateInv
  OBVIOUS
<1> USE FilesExist DEF Init, FilesNow
<1>1. UpdateTypeOK
  <2>1. before \in [panel : File, olcrtc : File, olcrtcBak : File]
    OBVIOUS
  <2> QED
    BY <2>1 DEF UpdateTypeOK, Commands, Ends
<1>2. FilesAtCommand
  BY DEF FilesAtCommand, UntilInstalled, WithCopies, Proven, RolledBack
<1>3. PreviousRecoverable
  BY DEF PreviousRecoverable
<1> QED
  BY <1>1, <1>2, <1>3 DEF UpdateInv

(* Every command, and every way to fail or to be interrupted, keeps the    *)
(* invariant.                                                              *)
LEMMA UpdateStep == UpdateInv /\ [Next]_vars => UpdateInv'
<1> SUFFICES ASSUME UpdateInv, [Next]_vars PROVE UpdateInv'
  OBVIOUS
<1> USE DEF UpdateInv, FilesAtCommand, PreviousOlcrtc, UntilInstalled, WithCopies, Proven,
        RolledBack, Commands, Ends, At, Goto, files, vars, FilesNow
<1>1. CASE Begin
  <2>1. UpdateTypeOK'
    BY <1>1, RunIsVersion DEF UpdateTypeOK, Begin
  <2>2. FilesAtCommand'
    BY <1>1 DEF Begin
  <2>3. PreviousRecoverable'
    BY <1>1 DEF PreviousRecoverable, Begin
  <2> QED
    BY <2>1, <2>2, <2>3
<1>2. CASE Fetch
  <2>1. UpdateTypeOK'
    BY <1>2, RunIsVersion DEF UpdateTypeOK, Fetch
  <2>2. FilesAtCommand'
    BY <1>2 DEF Fetch
  <2>3. PreviousRecoverable'
    BY <1>2 DEF PreviousRecoverable, Fetch
  <2> QED
    BY <2>1, <2>2, <2>3
<1>3. CASE CopyPanel
  <2>1. UpdateTypeOK'
    BY <1>3, RunIsVersion DEF UpdateTypeOK, CopyPanel
  <2>2. FilesAtCommand'
    BY <1>3 DEF CopyPanel
  <2>3. PreviousRecoverable'
    BY <1>3 DEF PreviousRecoverable, CopyPanel
  <2> QED
    BY <2>1, <2>2, <2>3
<1>4. CASE CopyOlcrtc
  <2>1. UpdateTypeOK'
    BY <1>4, RunIsVersion DEF UpdateTypeOK, CopyOlcrtc
  <2>2. FilesAtCommand'
    BY <1>4 DEF CopyOlcrtc
  <2>3. PreviousRecoverable'
    BY <1>4 DEF PreviousRecoverable, CopyOlcrtc
  <2> QED
    BY <2>1, <2>2, <2>3
<1>5. CASE InstallPanel
  <2>1. UpdateTypeOK'
    BY <1>5, RunIsVersion DEF UpdateTypeOK, InstallPanel
  <2>2. FilesAtCommand'
    BY <1>5 DEF InstallPanel
  <2>3. PreviousRecoverable'
    BY <1>5 DEF PreviousRecoverable, InstallPanel
  <2> QED
    BY <2>1, <2>2, <2>3
<1>6. CASE InstallOlcrtc
  <2>1. UpdateTypeOK'
    BY <1>6, RunIsVersion DEF UpdateTypeOK, InstallOlcrtc
  <2>2. FilesAtCommand'
    BY <1>6 DEF InstallOlcrtc
  <2>3. PreviousRecoverable'
    BY <1>6 DEF PreviousRecoverable, InstallOlcrtc
  <2> QED
    BY <2>1, <2>2, <2>3
<1>7. CASE Migrate
  <2>1. UpdateTypeOK'
    BY <1>7, RunIsVersion DEF UpdateTypeOK, Migrate
  <2>2. FilesAtCommand'
    BY <1>7 DEF Migrate
  <2>3. PreviousRecoverable'
    BY <1>7 DEF PreviousRecoverable, Migrate
  <2> QED
    BY <2>1, <2>2, <2>3
<1>8. CASE Restart
  <2>1. UpdateTypeOK'
    BY <1>8, RunIsVersion DEF UpdateTypeOK, Restart
  <2>2. FilesAtCommand'
    BY <1>8 DEF Restart
  <2>3. PreviousRecoverable'
    BY <1>8 DEF PreviousRecoverable, Restart
  <2> QED
    BY <2>1, <2>2, <2>3
<1>9. CASE HealthCheck
  <2>1. UpdateTypeOK'
    BY <1>9, RunIsVersion DEF UpdateTypeOK, HealthCheck
  <2>2. FilesAtCommand'
    BY <1>9 DEF HealthCheck
  <2>3. PreviousRecoverable'
    BY <1>9 DEF PreviousRecoverable, HealthCheck
  <2> QED
    BY <2>1, <2>2, <2>3
<1>10. CASE Discard
  <2>1. UpdateTypeOK'
    BY <1>10, RunIsVersion DEF UpdateTypeOK, Discard
  <2>2. FilesAtCommand'
    BY <1>10 DEF Discard
  <2>3. PreviousRecoverable'
    BY <1>10 DEF PreviousRecoverable, Discard
  <2> QED
    BY <2>1, <2>2, <2>3
<1>11. CASE PutPanelBack
  <2>1. UpdateTypeOK'
    BY <1>11, RunIsVersion DEF UpdateTypeOK, PutPanelBack
  <2>2. FilesAtCommand'
    BY <1>11 DEF PutPanelBack
  <2>3. PreviousRecoverable'
    BY <1>11 DEF PreviousRecoverable, PutPanelBack
  <2> QED
    BY <2>1, <2>2, <2>3
<1>12. CASE PutOlcrtcBack
  <2>1. UpdateTypeOK'
    BY <1>12, RunIsVersion DEF UpdateTypeOK, PutOlcrtcBack
  <2>2. FilesAtCommand'
    BY <1>12 DEF PutOlcrtcBack
  <2>3. PreviousRecoverable'
    BY <1>12 DEF PreviousRecoverable, PutOlcrtcBack
  <2> QED
    BY <2>1, <2>2, <2>3
<1>13. CASE RestartOld
  <2>1. UpdateTypeOK'
    BY <1>13, RunIsVersion DEF UpdateTypeOK, RestartOld
  <2>2. FilesAtCommand'
    BY <1>13 DEF RestartOld
  <2>3. PreviousRecoverable'
    BY <1>13 DEF PreviousRecoverable, RestartOld
  <2> QED
    BY <2>1, <2>2, <2>3
<1>14. CASE CommandFails
  <2>1. UpdateTypeOK'
    BY <1>14, RunIsVersion DEF UpdateTypeOK, CommandFails, Truncated
  <2>2. FilesAtCommand'
    BY <1>14 DEF CommandFails, Truncated
  <2>3. PreviousRecoverable'
    BY <1>14 DEF PreviousRecoverable, CommandFails, Truncated
  <2> QED
    BY <2>1, <2>2, <2>3
<1>15. CASE Interrupted
  <2>1. UpdateTypeOK'
    BY <1>15, RunIsVersion DEF UpdateTypeOK, Interrupted, Truncated
  <2>2. FilesAtCommand'
    BY <1>15 DEF Interrupted, Truncated
  <2>3. PreviousRecoverable'
    BY <1>15 DEF PreviousRecoverable, Interrupted, Truncated
  <2> QED
    BY <2>1, <2>2, <2>3
<1>16. CASE UNCHANGED vars
  <2>1. UpdateTypeOK'
    BY <1>16, RunIsVersion DEF UpdateTypeOK
  <2>2. FilesAtCommand'
    BY <1>16
  <2>3. PreviousRecoverable'
    BY <1>16 DEF PreviousRecoverable
  <2> QED
    BY <2>1, <2>2, <2>3
<1> QED
  BY <1>1, <1>2, <1>3, <1>4, <1>5, <1>6, <1>7, <1>8, <1>9, <1>10, <1>11, <1>12,
     <1>13, <1>14, <1>15, <1>16
  DEF Next, Script

(* The invariant holds in every state of every execution.                  *)
THEOREM UpdateInvariant == Spec => []UpdateInv
BY UpdateInit, UpdateStep, PTL DEF Spec

(* Every file is missing, cut short, or whole and of a known version.      *)
THEOREM UpdateTypes == Spec => []UpdateTypeOK
<1>1. UpdateInv => UpdateTypeOK
  BY DEF UpdateInv
<1> QED
  BY <1>1, UpdateInvariant, PTL

(* Whatever fails and whenever the script is interrupted, the binaries a   *)
(* run found can still be put back until the new panel has passed its      *)
(* health check.                                                           *)
THEOREM PreviousIsKept == Spec => []PreviousRecoverable
<1>1. UpdateInv => PreviousRecoverable
  BY DEF UpdateInv
<1> QED
  BY <1>1, UpdateInvariant, PTL

(* A run that says it has rolled back has put back what it found.          *)
THEOREM RollbackIsComplete == Spec => []RollbackRestores
<1>1. UpdateInv => RollbackRestores
  BY DEF UpdateInv, FilesAtCommand, RollbackRestores, RolledBack, At
<1> QED
  BY <1>1, UpdateInvariant, PTL

(* A run that reports success has replaced both binaries and runs the new  *)
(* panel.                                                                  *)
THEOREM SuccessIsWhole == Spec => []UpdateIsWhole
<1>1. UpdateInv => UpdateIsWhole
  BY DEF UpdateInv, FilesAtCommand, UpdateIsWhole, Proven, At
<1> QED
  BY <1>1, UpdateInvariant, PTL
=============================================================================
