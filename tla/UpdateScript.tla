----------------------------- MODULE UpdateScript -----------------------------
(***************************************************************************)
(* update.sh: the two installed binaries, their .bak copies, and a script  *)
(* that replaces the first and puts the copies back when the migration,    *)
(* the restart or the health check of the new ones fails.                  *)
(*                                                                         *)
(* The script runs under "set -e": a command that fails outside an if ends *)
(* it at once, without rollback.  It may also be interrupted between any   *)
(* two steps or in the middle of writing a file, and it may be run again.  *)
(* Run r installs version r; 0 is what the machine starts with.            *)
(***************************************************************************)
EXTENDS Naturals

CONSTANTS None,     (* there is no such file, or it is not complete        *)
          MaxRuns   (* bound on how often the script is run                *)

ASSUME UpdateAssumption == MaxRuns \in Nat /\ None \notin Nat

VARIABLES
  panel, panelBak,    (* /usr/local/bin/olcpanel and olcpanel.bak          *)
  olcrtc, olcrtcBak,  (* /usr/local/bin/olcrtc and olcrtc.bak              *)
  hadOlcrtc,          (* HAD_OLCRTC                                        *)
  service,            (* the version of the panel that runs                *)
  run,                (* the number of the run under way, or of the last   *)
  pc,                 (* its next command; between runs, how it ended      *)
  before,             (* history: the files when the run began             *)
  proven              (* history: the last version that passed its check   *)

files == <<panel, panelBak, olcrtc, olcrtcBak>>
vars == <<files, hadOlcrtc, service, run, pc, before, proven>>

Version == 0..MaxRuns
File == Version \cup {None}
Commands == {"fetch", "copy panel", "copy olcrtc", "install panel", "install olcrtc",
             "migrate", "restart", "health", "discard",
             "put panel back", "put olcrtc back", "restart old"}
Ends == {"updated", "rolled back", "failed", "interrupted", "never run"}

FilesNow == [panel |-> panel, olcrtc |-> olcrtc, olcrtcBak |-> olcrtcBak]

Init ==
    /\ panel = 0
    /\ panelBak = None
    /\ olcrtc \in {0, None}
    /\ olcrtcBak = None
    /\ hadOlcrtc = FALSE
    /\ service \in {0, None}
    /\ run = 0
    /\ pc = "never run"
    /\ before = FilesNow
    /\ proven = 0

At(command) == pc = command
Goto(command) == pc' = command

-----------------------------------------------------------------------------
Begin ==
    /\ pc \in Ends
    /\ panel # None
    /\ run < MaxRuns
    /\ run' = run + 1
    /\ hadOlcrtc' = FALSE
    /\ before' = FilesNow
    /\ Goto("fetch")
    /\ UNCHANGED <<files, service, proven>>

(* Download or build both new binaries in a temporary directory.           *)
Fetch ==
    /\ At("fetch")
    /\ Goto("copy panel")
    /\ UNCHANGED <<files, hadOlcrtc, service, run, before, proven>>

CopyPanel ==
    /\ At("copy panel")
    /\ panelBak' = panel
    /\ Goto("copy olcrtc")
    /\ UNCHANGED <<panel, olcrtc, olcrtcBak, hadOlcrtc, service, run, before, proven>>

(* Variant of CopyOlcrtc: the flag takes the name of the file.             *)
CopyAsFlag ==
    /\ At("copy olcrtc")
    /\ olcrtcBak' = olcrtc
    /\ hadOlcrtc' = olcrtc
    /\ Goto("install panel")
    /\ UNCHANGED <<panel, panelBak, olcrtc, service, run, before, proven>>

CopyOlcrtc ==
    /\ At("copy olcrtc")
    /\ IF olcrtc # None
       THEN olcrtcBak' = olcrtc /\ hadOlcrtc' = TRUE
       ELSE UNCHANGED <<olcrtcBak, hadOlcrtc>>
    /\ Goto("install panel")
    /\ UNCHANGED <<panel, panelBak, olcrtc, service, run, before, proven>>

InstallPanel ==
    /\ At("install panel")
    /\ panel' = run
    /\ Goto("install olcrtc")
    /\ UNCHANGED <<panelBak, olcrtc, olcrtcBak, hadOlcrtc, service, run, before, proven>>

InstallOlcrtc ==
    /\ At("install olcrtc")
    /\ olcrtc' = run
    /\ Goto("migrate")
    /\ UNCHANGED <<panel, panelBak, olcrtcBak, hadOlcrtc, service, run, before, proven>>

(* Variant of Migrate: a failed migration only ends the script.            *)
MigrateOrExit ==
    /\ At("migrate")
    /\ pc' \in {"restart", "rolled back"}
    /\ UNCHANGED <<files, hadOlcrtc, service, run, before, proven>>

(* if ! olcpanel migrate; then rollback                                    *)
Migrate ==
    /\ At("migrate")
    /\ pc' \in {"restart", "put panel back"}
    /\ UNCHANGED <<files, hadOlcrtc, service, run, before, proven>>

(* Variant of Restart: the copies go before the new panel is seen to work. *)
DiscardEarly ==
    /\ At("restart")
    /\ panelBak' = None
    /\ olcrtcBak' = None
    /\ \/ service' = panel /\ Goto("health")
       \/ service' = None /\ Goto("put panel back")
    /\ UNCHANGED <<panel, olcrtc, hadOlcrtc, run, before, proven>>

(* systemctl restart stops the old panel before it starts the new one.     *)
Restart ==
    /\ At("restart")
    /\ \/ service' = panel /\ Goto("health")
       \/ service' = None /\ Goto("put panel back")
    /\ UNCHANGED <<files, hadOlcrtc, run, before, proven>>

(* Variant of HealthCheck: it passes whatever the answer is.               *)
HealthIgnored ==
    /\ At("health")
    /\ service' \in {service, None}
    /\ proven' = panel
    /\ Goto("discard")
    /\ UNCHANGED <<files, hadOlcrtc, run, before>>

(* Ten tries; a panel that answers none of them may be there or not.       *)
HealthCheck ==
    /\ At("health")
    /\ \/ UNCHANGED service /\ proven' = panel /\ Goto("discard")
       \/ service' \in {service, None} /\ UNCHANGED proven /\ Goto("put panel back")
    /\ UNCHANGED <<files, hadOlcrtc, run, before>>

(* rm -f of both copies, exit 0.                                           *)
Discard ==
    /\ At("discard")
    /\ panelBak' = None
    /\ olcrtcBak' = None
    /\ Goto("updated")
    /\ UNCHANGED <<panel, olcrtc, hadOlcrtc, service, run, before, proven>>

-----------------------------------------------------------------------------
(* rollback                                                                *)
PutPanelBack ==
    /\ At("put panel back")
    /\ panelBak # None
    /\ panel' = panelBak
    /\ panelBak' = None
    /\ Goto("put olcrtc back")
    /\ UNCHANGED <<olcrtc, olcrtcBak, hadOlcrtc, service, run, before, proven>>

(* A copy is moved back; without one, an olcrtc that was not there before  *)
(* is removed.                                                             *)
PutOlcrtcBack ==
    /\ At("put olcrtc back")
    /\ CASE olcrtcBak # None -> olcrtc' = olcrtcBak /\ olcrtcBak' = None
         [] olcrtcBak = None /\ ~ hadOlcrtc -> olcrtc' = None /\ UNCHANGED olcrtcBak
         [] OTHER -> UNCHANGED <<olcrtc, olcrtcBak>>
    /\ Goto("restart old")
    /\ UNCHANGED <<panel, panelBak, hadOlcrtc, service, run, before, proven>>

RestartOld ==
    /\ At("restart old")
    /\ service' \in {panel, None}
    /\ Goto("rolled back")
    /\ UNCHANGED <<files, hadOlcrtc, run, before, proven>>

-----------------------------------------------------------------------------
(* What a cp or an install that did not finish leaves of the file it       *)
(* writes, and an rm of the two it removes; every other command either did *)
(* its work or did not.                                                    *)
Truncated ==
    /\ panelBak' = IF pc \in {"copy panel", "discard"} THEN None ELSE panelBak
    /\ olcrtcBak' = IF At("copy olcrtc") THEN None ELSE olcrtcBak
    /\ panel' = IF At("install panel") THEN None ELSE panel
    /\ olcrtc' = IF At("install olcrtc") THEN None ELSE olcrtc

(* set -e: a failed command ends the script where it is.                   *)
CommandFails ==
    /\ pc \in {"fetch", "copy panel", "copy olcrtc", "install panel", "install olcrtc"}
    /\ Truncated \/ UNCHANGED files
    /\ Goto("failed")
    /\ UNCHANGED <<hadOlcrtc, service, run, before, proven>>

Interrupted ==
    /\ pc \in Commands
    /\ Truncated \/ UNCHANGED files
    /\ Goto("interrupted")
    /\ UNCHANGED <<hadOlcrtc, service, run, before, proven>>

Script ==
    \/ Fetch \/ CopyPanel \/ CopyOlcrtc \/ InstallPanel \/ InstallOlcrtc
    \/ Migrate \/ Restart \/ HealthCheck \/ Discard
    \/ PutPanelBack \/ PutOlcrtcBack \/ RestartOld

Next == Begin \/ Script \/ CommandFails \/ Interrupted

Spec == Init /\ [][Next]_vars

-----------------------------------------------------------------------------
(* Types of the files and of the script's progress.                        *)
UpdateTypeOK ==
    /\ panel \in File /\ panelBak \in File
    /\ olcrtc \in File /\ olcrtcBak \in File
    /\ service \in File
    /\ hadOlcrtc \in BOOLEAN
    /\ before \in [panel : File, olcrtc : File, olcrtcBak : File]
    /\ run \in Version /\ proven \in Version
    /\ pc \in Commands \cup Ends

(* Until the new panel has passed its health check, the panel a run found  *)
(* is still there, installed or as the .bak copy, wherever the run fails   *)
(* or is interrupted; so is the olcrtc it found.                           *)
PreviousRecoverable ==
    \/ proven = run /\ panel = run
    \/ /\ before.panel \in {panel, panelBak}
       /\ before.olcrtc \in {olcrtc, olcrtcBak, None}

(* The olcrtc a run found or, where an earlier interrupted run had left    *)
(* only the copy of it, that copy.                                         *)
PreviousOlcrtc == IF before.olcrtc # None THEN before.olcrtc ELSE before.olcrtcBak

(* A run that ends with a rollback has put back the panel and the olcrtc   *)
(* that it found.                                                          *)
RollbackRestores ==
    At("rolled back") => panel = before.panel /\ olcrtc = PreviousOlcrtc

(* A run that reports success leaves both new binaries, and the new panel  *)
(* running.                                                                *)
UpdateIsWhole == At("updated") => panel = run /\ olcrtc = run /\ service = run

(* The inductive invariant behind the properties above: which files are    *)
(* whose at each command.                                                  *)
UntilInstalled == {"fetch", "copy panel", "copy olcrtc", "install panel"}
WithCopies == {"install panel", "install olcrtc", "migrate", "restart", "health",
               "put panel back"}
Proven == {"discard", "updated"}
RolledBack == {"restart old", "rolled back"}

FilesAtCommand ==
    /\ pc \in UntilInstalled => panel = before.panel
    /\ pc \in UntilInstalled \cup {"install olcrtc"} => olcrtc = before.olcrtc
    /\ pc \in {"fetch", "copy panel", "copy olcrtc"} =>
         olcrtcBak = before.olcrtcBak /\ ~ hadOlcrtc
    /\ pc \in WithCopies \cup {"copy olcrtc"} => panelBak = before.panel
    /\ pc \in WithCopies \cup {"put olcrtc back"} =>
         olcrtcBak = PreviousOlcrtc /\ (hadOlcrtc <=> before.olcrtc # None)
    /\ pc \in {"install olcrtc", "migrate", "restart", "health"} \cup Proven => panel = run
    /\ pc \in {"migrate", "restart", "health"} \cup Proven => olcrtc = run
    /\ pc \in {"health"} \cup Proven => service = run
    /\ pc \in Proven => proven = run
    /\ pc \in RolledBack \cup {"put olcrtc back"} => panel = before.panel
    /\ pc \in RolledBack => olcrtc = PreviousOlcrtc

UpdateInv ==
    /\ UpdateTypeOK
    /\ FilesAtCommand
    /\ PreviousRecoverable

=============================================================================
