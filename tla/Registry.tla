------------------------------- MODULE Registry -------------------------------
(***************************************************************************)
(* The tables of clients and locations, and the requests that share them:  *)
(* internal/clients/clients.go behind the handlers of server.go, the       *)
(* sampler's rows, Reload as a reader, and the restore of a backup         *)
(* (internal/backup/backup.go), which replaces the tables with foreign     *)
(* keys switched off.                                                      *)
(*                                                                         *)
(* The database has one connection (storage.go:75): a statement outside a  *)
(* transaction, and a whole transaction, is one step; between two          *)
(* statements of a request any other request may have the connection, and  *)
(* finds its pragmas as they were left.                                    *)
(***************************************************************************)
EXTENDS Naturals, FiniteSets

CONSTANTS Clients, Locations, ClientOf, Requests,
          None,
          MaxKeys,    (* bound on keys when a request for one begins       *)
          MaxArchives,(* bound on backup archives                          *)
          MaxFaults   (* bound on failed steps and restarts                *)

ASSUME RegistryAssumption ==
    /\ None \notin Requests \cup Locations \cup Nat
    /\ ClientOf \in [Locations -> Clients]
    /\ MaxKeys \in Nat /\ MaxArchives \in Nat /\ MaxFaults \in Nat

VARIABLES
  db,        (* the tables: clients, a key per location that has a row,    *)
             (* the locations with a row in traffic_counter_state, and the *)
             (* numbers of the recorded backups                            *)
  fk,        (* PRAGMA foreign_keys of the connection                      *)
  attached,  (* whose restore_src is attached                              *)
  archives,  (* the backup archives on disk                                *)
  made,      (* snapshots taken so far: an archive has its number          *)
  running,   (* the key each location's tunnel runs with                   *)
  req,       (* the request each goroutine serves, and its next step       *)
  keys,      (* keys so far: a key is its number, 0 the empty text         *)
  born,      (* ids that have been used: new ones are random               *)
  faults,
  loose,     (* history: locations written while foreign keys were off     *)
  alone      (* history: the restore since whose commit nobody else wrote  *)

tableVars == <<db, keys, born>>
connVars == <<fk, attached>>
archiveVars == <<archives, made>>
vars == <<tableVars, connVars, archiveVars, running, req, faults, loose, alone>>

-----------------------------------------------------------------------------
Key == Nat
Keyed == [Locations -> Key \cup {None}]
Nothing == [l \in Locations |-> None]
Tables == [clients : SUBSET Clients, key : Keyed, counted : SUBSET Locations,
           known : SUBSET Nat]
Archives == [id : Nat, tables : Tables, loose : SUBSET Locations]

LocationsOf(c) == {l \in Locations : ClientOf[l] = c}
Rows(tables) == {l \in Locations : tables.key[l] # None}
Orphans(tables) == {l \in Rows(tables) : ClientOf[l] \notin tables.clients}
(* Rows whose reference leads nowhere.                                     *)
Dangling(tables) == Orphans(tables) \cup (tables.counted \ Rows(tables))

(* loadDesired and loadLocations join a location with its client.          *)
Joined(tables) ==
    [l \in Locations |-> IF l \in Orphans(tables) THEN None ELSE tables.key[l]]

Idle == [op |-> "none", step |-> "idle", loc |-> None, seen |-> Nothing,
         source |-> None, ok |-> TRUE]
At(r, step) == req[r].step = step
Goto(r, step) == req' = [req EXCEPT ![r].step = step]
Return(r) == req' = [req EXCEPT ![r] = Idle]

Fault == faults < MaxFaults /\ faults' = faults + 1
(* A write that foreign keys did not watch over.                           *)
Loosen(S) == loose' = IF fk THEN loose ELSE loose \cup S
Others(S) == alone' = alone \cap S

Init ==
    /\ db = [clients |-> {}, key |-> Nothing, counted |-> {}, known |-> {}]
    /\ fk = TRUE
    /\ attached = None
    /\ archives = {}
    /\ made = 0
    /\ running = Nothing
    /\ req = [r \in Requests |-> Idle]
    /\ keys = 0
    /\ born = {}
    /\ faults = 0
    /\ loose = {}
    /\ alone = {}

-----------------------------------------------------------------------------
(* Requests of a single statement or transaction                           *)
CreateClient(c) ==
    /\ c \notin born
    /\ born' = born \cup {c}
    /\ db' = [db EXCEPT !.clients = @ \cup {c}]
    /\ Others({})
    /\ UNCHANGED <<keys, connVars, archiveVars, running, req, faults, loose>>

(* The locations go first, then the client; the rows of their counters go  *)
(* with them only while foreign keys are on.                               *)
DeleteClient(c) ==
    /\ c \in db.clients
    /\ LET gone == LocationsOf(c) \cap Rows(db) IN
       /\ db' = [db EXCEPT !.clients = @ \ {c},
                           !.key = [l \in Locations |->
                                        IF l \in gone THEN None ELSE @[l]],
                           !.counted = IF fk THEN @ \ gone ELSE @]
       /\ Loosen(gone)
    /\ Others({})
    /\ UNCHANGED <<keys, born, connVars, archiveVars, running, req, faults>>

DeleteLocation(l) ==
    /\ l \in Rows(db)
    /\ db' = [db EXCEPT !.key[l] = None,
                        !.counted = IF fk THEN @ \ {l} ELSE @]
    /\ Loosen({l})
    /\ Others({})
    /\ UNCHANGED <<keys, born, connVars, archiveVars, running, req, faults>>

(* ImportPanel: a client with its locations, all under new ids.  The key of *)
(* a location is the one of the document, which need not have any.         *)
Import(c) == \E bare \in SUBSET LocationsOf(c) :
    /\ ({c} \cup LocationsOf(c)) \cap born = {}
    /\ keys < MaxKeys
    /\ keys' = keys + 1
    /\ born' = born \cup {c} \cup LocationsOf(c)
    /\ db' = [db EXCEPT !.clients = @ \cup {c},
                        !.key = [l \in Locations |->
                            IF l \in bare THEN 0
                            ELSE IF ClientOf[l] = c THEN keys' ELSE @[l]]]
    /\ Others({})
    /\ UNCHANGED <<connVars, archiveVars, running, req, faults, loose>>

-----------------------------------------------------------------------------
(* Variant of Begin: the ids of the client and the location change places. *)
BeginSwapped(r, op, step, l) ==
    /\ At(r, "idle")
    /\ ClientOf[l] \in db.clients
    /\ req' = [req EXCEPT ![r] = [Idle EXCEPT !.op = op, !.step = step,
                                             !.loc = ClientOf[l]]]
    /\ UNCHANGED <<db, keys, connVars, archiveVars, running, faults, loose, alone>>

(* Requests of several statements: each begins with GetClient, and ends    *)
(* there with "not found" if there is none.                                *)
Begin(r, op, step, l) ==
    /\ At(r, "idle")
    /\ ClientOf[l] \in db.clients
    /\ req' = [req EXCEPT ![r] = [Idle EXCEPT !.op = op, !.step = step, !.loc = l]]
    /\ UNCHANGED <<db, keys, connVars, archiveVars, running, faults, loose, alone>>

BeginCreateLocation(r, l) ==
    /\ l \notin born
    /\ keys < MaxKeys
    /\ born' = born \cup {l}
    /\ Begin(r, "create", "insert", l)

(* Variant of InsertLocation: the row goes in whatever became of the       *)
(* client since.                                                           *)
InsertAnyway(r) ==
    /\ At(r, "insert")
    /\ keys' = keys + 1
    /\ db' = [db EXCEPT !.key[req[r].loc] = keys']
    /\ Loosen({req[r].loc})
    /\ Others({r})
    /\ Return(r)
    /\ UNCHANGED <<born, connVars, archiveVars, running, faults>>

InsertLocation(r) ==
    LET l == req[r].loc IN
    /\ At(r, "insert")
    /\ fk => ClientOf[l] \in db.clients
    /\ keys' = keys + 1
    /\ db' = [db EXCEPT !.key[l] = keys']
    /\ Loosen({l})
    /\ Others({r})
    /\ Return(r)
    /\ UNCHANGED <<born, connVars, archiveVars, running, faults>>

InsertRefused(r) ==
    /\ At(r, "insert")
    /\ fk /\ ClientOf[req[r].loc] \notin db.clients
    /\ Return(r)
    /\ UNCHANGED <<tableVars, connVars, archiveVars, running, faults, loose, alone>>

BeginUpdateLocation(r, l) ==
    /\ Begin(r, "update", "read", l)
    /\ UNCHANGED born

ReadLocation(r) ==
    LET l == req[r].loc IN
    /\ At(r, "read")
    /\ IF l \in Rows(db)
       THEN req' = [req EXCEPT ![r].seen[l] = db.key[l], ![r].step = "write"]
       ELSE Return(r)
    /\ UNCHANGED <<tableVars, connVars, archiveVars, running, faults, loose, alone>>

(* A request without a key writes back the one it read; a row that is gone *)
(* is not updated.                                                         *)
WriteLocation(r) ==
    LET l == req[r].loc IN
    /\ At(r, "write")
    /\ \/ keys' = keys
       \/ keys < MaxKeys /\ keys' = keys + 1
    /\ db' = IF l \in Rows(db)
             THEN [db EXCEPT !.key[l] = IF keys' = keys THEN req[r].seen[l] ELSE keys']
             ELSE db
    /\ Others({r})
    /\ Return(r)
    /\ UNCHANGED <<born, connVars, archiveVars, running, faults, loose>>

BeginRotate(r, l) ==
    /\ keys < MaxKeys
    /\ Begin(r, "rotate", "list", l)
    /\ UNCHANGED born

ListLocations(r) ==
    LET c == ClientOf[req[r].loc] IN
    /\ At(r, "list")
    /\ req' = [req EXCEPT ![r].step = "rotate",
                          ![r].seen = [l \in Locations |->
                                          IF ClientOf[l] = c THEN db.key[l] ELSE None]]
    /\ UNCHANGED <<tableVars, connVars, archiveVars, running, faults, loose, alone>>

(* One transaction over the rows listed before.                            *)
RotateLocations(r) ==
    /\ At(r, "rotate")
    /\ keys' = keys + 1
    /\ db' = [db EXCEPT !.key = [l \in Locations |->
                  IF req[r].seen[l] # None /\ @[l] # None THEN keys' ELSE @[l]]]
    /\ Others({r})
    /\ Return(r)
    /\ UNCHANGED <<born, connVars, archiveVars, running, faults, loose>>

(* The sampler, of which there is one: a location it listed gets or keeps   *)
(* its row of counters.                                                    *)
BeginSample(r, l) ==
    /\ \A s \in Requests : req[s].op # "sample"
    /\ l \in Rows(db)
    /\ Begin(r, "sample", "persist", l)
    /\ UNCHANGED born

PersistCounter(r) ==
    LET l == req[r].loc IN
    /\ At(r, "persist")
    /\ fk => l \in Rows(db) \cup db.counted
    /\ db' = [db EXCEPT !.counted = @ \cup {l}]
    /\ Loosen({l})
    /\ Others({r})
    /\ Return(r)
    /\ UNCHANGED <<keys, born, connVars, archiveVars, running, faults>>

(* With bytes to charge there is a row for the location and its client.    *)
PersistRefused(r) ==
    LET l == req[r].loc IN
    /\ At(r, "persist")
    /\ fk /\ ~ (l \in Rows(db) /\ ClientOf[l] \in db.clients)
    /\ Return(r)
    /\ UNCHANGED <<tableVars, connVars, archiveVars, running, faults, loose, alone>>

-----------------------------------------------------------------------------
(* Create: VACUUM INTO copies the tables as they are; the row of the       *)
(* backup is not among them.                                               *)
BeginBackup(r) ==
    /\ At(r, "idle")
    /\ made < MaxArchives
    /\ made' = made + 1
    /\ req' = [req EXCEPT ![r] = [Idle EXCEPT !.op = "backup", !.step = "record",
                   !.source = [id |-> made', tables |-> db, loose |-> loose]]]
    /\ UNCHANGED <<tableVars, connVars, archives, running, faults, loose, alone>>

RecordBackup(r) ==
    /\ At(r, "record")
    /\ archives' = archives \cup {req[r].source}
    /\ db' = [db EXCEPT !.known = @ \cup {req[r].source.id}]
    /\ Others({r})
    /\ Return(r)
    /\ UNCHANGED <<keys, born, made, connVars, running, faults, loose>>

(* The archive is on disk, or not, but on no list.                         *)
BackupFails(r) ==
    /\ At(r, "record")
    /\ Fault
    /\ archives' \in {archives, archives \cup {req[r].source}}
    /\ Return(r)
    /\ UNCHANGED <<tableVars, made, connVars, running, loose, alone>>

-----------------------------------------------------------------------------
(* Reload: of the API, of a signal, of the sampler, or of a restore        *)
Load(r, op) ==
    /\ req' = [req EXCEPT ![r].op = op, ![r].step = "apply", ![r].seen = Joined(db)]
    /\ UNCHANGED <<tableVars, connVars, archiveVars, running, faults, loose, alone>>

BeginReload(r) == At(r, "idle") /\ Load(r, "reload")
RestoreLoads(r) == At(r, "load") /\ Load(r, "restore")

Apply(r) ==
    /\ At(r, "apply")
    /\ running' = req[r].seen
    /\ Others({r})
    /\ IF req[r].op = "restore" THEN Goto(r, "restored") ELSE Return(r)
    /\ UNCHANGED <<tableVars, connVars, archiveVars, faults, loose>>

(* A call of the runner fails: some locations are as they were.            *)
ApplyFails(r) ==
    /\ At(r, "apply")
    /\ Fault
    /\ \E S \in SUBSET Locations :
           running' = [l \in Locations |-> IF l \in S THEN req[r].seen[l] ELSE running[l]]
    /\ Others({r})
    /\ Return(r)
    /\ UNCHANGED <<tableVars, connVars, archiveVars, loose>>

-----------------------------------------------------------------------------
(* RestoreKnown: a recorded archive is extracted, the runtime stopped, the tables *)
(* replaced, the runtime reloaded.                                         *)
BeginRestore(r) ==
    /\ At(r, "idle")
    /\ \E archive \in archives :
           /\ archive.id \in db.known
           /\ req' = [req EXCEPT ![r] = [Idle EXCEPT !.op = "restore", !.step = "stop",
                                                     !.source = archive]]
    /\ UNCHANGED <<tableVars, connVars, archiveVars, running, faults, loose, alone>>

StopAll(r) ==
    /\ At(r, "stop")
    /\ running' = Nothing
    /\ Others({r})
    /\ Goto(r, "off")
    /\ UNCHANGED <<tableVars, connVars, archiveVars, faults, loose>>

StopAllFails(r) ==
    /\ At(r, "stop")
    /\ Fault
    /\ \E S \in SUBSET Locations :
           running' = [l \in Locations |-> IF l \in S THEN None ELSE running[l]]
    /\ Others({r})
    /\ Return(r)
    /\ UNCHANGED <<tableVars, connVars, archiveVars, loose>>

ForeignKeysOff(r) ==
    /\ At(r, "off")
    /\ fk' = FALSE
    /\ Goto(r, "attach")
    /\ UNCHANGED <<tableVars, attached, archiveVars, running, faults, loose, alone>>

(* A pragma that fails, or a Migrate after the restore, ends it at once.   *)
RestoreFails(r) ==
    /\ At(r, "off") \/ At(r, "load")
    /\ Fault
    /\ Return(r)
    /\ UNCHANGED <<tableVars, connVars, archiveVars, running, loose, alone>>

Attach(r) ==
    /\ At(r, "attach")
    /\ attached = None
    /\ attached' = r
    /\ Goto(r, "replace")
    /\ UNCHANGED <<tableVars, fk, archiveVars, running, faults, loose, alone>>

(* Variant of AttachFails: the early return without the deferred pragma.   *)
AttachReturns(r) ==
    /\ At(r, "attach")
    /\ IF attached # None THEN UNCHANGED faults ELSE Fault
    /\ Return(r)
    /\ UNCHANGED <<tableVars, connVars, archiveVars, running, loose, alone>>

(* Two restores cannot have a restore_src at once.                         *)
AttachFails(r) ==
    /\ At(r, "attach")
    /\ IF attached # None THEN UNCHANGED faults ELSE Fault
    /\ req' = [req EXCEPT ![r].step = "on", ![r].ok = FALSE]
    /\ UNCHANGED <<tableVars, connVars, archiveVars, running, loose, alone>>

(* Another restore's deferred pragma may have switched foreign keys on     *)
(* again: then the transaction takes no row that dangles.                  *)
Refuses(r) == fk /\ Dangling(req[r].source.tables) # {}

Replace(r) ==
    /\ At(r, "replace")
    /\ ~ Refuses(r)
    /\ db' = req[r].source.tables
    /\ loose' = req[r].source.loose
    /\ alone' = {r}
    /\ Goto(r, "detach")
    /\ UNCHANGED <<keys, born, connVars, archiveVars, running, faults>>

ReplaceFails(r) ==
    /\ At(r, "replace")
    /\ IF Refuses(r) THEN UNCHANGED faults ELSE Fault
    /\ req' = [req EXCEPT ![r].step = "detach", ![r].ok = FALSE]
    /\ UNCHANGED <<tableVars, connVars, archiveVars, running, loose, alone>>

Detach(r) ==
    /\ At(r, "detach")
    /\ attached' = None
    /\ Goto(r, "on")
    /\ UNCHANGED <<tableVars, fk, archiveVars, running, faults, loose, alone>>

(* Variant of ForeignKeysOn: the restore ends without the Reload.          *)
OnAndReturn(r) ==
    /\ At(r, "on")
    /\ fk' = TRUE
    /\ IF req[r].ok THEN Goto(r, "restored") ELSE Return(r)
    /\ UNCHANGED <<tableVars, attached, archiveVars, running, faults, loose, alone>>

(* The deferred pragma; Migrate then finds the tables migrated already.    *)
ForeignKeysOn(r) ==
    /\ At(r, "on")
    /\ fk' = TRUE
    /\ IF req[r].ok THEN Goto(r, "load") ELSE Return(r)
    /\ UNCHANGED <<tableVars, attached, archiveVars, running, faults, loose, alone>>

RestoreReturns(r) ==
    /\ At(r, "restored")
    /\ Return(r)
    /\ UNCHANGED <<tableVars, connVars, archiveVars, running, faults, loose, alone>>

(* The panel dies; the connection, its pragmas and the tunnels with it.    *)
PanelRestart ==
    /\ Fault
    /\ fk' = TRUE
    /\ attached' = None
    /\ running' = Nothing
    /\ req' = [r \in Requests |-> Idle]
    /\ alone' = {}
    /\ UNCHANGED <<tableVars, archiveVars, loose>>

-----------------------------------------------------------------------------
Statements ==
    \/ \E c \in Clients : CreateClient(c) \/ DeleteClient(c) \/ Import(c)
    \/ \E l \in Locations : DeleteLocation(l)

Handlers ==
    \/ \E r \in Requests, l \in Locations :
           \/ BeginCreateLocation(r, l) \/ BeginUpdateLocation(r, l)
           \/ BeginRotate(r, l) \/ BeginSample(r, l)
    \/ \E r \in Requests :
           \/ InsertLocation(r) \/ InsertRefused(r)
           \/ ReadLocation(r) \/ WriteLocation(r)
           \/ ListLocations(r) \/ RotateLocations(r)
           \/ PersistCounter(r) \/ PersistRefused(r)

Backup == \E r \in Requests : BeginBackup(r) \/ RecordBackup(r) \/ BackupFails(r)

Reloads == \E r \in Requests : BeginReload(r) \/ Apply(r) \/ ApplyFails(r)

Restore ==
    \E r \in Requests :
        \/ BeginRestore(r) \/ StopAll(r) \/ StopAllFails(r)
        \/ ForeignKeysOff(r) \/ Attach(r) \/ AttachFails(r)
        \/ Replace(r) \/ ReplaceFails(r) \/ Detach(r) \/ ForeignKeysOn(r)
        \/ RestoreLoads(r) \/ RestoreFails(r) \/ RestoreReturns(r)

Next == Statements \/ Handlers \/ Backup \/ Reloads \/ Restore \/ PanelRestart

Spec == Init /\ [][Next]_vars

-----------------------------------------------------------------------------
Operations == {"none", "create", "update", "rotate", "sample", "backup", "reload",
               "restore"}
Steps == {"idle", "insert", "read", "write", "list", "rotate", "persist", "record",
          "apply", "stop", "off", "attach", "replace", "detach", "on", "load", "restored"}
Request == [op : Operations, step : Steps, loc : Locations \cup {None}, seen : Keyed,
            source : Archives \cup {None}, ok : BOOLEAN]

(* Types of all variables.                                                 *)
RegistryTypeOK ==
    /\ db \in Tables
    /\ fk \in BOOLEAN
    /\ attached \in Requests \cup {None}
    /\ archives \subseteq Archives
    /\ made \in Nat
    /\ running \in Keyed
    /\ req \in [Requests -> Request]
    /\ keys \in Nat
    /\ born \subseteq Clients \cup Locations
    /\ faults \in Nat
    /\ loose \subseteq Locations
    /\ alone \subseteq Requests

(* Is a restore between its two pragmas?                                   *)
Replacing(r) == req[r].step \in {"attach", "replace", "detach", "on"}

(* Foreign keys are off, and a database is attached, only while a restore  *)
(* is at it, whatever fails and however two restores overlap.              *)
ForeignKeysComeBack ==
    /\ ~ fk => \E r \in Requests : Replacing(r)
    /\ attached # None => req[attached].step \in {"replace", "detach"}

(* A row whose client or location is gone was written, or its reference    *)
(* deleted, while a restore had foreign keys switched off: the checks of   *)
(* the handlers alone, made in a statement of their own, would not do.     *)
DanglingIsLoose == Dangling(db) \subseteq loose

(* A restore that reports success has put back the tables of its archives,  *)
(* and the tunnels run what they say, unless somebody else changed either  *)
(* after its commit.                                                       *)
RestoreEstablishes ==
    \A r \in Requests :
        At(r, "restored") /\ r \in alone =>
            /\ db = req[r].source.tables
            /\ running = Joined(db)

(* What the REFERENCES clauses of the tables say: while no restore is      *)
(* replacing them, no row refers to one that does not exist.               *)
ReferencesHold == (\A r \in Requests : ~ Replacing(r)) => Dangling(db) = {}

-----------------------------------------------------------------------------
(* The inductive invariant behind the properties above.                    *)

(* A request knows what it is about, and so does a restore.                *)
RequestShape ==
    \A r \in Requests :
        /\ req[r].step \in {"insert", "read", "write", "list", "persist"} =>
             req[r].loc \in Locations
        /\ At(r, "write") => req[r].seen[req[r].loc] # None
        /\ Replacing(r) \/ req[r].step \in {"stop", "off", "load", "restored"} =>
             req[r].op = "restore"
        /\ At(r, "record") => req[r].op = "backup"
        /\ req[r].op \in {"backup", "restore"} => req[r].source \in Archives
        /\ req[r].op = "restore" /\ req[r].step \in {"load", "apply", "restored"} =>
             req[r].ok

(* The one that is between ATTACH and DETACH owns restore_src.             *)
AttachShape ==
    \A r \in Requests : req[r].step \in {"replace", "detach"} => attached = r

(* What an archive holds dangling was loose when it was taken.             *)
ArchivesAreLoose ==
    /\ \A archive \in archives : Dangling(archive.tables) \subseteq archive.loose
    /\ \A r \in Requests :
           req[r].op \in {"backup", "restore"} =>
               Dangling(req[r].source.tables) \subseteq req[r].source.loose

(* What a restore has behind it while nobody else writes.                  *)
RestoreProgress ==
    \A r \in alone :
        req[r].op = "restore" /\ req[r].ok =>
            /\ req[r].step \in {"detach", "on", "load", "apply", "restored"} =>
                 db = req[r].source.tables
            /\ At(r, "apply") => req[r].seen = Joined(req[r].source.tables)
            /\ At(r, "restored") => running = Joined(req[r].source.tables)

RegInv ==
    /\ RegistryTypeOK
    /\ RequestShape
    /\ AttachShape
    /\ ForeignKeysComeBack
    /\ ArchivesAreLoose
    /\ DanglingIsLoose
    /\ RestoreProgress

=============================================================================
