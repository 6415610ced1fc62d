---------------------------- MODULE RegistryProofs ----------------------------
(***************************************************************************)
(* RegInv is an invariant of the registry, for any clients, locations and  *)
(* requests and any bounds, and the four properties of Registry that the   *)
(* runs check follow from it.                                              *)
(*                                                                         *)
(* AttachShape says who owns restore_src, without which two restores could *)
(* leave it attached.  ArchivesAreLoose carries DanglingIsLoose through a  *)
(* backup and its restore.  RestoreProgress says, step by step, what a     *)
(* restore has established since its commit while nobody else wrote.       *)
(***************************************************************************)
EXTENDS Registry, TLAPS

(* The fields of a request.                                                *)
LEMMA Fields ==
    ASSUME NEW q \in [Requests -> Request], NEW r \in Requests
    PROVE  /\ q[r].op \in Operations /\ q[r].step \in Steps
           /\ q[r].loc \in Locations \cup {None} /\ q[r].seen \in Keyed
           /\ q[r].source \in Archives \cup {None} /\ q[r].ok \in BOOLEAN
<1>1. q[r] \in Request
  OBVIOUS
<1> QED
  BY <1>1 DEF Request

(* The fields of an archive.                                               *)
LEMMA ArchiveFields ==
    \A a \in Archives :
        /\ a.id \in Nat /\ a.tables \in Tables /\ a.loose \subseteq Locations
BY DEF Archives

(* What the steps of a request assign leaves it a request.                 *)
LEMMA RequestUpdates ==
    ASSUME NEW q \in Request, NEW s \in Steps, NEW k \in Keyed
    PROVE  /\ [q EXCEPT !.step = s] \in Request
           /\ [q EXCEPT !.step = s, !.ok = FALSE] \in Request
           /\ [q EXCEPT !.step = s, !.seen = k] \in Request
BY Zenon DEF Request

(* So does what ReadLocation assigns.                                      *)
LEMMA ReadUpdate ==
    ASSUME NEW q \in Request, NEW s \in Steps, NEW l \in Locations,
              NEW k \in Key \cup {None}
    PROVE  [q EXCEPT !.seen[l] = k, !.step = s] \in Request
<1>1. [q.seen EXCEPT ![l] = k] \in Keyed
  BY DEF Request, Keyed
<1> QED
  BY <1>1, Zenon DEF Request

(* And what Load assigns.                                                  *)
LEMMA LoadUpdate ==
    ASSUME NEW q \in Request, NEW s \in Steps, NEW o \in Operations, NEW k \in Keyed
    PROVE  [q EXCEPT !.op = o, !.step = s, !.seen = k] \in Request
BY Zenon DEF Request

(* A step of one request keeps the type of all.                            *)
LEMMA StepKeepsType ==
    ASSUME NEW q \in [Requests -> Request], NEW r \in Requests, NEW s \in Steps
    PROVE  [q EXCEPT ![r].step = s] \in [Requests -> Request]
<1>1. [q[r] EXCEPT !.step = s] \in Request
  BY DEF Request
<1> QED
  BY <1>1

(* The empty table of keys.                                                *)
LEMMA NothingKeyed == Nothing \in Keyed
BY DEF Nothing, Keyed

(* A goroutine without a request.                                          *)
LEMMA IdleType == Idle \in Request
BY NothingKeyed DEF Idle, Request, Operations, Steps

(* The panel starts with an empty database and no request.                 *)
LEMMA RegInit == Init => RegInv
<1> SUFFICES ASSUME Init PROVE RegInv
  OBVIOUS
<1> USE RegistryAssumption DEF Init
<1>1. RegistryTypeOK
  BY NothingKeyed, IdleType DEF RegistryTypeOK, Tables
<1>2. RequestShape /\ AttachShape /\ ForeignKeysComeBack
  BY DEF RequestShape, AttachShape, ForeignKeysComeBack, Replacing, At, Idle
<1>3. ArchivesAreLoose /\ DanglingIsLoose /\ RestoreProgress
  BY DEF ArchivesAreLoose, DanglingIsLoose, RestoreProgress, Idle, Dangling, Orphans,
         Rows, Nothing
<1> QED
  BY <1>1, <1>2, <1>3 DEF RegInv

(* Every statement of every request, the failures of a restore and the     *)
(* panel's death keep the invariant.                                       *)
LEMMA RegStep == RegInv /\ [Next]_vars => RegInv'
<1> SUFFICES ASSUME RegInv, [Next]_vars PROVE RegInv'
  OBVIOUS
<1> USE RegistryAssumption DEF RegInv, RegistryTypeOK, Tables, Archives, Keyed, Key,
        Nothing, LocationsOf, Rows, Orphans, Dangling, At, Goto, Return, Idle, Replacing,
        vars, tableVars, connVars, archiveVars
<1>1. ASSUME NEW c \in Clients, CreateClient(c) PROVE RegInv'
  <2>1. db' \in Tables
    BY <1>1 DEF CreateClient
  <2>2. /\ fk' \in BOOLEAN /\ attached' \in Requests \cup {None}
        /\ archives' \subseteq Archives /\ made' \in Nat
        /\ running' \in Keyed /\ keys' \in Nat
        /\ born' \subseteq Clients \cup Locations /\ faults' \in Nat
        /\ loose' \subseteq Locations /\ alone' \subseteq Requests
    BY <1>1 DEF Fault, Loosen, Others, CreateClient
  <2>3. req' \in [Requests -> Request]
    BY <1>1 DEF Request, Operations, Steps, CreateClient
  <2>4. RequestShape'
    BY <1>1 DEF RequestShape, Request, Fault, Loosen, Others, CreateClient
  <2>5. AttachShape'
    <3> HIDE DEF Tables, Archives, Keyed, Dangling, Idle
    <3> QED
      BY <1>1 DEF AttachShape, CreateClient
  <2>6. ForeignKeysComeBack'
    <3> HIDE DEF Tables, Archives, Keyed, Dangling, Idle
    <3> QED
      BY <1>1 DEF ForeignKeysComeBack, AttachShape, CreateClient
  <2>7. ArchivesAreLoose'
    <3> HIDE DEF Tables, Archives, Keyed, Dangling, Idle
    <3> QED
      BY <1>1 DEF ArchivesAreLoose, CreateClient
  <2>8. DanglingIsLoose'
    BY <1>1 DEF DanglingIsLoose, Fault, Loosen, Others, CreateClient
  <2>9. RestoreProgress'
    BY <1>1 DEF RestoreProgress, Request, RequestShape, Fault, Loosen, Others,
         CreateClient
  <2> QED
    BY <2>1, <2>2, <2>3, <2>4, <2>5, <2>6, <2>7, <2>8, <2>9 DEF RegistryTypeOK
<1>2. ASSUME NEW c \in Clients, DeleteClient(c) PROVE RegInv'
  <2>1. db' \in Tables
    BY <1>2, Zenon DEF DeleteClient
  <2>2. /\ fk' \in BOOLEAN /\ attached' \in Requests \cup {None}
        /\ archives' \subseteq Archives /\ made' \in Nat
        /\ running' \in Keyed /\ keys' \in Nat
        /\ born' \subseteq Clients \cup Locations /\ faults' \in Nat
        /\ loose' \subseteq Locations /\ alone' \subseteq Requests
    BY <1>2 DEF Fault, Loosen, Others, DeleteClient
  <2>3. req' \in [Requests -> Request]
    BY <1>2 DEF Request, Operations, Steps, DeleteClient
  <2>4. RequestShape'
    BY <1>2 DEF RequestShape, Request, Fault, Loosen, Others, DeleteClient
  <2>5. AttachShape'
    <3> HIDE DEF Tables, Archives, Keyed, Dangling, Idle
    <3> QED
      BY <1>2 DEF AttachShape, DeleteClient
  <2>6. ForeignKeysComeBack'
    <3> HIDE DEF Tables, Archives, Keyed, Dangling, Idle
    <3> QED
      BY <1>2 DEF ForeignKeysComeBack, AttachShape, DeleteClient
  <2>7. ArchivesAreLoose'
    <3> HIDE DEF Tables, Archives, Keyed, Dangling, Idle
    <3> QED
      BY <1>2 DEF ArchivesAreLoose, DeleteClient
  <2>8. DanglingIsLoose'
    BY <1>2 DEF DanglingIsLoose, Fault, Loosen, Others, DeleteClient
  <2>9. RestoreProgress'
    BY <1>2 DEF RestoreProgress, Request, RequestShape, Fault, Loosen, Others,
         DeleteClient
  <2> QED
    BY <2>1, <2>2, <2>3, <2>4, <2>5, <2>6, <2>7, <2>8, <2>9 DEF RegistryTypeOK
<1>3. ASSUME NEW c \in Clients, Import(c) PROVE RegInv'
  <2>1. db' \in Tables
    <3>1. keys' \in Key
      BY <1>3 DEF Import
    <3>2. db.key \in Keyed /\ db.clients \subseteq Clients
          /\ db.counted \subseteq Locations
      OBVIOUS
    <3>3. PICK bare \in SUBSET LocationsOf(c) :
              db' = [db EXCEPT !.clients = @ \cup {c},
                               !.key = [l \in Locations |->
                                   IF l \in bare THEN 0
                                   ELSE IF ClientOf[l] = c THEN keys' ELSE @[l]]]
      BY <1>3, Zenon DEF Import
    <3>4. [l \in Locations |-> IF l \in bare THEN 0
                               ELSE IF ClientOf[l] = c THEN keys' ELSE db.key[l]] \in Keyed
      BY <3>1, <3>2
    <3> QED
      BY <3>2, <3>3, <3>4, Zenon
  <2>2. /\ fk' \in BOOLEAN /\ attached' \in Requests \cup {None}
        /\ archives' \subseteq Archives /\ made' \in Nat
        /\ running' \in Keyed /\ keys' \in Nat
        /\ born' \subseteq Clients \cup Locations /\ faults' \in Nat
        /\ loose' \subseteq Locations /\ alone' \subseteq Requests
    BY <1>3 DEF Fault, Loosen, Others, Import
  <2>3. req' \in [Requests -> Request]
    BY <1>3 DEF Request, Operations, Steps, Import
  <2>4. RequestShape'
    BY <1>3 DEF RequestShape, Request, Fault, Loosen, Others, Import
  <2>5. AttachShape'
    <3> HIDE DEF Tables, Archives, Keyed, Dangling, Idle
    <3> QED
      BY <1>3 DEF AttachShape, Import
  <2>6. ForeignKeysComeBack'
    <3> HIDE DEF Tables, Archives, Keyed, Dangling, Idle
    <3> QED
      BY <1>3 DEF ForeignKeysComeBack, AttachShape, Import
  <2>7. ArchivesAreLoose'
    <3> HIDE DEF Tables, Archives, Keyed, Dangling, Idle
    <3> QED
      BY <1>3 DEF ArchivesAreLoose, Import
  <2>8. DanglingIsLoose'
    BY <1>3 DEF DanglingIsLoose, Fault, Loosen, Others, Import
  <2>9. RestoreProgress'
    BY <1>3 DEF RestoreProgress, Request, RequestShape, Fault, Loosen, Others, Import
  <2> QED
    BY <2>1, <2>2, <2>3, <2>4, <2>5, <2>6, <2>7, <2>8, <2>9 DEF RegistryTypeOK
<1>4. ASSUME NEW l \in Locations, DeleteLocation(l) PROVE RegInv'
  <2>1. db' \in Tables
    BY <1>4, Zenon DEF DeleteLocation
  <2>2. /\ fk' \in BOOLEAN /\ attached' \in Requests \cup {None}
        /\ archives' \subseteq Archives /\ made' \in Nat
        /\ running' \in Keyed /\ keys' \in Nat
        /\ born' \subseteq Clients \cup Locations /\ faults' \in Nat
        /\ loose' \subseteq Locations /\ alone' \subseteq Requests
    BY <1>4 DEF Fault, Loosen, Others, DeleteLocation
  <2>3. req' \in [Requests -> Request]
    BY <1>4 DEF Request, Operations, Steps, DeleteLocation
  <2>4. RequestShape'
    BY <1>4 DEF RequestShape, Request, Fault, Loosen, Others, DeleteLocation
  <2>5. AttachShape'
    <3> HIDE DEF Tables, Archives, Keyed, Dangling, Idle
    <3> QED
      BY <1>4 DEF AttachShape, DeleteLocation
  <2>6. ForeignKeysComeBack'
    <3> HIDE DEF Tables, Archives, Keyed, Dangling, Idle
    <3> QED
      BY <1>4 DEF ForeignKeysComeBack, AttachShape, DeleteLocation
  <2>7. ArchivesAreLoose'
    <3> HIDE DEF Tables, Archives, Keyed, Dangling, Idle
    <3> QED
      BY <1>4 DEF ArchivesAreLoose, DeleteLocation
  <2>8. DanglingIsLoose'
    BY <1>4 DEF DanglingIsLoose, Fault, Loosen, Others, DeleteLocation
  <2>9. RestoreProgress'
    BY <1>4 DEF RestoreProgress, Request, RequestShape, Fault, Loosen, Others,
         DeleteLocation
  <2> QED
    BY <2>1, <2>2, <2>3, <2>4, <2>5, <2>6, <2>7, <2>8, <2>9 DEF RegistryTypeOK
<1>5. ASSUME NEW r \in Requests, NEW l \in Locations, BeginCreateLocation(r, l)
      PROVE  RegInv'
  <2>1. db' \in Tables
    BY <1>5 DEF BeginCreateLocation, Begin, Idle
  <2>2. /\ fk' \in BOOLEAN /\ attached' \in Requests \cup {None}
        /\ archives' \subseteq Archives /\ made' \in Nat
        /\ running' \in Keyed /\ keys' \in Nat
        /\ born' \subseteq Clients \cup Locations /\ faults' \in Nat
        /\ loose' \subseteq Locations /\ alone' \subseteq Requests
    BY <1>5 DEF Fault, Loosen, Others, BeginCreateLocation, Begin, Idle
  <2>3. req' \in [Requests -> Request]
    BY <1>5, Zenon DEF Request, Operations, Steps, BeginCreateLocation, Begin, Idle
  <2>4. RequestShape'
    BY <1>5 DEF RequestShape, Request, Fault, Loosen, Others, BeginCreateLocation,
         Begin, Idle
  <2>5. AttachShape'
    <3> HIDE DEF Tables, Archives, Keyed, Dangling
    <3> QED
      BY <1>5 DEF AttachShape, BeginCreateLocation, Begin, Idle
  <2>6. ForeignKeysComeBack'
    <3> HIDE DEF Tables, Archives, Keyed, Dangling
    <3> QED
      BY <1>5 DEF ForeignKeysComeBack, AttachShape, BeginCreateLocation, Begin, Idle
  <2>7. ArchivesAreLoose'
    <3> HIDE DEF Tables, Archives, Keyed, Dangling
    <3> QED
      BY <1>5 DEF ArchivesAreLoose, BeginCreateLocation, Begin, Idle
  <2>8. DanglingIsLoose'
    BY <1>5 DEF DanglingIsLoose, Fault, Loosen, Others, BeginCreateLocation, Begin, Idle
  <2>9. RestoreProgress'
    BY <1>5 DEF RestoreProgress, Request, RequestShape, Fault, Loosen, Others,
         BeginCreateLocation, Begin, Idle
  <2> QED
    BY <2>1, <2>2, <2>3, <2>4, <2>5, <2>6, <2>7, <2>8, <2>9 DEF RegistryTypeOK
<1>6. ASSUME NEW r \in Requests, NEW l \in Locations, BeginUpdateLocation(r, l)
      PROVE  RegInv'
  <2>1. db' \in Tables
    BY <1>6 DEF BeginUpdateLocation, Begin, Idle
  <2>2. /\ fk' \in BOOLEAN /\ attached' \in Requests \cup {None}
        /\ archives' \subseteq Archives /\ made' \in Nat
        /\ running' \in Keyed /\ keys' \in Nat
        /\ born' \subseteq Clients \cup Locations /\ faults' \in Nat
        /\ loose' \subseteq Locations /\ alone' \subseteq Requests
    BY <1>6 DEF Fault, Loosen, Others, BeginUpdateLocation, Begin, Idle
  <2>3. req' \in [Requests -> Request]
    BY <1>6, Zenon DEF Request, Operations, Steps, BeginUpdateLocation, Begin, Idle
  <2>4. RequestShape'
    BY <1>6 DEF RequestShape, Request, Fault, Loosen, Others, BeginUpdateLocation,
         Begin, Idle
  <2>5. AttachShape'
    <3> HIDE DEF Tables, Archives, Keyed, Dangling
    <3> QED
      BY <1>6 DEF AttachShape, BeginUpdateLocation, Begin, Idle
  <2>6. ForeignKeysComeBack'
    <3> HIDE DEF Tables, Archives, Keyed, Dangling
    <3> QED
      BY <1>6 DEF ForeignKeysComeBack, AttachShape, BeginUpdateLocation, Begin, Idle
  <2>7. ArchivesAreLoose'
    <3> HIDE DEF Tables, Archives, Keyed, Dangling
    <3> QED
      BY <1>6 DEF ArchivesAreLoose, BeginUpdateLocation, Begin, Idle
  <2>8. DanglingIsLoose'
    BY <1>6 DEF DanglingIsLoose, Fault, Loosen, Others, BeginUpdateLocation, Begin, Idle
  <2>9. RestoreProgress'
    BY <1>6 DEF RestoreProgress, Request, RequestShape, Fault, Loosen, Others,
         BeginUpdateLocation, Begin, Idle
  <2> QED
    BY <2>1, <2>2, <2>3, <2>4, <2>5, <2>6, <2>7, <2>8, <2>9 DEF RegistryTypeOK
<1>7. ASSUME NEW r \in Requests, NEW l \in Locations, BeginRotate(r, l) PROVE RegInv'
  <2>1. db' \in Tables
    BY <1>7 DEF BeginRotate, Begin, Idle
  <2>2. /\ fk' \in BOOLEAN /\ attached' \in Requests \cup {None}
        /\ archives' \subseteq Archives /\ made' \in Nat
        /\ running' \in Keyed /\ keys' \in Nat
        /\ born' \subseteq Clients \cup Locations /\ faults' \in Nat
        /\ loose' \subseteq Locations /\ alone' \subseteq Requests
    BY <1>7 DEF Fault, Loosen, Others, BeginRotate, Begin, Idle
  <2>3. req' \in [Requests -> Request]
    BY <1>7, Zenon DEF Request, Operations, Steps, BeginRotate, Begin, Idle
  <2>4. RequestShape'
    BY <1>7 DEF RequestShape, Request, Fault, Loosen, Others, BeginRotate, Begin, Idle
  <2>5. AttachShape'
    <3> HIDE DEF Tables, Archives, Keyed, Dangling
    <3> QED
      BY <1>7 DEF AttachShape, BeginRotate, Begin, Idle
  <2>6. ForeignKeysComeBack'
    <3> HIDE DEF Tables, Archives, Keyed, Dangling
    <3> QED
      BY <1>7 DEF ForeignKeysComeBack, AttachShape, BeginRotate, Begin, Idle
  <2>7. ArchivesAreLoose'
    <3> HIDE DEF Tables, Archives, Keyed, Dangling
    <3> QED
      BY <1>7 DEF ArchivesAreLoose, BeginRotate, Begin, Idle
  <2>8. DanglingIsLoose'
    BY <1>7 DEF DanglingIsLoose, Fault, Loosen, Others, BeginRotate, Begin, Idle
  <2>9. RestoreProgress'
    BY <1>7 DEF RestoreProgress, Request, RequestShape, Fault, Loosen, Others,
         BeginRotate, Begin, Idle
  <2> QED
    BY <2>1, <2>2, <2>3, <2>4, <2>5, <2>6, <2>7, <2>8, <2>9 DEF RegistryTypeOK
<1>8. ASSUME NEW r \in Requests, NEW l \in Locations, BeginSample(r, l) PROVE RegInv'
  <2>1. db' \in Tables
    BY <1>8 DEF BeginSample, Begin, Idle
  <2>2. /\ fk' \in BOOLEAN /\ attached' \in Requests \cup {None}
        /\ archives' \subseteq Archives /\ made' \in Nat
        /\ running' \in Keyed /\ keys' \in Nat
        /\ born' \subseteq Clients \cup Locations /\ faults' \in Nat
        /\ loose' \subseteq Locations /\ alone' \subseteq Requests
    BY <1>8 DEF Fault, Loosen, Others, BeginSample, Begin, Idle
  <2>3. req' \in [Requests -> Request]
    BY <1>8, Zenon DEF Request, Operations, Steps, BeginSample, Begin, Idle
  <2>4. RequestShape'
    BY <1>8 DEF RequestShape, Request, Fault, Loosen, Others, BeginSample, Begin, Idle
  <2>5. AttachShape'
    <3> HIDE DEF Tables, Archives, Keyed, Dangling
    <3> QED
      BY <1>8 DEF AttachShape, BeginSample, Begin, Idle
  <2>6. ForeignKeysComeBack'
    <3> HIDE DEF Tables, Archives, Keyed, Dangling
    <3> QED
      BY <1>8 DEF ForeignKeysComeBack, AttachShape, BeginSample, Begin, Idle
  <2>7. ArchivesAreLoose'
    <3> HIDE DEF Tables, Archives, Keyed, Dangling
    <3> QED
      BY <1>8 DEF ArchivesAreLoose, BeginSample, Begin, Idle
  <2>8. DanglingIsLoose'
    BY <1>8 DEF DanglingIsLoose, Fault, Loosen, Others, BeginSample, Begin, Idle
  <2>9. RestoreProgress'
    BY <1>8 DEF RestoreProgress, Request, RequestShape, Fault, Loosen, Others,
         BeginSample, Begin, Idle
  <2> QED
    BY <2>1, <2>2, <2>3, <2>4, <2>5, <2>6, <2>7, <2>8, <2>9 DEF RegistryTypeOK
<1>9. ASSUME NEW r \in Requests, InsertLocation(r) PROVE RegInv'
  <2>1. db' \in Tables
    BY <1>9 DEF InsertLocation
  <2>2. /\ fk' \in BOOLEAN /\ attached' \in Requests \cup {None}
        /\ archives' \subseteq Archives /\ made' \in Nat
        /\ running' \in Keyed /\ keys' \in Nat
        /\ born' \subseteq Clients \cup Locations /\ faults' \in Nat
        /\ loose' \subseteq Locations /\ alone' \subseteq Requests
    <3>1. req[r].loc \in Locations
      BY <1>9 DEF InsertLocation, RequestShape
    <3> QED
      BY <1>9, <3>1 DEF Loosen, Others, InsertLocation
  <2>3. req' \in [Requests -> Request]
    BY <1>9 DEF Request, Operations, Steps, InsertLocation
  <2>4. RequestShape'
    BY <1>9 DEF RequestShape, Request, Fault, Loosen, Others, InsertLocation
  <2>5. AttachShape'
    <3> HIDE DEF Tables, Archives, Keyed, Dangling
    <3> QED
      BY <1>9 DEF AttachShape, InsertLocation
  <2>6. ForeignKeysComeBack'
    <3> HIDE DEF Tables, Archives, Keyed, Dangling
    <3> QED
      BY <1>9 DEF ForeignKeysComeBack, AttachShape, InsertLocation
  <2>7. ArchivesAreLoose'
    <3> HIDE DEF Tables, Archives, Keyed, Dangling
    <3> QED
      BY <1>9 DEF ArchivesAreLoose, InsertLocation
  <2>8. DanglingIsLoose'
    BY <1>9 DEF DanglingIsLoose, Fault, Loosen, Others, InsertLocation
  <2>9. RestoreProgress'
    BY <1>9 DEF RestoreProgress, Request, RequestShape, Fault, Loosen, Others,
         InsertLocation
  <2> QED
    BY <2>1, <2>2, <2>3, <2>4, <2>5, <2>6, <2>7, <2>8, <2>9 DEF RegistryTypeOK
<1>10. ASSUME NEW r \in Requests, InsertRefused(r) PROVE RegInv'
  <2>1. db' \in Tables
    BY <1>10 DEF InsertRefused
  <2>2. /\ fk' \in BOOLEAN /\ attached' \in Requests \cup {None}
        /\ archives' \subseteq Archives /\ made' \in Nat
        /\ running' \in Keyed /\ keys' \in Nat
        /\ born' \subseteq Clients \cup Locations /\ faults' \in Nat
        /\ loose' \subseteq Locations /\ alone' \subseteq Requests
    BY <1>10 DEF Fault, Loosen, Others, InsertRefused
  <2>3. req' \in [Requests -> Request]
    BY <1>10 DEF Request, Operations, Steps, InsertRefused
  <2>4. RequestShape'
    BY <1>10 DEF RequestShape, Request, Fault, Loosen, Others, InsertRefused
  <2>5. AttachShape'
    <3> HIDE DEF Tables, Archives, Keyed, Dangling
    <3> QED
      BY <1>10 DEF AttachShape, InsertRefused
  <2>6. ForeignKeysComeBack'
    <3> HIDE DEF Tables, Archives, Keyed, Dangling
    <3> QED
      BY <1>10 DEF ForeignKeysComeBack, AttachShape, InsertRefused
  <2>7. ArchivesAreLoose'
    <3> HIDE DEF Tables, Archives, Keyed, Dangling
    <3> QED
      BY <1>10 DEF ArchivesAreLoose, InsertRefused
  <2>8. DanglingIsLoose'
    BY <1>10 DEF DanglingIsLoose, Fault, Loosen, Others, InsertRefused
  <2>9. RestoreProgress'
    BY <1>10 DEF RestoreProgress, Request, RequestShape, Fault, Loosen, Others,
         InsertRefused
  <2> QED
    BY <2>1, <2>2, <2>3, <2>4, <2>5, <2>6, <2>7, <2>8, <2>9 DEF RegistryTypeOK
<1>11. ASSUME NEW r \in Requests, ReadLocation(r), req[r].loc \in Rows(db) PROVE RegInv'
  <2>a. req' = [req EXCEPT ![r].seen[req[r].loc] = db.key[req[r].loc],
            ![r].step = "write"]
    BY <1>11 DEF ReadLocation
  <2>b. /\ \A s \in Requests : s # r => req'[s] = req[s]
        /\ req'[r].step = "write" /\ req'[r].op = req[r].op /\ req'[r].loc = req[r].loc
        /\ req'[r].source = req[r].source /\ req'[r].ok = req[r].ok
    BY <2>a, Fields
  <2>1. db' \in Tables
    BY <1>11 DEF ReadLocation
  <2>2. /\ fk' \in BOOLEAN /\ attached' \in Requests \cup {None}
        /\ archives' \subseteq Archives /\ made' \in Nat
        /\ running' \in Keyed /\ keys' \in Nat
        /\ born' \subseteq Clients \cup Locations /\ faults' \in Nat
        /\ loose' \subseteq Locations /\ alone' \subseteq Requests
    BY <1>11 DEF Fault, Loosen, Others, ReadLocation
  <2>3. req' \in [Requests -> Request]
    <3>1. req[r].loc \in Locations
      BY <1>11 DEF ReadLocation, RequestShape
    <3>2. db.key[req[r].loc] \in Key \cup {None} /\ req[r] \in Request
      <4>1. db.key \in Keyed
        OBVIOUS
      <4> HIDE DEF Tables, Archives, Rows, Dangling
      <4> QED
        BY <3>1, <4>1
    <3>3. [req[r] EXCEPT !.seen[req[r].loc] = db.key[req[r].loc],
              !.step = "write"] \in Request
      BY <3>1, <3>2, ReadUpdate, Zenon DEF Steps
    <3>4. req' = [req EXCEPT ![r] = [@ EXCEPT !.seen[req[r].loc] = db.key[req[r].loc],
              !.step = "write"]]
      BY <1>11, Zenon DEF ReadLocation
    <3> HIDE DEF Tables, Archives, Keyed, Idle
    <3> QED
      BY <3>3, <3>4
  <2>4. RequestShape'
    <3>1. req[r].loc \in Locations /\ req[r].seen \in Keyed
      BY <1>11, Fields DEF ReadLocation, RequestShape
    <3>2. req'[r].seen[req[r].loc] # None
      BY <1>11, <2>a, <3>1 DEF ReadLocation
    <3> QED
      BY <1>11, <2>b, <3>1, <3>2 DEF RequestShape
  <2>5. AttachShape'
    <3> HIDE DEF Tables, Archives, Keyed, Dangling, Idle
    <3> QED
      BY <1>11, <2>b DEF AttachShape, ReadLocation
  <2>6. ForeignKeysComeBack'
    <3> HIDE DEF Tables, Archives, Keyed, Dangling, Idle
    <3> QED
      BY <1>11, <2>b DEF ForeignKeysComeBack, AttachShape, ReadLocation
  <2>7. ArchivesAreLoose'
    <3>1. archives' = archives
      BY <1>11 DEF ReadLocation
    <3> HIDE DEF Dangling, Archives
    <3> QED
      BY <2>b, <3>1 DEF ArchivesAreLoose
  <2>8. DanglingIsLoose'
    <3> HIDE DEF Dangling
    <3> QED
      BY <1>11 DEF DanglingIsLoose, ReadLocation
  <2>9. RestoreProgress'
    BY <1>11, <2>a, <2>b DEF RestoreProgress, RequestShape, Others, ReadLocation
  <2> QED
    BY <2>1, <2>2, <2>3, <2>4, <2>5, <2>6, <2>7, <2>8, <2>9 DEF RegistryTypeOK
<1>12. ASSUME NEW r \in Requests, ReadLocation(r), ~ (req[r].loc \in Rows(db))
      PROVE  RegInv'
  <2>a. req' = [req EXCEPT ![r] = Idle]
    BY <1>12 DEF ReadLocation
  <2>b. /\ \A s \in Requests : s # r => req'[s] = req[s]
        /\ req'[r].step = "idle" /\ req'[r].op = "none"
    BY <2>a DEF Idle
  <2>1. db' \in Tables
    BY <1>12 DEF ReadLocation
  <2>2. /\ fk' \in BOOLEAN /\ attached' \in Requests \cup {None}
        /\ archives' \subseteq Archives /\ made' \in Nat
        /\ running' \in Keyed /\ keys' \in Nat
        /\ born' \subseteq Clients \cup Locations /\ faults' \in Nat
        /\ loose' \subseteq Locations /\ alone' \subseteq Requests
    BY <1>12 DEF Fault, Loosen, Others, ReadLocation
  <2>3. req' \in [Requests -> Request]
    BY <2>a, IdleType
  <2>4. RequestShape'
    BY <1>12, <2>a, <2>b DEF RequestShape, ReadLocation
  <2>5. AttachShape'
    <3> HIDE DEF Tables, Archives, Keyed, Dangling, Idle
    <3> QED
      BY <1>12, <2>b DEF AttachShape, ReadLocation
  <2>6. ForeignKeysComeBack'
    <3> HIDE DEF Tables, Archives, Keyed, Dangling, Idle
    <3> QED
      BY <1>12, <2>b DEF ForeignKeysComeBack, AttachShape, ReadLocation
  <2>7. ArchivesAreLoose'
    <3> HIDE DEF Tables, Archives, Keyed, Dangling, Idle
    <3> QED
      BY <1>12, <2>b DEF ArchivesAreLoose, ReadLocation
  <2>8. DanglingIsLoose'
    BY <1>12, <2>a, <2>b DEF DanglingIsLoose, ReadLocation
  <2>9. RestoreProgress'
    BY <1>12, <2>a, <2>b DEF RestoreProgress, RequestShape, Others, ReadLocation
  <2> QED
    BY <2>1, <2>2, <2>3, <2>4, <2>5, <2>6, <2>7, <2>8, <2>9 DEF RegistryTypeOK
<1>13. ASSUME NEW r \in Requests, WriteLocation(r) PROVE RegInv'
  <2>1. db' \in Tables
    <3>1. req[r].seen[req[r].loc] \in Key \cup {None}
      BY <1>13, Fields DEF WriteLocation, RequestShape
    <3>2. keys' = keys \/ keys' \in Key
      BY <1>13 DEF WriteLocation
    <3>3. db.key \in Keyed
      OBVIOUS
    <3>4. PICK k \in Key \cup {None} : db' = [db EXCEPT !.key[req[r].loc] = k] \/ db' = db
      BY <1>13, <3>1, <3>2, Zenon DEF WriteLocation
    <3> QED
      BY <3>3, <3>4
  <2>2. /\ fk' \in BOOLEAN /\ attached' \in Requests \cup {None}
        /\ archives' \subseteq Archives /\ made' \in Nat
        /\ running' \in Keyed /\ keys' \in Nat
        /\ born' \subseteq Clients \cup Locations /\ faults' \in Nat
        /\ loose' \subseteq Locations /\ alone' \subseteq Requests
    BY <1>13 DEF Fault, Loosen, Others, WriteLocation
  <2>3. req' \in [Requests -> Request]
    BY <1>13 DEF Request, Operations, Steps, WriteLocation
  <2>4. RequestShape'
    BY <1>13 DEF RequestShape, Request, Fault, Loosen, Others, WriteLocation
  <2>5. AttachShape'
    <3> HIDE DEF Tables, Archives, Keyed, Dangling
    <3> QED
      BY <1>13 DEF AttachShape, WriteLocation
  <2>6. ForeignKeysComeBack'
    <3> HIDE DEF Tables, Archives, Keyed, Dangling
    <3> QED
      BY <1>13 DEF ForeignKeysComeBack, AttachShape, WriteLocation
  <2>7. ArchivesAreLoose'
    <3> HIDE DEF Tables, Archives, Keyed, Dangling
    <3> QED
      BY <1>13 DEF ArchivesAreLoose, WriteLocation
  <2>8. DanglingIsLoose'
    <3>1. req[r].seen[req[r].loc] \in Key \cup {None} /\ req[r].loc \in Locations
            /\ req[r].seen[req[r].loc] # None
      BY <1>13, Fields DEF WriteLocation, RequestShape
    <3>2. /\ \A l \in Locations : db'.key[l] # None => db.key[l] # None
          /\ \A l \in Locations : db.key[l] # None =>
                  db'.key[l] # None \/ req[r].seen[req[r].loc] = None
          /\ db'.clients = db.clients /\ db'.counted = db.counted
      BY <1>13, <3>1 DEF WriteLocation
    <3> QED
      BY <1>13, <3>1, <3>2 DEF DanglingIsLoose, WriteLocation
  <2>9. RestoreProgress'
    BY <1>13 DEF RestoreProgress, Request, RequestShape, Fault, Loosen, Others,
         WriteLocation
  <2> QED
    BY <2>1, <2>2, <2>3, <2>4, <2>5, <2>6, <2>7, <2>8, <2>9 DEF RegistryTypeOK
<1>14. ASSUME NEW r \in Requests, ListLocations(r) PROVE RegInv'
  <2>1. db' \in Tables
    BY <1>14 DEF ListLocations
  <2>2. /\ fk' \in BOOLEAN /\ attached' \in Requests \cup {None}
        /\ archives' \subseteq Archives /\ made' \in Nat
        /\ running' \in Keyed /\ keys' \in Nat
        /\ born' \subseteq Clients \cup Locations /\ faults' \in Nat
        /\ loose' \subseteq Locations /\ alone' \subseteq Requests
    BY <1>14 DEF Fault, Loosen, Others, ListLocations
  <2>3. req' \in [Requests -> Request]
    <3> DEFINE listed == [l \in Locations |->
                    IF ClientOf[l] = ClientOf[req[r].loc] THEN db.key[l] ELSE None]
    <3>1. listed \in Keyed
      <4>1. db.key \in Keyed
        OBVIOUS
      <4> HIDE DEF Tables, Archives, Rows, Dangling, LocationsOf
      <4> QED
        BY <4>1
    <3> HIDE DEF listed
    <3>2. [req[r] EXCEPT !.step = "rotate", !.seen = listed] \in Request
      BY <3>1, RequestUpdates, Zenon DEF Steps
    <3>3. req' = [req EXCEPT ![r] = [@ EXCEPT !.step = "rotate", !.seen = listed]]
      BY <1>14, Zenon DEF ListLocations, listed
    <3> HIDE DEF Tables, Archives, Keyed, Idle
    <3> QED
      BY <3>2, <3>3
  <2>4. RequestShape'
    BY <1>14 DEF RequestShape, Request, Fault, Loosen, Others, ListLocations
  <2>5. AttachShape'
    <3> HIDE DEF Tables, Archives, Keyed, Dangling, Idle
    <3> QED
      BY <1>14 DEF AttachShape, ListLocations
  <2>6. ForeignKeysComeBack'
    <3> HIDE DEF Tables, Archives, Keyed, Dangling, Idle
    <3> QED
      BY <1>14 DEF ForeignKeysComeBack, AttachShape, ListLocations
  <2>7. ArchivesAreLoose'
    <3> HIDE DEF Tables, Archives, Keyed, Dangling, Idle
    <3> QED
      BY <1>14 DEF ArchivesAreLoose, ListLocations
  <2>8. DanglingIsLoose'
    BY <1>14 DEF DanglingIsLoose, Fault, Loosen, Others, ListLocations
  <2>9. RestoreProgress'
    BY <1>14 DEF RestoreProgress, Request, RequestShape, Fault, Loosen, Others,
         ListLocations
  <2> QED
    BY <2>1, <2>2, <2>3, <2>4, <2>5, <2>6, <2>7, <2>8, <2>9 DEF RegistryTypeOK
<1>15. ASSUME NEW r \in Requests, RotateLocations(r) PROVE RegInv'
  <2>1. db' \in Tables
    BY <1>15 DEF RotateLocations
  <2>2. /\ fk' \in BOOLEAN /\ attached' \in Requests \cup {None}
        /\ archives' \subseteq Archives /\ made' \in Nat
        /\ running' \in Keyed /\ keys' \in Nat
        /\ born' \subseteq Clients \cup Locations /\ faults' \in Nat
        /\ loose' \subseteq Locations /\ alone' \subseteq Requests
    BY <1>15 DEF Fault, Loosen, Others, RotateLocations
  <2>3. req' \in [Requests -> Request]
    BY <1>15 DEF Request, Operations, Steps, RotateLocations
  <2>4. RequestShape'
    BY <1>15 DEF RequestShape, Request, Fault, Loosen, Others, RotateLocations
  <2>5. AttachShape'
    <3> HIDE DEF Tables, Archives, Keyed, Dangling
    <3> QED
      BY <1>15 DEF AttachShape, RotateLocations
  <2>6. ForeignKeysComeBack'
    <3> HIDE DEF Tables, Archives, Keyed, Dangling
    <3> QED
      BY <1>15 DEF ForeignKeysComeBack, AttachShape, RotateLocations
  <2>7. ArchivesAreLoose'
    <3> HIDE DEF Tables, Archives, Keyed, Dangling
    <3> QED
      BY <1>15 DEF ArchivesAreLoose, RotateLocations
  <2>8. DanglingIsLoose'
    BY <1>15 DEF DanglingIsLoose, Fault, Loosen, Others, RotateLocations
  <2>9. RestoreProgress'
    BY <1>15 DEF RestoreProgress, Request, RequestShape, Fault, Loosen, Others,
         RotateLocations
  <2> QED
    BY <2>1, <2>2, <2>3, <2>4, <2>5, <2>6, <2>7, <2>8, <2>9 DEF RegistryTypeOK
<1>16. ASSUME NEW r \in Requests, PersistCounter(r) PROVE RegInv'
  <2>1. db' \in Tables
    <3>1. req[r].loc \in Locations
      BY <1>16 DEF PersistCounter, RequestShape
    <3> QED
      BY <1>16, <3>1 DEF PersistCounter
  <2>2. /\ fk' \in BOOLEAN /\ attached' \in Requests \cup {None}
        /\ archives' \subseteq Archives /\ made' \in Nat
        /\ running' \in Keyed /\ keys' \in Nat
        /\ born' \subseteq Clients \cup Locations /\ faults' \in Nat
        /\ loose' \subseteq Locations /\ alone' \subseteq Requests
    <3>1. req[r].loc \in Locations
      BY <1>16 DEF PersistCounter, RequestShape
    <3> QED
      BY <1>16, <3>1 DEF Loosen, Others, PersistCounter
  <2>3. req' \in [Requests -> Request]
    BY <1>16 DEF Request, Operations, Steps, PersistCounter
  <2>4. RequestShape'
    BY <1>16 DEF RequestShape, Request, Fault, Loosen, Others, PersistCounter
  <2>5. AttachShape'
    <3> HIDE DEF Tables, Archives, Keyed, Dangling
    <3> QED
      BY <1>16 DEF AttachShape, PersistCounter
  <2>6. ForeignKeysComeBack'
    <3> HIDE DEF Tables, Archives, Keyed, Dangling
    <3> QED
      BY <1>16 DEF ForeignKeysComeBack, AttachShape, PersistCounter
  <2>7. ArchivesAreLoose'
    <3> HIDE DEF Tables, Archives, Keyed, Dangling
    <3> QED
      BY <1>16 DEF ArchivesAreLoose, PersistCounter
  <2>8. DanglingIsLoose'
    BY <1>16 DEF DanglingIsLoose, Fault, Loosen, Others, PersistCounter
  <2>9. RestoreProgress'
    BY <1>16 DEF RestoreProgress, Request, RequestShape, Fault, Loosen, Others,
         PersistCounter
  <2> QED
    BY <2>1, <2>2, <2>3, <2>4, <2>5, <2>6, <2>7, <2>8, <2>9 DEF RegistryTypeOK
<1>17. ASSUME NEW r \in Requests, PersistRefused(r) PROVE RegInv'
  <2>1. db' \in Tables
    BY <1>17 DEF PersistRefused
  <2>2. /\ fk' \in BOOLEAN /\ attached' \in Requests \cup {None}
        /\ archives' \subseteq Archives /\ made' \in Nat
        /\ running' \in Keyed /\ keys' \in Nat
        /\ born' \subseteq Clients \cup Locations /\ faults' \in Nat
        /\ loose' \subseteq Locations /\ alone' \subseteq Requests
    BY <1>17 DEF Fault, Loosen, Others, PersistRefused
  <2>3. req' \in [Requests -> Request]
    BY <1>17 DEF Request, Operations, Steps, PersistRefused
  <2>4. RequestShape'
    BY <1>17 DEF RequestShape, Request, Fault, Loosen, Others, PersistRefused
  <2>5. AttachShape'
    <3> HIDE DEF Tables, Archives, Keyed, Dangling
    <3> QED
      BY <1>17 DEF AttachShape, PersistRefused
  <2>6. ForeignKeysComeBack'
    <3> HIDE DEF Tables, Archives, Keyed, Dangling
    <3> QED
      BY <1>17 DEF ForeignKeysComeBack, AttachShape, PersistRefused
  <2>7. ArchivesAreLoose'
    <3> HIDE DEF Tables, Archives, Keyed, Dangling
    <3> QED
      BY <1>17 DEF ArchivesAreLoose, PersistRefused
  <2>8. DanglingIsLoose'
    BY <1>17 DEF DanglingIsLoose, Fault, Loosen, Others, PersistRefused
  <2>9. RestoreProgress'
    BY <1>17 DEF RestoreProgress, Request, RequestShape, Fault, Loosen, Others,
         PersistRefused
  <2> QED
    BY <2>1, <2>2, <2>3, <2>4, <2>5, <2>6, <2>7, <2>8, <2>9 DEF RegistryTypeOK
<1>18. ASSUME NEW r \in Requests, BeginBackup(r) PROVE RegInv'
  <2>1. db' \in Tables
    BY <1>18 DEF BeginBackup, Idle
  <2>2. /\ fk' \in BOOLEAN /\ attached' \in Requests \cup {None}
        /\ archives' \subseteq Archives /\ made' \in Nat
        /\ running' \in Keyed /\ keys' \in Nat
        /\ born' \subseteq Clients \cup Locations /\ faults' \in Nat
        /\ loose' \subseteq Locations /\ alone' \subseteq Requests
    BY <1>18 DEF Fault, Loosen, Others, BeginBackup, Idle
  <2>3. req' \in [Requests -> Request]
    <3> DEFINE new == [id |-> made', tables |-> db, loose |-> loose]
    <3>1. new \in Archives
      BY <1>18 DEF BeginBackup
    <3> HIDE DEF new
    <3>2. [Idle EXCEPT !.op = "backup", !.step = "record", !.source = new] \in Request
      BY <3>1, IdleType, Zenon DEF Request, Operations, Steps
    <3>3. req' = [req EXCEPT ![r] = [Idle EXCEPT !.op = "backup", !.step = "record",
                                                 !.source = new]]
      BY <1>18, Zenon DEF BeginBackup, new
    <3> HIDE DEF Tables, Archives, Keyed, Idle
    <3> QED
      BY <3>2, <3>3
  <2>4. RequestShape'
    BY <1>18 DEF RequestShape, Request, Fault, Loosen, Others, BeginBackup, Idle
  <2>5. AttachShape'
    <3> HIDE DEF Tables, Archives, Keyed, Dangling
    <3> QED
      BY <1>18 DEF AttachShape, BeginBackup, Idle
  <2>6. ForeignKeysComeBack'
    <3> HIDE DEF Tables, Archives, Keyed, Dangling
    <3> QED
      BY <1>18 DEF ForeignKeysComeBack, AttachShape, BeginBackup, Idle
  <2>7. ArchivesAreLoose'
    <3>1. /\ req'[r].source.tables = db /\ req'[r].source.loose = loose
          /\ \A s \in Requests : s # r => req'[s] = req[s]
      BY <1>18 DEF BeginBackup
    <3>2. Dangling(db) \subseteq loose
      BY DEF DanglingIsLoose
    <3>3. archives' = archives
      BY <1>18 DEF BeginBackup
    <3> HIDE DEF Dangling
    <3> QED
      BY <3>1, <3>2, <3>3 DEF ArchivesAreLoose
  <2>8. DanglingIsLoose'
    BY <1>18 DEF DanglingIsLoose, Fault, Loosen, Others, BeginBackup, Idle
  <2>9. RestoreProgress'
    BY <1>18 DEF RestoreProgress, Request, RequestShape, Fault, Loosen, Others,
         BeginBackup, Idle
  <2> QED
    BY <2>1, <2>2, <2>3, <2>4, <2>5, <2>6, <2>7, <2>8, <2>9 DEF RegistryTypeOK
<1>19. ASSUME NEW r \in Requests, RecordBackup(r) PROVE RegInv'
  <2>1. db' \in Tables
    <3>1. req[r].source \in Archives
      BY <1>19 DEF RecordBackup, RequestShape
    <3>2. req[r].source.id \in Nat
      BY <3>1, ArchiveFields
    <3> QED
      BY <1>19, <3>2 DEF RecordBackup
  <2>2. /\ fk' \in BOOLEAN /\ attached' \in Requests \cup {None}
        /\ archives' \subseteq Archives /\ made' \in Nat
        /\ running' \in Keyed /\ keys' \in Nat
        /\ born' \subseteq Clients \cup Locations /\ faults' \in Nat
        /\ loose' \subseteq Locations /\ alone' \subseteq Requests
    <3>1. req[r].source \in Archives
      BY <1>19 DEF RecordBackup, RequestShape
    <3>2. archives' \subseteq Archives
      BY <1>19, <3>1 DEF RecordBackup
    <3> HIDE DEF Archives, Tables
    <3> QED
      BY <1>19, <3>2 DEF Fault, Others, RecordBackup
  <2>3. req' \in [Requests -> Request]
    BY <1>19 DEF Request, Operations, Steps, RecordBackup
  <2>4. RequestShape'
    BY <1>19 DEF RequestShape, Request, Fault, Loosen, Others, RecordBackup
  <2>5. AttachShape'
    <3> HIDE DEF Tables, Archives, Keyed, Dangling
    <3> QED
      BY <1>19 DEF AttachShape, RecordBackup
  <2>6. ForeignKeysComeBack'
    <3> HIDE DEF Tables, Archives, Keyed, Dangling
    <3> QED
      BY <1>19 DEF ForeignKeysComeBack, AttachShape, RecordBackup
  <2>7. ArchivesAreLoose'
    <3>1. /\ req'[r].op = "none" /\ \A s \in Requests : s # r => req'[s] = req[s]
          /\ archives' \subseteq archives \cup {req[r].source}
      BY <1>19 DEF RecordBackup
    <3>2. Dangling(req[r].source.tables) \subseteq req[r].source.loose
      BY <1>19 DEF RecordBackup, ArchivesAreLoose, RequestShape
    <3> HIDE DEF Dangling
    <3> QED
      BY <3>1, <3>2 DEF ArchivesAreLoose
  <2>8. DanglingIsLoose'
    BY <1>19 DEF DanglingIsLoose, Fault, Loosen, Others, RecordBackup
  <2>9. RestoreProgress'
    BY <1>19 DEF RestoreProgress, Request, RequestShape, Fault, Loosen, Others,
         RecordBackup
  <2> QED
    BY <2>1, <2>2, <2>3, <2>4, <2>5, <2>6, <2>7, <2>8, <2>9 DEF RegistryTypeOK
<1>20. ASSUME NEW r \in Requests, BackupFails(r) PROVE RegInv'
  <2>1. db' \in Tables
    BY <1>20 DEF BackupFails
  <2>2. /\ fk' \in BOOLEAN /\ attached' \in Requests \cup {None}
        /\ archives' \subseteq Archives /\ made' \in Nat
        /\ running' \in Keyed /\ keys' \in Nat
        /\ born' \subseteq Clients \cup Locations /\ faults' \in Nat
        /\ loose' \subseteq Locations /\ alone' \subseteq Requests
    <3>1. req[r].source \in Archives
      BY <1>20 DEF BackupFails, RequestShape
    <3>2. archives' \subseteq Archives
      BY <1>20, <3>1 DEF BackupFails
    <3> HIDE DEF Archives, Tables
    <3> QED
      BY <1>20, <3>2 DEF Fault, Others, BackupFails
  <2>3. req' \in [Requests -> Request]
    BY <1>20 DEF Request, Operations, Steps, BackupFails
  <2>4. RequestShape'
    BY <1>20 DEF RequestShape, Request, Fault, Loosen, Others, BackupFails
  <2>5. AttachShape'
    <3> HIDE DEF Tables, Archives, Keyed, Dangling
    <3> QED
      BY <1>20 DEF AttachShape, BackupFails
  <2>6. ForeignKeysComeBack'
    <3> HIDE DEF Tables, Archives, Keyed, Dangling
    <3> QED
      BY <1>20 DEF ForeignKeysComeBack, AttachShape, BackupFails
  <2>7. ArchivesAreLoose'
    <3>1. /\ req'[r].op = "none" /\ \A s \in Requests : s # r => req'[s] = req[s]
          /\ archives' \subseteq archives \cup {req[r].source}
      BY <1>20 DEF BackupFails
    <3>2. Dangling(req[r].source.tables) \subseteq req[r].source.loose
      BY <1>20 DEF BackupFails, ArchivesAreLoose, RequestShape
    <3> HIDE DEF Dangling
    <3> QED
      BY <3>1, <3>2 DEF ArchivesAreLoose
  <2>8. DanglingIsLoose'
    BY <1>20 DEF DanglingIsLoose, Fault, Loosen, Others, BackupFails
  <2>9. RestoreProgress'
    BY <1>20 DEF RestoreProgress, Request, RequestShape, Fault, Loosen, Others,
         BackupFails
  <2> QED
    BY <2>1, <2>2, <2>3, <2>4, <2>5, <2>6, <2>7, <2>8, <2>9 DEF RegistryTypeOK
<1>21. ASSUME NEW r \in Requests, BeginReload(r) PROVE RegInv'
  <2>1. db' \in Tables
    BY <1>21 DEF BeginReload, Load
  <2>2. /\ fk' \in BOOLEAN /\ attached' \in Requests \cup {None}
        /\ archives' \subseteq Archives /\ made' \in Nat
        /\ running' \in Keyed /\ keys' \in Nat
        /\ born' \subseteq Clients \cup Locations /\ faults' \in Nat
        /\ loose' \subseteq Locations /\ alone' \subseteq Requests
    BY <1>21 DEF Fault, Loosen, Others, BeginReload, Load
  <2>3. req' \in [Requests -> Request]
    <3>1. Joined(db) \in Keyed
      BY DEF Joined
    <3>2. /\ [req[r] EXCEPT !.op = "reload", !.step = "apply", !.seen = Joined(db)]
               \in Request
          /\ req[r] \in Request
      BY <3>1, LoadUpdate, Zenon DEF Operations, Steps
    <3>3. req' = [req EXCEPT ![r] = [@ EXCEPT !.op = "reload",
              !.step = "apply", !.seen = Joined(db)]]
      BY <1>21, Zenon DEF BeginReload, Load
    <3> HIDE DEF Tables, Archives, Keyed, Idle
    <3> QED
      BY <3>2, <3>3
  <2>4. RequestShape'
    BY <1>21 DEF RequestShape, Request, Fault, Loosen, Others, BeginReload, Load
  <2>5. AttachShape'
    <3> HIDE DEF Tables, Archives, Keyed, Dangling, Idle
    <3> QED
      BY <1>21 DEF AttachShape, BeginReload, Load
  <2>6. ForeignKeysComeBack'
    <3> HIDE DEF Tables, Archives, Keyed, Dangling, Idle
    <3> QED
      BY <1>21 DEF ForeignKeysComeBack, AttachShape, BeginReload, Load
  <2>7. ArchivesAreLoose'
    <3> HIDE DEF Tables, Archives, Keyed, Dangling, Idle
    <3> QED
      BY <1>21 DEF ArchivesAreLoose, BeginReload, Load
  <2>8. DanglingIsLoose'
    BY <1>21 DEF DanglingIsLoose, Fault, Loosen, Others, BeginReload, Load
  <2>9. RestoreProgress'
    BY <1>21 DEF RestoreProgress, Request, RequestShape, Fault, Loosen, Others,
         BeginReload, Load
  <2> QED
    BY <2>1, <2>2, <2>3, <2>4, <2>5, <2>6, <2>7, <2>8, <2>9 DEF RegistryTypeOK
<1>22. ASSUME NEW r \in Requests, Apply(r), req[r].op = "restore" PROVE RegInv'
  <2>a. req' = [req EXCEPT ![r].step = "restored"]
    BY <1>22 DEF Apply
  <2>b. /\ \A s \in Requests : s # r => req'[s] = req[s]
        /\ req'[r].step = "restored" /\ req'[r].op = req[r].op /\ req'[r].loc = req[r].loc
        /\ req'[r].source = req[r].source /\ req'[r].ok = req[r].ok
        /\ req'[r].seen = req[r].seen
    BY <2>a, Fields
  <2>1. db' \in Tables
    BY <1>22 DEF Apply
  <2>2. /\ fk' \in BOOLEAN /\ attached' \in Requests \cup {None}
        /\ archives' \subseteq Archives /\ made' \in Nat
        /\ running' \in Keyed /\ keys' \in Nat
        /\ born' \subseteq Clients \cup Locations /\ faults' \in Nat
        /\ loose' \subseteq Locations /\ alone' \subseteq Requests
    <3>1. running' \in Keyed
      BY <1>22, Fields DEF Apply
    <3> QED
      BY <1>22, <3>1 DEF Others, Apply
  <2>3. req' \in [Requests -> Request]
    <3>1. "restored" \in Steps /\ req \in [Requests -> Request] /\ r \in Requests
      BY <1>22 DEF Steps
    <3>2. [req EXCEPT ![r].step = "restored"] \in [Requests -> Request]
      BY ONLY <3>1, StepKeepsType
    <3> QED
      BY ONLY <2>a, <3>2
  <2>4. RequestShape'
    BY <1>22, <2>a, <2>b DEF RequestShape, Apply
  <2>5. AttachShape'
    <3> HIDE DEF Tables, Archives, Keyed, Dangling, Idle
    <3> QED
      BY <1>22, <2>b DEF AttachShape, Apply
  <2>6. ForeignKeysComeBack'
    <3> HIDE DEF Tables, Archives, Keyed, Dangling, Idle
    <3> QED
      BY <1>22, <2>b DEF ForeignKeysComeBack, AttachShape, Apply
  <2>7. ArchivesAreLoose'
    <3> HIDE DEF Tables, Archives, Keyed, Dangling, Idle
    <3> QED
      BY <1>22, <2>b DEF ArchivesAreLoose, Apply
  <2>8. DanglingIsLoose'
    BY <1>22, <2>a, <2>b DEF DanglingIsLoose, Apply
  <2>9. RestoreProgress'
    BY <1>22, <2>a, <2>b DEF RestoreProgress, RequestShape, Others, Apply
  <2> QED
    BY <2>1, <2>2, <2>3, <2>4, <2>5, <2>6, <2>7, <2>8, <2>9 DEF RegistryTypeOK
<1>23. ASSUME NEW r \in Requests, Apply(r), ~ (req[r].op = "restore") PROVE RegInv'
  <2>a. req' = [req EXCEPT ![r] = Idle]
    BY <1>23 DEF Apply
  <2>b. /\ \A s \in Requests : s # r => req'[s] = req[s]
        /\ req'[r].step = "idle" /\ req'[r].op = "none"
    BY <2>a DEF Idle
  <2>1. db' \in Tables
    BY <1>23 DEF Apply
  <2>2. /\ fk' \in BOOLEAN /\ attached' \in Requests \cup {None}
        /\ archives' \subseteq Archives /\ made' \in Nat
        /\ running' \in Keyed /\ keys' \in Nat
        /\ born' \subseteq Clients \cup Locations /\ faults' \in Nat
        /\ loose' \subseteq Locations /\ alone' \subseteq Requests
    <3>1. running' \in Keyed
      BY <1>23, Fields DEF Apply
    <3> QED
      BY <1>23, <3>1 DEF Others, Apply
  <2>3. req' \in [Requests -> Request]
    BY <2>a, IdleType
  <2>4. RequestShape'
    BY <1>23, <2>a, <2>b DEF RequestShape, Apply
  <2>5. AttachShape'
    <3> HIDE DEF Tables, Archives, Keyed, Dangling, Idle
    <3> QED
      BY <1>23, <2>b DEF AttachShape, Apply
  <2>6. ForeignKeysComeBack'
    <3> HIDE DEF Tables, Archives, Keyed, Dangling, Idle
    <3> QED
      BY <1>23, <2>b DEF ForeignKeysComeBack, AttachShape, Apply
  <2>7. ArchivesAreLoose'
    <3> HIDE DEF Tables, Archives, Keyed, Dangling, Idle
    <3> QED
      BY <1>23, <2>b DEF ArchivesAreLoose, Apply
  <2>8. DanglingIsLoose'
    BY <1>23, <2>a, <2>b DEF DanglingIsLoose, Apply
  <2>9. RestoreProgress'
    BY <1>23, <2>a, <2>b DEF RestoreProgress, RequestShape, Others, Apply
  <2> QED
    BY <2>1, <2>2, <2>3, <2>4, <2>5, <2>6, <2>7, <2>8, <2>9 DEF RegistryTypeOK
<1>24. ASSUME NEW r \in Requests, ApplyFails(r) PROVE RegInv'
  <2>1. db' \in Tables
    BY <1>24 DEF ApplyFails
  <2>2. /\ fk' \in BOOLEAN /\ attached' \in Requests \cup {None}
        /\ archives' \subseteq Archives /\ made' \in Nat
        /\ running' \in Keyed /\ keys' \in Nat
        /\ born' \subseteq Clients \cup Locations /\ faults' \in Nat
        /\ loose' \subseteq Locations /\ alone' \subseteq Requests
    <3>1. running' \in Keyed
      BY <1>24, Fields DEF ApplyFails
    <3> QED
      BY <1>24, <3>1 DEF Fault, Others, ApplyFails
  <2>3. req' \in [Requests -> Request]
    BY <1>24 DEF Request, Operations, Steps, ApplyFails
  <2>4. RequestShape'
    BY <1>24 DEF RequestShape, Request, Fault, Loosen, Others, ApplyFails
  <2>5. AttachShape'
    <3> HIDE DEF Tables, Archives, Keyed, Dangling
    <3> QED
      BY <1>24 DEF AttachShape, ApplyFails
  <2>6. ForeignKeysComeBack'
    <3> HIDE DEF Tables, Archives, Keyed, Dangling
    <3> QED
      BY <1>24 DEF ForeignKeysComeBack, AttachShape, ApplyFails
  <2>7. ArchivesAreLoose'
    <3> HIDE DEF Tables, Archives, Keyed, Dangling
    <3> QED
      BY <1>24 DEF ArchivesAreLoose, ApplyFails
  <2>8. DanglingIsLoose'
    BY <1>24 DEF DanglingIsLoose, Fault, Loosen, Others, ApplyFails
  <2>9. RestoreProgress'
    BY <1>24 DEF RestoreProgress, Request, RequestShape, Fault, Loosen, Others,
         ApplyFails
  <2> QED
    BY <2>1, <2>2, <2>3, <2>4, <2>5, <2>6, <2>7, <2>8, <2>9 DEF RegistryTypeOK
<1>25. ASSUME NEW r \in Requests, BeginRestore(r) PROVE RegInv'
  <2>1. db' \in Tables
    BY <1>25 DEF BeginRestore, Idle
  <2>2. /\ fk' \in BOOLEAN /\ attached' \in Requests \cup {None}
        /\ archives' \subseteq Archives /\ made' \in Nat
        /\ running' \in Keyed /\ keys' \in Nat
        /\ born' \subseteq Clients \cup Locations /\ faults' \in Nat
        /\ loose' \subseteq Locations /\ alone' \subseteq Requests
    BY <1>25 DEF Fault, Loosen, Others, BeginRestore, Idle
  <2>3. req' \in [Requests -> Request]
    <3>1. PICK archive \in archives :
              req' = [req EXCEPT ![r] = [Idle EXCEPT !.op = "restore", !.step = "stop",
                                                     !.source = archive]]
      BY <1>25, Zenon DEF BeginRestore
    <3>2. [Idle EXCEPT !.op = "restore", !.step = "stop", !.source = archive] \in Request
      BY IdleType, Zenon DEF Request, Operations, Steps
    <3> HIDE DEF Tables, Archives, Keyed, Idle
    <3> QED
      BY <3>1, <3>2
  <2>4. RequestShape'
    BY <1>25 DEF RequestShape, Request, Fault, Loosen, Others, BeginRestore, Idle
  <2>5. AttachShape'
    <3> HIDE DEF Tables, Archives, Keyed, Dangling
    <3> QED
      BY <1>25 DEF AttachShape, BeginRestore, Idle
  <2>6. ForeignKeysComeBack'
    <3> HIDE DEF Tables, Archives, Keyed, Dangling
    <3> QED
      BY <1>25 DEF ForeignKeysComeBack, AttachShape, BeginRestore, Idle
  <2>7. ArchivesAreLoose'
    <3> HIDE DEF Tables, Archives, Keyed, Dangling
    <3> QED
      BY <1>25 DEF ArchivesAreLoose, BeginRestore, Idle
  <2>8. DanglingIsLoose'
    BY <1>25 DEF DanglingIsLoose, Fault, Loosen, Others, BeginRestore, Idle
  <2>9. RestoreProgress'
    BY <1>25 DEF RestoreProgress, Request, RequestShape, Fault, Loosen, Others,
         BeginRestore, Idle
  <2> QED
    BY <2>1, <2>2, <2>3, <2>4, <2>5, <2>6, <2>7, <2>8, <2>9 DEF RegistryTypeOK
<1>26. ASSUME NEW r \in Requests, StopAll(r) PROVE RegInv'
  <2>1. db' \in Tables
    BY <1>26 DEF StopAll
  <2>2. /\ fk' \in BOOLEAN /\ attached' \in Requests \cup {None}
        /\ archives' \subseteq Archives /\ made' \in Nat
        /\ running' \in Keyed /\ keys' \in Nat
        /\ born' \subseteq Clients \cup Locations /\ faults' \in Nat
        /\ loose' \subseteq Locations /\ alone' \subseteq Requests
    BY <1>26 DEF Fault, Loosen, Others, StopAll
  <2>3. req' \in [Requests -> Request]
    BY <1>26, StepKeepsType, Zenon DEF Steps, StopAll
  <2>4. RequestShape'
    BY <1>26 DEF RequestShape, Request, Fault, Loosen, Others, StopAll
  <2>5. AttachShape'
    <3> HIDE DEF Tables, Archives, Keyed, Dangling, Idle
    <3> QED
      BY <1>26 DEF AttachShape, StopAll
  <2>6. ForeignKeysComeBack'
    <3> HIDE DEF Tables, Archives, Keyed, Dangling, Idle
    <3> QED
      BY <1>26 DEF ForeignKeysComeBack, AttachShape, StopAll
  <2>7. ArchivesAreLoose'
    <3> HIDE DEF Tables, Archives, Keyed, Dangling, Idle
    <3> QED
      BY <1>26 DEF ArchivesAreLoose, StopAll
  <2>8. DanglingIsLoose'
    BY <1>26 DEF DanglingIsLoose, Fault, Loosen, Others, StopAll
  <2>9. RestoreProgress'
    BY <1>26 DEF RestoreProgress, Request, RequestShape, Fault, Loosen, Others, StopAll
  <2> QED
    BY <2>1, <2>2, <2>3, <2>4, <2>5, <2>6, <2>7, <2>8, <2>9 DEF RegistryTypeOK
<1>27. ASSUME NEW r \in Requests, StopAllFails(r) PROVE RegInv'
  <2>1. db' \in Tables
    BY <1>27 DEF StopAllFails
  <2>2. /\ fk' \in BOOLEAN /\ attached' \in Requests \cup {None}
        /\ archives' \subseteq Archives /\ made' \in Nat
        /\ running' \in Keyed /\ keys' \in Nat
        /\ born' \subseteq Clients \cup Locations /\ faults' \in Nat
        /\ loose' \subseteq Locations /\ alone' \subseteq Requests
    BY <1>27 DEF Fault, Loosen, Others, StopAllFails
  <2>3. req' \in [Requests -> Request]
    BY <1>27 DEF Request, Operations, Steps, StopAllFails
  <2>4. RequestShape'
    BY <1>27 DEF RequestShape, Request, Fault, Loosen, Others, StopAllFails
  <2>5. AttachShape'
    <3> HIDE DEF Tables, Archives, Keyed, Dangling
    <3> QED
      BY <1>27 DEF AttachShape, StopAllFails
  <2>6. ForeignKeysComeBack'
    <3> HIDE DEF Tables, Archives, Keyed, Dangling
    <3> QED
      BY <1>27 DEF ForeignKeysComeBack, AttachShape, StopAllFails
  <2>7. ArchivesAreLoose'
    <3> HIDE DEF Tables, Archives, Keyed, Dangling
    <3> QED
      BY <1>27 DEF ArchivesAreLoose, StopAllFails
  <2>8. DanglingIsLoose'
    BY <1>27 DEF DanglingIsLoose, Fault, Loosen, Others, StopAllFails
  <2>9. RestoreProgress'
    BY <1>27 DEF RestoreProgress, Request, RequestShape, Fault, Loosen, Others,
         StopAllFails
  <2> QED
    BY <2>1, <2>2, <2>3, <2>4, <2>5, <2>6, <2>7, <2>8, <2>9 DEF RegistryTypeOK
<1>28. ASSUME NEW r \in Requests, ForeignKeysOff(r) PROVE RegInv'
  <2>1. db' \in Tables
    BY <1>28 DEF ForeignKeysOff
  <2>2. /\ fk' \in BOOLEAN /\ attached' \in Requests \cup {None}
        /\ archives' \subseteq Archives /\ made' \in Nat
        /\ running' \in Keyed /\ keys' \in Nat
        /\ born' \subseteq Clients \cup Locations /\ faults' \in Nat
        /\ loose' \subseteq Locations /\ alone' \subseteq Requests
    BY <1>28, Zenon DEF Fault, Loosen, Others, ForeignKeysOff
  <2>3. req' \in [Requests -> Request]
    BY <1>28, StepKeepsType, Zenon DEF Steps, ForeignKeysOff
  <2>4. RequestShape'
    BY <1>28 DEF RequestShape, Request, Fault, Loosen, Others, ForeignKeysOff
  <2>5. AttachShape'
    <3> HIDE DEF Tables, Archives, Keyed, Dangling, Idle
    <3> QED
      BY <1>28 DEF AttachShape, ForeignKeysOff
  <2>6. ForeignKeysComeBack'
    <3> HIDE DEF Tables, Archives, Keyed, Dangling, Idle
    <3> QED
      BY <1>28 DEF ForeignKeysComeBack, AttachShape, ForeignKeysOff
  <2>7. ArchivesAreLoose'
    <3> HIDE DEF Tables, Archives, Keyed, Dangling, Idle
    <3> QED
      BY <1>28 DEF ArchivesAreLoose, ForeignKeysOff
  <2>8. DanglingIsLoose'
    BY <1>28 DEF DanglingIsLoose, Fault, Loosen, Others, ForeignKeysOff
  <2>9. RestoreProgress'
    BY <1>28 DEF RestoreProgress, Request, RequestShape, Fault, Loosen, Others,
         ForeignKeysOff
  <2> QED
    BY <2>1, <2>2, <2>3, <2>4, <2>5, <2>6, <2>7, <2>8, <2>9 DEF RegistryTypeOK
<1>29. ASSUME NEW r \in Requests, Attach(r) PROVE RegInv'
  <2>1. db' \in Tables
    BY <1>29 DEF Attach
  <2>2. /\ fk' \in BOOLEAN /\ attached' \in Requests \cup {None}
        /\ archives' \subseteq Archives /\ made' \in Nat
        /\ running' \in Keyed /\ keys' \in Nat
        /\ born' \subseteq Clients \cup Locations /\ faults' \in Nat
        /\ loose' \subseteq Locations /\ alone' \subseteq Requests
    BY <1>29 DEF Fault, Loosen, Others, Attach
  <2>3. req' \in [Requests -> Request]
    BY <1>29, StepKeepsType, Zenon DEF Steps, Attach
  <2>4. RequestShape'
    BY <1>29 DEF RequestShape, Request, Fault, Loosen, Others, Attach
  <2>5. AttachShape'
    <3> HIDE DEF Tables, Archives, Keyed, Dangling, Idle
    <3> QED
      BY <1>29 DEF AttachShape, Attach
  <2>6. ForeignKeysComeBack'
    <3> HIDE DEF Tables, Archives, Keyed, Dangling, Idle
    <3> QED
      BY <1>29 DEF ForeignKeysComeBack, AttachShape, Attach
  <2>7. ArchivesAreLoose'
    <3> HIDE DEF Tables, Archives, Keyed, Dangling, Idle
    <3> QED
      BY <1>29 DEF ArchivesAreLoose, Attach
  <2>8. DanglingIsLoose'
    BY <1>29 DEF DanglingIsLoose, Fault, Loosen, Others, Attach
  <2>9. RestoreProgress'
    BY <1>29 DEF RestoreProgress, Request, RequestShape, Fault, Loosen, Others, Attach
  <2> QED
    BY <2>1, <2>2, <2>3, <2>4, <2>5, <2>6, <2>7, <2>8, <2>9 DEF RegistryTypeOK
<1>30. ASSUME NEW r \in Requests, AttachFails(r) PROVE RegInv'
  <2>1. db' \in Tables
    BY <1>30 DEF AttachFails
  <2>2. /\ fk' \in BOOLEAN /\ attached' \in Requests \cup {None}
        /\ archives' \subseteq Archives /\ made' \in Nat
        /\ running' \in Keyed /\ keys' \in Nat
        /\ born' \subseteq Clients \cup Locations /\ faults' \in Nat
        /\ loose' \subseteq Locations /\ alone' \subseteq Requests
    BY <1>30 DEF Fault, Loosen, Others, AttachFails
  <2>3. req' \in [Requests -> Request]
    <3>1. [req[r] EXCEPT !.step = "on", !.ok = FALSE] \in Request
      BY RequestUpdates, NothingKeyed, Zenon DEF Steps
    <3>2. req' = [req EXCEPT ![r] = [@ EXCEPT !.step = "on", !.ok = FALSE]]
      BY <1>30, Zenon DEF AttachFails
    <3> HIDE DEF Tables, Archives, Keyed, Idle
    <3> QED
      BY <3>1, <3>2
  <2>4. RequestShape'
    BY <1>30 DEF RequestShape, Request, Fault, Loosen, Others, AttachFails
  <2>5. AttachShape'
    <3> HIDE DEF Tables, Archives, Keyed, Dangling, Idle
    <3> QED
      BY <1>30 DEF AttachShape, AttachFails
  <2>6. ForeignKeysComeBack'
    <3>1. /\ \A s \in Requests : s # r => req'[s] = req[s]
          /\ req'[r].step = "on" /\ req[r].step = "attach"
          /\ UNCHANGED <<fk, attached>>
      BY <1>30 DEF AttachFails
    <3> QED
      BY <3>1 DEF ForeignKeysComeBack
  <2>7. ArchivesAreLoose'
    <3> HIDE DEF Tables, Archives, Keyed, Dangling, Idle
    <3> QED
      BY <1>30 DEF ArchivesAreLoose, AttachFails
  <2>8. DanglingIsLoose'
    BY <1>30 DEF DanglingIsLoose, Fault, Loosen, Others, AttachFails
  <2>9. RestoreProgress'
    BY <1>30 DEF RestoreProgress, Request, RequestShape, Fault, Loosen, Others,
         AttachFails
  <2> QED
    BY <2>1, <2>2, <2>3, <2>4, <2>5, <2>6, <2>7, <2>8, <2>9 DEF RegistryTypeOK
<1>31. ASSUME NEW r \in Requests, Replace(r) PROVE RegInv'
  <2>1. db' \in Tables
    <3>1. req[r].source \in Archives
      BY <1>31 DEF Replace, RequestShape
    <3> HIDE DEF Tables
    <3> QED
      BY <1>31, <3>1, ArchiveFields DEF Replace
  <2>2. /\ fk' \in BOOLEAN /\ attached' \in Requests \cup {None}
        /\ archives' \subseteq Archives /\ made' \in Nat
        /\ running' \in Keyed /\ keys' \in Nat
        /\ born' \subseteq Clients \cup Locations /\ faults' \in Nat
        /\ loose' \subseteq Locations /\ alone' \subseteq Requests
    <3>1. req[r].source \in Archives
      BY <1>31 DEF Replace, RequestShape
    <3> HIDE DEF Tables
    <3> QED
      BY <1>31, <3>1, ArchiveFields DEF Replace
  <2>3. req' \in [Requests -> Request]
    BY <1>31, StepKeepsType, Zenon DEF Steps, Replace
  <2>4. RequestShape'
    BY <1>31 DEF RequestShape, Request, Fault, Loosen, Others, Replace
  <2>5. AttachShape'
    <3> HIDE DEF Tables, Archives, Keyed, Dangling, Idle
    <3> QED
      BY <1>31 DEF AttachShape, Replace
  <2>6. ForeignKeysComeBack'
    <3> HIDE DEF Tables, Archives, Keyed, Dangling, Idle
    <3> QED
      BY <1>31 DEF ForeignKeysComeBack, AttachShape, Replace
  <2>7. ArchivesAreLoose'
    <3> HIDE DEF Tables, Archives, Keyed, Dangling, Idle
    <3> QED
      BY <1>31 DEF ArchivesAreLoose, Replace
  <2>8. DanglingIsLoose'
    <3>1. db' = req[r].source.tables /\ loose' = req[r].source.loose
      BY <1>31 DEF Replace
    <3>2. Dangling(req[r].source.tables) \subseteq req[r].source.loose
      BY <1>31 DEF Replace, RequestShape, ArchivesAreLoose
    <3> HIDE DEF Dangling
    <3> QED
      BY <3>1, <3>2 DEF DanglingIsLoose
  <2>9. RestoreProgress'
    BY <1>31 DEF RestoreProgress, Request, RequestShape, Fault, Loosen, Others, Replace
  <2> QED
    BY <2>1, <2>2, <2>3, <2>4, <2>5, <2>6, <2>7, <2>8, <2>9 DEF RegistryTypeOK
<1>32. ASSUME NEW r \in Requests, ReplaceFails(r) PROVE RegInv'
  <2>1. db' \in Tables
    BY <1>32 DEF ReplaceFails
  <2>2. /\ fk' \in BOOLEAN /\ attached' \in Requests \cup {None}
        /\ archives' \subseteq Archives /\ made' \in Nat
        /\ running' \in Keyed /\ keys' \in Nat
        /\ born' \subseteq Clients \cup Locations /\ faults' \in Nat
        /\ loose' \subseteq Locations /\ alone' \subseteq Requests
    BY <1>32 DEF Fault, Loosen, Others, ReplaceFails
  <2>3. req' \in [Requests -> Request]
    <3>1. [req[r] EXCEPT !.step = "detach", !.ok = FALSE] \in Request
      BY RequestUpdates, NothingKeyed, Zenon DEF Steps
    <3>2. req' = [req EXCEPT ![r] = [@ EXCEPT !.step = "detach", !.ok = FALSE]]
      BY <1>32, Zenon DEF ReplaceFails
    <3> HIDE DEF Tables, Archives, Keyed, Idle
    <3> QED
      BY <3>1, <3>2
  <2>4. RequestShape'
    BY <1>32 DEF RequestShape, Request, Fault, Loosen, Others, ReplaceFails
  <2>5. AttachShape'
    <3> HIDE DEF Tables, Archives, Keyed, Dangling, Idle
    <3> QED
      BY <1>32 DEF AttachShape, ReplaceFails
  <2>6. ForeignKeysComeBack'
    <3> HIDE DEF Tables, Archives, Keyed, Dangling, Idle
    <3> QED
      BY <1>32 DEF ForeignKeysComeBack, AttachShape, ReplaceFails
  <2>7. ArchivesAreLoose'
    <3> HIDE DEF Tables, Archives, Keyed, Dangling, Idle
    <3> QED
      BY <1>32 DEF ArchivesAreLoose, ReplaceFails
  <2>8. DanglingIsLoose'
    BY <1>32 DEF DanglingIsLoose, Fault, Loosen, Others, ReplaceFails
  <2>9. RestoreProgress'
    BY <1>32 DEF RestoreProgress, Request, RequestShape, Fault, Loosen, Others,
         ReplaceFails
  <2> QED
    BY <2>1, <2>2, <2>3, <2>4, <2>5, <2>6, <2>7, <2>8, <2>9 DEF RegistryTypeOK
<1>33. ASSUME NEW r \in Requests, Detach(r) PROVE RegInv'
  <2>1. db' \in Tables
    BY <1>33 DEF Detach
  <2>2. /\ fk' \in BOOLEAN /\ attached' \in Requests \cup {None}
        /\ archives' \subseteq Archives /\ made' \in Nat
        /\ running' \in Keyed /\ keys' \in Nat
        /\ born' \subseteq Clients \cup Locations /\ faults' \in Nat
        /\ loose' \subseteq Locations /\ alone' \subseteq Requests
    BY <1>33 DEF Fault, Loosen, Others, Detach
  <2>3. req' \in [Requests -> Request]
    BY <1>33, StepKeepsType, Zenon DEF Steps, Detach
  <2>4. RequestShape'
    BY <1>33 DEF RequestShape, Request, Fault, Loosen, Others, Detach
  <2>5. AttachShape'
    <3> HIDE DEF Tables, Archives, Keyed, Dangling, Idle
    <3> QED
      BY <1>33 DEF AttachShape, Detach
  <2>6. ForeignKeysComeBack'
    <3> HIDE DEF Tables, Archives, Keyed, Dangling, Idle
    <3> QED
      BY <1>33 DEF ForeignKeysComeBack, AttachShape, Detach
  <2>7. ArchivesAreLoose'
    <3> HIDE DEF Tables, Archives, Keyed, Dangling, Idle
    <3> QED
      BY <1>33 DEF ArchivesAreLoose, Detach
  <2>8. DanglingIsLoose'
    BY <1>33 DEF DanglingIsLoose, Fault, Loosen, Others, Detach
  <2>9. RestoreProgress'
    BY <1>33 DEF RestoreProgress, Request, RequestShape, Fault, Loosen, Others, Detach
  <2> QED
    BY <2>1, <2>2, <2>3, <2>4, <2>5, <2>6, <2>7, <2>8, <2>9 DEF RegistryTypeOK
<1>34. ASSUME NEW r \in Requests, ForeignKeysOn(r), req[r].ok PROVE RegInv'
  <2>a. req' = [req EXCEPT ![r].step = "load"]
    BY <1>34 DEF ForeignKeysOn
  <2>b. /\ \A s \in Requests : s # r => req'[s] = req[s]
        /\ req'[r].step = "load" /\ req'[r].op = req[r].op /\ req'[r].loc = req[r].loc
        /\ req'[r].source = req[r].source /\ req'[r].ok = req[r].ok
        /\ req'[r].seen = req[r].seen
    BY <2>a, Fields
  <2>1. db' \in Tables
    BY <1>34 DEF ForeignKeysOn
  <2>2. /\ fk' \in BOOLEAN /\ attached' \in Requests \cup {None}
        /\ archives' \subseteq Archives /\ made' \in Nat
        /\ running' \in Keyed /\ keys' \in Nat
        /\ born' \subseteq Clients \cup Locations /\ faults' \in Nat
        /\ loose' \subseteq Locations /\ alone' \subseteq Requests
    BY <1>34 DEF Fault, Loosen, Others, ForeignKeysOn
  <2>3. req' \in [Requests -> Request]
    <3> HIDE DEF Keyed, Archives
    <3> QED
      BY <2>a, StepKeepsType, Zenon DEF Steps
  <2>4. RequestShape'
    BY <1>34, <2>a, <2>b DEF RequestShape, ForeignKeysOn
  <2>5. AttachShape'
    <3> HIDE DEF Tables, Archives, Keyed, Dangling, Idle
    <3> QED
      BY <1>34, <2>b DEF AttachShape, ForeignKeysOn
  <2>6. ForeignKeysComeBack'
    <3> HIDE DEF Tables, Archives, Keyed, Dangling, Idle
    <3> QED
      BY <1>34, <2>b DEF ForeignKeysComeBack, AttachShape, ForeignKeysOn
  <2>7. ArchivesAreLoose'
    <3> HIDE DEF Tables, Archives, Keyed, Dangling, Idle
    <3> QED
      BY <1>34, <2>b DEF ArchivesAreLoose, ForeignKeysOn
  <2>8. DanglingIsLoose'
    BY <1>34, <2>a, <2>b DEF DanglingIsLoose, ForeignKeysOn
  <2>9. RestoreProgress'
    BY <1>34, <2>a, <2>b DEF RestoreProgress, RequestShape, Others, ForeignKeysOn
  <2> QED
    BY <2>1, <2>2, <2>3, <2>4, <2>5, <2>6, <2>7, <2>8, <2>9 DEF RegistryTypeOK
<1>35. ASSUME NEW r \in Requests, ForeignKeysOn(r), ~ (req[r].ok) PROVE RegInv'
  <2>a. req' = [req EXCEPT ![r] = Idle]
    BY <1>35 DEF ForeignKeysOn
  <2>b. /\ \A s \in Requests : s # r => req'[s] = req[s]
        /\ req'[r].step = "idle" /\ req'[r].op = "none"
    BY <2>a DEF Idle
  <2>1. db' \in Tables
    BY <1>35 DEF ForeignKeysOn
  <2>2. /\ fk' \in BOOLEAN /\ attached' \in Requests \cup {None}
        /\ archives' \subseteq Archives /\ made' \in Nat
        /\ running' \in Keyed /\ keys' \in Nat
        /\ born' \subseteq Clients \cup Locations /\ faults' \in Nat
        /\ loose' \subseteq Locations /\ alone' \subseteq Requests
    BY <1>35 DEF Fault, Loosen, Others, ForeignKeysOn
  <2>3. req' \in [Requests -> Request]
    BY <2>a, IdleType
  <2>4. RequestShape'
    BY <1>35, <2>a, <2>b DEF RequestShape, ForeignKeysOn
  <2>5. AttachShape'
    <3> HIDE DEF Tables, Archives, Keyed, Dangling, Idle
    <3> QED
      BY <1>35, <2>b DEF AttachShape, ForeignKeysOn
  <2>6. ForeignKeysComeBack'
    <3> HIDE DEF Tables, Archives, Keyed, Dangling, Idle
    <3> QED
      BY <1>35, <2>b DEF ForeignKeysComeBack, AttachShape, ForeignKeysOn
  <2>7. ArchivesAreLoose'
    <3> HIDE DEF Tables, Archives, Keyed, Dangling, Idle
    <3> QED
      BY <1>35, <2>b DEF ArchivesAreLoose, ForeignKeysOn
  <2>8. DanglingIsLoose'
    BY <1>35, <2>a, <2>b DEF DanglingIsLoose, ForeignKeysOn
  <2>9. RestoreProgress'
    BY <1>35, <2>a, <2>b DEF RestoreProgress, RequestShape, Others, ForeignKeysOn
  <2> QED
    BY <2>1, <2>2, <2>3, <2>4, <2>5, <2>6, <2>7, <2>8, <2>9 DEF RegistryTypeOK
<1>36. ASSUME NEW r \in Requests, RestoreLoads(r) PROVE RegInv'
  <2>1. db' \in Tables
    BY <1>36 DEF RestoreLoads, Load
  <2>2. /\ fk' \in BOOLEAN /\ attached' \in Requests \cup {None}
        /\ archives' \subseteq Archives /\ made' \in Nat
        /\ running' \in Keyed /\ keys' \in Nat
        /\ born' \subseteq Clients \cup Locations /\ faults' \in Nat
        /\ loose' \subseteq Locations /\ alone' \subseteq Requests
    BY <1>36 DEF Fault, Loosen, Others, RestoreLoads, Load
  <2>3. req' \in [Requests -> Request]
    <3>1. Joined(db) \in Keyed
      BY DEF Joined
    <3>2. /\ [req[r] EXCEPT !.op = "restore", !.step = "apply", !.seen = Joined(db)]
               \in Request
          /\ req[r] \in Request
      BY <3>1, LoadUpdate, Zenon DEF Operations, Steps
    <3>3. req' = [req EXCEPT ![r] = [@ EXCEPT !.op = "restore",
              !.step = "apply", !.seen = Joined(db)]]
      BY <1>36, Zenon DEF RestoreLoads, Load
    <3> HIDE DEF Tables, Archives, Keyed, Idle
    <3> QED
      BY <3>2, <3>3
  <2>4. RequestShape'
    BY <1>36 DEF RequestShape, Request, Fault, Loosen, Others, RestoreLoads, Load
  <2>5. AttachShape'
    <3> HIDE DEF Tables, Archives, Keyed, Dangling, Idle
    <3> QED
      BY <1>36 DEF AttachShape, RestoreLoads, Load
  <2>6. ForeignKeysComeBack'
    <3> HIDE DEF Tables, Archives, Keyed, Dangling, Idle
    <3> QED
      BY <1>36 DEF ForeignKeysComeBack, AttachShape, RestoreLoads, Load
  <2>7. ArchivesAreLoose'
    <3> HIDE DEF Tables, Archives, Keyed, Dangling
    <3>1. req[r].op = "restore"
      BY <1>36 DEF RequestShape, RestoreLoads
    <3> QED
      BY <1>36, <3>1 DEF ArchivesAreLoose, RestoreLoads, Load
  <2>8. DanglingIsLoose'
    BY <1>36 DEF DanglingIsLoose, Fault, Loosen, Others, RestoreLoads, Load
  <2>9. RestoreProgress'
    BY <1>36 DEF RestoreProgress, Request, RequestShape, Fault, Loosen, Others,
         RestoreLoads, Load
  <2> QED
    BY <2>1, <2>2, <2>3, <2>4, <2>5, <2>6, <2>7, <2>8, <2>9 DEF RegistryTypeOK
<1>37. ASSUME NEW r \in Requests, RestoreFails(r) PROVE RegInv'
  <2>1. db' \in Tables
    BY <1>37 DEF RestoreFails
  <2>2. /\ fk' \in BOOLEAN /\ attached' \in Requests \cup {None}
        /\ archives' \subseteq Archives /\ made' \in Nat
        /\ running' \in Keyed /\ keys' \in Nat
        /\ born' \subseteq Clients \cup Locations /\ faults' \in Nat
        /\ loose' \subseteq Locations /\ alone' \subseteq Requests
    BY <1>37 DEF Fault, Loosen, Others, RestoreFails
  <2>3. req' \in [Requests -> Request]
    BY <1>37 DEF Request, Operations, Steps, RestoreFails
  <2>4. RequestShape'
    BY <1>37 DEF RequestShape, Request, Fault, Loosen, Others, RestoreFails
  <2>5. AttachShape'
    <3> HIDE DEF Tables, Archives, Keyed, Dangling
    <3> QED
      BY <1>37 DEF AttachShape, RestoreFails
  <2>6. ForeignKeysComeBack'
    <3> HIDE DEF Tables, Archives, Keyed, Dangling
    <3> QED
      BY <1>37 DEF ForeignKeysComeBack, AttachShape, RestoreFails
  <2>7. ArchivesAreLoose'
    <3> HIDE DEF Tables, Archives, Keyed, Dangling
    <3> QED
      BY <1>37 DEF ArchivesAreLoose, RestoreFails
  <2>8. DanglingIsLoose'
    BY <1>37 DEF DanglingIsLoose, Fault, Loosen, Others, RestoreFails
  <2>9. RestoreProgress'
    BY <1>37 DEF RestoreProgress, Request, RequestShape, Fault, Loosen, Others,
         RestoreFails
  <2> QED
    BY <2>1, <2>2, <2>3, <2>4, <2>5, <2>6, <2>7, <2>8, <2>9 DEF RegistryTypeOK
<1>38. ASSUME NEW r \in Requests, RestoreReturns(r) PROVE RegInv'
  <2>1. db' \in Tables
    BY <1>38 DEF RestoreReturns
  <2>2. /\ fk' \in BOOLEAN /\ attached' \in Requests \cup {None}
        /\ archives' \subseteq Archives /\ made' \in Nat
        /\ running' \in Keyed /\ keys' \in Nat
        /\ born' \subseteq Clients \cup Locations /\ faults' \in Nat
        /\ loose' \subseteq Locations /\ alone' \subseteq Requests
    BY <1>38 DEF Fault, Loosen, Others, RestoreReturns
  <2>3. req' \in [Requests -> Request]
    BY <1>38 DEF Request, Operations, Steps, RestoreReturns
  <2>4. RequestShape'
    BY <1>38 DEF RequestShape, Request, Fault, Loosen, Others, RestoreReturns
  <2>5. AttachShape'
    <3> HIDE DEF Tables, Archives, Keyed, Dangling
    <3> QED
      BY <1>38 DEF AttachShape, RestoreReturns
  <2>6. ForeignKeysComeBack'
    <3> HIDE DEF Tables, Archives, Keyed, Dangling
    <3> QED
      BY <1>38 DEF ForeignKeysComeBack, AttachShape, RestoreReturns
  <2>7. ArchivesAreLoose'
    <3> HIDE DEF Tables, Archives, Keyed, Dangling
    <3> QED
      BY <1>38 DEF ArchivesAreLoose, RestoreReturns
  <2>8. DanglingIsLoose'
    BY <1>38 DEF DanglingIsLoose, Fault, Loosen, Others, RestoreReturns
  <2>9. RestoreProgress'
    BY <1>38 DEF RestoreProgress, Request, RequestShape, Fault, Loosen, Others,
         RestoreReturns
  <2> QED
    BY <2>1, <2>2, <2>3, <2>4, <2>5, <2>6, <2>7, <2>8, <2>9 DEF RegistryTypeOK
<1>39. CASE PanelRestart
  <2>1. db' \in Tables
    BY <1>39 DEF PanelRestart, Idle
  <2>2. /\ fk' \in BOOLEAN /\ attached' \in Requests \cup {None}
        /\ archives' \subseteq Archives /\ made' \in Nat
        /\ running' \in Keyed /\ keys' \in Nat
        /\ born' \subseteq Clients \cup Locations /\ faults' \in Nat
        /\ loose' \subseteq Locations /\ alone' \subseteq Requests
    BY <1>39 DEF Fault, Loosen, Others, PanelRestart, Idle
  <2>3. req' \in [Requests -> Request]
    BY <1>39 DEF Request, Operations, Steps, PanelRestart, Idle
  <2>4. RequestShape'
    BY <1>39 DEF RequestShape, Request, Fault, Loosen, Others, PanelRestart, Idle
  <2>5. AttachShape'
    <3> HIDE DEF Tables, Archives, Keyed, Dangling
    <3> QED
      BY <1>39 DEF AttachShape, PanelRestart, Idle
  <2>6. ForeignKeysComeBack'
    <3> HIDE DEF Tables, Archives, Keyed, Dangling
    <3> QED
      BY <1>39 DEF ForeignKeysComeBack, AttachShape, PanelRestart, Idle
  <2>7. ArchivesAreLoose'
    <3> HIDE DEF Tables, Archives, Keyed, Dangling
    <3> QED
      BY <1>39 DEF ArchivesAreLoose, PanelRestart, Idle
  <2>8. DanglingIsLoose'
    BY <1>39 DEF DanglingIsLoose, Fault, Loosen, Others, PanelRestart, Idle
  <2>9. RestoreProgress'
    BY <1>39 DEF RestoreProgress, Request, RequestShape, Fault, Loosen, Others,
         PanelRestart, Idle
  <2> QED
    BY <2>1, <2>2, <2>3, <2>4, <2>5, <2>6, <2>7, <2>8, <2>9 DEF RegistryTypeOK
<1>40. CASE UNCHANGED vars
  BY <1>40 DEF RegistryTypeOK, RequestShape, AttachShape, ForeignKeysComeBack,
       Replacing, ArchivesAreLoose, DanglingIsLoose, RestoreProgress
<1> QED
  BY <1>1, <1>2, <1>3, <1>4, <1>5, <1>6, <1>7, <1>8, <1>9, <1>10, <1>11, <1>12, <1>13,
       <1>14, <1>15, <1>16, <1>17, <1>18, <1>19, <1>20, <1>21, <1>22, <1>23, <1>24,
       <1>25, <1>26, <1>27, <1>28, <1>29, <1>30, <1>31, <1>32, <1>33, <1>34, <1>35,
       <1>36, <1>37, <1>38, <1>39, <1>40
  DEF Next, Statements, Handlers, Backup, Reloads, Restore

(* The registry keeps its inductive invariant.                             *)
THEOREM RegistryInvariant == Spec => []RegInv
BY RegInit, RegStep, PTL DEF Spec

(* The tables, archives, pragmas and requests keep their types, through    *)
(* every interleaving, failure and restart.  A row may have the empty key: *)
(* ImportPanel stores what its document says.                              *)
THEOREM RegistryTypes == Spec => []RegistryTypeOK
<1>1. RegInv => RegistryTypeOK
  BY DEF RegInv
<1> QED
  BY <1>1, RegistryInvariant, PTL

(* Whatever fails in replaceDatabaseState and however restores overlap,    *)
(* foreign keys are on again, and nothing is attached, when all are done.  *)
THEOREM RestoreSwitchesBack == Spec => []ForeignKeysComeBack
<1>1. RegInv => ForeignKeysComeBack
  BY DEF RegInv
<1> QED
  BY <1>1, RegistryInvariant, PTL

(* CreateLocation and persistCounter check first and write later, and a    *)
(* client or a location may go in between; a row that dangles was written, *)
(* or lost its parent, while a restore had foreign keys off.               *)
THEOREM OnlyRestoresDangle == Spec => []DanglingIsLoose
<1>1. RegInv => DanglingIsLoose
  BY DEF RegInv
<1> QED
  BY <1>1, RegistryInvariant, PTL

(* A restore that returns success has the tables and the tunnels agree     *)
(* with its archive, if nobody else touched either since its commit.       *)
THEOREM RestoreMakesItSo == Spec => []RestoreEstablishes
<1>1. ASSUME RegInv, NEW r \in Requests, At(r, "restored"), r \in alone
      PROVE  db = req[r].source.tables /\ running = Joined(db)
  <2>1. req[r].op = "restore" /\ req[r].ok
    BY <1>1 DEF RegInv, RequestShape, At
  <2> QED
    BY <1>1, <2>1 DEF RegInv, RestoreProgress, At
<1>2. RegInv => RestoreEstablishes
  BY <1>1 DEF RestoreEstablishes
<1> QED
  BY <1>2, RegistryInvariant, PTL
=============================================================================
