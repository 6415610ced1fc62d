# A verification project for olcrtc-panel

olcrtc-panel is one Go process (`olcpanel serve`) on one machine. It keeps clients
and their locations in SQLite, runs one `olcrtc` process per active location inside
a network namespace of its own, counts the bytes each client uses, and serves an API
and a web page to the administrator. The panel is small; what is hard about it is that
an HTTP handler, a signal handler, the traffic sampler, one goroutine per tunnel
process and systemd all act on the same tunnels. The web page is hard in another way:
it shows answers it has kept, in several tabs that share one cookie, while its own
changes and those of others are on their way.

The modules here are translated from the Go, shell and TypeScript sources. TLC checks
them on small instances; TLAPS proves the central invariants for every instance.

## 1. Inventory

| Part | State | Operations | Talks to | What makes it correct |
|---|---|---|---|---|
| process runner `internal/supervisor/process_runner.go` | `processes`, `statuses`, one `managedProcess` and one watch goroutine per process | Start, Stop, Restart, Status, Validate | network stack, runtime config files, log sink, the kernel | no process lost or doubled; namespace and file outlive the process; a finished Stop leaves nothing |
| supervisor `supervisor.go` | `running` (entries with fingerprints), `mu` | Reload, StopAll, StatusSnapshot | database (read), runner | what runs is on record; a finished Reload is complete; an unchanged tunnel is left alone; Reload returns |
| traffic sampler `internal/traffic` | `observed`; tables `traffic_counter_state`, `traffic_counters`, `clients.quota_used_bytes` | Sample, Run | sysfs counters, database, Reload | every byte charged once; the two sums agree; a crossed quota or date stops traffic |
| updater `update.sh` | two binaries, two `.bak` files, the service | update, rollback | systemd, migrate, the HTTP API | old version recoverable until the new one answers; rollback complete |
| network stack `internal/netstack` | namespaces, veths, NAT and tc rules, cache of ensured states | Ensure, Cleanup, Validate, Doctor | `ip`, `iptables`, `tc` | no subnet shared; a cached state is the real one, but for the lapses below |
| client registry `internal/clients` | clients, locations, tokens | CRUD, key and room rotation, derived states | database | every row refers to something that exists; payloads normal |
| authentication `internal/auth` | admin, sessions, API keys, attempts | first admin, login, CSRF, API keys, rate limit | database | one first admin; expired or revoked is refused; the window bounds attempts |
| HTTP server `internal/server` | none of its own | one handler per route | all stores, supervisor, backup | guards in front of every mutation |
| backup `internal/backup` | archives, their rows | create, restore, export, import | supervisor, database | a restore that reports success has put the tables back and runs them; foreign keys are on again whatever fails |
| storage, migrations `internal/storage` | schema version | open, migrate | SQLite, one connection | a migration is all or nothing |
| log sink `internal/observability` | current file, rotated files | Append, Query, rotation | runner | no line lost by a rotation |
| metrics, subscriptions, runtime config, config | none, or a reading to compare with | pure functions and file writes | – | results as defined |
| web interface `frontend/src`: session `App.tsx:72-243`, `session.ts` | per tab the token in sessionStorage and the cached state; one cookie for all | load, sign in, sign out | `/api/state`, setup, login, logout | who is signed in sees the panel; who has left keeps nothing; a logout ends its own session |
| web interface: clients page `App.tsx:330-490, 706-790` | cached lists, selection, filter, drawer, dialog | select, search, create, save, delete, rotate, reload | the API, other administrators | what was reported as done is shown; what is deleted was asked for |
| web interface: location form `App.tsx:517-626`, `domain.ts` | texts of fields, JSON, limit, key | open, edit, save | clients.go, which checks the same tables again | what was left alone keeps its value; what was saved is shown |
| web interface: other pages | lists, filters | fetch, render | the API | – |
| CLI, service `cmd/olcpanel`, `deploy` | – | serve, SIGHUP, one-shot commands | everything | start, reload and stop in order |
| installer, embedded assets | – | – | – | straight-line or generated |

Hard behaviour, by kind (the list with its lines is under `hazards` in
`PROJECT.json`):

- *interleaving*: Reload reads its snapshot before it takes the lock; watch
  goroutines of dead processes wake late; counters move between two reads;
- *partial failure*: every step of Start and Stop, and every call inside the loops
  of Reload, may fail and end what was under way;
- *crash*: systemd kills the panel with its control group and starts it again; the
  updater is interrupted in the middle of a file;
- *stale state*: fingerprints on record, the sampler's memory of client states, the
  cache of ensured networks;
- *one connection*: a request is several statements, and between two of them any other
  request has the connection, with its pragmas as they are;
- *liveness*: Stop waits for the watch goroutine with the supervisor's lock held;
- *late answers*: a list read before a change arrives after it; a tab's login is answered
  after another tab's logout; the client in the detail changes under an open dialog;
- *three tables that must agree*: fields, defaults and supported pairs of provider and
  transport are written down in the form, in its conversions and in the server.

## 2. Modules and how they correspond to the code

| Module | Models | Notes |
|---|---|---|
| `ProcessRunner` | `process_runner.go` | one call under way (the supervisor's lock gives that), any number of watch goroutines |
| `MCProcessRunner` | – | the runner under a caller that calls anything |
| `Supervisor` | `supervisor.go`, restart of the panel | EXTENDS ProcessRunner: its loops make the runner's calls |
| `Tunnels` | the abstract promise of both | five variables fewer; `Supervisor!ImplementsTunnels` maps to it |
| `MCSupervisor` | – | instances: ranks, subnets, symmetry |
| `SupervisorProofs` | – | theorems about the runner and the supervisor |
| `Accounts` | the abstract promise of the sampler | bytes pass and are charged, no counters; `TrafficSampler!ImplementsAccounts` maps to it |
| `TrafficSampler`, `TrafficSamplerProofs`, `MCTrafficSampler` | `traffic.go`, the quota part of `loadDesired` | the supervisor appears as what `Supervisor` shows it to be |
| `Netstack`, `NetstackProofs`, `MCNetstack` | `netstack.go` (Ensure, Cleanup), the runner's use of it | a call as a sequence of commands over the kernel's state |
| `Registry`, `RegistryProofs`, `MCRegistry` | `clients.go`, create, restore and import of `backup.go`, the one connection of `storage.go` | requests as goroutines over the tables; Reload appears as what `Supervisor` shows it to be |
| `UpdateScript`, `UpdateScriptProofs` | `update.sh` | the script as a pc over its commands |
| `QueryClient` | one entry of the query cache: TanStack Query as `main.tsx:13-19` sets it up | a library: modelled from its use, external |
| `BrowserSession`, `BrowserSessionProofs`, `MCBrowserSession` | `App`, `AuthScreen`, the logout, `session.ts`, the session handlers and `auth.go`'s sessions | EXTENDS QueryClient |
| `ClientsScreen`, `ClientsScreenProofs`, `MCClientsScreen` | `ClientsView`, `ClientDetail`, drawers, `ConfirmModal`, reload, restore, import, against the handlers | EXTENDS QueryClient |
| `LocationDrawer`, `LocationDrawerProofs`, `MCLocationDrawer` | `LocationDrawer`, `TransportPresetFields`, `domain.ts`, `normalizeLocationInput` | one form against one row |

**ProcessRunner.** `processes` and `statuses` are the two maps. `procs[p]` is a
`managedProcess` with the operating-system process behind it: live, killed (SIGKILL was
sent and has not taken effect: the process still runs), dead (exited, not
waited for), reaped (its goroutine is past `cmd.Wait` and will take the mutex), free.
`file` and `net` are the configuration file and the namespace. `call` is the call
under way, with its next step: Start is check, ensure, render, exec, register; Stop is
mark, kill, wait, remove, cleanup, unregister. Steps that hold the mutex are one
action, steps that do not are one each, so exits, `Reap` and `Watch` of every process
interleave with each. Every step that can fail has a failing action with the clean-up
the code does there. A cancelled context is a failure of the first step. `net` says whether the
kernel has the namespace, `ensured` what the cache of the network stack holds, `cleaned`
(history) how the last Cleanup ended. A Start may find its state in the cache
(`EnsureFromCache`); a Cleanup may pass over a namespace it cannot delete (`CleansInPart`) or
return an error and keep the entry (`CleanupError`), and then the next Start runs a process
whether or not there is a namespace. `LiveHasResources` names that case and allows no other.
What the single commands do is the business of `Netstack`.

**Supervisor.** `desired[l]` is what the database holds: a configuration, `Inactive`
(disabled, expired, over quota under "stop") or `Absent`. `Load` takes the snapshot
without the lock and ends there if `Validate` refuses it. `Visit` is one turn of the
loop over the entries, in the order of creation (`CreatedRank`), `Remove` one of the
loop over removed locations, by id (`IdRank`). `CallSucceeded` and `CallFailed` follow
the return of the runner's call: the first updates `running`, the second gives up the
lock. `doomed` (history) holds the locations that a Reload found up although a failed Stop had
already killed their process. `PanelRestart` is the death of the panel with its control group
(`olcpanel.service` sets no KillMode); the namespaces and files stay.

**TrafficSampler.** `veth[l]` holds the two counters, `sent[l]` (history) the bytes
that really passed. A sample reads `rx`, then `tx`, then commits one transaction;
between them anything may happen. `veths[l]` counts how often the veth was made, which
is what a reset of the counters is. `first[l]` (history) is its first baseline. `observed` is
the sampler's memory. `lockMode` is the setting, which the administrator may change. A Reload,
the sampler's own or another, makes every location what it is to be (`ReloadAll`) or ends with
an error after a part of them (`ReloadInPart`): because a call failed, or because a location
over its quota is to run with its traffic cut, which Ensure refuses (`Refused`, the finding of
`netstack_cut`). `pc` is "failed" after an own Reload that ended so; the next tick goes on from
there as from "idle".

**Netstack.** `have[l]` is the set of things `ip` has made for a location, `link` the state
of the namespace's end of the veth, `qdisc`, `rules`, `dns` and `nat` the rest of what the
kernel and `/etc/netns` hold; all of it survives a restart of the panel. `ensured` is the
stack's cache, `process` what the runner has started, `call` the Ensure or Cleanup under way
with the command it is at. The effect of a command is that of `ip`, `tc` and `iptables`:
`Needs` and `Possible` say on what it can work, `OfVeth` and `DeleteNamespace` what goes with
a thing that is removed. A step that can fail does so by a fault, because the context was
cancelled before, or because it cannot work; Ensure then ends and leaves everything as it is,
Cleanup goes on. `spoiled` (history) marks the locations for which a command failed since
they were last in order, `lapses` (history) what may be untrue of a location's cache entry:
"cleanup" (a Cleanup returned an error and the entry stayed), "ensure" (an Ensure for another
state failed after it had set the link, and the entry of the old state stayed), "limit" (a
qdisc was kept, or could not be removed, when the entry was made) and "rule" (a location with the same subnet
removed the rule both need). A new entry clears them.

**Registry.** `db` is the tables: the clients, a key per location that has a row, the
locations with a row of counters, the numbers of the recorded backups. `fk` and `attached`
are what the connection carries from one statement to the next. `storage.go:75` allows one
connection, so a statement outside a transaction and a whole transaction are one action;
`req[r]` is the request a goroutine serves, with the step it is at and what it has read.
Deletions cascade to the counters while `fk` is on; with `fk` off an insertion is not checked
and a deletion does not cascade. A restore is stop, pragma off, attach, replace, detach,
pragma on, load, apply; its deferred statements run on every way out. A backup takes its
snapshot in one statement and its row comes later, so the row is in no snapshot of its own
(`known`). A key is a number, new ones are larger, zero is the empty key (an import stores one
where the document has none), and the id of a location fixes its client. `loose` and `alone` are histories: the rows written while foreign keys were off, and
the restores since whose commit nobody else wrote.

**UpdateScript.** A file is the version it holds, or `None` when it is missing or not
completely written (`install` and `cp` make a file executable, and `-x` true, only at
the end). `proven` is the last version whose health check passed.

**QueryClient.** An entry holds the last answer, whether the last fetch failed, and at most
one fetch on its way: sent, then read by the server, then arrived. A mount or a focus joins
a fetch on its way (`Fetch`); an invalidation replaces it unless it is the first load
(`Refetch`), which the library leaves alone. `Dropped` is what a component that is not
rendered again sees after the cache was cleared under it.

**BrowserSession.** A session stands for its cookie and its CSRF token. The tabs share
`cookie`; `stored[t]` is the token in the tab's sessionStorage, `state[t]` and `settings[t]`
two of its queries, the second a stand-in for everything that is read under a session. A
request carries the cookie of the moment it is sent; an answer sets or clears whatever cookie
there is when it arrives. `Render` is what React does with a new state: it enables the
settings query and takes the login form off the page. `crossed` (history) marks a tab that
left while a login of its own was on its way.

**ClientsScreen.** `there` and `clock` are the server: which clients have a row, and per query
how many writes have touched its answer, so an answer is as old as the clock it was read at.
`query` is the cache (the list, and the locations of each client), `selected`, `filter`,
`drawer`, `confirm` the state of `ClientsView`, `call` the mutations on their way. `Shown`
is the client in the detail, computed from the list at every rendering as the code does.
`Succeed` is `onSuccess`: it invalidates and closes the drawer or dialog that is open by then.
`acked` (history) is per query the last write the page has reported as done, and `lapsed`
(history) why a query may be older than that until it is read again (`Lapses`). "joined": a
fetch whose answer the server had already given when the change was reported is not replaced if
it is the first load, or if the query is not in use; the library joins it. "restore": a restore
replaces the rows of every location, and the page invalidates the list of clients only
(`App.tsx:949-953`). `AcknowledgedIsShown` holds the page to everything else.

**LocationDrawer.** `Number`, `String` and `trim` of JavaScript are constants with the laws the
conversions need (a number survives `String` and `Number`; `Number` disregards spaces). The
form's tables (`FieldsOf`, `DefaultText`, `providerTransports`) are those of `domain.ts`, the
server's (`ServerFields`, `DefaultValue`, `Valid`, `ValidateProviderTransport`) those of
`clients.go`, written down apart so that a difference shows. JSON typed into the advanced field
is an object by its fields, or none.

## 3. Runs

| Run | Instance | Shows |
|---|---|---|
| `process_runner` | 2 locations, 2 configurations, 3 process objects, 2 faults; 1.4 million states up to symmetry | types; `NoLostProcess`, `LiveHasResources`, `StopLeavesNothing` |
| `supervisor` | 2 locations, 2 configurations, 2 callers, 2 process objects, 1 database write, 1 fault; 1.0 million states up to symmetry | types; `AccountedFor`, `StartFindsNoProcess`, `ReloadEstablishes`, `UnchangedIsNotKilled` |
| `supervisor_live` | 1 location, 2 configurations, 2 callers, 2 process objects; 179 thousand states | `ImplementsTunnels`, `ReloadReturns`, `DeathIsReported` |
| `sampler` | 1 client, 2 locations, 2 bytes, a quota of 2 or none, 1 change, 1 fault, both modes of the quota lock; 398 thousand states | types; `NeverOvercharged`, `ChargedExactly`, `CrossingStops` |
| `netstack` | 2 locations with one subnet, 3 states, 2 faults; 3.1 million states | types; `EnsuredIsReal`, `StoppedLeavesNothing`, `EnsureComesThrough` |
| `netstack_cut` | as above, no fault | `CutComesThrough` is violated (finding) |
| `registry` | 1 client, 1 location, 2 requests at a time, 2 keys, 1 backup, 1 fault; 395 thousand states | types; `ForeignKeysComeBack`, `DanglingIsLoose`, `RestoreEstablishes` |
| `registry_references` | as above, no fault | `ReferencesHold` is violated (finding) |
| `update_script` | 3 runs of the script | types; `PreviousRecoverable`, `RollbackRestores`, `UpdateIsWhole` |
| `browser_session` | 2 tabs, 2 sessions, 2 requests at a time, 1 upset; 230 thousand states | types; `LoggedInIsShown`, `LogoutForgets`, `LogoutEndsTheSession` |
| `clients_screen` | 2 clients, 1 request at a time, 2 writes, 2 moves; 1.2 million states | types; `AcknowledgedIsShown`, `DeletesAsked`, `RotatesWhatIsTicked` |
| `location_drawer` | 3 changes of the form, 8 numbers and a half, 22 texts, 5 objects; 278 thousand states | types; `UntouchedKept`, `SavedIsShown`, `RefusedForCause` |

Why the bounds are enough. Three process objects are one more than the locations: in the
runner's run a late watch goroutine, its successor and a process elsewhere. The supervisor's
run has two: a late watch goroutine and its successor, or a process in each location; the
invariants hold with three as well (2.4 million states), and the theorems cover any number. The runner's second fault is the
Cleanup that fails in a Start that has failed already, or the call after it; elsewhere one
fault or panel restart puts every call through its error path once and leaves the state for a
later call that succeeds. Two callers are enough for one to overtake the other between
load and lock. Two bytes let a location pass its baseline, be made anew and count up to
it again; two locations of one client make its sum more than one counter, and a quota of two
one that both or either may cross. The three states
of the network stack differ in the speed limit and in
whether traffic passes, one to the other in both directions; of two faults one breaks an
Ensure and one the Cleanup after it; the locations share a subnet because that is the harder
case. Two requests of the
registry are a restore and whatever meets it, or two restores; one location is enough to
lose its client or its row, and two keys to tell what was restored from what came after. With
one backup no snapshot holds a dangling row (that takes a restore first): a second one makes
4 million states, in which the invariants hold, and the theorems cover it. Three runs of the
updater are one interrupted, one rolled back, one on top of both.

Of two tabs one overtakes the other; two sessions are an old and a new one; one upset is one
expiry, lost answer, reload or focus in any place, and logins and logouts are not bounded but
by the sessions. Two clients are one in the detail and one that takes its place, two writes the
one that is reported and one by somebody else, two moves a dialog opened and a selection,
visit or failure under it; two requests at a time make 6.6 million states, in which the
invariants hold too. Three changes of the form are a transport, a field of it and a limit or a
provider, over any number of openings; the texts hold a default, another number, a zero, a
negative number, one that is no number, one with spaces, a blank and a key. What the bounds
hide is covered by the theorems where there are some: they hold for every number of
locations, processes, callers, faults, runs, tabs, clients, requests and texts.

Deadlock is checked everywhere but in three runs. In `update_script` the last permitted run of
the script ends and nothing is left to do. In `browser_session` and `clients_screen` the user
may have used up the permitted sessions or moves with no answer on its way; a page nobody
touches stops, and that is no fault. `Symmetry` is used with invariants only.

### Fairness

`Supervisor!Fairness`: weak fairness of the lock holder's next step (`HolderStep`: the loops
of Reload and the runner's calls in them, one goroutine, which nothing stops but what the
guards say); for every process, weak fairness of the kill's effect, the reaping and the watch
goroutine, which come one after the other, because SIGKILL cannot be caught or ignored and
the watch goroutine waits for nothing else; strong fairness of each caller's taking the lock,
because `sync.Mutex` in starvation mode hands it to the longest waiter. Nothing makes a
process exit, the administrator act, or a caller begin. `TrafficSampler!FairSpec`: weak fairness of the
sampler's steps, a loop on a ticker; bytes, changes, failures and restarts are not fair.
`CrossingStops` has one excuse, `pc = "failed"`: a Reload of the sampler that ended with an
error, which the code only logs. Failed samples, failed Reloads of others and restarts of the
panel are no excuse.

The browser's modules state no fairness and no liveness: whether an answer comes is up to the
network, and what they show is said of states in which nothing is being fetched.

### Findings

- `netstack_cut`: with `quota_lock_mode` "disable_traffic" Ensure sets the namespace's link
  down (`netstack.go:201`) and next asks for a default route through it (`:204`), which the
  kernel refuses. The stack's test of it passes because its executor accepts any command.
  Every Start of a location over its quota fails in this mode, and with it the Reload.
- `registry_references`: `replaceDatabaseState` (`backup.go:617`) switches foreign keys off in
  a statement of its own and on again in a deferred one. Between its statements any other
  request has the same connection: `CreateLocation` has seen the client, the restore replaces
  the tables by some without it, and the insertion that follows is not checked; or a counter
  is written for a location that is gone; or a deletion leaves the counters. The row stays,
  against the REFERENCES clauses of `001_phase2_core.sql:45` and
  `006_phase9_traffic_accounting.sql:3`. `DanglingIsLoose` states the part that holds: there
  is no other way to get one.

### Observations

What the models show the code to do and no test or document settles:

- *updater*: README.md:174-178 tells how to put the old binary back by hand from `olcpanel.bak`.
  `update.sh` removes that file on success and moves it on rollback: it is only there after an
  interrupted run.
- *sampler*: crossing a quota reloads only for a client the previous sample saw within it. After
  a start of the panel, after a client is enabled again, or after its quota is raised from below
  its use, a crossing in the next sample leaves the tunnels up until some other Reload.
  And the memory is written over (`traffic.go:265`) before the Reload: when that Reload ends
  with an error the crossing is not seen again. With "disable_traffic" every such Reload does,
  at the first location over its quota (see the findings); that location is stopped, the later
  ones of the client carry on. `CrossingStops` states the part that does hold.
- *network stack*: a veth whose other end was not moved into the namespace (the panel died, or
  the second command failed) counts as whole, so Ensure fails for that location until a Stop
  removes it; `EnsureComesThrough` names the case. The cache can be wrong in four ways, the
  lapses of `Netstack`. A Cleanup that could not remove `/etc/netns/<name>` returns before it
  forgets the location (`netstack.go:246-248`), and the next Start of the same state finds the
  entry and runs a process in a namespace that is gone. An Ensure for a new state that fails
  leaves the entry of the old one, so going back to the old state undoes nothing. A qdisc whose
  removal failed is taken for removed. Where two locations map to one subnet (a new
  one and one about to be removed, which the collision check does not compare), the Cleanup of
  one removes the MASQUERADE rule of both. `EnsuredIsReal` says what each falsifies and that
  nothing else can be wrong.
- *supervisor*: a Reload that follows a failed Stop at once may find the killed process still in
  the table as running; it changes nothing there and reports success, and the location is down
  until the next Reload (`doomed`).
- *registry*: `UpdateLocation` writes back the key it read, and the location form all it was
  opened with: a rotation in between is undone. `Registry` has the behaviour. An import whose
  document has no `crypto_key` stores an empty one (`backup.go:377`), which no other way in
  allows; an update without a key keeps it.
- *session*: the logout button stays enabled, and the answer to a second logout clears the cookie
  and leaves the session of a login that came between. A first load of the state that a login
  joins after it was answered shows the login form to somebody who is signed in
  (`crossed`).
- *clients page*: `onClose` closes whatever drawer or dialog is open when the answer comes, not
  the one that asked. A rotation of token and keys is two requests; when the second fails the
  first is done, and the page shows an error and the old values. A restore invalidates the list
  of clients but no list of locations: those on show stay as they were until something else
  fetches them. A fetch that was on its way for a client no longer in the detail is not replaced
  by an invalidation; if the client is opened again before the answer is in, the page joins that
  fetch and may show rows older than a change it has reported.
- *subscription panel* (not modelled): it is not keyed by its client, so another client's panel
  first shows the links loaded before.
- *forms*: a limit or a quota with a unit or a comma in it is no number and is sent as null:
  the location becomes unlimited without an error. One with a fraction is sent and refused,
  because the server decodes integers. Choosing another transport and the old one
  again replaces the stored values by the defaults. An expiry date (not modelled) is shown in
  UTC and read back as local time, so that each save moves it by the browser's offset.

## 4. Proofs

All proofs are checked by TLAPS with SMT, Zenon and the PTL decision procedure. The only
assumptions are the named ones on the constants (`RunnerAssumption` and the like: `None`
is not a location, a configuration or a process; bounds are natural numbers; there are
finitely many locations, and their places in the two orders of Reload are numbers).

**ProcessRunner.** `RunnerInv` strengthens the properties of the run, and two that no run lists
(`StatusMatchesTable`, `OneProcessPerLocation`), with `UsedProcs`,
`TableIsSound`, `CallShape`, `Starting` and `Stopping`. None of the properties is
inductive alone: that a late `Watch` takes nothing away needs to know that the table
holds the process under its own location; that teardown is safe needs to know that the
Stop waited for the process in the table, and that a process outside the table and not
being registered is reaped. `CacheIsBacked` says that a cache entry has its namespace unless the
last Cleanup returned an error; `LiveHasResources` needs it where a Start goes on from the cache.
One lemma per group of steps, one case per action.

**Supervisor.** `SupInv` adds to `RunnerInv`: `LockShape` (exactly the lock's owner has a
call under way), `TableMatchesRunning` (what the table holds is what `running` says, or
what the call that has just succeeded will make it say), `LoopProgress` (what the loop
has left behind is as the snapshot wants it), `VisitedAreUp` (and is up) and `KillTarget`. From it follow
`AccountedFor`, `StartFindsNoProcess`, `ReloadEstablishes` and `UnchangedIsNotKilled`;
and the refinement: `SupervisorImplementsTunnels` shows that the initial state maps to
an initial state of `Tunnels` and each step to one of its steps or to none.

Both are in `SupervisorProofs`: the supervisor's proofs are about the runner's steps.

`ReloadReturns` and `DeathIsReported` are liveness properties, which TLC checks. What they rest
on but for fairness is proved. `WorkLeft` counts the steps the lock's holder still has to take:
14 for each location of its loop (a Restart takes twelve and the loop's turn one), and before
the second loop as many for every location. It never exceeds `28 * |Locations| + 27`
(`ReloadIsBounded`), each step of the holder that does anything lowers it (`ReloadGetsOn`), and
the holder always has a step or waits in `Stop` for a process that has been sent SIGKILL, or that
is dead and that its goroutine can reap
(`HolderGoesOn`): the place where a deadlock between `mu` and the runner's mutex would show. A
process that died while in the table keeps its goroutine (`DeathsAreWatched`), and nothing
replaces it before its status says so (`DeathsAreKept`). That the place of a loop has a next
location is the existence of a least rank, from the well-founded order of the numbers.

**TrafficSampler.** `SamplerInv` bounds the ledger of each location (`LedgerBound`): it holds
at most the bytes that passed through earlier veths and what is left of the baseline in the
present one, where a counter that is behind its baseline has been made anew and has nothing of
it (`Kept`). The two counters are read at different times, so the bound is also kept for the
baseline that is about to be written, with one counter read (`Reading`) or both
(`Persisting`): `Due` is what that visit may still charge. `FirstSight` and `OneVeth` carry
`ChargedExactly`. What a client is charged is a fold over its locations, and the library's
induction theorems cannot be instantiated here; `TrafficSamplerProofs` instead shows from the
fold's definition that a sum is natural, monotone, and grows by what is added to one term, by
induction over the subsets of a finite set in the form of a least counterexample
(well-foundedness of the strict subset order, which the library states). It assumes that there
are finitely many locations and that `None` is no counter. `SamplerKeepsAccounts` is the
refinement: a byte is a `Pass`, a `ChargeDelta` is a `Charge` of what was read beyond the
baseline (or nothing, when no byte came), which `LedgerBound` after the step shows to be unpaid,
and every other step, with deletions, failures and restarts, leaves the accounts alone.
Of `CrossingStops`, which is liveness, `SamplesEnd` proves that a sample has always less to do
(four steps for each location it has yet to visit), and `CrossingsAreKept` that a crossing stays
before the sampler, or in its Reload, until the client carries no traffic, whatever failed
before: each step keeps it, in both modes of the quota lock, except the end of an own Reload
with an error (`ReloadEndsInError`). Only that the ticker goes on is left to fairness. TLC checked `SamplerInv` on the
instance of the run and, before the proof, on one location with five bytes and three changes
(6.8 million states).

**Netstack.** `NetInv` adds to the properties `EnsureProgress` and `CleanupProgress`, what a
call has brought about before each of its commands, and `CacheIsReal`, which unlike
`EnsuredIsReal` also speaks of a location whose Ensure has not looked at the cache yet.
It holds of the four lapses what `EnsuredIsReal` says of them: each command that can falsify a
part of an entry either comes before the entry is made anew, or records the lapse.
`UpIsEnsured`, the other half of `EnsuredIsReal`, is an invariant beside it: a process is started
only when an Ensure has returned and marked dead before the Cleanup that makes the cache forget,
so it runs on the network of its entry, but for the lapses: after one of a Cleanup that is no
network at all. A
step touches one location, so each conjunct is shown for that location and for the others.

**Registry.** `RegInv` adds to the properties `RequestShape`, `AttachShape` (the restore
between attach and detach owns the attached database, without which a second one could leave
it attached), `ArchivesAreLoose` (what dangles in an archive was loose when it was taken,
which carries `DanglingIsLoose` through a restore) and `RestoreProgress` (what a restore has
established step by step since its commit). It holds for any number of requests, so also of
restores that overlap.

**UpdateScript.** `UpdateInv` says at each command which file holds which version
(`FilesAtCommand`); types and the three properties follow from it for any number of runs.

**BrowserSession.** `SessionInv` adds to the properties `Used` and `Fresh` (an answer on its way
carries a session nobody holds yet, so that when it arrives it takes the cookie from all other
tabs), `Pending` (a tab whose login is on its way has read the state before, or has left since,
so that the request its arrival makes is a new one) and `Shown`, which follows that request to
the screen. `ConfirmedLogoutEnds` is an action property: no step but a confirmed logout that
carries a session's own token takes it from live to gone.

**ClientsScreen.** `AcknowledgedIsShown` speaks of queries in use only, and is not inductive: an
answer read before a change is reported could arrive when its client is back in the detail.
`Freshness` in `ScreenInv` therefore asks of every answer on its way, in use or not, that it is
as new as what its query owes (`Owed`: what has been reported, unless the query lapsed); `Rendered` shows that whatever comes into the detail is
fetched. `CallShape` carries the number of requests a rotation still needs. That the first of
some clients exists rests on the library's well-founded order of the natural numbers.

**LocationDrawer.** `DrawerInv` adds `FormFollowsRow`: the row does not change under the form,
and a control that was not touched shows what it showed when the form was opened. What remains
is about the conversions, for any texts and numbers that obey the laws: a stored payload
survives the fields, and the fields survive the payload up to their canonical form. The laws are
five assumptions (`NumberAssumption` to `FormAssumption`), which TLC evaluates on the instance.

Only model-checked: `ReloadReturns`, `DeathIsReported` and `CrossingStops` (liveness under
fairness, which needs ENABLED); the safety they rest on is proved, as said above. Every safety
property of a run that passes is also a theorem. `BoundedWork`, `ReloadAdvances`,
`HolderIsNotStuck`, `GoneIsWatched`, `DeathIsKept`, `ImplementsAccounts`, `SampleAdvances` and
`CrossingIsKept` are in no run's list: TLC checked each of them on its component's instance
(the supervisor's without changes of the database) before it was proved.

## 5. Not modelled, and the plan

In order:

1. `RateLimiter`: the sliding window of `auth.go`, with a proof that no window of the
   configured length holds more than `limit` grants; API keys and `ResetAdmin`. In
   `BrowserSession` the limiter refuses by choice and a password is right or wrong by choice.
2. `Netstack` composed with the supervisor's order of starts and stops: the overlap of a new
   and a removed location on one subnet, and what a later Reload does about it.
3. The other pages: the list of backups, logs with their filter, API keys, settings, and the
   subscription panel with its links kept from another client. They are of the shape of
   `ClientsScreen`, over fewer queries.
4. `LogSink`: Append and rotation against Query.
5. Derived states and the room of a location, `Metrics` and `Subscriptions` as pure operators
   against reference definitions; migrations; the base path; `RestoreFile` and the shared path
   of two backups (`archiveOutputPath`).
6. Proofs: the rate limiter's window.

An abstract specification worth stating next: a registry whose requests are atomic, for the
part of `Registry` outside a restore.

Left out on purpose: the installer (a straight-line script), the embedded assets
(generated), the translations (`i18n.ts`, a table of wordings), logging and wording everywhere,
the contents of the database migration inside `update.sh`, and the counters' 64-bit width (they
count bytes from the creation of a veth). The overview page only shows what it is sent.
