# A TLA+ verification of subforme

subforme keeps the users of a main 3x-ui panel in a local SQLite database, pushes
the main panel's inbounds and clients to other 3x-ui panels ("targets"), collects
and resets their traffic, and composes a Mihomo/Clash subscription for every user.
This directory holds TLA+ models of the parts where several actors meet:
administrators' requests, the background loops, the panels, and restarts. TLC
checks the models on small instances (the `.cfg` files); TLAPS checks the proofs
in the `*Proofs.tla` modules and `AdminRefinement.tla`. `PROJECT.json` maps every
definition to the lines it models, and lists the hazards, the runs and the
mutants: changed definitions that a run must refuse.

## 1. Inventory

| part | state it keeps | operations | interacts with |
|---|---|---|---|
| Synchronisation of a target (`app/service.go`: `SyncToServers`, `syncServerInbounds`, `syncServerInboundClients`) | the target's rows of table `inbounds`, which all requests share; copies of the plan and of the target's listings, for one request | `POST /api/sync`, `POST /api/servers/import/{id}` of a target | database, main panel, every target panel |
| Import of the main panel (`ImportFromServer`, `db/users.go`, `db/inbounds.go`, `db/assignments.go`) | tables `users`, `inbounds`, `user_assignments` | `POST /api/servers/import`, first half of `/api/sync`, user deletion | main panel, database |
| 3x-ui panel, seen through `xui/client.go` | inbounds, their client entries, global client rows | `inbounds/*`, `clients/*` | called by all of the above and by traffic |
| Traffic (`StartTrafficRefresher`, `db/traffic.go`, `db/servers.go`) | table `user_traffic`, two markers in `servers` | per-minute loop, refresh and reset by request, refresh after a login, server form | panels, database, `ServersPage.tsx` |
| Policies, groups, managed nodes (`app/service.go`, `db/config_store.go`, `db/nodes.go`) | policy columns of `users`, nodes, groups | save one policy or all, save nodes or groups and clean the policies | imports (same rows), generation |
| Proxy providers (`config/provider_converter.go`, `app/service.go`) | `provider_addons`, their groups, a file each | upsert, delete, refresh by request and per minute | remote sources, policies, generation |
| Sessions and password (`auth/session.go`, `web/auth.go`, `config/runtime.go`) | token map and password in memory, `config.json` | login, logout, expiry, password change | every request, the next start |
| Backup and restore (`web/backup.go`, `config/restore.go`, `main.go`) | `pending_restore.zip`, its temporary file, which upload has which open | upload, restart, extraction | database and its journal, configuration |
| Schema and migrations (`db/db.go`) | `schema_version`, tables and columns | at the start | restored databases of any version |
| Generation (`app/service.go`, `generator/`, `groups/`, `xui/service.go`) | none; what one request has read | render a subscription | reads everything, table by table |
| Router, dashboard, frontend, cache, YAML helpers | none that outlives a request | - | - |

What is hard here:

* **No lock and no transaction spans a request.** Each SQL statement (the pool
  has one connection) or short transaction is atomic, each HTTP call to a panel
  is atomic at the panel, and everything else may interleave: two
  administrators press the same button, the loop overlaps both, a target panel
  switches a client off because its quota is used up.
* **Calls fail halfway.** The HTTP client gives up after 60 s (30 s for a
  traffic refresh), and by then the panel may have acted. Statements fail too, and
  not every error is looked at: those of markers and of a synchronisation's
  import are only logged, those of `CreateAssignment`, `DeleteUser` and
  `ListUsers` in an import and of `ListNodeDB` in a subscription are dropped.
* **Restarts** lose what a run had in hand and keep what is in the database.
* **Copies grow stale**: listings, whole rows that are written back later, the
  server form in a browser. A synchronisation even reads its own listing back from
  rows that another request may have rewritten with an older one.
* **Names are compared in two ways**: the database and the policies know a
  user by the exact spelling of his email, a panel's clients are found whatever
  their case.

What makes each modelled part correct: a synchronisation that reports success
leaves a mirror of its plan, takes away nothing the plan wants, leaves moving
clients attached and the target's own settings alone, and converges when it is
repeated. An import none of whose statements failed makes users and assignments
the panel's; any import keeps local ids and policies and deletes only users the
listing lacks, and repeated ones converge even after errors that were dropped. The
scheduled reset comes exactly once a month, and stored traffic is the panel's of
one recent moment. No session outlives its password and only a valid session
changes it; a restore replaces all its files or none, wherever it is cut off, and
the program never serves an incomplete schema. Policies name only what exists once
a cleanup is through, cleanups and refreshes undo nothing, every provider keeps
its group and gets a fresh file. A subscription has its user's credentials only,
exactly the nodes selected for that spelling of him (if the reads succeed), no
reference it cannot resolve, and no trace of a provider he did not select.

## 2. Modules

    Panel ── TargetSync ── MCTargetSync      PanelProofs ── TargetSyncProofs
    MainImport ─────────── MCMainImport      MainImportProofs
    Traffic ────────────── MCTraffic         TrafficProofs
    Installation ── Admin ── MCAdmin         AdminProofs ── AdminRefinement
    Policies ───────────── MCPolicies        PoliciesProofs
    Generation ─────────── MCGeneration      GenerationProofs

### Panel
The 3x-ui panel is not in the repository. Each write endpoint is an operator
that returns the *set* of panels the call may leave behind, empty if the panel
rejects the call; it is taken from how `service.go` and `client.go` use the
endpoint and from `docs/3x-ui-api-usage.md`, and marked external in
`PROJECT.json`. Where panel versions differ (does a client row stay when
it lost its last entry?) both outcomes are in the set. A tag and a port are
unique on a panel. `Creds` stands for everything a client entry carries (uuid,
password, flow, quota, expiry), `Confs` for the rest of an inbound.

### TargetSync
`run[s]` is what request `s` has in hand; `run[s].pc` is the phase. The actions
follow the code from top to bottom: `Start` (plan and server row are read),
`ListInbounds`, the inbound phase `AddMissing`, `UpdateOutdated`, `FlipEnable`,
`DeleteStale`, then the second listing in the three steps of the code: `Refetch`
lists the target, `EnsureServerInbounds` is the transaction that makes its
rows in the table (`cache`) this listing, `ListInboundsByServer` reads them back
into `run[s].seen`. All requests share `cache`, so what is read back may be
another request's listing, older or newer than the run's own. Then come
`ListClients` and the client phase `CreateMissing`, `AttachMissing`,
`UpdateChanged`, `WriteNew`, `DeleteUnwanted`, `DetachMoved`, `Finish`, and after
the success the target is listed and stored again (`ListAgain`, `Recache`,
`Rebuild`), with errors nobody reads. One action is one HTTP call, transaction or
query. `Call` gives the three outcomes of a write: success, failure without
effect, effect with a lost answer; after either failure the run ends, as in the
code. Around the runs, `Import` and `ImportCaches` are a request that imports the
target, which lists it and stores the listing in the same rows, `TargetSwitches`
is the target's own quota or administrator, `MainChanges` an import that gives
later runs another plan. The port fallback of the matching is
modelled as it is coded, including that it finds an inbound another main
inbound already claimed. The order in which a loop visits inbounds is left open,
which only adds behaviours.

### MainImport
One SQL statement or transaction per step. `db` holds the three tables with their
AUTOINCREMENT counters. `Begin` (list users), `Fetch` (`inbounds/list`), `Cache`
(`EnsureServerInbounds`, one transaction), `ReadBack`, `ClearAssignments`, then
per listed client `LookUp` and, if something is missing or differs, `Create` or
`Fill` and `Store` (a whole-row update from a copy). Then the assignments
(`Assign`), the users that are gone (`FindGone`, `DropGone`) and `FinishImport`.
Any of these statements may fail. `StatementFails` is a failure the import passes
on and ends with. The others it does not look at, and goes on to report success:
`BeginBlind` takes a failed `ListUsers` for no users, after `LookUpFails` a user
is taken for a new one, whom `CreateUser` then refuses, `FillFails` writes the
policy in hand, `AssignFails` leaves out an assignment, `FindGoneFails` and
`DropGoneFails` leave a user who should go. `left.slips` counts what may still
fail; `run[s].whole` is history: every assignment has been written. A request that
is a synchronisation goes on with `ReadRows` and `ReadGrants`, also when its
import failed, since `SyncToServers` only logs that error; the result is the plan
a run of TargetSync starts from. `DeleteUser`, `SavePolicy`, `PanelChanges` and
`Restart` come between any two steps. The module has the main server's rows only:
the import of another server takes the same steps on other rows.

### Traffic
One server. `Wake` is a turn of the per-minute ticker: it reads the row and
decides by that copy and the time read then, as `RunTrafficMaintenance` does,
also for the refresh that follows a reset. A reset is
`ResetAllClientTraffics` (panel), `ZeroAllUserTraffic`, `StampSync`,
`MarkReset`; a refresh `ListClients`, `ReplaceUserTraffic`, `MarkSync`. The
marker statements may fail without ending the run. `AskRefresh` and `AskReset`
are the requests and the refresh after a login. `LoadPage` and `SavePage` are
the server form, which posts the whole row, markers included. Time is counted
in ticks long enough for one pass; a run may reach over the end of one tick,
never of two. `TimePasses` does not leave a tick in which the loop never woke,
because a Go ticker fires every minute; this urgency takes the place of
fairness. `passed`, `seen` and `recent` are history for the properties and no
guard of the program's actions reads them; `passed` is read by the clock.

### Installation and Admin
`Installation` is the abstract specification: an installation has a password, a
database, at most one staged backup, and serves or does not; a restore replaces
every file of the backup in one step while nothing runs. It makes two
admissions the code forces: a write that was cut short spoils a database restored
over it (`cut`), and the running program may leave a torn configuration.

`Admin` is the program. `proc` walks through `main`: `Stat` and
`EnsureDefaultConfig`, `Apply`, per archive entry `Truncate` and `Fill`,
`Remove`, `LoadRuntimeConfig`, `Open` (SQLite plays back whatever journal lies
beside the database), the migrations (`MigrateStrict` in a transaction,
`MigrateLoose` and `RecordVersion` in two steps, `AlterFails` for an ALTER whose
error is ignored), `ListenAndServe`. With `SUBFORME_CONFIG_DIR` elsewhere
(`setup.apart`) the configuration is read before the restore, as `main` does.
`req[r]` is a login or a password change at a point of its handler; `authMu` is
held by whoever is past its check. `SaveRuntimePassword` and `WriteFile` are the
truncation and the write of `config.json`. `upl[u]` is an upload:
`CreateTmp`, `Copy`, `Validate`, `Rename`; `name` says what the file it has open is
called by now, because another upload's rename or removal moves the name and
not the open file. `Crash` strikes between any two steps and `RestartSelf` any
time after a rename. `Promise` is the refinement mapping: from the moment an
archive's extraction has begun, the files *are* what they will be.

### Policies
`pol[u]` has the four policy columns that name other things, `run[r]` the request
with its copy. A transaction is one step (the pool has one connection): saving
nodes or groups is `ReplaceNodes` or `SaveGroupsConfig`, then `ListUsers` and one
`Cleanup...` per user, in the order Go lists them or any other. `SavePage` writes
every policy as the settings page had it; `ReadAppConfig` and `SaveAppConfig`
are the policy page. A refresh reads a provider's row, fetches, empties the file
(`OpenFile`), fills it (`FillFile`) and writes its copy of the row back
(`WriteBack`), by request or by `StartProviderUpdater` (`ListDue`, `RefreshDue`).
`IntervalPasses` ages rows and copies alike. `StatementFails`, `RefreshFails` and
`Crash` may strike at every step.

### Generation
A request reads in steps: the settings and policies (`LoadAppConfig`), the groups
(`LoadGroupsConfig`), the user's nodes in the database (`DbResolveUserNodes`),
else in the panel (`ResolveUserNodes`), the managed nodes (`ApplyManagedNodes`),
the providers (`ReadProviders`). `Change` may replace the whole database with any
other between two of them, which is more than Policies and MainImport can do, and
every read may fail: that of the settings, groups or providers refuses the request
(`Refused`), an inbound that cannot be read is passed over, without user or
assignments the panel is asked, and without the table of managed nodes those of
`nodes.yaml` (`FileNodes`) are taken, or none. A user is a spelling: rows,
policies and modes are found by the exact one, the panel's clients and remarks,
and the clients within an inbound, by `Fold` of it, so that another spelling of a
stored user is served by the panel and has no policy. The pure parts are
operators: `NormalNode`, `BuildNode`, `TemplateOf` (the four passes of
`managedTemplateNode`), `Adapted`, `ManagedNodes`, `Proxy`, `BuildGroups`,
`MergeGroups`, `FilterInvalidGroupRefs`, `FilterProviderRules`, and `Faults`,
which is the repository's own validator. `calm` and `sure` are history: nothing
changed since the request began, and no read failed.

## 3. Runs

| run | instance | shows |
|---|---|---|
| `target_overlap` | two symmetric requests that synchronise or import, two plans, a target with a stale inbound, 1 fault, 1 change of the plan, 1 import of the target; 2.5 M states | one success is enough whatever overlaps it and whosever listing is read back (`QuietMirrors`), and no step takes an entry that its run's plan wants (`RemovesOnlyUnwanted`) |
| `target_retry` | one request repeated, three plans, 2 faults, 1 switch, 1 change; 0.4 M states | `SuccessMirrors`, `NeverOrphaned`, `TargetSettingsKept`, `RetriesConverge` |
| `target_crossed` (violation) | one undisturbed run | a main inbound matched by port to an inbound another one owns by key: the run succeeds and one inbound is missing |
| `target_fresh` (violation) | one repeated run on an empty target | an empty `inbounds/list` is an error, so a new target is never filled |
| `import_overlap` | two symmetric requests, 1 failed listing, 1 failed statement, 1 panel change; 2.9 M states | `QuietImportsMirror`, `RowIdsStable`, `ImportRemovesOnlyAbsent` |
| `import_retry` | one request repeated, 1 failed listing, 1 failed statement, 1 restart, 1 panel change, 1 deletion or policy save; 0.7 M states | `PlanIsTheListing`, `PoliciesKept`, `ImportsConverge` |
| `import_window` (violation) | two requests, one panel | a synchronisation reads the assignments while another import has cleared them, and plans local users away from the targets |
| `traffic_months` | two months of 2 and 3 ticks, the loop and one request, one failure, restart or save; 6.8 M states | `SingleReset`, `MonthlyReset`, `FreshEnough` |
| `traffic_page` (violation) | the loop and the server form | saving a form loaded before the month's reset brings the old key back: a second reset in the month |
| `admin` | three earlier installations, three archives (whole; unsafe name; damaged entry), three environments, 4 schema versions of all kinds, 2 requests, 2 uploads, 3 asks, 2 crashes or failures, 1 write; 0.4 M states | `AllOrNothing` (refinement of Installation), `ComesUp`, `OldPasswordSessionsGone`, `ChangedBySession`, `PasswordDurable`, `PendingWhole`, `SchemaComplete` |
| `policies` | two users, two providers, two nodes, one other group; 2 requests out of nine kinds, the updater, 1 failure or crash; from a clean database and from what cut-off cleanups left; 0.2 M states | `NodePrefsClean`, `GroupPrefsClean`, `ProviderPrefsClean`, `CleanupTakesOnlyDangling`, `RefreshOnlyRefreshes`, `ProvidersHaveTheirGroup`, `KeptFresh` |
| `generation` | three users, one of them under two spellings, four databases that replace each other at any moment, reads that fail, a panel, a nodes file, both templates; 38,803 states | `OwnCredentials`, `BestTemplate`, `SelectionHonoured`, `OnlyKnownFaults`, `UnselectedInvisible` |

Why the bounds suffice. In TargetSync four tags on three ports give every way
inbounds can match (by key, by port, stale, renamed), and two users give every way
a client moves; `Behind` and `Stale` start from an outdated configuration, a row
without entries, a disabled client and an occupied port. Two faults reach a failed
repetition. An import of the target is a second request that stores a listing, so
one is enough to put an older one under a run. In MainImport the panels drop, add
and keep an inbound and move, add, change and drop a user, and the database is
empty or holds what an earlier import left; one failed statement is one at each of
the places in turn. In Traffic the scheduled day (3) lies beyond the first month's
end and inside the second; one overlapping request is the smallest that can store
an old listing behind a new one. One case is kept out of `target_retry` on
purpose: a listed inbound that has to move to a port which a stale inbound still
holds. The update is rejected, the run ends before it deletes the stale inbound,
and every repetition ends there too; the hazard list has it at its line. With less
room the cases vanish. In Admin two uploads are what can share a temporary file,
three asks let a login, a change and an upload, or two changes and a login,
overlap, and two troubles crash a restore and the start that follows it; the four
versions have a strict first and last migration (as 1 and 12), a column and a
table in between (as 2 to 11), and the lagging database has a column ahead of its
version. In Policies two asks are a cleanup and whatever overlaps it; with three
asks (without `KeptFresh`, 5.7 M states) nothing new appeared. In Generation the
databases differ in inbounds, entries, managed nodes, selection, groups and
providers, the least with nothing at all, and the file has a node of its own; the
theorems of section 4 say the same of any databases. Every property has a mutant
that its run refuses.

Deadlock checking is on in every run but `admin`, where the program may serve
and nobody ask anything of it any more. Elsewhere nothing stops for good but by its
bounds, and a request can always be repeated. The exploration of Traffic ends with the
bounds on months, but requests, switches and the form remain enabled or the
clock's last tick lets the loop wake.

Reading the properties: several ask only for undisturbed runs (`alone`,
`clear`, `calm`, `excused`, `carried`). These are history bits, each named at its
definition; they say which interference the code does not protect against, and
the violations above show that they are needed. `QuietMirrors` leaves out what
an import of the target overlaps: such an import may store a listing from before
the run's inbound phase, the run then finds listed inbounds gone or new ones
missing, and TLC finds a success that is no mirror. (The servers page offers the
import for the main server only; the API takes any.) Two synchronisations cannot
do this to each other, which is what the property and its theorem say: what any
of them stores was listed after its own inbound phase. `QuietImportsMirror` asks
that no statement failed, because one `CreateAssignment` or `DeleteUser` whose
error is dropped is enough to break it; what such an import still guarantees is
said by `PlanIsTheListing`, never more than the listing, and all of it if the
assignments were written (`whole`), and by `ImportsConverge`, which holds after
dropped errors too. `SelectionHonoured` asks that no read failed (`sure`): after a
failed `ListNodeDB` the file's nodes or the plain inbounds come instead. It says
what each spelling gets, and that the one without a row has no selection.
Hazards that no property catches, because the code is exposed to them and
nothing in the repository promises otherwise, are listed in `PROJECT.json`
with a note each. `SingleReset` excuses a month
with a failed call or marker of the loop, a restart or a save of the form,
because the reset and its key are separate. `MonthlyReset` leaves out a
month that began while a run was under way: the key is computed when it is
written, so such a run may mark the new month as done. `PendingWhole` excuses
uploads that overlapped, `PasswordDurable` a file that was written in part,
`SchemaComplete` an ALTER that failed for another reason than the column being
there (`odd`); in Policies `alone` means that no request with the same columns
or the same provider overlapped. `FreshEnough` allows one
tick more than the interval: a refresh that is late with its marker vouches for
an older listing stored behind it, and without the extra tick TLC finds it.

Fairness. `RetriesConverge` and `ImportsConverge` use weak fairness of a request's
next step (every call returns, at the latest by the client's timeout) and of
starting a request again (an administrator who sees an error repeats it). Faults,
failed statements, restarts and changes are not fair and are bounded, so
"eventually" reads "once they stop". Nothing here claims that subforme repeats a
synchronisation by itself: it does not. `ComesUp` uses weak fairness of
`Starting`, the steps of a start and the start itself, which `docker-compose.yml`
repeats (`restart: unless-stopped`), and of `RestartSelf`, which follows a restore
after 0.8 s. `ComesUp` has to except files that leave no start a way (`Stuck`): a
torn `config.json`, an archive that cannot be extracted and that every start tries
again, a spoilt database. `KeptFresh` uses weak fairness of each request's next
step, of the updater, whose ticker fires every minute, and of `IntervalPasses`,
which is time.

## 4. Proofs

All theorems hold for every value of the constants under the named assumptions
(finite ids for the import, well-formed initial panels, plans, databases and
archives, natural bounds, the loop is not a request, months have at least one
tick, every stored provider starts with its group). A plan is well formed if it
could come from a panel, since the main panel is one: unique tags, at most one
entry per email on an inbound, and the settings a panel keeps of its own (group,
adTag, limitHwid) the same for a client on every inbound, because they come from
the main panel's global row of that client.

* **PanelProofs** (lemmas only): every endpoint keeps a panel well formed. It is
  stated with `Sound`, the part of `WellFormed` the solvers handle, and used by
  TargetSyncProofs through one lemma per endpoint. The `Makes` lemmas say what
  an accepted call makes of a well-formed panel: which inbounds, entries and
  rows there are afterwards, whichever of the outcomes it was.
* **TargetSyncProofs**: `Invariant`, `TypeCorrect`, `MovingClientsStay`
  (`NeverOrphaned`), `OnlyUnwantedGo` (`RemovesOnlyUnwanted`, whatever listing was
  read back and whoever stored it). `NeverOrphaned` is not inductive: whether a
  detach orphans a client depends on what the run still means to do. `Inv` adds
  that what a run means to remove is unwanted by its plan (`LocalInv`), what its
  listing has to do with the target now (`RemoteInv`), that a run flagged alone is
  the only active one (`AloneInv`), and that it reads back what it stored
  (`OwnStored`). Each action has one lemma; the frame lemma `FrameKeeps` carries
  the other runs over a step. `SuccessIsMirror` (`SuccessMirrors`) and
  `SettingsStay` (`TargetSettingsKept`) rest on a second invariant, `MirrorInv`
  (`RunsKnowTarget`): the target is well formed, a run's lists of calls are `Tidy`
  (each is about a listed inbound), and a run that is alone is `Told`, it knows
  the target at each point. In the inbound phase (`Ready`) an inbound of the
  target that the run has no call for any more is as the plan has it; from the
  second listing on the inbounds mirror the plan (`InboundsMirror`) and the listed
  entries are the target's (`SameEntries`); in the client phase (`Underway`) an
  entry that is missing, different or not wanted is still on one of the lists, so
  that empty lists make a mirror. `Calm`, for the settings, says that entries and
  rows agree about `enable` and that the rows listed or created are still the
  target's, so that what is written back is what was there. `QuietIsMirror`
  (`QuietMirrors`) and `MirrorsStay` (`MirrorStays`) are about runs that do
  overlap, lose answers, read back what others stored and see switches, for as
  long as the main panel does not change and nobody imports the target. They rest
  on `QuietInv` (`QuietRunsConverge`): what one run knows that no other can spoil.
  In the inbound loops (`InboundsDue`) a matched inbound is still matched, one
  whose call is through has its main inbound's configuration and its switch, or
  that switch is about to be flipped, and what is to be deleted nobody matches;
  any listing that is made or stored from then on (`Current`) has the target's
  inbounds, and what it lacks can only have come as wanted (`ListedDue`), which is
  why it does not matter whose listing a run reads back; in the client loops
  (`ClientsDue`) what is wanted is there or on a list, and what is not wanted is
  on a list; after a success the target is `Whole`. The other half is the relation
  `Settles`, what any step does to the target whoever takes it: an inbound changes
  only to what its main inbound has or is added for one that had no match
  (`Forward`), and once the inbounds are level no wanted client goes and only
  wanted ones come (`ClientsForward`). Each endpoint settles the target when it is
  called as a run calls it (the `Settles` lemmas), and what a run knows survives
  any settling step (`ConvergesOn`). Both theorems ask that the target was
  `Uncrossed` at the start: no inbound of it has one main inbound's key and
  another's port, and no two main inbounds share a port. Without it two main
  inbounds may be matched with one target inbound, and `target_crossed` shows a
  success that is no mirror.
* **MainImportProofs**: `Invariant`, `TypeCorrect` (with unique emails and panel
  ids), `IdsStable` (`RowIdsStable`), `OnlyAbsentGo` (`ImportRemovesOnlyAbsent`).
  The records a run holds outlive what other requests do to the tables, so
  `RunInv` says that a record in hand refers to ids already handed out with the
  email it has there, and that what is to be dropped is not listed; AUTOINCREMENT
  never reusing an id is what makes it stable (`EvolvesSame` and the `Keeps`
  lemmas). `ImportKeepsPolicies` (`PoliciesKept`) and `PlanMirrors`
  (`PlanIsTheListing`) are about a request that nothing overlaps, whatever
  statements fail. `AloneInv` says that it is the only one, and what it knows of
  the tables at each point (`Undisturbed`): the rows are the listing's
  (`RowsAre`), an assignment it has no longer to make is there, if all were
  written (`Granted`), the user in hand has in the table the policy it has in hand
  (`InTable`). Each step has one more lemma for it. `QuietImports`
  (`QuietImportsMirror`) is about imports that do overlap, get no listing and are
  cut short. `QuietInv` has two parts, both for as long as the panel stays as it
  is, nobody deletes users and no statement fails. `QuietRun` is what one run
  knows that no other can spoil: its listing is the panel, whom it has passed is
  as on the panel, whom the panel lacks is still on its list to remove, every
  assignment is one of the panel's once it has cleared them (`Working`,
  `Imported`). `CoverInv` speaks of all runs together: another import may clear
  the assignments a run has made, but then it owes every one of them, and short of
  a restart, after which no run has cleared anything, all it can still stumble
  over is a user it cannot create. So: once all users are there and some run has
  cleared, every entry has its assignment or a run that will make it. `QuietFrame`
  carries the other runs over a step (`Settles` is what steps do to the tables),
  and `Carries` is what a step must do for `CoverInv`.
* **TrafficProofs**: `Invariant`, `TypeCorrect` (also: no marker lies in the
  future), `ResetIsSingle` (`SingleReset`). `Scheduled`, `Ready` and `Keyed` say
  that a loop about to reset has not reset in this month, and that after its reset
  the key names the month or the loop is still on the way to write it, unless the
  month had trouble. `MonthsAreReset` (`MonthlyReset`) rests on `Marked`, that a
  key naming the month, in the row or in an open page's copy, and a run past the
  panel's reset tell of a reset in it, and `Decided`, that in the month's last
  tick, when every scheduled day is reached, a loop that has passed or is not
  about to reset has seen one. `StoredIsFresh` (`FreshEnough`) says of each run
  which tick's view of the panel it has in hand or has stored (`InHand`), and that
  a young marker vouches for a view at most two ticks older than itself
  (`Vouched`: one tick for a run that reached over a tick's end, one for the
  listing another run stored behind it). `StepDecides` and `StepFresh` state once
  what any step of a run keeps.
* **AdminProofs**: `Invariance`, `TypeCorrect`, `OldSessionsGone`, `PasswordKept`,
  `PendingIsWhole`, `SchemaIsComplete`, `OnlyBySession`. `Inv` is `Base` (what the
  files, the memory and the schema hold in each phase of `proc`), `Sessions` (at
  most one request is past its check; what the sessions, memory and file agree on
  at each point of its handler, so that an answer leaves them agreeing) and
  `Pending` (unless uploads overlapped, at most one is open, its file goes by the
  temporary name, and once checked it is a whole, safe archive).
* **AdminRefinement**: `AllOrNothingKept`, Admin implements Installation. The
  proof maps each step: the `Apply` that begins an extraction to `Restore`;
  truncating, filling, refusing and removing to a stutter, because `Promised`
  already has what they write; the default configuration, opening and migrating to
  `Prepare`; `ListenAndServe` to `Start`; a crash or a restart of the serving
  program to `Stop`; everything else while it serves to `Serve`. A repeated
  extraction after a crash is a stutter too, which is why a restore that is
  cut off anywhere is still all or nothing.
* **PoliciesProofs**: `TypeCorrect`, `GroupsKept` (`ProvidersHaveTheirGroup`),
  `NodesCleanedUp`, `GroupsCleanedUp`, `ProvidersCleanedUp`,
  `OnlyDanglingTaken`, `OnlyRefreshed`. The cleanup properties need, of a request
  that is alone, that the tables still are as it made them (`Listed`), that whom it
  has passed is clean (`Walked`) and that its copies agree with the columns it
  will write (`Reads`). `Apart` and `Joined` say what else may be at work then;
  `Bystander` carries a request over the steps of the others.
* **GenerationProofs**: `Invariance`, `TypeCorrect`, `OwnCredentialsKept`,
  `BestTemplateTaken`, `SelectionKept`, `OnlyKnown`, `UnselectedHidden`. `Sound`
  says what a request has found by each step and from which databases, `Certain` what
  it must have found when nothing changed and no read failed; what the
  pure operators return is stated once for any input (`BuildFacts`,
  `TemplateFacts`, `ManagedFacts`, `MergeFacts`, `GroupFacts`). That
  the first of four passes is the best one rests on the least element of a
  set of naturals (`LeastFacts`, from the library's well-founded induction).

Only model-checked: the four liveness properties (`RetriesConverge`,
`ImportsConverge`, `ComesUp`, `KeptFresh`): liveness under fairness and ENABLED are
out of the prover's reach. Every other property of a passing run is a
theorem. TLC checks `QuietMirrors` with one lost answer or failed statement and
without switches, from starts that are all uncrossed; the
theorem covers any number of both. `MirrorStays`, which says the
same of a target that mirrors the plan for any other reason, is a theorem only.
No module declares a RECURSIVE operator.

## 5. Disagreements found

Four runs end in a violation and are described under `findings` in
`PROJECT.json`: the crossed port match, the empty target, the import's window
without assignments, and the server form that undoes the reset marker.

## 6. Not modelled, and why

* Template sections and YAML helpers are text processing; the router, the
  dashboard and the public pages decode, call one service operation and encode;
  the frontend keeps no state beyond a page (the pages that post old copies back
  are in Traffic and Policies); the in-memory cache is used by nothing.
* In TargetSync: the assignments of a target that are rebuilt from its rows at the
  end (no synchronisation reads them); the statements of an import of the target
  other than its listing and its rows; a timed-out call that takes effect only
  later; the second candidate URL of a call, which is a 404 on a panel with a base
  path; case folding of emails.
* In MainImport: adding and editing users through the API; other servers. The
  save of all policies is modelled for one user at a time. Two panel inbounds get
  their local ids in the order of their panel ids.
* In Traffic: adding and deleting servers, several servers in one pass, time
  zones, changes of the interval; the listing that a reset makes first, which
  only counts, is part of the reset's call. A counter saturates at `MaxUse`.

* In Admin: exporting a backup changes nothing; what an export in the middle of
  a write may contain, a torn file, is among the archives. The successor that
  `restartSelf` starts and the exit of its predecessor are one step. Tokens do
  not repeat; a session's expiry is a logout. The write-ahead details of SQLite
  are one journal file. Rights and the name rules of archives are one bit, `safe`.
* In Policies: the users stay (MainImport has users that come and go); modes are a
  set of groups that have one; a provider's format, interval and health check. The
  variants that keep policies and providers in YAML files (`config/cleanup.go`,
  `SaveProviders`) run only without a database, which `main` never leaves out. A
  provider's deletion leaves the members and modes keyed by its *group* in the
  policies until groups are saved; no property speaks of these. A provider's file
  is public and can be fetched torn while it is rewritten.
* In Generation: addresses, ports, fingerprints, health checks, group types and
  `mihomo_options` stay with the names they belong to. Each read is one step,
  though most are several statements (settings and users; number, settings and
  rows of the groups; user, assignments and each inbound), so no change comes
  between these. An inbound has one client of an email at most, whatever its case.
  Groups that end up empty are no fault of the validator's and none here. Previews
  call the same operators.
* Hazards seen and not covered: a 200 answer that is not JSON counts as success
  in `xui/client.go`; emails are compared with and without case in different
  places (modelled in Generation, where it decides about a user's nodes, not in the
  synchronisation and the import); an import lists the users before it lists the panel.

## 7. Plan

Done: target synchronisation, import, traffic, sessions and restore with their
refinement, policies and providers, generation. What would come next:

1. `PanelSync`: MainImport's plan handed to TargetSync, and an abstract
   `TargetMirror` (a target is atomically replaced by a plan) that TargetSync is
   shown to implement for undisturbed runs.
2. Traffic with several servers and an interval that changes.
3. Proofs: the refinement of 1, for which `Settles` and `QuietInv` of
   TargetSyncProofs are the groundwork.

## 8. Running it

    tlc -workers 2 -config TargetSyncRetry.cfg MCTargetSync.tla
    tlapm TargetSyncProofs.tla

A passing run takes between a second and three minutes, a proof module
up to ten minutes when nothing of it has been proved before.
