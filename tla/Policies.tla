------------------------------ MODULE Policies ------------------------------
(***************************************************************************)
(* The users' policies and what they name: managed nodes, groups and proxy *)
(* providers, with the cleanups that follow a deletion and the updater     *)
(* that keeps the providers' files fresh (backend/internal/app/service.go, *)
(* db/config_store.go, config/provider_converter.go, web/config.go and     *)
(* web/xui.go).                                                            *)
(*                                                                         *)
(* The database has one connection (SetMaxOpenConns(1)): a transaction is  *)
(* a step, and so is a statement outside of one. Requests overlap, their   *)
(* inputs come from pages that were loaded at any time, and the program    *)
(* may stop between any two steps. The users stay the same here:           *)
(* MainImport is about users that come and go.                             *)
(***************************************************************************)
EXTENDS Naturals

CONSTANTS
  Users, Nodes, Providers,
  Groups,    \* names of groups that are not a provider's
  Sources,   \* what a source URL delivers
  Requests,  \* concurrent requests
  Ticker,    \* the goroutine of StartProviderUpdater
  Asks,      \* the requests there are
  Starts,    \* what the database holds at first
  None, Torn,
  Bounds     \* bounds: requests; crashes and failures

Names   == Groups \cup Providers
Actors  == Requests \cup {Ticker}
Columns == {"nodes", "provs", "refs", "modes"}

\* Of a users row: node_ids_json, provider_ids_json, group_nodes_json as
\* pairs of a group and a provider that is a member there, and the groups of
\* group_modes_json.
Policy == [nodes: SUBSET Nodes, provs: SUBSET Providers,
           refs: SUBSET (Names \X Providers), modes: SUBSET Names]
\* A provider_addons row: its source, and how old last_updated_at is.
Row    == [src: Sources, age: {"never", "due", "fresh"}]
Tables(Keys, Values) == UNION {[K -> Values] : K \in SUBSET Keys}

\* "policy": the policy page; "page": the settings page, with every policy as
\* it was when the page was loaded.
Refreshes == [op: {"refresh"}, id: Providers]
AllAsks ==
  Refreshes
    \cup [op: {"delete"}, id: Providers]
    \cup [op: {"upsert"}, id: Providers, src: Sources]
    \cup [op: {"nodes"}, want: SUBSET Nodes]
    \cup [op: {"groups"}, want: Tables(Names, Providers \cup {None})]
    \cup [op: {"page"}, want: [Users -> Policy]]
    \cup [op: {"policy"}, user: Users, want: Policy, given: SUBSET Columns]

ASSUME AsksAssumption  == Asks \subseteq AllAsks
ASSUME NamesAssumption ==
  /\ Ticker \notin Requests /\ None \notin Providers /\ Torn \notin Sources
  /\ Bounds \in [asks: Nat, troubles: Nat]
\* The groups were saved with, or after, each provider.
ASSUME StartsAssumption ==
  \A s \in Starts :
    /\ s.pol \in [Users -> Policy] /\ s.nodes \in SUBSET Nodes
    /\ s.rows \in Tables(Providers, Row)
    /\ s.groups \in Tables(Names, Providers \cup {None})
    /\ \A id \in DOMAIN s.rows : id \in DOMAIN s.groups /\ s.groups[id] = id
    /\ s.file \in Tables(Providers, Sources)

VARIABLES
  pol,     \* pol[u]: a user's policy
  nodes,   \* the nodes table
  groups,  \* proxy_groups: name |-> provider
  rows,    \* provider_addons
  file,    \* proxy_providers/<id>.yaml: whose proxies it holds
  run,     \* run[r]: what a request or the updater is doing
  pass,    \* the providers left of the updater's list
  left     \* what is left of the bounds

tables == <<nodes, groups, rows, file>>
vars   == <<pol, nodes, groups, rows, file, run, pass, left>>

---------------------------------------------------------------------------
(* Requests *)

\* alone: history: no request that overlaps writes what this one does, nor
\* what a refresh that it joined had read before.
Idle     == [at |-> "idle"]
Editing  == [at: {"save", "list", "walk", "done"}, ask: Asks,
             copy: [Users -> Policy], todo: SUBSET Users, alone: BOOLEAN]
Fetching == [at: {"put", "fetch", "open", "back"}, ask: Asks \cup Refreshes,
             copy: Row, alone: BOOLEAN]

Busy(r) == run[r] # Idle

Writes(op) ==
  CASE op \in {"policy", "page"}    -> Columns
    [] op = "nodes"                 -> {"nodes"}
    [] op = "groups"                -> {"refs", "modes"}
    [] op = "delete"                -> {"provs", "refs"}
    [] op \in {"upsert", "refresh"} -> {}

Storing == {"delete", "upsert", "refresh"}
Clash(a, b) ==
  \/ Writes(a.op) \cap Writes(b.op) # {}
  \/ /\ a.op \in Storing /\ b.op \in Storing /\ a.id = b.id
     /\ {a.op, b.op} # {"refresh"}

\* The others, when a request begins.
Disturbed(a) ==
  [q \in Actors |-> IF Busy(q) /\ Clash(run[q].ask, a)
                    THEN [run[q] EXCEPT !.alone = FALSE] ELSE run[q]]
Joins(a, b) == a.op = "refresh" /\ b.op = "refresh" /\ a.id = b.id
Alone(a) ==
  \A q \in Actors : Busy(q) => /\ ~Clash(run[q].ask, a)
                              /\ (Joins(run[q].ask, a) => run[q].alone)

Asking(r, a) ==
  /\ r \in Requests /\ ~Busy(r) /\ left.asks > 0
  /\ left' = [left EXCEPT !.asks = @ - 1]
  /\ UNCHANGED pass

Edits(r, a, at, todo) ==
  run' = [Disturbed(a) EXCEPT ![r] =
            [at |-> at, ask |-> a, copy |-> pol, todo |-> todo, alone |-> Alone(a)]]
Fetches(r, a, at, copy) ==
  run' = [Disturbed(a) EXCEPT ![r] = [at |-> at, ask |-> a, copy |-> copy, alone |-> Alone(a)]]
Goes(r, at) == run' = [run EXCEPT ![r].at = at]
Ends(r)     == run' = [run EXCEPT ![r] = Idle]

Trouble == left.troubles > 0 /\ left' = [left EXCEPT !.troubles = @ - 1]

---------------------------------------------------------------------------
(* Saving policies: every user's is written, from the copy that was read. *)

\* Groups and modes that the request leaves out stay as they were read.
Updated(a, copy) ==
  [c \in Columns |-> IF c \in {"nodes", "provs"} \cup a.given THEN a.want[c] ELSE copy[c]]

ReadAppConfig(r, a) ==
  /\ a.op = "policy" /\ Asking(r, a)
  /\ Edits(r, a, "save", {})
  /\ UNCHANGED <<pol, tables>>

SaveAppConfig(r) ==
  /\ run[r].at = "save"
  /\ LET a == run[r].ask
     IN  pol' = [run[r].copy EXCEPT ![a.user] = Updated(a, @)]
  /\ Ends(r)
  /\ UNCHANGED <<tables, pass, left>>

SavePage(r, a) ==
  /\ a.op = "page" /\ Asking(r, a)
  /\ pol' = a.want
  /\ run' = Disturbed(a)
  /\ UNCHANGED tables

---------------------------------------------------------------------------
(* Nodes and groups: one transaction, then the cleanup of the policies. *)

ReplaceNodes(r, a) ==
  /\ a.op = "nodes" /\ Asking(r, a)
  /\ nodes' = a.want
  /\ Edits(r, a, "list", {})
  /\ UNCHANGED <<pol, groups, rows, file>>

\* upsertProviderGroupTx for each of the providers.
WithProviders(table, ids) ==
  [g \in DOMAIN table \cup ids |-> IF g \in ids THEN g ELSE table[g]]

\* Mutant: the providers' groups are not put back.
SaveGroupsAsGiven(r, a) ==
  /\ a.op = "groups" /\ Asking(r, a)
  /\ groups' = a.want
  /\ Edits(r, a, "list", {})
  /\ UNCHANGED <<pol, nodes, rows, file>>

SaveGroupsConfig(r, a) ==
  /\ a.op = "groups" /\ Asking(r, a)
  /\ groups' = WithProviders(a.want, DOMAIN rows)
  /\ Edits(r, a, "list", {})
  /\ UNCHANGED <<pol, nodes, rows, file>>

DeleteProvider(r, a) ==
  /\ a.op = "delete" /\ Asking(r, a)
  /\ rows' = [id \in DOMAIN rows \ {a.id} |-> rows[id]]
  /\ groups' = [g \in {h \in DOMAIN groups : groups[h] # a.id /\ h # a.id} |-> groups[g]]
  /\ Edits(r, a, "list", {})
  /\ UNCHANGED <<pol, nodes, file>>

ListUsers(r) ==
  /\ run[r].at = "list"
  /\ run' = [run EXCEPT ![r].at = "walk", ![r].copy = pol, ![r].todo = Users]
  /\ UNCHANGED <<pol, tables, pass, left>>

\* Mutant: a selection is never emptied, so that nobody gets all nodes by it.
KeepSomeNodes(p, want) == [p EXCEPT !.nodes = IF @ \cap want = {} THEN @ ELSE @ \cap want]
\* Mutant: the modes are forgotten.
KeepGroupMembers(p, want) == [p EXCEPT !.refs = {x \in @ : x[1] \in want}]
\* Mutant: the groups' members are forgotten.
DropSelection(p, id) == [p EXCEPT !.provs = @ \ {id}]

\* What a cleanup leaves of a policy.
KeepNodes(p, want) == [p EXCEPT !.nodes = @ \cap want]
KeepGroups(p, want) == [p EXCEPT !.refs = {x \in @ : x[1] \in want}, !.modes = @ \cap want]
DropProvider(p, id) == [p EXCEPT !.provs = @ \ {id}, !.refs = {x \in @ : x[2] # id}]

\* Mutant: the statement writes the whole policy.
StoreAll(u, columns, p) == pol' = [pol EXCEPT ![u] = p]

\* The statement names its columns and takes their values from the copy.
Store(u, columns, p) ==
  pol' = [pol EXCEPT ![u] = [c \in Columns |-> IF c \in columns THEN p[c] ELSE @[c]]]

Walking(r, u, op) ==
  /\ run[r].at = "walk" /\ run[r].ask.op = op /\ u \in run[r].todo
  /\ run' = [run EXCEPT ![r].todo = @ \ {u}]
  /\ UNCHANGED <<tables, pass, left>>

CleanupNodePrefs(r, u) ==
  /\ Walking(r, u, "nodes")
  /\ LET was == run[r].copy[u]
         now == KeepNodes(was, run[r].ask.want)
     IN  IF now # was THEN Store(u, {"nodes"}, now) ELSE UNCHANGED pol

CleanupGroupPrefs(r, u) ==
  /\ Walking(r, u, "groups")
  /\ LET was == run[r].copy[u]
         now == KeepGroups(was, DOMAIN run[r].ask.want)
     IN  IF now # was THEN Store(u, {"refs", "modes"}, now) ELSE UNCHANGED pol

CleanupProviderPrefs(r, u) ==
  /\ Walking(r, u, "delete")
  /\ Store(u, {"provs", "refs"}, DropProvider(run[r].copy[u], run[r].ask.id))

\* What a refresh still writes into the file goes where no name leads.
RemoveProviderFile(r) ==
  /\ run[r].at = "walk" /\ run[r].ask.op = "delete" /\ run[r].todo = {}
  /\ LET id == run[r].ask.id
     IN  /\ file' = [f \in DOMAIN file \ {id} |-> file[f]]
         /\ run' = [q \in Actors |->
              IF q = r THEN [run[r] EXCEPT !.at = "done"]
              ELSE IF run[q].at = "open" /\ run[q].ask.id = id
                   THEN [run[q] EXCEPT !.at = "back", !.copy.age = "fresh"] ELSE run[q]]
  /\ UNCHANGED <<pol, nodes, groups, rows, pass, left>>

Finished(r) ==
  \/ run[r].at = "done"
  \/ run[r].at = "walk" /\ run[r].ask.op \in {"nodes", "groups"} /\ run[r].todo = {}

Return(r) ==
  /\ Finished(r)
  /\ Ends(r)
  /\ UNCHANGED <<pol, tables, pass, left>>

---------------------------------------------------------------------------
(* Providers *)

\* Mutant: SaveProvidersToDB with the one provider, which deletes the others.
SaveProvidersToDB(id, row) ==
  /\ rows' = [i \in {id} |-> row]
  /\ groups' = WithProviders(groups, {id})

\* upsertProviderTx and upsertProviderGroupTx.
UpsertProviderToDB(id, row) ==
  /\ rows' = [i \in DOMAIN rows \cup {id} |-> IF i = id THEN row ELSE rows[i]]
  /\ groups' = WithProviders(groups, {id})

\* Mutant: a new provider's time is NULL.
PrepareUndated(r, a) ==
  /\ a.op = "upsert" /\ Asking(r, a)
  /\ Fetches(r, a, "put",
       [src |-> a.src, age |-> IF a.id \in DOMAIN rows THEN rows[a.id].age ELSE None])
  /\ UNCHANGED <<pol, tables>>

\* A provider that exists keeps its times.
PrepareProvider(r, a) ==
  /\ a.op = "upsert" /\ Asking(r, a)
  /\ Fetches(r, a, "put",
       [src |-> a.src, age |-> IF a.id \in DOMAIN rows THEN rows[a.id].age ELSE "never"])
  /\ UNCHANGED <<pol, tables>>

UpsertProvider(r) ==
  /\ run[r].at = "put"
  /\ UpsertProviderToDB(run[r].ask.id, run[r].copy)
  /\ Ends(r)
  /\ UNCHANGED <<pol, nodes, file, pass, left>>

RefreshProvider(r, a) ==
  /\ a.op = "refresh" /\ a.id \in DOMAIN rows /\ Asking(r, a)
  /\ Fetches(r, a, "fetch", rows[a.id])
  /\ UNCHANGED <<pol, tables>>

\* os.WriteFile: the file is emptied, then filled. Over another refresh's
\* proxies that were written in between, the longer ones stick out.
OpenFile(r) ==
  /\ run[r].at = "fetch"
  /\ LET id == run[r].ask.id
     IN  file' = [f \in DOMAIN file \cup {id} |-> IF f = id THEN Torn ELSE file[f]]
  /\ Goes(r, "open")
  /\ UNCHANGED <<pol, nodes, groups, rows, pass, left>>

FillFile(r) ==
  /\ run[r].at = "open"
  /\ LET id  == run[r].ask.id
         src == run[r].copy.src
     IN  file' \in {[file EXCEPT ![id] = src]}
                     \cup (IF file[id] \in {Torn, src} THEN {} ELSE {[file EXCEPT ![id] = Torn]})
  /\ run' = [run EXCEPT ![r].at = "back", ![r].copy.age = "fresh"]
  /\ UNCHANGED <<pol, nodes, groups, rows, pass, left>>

\* The source does not answer, has no proxies, or the disk is full.
RefreshFails(r) ==
  /\ run[r].at \in {"fetch", "open"} /\ Trouble
  /\ Goes(r, "back")
  /\ UNCHANGED <<pol, tables, pass>>

\* The copy that was read before the download.
WriteBack(r) ==
  /\ run[r].at = "back"
  /\ UpsertProviderToDB(run[r].ask.id, run[r].copy)
  /\ Ends(r)
  /\ UNCHANGED <<pol, nodes, file, pass, left>>

\* Mutant: the updater lists what it never fetched.
ListNew ==
  /\ run[Ticker] = Idle /\ pass = {}
  /\ pass' = {id \in DOMAIN rows : rows[id].age = "never"}
  /\ UNCHANGED <<pol, tables, run, left>>

\* The minute's tick, and each provider that was due then.
ListDue ==
  /\ run[Ticker] = Idle /\ pass = {}
  /\ pass' = {id \in DOMAIN rows : rows[id].age # "fresh"}
  /\ UNCHANGED <<pol, tables, run, left>>

RefreshDue(id) ==
  /\ run[Ticker] = Idle /\ id \in pass
  /\ pass' = pass \ {id}
  /\ IF id \in DOMAIN rows THEN Fetches(Ticker, [op |-> "refresh", id |-> id], "fetch", rows[id])
                           ELSE UNCHANGED run
  /\ UNCHANGED <<pol, tables, left>>

\* update_interval_seconds pass, for the rows and for the copies of them.
Aged(row) == [row EXCEPT !.age = IF @ = "fresh" THEN "due" ELSE @]
IntervalPasses ==
  /\ rows' = [id \in DOMAIN rows |-> Aged(rows[id])]
  /\ run' = [r \in Actors |-> IF run[r].at \in {"put", "fetch", "open", "back"}
                              THEN [run[r] EXCEPT !.copy = Aged(@)] ELSE run[r]]
  /\ UNCHANGED <<pol, nodes, groups, file, pass, left>>

---------------------------------------------------------------------------
(* Failures *)

\* A statement fails: the request ends there.
StatementFails(r) ==
  /\ run[r].at \in {"save", "put", "list", "walk", "back"} /\ ~Finished(r) /\ Trouble
  /\ Ends(r)
  /\ UNCHANGED <<pol, tables, pass>>

Crash ==
  /\ Trouble
  /\ run' = [r \in Actors |-> Idle] /\ pass' = {}
  /\ UNCHANGED <<pol, tables>>

---------------------------------------------------------------------------
Init ==
  /\ \E s \in Starts :
       pol = s.pol /\ nodes = s.nodes /\ groups = s.groups /\ rows = s.rows /\ file = s.file
  /\ run = [r \in Actors |-> Idle] /\ pass = {}
  /\ left = Bounds

Begins(r, a) ==
  \/ ReadAppConfig(r, a) \/ SavePage(r, a)
  \/ ReplaceNodes(r, a) \/ SaveGroupsConfig(r, a)
  \/ DeleteProvider(r, a) \/ PrepareProvider(r, a) \/ RefreshProvider(r, a)

Continues(r) ==
  \/ SaveAppConfig(r) \/ UpsertProvider(r)
  \/ ListUsers(r) \/ RemoveProviderFile(r) \/ Return(r)
  \/ \E u \in Users : CleanupNodePrefs(r, u) \/ CleanupGroupPrefs(r, u) \/ CleanupProviderPrefs(r, u)
  \/ OpenFile(r) \/ FillFile(r) \/ WriteBack(r)

Updating == ListDue \/ \E id \in Providers : RefreshDue(id)

Next ==
  \/ \E r \in Actors, a \in Asks : Begins(r, a)
  \/ \E r \in Actors : Continues(r) \/ RefreshFails(r) \/ StatementFails(r)
  \/ Updating \/ IntervalPasses \/ Crash

Spec == Init /\ [][Next]_vars

\* A handler that runs goes on, the ticker ticks, and time passes.
FairSpec ==
  /\ Spec
  /\ \A r \in Actors : WF_vars(Continues(r))
  /\ WF_vars(Updating) /\ WF_vars(IntervalPasses)
---------------------------------------------------------------------------
(* Properties *)

\* The tables hold what their columns may, and every request is somewhere in
\* its handler.
TypeOK ==
  /\ pol \in [Users -> Policy] /\ nodes \in SUBSET Nodes
  /\ groups \in Tables(Names, Providers \cup {None})
  /\ rows \in Tables(Providers, Row)
  /\ file \in Tables(Providers, Sources \cup {Torn})
  /\ run \in [Actors -> Editing \cup Fetching \cup {Idle}]
  /\ pass \in SUBSET Providers
  /\ left \in [asks: Nat, troubles: Nat]

\* Every provider has its own group, whatever groups are saved over it and
\* however its deletions and refreshes overlap: without it, selecting the
\* provider adds nothing that a rule can lead to.
ProvidersHaveTheirGroup ==
  \A id \in DOMAIN rows : id \in DOMAIN groups /\ groups[id] = id

\* When saving the nodes has cleaned up, alone, no policy selects a node that
\* is not there: not one that an earlier save left behind when it failed or
\* the program stopped between its transaction and its cleanup.
NodePrefsClean ==
  \A r \in Requests :
    Finished(r) /\ run[r].ask.op = "nodes" /\ run[r].alone =>
      \A u \in Users : pol[u].nodes \subseteq nodes

\* The same of groups: no members and no mode for a group that is not there,
\* though providers come, and their groups with them, in between.
GroupPrefsClean ==
  \A r \in Requests :
    Finished(r) /\ run[r].ask.op = "groups" /\ run[r].alone =>
      \A u \in Users : /\ \A x \in pol[u].refs : x[1] \in DOMAIN groups
                      /\ pol[u].modes \subseteq DOMAIN groups

\* When a provider's deletion is over, and nobody saved or refreshed it at
\* the same time, nothing of it is left: no row, group, file or selection.
ProviderPrefsClean ==
  \A r \in Requests :
    run[r].at = "done" /\ run[r].alone =>
      LET id == run[r].ask.id
      IN  /\ id \notin DOMAIN rows \cup DOMAIN file
          /\ \A u \in Users : id \notin pol[u].provs /\ \A x \in pol[u].refs : x[2] # id

\* A cleanup takes from a policy only what its request did away with, though
\* it writes a copy: what another kind of cleanup, at work on the same users,
\* wrote since the copy was read stays as that one wrote it.
CleanupTakesOnlyDangling ==
  [][\A r \in Requests, u \in Users :
       /\ run[r].at = "walk" /\ run[r].alone /\ u \in run[r].todo
       /\ run'[r].at = "walk" /\ u \notin run'[r].todo
       =>
         LET a == run[r].ask
         IN  \A c \in Columns :
               /\ pol'[u][c] \subseteq pol[u][c]
               /\ \A x \in pol[u][c] \ pol'[u][c] :
                    \/ a.op = "nodes" /\ c = "nodes" /\ x \notin a.want
                    \/ a.op = "groups" /\ c = "refs" /\ x[1] \notin DOMAIN a.want
                    \/ a.op = "groups" /\ c = "modes" /\ x \notin DOMAIN a.want
                    \/ a.op = "delete" /\ c = "provs" /\ x = a.id
                    \/ a.op = "delete" /\ c = "refs" /\ x[2] = a.id]_vars

\* What a refresh writes back after its download changes neither which
\* providers there are nor a source, unless that provider was saved or
\* deleted meanwhile, or during a refresh that overlaps this one.
RefreshOnlyRefreshes ==
  [][\A r \in Actors :
       run[r].at = "back" /\ run[r].alone /\ run'[r] = Idle =>
         /\ DOMAIN rows' = DOMAIN rows
         /\ \A id \in DOMAIN rows :
              /\ rows'[id].src = rows[id].src
              /\ id # run[r].ask.id => rows'[id] = rows[id]
         /\ groups' = groups]_vars

\* The updater: once the requests and failures are over, every provider has a
\* file with the proxies of its source, except while it is being rewritten,
\* though refreshes bring back providers and sources, tear each other's files
\* or die with the program.
KeptFresh ==
  <>[](\A id \in DOMAIN rows :
         \/ id \in DOMAIN file /\ file[id] = rows[id].src
         \/ \E r \in Actors : run[r].at = "open" /\ run[r].ask.id = id)
=============================================================================
