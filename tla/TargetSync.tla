----------------------------- MODULE TargetSync -----------------------------
(***************************************************************************)
(* Synchronisation of one target panel with the main panel, one HTTP call  *)
(* per step: the loop body of SyncToServers, syncServerInbounds and        *)
(* syncServerInboundClients (backend/internal/app/service.go).             *)
(*                                                                         *)
(* A run works on copies: the plan it read from the database, the inbounds *)
(* it listed, the client rows it listed.  Nothing locks the target between *)
(* two calls, so other runs (POST /api/sync takes no lock) and the target  *)
(* panel itself act in between, and any call may fail or lose its answer   *)
(* after the panel has already acted (the client gives up after 60 s).     *)
(*                                                                         *)
(* The second listing goes through the database: it is stored in the       *)
(* target's rows of the table inbounds and read back from there, and all   *)
(* requests, imports of the target included, store their listings in the   *)
(* same rows.                                                              *)
(***************************************************************************)
EXTENDS Panel

CONSTANTS
  Syncers,       \* concurrent requests that synchronise or import the target
  MainChoices,   \* the plans the database may hold (see Plan below)
  TargetChoices, \* the panels the target may be at the start
  MaxFaults,     \* bound: accepted calls whose answer is lost, or that are lost
  MaxSwitches,   \* bound: clients switched on or off by the target itself
  MaxChanges,    \* bound: changes of the main panel that were imported
  MaxImports     \* bound: imports of the target (POST /api/servers/import/{id})

MainInbound == [key: Keys, port: Ports, conf: Confs, enable: BOOLEAN]
Wanted == [key: Keys, email: Emails, cred: Creds, enable: BOOLEAN, own: Owns]

\* What SyncToServers reads from the database: the main panel's inbounds, and
\* desiredClientsByTag, the clients each of them should have.
Plan == [inbounds: SUBSET MainInbound, clients: SUBSET Wanted]

MainKeys(plan) == {m.key : m \in plan.inbounds}

\* desiredInboundClientsByTag has one client list per main inbound, and the main
\* panel is a panel: its tags are unique, an inbound has one entry per email, and
\* what a panel keeps of its own is a client's, whatever inbounds it is on.
WellFormedPlan(plan) ==
  /\ \A w \in plan.clients : w.key \in MainKeys(plan)
  /\ \A m, n \in plan.inbounds : m.key = n.key => m = n
  /\ \A v, w \in plan.clients :
       v.email = w.email => v.own = w.own /\ (v.key = w.key => v = w)

ASSUME ChoicesAssumption ==
  /\ MainChoices \subseteq {plan \in Plan : WellFormedPlan(plan)}
  /\ TargetChoices \subseteq {p \in PanelState : WellFormed(p)}
ASSUME BoundsAssumption ==
  MaxFaults \in Nat /\ MaxSwitches \in Nat /\ MaxChanges \in Nat /\ MaxImports \in Nat

VARIABLES
  main,    \* the plan a run starting now would read
  cache,   \* the target's rows in the table inbounds: the listing stored last
  target,  \* the target panel
  run,     \* run[s]: what request s has in hand
  left     \* what is left of the four bounds

vars == <<main, cache, target, run, left>>

(***************************************************************************)
(* The local state of a run.                                               *)
(***************************************************************************)
Listing == [inbounds: SUBSET Inbound, clients: SUBSET Attachment]
Push    == [id: Ids, want: Wanted]
Write   == [id: Ids, client: Row]
Flip    == [id: Ids, enable: BOOLEAN]

Idle == [pc |-> "idle",
         plan |-> [inbounds |-> {}, clients |-> {}],
         seen |-> [inbounds |-> {}, clients |-> {}],   \* the inbounds it goes by
         rows |-> {},                                  \* clients/list: targetRecords
         created |-> {},                               \* rows added by this run
         todo |-> {}, flip |-> {}, stale |-> {},       \* inbound calls to make
         push |-> {}, write |-> {}, prune |-> {},      \* client calls to make
         \* History: the matching was unambiguous; no other run overlapped; the
         \* target's switches agreed at the start and were not touched since.
         clear |-> TRUE, alone |-> TRUE, calm |-> TRUE]

Active(r) == r.pc \notin {"idle", "done", "failed"}
\* The target counts as synchronised; what follows refreshes its rows.
Succeeded(r) == r.pc \in {"synced", "refresh", "rebuild", "done"}
Ended(how) == [Idle EXCEPT !.pc = how]

(***************************************************************************)
(* Matching: by key, else by listen|port.  Both maps are built from the    *)
(* listing once; an inbound that one main inbound already claimed is still *)
(* found by another.                                                       *)
(***************************************************************************)
ByKey(seen, m)  == {i \in seen.inbounds : i.key = m.key}
ByPort(seen, m) == {i \in seen.inbounds : i.port = m.port}
Match(seen, m)  == IF ByKey(seen, m) # {} THEN ByKey(seen, m) ELSE ByPort(seen, m)

Equivalent(m, i) ==
  m.key = i.key /\ m.port = i.port /\ m.conf = i.conf /\ m.enable = i.enable

UsedIds(plan, seen) ==
  {i.id : i \in {j \in seen.inbounds : \E m \in plan.inbounds : j \in Match(seen, m)}}

\* The main inbounds the first loop has a call for; equivalent ones have none.
Outdated(plan, seen) ==
  {m \in plan.inbounds : \A i \in Match(seen, m) : ~Equivalent(m, i)}

\* Mutant: usedRemoteIDs is not consulted.
StaleUnlessKey(plan, seen) == {i \in seen.inbounds : i.key \notin MainKeys(plan)}

\* The second loop: listed inbounds whose key the main panel does not have
\* and that no main inbound was matched with.
StaleInbounds(plan, seen) ==
  {i \in seen.inbounds : i.key \notin MainKeys(plan) /\ i.id \notin UsedIds(plan, seen)}

\* No two main inbounds are matched with the same target inbound.
Unambiguous(plan, seen) ==
  \A m, n \in plan.inbounds : m # n => Match(seen, m) \cap Match(seen, n) = {}

(***************************************************************************)
(* Clients.                                                                *)
(***************************************************************************)
KeyOf(seen, id) == (CHOOSE i \in seen.inbounds : i.id = id).key
Entries(seen, id, e) == {a \in seen.clients : a.id = id /\ a.email = e}
DesiredAt(plan, key) == {w \in plan.clients : w.key = key}
WantedAnywhere(plan, e) == \E w \in plan.clients : w.email = e

\* The (inbound, client) pairs of the first client loop that need a call: the
\* entry is missing, or sameSyncedInboundClient finds a difference (the target's
\* own enable was copied into the desired client, so it never is one).
PushList(plan, seen) ==
  {[id |-> i.id, want |-> w] : i \in seen.inbounds, w \in plan.clients} \cap
  {p \in Push : /\ p.want.key = KeyOf(seen, p.id)
                /\ \A a \in Entries(seen, p.id, p.want.email) : a.cred # p.want.cred}

\* The entries of the second client loop that nothing wants where they are.
PruneList(plan, seen) ==
  {a \in seen.clients : ~\E w \in DesiredAt(plan, KeyOf(seen, a.id)) : w.email = a.email}

Known(r, e) == \E x \in r.rows \cup r.created : x.email = e

\* Mutant: the main panel's enable is written over the target's.
PayloadWithMainEnable(r, p) ==
  LET w    == p.want
      rows == {x \in r.rows : x.email = w.email}
  IN [email |-> w.email, cred |-> w.cred, enable |-> w.enable,
      own   |-> IF rows # {} THEN (CHOOSE x \in rows : TRUE).own ELSE w.own]

\* preserveRemoteClientEnable and the row's own settings: an entry keeps the
\* enable it was listed with, a known client the enable of its row, only a new
\* client takes the main panel's.
Payload(r, p) ==
  LET w       == p.want
      entries == Entries(r.seen, p.id, w.email)
      rows    == {x \in r.rows : x.email = w.email}
      known   == {x \in r.rows \cup r.created : x.email = w.email}
  IN [email  |-> w.email, cred |-> w.cred,
      enable |-> IF entries # {} THEN (CHOOSE a \in entries : TRUE).enable
                 ELSE IF known # {} THEN (CHOOSE x \in known : TRUE).enable
                 ELSE w.enable,
      own    |-> IF rows # {} THEN (CHOOSE x \in rows : TRUE).own ELSE w.own]

\* Every entry of a client has the enable of its row.
Coherent(p) == \A c \in p.clients, r \in p.rows : c.email = r.email => c.enable = r.enable

(***************************************************************************)
(* The result of an HTTP write: the panel acted and the run goes on, or the *)
(* run stops with an error, whether the panel acted (its answer was lost)   *)
(* or not.  A rejected call (results = {}) always stops the run.            *)
(***************************************************************************)
Call(s, results, next) ==
  /\ \/ /\ target' \in results
        /\ run' = [run EXCEPT ![s] = next]
        /\ UNCHANGED left
     \/ /\ results = {}
        /\ run' = [run EXCEPT ![s] = Ended("failed")]
        /\ UNCHANGED <<target, left>>
     \/ /\ results # {} /\ left.faults > 0
        /\ target' \in results \cup {target}
        /\ run' = [run EXCEPT ![s] = Ended("failed")]
        /\ left' = [left EXCEPT !.faults = @ - 1]
  /\ UNCHANGED <<main, cache>>

\* A read or a statement that fails stops the run too; inbounds/list counts as
\* failed when the panel has no inbound at all.
ReadFails(s, empty) ==
  /\ \/ empty /\ UNCHANGED left
     \/ ~empty /\ left.faults > 0 /\ left' = [left EXCEPT !.faults = @ - 1]
  /\ run' = [run EXCEPT ![s] = Ended("failed")]
  /\ UNCHANGED <<main, cache, target>>

Init ==
  /\ main \in MainChoices
  /\ cache = [inbounds |-> {}, clients |-> {}]
  /\ target \in TargetChoices
  /\ run = [s \in Syncers |-> Idle]
  /\ left = [faults |-> MaxFaults, switches |-> MaxSwitches, changes |-> MaxChanges,
             imports |-> MaxImports]

\* Request s begins with r in hand; from now on nobody else at work is alone.
Begin(s, r) ==
  /\ ~Active(run[s])
  /\ run' = [t \in Syncers |->
       IF t = s
       THEN [r EXCEPT !.alone = \A u \in Syncers \ {s} : ~Active(run[u])]
       ELSE IF Active(run[t]) THEN [run[t] EXCEPT !.alone = FALSE] ELSE run[t]]

\* SyncToServers has imported the main panel and read the database.
Start(s) ==
  /\ Begin(s, [Idle EXCEPT !.pc = "list", !.plan = main, !.calm = Coherent(target)])
  /\ UNCHANGED <<main, cache, target, left>>

\* cli.ListInbounds before syncServerInbounds.
ListInbounds(s) ==
  LET r == run[s]
      seen == [inbounds |-> target.inbounds, clients |-> {}]
  IN /\ r.pc = "list"
     /\ \/ /\ target.inbounds # {}
           /\ run' = [run EXCEPT ![s] =
                [r EXCEPT !.pc = "inbounds", !.seen = seen,
                          !.todo = Outdated(r.plan, seen),
                          !.stale = StaleInbounds(r.plan, seen),
                          !.clear = Unambiguous(r.plan, seen)]]
           /\ UNCHANGED <<main, cache, target, left>>
        \/ ReadFails(s, target.inbounds = {})

\* The target misses a main inbound.
AddMissing(s) ==
  LET r == run[s]
  IN /\ r.pc = "inbounds" /\ r.flip = {}
     /\ \E m \in r.todo :
          /\ Match(r.seen, m) = {}
          /\ Call(s, AddInbound(target, m), [r EXCEPT !.todo = @ \ {m}])

\* Mutant: the update is trusted to carry enable, as it did before 3.9.0.
UpdateWithoutFlip(s) ==
  LET r == run[s]
  IN /\ r.pc = "inbounds"
     /\ \E m \in r.todo : \E i \in Match(r.seen, m) :
          Call(s, UpdateInbound(target, i.id, m), [r EXCEPT !.todo = @ \ {m}])

\* The target has the inbound, but not as the main panel has it.
UpdateOutdated(s) ==
  LET r == run[s]
  IN /\ r.pc = "inbounds" /\ r.flip = {}
     /\ \E m \in r.todo : \E i \in Match(r.seen, m) :
          Call(s, UpdateInbound(target, i.id, m),
               [r EXCEPT !.todo = @ \ {m},
                         !.flip = IF m.enable # i.enable
                                  THEN {[id |-> i.id, enable |-> m.enable]} ELSE {}])

\* SetInboundEnable right after the update that found a different enable.
FlipEnable(s) ==
  LET r == run[s]
  IN /\ r.pc = "inbounds"
     /\ \E f \in r.flip :
          Call(s, SetInboundEnable(target, f.id, f.enable), [r EXCEPT !.flip = {}])

\* The loop over remoteByKey starts when the loop over mainInbounds is through.
DeleteStale(s) ==
  LET r == run[s]
  IN /\ r.pc = "inbounds" /\ r.todo = {} /\ r.flip = {}
     /\ \E i \in r.stale :
          Call(s, DeleteInbound(target, i.id), [r EXCEPT !.stale = @ \ {i}])

\* Mutant: what is stored are the panel's rows.
RefetchRows(s) ==
  /\ run[s].pc = "inbounds" /\ run[s].todo = {} /\ run[s].flip = {} /\ run[s].stale = {}
  /\ target.inbounds # {}
  /\ run' = [run EXCEPT ![s].pc = "fetched",
                         ![s].seen = [inbounds |-> target.inbounds, clients |-> target.rows]]
  /\ UNCHANGED <<main, cache, target, left>>

\* The listing that ends syncServerInbounds.
Refetch(s) ==
  LET r == run[s]
      seen == [inbounds |-> target.inbounds, clients |-> target.clients]
  IN /\ r.pc = "inbounds" /\ r.todo = {} /\ r.flip = {} /\ r.stale = {}
     /\ \/ /\ target.inbounds # {}
           /\ run' = [run EXCEPT ![s] = [r EXCEPT !.pc = "fetched", !.seen = seen]]
           /\ UNCHANGED <<main, cache, target, left>>
        \/ ReadFails(s, target.inbounds = {})

\* Mutant: rows that are there already are not updated.
InsertOrIgnore(s) ==
  /\ run[s].pc = "fetched"
  /\ cache' = [inbounds |-> cache.inbounds \cup
                  {i \in run[s].seen.inbounds : ~HasInbound(cache, i.id)},
               clients |-> cache.clients \cup
                  {c \in run[s].seen.clients : ~HasInbound(cache, c.id)}]
  /\ run' = [run EXCEPT ![s].pc = "stored"]
  /\ UNCHANGED <<main, target, left>>

\* cacheServerInbounds, first half: one transaction makes the target's rows in the
\* table this listing, whatever another request has stored there.
EnsureServerInbounds(s) ==
  LET r == run[s]
  IN /\ r.pc = "fetched"
     /\ \/ /\ cache' = r.seen
           /\ run' = [run EXCEPT ![s].pc = "stored"]
           /\ UNCHANGED <<main, target, left>>
        \/ ReadFails(s, FALSE)

\* cacheServerInbounds, second half: the rows are read back, and they are what the
\* client phase goes by.
ListInboundsByServer(s) ==
  LET r == run[s]
  IN /\ r.pc = "stored"
     /\ \/ /\ run' = [run EXCEPT ![s] = [r EXCEPT !.pc = "rows", !.seen = cache]]
           /\ UNCHANGED <<main, cache, target, left>>
        \/ ReadFails(s, FALSE)

\* cli.ListClients at the head of syncServerInboundClients.
ListClients(s) ==
  LET r == run[s]
  IN /\ r.pc = "rows"
     /\ \/ /\ run' = [run EXCEPT ![s] =
                [r EXCEPT !.pc = "clients", !.rows = target.rows,
                          !.push = PushList(r.plan, r.seen),
                          !.prune = PruneList(r.plan, r.seen)]]
           /\ UNCHANGED <<main, cache, target, left>>
        \/ ReadFails(s, FALSE)

\* First client loop: the entry is missing and the client is not known.
CreateMissing(s) ==
  LET r == run[s]
  IN /\ r.pc = "clients" /\ r.write = {}
     /\ \E p \in r.push :
          LET c == Payload(r, p)
          IN /\ Entries(r.seen, p.id, p.want.email) = {}
             /\ ~Known(r, p.want.email)
             /\ Call(s, CreateClient(target, c, p.id),
                     [r EXCEPT !.push = @ \ {p}, !.created = @ \cup {c},
                               !.write = {[id |-> p.id, client |-> c]}])

\* First client loop: the entry is missing and the client has a row.
AttachMissing(s) ==
  LET r == run[s]
  IN /\ r.pc = "clients" /\ r.write = {}
     /\ \E p \in r.push :
          /\ Entries(r.seen, p.id, p.want.email) = {}
          /\ Known(r, p.want.email)
          /\ Call(s, AttachClient(target, p.want.email, p.id),
                  [r EXCEPT !.push = @ \ {p},
                            !.write = {[id |-> p.id, client |-> Payload(r, p)]}])

\* First client loop: the entry differs.
UpdateChanged(s) ==
  LET r == run[s]
  IN /\ r.pc = "clients" /\ r.write = {}
     /\ \E p \in r.push :
          /\ Entries(r.seen, p.id, p.want.email) # {}
          /\ Call(s, UpdateClient(target, Payload(r, p), p.id), [r EXCEPT !.push = @ \ {p}])

\* UpdateClientInInbound, which follows every create and attach.
WriteNew(s) ==
  LET r == run[s]
  IN /\ r.pc = "clients"
     /\ \E x \in r.write :
          Call(s, UpdateClient(target, x.client, x.id), [r EXCEPT !.write = {}])

\* Mutant: a client is deleted wherever one of its entries is not wanted.
DeletePruned(s) ==
  LET r == run[s]
  IN /\ r.pc = "clients" /\ r.push = {} /\ r.write = {}
     /\ \E a \in r.prune :
          Call(s, DeleteClient(target, a.email),
               [r EXCEPT !.prune = {b \in @ : b.email # a.email}])

\* Second client loop: a client that no inbound of the plan wants is deleted
\* once, whatever number of entries it has.
DeleteUnwanted(s) ==
  LET r == run[s]
  IN /\ r.pc = "clients" /\ r.push = {} /\ r.write = {}
     /\ \E a \in r.prune :
          /\ ~WantedAnywhere(r.plan, a.email)
          /\ Call(s, DeleteClient(target, a.email),
                  [r EXCEPT !.prune = {b \in @ : b.email # a.email}])

\* Mutant: entries are detached while others are still to be attached.
DetachEarly(s) ==
  LET r == run[s]
  IN /\ r.pc = "clients" /\ r.write = {}
     /\ \E a \in r.prune :
          /\ WantedAnywhere(r.plan, a.email)
          /\ Call(s, DetachClient(target, a.email, a.id), [r EXCEPT !.prune = @ \ {a}])

\* Second client loop: a client that is wanted elsewhere is detached here.
DetachMoved(s) ==
  LET r == run[s]
  IN /\ r.pc = "clients" /\ r.push = {} /\ r.write = {}
     /\ \E a \in r.prune :
          /\ WantedAnywhere(r.plan, a.email)
          /\ Call(s, DetachClient(target, a.email, a.id), [r EXCEPT !.prune = @ \ {a}])

\* Both loops are through: the target counts as synchronised.
Finish(s) ==
  LET r == run[s]
  IN /\ r.pc = "clients" /\ r.push = {} /\ r.write = {} /\ r.prune = {}
     /\ run' = [run EXCEPT ![s] = [Ended("synced") EXCEPT !.alone = r.alone]]
     /\ UNCHANGED <<main, cache, target, left>>

\* The target is listed once more; the run is through if that fails.
ListAgain(s) ==
  LET r == run[s]
      seen == [inbounds |-> target.inbounds, clients |-> target.clients]
  IN /\ r.pc = "synced"
     /\ \/ /\ target.inbounds # {}
           /\ run' = [run EXCEPT ![s] = [r EXCEPT !.pc = "refresh", !.seen = seen]]
           /\ UNCHANGED left
        \/ /\ target.inbounds = {} /\ run' = [run EXCEPT ![s] = Ended("done")]
           /\ UNCHANGED left
        \/ /\ target.inbounds # {} /\ left.faults > 0
           /\ run' = [run EXCEPT ![s] = Ended("done")]
           /\ left' = [left EXCEPT !.faults = @ - 1]
     /\ UNCHANGED <<main, cache, target>>

\* A listing in hand is stored, or the error is dropped; either way r is next.
Stored(s, r) ==
  /\ \/ cache' = run[s].seen /\ UNCHANGED left
     \/ UNCHANGED cache /\ left.faults > 0 /\ left' = [left EXCEPT !.faults = @ - 1]
  /\ run' = [run EXCEPT ![s] = r]
  /\ UNCHANGED <<main, target>>

\* cacheServerInbounds of that listing, whose result and error nobody reads ...
Recache(s) == run[s].pc = "refresh" /\ Stored(s, [run[s] EXCEPT !.pc = "rebuild"])

\* ... and again, of the same listing, in rebuildAssignmentsFromRemote.
Rebuild(s) == run[s].pc = "rebuild" /\ Stored(s, Ended("done"))

\* ImportFromServer of the target: it lists the target ...
Import(s) ==
  /\ left.imports > 0 /\ target.inbounds # {}
  /\ Begin(s, [Idle EXCEPT !.pc = "import",
                 !.seen = [inbounds |-> target.inbounds, clients |-> target.clients]])
  /\ left' = [left EXCEPT !.imports = @ - 1]
  /\ UNCHANGED <<main, cache, target>>

\* ... and stores what it listed.
ImportCaches(s) == run[s].pc = "import" /\ Stored(s, Idle)

\* A client reaches its quota on the target, or the target's administrator
\* switches it.
TargetSwitches ==
  /\ left.switches > 0
  /\ \E r \in target.rows : target' = SwitchClient(target, r.email)
  /\ left' = [left EXCEPT !.switches = @ - 1]
  /\ run' = [s \in Syncers |-> IF Active(run[s]) THEN [run[s] EXCEPT !.calm = FALSE]
                               ELSE run[s]]
  /\ UNCHANGED <<main, cache>>

\* The main panel changed and a later import stored the change.
MainChanges ==
  /\ left.changes > 0
  /\ main' \in MainChoices \ {main}
  /\ left' = [left EXCEPT !.changes = @ - 1]
  /\ UNCHANGED <<cache, target, run>>

InboundPhase(s) ==
  ListInbounds(s) \/ AddMissing(s) \/ UpdateOutdated(s) \/ FlipEnable(s) \/ DeleteStale(s)
ReadBack(s) == Refetch(s) \/ EnsureServerInbounds(s) \/ ListInboundsByServer(s)
ClientPhase(s) ==
  \/ ListClients(s) \/ CreateMissing(s) \/ AttachMissing(s) \/ UpdateChanged(s)
  \/ WriteNew(s) \/ DeleteUnwanted(s) \/ DetachMoved(s) \/ Finish(s)
Refresh(s) == ListAgain(s) \/ Recache(s) \/ Rebuild(s)
Step(s) ==
  InboundPhase(s) \/ ReadBack(s) \/ ClientPhase(s) \/ Refresh(s) \/ ImportCaches(s)

Next ==
  \/ \E s \in Syncers : Start(s) \/ Import(s) \/ Step(s)
  \/ TargetSwitches
  \/ MainChanges

Spec == Init /\ [][Next]_vars

\* Every call returns within the client's timeout, so a started run goes on; an
\* administrator who sees an error repeats the synchronisation.
Fairness == \A s \in Syncers : WF_vars(Step(s)) /\ WF_vars(Start(s))
FairSpec == Spec /\ Fairness

(***************************************************************************)
(* Properties.                                                             *)
(***************************************************************************)
Phases ==
  {"idle", "list", "inbounds", "fetched", "stored", "rows", "clients", "synced",
   "refresh", "rebuild", "done", "failed", "import"}

RunState ==
  [pc: Phases, plan: Plan, seen: Listing, rows: SUBSET Row, created: SUBSET Row,
   todo: SUBSET MainInbound, flip: SUBSET Flip, stale: SUBSET Inbound,
   push: SUBSET Push, write: SUBSET Write, prune: SUBSET Attachment,
   clear: BOOLEAN, alone: BOOLEAN, calm: BOOLEAN]

\* The type invariant of the module.
TypeOK ==
  /\ main \in MainChoices
  /\ cache \in Listing
  /\ target \in PanelState
  /\ run \in [Syncers -> RunState]
  /\ left \in [faults: Nat, switches: Nat, changes: Nat, imports: Nat]

\* The target has exactly the plan's inbounds, and under each of them exactly
\* the plan's clients with the plan's credentials.  (enable of a client is the
\* target's own business.)
Mirrors(plan, p) ==
  /\ {[key |-> i.key, port |-> i.port, conf |-> i.conf, enable |-> i.enable] :
        i \in p.inbounds} = plan.inbounds
  /\ {<<KeyOf(p, a.id), a.email, a.cred>> : a \in p.clients} =
     {<<w.key, w.email, w.cred>> : w \in plan.clients}

\* A step of a run, as opposed to a step of the panel or of another run.
StepOf(s) == Active(run[s]) /\ run'[s] # run[s] /\ main' = main /\ left'.switches = left.switches

\* A run that reports success on a target where no two main inbounds met on one
\* target inbound, and that no other run overlapped, leaves a mirror of its plan.
SuccessMirrors ==
  [][\A s \in Syncers :
       run[s].pc = "clients" /\ run'[s].pc = "synced" /\ run[s].clear /\ run[s].alone
         => Mirrors(run[s].plan, target)]_vars

\* The same for every target, ambiguous matches included: what a successful
\* synchronisation promises.
SuccessAlwaysMirrors ==
  [][\A s \in Syncers :
       run[s].pc = "clients" /\ run'[s].pc = "synced" /\ run[s].alone
         => Mirrors(run[s].plan, target)]_vars

\* "Add/update first so moving users does not orphan them before attaching":
\* a client of the plan that had an entry when the client phase began has one at
\* every moment of it, whatever moves.
NeverOrphaned ==
  \A s \in Syncers :
    run[s].pc = "clients" /\ run[s].clear /\ run[s].alone =>
      \A w \in run[s].plan.clients :
        Attached(run[s].seen, w.email) => Attached(target, w.email)

\* What a step from p to q takes away, run r does not want: an entry goes where the
\* plan does not want its client, with a listed inbound that the main panel does not
\* have, or with a client that no inbound of the plan has.
LosesOnlyUnwanted(r, p, q) ==
  \A a \in p.clients :
    \/ \E b \in q.clients : b.id = a.id /\ b.email = a.email
    \/ \E i \in r.seen.inbounds :
         /\ i.id = a.id
         /\ \/ i.key \notin MainKeys(r.plan)
            \/ ~\E w \in DesiredAt(r.plan, i.key) : w.email = a.email
    \/ ~WantedAnywhere(r.plan, a.email)

\* No step of a run loses an entry that its plan wants, whatever other requests and
\* the target's own switches do in between.
RemovesOnlyUnwanted ==
  [][\A s \in Syncers : StepOf(s) => LosesOnlyUnwanted(run[s], target, target')]_vars

\* A run that nothing interferes with changes neither the enable of a client that
\* has a row nor the settings the target keeps for itself.
TargetSettingsKept ==
  [][\A s \in Syncers : StepOf(s) /\ run[s].calm /\ run[s].alone =>
       \A r \in target.rows, q \in target'.rows :
         q.email = r.email => q.enable = r.enable /\ q.own = r.own]_vars

\* As long as the main panel does not change and nobody imports the target, one
\* successful run is enough: from then on the target mirrors the plan, whatever other
\* requests overlapped it, stored their listings where it read its own back, failed
\* half-way, are still at work or are repeated.
QuietMirrors ==
  left.changes = MaxChanges /\ left.imports = MaxImports
    /\ (\E s \in Syncers : Succeeded(run[s]))
  => Mirrors(main, target)

\* Repeated synchronisation converges: once the main panel and the network are
\* quiet the target becomes, and stays, a mirror of the main panel.
RetriesConverge == <>[]Mirrors(main, target)
=============================================================================
