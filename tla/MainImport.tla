----------------------------- MODULE MainImport -----------------------------
(***************************************************************************)
(* Import of the main panel into the local database, one database          *)
(* statement or transaction per step: ImportFromServer, and the prefix of  *)
(* SyncToServers that imports and then reads what the targets should have  *)
(* (backend/internal/app/service.go, backend/internal/db).                 *)
(*                                                                         *)
(* SQLite runs one statement at a time, but nothing holds the statements   *)
(* of an import together: a second import, a synchronisation, a policy     *)
(* save or a deleted user may come between any two of them, and a restart  *)
(* may cut an import short.  A statement may also fail: some errors end    *)
(* the import, others it does not look at and goes on to report success.   *)
(***************************************************************************)
EXTENDS Naturals, FiniteSets

CONSTANTS
  Requests,      \* concurrent POST /api/servers/import and POST /api/sync
  Ids,           \* the main panel's inbound ids
  Emails, Creds, \* users and what a client entry carries for one
  Prefs,         \* a user's subscription policy, as the web interface saved it
  NoPref,        \* the columns of a user no policy was ever saved for
  PanelChoices,  \* the main panels there may be (see Panel)
  DbChoices,     \* the databases there may be at the start (see Db)
  MaxFaults,     \* bound: inbounds/list calls that fail
  MaxSlips,      \* bound: statements on the database that fail
  MaxCrashes,    \* bound: restarts of the program
  MaxChanges,    \* bound: changes of the main panel
  MaxEdits       \* bound: users deleted, or policies saved, through the API

Client == [email: Emails, cred: Creds]
Panel  == UNION {[d -> SUBSET Client] : d \in SUBSET Ids}   \* inbound -> clients
Pref   == Prefs \cup {NoPref}

User   == [uid: Nat, email: Emails, cred: Creds, pref: Pref]
Row    == [local: Nat, id: Ids, clients: SUBSET Client]     \* table inbounds
Grant  == [uid: Nat, local: Nat, email: Emails]             \* user_assignments
\* The tables, and the ids AUTOINCREMENT hands out next.
Db     == [users: SUBSET User, rows: SUBSET Row, grants: SUBSET Grant,
           nextUid: Nat, nextLocal: Nat]

EmailsOf(panel) == {c.email : c \in UNION {panel[i] : i \in DOMAIN panel}}

\* A database the program wrote: UNIQUE columns, ids below the counters.
Consistent(d) ==
  /\ \A u, v \in d.users : u.email = v.email \/ u.uid = v.uid => u = v
  /\ \A r, q \in d.rows : r.id = q.id \/ r.local = q.local => r = q
  /\ \A u \in d.users : u.uid < d.nextUid
  /\ \A r \in d.rows : r.local < d.nextLocal

ASSUME IdsAssumption == Ids \subseteq Nat /\ IsFiniteSet(Ids)
ASSUME PrefAssumption == NoPref \notin Prefs
ASSUME ChoicesAssumption ==
  PanelChoices \subseteq Panel /\ DbChoices \subseteq {d \in Db : Consistent(d)}
ASSUME BoundsAssumption ==
  /\ MaxFaults \in Nat /\ MaxSlips \in Nat /\ MaxCrashes \in Nat
  /\ MaxChanges \in Nat /\ MaxEdits \in Nat

VARIABLES
  panel,  \* the main panel
  db,     \* the local database, main server's rows only
  run,    \* run[s]: what request s has in hand
  left    \* what is left of the five bounds

vars == <<panel, db, run, left>>

Todo == [id: Ids, email: Emails, cred: Creds]
Owed == [id: Ids, email: Emails]

Idle == [pc |-> "idle", sync |-> FALSE,
         before |-> {},        \* emails of the users before the import
         snap |-> {},          \* what inbounds/list returned, as Todo records
         ids |-> {},           \* the inbounds it returned
         cached |-> {},        \* the rows read back: cachedByAPIID, mainInbounds
         todo |-> {},          \* client entries not looked at yet
         hand |-> {},          \* the user record in hand
         seen |-> {},          \* email -> user id of the imported users
         owed |-> {},          \* assignments to make
         gone |-> {},          \* emails to remove
         \* History: the import succeeded; no other request overlapped and nobody
         \* deleted a user; no policy was saved; every assignment it owed was made.
         imported |-> FALSE, alone |-> TRUE, calm |-> TRUE, whole |-> TRUE]

Active(r) == r.pc \notin {"idle", "done", "failed"}
Ended(how) == [Idle EXCEPT !.pc = how]

SnapOf(p) == {t \in Todo : t.id \in DOMAIN p /\ [email |-> t.email, cred |-> t.cred] \in p[t.id]}
ByEmail(d, e) == {u \in d.users : u.email = e}
SeenId(r, e)  == (CHOOSE x \in r.seen : x.email = e).uid
See(seen, e, uid) == {x \in seen : x.email # e} \cup {[email |-> e, uid |-> uid]}

\* DeleteUser: the assignments and the row, in one transaction.
WithoutUser(d, uid) ==
  [d EXCEPT !.users = {u \in @ : u.uid # uid}, !.grants = {g \in @ : g.uid # uid}]

\* An import error: reported to the caller, or only logged by SyncToServers, which
\* then goes on with what the database holds.
Abort(r) == IF r.sync THEN [Idle EXCEPT !.pc = "read", !.sync = TRUE,
                                        !.alone = r.alone, !.calm = r.calm]
            ELSE Ended("failed")

Go(s, next) == run' = [run EXCEPT ![s] = next]

Init ==
  /\ panel \in PanelChoices
  /\ db \in DbChoices
  /\ run = [s \in Requests |-> Idle]
  /\ left = [faults |-> MaxFaults, slips |-> MaxSlips, crashes |-> MaxCrashes,
             changes |-> MaxChanges, edits |-> MaxEdits]

Slip == left.slips > 0 /\ left' = [left EXCEPT !.slips = @ - 1]

\* The request arrives, and these are the users the import knows of.
Arrive(s, before) ==
  /\ ~Active(run[s])
  /\ \E sync \in BOOLEAN :
       run' = [t \in Requests |->
         IF t = s
         THEN [Idle EXCEPT !.pc = "fetch", !.sync = sync,
                           !.before = before,
                           !.alone = \A u \in Requests \ {s} : ~Active(run[u])]
         ELSE IF Active(run[t]) THEN [run[t] EXCEPT !.alone = FALSE] ELSE run[t]]
  /\ UNCHANGED <<panel, db>>

\* The import lists the users there are ...
Begin(s) == Arrive(s, {u.email : u \in db.users}) /\ UNCHANGED left

\* ... or takes the failure of ListUsers for no users at all.
BeginBlind(s) == Arrive(s, {}) /\ Slip

\* cli.ListInbounds; an empty list is an error too.
Fetch(s) ==
  LET r == run[s]
  IN /\ r.pc = "fetch"
     /\ \/ /\ DOMAIN panel # {}
           /\ Go(s, [r EXCEPT !.pc = "cache", !.snap = SnapOf(panel), !.ids = DOMAIN panel])
           /\ UNCHANGED left
        \/ /\ DOMAIN panel = {}
           /\ Go(s, Abort(r))
           /\ UNCHANGED left
        \/ /\ DOMAIN panel # {} /\ left.faults > 0
           /\ Go(s, Abort(r))
           /\ left' = [left EXCEPT !.faults = @ - 1]
     /\ UNCHANGED <<panel, db>>

ClientsAt(r, id) == {[email |-> t.email, cred |-> t.cred] : t \in {x \in r.snap : x.id = id}}

\* The rows of the listed inbounds: those that exist keep their local id.
KeptRows(r, d) ==
  {[q EXCEPT !.clients = ClientsAt(r, q.id)] : q \in {x \in d.rows : x.id \in r.ids}}
NewIds(r, d)   == {i \in r.ids : \A q \in d.rows : q.id # i}
Rank(ids, i)   == Cardinality({j \in ids : j < i})
NewRows(r, d)  ==
  {[local |-> d.nextLocal + Rank(NewIds(r, d), i), id |-> i, clients |-> ClientsAt(r, i)] :
     i \in NewIds(r, d)}

\* Mutant: the rows are deleted and inserted again.
EnsureByReplacing(r, d) ==
  [d EXCEPT !.rows = {[local |-> d.nextLocal + Rank(r.ids, i), id |-> i,
                       clients |-> ClientsAt(r, i)] : i \in r.ids},
            !.nextLocal = @ + Cardinality(r.ids)]

\* EnsureServerInbounds: one transaction.
EnsureServerInbounds(r, d) ==
  LET lost == {q.local : q \in {x \in d.rows : x.id \notin r.ids}}
  IN [d EXCEPT !.rows = KeptRows(r, d) \cup NewRows(r, d),
               !.grants = {g \in @ : g.local \notin lost},
               !.nextLocal = @ + Cardinality(NewIds(r, d))]

Cache(s) ==
  /\ run[s].pc = "cache"
  /\ db' = EnsureServerInbounds(run[s], db)
  /\ Go(s, [run[s] EXCEPT !.pc = "rows"])
  /\ UNCHANGED <<panel, left>>

\* ListInboundsByServer at the end of cacheServerInbounds.
ReadBack(s) ==
  /\ run[s].pc = "rows"
  /\ Go(s, [run[s] EXCEPT !.pc = "clear", !.cached = db.rows])
  /\ UNCHANGED <<panel, db, left>>

HasRow(rows, id) == \E q \in rows : q.id = id
LocalOf(rows, id) == (CHOOSE q \in rows : q.id = id).local

\* The assignments the import makes: one per listed entry of a cached inbound.
Assignments(r) ==
  {o \in Owed : HasRow(r.cached, o.id) /\ \E t \in r.snap : t.id = o.id /\ t.email = o.email}

\* Mutant: the old assignments are kept.
KeepAssignments(s) ==
  LET r == run[s]
  IN /\ r.pc = "clear"
     /\ Go(s, [r EXCEPT !.pc = "users", !.todo = r.snap,
                        !.owed = Assignments(r),
                        !.gone = r.before \ {t.email : t \in r.snap}])
     /\ UNCHANGED <<panel, db, left>>

\* Mutant: users that are new in the snapshot are the only ones known to be alive.
ClearAndForgetKnown(s) ==
  LET r == run[s]
  IN /\ r.pc = "clear"
     /\ db' = [db EXCEPT !.grants = {}]
     /\ Go(s, [r EXCEPT !.pc = "users", !.todo = r.snap,
                        !.owed = Assignments(r),
                        !.gone = r.before])
     /\ UNCHANGED <<panel, left>>

\* DeleteAssignmentsByServer.  The work of the loops that follow is settled by now:
\* every client entry, every assignment of a cached inbound, every user not listed.
ClearAssignments(s) ==
  LET r == run[s]
  IN /\ r.pc = "clear"
     /\ db' = [db EXCEPT !.grants = {}]
     /\ Go(s, [r EXCEPT !.pc = "users", !.todo = r.snap,
                        !.owed = Assignments(r),
                        !.gone = r.before \ {t.email : t \in r.snap}])
     /\ UNCHANGED <<panel, left>>

\* GetUserByEmail and applyImportedClient for one client entry.
LookUp(s) ==
  LET r == run[s]
  IN /\ r.pc = "users"
     /\ \E t \in r.todo :
          LET rest == [r EXCEPT !.todo = @ \ {t}]
              new  == [uid |-> 0, email |-> t.email, cred |-> t.cred, pref |-> NoPref]
          IN \/ /\ ByEmail(db, t.email) = {}
                /\ Go(s, [rest EXCEPT !.pc = "create", !.hand = {new}])
             \/ \E u \in ByEmail(db, t.email) :
                  Go(s, IF u.cred = t.cred
                        THEN [rest EXCEPT !.seen = See(@, t.email, u.uid)]
                        ELSE [rest EXCEPT !.pc = "fill", !.hand = {[u EXCEPT !.cred = t.cred]}])
     /\ UNCHANGED <<panel, db, left>>

\* Mutant: the email column is not UNIQUE.
CreateTwice(s) ==
  LET r == run[s]
  IN /\ r.pc = "create"
     /\ \E h \in r.hand :
          /\ db' = [db EXCEPT !.users = @ \cup {[h EXCEPT !.uid = db.nextUid]}, !.nextUid = @ + 1]
          /\ Go(s, [r EXCEPT !.pc = "users", !.hand = {}, !.seen = See(@, h.email, db.nextUid)])
     /\ UNCHANGED <<panel, left>>

\* CreateUser: fails on the UNIQUE email when somebody was faster.
Create(s) ==
  LET r == run[s]
  IN /\ r.pc = "create"
     /\ \E h \in r.hand :
          \/ /\ ByEmail(db, h.email) = {}
             /\ db' = [db EXCEPT !.users = @ \cup {[h EXCEPT !.uid = db.nextUid]},
                                 !.nextUid = @ + 1]
             /\ Go(s, [r EXCEPT !.pc = "users", !.hand = {},
                                !.seen = See(@, h.email, db.nextUid)])
          \/ /\ ByEmail(db, h.email) # {}
             /\ Go(s, Abort(r))
             /\ UNCHANGED db
     /\ UNCHANGED <<panel, left>>

PolicyNow(d, uid) ==
  IF \E u \in d.users : u.uid = uid THEN (CHOOSE u \in d.users : u.uid = uid).pref ELSE NoPref

\* UpdateUser first reads the row again, for the policy columns that are empty.
Fill(s) ==
  LET r == run[s]
  IN /\ r.pc = "fill"
     /\ Go(s, [r EXCEPT !.pc = "store",
                        !.hand = {IF h.pref = NoPref
                                  THEN [h EXCEPT !.pref = PolicyNow(db, h.uid)] ELSE h : h \in @}])
     /\ UNCHANGED <<panel, db, left>>

\* Mutant: the policy columns are written as an imported client has them.
StoreBare(s) ==
  LET r == run[s]
  IN /\ r.pc = "store"
     /\ \E h \in r.hand :
          /\ db' = [db EXCEPT !.users = {IF u.uid = h.uid THEN [h EXCEPT !.pref = NoPref] ELSE u :
                                            u \in @}]
          /\ Go(s, [r EXCEPT !.pc = "users", !.hand = {}, !.seen = See(@, h.email, h.uid)])
     /\ UNCHANGED <<panel, left>>

\* UPDATE users ... WHERE id = ?: the whole row, policy columns included.
Store(s) ==
  LET r == run[s]
  IN /\ r.pc = "store"
     /\ \E h \in r.hand :
          /\ db' = [db EXCEPT !.users = {IF u.uid = h.uid THEN h ELSE u : u \in @}]
          /\ Go(s, [r EXCEPT !.pc = "users", !.hand = {}, !.seen = See(@, h.email, h.uid)])
     /\ UNCHANGED <<panel, left>>

\* Mutant: one assignment per user is made.
AssignOnce(s) ==
  LET r == run[s]
  IN /\ r.pc = "users" /\ r.todo = {}
     /\ \E o \in r.owed :
          /\ db' = [db EXCEPT !.grants = @ \cup {[uid |-> SeenId(r, o.email), email |-> o.email,
                                                 local |-> LocalOf(r.cached, o.id)]}]
          /\ Go(s, [r EXCEPT !.owed = {x \in @ : x.email # o.email}])
     /\ UNCHANGED <<panel, left>>

\* CreateAssignment: ON CONFLICT(user_id, server_id, inbound_id) DO NOTHING.
Assign(s) ==
  LET r == run[s]
  IN /\ r.pc = "users" /\ r.todo = {}
     /\ \E o \in r.owed :
          LET g == [uid |-> SeenId(r, o.email), local |-> LocalOf(r.cached, o.id),
                    email |-> o.email]
          IN /\ db' = IF \E x \in db.grants : x.uid = g.uid /\ x.local = g.local THEN db
                      ELSE [db EXCEPT !.grants = @ \cup {g}]
             /\ Go(s, [r EXCEPT !.owed = @ \ {o}])
     /\ UNCHANGED <<panel, left>>

\* A user that was there before and is not listed: GetUserByEmail ...
FindGone(s) ==
  LET r == run[s]
  IN /\ r.pc = "users" /\ r.todo = {} /\ r.owed = {}
     /\ \E e \in r.gone :
          Go(s, [r EXCEPT !.gone = @ \ {e}, !.hand = ByEmail(db, e),
                          !.pc = IF ByEmail(db, e) = {} THEN "users" ELSE "drop"])
     /\ UNCHANGED <<panel, db, left>>

\* Mutant: the user's row is left to a later clean-up.
DropAssignmentsOnly(s) ==
  LET r == run[s]
  IN /\ r.pc = "drop"
     /\ \E h \in r.hand : db' = [db EXCEPT !.grants = {g \in @ : g.uid # h.uid}]
     /\ Go(s, [r EXCEPT !.pc = "users", !.hand = {}])
     /\ UNCHANGED <<panel, left>>

\* ... and DeleteUser with the id it found.
DropGone(s) ==
  LET r == run[s]
  IN /\ r.pc = "drop"
     /\ \E h \in r.hand : db' = WithoutUser(db, h.uid)
     /\ Go(s, [r EXCEPT !.pc = "users", !.hand = {}])
     /\ UNCHANGED <<panel, left>>

\* The import returns; SyncToServers goes on.
FinishImport(s) ==
  LET r == run[s]
  IN /\ r.pc = "users" /\ r.todo = {} /\ r.owed = {} /\ r.gone = {}
     /\ Go(s, IF r.sync THEN [r EXCEPT !.pc = "read", !.imported = TRUE] ELSE Ended("done"))
     /\ UNCHANGED <<panel, db, left>>

\* SyncToServers: ListInboundsByServer ...
ReadRows(s) ==
  /\ run[s].pc = "read"
  /\ Go(s, [run[s] EXCEPT !.pc = "plan", !.cached = db.rows])
  /\ UNCHANGED <<panel, db, left>>

\* desiredInboundTagsByEmail and desiredInboundClientsByTag: the clients each cached
\* inbound lists and an assignment gives it.
DesiredClients(rows, grants) ==
  {t \in Todo :
     \E q \in rows :
       /\ q.id = t.id
       /\ [email |-> t.email, cred |-> t.cred] \in q.clients
       /\ \E g \in grants : g.email = t.email /\ g.local = q.local}

\* ... and ListAssignmentsByServer, from which the plan for the targets is made.
ReadGrants(s) ==
  /\ run[s].pc = "plan"
  /\ Go(s, Ended(IF run[s].imported THEN "done" ELSE "failed"))
  /\ UNCHANGED <<panel, db, left>>

\* A statement whose error the import or the synchronisation passes on.
StatementFails(s) ==
  LET r == run[s]
  IN /\ \/ r.pc \in {"cache", "rows", "clear", "create", "store"} /\ Go(s, Abort(r))
        \/ r.pc \in {"read", "plan"} /\ Go(s, Ended("failed"))
     /\ Slip
     /\ UNCHANGED <<panel, db>>

\* The errors nobody looks at.  A user that cannot be read is taken for one that does
\* not exist, and then cannot be created; ...
LookUpFails(s) ==
  LET r == run[s]
  IN /\ r.pc = "users"
     /\ \E t \in r.todo :
          Go(s, [r EXCEPT !.todo = @ \ {t}, !.pc = "create",
                          !.hand = {[uid |-> 0, email |-> t.email, cred |-> t.cred,
                                     pref |-> NoPref]}])
     /\ Slip
     /\ UNCHANGED <<panel, db>>

\* ... UpdateUser writes the policy it has in hand; ...
FillFails(s) ==
  /\ run[s].pc = "fill"
  /\ Go(s, [run[s] EXCEPT !.pc = "store"])
  /\ Slip
  /\ UNCHANGED <<panel, db>>

\* ... CreateAssignment leaves the user without the inbound; ...
AssignFails(s) ==
  LET r == run[s]
  IN /\ r.pc = "users" /\ r.todo = {}
     /\ \E o \in r.owed : Go(s, [r EXCEPT !.owed = @ \ {o}, !.whole = FALSE])
     /\ Slip
     /\ UNCHANGED <<panel, db>>

\* ... a user that is not listed is skipped if it cannot be read, ...
FindGoneFails(s) ==
  LET r == run[s]
  IN /\ r.pc = "users" /\ r.todo = {} /\ r.owed = {}
     /\ \E e \in r.gone : Go(s, [r EXCEPT !.gone = @ \ {e}])
     /\ Slip
     /\ UNCHANGED <<panel, db>>

\* ... and stays if DeleteUser fails, while the result counts it as removed.
DropGoneFails(s) ==
  /\ run[s].pc = "drop"
  /\ Go(s, [run[s] EXCEPT !.pc = "users", !.hand = {}])
  /\ Slip
  /\ UNCHANGED <<panel, db>>

Fails(s) ==
  \/ StatementFails(s) \/ LookUpFails(s) \/ FillFails(s)
  \/ AssignFails(s) \/ FindGoneFails(s) \/ DropGoneFails(s)

\* The main panel's administrator changes it.
PanelChanges ==
  /\ left.changes > 0
  /\ panel' \in PanelChoices \ {panel}
  /\ left' = [left EXCEPT !.changes = @ - 1]
  /\ UNCHANGED <<db, run>>

\* POST /api/db/users/delete/{id}
DeleteUser ==
  /\ left.edits > 0
  /\ \E u \in db.users : db' = WithoutUser(db, u.uid)
  /\ left' = [left EXCEPT !.edits = @ - 1]
  /\ run' = [s \in Requests |-> IF Active(run[s]) THEN [run[s] EXCEPT !.alone = FALSE]
                                ELSE run[s]]
  /\ UNCHANGED panel

\* SaveAppConfigToDB writes the policy columns of the users.
SavePolicy ==
  /\ left.edits > 0
  /\ \E u \in db.users, p \in Prefs :
       db' = [db EXCEPT !.users = {IF v = u THEN [v EXCEPT !.pref = p] ELSE v : v \in @}]
  /\ left' = [left EXCEPT !.edits = @ - 1]
  /\ run' = [s \in Requests |-> IF Active(run[s]) THEN [run[s] EXCEPT !.calm = FALSE]
                                ELSE run[s]]
  /\ UNCHANGED panel

\* The program restarts: the database stays as it is, the requests are gone.
Restart ==
  /\ left.crashes > 0
  /\ \E s \in Requests : Active(run[s])
  /\ run' = [s \in Requests |-> Idle]
  /\ left' = [left EXCEPT !.crashes = @ - 1]
  /\ UNCHANGED <<panel, db>>

Import(s) ==
  \/ Fetch(s) \/ Cache(s) \/ ReadBack(s) \/ ClearAssignments(s)
  \/ LookUp(s) \/ Create(s) \/ Fill(s) \/ Store(s)
  \/ Assign(s) \/ FindGone(s) \/ DropGone(s) \/ FinishImport(s)
Step(s) == Import(s) \/ ReadRows(s) \/ ReadGrants(s)

Next ==
  \/ \E s \in Requests : Begin(s) \/ BeginBlind(s) \/ Step(s) \/ Fails(s)
  \/ PanelChanges \/ DeleteUser \/ SavePolicy \/ Restart

Spec == Init /\ [][Next]_vars

\* Every statement and every call returns; an administrator repeats the import.
Fairness == \A s \in Requests : WF_vars(Step(s)) /\ WF_vars(Begin(s))
FairSpec == Spec /\ Fairness

(***************************************************************************)
(* Properties.                                                             *)
(***************************************************************************)
RunState ==
  [pc: {"idle", "fetch", "cache", "rows", "clear", "users", "create", "fill", "store",
        "drop", "read", "plan", "done", "failed"},
   sync: BOOLEAN, before: SUBSET Emails, snap: SUBSET Todo, ids: SUBSET Ids,
   cached: SUBSET Row, todo: SUBSET Todo, hand: SUBSET User,
   seen: SUBSET [email: Emails, uid: Nat], owed: SUBSET Owed, gone: SUBSET Emails,
   imported: BOOLEAN, alone: BOOLEAN, calm: BOOLEAN, whole: BOOLEAN]

Left == [faults: Nat, slips: Nat, crashes: Nat, changes: Nat, edits: Nat]

\* The type invariant of the module; emails and panel ids stay unique in the database.
TypeOK ==
  /\ panel \in PanelChoices
  /\ db \in Db /\ Consistent(db)
  /\ run \in [Requests -> RunState]
  /\ left \in Left

\* The users are the panel's, each with a credential one of its entries has.
UsersMirror(d, snap) ==
  /\ {u.email : u \in d.users} = {t.email : t \in snap}
  /\ \A u \in d.users : \E t \in snap : t.email = u.email /\ t.cred = u.cred

\* The assignments are the panel's attachments, with ids that exist.
GrantsMirror(d, snap) ==
  /\ \A g \in d.grants : \E u \in d.users, q \in d.rows, t \in snap :
       /\ g.uid = u.uid /\ g.local = q.local /\ g.email = u.email
       /\ t.id = q.id /\ t.email = u.email
  /\ \A t \in snap : \E g \in d.grants, q \in d.rows :
       g.email = t.email /\ g.local = q.local /\ q.id = t.id

Mirrored == UsersMirror(db, SnapOf(panel)) /\ GrantsMirror(db, SnapOf(panel))

\* While the panel stays as it is, nobody deletes users and no statement fails,
\* overlapping imports do each other no lasting harm, whatever listings could not be
\* had: when none is running any more and one succeeded, users and assignments are the
\* panel's, with no assignment of a user or inbound that is gone.  (One failed statement
\* is enough to break it: see PlanIsTheListing and ImportsConverge.)
QuietImportsMirror ==
  /\ left.changes = MaxChanges /\ left.edits = MaxEdits /\ left.slips = MaxSlips
  /\ \A s \in Requests : ~Active(run[s])
  /\ \E s \in Requests : run[s].pc = "done"
  => Mirrored

\* "keeping existing local inbound row IDs stable for user_assignments": as long as
\* the table has an inbound of the panel, its row keeps its local id.
RowIdsStable ==
  [][\A q \in db.rows, x \in db'.rows : q.id = x.id => q.local = x.local]_vars

\* An import removes a user only if the listing it works on has no entry for it.
ImportRemovesOnlyAbsent ==
  [][\A s \in Requests : run[s].pc = "drop" /\ run'[s].pc = "users" =>
       \A u \in db.users : (\A v \in db'.users : v.uid # u.uid) =>
         \A t \in run[s].snap : t.email # u.email]_vars

\* A synchronisation that reports success and that nothing overlapped plans for the
\* targets no client its listing of the main panel did not have, whatever statements of
\* its import failed unseen; and all of them, if the assignments could be written.
PlanIsTheListing ==
  [][\A s \in Requests :
       run[s].pc = "plan" /\ run'[s].pc = "done" /\ run[s].alone =>
         LET plan == DesiredClients(run[s].cached, db.grants)
         IN plan \subseteq run[s].snap /\ (run[s].whole => run[s].snap \subseteq plan)]_vars

\* An import that neither a policy save nor another request overlaps leaves the users'
\* policies alone, although it writes whole rows.
PoliciesKept ==
  [][\A s \in Requests :
       Active(run[s]) /\ run[s].calm /\ run[s].alone /\ run'[s] # run[s] /\ left' = left =>
       \A u \in db.users, v \in db'.users : u.uid = v.uid => u.pref = v.pref]_vars

\* A user that exists locally and that a cached main inbound lists is never planned
\* away from the targets: what clients/del is used for (docs/3x-ui-api-usage.md).
PlanKeepsLocalUsers ==
  [][\A s \in Requests :
       run[s].pc = "plan" /\ ~Active(run'[s]) /\ left'.crashes = left.crashes =>
         \A q \in run[s].cached, c \in Client :
           c \in q.clients /\ ByEmail(db, c.email) # {} =>
             \E t \in DesiredClients(run[s].cached, db.grants) :
               t.id = q.id /\ t.email = c.email]_vars

\* Repeated imports converge: the users become and stay the panel's, and the
\* assignments are again and again complete, whatever failed before, was cut short, or
\* was reported as done although a statement had failed.
ImportsConverge ==
  <>[]UsersMirror(db, SnapOf(panel)) /\ []<>GrantsMirror(db, SnapOf(panel))
=============================================================================
