------------------------------- MODULE Admin -------------------------------
(***************************************************************************)
(* One installation: the administrator's sessions and password, backups    *)
(* that are uploaded and restored at the next start, and the start itself  *)
(* with its migrations (backend/internal/auth/session.go, web/auth.go,     *)
(* web/backup.go, config/restore.go, config/runtime.go, db/db.go,          *)
(* cmd/subforme/main.go).                                                  *)
(*                                                                         *)
(* Every lock, file operation and statement is a step, and the program may *)
(* stop between any two. A file is truncated first and then written. The   *)
(* 32 random bytes of a token never repeat. restartSelf starts its         *)
(* successor and exits in one step, any time after it was called.          *)
(***************************************************************************)
EXTENDS Naturals

CONSTANTS
  Requests,  \* concurrent logins and password changes
  Uploads,   \* concurrent POST /api/backup/restore, each made once
  Tokens,    \* bound: sessions at a time
  Passwords,
  Default,   \* the password of the bundled configuration
  Datas,     \* what a database holds
  Disks,     \* the configuration and database an earlier build left
  Archives,  \* zip files to upload
  Last,      \* schemaVersion
  Kind,      \* how each migration runs
  Early,     \* parts the first migration's tables have from the start
  Partial,   \* a zip file that is half written, or two written into one
  None, Missing, Torn, Spoilt,
  Setups,    \* the environments there are
  Bounds     \* bounds: crashes and other troubles; logins, password changes
             \* and uploads; database writes

Versions == 1..Last
Entries  == {"conf", "db"}
Db       == [data: Datas \cup {Torn, Spoilt}, version: 0..Last, parts: SUBSET Versions]
NoDb     == [data |-> Torn, version |-> 0, parts |-> {}]
Zips     == Archives \cup {None, Partial}

\* In a transaction; ALTER TABLE with its errors ignored, then the version;
\* CREATE TABLE IF NOT EXISTS, then the version.
ASSUME KindAssumption ==
  /\ Last \in Nat \ {0} /\ Kind \in [Versions -> {"strict", "column", "table"}]
  /\ Early \subseteq Versions /\ \A k \in Early : Kind[k] # "strict"
ASSUME SpecialAssumption ==
  /\ Default \in Passwords /\ Passwords \cap {Missing, Torn, None} = {}
  /\ Missing # Torn /\ Datas \cap {Torn, Spoilt} = {} /\ Torn # Spoilt
  /\ None \notin Archives /\ Partial \notin Archives /\ None # Partial
  /\ Bounds \in [troubles: Nat, asks: Nat, writes: Nat]
\* SUBFORME_ADMIN_PASSWORD, and whether SUBFORME_CONFIG_DIR names another
\* directory than the one with the configuration.
ASSUME SetupsAssumption == Setups \subseteq [env: Passwords \cup {None}, apart: BOOLEAN]
ASSUME DisksAssumption ==
  \A d \in Disks :
    /\ d \in [conf: Passwords \cup {Missing}, db: Db]
    /\ d.db.data \in Datas /\ 1..d.db.version \subseteq d.db.parts
\* What comes out of an archive, a torn file for an entry that is damaged or
\* was torn when it was exported; broken: reading one ends in an error; safe:
\* no entry's name is refused.
ASSUME ArchivesAssumption ==
  \A a \in Archives :
    /\ DOMAIN a.entries \in SUBSET Entries /\ a.safe \in BOOLEAN
    /\ a.broken \in SUBSET DOMAIN a.entries
    /\ "conf" \in DOMAIN a.entries => a.entries["conf"] \in Passwords \cup {Torn}
    /\ "db" \in DOMAIN a.entries => a.entries["db"] \in {d.db : d \in Disks} \cup {NoDb}
    /\ \A e \in a.broken : a.entries[e] \in {Torn, NoDb}

VARIABLES
  setup,    \* the environment
  disk,     \* config.json's password and subforme.db
  journal,  \* the database's journal file: none, its own, or another database's
  tmp,      \* pending_restore.zip.tmp
  pend,     \* pending_restore.zip
  proc,     \* the start's step, or serving; the entries left to extract
  mem,      \* AuthService.Password
  sess,     \* Sessions.tokens: history: the password each was opened with
  req,      \* req[r]: a login or a password change
  upl,      \* upl[u]: an upload
  restart,  \* restartSelf was called
  begun,    \* history: the pending archive's extraction has begun
  odd,      \* history: troubles that excuse some properties
  left      \* what is left of the bounds

auth == <<mem, sess, req>>
zips == <<tmp, pend, upl, restart, begun>>
vars == <<setup, disk, journal, tmp, pend, proc, mem, sess, req, upl, restart, begun, odd, left>>

Up == proc.at = "up"
Phases == {"off", "stat", "defaults", "apply", "extract", "load", "open",
           "migrate", "record", "up"}
At(phase) == [at |-> phase, todo |-> {}]

Holding == {"checked", "held", "torn", "saved", "updated", "revoked"}
\* step; the request's token, and the password that one was opened with;
\* the password the request brings.
Idle    == [at |-> "idle"]
Asking  == [at: Holding \cup {"waiting"}, token: Tokens \cup {None}, by: Passwords, new: Passwords]
\* step; the file it sends; the name that the file it has open goes by now.
Unsent  == [at |-> "unsent"]
Sent    == [at |-> "sent"]
Sending == [at: {"created", "copied", "checked"}, file: Archives, name: {"tmp", "pend", "gone"}]

\* authMu is held by whoever is past its check.
Unlocked == \A r \in Requests : req[r].at \notin Holding

NoSessions == [t \in {} |-> None]

TypeOK ==
  /\ setup \in Setups
  /\ disk \in [conf: Passwords \cup {Missing, Torn}, db: Db]
  /\ journal \in {"none", "own", "foreign"}
  /\ tmp \in Zips /\ pend \in Zips
  /\ proc \in [at: Phases, todo: SUBSET Entries]
  /\ mem \in Passwords \cup {None}
  /\ \E T \in SUBSET Tokens : sess \in [T -> Passwords]
  /\ req \in [Requests -> Asking \cup {Idle}]
  /\ upl \in [Uploads -> Sending \cup {Unsent, Sent}]
  /\ restart \in BOOLEAN /\ begun \in BOOLEAN
  /\ odd \in SUBSET {"halfsaved", "crossed", "altered"}
  /\ left \in [troubles: Nat, asks: Nat, writes: Nat]

\* No process runs yet: a fresh directory, or one an earlier build served.
Init ==
  /\ setup \in Setups
  /\ disk \in Disks
  /\ journal = "none"
  /\ tmp = None /\ pend = None
  /\ proc = At("off")
  /\ mem = None /\ sess = NoSessions
  /\ req = [r \in Requests |-> Idle] /\ upl = [u \in Uploads |-> Unsent]
  /\ restart = FALSE /\ begun = FALSE
  /\ odd = {}
  /\ left = Bounds

---------------------------------------------------------------------------
(* The process ends: sessions, requests and open files are lost. *)

Ends ==
  /\ mem' = None /\ sess' = NoSessions
  /\ req' = [r \in Requests |-> Idle]
  /\ upl' = [u \in Uploads |-> IF upl[u] = Unsent THEN Unsent ELSE Sent]
  /\ restart' = FALSE

\* A crash, or an error of the machine, which log.Fatal turns into one.
Crash ==
  /\ proc.at # "off" /\ left.troubles > 0
  /\ left' = [left EXCEPT !.troubles = @ - 1]
  /\ proc' = At("off") /\ Ends
  /\ UNCHANGED <<setup, disk, journal, tmp, pend, begun, odd>>

RestartSelf ==
  /\ Up /\ restart
  /\ proc' = At("stat") /\ Ends
  /\ UNCHANGED <<setup, disk, journal, tmp, pend, begun, odd, left>>

\* A start goes on at phase; a failed one ends the process.
Goes(phase) == proc' = At(phase) /\ UNCHANGED <<sess, req, upl, restart>>
Fatal == /\ proc' = At("off") /\ mem' = None
         /\ UNCHANGED <<sess, req, upl, restart>>

---------------------------------------------------------------------------
(* The start: main. *)

\* The container's restart policy.
Start ==
  /\ proc.at = "off" /\ Goes("stat")
  /\ UNCHANGED <<setup, disk, journal, tmp, pend, mem, begun, odd, left>>

\* The restore comes before the configuration is read, which says where the
\* other directory is, if there is one.
First == IF setup.apart THEN "load" ELSE "apply"

\* ensureDefaultConfig, if there is no configuration yet.
Stat ==
  /\ proc.at = "stat"
  /\ IF disk.conf = Missing
     THEN disk' = [disk EXCEPT !.conf = Torn] /\ Goes("defaults")
     ELSE UNCHANGED disk /\ Goes(First)
  /\ UNCHANGED <<setup, journal, tmp, pend, mem, begun, odd, left>>

EnsureDefaultConfig ==
  /\ proc.at = "defaults"
  /\ disk' = [disk EXCEPT !.conf = Default]
  /\ Goes(First)
  /\ UNCHANGED <<setup, journal, tmp, pend, mem, begun, odd, left>>

\* ApplyPendingRestore opens the archive, if there is one.
Apply ==
  /\ proc.at = "apply"
  /\ IF pend = None
     THEN Goes(IF setup.apart THEN "open" ELSE "load") /\ UNCHANGED <<mem, begun>>
     ELSE IF pend = Partial THEN Fatal /\ UNCHANGED begun
     ELSE /\ begun' = TRUE
          /\ proc' = [at |-> "extract", todo |-> DOMAIN pend.entries]
          /\ UNCHANGED <<mem, sess, req, upl, restart>>
  /\ UNCHANGED <<setup, disk, journal, tmp, pend, odd, left>>

\* A configuration in the other directory is not the one that is in use.
InUse(e) == e = "db" \/ ~setup.apart
Empty(e) == IF e = "conf" THEN Torn ELSE NoDb

\* extractRestoreZip opens the entry's file, which empties it ...
Truncate(e) ==
  /\ proc.at = "extract" /\ e \in proc.todo
  /\ InUse(e) /\ disk[e] # Empty(e)
  /\ disk' = [disk EXCEPT ![e] = Empty(e)]
  /\ journal' = IF e = "db" /\ journal = "own" THEN "foreign" ELSE journal
  /\ UNCHANGED <<setup, proc, auth, zips, odd, left>>

\* ... and writes it; a damaged entry leaves part of it and ends the start.
Fill(e) ==
  /\ proc.at = "extract" /\ e \in proc.todo
  /\ InUse(e) => disk[e] = Empty(e)
  /\ IF e \in pend.broken THEN Fatal /\ UNCHANGED disk
     ELSE /\ disk' = IF InUse(e) THEN [disk EXCEPT ![e] = pend.entries[e]] ELSE disk
          /\ proc' = [proc EXCEPT !.todo = @ \ {e}]
          /\ UNCHANGED <<mem, sess, req, upl, restart>>
  /\ UNCHANGED <<setup, journal, tmp, pend, begun, odd, left>>

\* safeRestorePath, at whichever entry it comes to first.
Refuse ==
  /\ proc.at = "extract" /\ ~pend.safe
  /\ Fatal
  /\ UNCHANGED <<setup, disk, journal, tmp, pend, begun, odd, left>>

\* Mutant: an entry that cannot be written is passed over.
RemoveRegardless ==
  /\ proc.at = "extract" /\ pend.safe
  /\ pend' = None /\ begun' = FALSE
  /\ Goes("load")
  /\ UNCHANGED <<setup, disk, journal, tmp, mem, odd, left>>

\* The archive goes when all of it is there.
Remove ==
  /\ proc.at = "extract" /\ proc.todo = {} /\ pend.safe
  /\ pend' = None /\ begun' = FALSE
  /\ Goes("load")
  /\ UNCHANGED <<setup, disk, journal, tmp, mem, odd, left>>

\* LoadRuntimeConfig: the environment goes before the file.
LoadRuntimeConfig ==
  /\ proc.at = "load"
  /\ IF disk.conf = Torn THEN Fatal
     ELSE /\ mem' = IF setup.env # None THEN setup.env ELSE disk.conf
          /\ Goes(IF setup.apart THEN "apply" ELSE "open")
  /\ UNCHANGED <<setup, disk, journal, tmp, pend, begun, odd, left>>

\* Open: the journal is played back, whichever database it came from.
Open ==
  /\ proc.at = "open"
  /\ journal' = "none"
  /\ disk' = IF journal = "foreign" THEN [disk EXCEPT !.db.data = Spoilt] ELSE disk
  /\ \/ disk'.db.data # Torn /\ Goes("migrate") /\ UNCHANGED mem
     \/ disk'.db.data \in {Torn, Spoilt} /\ Fatal
  /\ UNCHANGED <<setup, tmp, pend, begun, odd, left>>

\* Mutant: the next version's part as well.
AddsNext(k) == {k, k + 1}

\* The parts a migration in a transaction makes.
Adds(k) == IF k = 1 THEN {1} \cup Early ELSE {k}
Migrating(k) == proc.at = "migrate" /\ k = disk.db.version + 1 /\ k <= Last

\* Mutant: the column and its version in two statements.
MigrateInTwoSteps(k) ==
  /\ Migrating(k) /\ Kind[k] = "strict"
  /\ IF k \in disk.db.parts THEN Fatal /\ UNCHANGED disk
     ELSE disk' = [disk EXCEPT !.db.parts = @ \cup Adds(k)] /\ Goes("record") /\ UNCHANGED mem
  /\ UNCHANGED <<setup, journal, tmp, pend, begun, odd, left>>

\* migrateV1 and migrateV12: one transaction. A column that is there already
\* is an error.
MigrateStrict(k) ==
  /\ Migrating(k) /\ Kind[k] = "strict"
  /\ IF k \in disk.db.parts THEN Fatal /\ UNCHANGED disk
     ELSE /\ disk' = [disk EXCEPT !.db.parts = @ \cup Adds(k), !.db.version = k]
          /\ Goes("migrate") /\ UNCHANGED mem
  /\ UNCHANGED <<setup, journal, tmp, pend, begun, odd, left>>

\* Mutant: CREATE TABLE's errors are ignored as ALTER's are.
MigrateCarelessly(k) ==
  /\ Migrating(k) /\ Kind[k] # "strict"
  /\ disk' \in {disk, [disk EXCEPT !.db.parts = @ \cup {k}]}
  /\ Goes("record")
  /\ UNCHANGED <<setup, journal, tmp, pend, mem, begun, odd, left>>

\* The first statements of the others.
MigrateLoose(k) ==
  /\ Migrating(k) /\ Kind[k] # "strict"
  /\ disk' = [disk EXCEPT !.db.parts = @ \cup {k}]
  /\ Goes("record")
  /\ UNCHANGED <<setup, journal, tmp, pend, mem, begun, odd, left>>

\* An ALTER that fails for whatever reason is taken for one that was not needed.
AlterFails(k) ==
  /\ Migrating(k) /\ Kind[k] = "column" /\ k \notin disk.db.parts /\ left.troubles > 0
  /\ left' = [left EXCEPT !.troubles = @ - 1] /\ odd' = odd \cup {"altered"}
  /\ Goes("record")
  /\ UNCHANGED <<setup, disk, journal, tmp, pend, mem, begun>>

RecordVersion ==
  /\ proc.at = "record"
  /\ disk' = [disk EXCEPT !.db.version = @ + 1]
  /\ Goes("migrate")
  /\ UNCHANGED <<setup, journal, tmp, pend, mem, begun, odd, left>>

ListenAndServe ==
  /\ proc.at = "migrate" /\ disk.db.version = Last
  /\ Goes("up")
  /\ UNCHANGED <<setup, disk, journal, tmp, pend, mem, begun, odd, left>>

---------------------------------------------------------------------------
(* Sessions and the password. *)

Asks == left.asks > 0 /\ left' = [left EXCEPT !.asks = @ - 1]

Step(r, phase) == req' = [req EXCEPT ![r].at = phase]
Back(r) == req' = [req EXCEPT ![r] = Idle]

\* Mutant: the password is checked before the lock is taken.
LoginUnlocked(r) ==
  /\ Up /\ req[r] = Idle /\ Asks
  /\ req' = [req EXCEPT ![r] = [at |-> "checked", token |-> None, by |-> mem, new |-> mem]]
  /\ UNCHANGED <<setup, disk, journal, proc, mem, sess, zips, odd>>

\* A login with another password than the present one changes nothing.
Login(r) ==
  /\ Up /\ req[r] = Idle /\ Unlocked /\ Asks
  /\ req' = [req EXCEPT ![r] = [at |-> "checked", token |-> None, by |-> mem, new |-> mem]]
  /\ UNCHANGED <<setup, disk, journal, proc, mem, sess, zips, odd>>

\* Sessions.Set, after a login or a change.
Set(r) ==
  /\ req[r].at \in {"checked", "revoked"}
  /\ \E t \in Tokens \ (DOMAIN sess \cup {req[q].token : q \in {q \in Requests : req[q] # Idle}}) :
       sess' = [s \in DOMAIN sess \cup {t} |-> IF s = t THEN req[r].new ELSE sess[s]]
  /\ Back(r)
  /\ UNCHANGED <<setup, disk, journal, proc, mem, zips, odd, left>>

\* No random bytes; after a change the administrator signs in again.
SetFails(r) ==
  /\ req[r].at \in {"checked", "revoked"}
  /\ Back(r)
  /\ UNCHANGED <<setup, disk, journal, proc, mem, sess, zips, odd, left>>

\* Clear, at a logout, which does not take the lock; or a token expires.
Leave(t) ==
  /\ Up /\ t \in DOMAIN sess
  /\ sess' = [s \in DOMAIN sess \ {t} |-> sess[s]]
  /\ UNCHANGED <<setup, disk, journal, proc, mem, req, zips, odd, left>>

\* PUT /api/auth/password: requireSession, then it waits for the lock.
ChangePassword(r, t, p) ==
  /\ Up /\ req[r] = Idle /\ t \in DOMAIN sess /\ Asks
  /\ req' = [req EXCEPT ![r] = [at |-> "waiting", token |-> t, by |-> sess[t], new |-> p]]
  /\ UNCHANGED <<setup, disk, journal, proc, mem, sess, zips, odd>>

\* Mutant: no second look at the session.
GoAheadAtOnce(r) ==
  /\ req[r].at = "waiting" /\ Unlocked
  /\ Step(r, "held")
  /\ UNCHANGED <<setup, disk, journal, proc, mem, sess, zips, odd, left>>

\* The session is looked up again under the lock.
Recheck(r) ==
  /\ req[r].at = "waiting" /\ Unlocked
  /\ IF req[r].token \in DOMAIN sess THEN Step(r, "held") ELSE Back(r)
  /\ UNCHANGED <<setup, disk, journal, proc, mem, sess, zips, odd, left>>

\* SaveRuntimePassword reads the file, which must be whole, and rewrites it.
SaveRuntimePassword(r) ==
  /\ req[r].at = "held"
  /\ IF disk.conf = Torn THEN Back(r) /\ UNCHANGED disk
     ELSE disk' = [disk EXCEPT !.conf = Torn] /\ Step(r, "torn")
  /\ UNCHANGED <<setup, journal, proc, mem, sess, zips, odd, left>>

WriteFile(r) ==
  /\ req[r].at = "torn"
  /\ disk' = [disk EXCEPT !.conf = req[r].new]
  /\ Step(r, "saved")
  /\ UNCHANGED <<setup, journal, proc, mem, sess, zips, odd, left>>

\* Mutant: the password changes in memory although it could not be saved.
HalfSavedGoesOn(r) ==
  /\ req[r].at = "held" /\ left.troubles > 0
  /\ left' = [left EXCEPT !.troubles = @ - 1]
  /\ Step(r, "saved")
  /\ UNCHANGED <<setup, disk, journal, proc, mem, sess, zips, odd>>

\* The file cannot be read: nothing has happened.
ReadFails(r) ==
  /\ req[r].at = "held" /\ left.troubles > 0
  /\ left' = [left EXCEPT !.troubles = @ - 1]
  /\ Back(r)
  /\ UNCHANGED <<setup, disk, journal, proc, mem, sess, zips, odd>>

\* The disk is full: what is there of the file stays.
WriteFails(r) ==
  /\ req[r].at = "torn" /\ left.troubles > 0
  /\ left' = [left EXCEPT !.troubles = @ - 1] /\ odd' = odd \cup {"halfsaved"}
  /\ Back(r)
  /\ UNCHANGED <<setup, disk, journal, proc, mem, sess, zips>>

UpdatePassword(r) ==
  /\ req[r].at = "saved"
  /\ mem' = req[r].new
  /\ Step(r, "updated")
  /\ UNCHANGED <<setup, disk, journal, proc, sess, zips, odd, left>>

RevokeAll(r) ==
  /\ req[r].at = "updated"
  /\ sess' = NoSessions
  /\ Step(r, "revoked")
  /\ UNCHANGED <<setup, disk, journal, proc, mem, zips, odd, left>>

---------------------------------------------------------------------------
(* Uploads: two at a time share the temporary file. *)

\* os.Create; an upload that has the file open writes on in the same one.
CreateTmp(u, a) ==
  /\ Up /\ upl[u] = Unsent /\ sess # NoSessions /\ Asks
  /\ tmp' = Partial
  /\ upl' = [upl EXCEPT ![u] = [at |-> "created", file |-> a, name |-> "tmp"]]
  /\ odd' = IF \A v \in Uploads : upl[v] \in {Unsent, Sent} THEN odd ELSE odd \cup {"crossed"}
  /\ UNCHANGED <<setup, disk, journal, proc, auth, pend, restart, begun>>

\* What is in a file after a has been written into it from its beginning.
Written(old, a) == IF old = Partial THEN {a} ELSE {a, Partial}

Copy(u) ==
  /\ upl[u].at = "created"
  /\ tmp'  \in IF upl[u].name = "tmp" THEN Written(tmp, upl[u].file) ELSE {tmp}
  /\ pend' \in IF upl[u].name = "pend" THEN Written(pend, upl[u].file) ELSE {pend}
  /\ upl' = [upl EXCEPT ![u].at = "copied"]
  /\ UNCHANGED <<setup, disk, journal, proc, auth, restart, begun, odd, left>>

\* Names move with a rename or a removal; files that are open stay open.
Renamed(from, to) ==
  [v \in Uploads |-> IF upl[v] \notin {Unsent, Sent} /\ upl[v].name = from
                     THEN [upl[v] EXCEPT !.name = to] ELSE upl[v]]

\* os.Remove of the temporary name, whichever file that is by now.
GivesUp(u) ==
  /\ tmp' = None
  /\ upl' = [Renamed("tmp", "gone") EXCEPT ![u] = Sent]

\* The disk is full.
CopyFails(u) ==
  /\ upl[u].at = "created" /\ left.troubles > 0
  /\ left' = [left EXCEPT !.troubles = @ - 1]
  /\ GivesUp(u)
  /\ UNCHANGED <<setup, disk, journal, proc, auth, pend, restart, begun, odd>>

\* Mutant: nothing looks into the file before it becomes the pending one.
AnyZip(zip) == TRUE

\* validateBackupZip opens the file by its name and looks at the names in it.
Valid(zip) == zip \in Archives /\ zip.safe

Validate(u) ==
  /\ upl[u].at = "copied"
  /\ IF Valid(tmp) THEN upl' = [upl EXCEPT ![u].at = "checked"] /\ UNCHANGED tmp
     ELSE GivesUp(u)
  /\ UNCHANGED <<setup, disk, journal, proc, auth, pend, restart, begun, odd, left>>

Rename(u) ==
  /\ upl[u].at = "checked"
  /\ IF tmp = None THEN GivesUp(u) /\ UNCHANGED <<pend, restart>>
     ELSE /\ pend' = tmp /\ tmp' = None
          /\ upl' = [v \in Uploads |->
                       IF v = u THEN Sent
                       ELSE IF upl[v] \in {Unsent, Sent} THEN upl[v]
                       ELSE [upl[v] EXCEPT !.name = IF @ = "tmp" THEN "pend" ELSE "gone"]]
          /\ restart' = TRUE
  /\ UNCHANGED <<setup, disk, journal, proc, auth, begun, odd, left>>

---------------------------------------------------------------------------
(* The program's other writes: SQLite keeps a journal while one is under way. *)

BeginWrite ==
  /\ Up /\ journal = "none"
  /\ left.writes > 0 /\ left' = [left EXCEPT !.writes = @ - 1]
  /\ journal' = "own"
  /\ UNCHANGED <<setup, disk, proc, auth, zips, odd>>

CommitWrite ==
  /\ Up /\ journal = "own"
  /\ journal' = "none"
  /\ \E d \in Datas : disk' = [disk EXCEPT !.db.data = d]
  /\ UNCHANGED <<setup, proc, auth, zips, odd, left>>

Starting ==
  \/ Start \/ Stat \/ EnsureDefaultConfig
  \/ Apply \/ (\E e \in Entries : Truncate(e) \/ Fill(e)) \/ Refuse \/ Remove
  \/ LoadRuntimeConfig \/ Open
  \/ (\E k \in Versions : MigrateStrict(k) \/ MigrateLoose(k))
  \/ RecordVersion \/ ListenAndServe

Authenticating(r) ==
  \/ Login(r) \/ Set(r) \/ SetFails(r)
  \/ (\E t \in Tokens, p \in Passwords : ChangePassword(r, t, p))
  \/ Recheck(r) \/ SaveRuntimePassword(r) \/ ReadFails(r)
  \/ WriteFile(r) \/ WriteFails(r) \/ UpdatePassword(r) \/ RevokeAll(r)

Uploading(u) ==
  \/ (\E a \in Archives : CreateTmp(u, a))
  \/ Copy(u) \/ CopyFails(u) \/ Validate(u) \/ Rename(u)

Next ==
  \/ Starting
  \/ \E k \in Versions : AlterFails(k)
  \/ \E r \in Requests : Authenticating(r)
  \/ \E t \in Tokens : Leave(t)
  \/ \E u \in Uploads : Uploading(u)
  \/ BeginWrite \/ CommitWrite
  \/ RestartSelf \/ Crash

Spec == Init /\ [][Next]_vars

\* A process that was begun goes on, one that ended is started again by the
\* container's restart policy, and restartSelf waits 0.8 seconds.
FairSpec == Spec /\ WF_vars(Starting) /\ WF_vars(RestartSelf)

---------------------------------------------------------------------------
(* Properties. *)

(* auth_test.go: a password change revokes the old sessions. Whenever     *)
(* nobody holds authMu, every session was opened with the present         *)
(* password: a login that was under way during the change, or one that    *)
(* waited, does not slip in behind the revocation.                        *)
OldPasswordSessionsGone ==
  Up /\ Unlocked => \A t \in DOMAIN sess : sess[t] = mem

(* "Recheck after waiting: another password change may have revoked this  *)
(* token": only a request whose session was opened with the password in   *)
(* force changes it.                                                      *)
ChangedBySession ==
  [][ Up /\ proc'.at = "up" /\ mem' # mem
      => \E r \in Requests : req[r].at = "saved" /\ req[r].by = mem /\ req[r].new = mem' ]_vars

(* What an administrator signs in with is what the next start reads: with *)
(* no password in the environment, memory and file agree whenever no      *)
(* change is under way, unless the file could only be written in part.    *)
PasswordDurable ==
  Up /\ Unlocked /\ setup.env = None =>
    disk.conf = mem \/ (disk.conf = Torn /\ "halfsaved" \in odd)

(* The pending archive is one whole upload whose names were found safe,   *)
(* whatever was uploaded and cut off before, unless uploads overlapped.   *)
PendingWhole == pend # None => (pend \in Archives /\ pend.safe) \/ "crossed" \in odd

(* The program never serves with tables that lack what it was built for,  *)
(* from whichever build the database or backup came, and wherever a       *)
(* migration was cut off, unless an ALTER failed for another reason than  *)
(* the column being there.                                                *)
SchemaComplete == Up => Versions \subseteq disk.db.parts \/ "altered" \in odd

\* The files leave no start a way: a torn configuration, an archive that
\* cannot be extracted, no database, or a spoilt one.
Stuck ==
  \/ disk.conf = Torn
  \/ pend = Partial
  \/ pend \in Archives /\ (~pend.safe \/ pend.broken # {})
  \/ disk.db.data \in {Torn, Spoilt}
  \/ journal = "foreign"

(* After any crash in any step of a start, a restore or a migration the   *)
(* program serves again, with the pending archive applied, unless the     *)
(* files leave it no way for good.                                        *)
ComesUp == []<>(Up /\ pend = None) \/ <>[]Stuck

---------------------------------------------------------------------------
(* What it implements. *)

\* The part of a zip file that replaces files in use.
Restored(zip) ==
  LET from == IF zip \in Archives THEN {e \in DOMAIN zip.entries : InUse(e)} ELSE {}
  IN [entries |-> [e \in from |-> zip.entries[e]]]

Spoils(db) == [db EXCEPT !.data = Spoilt]

\* As soon as a restore has begun, the files are what they will be.
Promised ==
  IF begun THEN [e \in Entries |->
         LET from == Restored(pend).entries
         IN IF e \notin DOMAIN from THEN disk[e]
            ELSE IF e = "db" /\ journal # "none" THEN Spoils(from[e]) ELSE from[e]]
  ELSE [disk EXCEPT !.db = IF journal = "foreign" THEN Spoils(@) ELSE @]

(* Backups replace all or nothing: seen from outside, the files change    *)
(* only while the program serves, or all at once to those of the pending  *)
(* archive, wherever a restore or a start was cut off.                    *)
Promise == INSTANCE Installation WITH
  files  <- Promised,
  staged <- IF begun \/ pend = None THEN {} ELSE {Restored(pend)},
  up     <- Up,
  cut    <- journal = "own" /\ ~(begun /\ "db" \in DOMAIN Restored(pend).entries)

AllOrNothing == Promise!Spec
=============================================================================
