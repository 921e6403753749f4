-------------------------- MODULE AdminRefinement --------------------------
(***************************************************************************)
(* Admin implements Installation, for any environments, disks, archives    *)
(* and migrations: whatever is written file by file and wherever a restore *)
(* or a start is cut off, the files an administrator can rely on change at *)
(* once. What a start has not extracted yet counts as extracted from the   *)
(* step that opens the archive on.                                         *)
(***************************************************************************)
EXTENDS AdminProofs

\* The two files as Promised has them.
Conf == IF begun /\ "conf" \in DOMAIN pend.entries /\ ~setup.apart
        THEN pend.entries["conf"] ELSE disk.conf
Data == IF begun /\ "db" \in DOMAIN pend.entries
        THEN IF journal # "none" THEN Spoils(pend.entries["db"]) ELSE pend.entries["db"]
        ELSE IF ~begun /\ journal = "foreign" THEN Spoils(disk.db) ELSE disk.db

Staged == IF begun \/ pend = None THEN {} ELSE {Restored(pend)}
Cut == journal = "own" /\ ~(begun /\ "db" \in DOMAIN Restored(pend).entries)

LEMMA RestoredFacts ==
  ASSUME NEW a \in Archives
  PROVE  /\ DOMAIN Restored(a).entries = {e \in DOMAIN a.entries : InUse(e)}
         /\ \A e \in DOMAIN Restored(a).entries : Restored(a).entries[e] = a.entries[e]
         /\ "db" \in DOMAIN Restored(a).entries <=> "db" \in DOMAIN a.entries
         /\ "conf" \in DOMAIN Restored(a).entries <=> "conf" \in DOMAIN a.entries /\ ~setup.apart
  <1> DEFINE from == {e \in DOMAIN a.entries : InUse(e)}
  <1>1. Restored(a) = [entries |-> [e \in from |-> a.entries[e]]]
    BY DEF Restored
  <1>2. Restored(a).entries = [e \in from |-> a.entries[e]]
    BY <1>1
  <1>3. DOMAIN Restored(a).entries = from /\ \A e \in from : Restored(a).entries[e] = a.entries[e]
    BY <1>2
  <1> QED BY <1>3 DEF InUse

LEMMA PromisedHere ==
  ASSUME Base
  PROVE  Promised = [conf |-> Conf, db |-> Data]
  <1>1. disk \in Disk /\ Entries = {"conf", "db"}
    BY BaseFacts DEF Entries
  <1>2. CASE begun
    <2>1. pend \in Archives
      BY <1>2 DEF Base, Ready, Extracting
    <2> DEFINE from == Restored(pend).entries
               f(e) == IF e \notin DOMAIN from THEN disk[e]
                       ELSE IF e = "db" /\ journal # "none" THEN Spoils(from[e]) ELSE from[e]
    <2>2. Promised = [e \in Entries |-> f(e)]
      BY <1>2 DEF Promised
    <2>3. f("conf") = Conf
      BY <1>1, <1>2, <2>1, RestoredFacts DEF Conf
    <2>4. f("db") = Data
      BY <1>1, <1>2, <2>1, RestoredFacts DEF Data
    <2> HIDE DEF f
    <2>5. Promised = [e \in {"conf", "db"} |-> f(e)]
      BY <1>1, <2>2
    <2>6. [e \in {"conf", "db"} |-> f(e)] = [conf |-> f("conf"), db |-> f("db")]
      OBVIOUS
    <2> QED BY <2>3, <2>4, <2>5, <2>6
  <1>3. CASE ~begun
    <2>1. Promised = [disk EXCEPT !.db = IF journal = "foreign" THEN Spoils(disk.db) ELSE disk.db]
      BY <1>3 DEF Promised
    <2>2. Conf = disk.conf /\ Data = IF journal = "foreign" THEN Spoils(disk.db) ELSE disk.db
      BY <1>3 DEF Conf, Data
    <2>3. Promised = [disk EXCEPT !.db = Data]
      BY <2>1, <2>2
    <2> QED BY <1>1, <2>2, <2>3 DEF Disk
  <1> QED BY <1>2, <1>3

Flat == Promised = [conf |-> Conf, db |-> Data]

LEMMA PromisedIs == Base => Flat
  BY PromisedHere DEF Flat

LEMMA PromisedNext == Base' => Flat'
  BY PromisedIs, PTL

LEMMA SpoilsFacts ==
  ASSUME NEW b \in Db
  PROVE  Spoils(b).data = Spoilt /\ Spoils(b).version = b.version /\ Spoils(b).parts = b.parts
  BY DEF Spoils, Db

\* A step that leaves all of that as it is.
LEMMA Stutters ==
  ASSUME Base, Base', Conf' = Conf, Data' = Data, Staged' = Staged, Cut' = Cut, Up' = Up
  PROVE  [Promise!Next]_(Promise!vars)
  <1>1. Promised' = Promised
    BY PromisedIs, PromisedNext DEF Flat
  <1> QED BY <1>1 DEF Promise!vars, Staged, Cut

LEMMA Unchanged ==
  ASSUME UNCHANGED <<setup, disk, journal, pend, begun>>
  PROVE  Conf' = Conf /\ Data' = Data /\ Staged' = Staged /\ Cut' = Cut
  BY DEF Conf, Data, Staged, Cut, Restored, InUse

\* A step of a start that leaves what the administrator stored as it is.
LEMMA Prepares ==
  ASSUME Base, Base', ~Up, ~Up', Data'.data = Data.data, Conf' # Conf => Conf \in {Missing, Torn},
         Cut' = FALSE \/ Cut' = Cut, Staged' = Staged
  PROVE  [Promise!Next]_(Promise!vars)
  <1>1. /\ Promised.conf = Conf /\ Promised.db = Data
        /\ Promised'.conf = Conf' /\ Promised'.db = Data'
    BY PromisedIs, PromisedNext DEF Flat
  <1>2. Promised'.db.data = Promised.db.data
    BY <1>1
  <1>3. Promised'.conf # Promised.conf => Promised.conf \in {Missing, Torn}
    BY <1>1
  <1>4. Up' = Up
    BY DEF Up
  <1>5. Promise!Prepare
    BY ONLY ~Up, <1>2, <1>3, <1>4, Cut' = FALSE \/ Cut' = Cut, Staged' = Staged, Zenon
       DEF Promise!Prepare, Staged, Cut
  <1> QED BY <1>5 DEF Promise!Next

---------------------------------------------------------------------------
(* The start. *)

\* What a start's step promises: nothing, all files of the archive at once,
\* what it prepares, or to serve.
LEMMA StillDown ==
  ASSUME Base, Base', ~Up, ~Up', UNCHANGED <<setup, disk, journal, pend, begun>>
  PROVE  [Promise!Next]_(Promise!vars)
  <1>1. Up' = Up
    BY DEF Up
  <1> QED BY <1>1, Unchanged, Stutters

\* The step that writes the configuration: no longer visible once an archive has it.
LEMMA ConfRefines ==
  ASSUME Base, Base', Stat \/ EnsureDefaultConfig
  PROVE  [Promise!Next]_(Promise!vars)
  <1>0. /\ ~Up /\ ~Up' /\ UNCHANGED <<setup, journal, pend, begun>> /\ disk \in Disk
    BY BaseFacts DEF Stat, EnsureDefaultConfig, Goes, At, First, Up
  <1>1. disk'.db = disk.db /\ (disk'.conf = disk.conf \/ disk.conf \in {Missing, Torn})
    <2>1. CASE disk' = disk
      BY <2>1
    <2>2. CASE disk' = [disk EXCEPT !.conf = Torn] /\ disk.conf = Missing
      BY <1>0, <2>2 DEF Disk
    <2>3. CASE disk' = [disk EXCEPT !.conf = Default] /\ proc.at = "defaults"
      BY <1>0, <2>3 DEF Disk, Base, Ready, Configured
    <2> QED BY <2>1, <2>2, <2>3 DEF Stat, EnsureDefaultConfig
  <1>2. Data' = Data /\ Staged' = Staged /\ Cut' = Cut /\ (Conf' # Conf => Conf \in {Missing, Torn})
    BY <1>0, <1>1 DEF Data, Staged, Cut, Restored, InUse, Conf
  <1> QED BY <1>0, <1>2, Prepares

\* Truncating and filling an entry stay unseen.
LEMMA ExtractRefines ==
  ASSUME Base, Base', NEW e \in Entries, Truncate(e) \/ Fill(e)
  PROVE  [Promise!Next]_(Promise!vars)
  <1>0. /\ proc.at = "extract" /\ UNCHANGED <<setup, pend, begun>> /\ e \in proc.todo
    BY DEF Truncate, Fill, zips
  <1>1. /\ pend \in Archives /\ begun /\ ~Up /\ e \in DOMAIN pend.entries /\ disk \in Disk
        /\ (InUse("conf") <=> ~setup.apart)
    BY <1>0, EntryFacts, BaseFacts
  <1>2. ~Up'
    BY <1>0, BaseFacts DEF Truncate, Fill, Fatal, At, Up, Process
  <1>3. \/ UNCHANGED <<disk, journal>>
        \/ \E x : disk' = [disk EXCEPT ![e] = x] /\ InUse(e)
    BY DEF Truncate, Fill, InUse
  <1>4. \/ journal' = journal
        \/ e = "db" /\ journal = "own" /\ journal' = "foreign"
    BY DEF Truncate, Fill
  <1>5. CASE UNCHANGED <<disk, journal>>
    BY <1>0, <1>1, <1>2, <1>5, StillDown
  <1>6. CASE e = "conf" /\ \E x : disk' = [disk EXCEPT !["conf"] = x] /\ InUse("conf")
    <2>1. disk'.db = disk.db /\ journal' = journal
      BY <1>1, <1>4, <1>6 DEF Disk
    <2>2. Conf' = Conf
      BY <1>0, <1>1, <1>6 DEF Conf
    <2>3. Data' = Data
      BY <1>0, <2>1 DEF Data
    <2>4. Staged' = Staged /\ Cut' = Cut
      BY <1>0, <2>1 DEF Staged, Cut, Restored, InUse
    <2>5. Up' = Up
      BY <1>1, <1>2 DEF Up
    <2> QED BY <2>2, <2>3, <2>4, <2>5, Stutters
  <1>7. CASE e = "db" /\ \E x : disk' = [disk EXCEPT !["db"] = x]
    <2>1. disk'.conf = disk.conf /\ (journal' # "none" <=> journal # "none")
      BY <1>1, <1>4, <1>7 DEF Disk
    <2>2. Conf' = Conf
      BY <1>0, <2>1 DEF Conf
    <2>3. Data' = Data
      BY <1>0, <1>1, <1>7, <2>1 DEF Data
    <2>4. Staged' = Staged /\ Cut = FALSE /\ Cut' = FALSE
      BY <1>0, <1>1, <1>7, RestoredFacts DEF Staged, Cut, Restored, InUse
    <2>5. Up' = Up
      BY <1>1, <1>2 DEF Up
    <2> QED BY <2>2, <2>3, <2>4, <2>5, Stutters
  <1> QED BY <1>3, <1>5, <1>6, <1>7 DEF Entries

\* Opening the archive is the restore, once; removing it goes unseen.
LEMMA RestoreRefines ==
  ASSUME Base, Base', Apply \/ Remove
  PROVE  [Promise!Next]_(Promise!vars)
  <1>0. ~Up /\ ~Up' /\ UNCHANGED <<setup, disk, journal>> /\ disk \in Disk
    BY BaseFacts DEF Apply, Remove, Goes, Fatal, At, Up
  <1>1. CASE Apply /\ (pend \notin Archives \/ begun)
    BY <1>0, <1>1, BaseFacts, StillDown DEF Apply, Zips, Goes, Fatal
  <1>2. CASE Apply /\ pend \in Archives /\ ~begun
    <2>1. pend' = pend /\ begun' = TRUE /\ pend # None
      BY <1>2, ArchiveFacts DEF Apply
    <2>2. journal # "foreign"
      BY <1>2, <2>1 DEF Base, Ready, Journaled
    <2>3. /\ Promised.conf = disk.conf /\ Promised.db = disk.db /\ DOMAIN Promised = {"conf", "db"}
      BY <1>2, <2>2, PromisedIs DEF Flat, Conf, Data
    <2>4. /\ Promised' = [conf |-> Conf', db |-> Data']
          /\ Conf' = IF "conf" \in DOMAIN pend.entries /\ ~setup.apart THEN pend.entries["conf"] ELSE disk.conf
          /\ Data' = IF "db" \in DOMAIN pend.entries
                     THEN IF journal # "none" THEN Spoils(pend.entries["db"]) ELSE pend.entries["db"]
                     ELSE disk.db
      BY <1>0, <1>2, <2>1, PromisedNext DEF Flat, Conf, Data
    <2> DEFINE a == Restored(pend)
    <2>5. Promised' = Promise!Overlaid(Promised, a, Cut)
      <3> DEFINE g(f) == IF f \notin DOMAIN a.entries THEN Promised[f]
                         ELSE IF f = "db" /\ Cut THEN [a.entries[f] EXCEPT !.data = Spoilt] ELSE a.entries[f]
      <3>1. Promise!Overlaid(Promised, a, Cut) = [f \in DOMAIN Promised |-> g(f)]
        BY DEF Promise!Overlaid
      <3>2. Cut <=> journal # "none"
        BY <1>2, <2>2, BaseFacts DEF Cut
      <3>3. g("conf") = Conf'
        BY <1>2, <2>3, <2>4, RestoredFacts
      <3>4. g("db") = Data'
        BY <1>2, <2>3, <2>4, <3>2, RestoredFacts DEF Spoils
      <3> HIDE DEF g
      <3>5. [f \in {"conf", "db"} |-> g(f)] = [conf |-> g("conf"), db |-> g("db")]
        OBVIOUS
      <3> QED BY <2>3, <2>4, <3>1, <3>3, <3>4, <3>5
    <2>6. Staged = {a} /\ Staged' = {} /\ Cut' = (Cut /\ "db" \notin DOMAIN a.entries)
      <3>1. Cut <=> journal = "own"
        BY <1>2 DEF Cut
      <3>2. Cut' <=> journal = "own" /\ "db" \notin DOMAIN a.entries
        BY <1>0, <1>2, <2>1 DEF Cut, Restored, InUse
      <3>3. Cut \in BOOLEAN /\ Cut' \in BOOLEAN
        BY DEF Cut
      <3> QED BY <1>2, <2>1, <3>1, <3>2, <3>3 DEF Staged
    <2>7. ~Up /\ Up' = Up
      BY <1>0 DEF Up
    <2> HIDE DEF a
    <2>8. Promise!Restore
      BY ONLY <2>5, <2>6, <2>7 DEF Promise!Restore, Staged, Cut
    <2> QED BY <2>8 DEF Promise!Next
  <1>3. CASE Remove
    <2>0. /\ pend \in Archives /\ begun /\ begun' = FALSE /\ pend' = None
          /\ proc.at = "extract" /\ proc.todo = {}
      BY <1>3, EntryFacts DEF Remove
    <2>1. /\ \A e \in DOMAIN pend.entries :
               InUse(e) => disk[e] = pend.entries[e] /\ (e = "db" => journal # "own")
          /\ journal = "foreign" => "db" \in DOMAIN pend.entries
      BY <2>0 DEF Base, Ready, Extracting, Journaled
    <2>2. Conf' = Conf
      BY <1>0, <2>0, <2>1 DEF Conf, InUse
    <2>3. Data' = Data
      BY <1>0, <2>0, <2>1, BaseFacts DEF Data, InUse
    <2>4. Staged' = Staged
      BY <2>0 DEF Staged
    <2>5. Cut' = Cut
      <3>1. Cut <=> journal = "own"
        BY <2>0, <2>1, RestoredFacts DEF Cut, InUse
      <3>2. Cut' <=> journal = "own"
        BY <1>0, <2>0 DEF Cut
      <3>3. Cut \in BOOLEAN /\ Cut' \in BOOLEAN
        BY DEF Cut
      <3> QED BY <3>1, <3>2, <3>3
    <2>6. Up' = Up
      BY <1>0 DEF Up
    <2> QED BY <2>2, <2>3, <2>4, <2>5, <2>6, Stutters
  <1> QED BY <1>1, <1>2, <1>3

\* Opening the database plays its journal back; the schema changes only then.
LEMMA SchemaRefines ==
  ASSUME Base, Base', \/ Open \/ RecordVersion
                      \/ \E k \in Versions : MigrateStrict(k) \/ MigrateLoose(k) \/ AlterFails(k)
  PROVE  [Promise!Next]_(Promise!vars)
  <1>0. /\ ~Up /\ UNCHANGED <<setup, pend, begun>> /\ disk \in Disk /\ disk' \in Disk
        /\ proc.at \in {"open", "migrate", "record"} /\ ~begun
    BY BaseFacts DEF Open, RecordVersion, MigrateStrict, MigrateLoose, AlterFails, Migrating, Up,
       Base, Ready, Extracting, TypeOK, Disk
  <1>1. ~Up'
    <2>1. At("off").at # "up" /\ At("migrate").at # "up" /\ At("record").at # "up"
      BY DEF At
    <2> QED BY <2>1 DEF Open, RecordVersion, MigrateStrict, MigrateLoose, AlterFails, Goes, Fatal, Up
  <1>2. CASE Open
    <2>1. journal' = "none"
          /\ disk' = IF journal = "foreign" THEN [disk EXCEPT !.db.data = Spoilt] ELSE disk
      BY <1>2 DEF Open
    <2>2. disk'.conf = disk.conf
      BY <1>0, <2>1, DiskData
    <2>3. disk'.db.data = IF journal = "foreign" THEN Spoilt ELSE disk.db.data
      BY <1>0, <2>1, DiskData
    <2>4. Data'.data = Data.data
      BY <1>0, <2>1, <2>3, SpoilsFacts, BaseFacts DEF Data
    <2>5. Conf' = Conf /\ Staged' = Staged /\ Cut' = FALSE
      BY <1>0, <2>1, <2>2 DEF Conf, Staged, Cut, Restored, InUse
    <2> QED BY <1>0, <1>1, <2>4, <2>5, Prepares
  <1>3. CASE ~Open
    <2>1. journal' = journal /\ journal = "none"
      BY <1>0, <1>3, BaseFacts DEF Base, Ready, Journaled, RecordVersion, MigrateStrict, MigrateLoose,
         AlterFails, Migrating
    <2>2. disk'.conf = disk.conf /\ disk'.db.data = disk.db.data
      <3>1. CASE disk' = disk
        BY <3>1
      <3>2. CASE \E k \in Versions : disk' = [disk EXCEPT !.db.parts = @ \cup Adds(k), !.db.version = k]
        <4>1. PICK k \in Versions : disk' = [disk EXCEPT !.db.parts = @ \cup Adds(k), !.db.version = k]
          BY <3>2
        <4> DEFINE S == Adds(k)
        <4>2. disk' = [disk EXCEPT !.db.parts = @ \cup S, !.db.version = k]
          BY <4>1
        <4> HIDE DEF S
        <4> QED BY <1>0, <4>2 DEF Disk, Db
      <3>3. CASE \E k \in Versions : disk' = [disk EXCEPT !.db.parts = @ \cup {k}]
        BY <1>0, <3>3 DEF Disk, Db
      <3>4. CASE disk' = [disk EXCEPT !.db.version = @ + 1]
        BY <1>0, <3>4 DEF Disk, Db
      <3> QED BY <1>3, <3>1, <3>2, <3>3, <3>4 DEF RecordVersion, MigrateStrict, MigrateLoose, AlterFails
    <2>3. Data'.data = Data.data /\ Conf' = Conf /\ Staged' = Staged /\ Cut' = FALSE
      BY <1>0, <2>1, <2>2 DEF Data, Conf, Staged, Cut, Restored, InUse
    <2> QED BY <1>0, <1>1, <2>3, Prepares
  <1> QED BY <1>2, <1>3

\* A program serves whole files, with nothing left to apply.
LEMMA ListenRefines ==
  ASSUME Base, Base', ListenAndServe
  PROVE  [Promise!Next]_(Promise!vars)
  <1>1. /\ proc.at = "migrate" /\ disk.db.version = Last /\ ~Up /\ Up'
        /\ UNCHANGED <<setup, disk, journal, pend, begun>>
    BY DEF ListenAndServe, Goes, At, Up
  <1>2. /\ pend = None /\ ~begun /\ journal = "none" /\ disk.conf \in Passwords /\ disk.db.data # Torn
    BY <1>1, BaseFacts DEF Base, Ready, Applied, Extracting, Journaled, Loaded
  <1>3. Promised.conf = disk.conf /\ Promised.db = disk.db
    BY <1>2, PromisedIs DEF Flat, Conf, Data
  <1>4. Promise!Whole(Promised)
    BY <1>1, <1>2, <1>3 DEF Promise!Whole
  <1>5. Staged = {} /\ Staged' = Staged /\ Cut = FALSE /\ Cut' = Cut
    BY <1>1, <1>2 DEF Staged, Cut
  <1>6. Promised' = Promised
    BY <1>1, Unchanged, PromisedIs, PromisedNext DEF Flat
  <1>7. Up' = TRUE
    BY <1>1 DEF Up
  <1>8. ~Up
    BY <1>1
  <1>9. Promise!Start
    BY ONLY <1>4, <1>5, <1>6, <1>7, <1>8 DEF Promise!Start, Staged, Cut
  <1> QED BY <1>9 DEF Promise!Next

LEMMA StartingRefines ==
  ASSUME Base, Base', Starting \/ \E k \in Versions : AlterFails(k)
  PROVE  [Promise!Next]_(Promise!vars)
  <1>1. CASE Start \/ Refuse \/ LoadRuntimeConfig
    <2>1. ~Up /\ ~Up' /\ UNCHANGED <<setup, disk, journal, pend, begun>>
      BY <1>1 DEF Start, Refuse, LoadRuntimeConfig, Goes, Fatal, At, Up
    <2> QED BY <2>1, StillDown
  <1> QED BY <1>1, ConfRefines, ExtractRefines, RestoreRefines, SchemaRefines, ListenRefines DEF Starting

---------------------------------------------------------------------------
(* Serving, and the end of a process. *)

LEMMA Serves ==
  ASSUME Base, Base', Up, Up', setup' = setup, journal' \in {"none", "own"},
         disk'.db.version = disk.db.version, disk'.db.parts = disk.db.parts,
         disk'.db.data \in Datas \cup {disk.db.data}
  PROVE  [Promise!Next]_(Promise!vars)
  <1>1. ~begun /\ ~begun' /\ journal # "foreign"
    BY UpFacts DEF Base, Ready, Extracting, Up
  <1>2. Promised.conf = disk.conf /\ Promised.db = disk.db
    BY <1>1, PromisedIs DEF Flat, Conf, Data
  <1>3. Promised'.conf = disk'.conf /\ Promised'.db = disk'.db
    BY <1>1, PromisedNext DEF Flat, Conf, Data
  <1>4. disk'.conf \in Passwords \cup {Torn}
    BY DEF Base, TypeOK, Ready, Configured, Up
  <1>5. Up' = Up
    BY DEF Up
  <1>6. Promise!Serve
    BY <1>2, <1>3, <1>4, <1>5 DEF Promise!Serve
  <1> QED BY <1>6 DEF Promise!Next

LEMMA ServingRefines ==
  ASSUME Inv, Inv', \/ \E r \in Requests : Authenticating(r)
                    \/ \E t \in Tokens : Leave(t)
                    \/ \E u \in Uploads : Uploading(u)
                    \/ BeginWrite \/ CommitWrite
  PROVE  [Promise!Next]_(Promise!vars)
  <1>0. Base /\ Base' /\ disk \in Disk
    BY BaseFacts DEF Inv
  <1>1. CASE \E r \in Requests : Authenticating(r)
    <2>1. PICK r \in Requests : Authenticating(r)
      BY <1>1
    <2>2. Frame
      BY <2>1, AuthStep DEF Inv
    <2>3. Up
      BY <1>0, <2>1, ReqFacts DEF Authenticating, Login, Set, SetFails, ChangePassword, Recheck,
         SaveRuntimePassword, ReadFails, WriteFile, WriteFails, UpdatePassword, RevokeAll
    <2>4. disk'.db = disk.db
      <3>1. CASE disk' = disk
        BY <3>1
      <3>2. CASE \E c : disk' = [disk EXCEPT !.conf = c]
        BY <1>0, <3>2 DEF Disk
      <3> QED BY <2>1, <3>1, <3>2 DEF Authenticating, Login, Set, SetFails, ChangePassword, Recheck,
             SaveRuntimePassword, ReadFails, WriteFile, WriteFails, UpdatePassword, RevokeAll
    <2> QED BY <1>0, <2>2, <2>3, <2>4, UpFacts, Serves DEF Frame, Up
  <1>2. CASE \E t \in Tokens : Leave(t)
    BY <1>0, <1>2, UpFacts, Serves DEF Leave, Up
  <1>3. CASE \E u \in Uploads : Uploading(u)
    <2>1. PICK u \in Uploads : Uploading(u)
      BY <1>3
    <2>2. UNCHANGED <<setup, disk, journal, proc>>
      BY <2>1 DEF Uploading, CreateTmp, Copy, CopyFails, Validate, Rename
    <2>3. Up
      BY <1>0, <2>1, ActiveAt, UplFacts DEF Uploading, CreateTmp, Copy, CopyFails, Validate, Rename
    <2> QED BY <1>0, <2>2, <2>3, UpFacts, Serves DEF Up
  <1>4. CASE BeginWrite \/ CommitWrite
    <2>1. Up /\ UNCHANGED <<setup, proc>> /\ journal' \in {"none", "own"}
      BY <1>4 DEF BeginWrite, CommitWrite
    <2>2. /\ disk'.db.version = disk.db.version /\ disk'.db.parts = disk.db.parts
          /\ disk'.db.data \in Datas \cup {disk.db.data}
      <3>1. CASE disk' = disk
        BY <3>1
      <3>2. CASE \E d \in Datas : disk' = [disk EXCEPT !.db.data = d]
        <4>1. PICK d \in Datas : disk' = [disk EXCEPT !.db.data = d]
          BY <3>2
        <4>2. d \in Datas \cup {Torn, Spoilt}
          OBVIOUS
        <4> QED BY <1>0, <4>1, <4>2, DiskData
      <3> QED BY <1>4, <3>1, <3>2 DEF BeginWrite, CommitWrite
    <2> QED BY <1>0, <2>1, <2>2, Serves DEF Up
  <1> QED BY <1>1, <1>2, <1>3, <1>4

LEMMA EndRefines ==
  ASSUME Base, Base', RestartSelf \/ Crash
  PROVE  [Promise!Next]_(Promise!vars)
  <1>1. ~Up' /\ UNCHANGED <<setup, disk, journal, pend, begun>>
    BY DEF RestartSelf, Crash, At, Up
  <1>2. CASE ~Up
    BY <1>1, <1>2, StillDown
  <1>3. CASE Up
    <2>1. Promised' = Promised
      BY <1>1, Unchanged, PromisedIs, PromisedNext DEF Flat
    <2>2. Staged' = Staged /\ Cut' = Cut
      BY <1>1, Unchanged
    <2>3. Up' = FALSE
      BY <1>1 DEF Up
    <2>4. Promise!Stop
      BY ONLY <1>3, <2>1, <2>2, <2>3 DEF Promise!Stop, Staged, Cut
    <2> QED BY <2>4 DEF Promise!Next
  <1> QED BY <1>2, <1>3

(* Backups replace all or nothing, wherever a restore, a migration or a start *)
(* is cut off: every step of the program is a step of Installation, or none   *)
(* that can be seen (ApplyPendingRestore, Open, handleBackupRestore).         *)
THEOREM AllOrNothingKept == Spec => AllOrNothing
  <1>1. Init => Promise!Init
    <2> SUFFICES ASSUME Init PROVE Promise!Init
      OBVIOUS
    <2>1. Base /\ ~begun /\ pend = None /\ journal = "none" /\ ~Up
      BY InitInv DEF Inv, Init, At, Up
    <2>2. Promised.conf = disk.conf /\ Promised.db = disk.db
      BY <2>1, PromisedIs DEF Flat, Conf, Data
    <2>3. disk.conf \in Passwords \cup {Missing} /\ disk.db.data \in Datas
      BY DisksAssumption DEF Init
    <2> QED BY <2>1, <2>2, <2>3 DEF Promise!Init
  <1>2. Inv /\ Inv' /\ [Next]_vars => [Promise!Next]_(Promise!vars)
    <2> SUFFICES ASSUME Inv, Inv', [Next]_vars PROVE [Promise!Next]_(Promise!vars)
      OBVIOUS
    <2>1. CASE UNCHANGED vars
      <3>1. UNCHANGED <<setup, disk, journal, pend, begun>> /\ Up' = Up
        BY <2>1 DEF vars, zips, Up
      <3> QED BY <3>1, Unchanged, Stutters DEF Inv
    <2> QED BY <2>1, StartingRefines, ServingRefines, EndRefines DEF Next, Inv
  <1> QED BY <1>1, <1>2, Invariance, PTL DEF Spec, AllOrNothing, Promise!Spec
=============================================================================
