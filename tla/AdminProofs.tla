---------------------------- MODULE AdminProofs ----------------------------
(***************************************************************************)
(* Proofs about Admin, for any environments, disks, archives, migrations,  *)
(* passwords and number of concurrent requests and uploads: type           *)
(* correctness, the sessions' and the password's safety, what becomes the  *)
(* pending archive, the schema, and that files change as Installation      *)
(* promises.                                                               *)
(***************************************************************************)
EXTENDS Admin, TLAPS

(* Nothing runs in a process that does not serve. *)
Quiet ==
  ~Up => /\ \A r \in Requests : req[r] = Idle
         /\ \A u \in Uploads : upl[u] \in {Unsent, Sent}
         /\ sess = NoSessions /\ restart = FALSE

(* The configuration is there when the start has passed it, *)
Configured ==
  /\ proc.at \notin {"off", "stat"} => disk.conf # Missing
  /\ proc.at = "defaults" => disk.conf = Torn
(* and is what memory holds, once it has been read. *)
Loaded ==
  /\ Up => mem \in Passwords
  /\ proc.at \in {"open", "migrate", "record"} \/ (proc.at = "apply" /\ setup.apart) =>
       mem \in Passwords /\ disk.conf \in Passwords /\ (setup.env = None => mem = disk.conf)
(* An extraction that has begun: what has been extracted is there. *)
Extracting ==
  /\ begun => /\ pend \in Archives
              /\ proc.at \in {"off", "stat", "defaults", "load", "apply", "extract"}
  /\ proc.at = "extract" =>
       /\ begun /\ proc.todo \subseteq DOMAIN pend.entries
       /\ \A e \in DOMAIN pend.entries \ proc.todo :
            InUse(e) => disk[e] = pend.entries[e] /\ (e = "db" => journal # "own")
(* Past it there is no archive until one is uploaded. *)
Applied ==
  (proc.at = "load" /\ ~setup.apart) \/ proc.at \in {"open", "migrate", "record"} => pend = None
(* A journal, and the database that it belongs to or came under. *)
Journaled ==
  /\ journal = "foreign" =>
       /\ proc.at \notin {"migrate", "record", "up"}
       /\ IF begun THEN "db" \in DOMAIN pend.entries ELSE pend = None
  /\ journal = "own" => disk.db.data # Torn /\ proc.at \notin {"migrate", "record"}
  /\ proc.at \in {"migrate", "record", "up"} => disk.db.data # Torn
(* What a version number says is there, is there. *)
Versioned ==
  /\ 1..disk.db.version \subseteq disk.db.parts \/ "altered" \in odd
  /\ proc.at = "record" => /\ disk.db.version < Last
                           /\ disk.db.version + 1 \in disk.db.parts \/ "altered" \in odd
  /\ Up => disk.db.version = Last

Ready == Configured /\ Loaded /\ Extracting /\ Applied /\ Journaled /\ Versioned

---------------------------------------------------------------------------
(* Types. *)

Disk == [conf: Passwords \cup {Missing, Torn}, db: Db]
Process == [at: Phases, todo: SUBSET Entries]

LEMMA NoDbType == NoDb \in Db /\ NoDb.data = Torn /\ 1..NoDb.version \subseteq NoDb.parts
  BY KindAssumption DEF NoDb, Db

LEMMA ArchiveFacts ==
  ASSUME NEW a \in Archives
  PROVE  /\ DOMAIN a.entries \subseteq Entries /\ a.broken \subseteq DOMAIN a.entries
         /\ a # None /\ a # Partial
         /\ "conf" \in DOMAIN a.entries =>
              a.entries["conf"] \in Passwords \cup {Torn} /\ a.entries["conf"] # Missing
         /\ "db" \in DOMAIN a.entries =>
              /\ a.entries["db"] \in Db
              /\ 1..a.entries["db"].version \subseteq a.entries["db"].parts
         /\ \A e \in DOMAIN a.entries : e \in a.broken => a.entries[e] \in {Torn, NoDb}
  <1>1. "db" \in DOMAIN a.entries => a.entries["db"] \in {d.db : d \in Disks} \cup {NoDb}
    BY ArchivesAssumption
  <1>2. \A d \in Disks : d.db \in Db /\ 1..d.db.version \subseteq d.db.parts
    BY DisksAssumption
  <1> QED BY <1>1, <1>2, NoDbType, ArchivesAssumption, SpecialAssumption

LEMMA AtType ==
  ASSUME NEW phase \in Phases
  PROVE  At(phase) \in Process /\ At(phase).at = phase
  BY DEF At, Process

LEMMA DbFields ==
  ASSUME NEW db \in Db
  PROVE  db.data \in Datas \cup {Torn, Spoilt} /\ db.version \in 0..Last /\ db.parts \subseteq Versions
  BY DEF Db

\* Files are written one at a time.
LEMMA DiskConf ==
  ASSUME NEW d \in Disk, NEW c \in Passwords \cup {Missing, Torn}
  PROVE  /\ [d EXCEPT !.conf = c] \in Disk /\ [d EXCEPT !["conf"] = c] \in Disk
         /\ [d EXCEPT !.conf = c].conf = c /\ [d EXCEPT !.conf = c].db = d.db
  BY DEF Disk

LEMMA DiskDb ==
  ASSUME NEW d \in Disk, NEW b \in Db
  PROVE  /\ [d EXCEPT !.db = b] \in Disk
         /\ [d EXCEPT !.db = b].db = b /\ [d EXCEPT !.db = b].conf = d.conf
  BY DEF Disk

LEMMA DiskData ==
  ASSUME NEW d \in Disk, NEW x \in Datas \cup {Torn, Spoilt}
  PROVE  /\ [d EXCEPT !.db.data = x] \in Disk
         /\ [d EXCEPT !.db.data = x].conf = d.conf
         /\ [d EXCEPT !.db.data = x].db.data = x
         /\ [d EXCEPT !.db.data = x].db.version = d.db.version
         /\ [d EXCEPT !.db.data = x].db.parts = d.db.parts
  BY DEF Disk, Db

LEMMA DiskPart ==
  ASSUME NEW d \in Disk, NEW S \in SUBSET Versions
  PROVE  LET e == [d EXCEPT !.db.parts = @ \cup S]
         IN  /\ e \in Disk /\ e.conf = d.conf /\ e.db.data = d.db.data /\ e.db.version = d.db.version
             /\ e.db.parts = d.db.parts \cup S
  BY DEF Disk, Db

LEMMA DiskVersion ==
  ASSUME NEW d \in Disk, NEW v \in 0..Last
  PROVE  LET e == [d EXCEPT !.db.version = v]
         IN  /\ e \in Disk /\ e.conf = d.conf /\ e.db.data = d.db.data /\ e.db.version = v
             /\ e.db.parts = d.db.parts
  BY DEF Disk, Db

Base == TypeOK /\ Quiet /\ Ready

---------------------------------------------------------------------------
(* The start. *)

Same == UNCHANGED <<setup, tmp, sess, req, upl, restart>>

\* A step of the start, given what it does to the rest.
LEMMA StartBase ==
  ASSUME Base, ~Up, Same, disk' \in Disk, journal' \in {"none", "own", "foreign"},
         pend' \in {pend, None}, proc' \in Process, mem' \in Passwords \cup {None}, begun' \in BOOLEAN,
         odd' \in {odd, odd \cup {"altered"}}, left' \in [troubles: Nat, asks: Nat, writes: Nat]
  PROVE  TypeOK' /\ Quiet'
  <1>1. TypeOK'
    <2>1. /\ setup \in Setups /\ tmp \in Zips /\ pend \in Zips /\ odd \in SUBSET {"halfsaved", "crossed", "altered"}
          /\ \E T \in SUBSET Tokens : sess \in [T -> Passwords]
          /\ req \in [Requests -> Asking \cup {Idle}]
          /\ upl \in [Uploads -> Sending \cup {Unsent, Sent}]
          /\ restart \in BOOLEAN
      BY DEF Base, TypeOK
    <2>2. /\ setup' = setup /\ tmp' = tmp /\ sess' = sess /\ req' = req /\ upl' = upl
          /\ restart' = restart
      BY DEF Same
    <2>3. pend' \in Zips
      BY <2>1 DEF Zips
    <2>4. odd' \in SUBSET {"halfsaved", "crossed", "altered"}
      BY <2>1
    <2> QED BY <2>1, <2>2, <2>3, <2>4 DEF TypeOK, Disk, Process
  <1>2. Quiet'
    BY DEF Base, Quiet, Same, Up
  <1> QED BY <1>1, <1>2

LEMMA BaseFacts ==
  ASSUME Base
  PROVE  /\ disk \in Disk /\ journal \in {"none", "own", "foreign"} /\ proc \in Process
         /\ pend \in Zips /\ mem \in Passwords \cup {None} /\ begun \in BOOLEAN
         /\ left \in [troubles: Nat, asks: Nat, writes: Nat]
         /\ disk.db \in Db /\ disk.conf \in Passwords \cup {Missing, Torn}
         /\ disk.db.data \in Datas \cup {Torn, Spoilt} /\ disk.db.version \in 0..Last
         /\ disk.db.parts \subseteq Versions
  <1>1. disk \in Disk /\ disk.db \in Db
    BY DEF Base, TypeOK, Disk
  <1> QED BY <1>1, DbFields DEF Base, TypeOK, Disk, Process

LEMMA PhasesAre == Phases = {"off", "stat", "defaults", "apply", "extract", "load", "open",
                             "migrate", "record", "up"}
  BY DEF Phases

LEMMA StartStep ==
  ASSUME Base, Start
  PROVE  Base' /\ Same
  <1>1. Same /\ ~Up /\ UNCHANGED <<disk, journal, pend, mem, begun, odd, left>>
    BY DEF Start, Goes, Same, Up
  <1>2. proc' \in Process /\ proc'.at = "stat"
    BY AtType, PhasesAre DEF Start, Goes
  <1>3. TypeOK' /\ Quiet'
    BY <1>1, <1>2, BaseFacts, StartBase
  <1>4. Ready'
    BY <1>1, <1>2 DEF Base, Ready, Configured, Loaded, Extracting, Applied, Journaled, Versioned, Same,
         InUse, Up
  <1> QED BY <1>1, <1>3, <1>4 DEF Base

LEMMA StatStep ==
  ASSUME Base, Stat
  PROVE  Base' /\ Same
  <1>1. Same /\ ~Up /\ UNCHANGED <<journal, pend, mem, begun, odd, left>> /\ proc.at = "stat"
    BY DEF Stat, Goes, Same, Up
  <1>2. \/ /\ disk.conf = Missing /\ proc' = At("defaults") /\ disk' = [disk EXCEPT !.conf = Torn]
        \/ /\ disk.conf # Missing /\ proc' = At("load") /\ setup.apart /\ disk' = disk
        \/ /\ disk.conf # Missing /\ proc' = At("apply") /\ ~setup.apart /\ disk' = disk
    BY DEF Stat, Goes, First
  <1>3. /\ proc' \in Process /\ disk' \in Disk /\ disk'.db = disk.db /\ disk'.conf # Missing
        /\ \/ proc'.at = "defaults" /\ disk'.conf = Torn
           \/ proc'.at = "load" /\ setup.apart
           \/ proc'.at = "apply" /\ ~setup.apart
    <2>0. disk \in Disk /\ Torn # Missing
      BY BaseFacts, SpecialAssumption
    <2>1. CASE disk.conf = Missing
      <3>1. proc' = At("defaults") /\ disk' = [disk EXCEPT !.conf = Torn]
        BY <1>2, <2>1
      <3>2. disk' \in Disk /\ disk'.db = disk.db /\ disk'.conf = Torn
        BY <2>0, <3>1, DiskConf
      <3> QED BY <2>0, <3>1, <3>2, AtType, PhasesAre
    <2>2. CASE disk.conf # Missing
      BY <1>2, <2>0, <2>2, AtType, PhasesAre
    <2> QED BY <2>1, <2>2
  <1>4. TypeOK' /\ Quiet'
    BY <1>1, <1>3, BaseFacts, StartBase
  <1>5. Ready'
    BY <1>1, <1>3 DEF Base, Ready, Configured, Loaded, Extracting, Applied, Journaled, Versioned, Same,
         InUse, Up
  <1> QED BY <1>1, <1>4, <1>5 DEF Base

LEMMA DefaultsStep ==
  ASSUME Base, EnsureDefaultConfig
  PROVE  Base' /\ Same
  <1>1. Same /\ ~Up /\ UNCHANGED <<journal, pend, mem, begun, odd, left>> /\ proc.at = "defaults"
    BY DEF EnsureDefaultConfig, Goes, Same, Up
  <1>2. /\ disk' = [disk EXCEPT !.conf = Default]
        /\ \/ proc' = At("load") /\ setup.apart
           \/ proc' = At("apply") /\ ~setup.apart
    BY DEF EnsureDefaultConfig, Goes, First
  <1>3. /\ proc' \in Process /\ disk' \in Disk /\ disk'.db = disk.db /\ disk'.conf # Missing
        /\ \/ proc'.at = "load" /\ setup.apart
           \/ proc'.at = "apply" /\ ~setup.apart
    BY <1>2, BaseFacts, DiskConf, AtType, PhasesAre, SpecialAssumption
  <1>4. TypeOK' /\ Quiet'
    BY <1>1, <1>3, BaseFacts, StartBase
  <1>5. Ready'
    BY <1>1, <1>3 DEF Base, Ready, Configured, Loaded, Extracting, Applied, Journaled, Versioned, Same,
         InUse, Up
  <1> QED BY <1>1, <1>4, <1>5 DEF Base
\* A start that fails leaves the files as they are.
LEMMA FatalBase ==
  ASSUME Base, ~Up, Fatal, UNCHANGED <<setup, disk, journal, tmp, pend, begun, odd, left>>
  PROVE  Base' /\ Same
  <1>1. Same
    BY DEF Fatal, Same
  <1>2. proc' \in Process /\ proc'.at = "off" /\ mem' = None
    BY AtType, PhasesAre DEF Fatal
  <1>3. TypeOK' /\ Quiet'
    BY <1>1, <1>2, BaseFacts, StartBase
  <1>4. Ready'
    BY <1>1, <1>2 DEF Base, Ready, Configured, Loaded, Extracting, Applied, Journaled, Versioned, Same,
         InUse, Up
  <1> QED BY <1>1, <1>3, <1>4 DEF Base

LEMMA ApplyStep ==
  ASSUME Base, Apply
  PROVE  Base' /\ Same
  <1>0. /\ ~Up /\ proc.at = "apply" /\ UNCHANGED <<setup, disk, journal, tmp, pend, odd, left>>
        /\ pend \in Zips
    BY BaseFacts DEF Apply, Up
  <1>1. CASE pend = None
    <2>1. Same /\ UNCHANGED <<mem, begun>>
      BY <1>0, <1>1 DEF Apply, Goes, Same
    <2>2. /\ proc' \in Process
          /\ \/ proc'.at = "open" /\ setup.apart
             \/ proc'.at = "load" /\ ~setup.apart
      BY <1>1, AtType, PhasesAre DEF Apply, Goes
    <2>3. TypeOK' /\ Quiet'
      BY <1>0, <2>1, <2>2, BaseFacts, StartBase
    <2>4. ~begun
      BY <1>1, ArchiveFacts DEF Base, Ready, Extracting
    <2>5. Ready'
      BY <1>0, <1>1, <2>1, <2>2, <2>4 DEF Base, Ready, Configured, Loaded, Extracting, Applied, Journaled,
           Versioned, Same, InUse, Up
    <2> QED BY <2>1, <2>3, <2>5 DEF Base
  <1>2. CASE pend = Partial
    <2>1. Fatal /\ UNCHANGED begun
      BY <1>2, SpecialAssumption DEF Apply
    <2> QED BY <1>0, <2>1, FatalBase
  <1>3. CASE pend \in Archives
    <2>1. begun' = TRUE /\ proc' = [at |-> "extract", todo |-> DOMAIN pend.entries] /\ Same /\ mem' = mem
      BY <1>0, <1>3, ArchiveFacts DEF Apply, Same
    <2>2. proc' \in Process /\ proc'.at = "extract" /\ proc'.todo = DOMAIN pend.entries
      BY <1>3, <2>1, ArchiveFacts, PhasesAre DEF Process
    <2>3. TypeOK' /\ Quiet'
      BY <1>0, <2>1, <2>2, BaseFacts, StartBase
    <2>4. Ready'
      <3>1. Configured' /\ Loaded' /\ Extracting' /\ Applied' /\ Versioned'
        BY <1>0, <1>3, <2>1, <2>2 DEF Base, Ready, Configured, Loaded, Extracting, Applied, Versioned,
             Same, InUse, Up
      <3>2. Journaled'
        BY <1>0, <1>3, <2>1, <2>2, ArchiveFacts DEF Base, Ready, Journaled, Same
      <3> QED BY <3>1, <3>2 DEF Ready
    <2> QED BY <2>1, <2>3, <2>4 DEF Base
  <1> QED BY <1>0, <1>1, <1>2, <1>3 DEF Zips

\* An entry of the pending archive that is being extracted.
LEMMA EntryFacts ==
  ASSUME Base, proc.at = "extract"
  PROVE  /\ pend \in Archives /\ begun /\ ~Up
         /\ proc.todo \subseteq DOMAIN pend.entries /\ DOMAIN pend.entries \subseteq Entries
         /\ InUse("db") /\ (InUse("conf") <=> ~setup.apart)
  BY ArchiveFacts DEF Base, Ready, Extracting, Up, InUse

LEMMA TruncateStep ==
  ASSUME Base, NEW e \in Entries, Truncate(e)
  PROVE  Base' /\ Same
  <1>0. /\ Same /\ UNCHANGED <<proc, mem, pend, begun, odd, left>> /\ proc.at = "extract"
        /\ e \in proc.todo /\ InUse(e)
    BY DEF Truncate, auth, zips, Same
  <1>a. /\ pend \in Archives /\ begun /\ ~Up /\ proc.todo \subseteq DOMAIN pend.entries
        /\ DOMAIN pend.entries \subseteq Entries
    BY <1>0, EntryFacts
  <1>1. CASE e = "conf"
    <2>1. disk' = [disk EXCEPT !["conf"] = Torn] /\ journal' = journal
      BY <1>1 DEF Truncate, Empty
    <2>2. disk' \in Disk /\ disk'.conf = Torn /\ disk'.db = disk.db
      BY <2>1, BaseFacts, DiskConf
    <2>3. TypeOK' /\ Quiet'
      BY <1>0, <1>a, <2>1, <2>2, BaseFacts, StartBase
    <2>4. Ready'
      <3>1. Configured' /\ Loaded' /\ Applied' /\ Versioned'
        BY <1>0, <2>2, SpecialAssumption DEF Base, Ready, Configured, Loaded, Applied, Versioned, Same, Up
      <3>2. Extracting'
        BY <1>0, <1>a, <1>1, <2>1, <2>2 DEF Base, Ready, Extracting, Same, InUse, Entries
      <3>3. Journaled'
        BY <1>0, <2>1, <2>2 DEF Base, Ready, Journaled, Same
      <3> QED BY <3>1, <3>2, <3>3 DEF Ready
    <2> QED BY <1>0, <2>3, <2>4 DEF Base
  <1>2. CASE e = "db"
    <2>1. /\ disk' = [disk EXCEPT !["db"] = NoDb]
          /\ journal' = IF journal = "own" THEN "foreign" ELSE journal
      BY <1>2 DEF Truncate, Empty
    <2>2. disk' \in Disk /\ disk'.conf = disk.conf /\ disk'.db = NoDb
      BY <2>1, BaseFacts, DiskDb, NoDbType
    <2>3. journal' \in {"none", "foreign"}
      BY <2>1, BaseFacts
    <2>4. TypeOK' /\ Quiet'
      BY <1>0, <1>a, <2>2, <2>3, BaseFacts, StartBase
    <2>5. Ready'
      <3>1. Configured' /\ Loaded' /\ Applied'
        BY <1>0, <2>2 DEF Base, Ready, Configured, Loaded, Applied, Same, Up
      <3>2. Extracting'
        BY <1>0, <1>a, <1>2, <2>2, <2>3 DEF Base, Ready, Extracting, Same, InUse, Entries
      <3>3. Journaled'
        BY <1>0, <1>a, <1>2, <2>2, <2>3 DEF Journaled, Same
      <3>4. Versioned'
        BY <1>0, <2>2, NoDbType DEF Versioned, Up
      <3> QED BY <3>1, <3>2, <3>3, <3>4 DEF Ready
    <2> QED BY <1>0, <2>4, <2>5 DEF Base
  <1> QED BY <1>1, <1>2 DEF Entries

LEMMA FillStep ==
  ASSUME Base, NEW e \in Entries, Fill(e)
  PROVE  Base' /\ Same
  <1>0. /\ UNCHANGED <<setup, journal, tmp, pend, begun, odd, left>> /\ proc.at = "extract"
        /\ e \in proc.todo /\ (InUse(e) => disk[e] = Empty(e))
    BY DEF Fill
  <1>a. /\ pend \in Archives /\ begun /\ ~Up /\ proc.todo \subseteq DOMAIN pend.entries
        /\ DOMAIN pend.entries \subseteq Entries
        /\ InUse("db") /\ (InUse("conf") <=> ~setup.apart)
    BY <1>0, EntryFacts
  <1>1. CASE e \in pend.broken
    <2>1. Fatal /\ UNCHANGED disk
      BY <1>1 DEF Fill
    <2> QED BY <1>0, <1>a, <2>1, FatalBase
  <1>2. CASE e \notin pend.broken
    <2>1. /\ proc' = [proc EXCEPT !.todo = @ \ {e}] /\ Same /\ mem' = mem
          /\ disk' = IF InUse(e) THEN [disk EXCEPT ![e] = pend.entries[e]] ELSE disk
      BY <1>0, <1>2 DEF Fill, Same
    <2>2. proc' \in Process /\ proc'.at = "extract" /\ proc'.todo = proc.todo \ {e}
      BY <1>0, <2>1, BaseFacts DEF Process
    <2>3. CASE ~InUse(e)
      <3>1. disk' = disk
        BY <2>1, <2>3
      <3>2. TypeOK' /\ Quiet'
        BY <1>0, <1>a, <2>1, <2>2, <3>1, BaseFacts, StartBase
      <3>3. Ready'
        <4>1. Configured' /\ Loaded' /\ Applied' /\ Versioned' /\ Journaled'
          BY <1>0, <2>1, <2>2, <3>1 DEF Base, Ready, Configured, Loaded, Applied, Versioned, Journaled, Same, Up
        <4>2. Extracting'
          BY <1>0, <1>a, <2>1, <2>2, <2>3, <3>1 DEF Base, Ready, Extracting, Same, InUse
        <4> QED BY <4>1, <4>2 DEF Ready
      <3> QED BY <2>1, <3>2, <3>3 DEF Base
    <2>4. CASE e = "conf" /\ InUse(e)
      <3>0. pend.entries["conf"] \in Passwords \cup {Torn} /\ pend.entries["conf"] # Missing
        BY <1>0, <1>a, <2>4, ArchiveFacts
      <3>1. disk' = [disk EXCEPT !["conf"] = pend.entries["conf"]]
        BY <2>1, <2>4
      <3>2. disk' \in Disk /\ disk'.conf = pend.entries["conf"] /\ disk'.db = disk.db
        BY <3>0, <3>1, BaseFacts, DiskConf
      <3>3. TypeOK' /\ Quiet'
        BY <1>0, <1>a, <2>1, <2>2, <3>2, BaseFacts, StartBase
      <3>4. Ready'
        <4>1. Configured' /\ Loaded' /\ Applied' /\ Versioned' /\ Journaled'
          BY <1>0, <1>a, <2>1, <2>2, <2>4, <3>0, <3>2 DEF Base, Ready, Configured, Loaded, Applied, Versioned,
               Journaled, Same, Up
        <4>2. Extracting'
          BY <1>0, <1>a, <2>1, <2>2, <2>4, <3>2 DEF Base, Ready, Extracting, Same, InUse, Entries
        <4> QED BY <4>1, <4>2 DEF Ready
      <3> QED BY <2>1, <3>3, <3>4 DEF Base
    <2>5. CASE e = "db"
      <3>0. pend.entries["db"] \in Db /\ 1..pend.entries["db"].version \subseteq pend.entries["db"].parts
        BY <1>0, <1>a, <2>5, ArchiveFacts
      <3>1. disk' = [disk EXCEPT !["db"] = pend.entries["db"]]
        BY <1>a, <2>1, <2>5
      <3>2. disk' \in Disk /\ disk'.conf = disk.conf /\ disk'.db = pend.entries["db"]
        BY <3>0, <3>1, BaseFacts, DiskDb
      <3>3. journal # "own"
        BY <1>0, <1>a, <2>5, NoDbType DEF Base, Ready, Journaled, Empty
      <3>4. TypeOK' /\ Quiet'
        BY <1>0, <1>a, <2>1, <2>2, <3>2, BaseFacts, StartBase
      <3>5. Ready'
        <4>1. Configured' /\ Loaded' /\ Applied'
          BY <1>0, <2>1, <2>2, <3>2 DEF Base, Ready, Configured, Loaded, Applied, Same, Up
        <4>2. Extracting'
          BY <1>0, <1>a, <2>1, <2>2, <2>5, <3>2, <3>3 DEF Base, Ready, Extracting, Same, InUse, Entries
        <4>3. Journaled'
          BY <1>0, <1>a, <2>2, <2>5, <3>3 DEF Base, Ready, Journaled
        <4>4. Versioned'
          BY <1>0, <2>2, <3>0, <3>2 DEF Versioned, Up
        <4> QED BY <4>1, <4>2, <4>3, <4>4 DEF Ready
      <3> QED BY <2>1, <3>4, <3>5 DEF Base
    <2> QED BY <1>a, <2>3, <2>4, <2>5 DEF Entries
  <1> QED BY <1>1, <1>2
LEMMA RefuseStep ==
  ASSUME Base, Refuse
  PROVE  Base' /\ Same
  <1>1. ~Up /\ Fatal /\ UNCHANGED <<setup, disk, journal, tmp, pend, begun, odd, left>>
    BY DEF Refuse, Up
  <1> QED BY <1>1, FatalBase

LEMMA RemoveStep ==
  ASSUME Base, Remove
  PROVE  Base' /\ Same
  <1>0. /\ Same /\ UNCHANGED <<disk, journal, mem, odd, left>> /\ proc.at = "extract"
        /\ proc.todo = {} /\ pend' = None /\ begun' = FALSE
    BY DEF Remove, Goes, Same
  <1>1. /\ pend \in Archives /\ begun /\ ~Up
    BY <1>0, EntryFacts
  <1>2. proc' \in Process /\ proc'.at = "load"
    BY AtType, PhasesAre DEF Remove, Goes
  <1>3. TypeOK' /\ Quiet'
    BY <1>0, <1>1, <1>2, BaseFacts, StartBase
  <1>4. Ready'
    BY <1>0, <1>1, <1>2 DEF Base, Ready, Configured, Loaded, Extracting, Applied, Journaled, Versioned,
         Same, InUse, Up
  <1> QED BY <1>0, <1>3, <1>4 DEF Base

LEMMA LoadStep ==
  ASSUME Base, LoadRuntimeConfig
  PROVE  Base' /\ Same
  <1>0. /\ ~Up /\ UNCHANGED <<setup, disk, journal, tmp, pend, begun, odd, left>> /\ proc.at = "load"
    BY DEF LoadRuntimeConfig, Up
  <1>1. CASE disk.conf = Torn
    <2>1. Fatal
      BY <1>1 DEF LoadRuntimeConfig
    <2> QED BY <1>0, <2>1, FatalBase
  <1>2. CASE disk.conf # Torn
    <2>1. /\ Same /\ mem' = IF setup.env # None THEN setup.env ELSE disk.conf
          /\ \/ proc' = At("apply") /\ setup.apart
             \/ proc' = At("open") /\ ~setup.apart
      BY <1>0, <1>2 DEF LoadRuntimeConfig, Goes, Same
    <2>2. /\ proc' \in Process
          /\ \/ proc'.at = "apply" /\ setup.apart
             \/ proc'.at = "open" /\ ~setup.apart
      BY <2>1, AtType, PhasesAre
    <2>3. disk.conf \in Passwords
      BY <1>0, <1>2, BaseFacts DEF Base, Ready, Configured
    <2>4. setup.env \in Passwords \cup {None}
      BY SetupsAssumption DEF Base, TypeOK
    <2>5. mem' \in Passwords /\ (setup.env = None => mem' = disk.conf)
      BY <2>1, <2>3, <2>4
    <2>6. TypeOK' /\ Quiet'
      BY <1>0, <2>1, <2>2, <2>5, BaseFacts, StartBase
    <2>7. Ready'
      <3>1. Configured' /\ Loaded'
        BY <1>0, <2>1, <2>2, <2>3, <2>5 DEF Base, Ready, Configured, Loaded, Same, Up
      <3>2. Extracting'
        BY <1>0, <2>1, <2>2, ArchiveFacts DEF Base, Ready, Extracting, Applied, Same, InUse
      <3>3. Applied' /\ Journaled' /\ Versioned'
        BY <1>0, <2>1, <2>2 DEF Base, Ready, Applied, Journaled, Versioned, Same, Up
      <3> QED BY <3>1, <3>2, <3>3 DEF Ready
    <2> QED BY <2>1, <2>6, <2>7 DEF Base
  <1> QED BY <1>1, <1>2

LEMMA OpenStep ==
  ASSUME Base, Open
  PROVE  Base' /\ Same
  <1>0. /\ ~Up /\ UNCHANGED <<setup, tmp, pend, begun, odd, left>> /\ proc.at = "open"
        /\ journal' = "none" /\ pend = None /\ ~begun
    BY DEF Open, Up, Base, Ready, Applied, Extracting
  <1>1. /\ disk' \in Disk /\ disk'.conf = disk.conf /\ disk'.db.version = disk.db.version
        /\ disk'.db.parts = disk.db.parts
    <2>1. CASE journal = "foreign"
      <3>1. disk' = [disk EXCEPT !.db.data = Spoilt]
        BY <2>1 DEF Open
      <3> QED BY <3>1, BaseFacts, DiskData
    <2>2. CASE journal # "foreign"
      BY <2>2, BaseFacts DEF Open
    <2> QED BY <2>1, <2>2
  <1>2. CASE disk'.db.data # Torn /\ Goes("migrate") /\ UNCHANGED mem
    <2>1. Same /\ proc' \in Process /\ proc'.at = "migrate"
      BY <1>0, <1>2, AtType, PhasesAre DEF Goes, Same
    <2>2. TypeOK' /\ Quiet'
      BY <1>0, <1>1, <1>2, <2>1, BaseFacts, StartBase
    <2>3. Ready'
      BY <1>0, <1>1, <1>2, <2>1 DEF Base, Ready, Configured, Loaded, Extracting, Applied, Journaled,
           Versioned, Same, InUse, Up
    <2> QED BY <2>1, <2>2, <2>3 DEF Base
  <1>3. CASE Fatal
    <2>1. Same /\ proc' \in Process /\ proc'.at = "off" /\ mem' = None
      BY <1>0, <1>3, AtType, PhasesAre DEF Fatal, Same
    <2>2. TypeOK' /\ Quiet'
      BY <1>0, <1>1, <2>1, BaseFacts, StartBase
    <2>3. Ready'
      BY <1>0, <1>1, <2>1 DEF Base, Ready, Configured, Loaded, Extracting, Applied, Journaled,
           Versioned, Same, InUse, Up
    <2> QED BY <2>1, <2>2, <2>3 DEF Base
  <1> QED BY <1>2, <1>3 DEF Open

\* The migrations leave everything but the schema as it is.
LEMMA SchemaBase ==
  ASSUME Base, proc.at \in {"migrate", "record"}, Same, UNCHANGED <<journal, pend, mem, begun>>,
         disk' \in Disk, disk'.conf = disk.conf, disk'.db.data = disk.db.data,
         proc' \in Process, proc'.at \in {"migrate", "record", "up"},
         odd' \in {odd, odd \cup {"altered"}}, left' \in [troubles: Nat, asks: Nat, writes: Nat],
         Versioned'
  PROVE  Base' /\ Same
  <1>1. ~Up
    BY DEF Up
  <1>2. TypeOK' /\ Quiet'
    BY <1>1, BaseFacts, StartBase
  <1>3. Ready'
    BY <1>1 DEF Base, Ready, Configured, Loaded, Extracting, Applied, Journaled, Same, InUse, Up
  <1> QED BY <1>2, <1>3 DEF Base

LEMMA VersionStep ==
  ASSUME NEW v \in Nat, NEW S, 1..v \subseteq S, v + 1 \in S
  PROVE  1..(v + 1) \subseteq S
  BY Z3

LEMMA MigrateStep ==
  ASSUME Base, NEW k \in Versions, MigrateStrict(k) \/ MigrateLoose(k) \/ AlterFails(k)
  PROVE  Base' /\ Same
  <1>0. /\ proc.at = "migrate" /\ k = disk.db.version + 1 /\ k <= Last /\ k \in Nat /\ k # 0
        /\ UNCHANGED <<setup, journal, tmp, pend, begun>> /\ Last \in Nat
        /\ disk.db.version \in Nat /\ ~Up
    BY BaseFacts, KindAssumption DEF MigrateStrict, MigrateLoose, AlterFails, Migrating, Versions, Up
  <1>a. 1..disk.db.version \subseteq disk.db.parts \/ "altered" \in odd
    BY DEF Base, Ready, Versioned
  <1>b. k \in Versions /\ k \in 0..Last /\ disk.db.version \in 0..Last /\ disk \in Disk
    BY <1>0, BaseFacts DEF Versions
  <1>c. Adds(k) \in SUBSET Versions /\ k \in Adds(k)
    BY <1>0, <1>b, KindAssumption DEF Adds, Versions
  <1>1. CASE MigrateStrict(k) /\ k \in disk.db.parts
    <2>1. Fatal /\ UNCHANGED <<disk, odd, left>>
      BY <1>1 DEF MigrateStrict
    <2> QED BY <1>0, <2>1, FatalBase
  <1>2. CASE MigrateStrict(k) /\ k \notin disk.db.parts
    <2>1. /\ disk' = [disk EXCEPT !.db.parts = @ \cup Adds(k), !.db.version = k]
          /\ Goes("migrate") /\ UNCHANGED <<mem, odd, left>>
      BY <1>2 DEF MigrateStrict
    <2>2. /\ disk' \in Disk /\ disk'.conf = disk.conf /\ disk'.db.data = disk.db.data
          /\ disk'.db.version = k /\ disk'.db.parts = disk.db.parts \cup Adds(k)
      <3> DEFINE S == Adds(k)
      <3>1. S \in SUBSET Versions /\ disk' = [disk EXCEPT !.db.parts = @ \cup S, !.db.version = k]
        BY <1>c, <2>1
      <3> HIDE DEF S
      <3>2. /\ disk' \in Disk /\ disk'.conf = disk.conf /\ disk'.db.data = disk.db.data
            /\ disk'.db.version = k /\ disk'.db.parts = disk.db.parts \cup S
        <4>1. disk \in Disk /\ k \in 0..Last /\ S \in SUBSET Versions
          BY <1>b, <3>1
        <4> QED BY <4>1, <3>1 DEF Disk, Db
      <3> QED BY <3>2 DEF S
    <2>3. Same /\ proc' \in Process /\ proc'.at = "migrate"
      BY <1>0, <2>1, AtType, PhasesAre DEF Goes, Same
    <2>4. 1..k \subseteq disk'.db.parts \/ "altered" \in odd
      BY <1>0, <1>a, <1>c, <2>2, VersionStep
    <2>5. Versioned'
      BY <2>1, <2>2, <2>3, <2>4 DEF Versioned, Up
    <2> QED BY <1>0, <2>1, <2>2, <2>3, <2>5, BaseFacts, SchemaBase
  <1>3. CASE MigrateLoose(k)
    <2>1. /\ disk' = [disk EXCEPT !.db.parts = @ \cup {k}]
          /\ Goes("record") /\ UNCHANGED <<mem, odd, left>>
      BY <1>3 DEF MigrateLoose
    <2>2. /\ disk' \in Disk /\ disk'.conf = disk.conf /\ disk'.db.data = disk.db.data
          /\ disk'.db.version = disk.db.version /\ disk'.db.parts = disk.db.parts \cup {k}
      <3>1. {k} \in SUBSET Versions /\ disk \in Disk
        BY <1>b
      <3>2. disk' = [disk EXCEPT !.db.parts = @ \cup {k}]
        BY <2>1
      <3> DEFINE S == {k}
      <3>3. S \in SUBSET Versions /\ disk' = [disk EXCEPT !.db.parts = @ \cup S]
        BY <3>1, <3>2
      <3> HIDE DEF S
      <3>4. /\ disk' \in Disk /\ disk'.conf = disk.conf /\ disk'.db.data = disk.db.data
            /\ disk'.db.version = disk.db.version /\ disk'.db.parts = disk.db.parts \cup S
        BY <3>1, <3>3, DiskPart
      <3> QED BY <3>4 DEF S
    <2>3. Same /\ proc' \in Process /\ proc'.at = "record"
      BY <1>0, <2>1, AtType, PhasesAre DEF Goes, Same
    <2>4. disk.db.version < Last
      BY <1>0
    <2>5. Versioned'
      BY <1>0, <1>a, <2>1, <2>2, <2>3, <2>4 DEF Versioned, Up
    <2> QED BY <1>0, <2>1, <2>2, <2>3, <2>5, BaseFacts, SchemaBase
  <1>4. CASE AlterFails(k)
    <2>1. /\ Goes("record") /\ UNCHANGED <<disk, mem>> /\ odd' = odd \cup {"altered"}
          /\ left' \in [troubles: Nat, asks: Nat, writes: Nat]
      BY <1>4, BaseFacts DEF AlterFails
    <2>2. Same /\ proc' \in Process /\ proc'.at = "record"
      BY <1>0, <2>1, AtType, PhasesAre DEF Goes, Same
    <2>3. disk.db.version < Last
      BY <1>0
    <2>4. Versioned'
      BY <2>1, <2>2, <2>3 DEF Versioned, Up
    <2> QED BY <1>0, <1>b, <2>1, <2>2, <2>4, SchemaBase
  <1> QED BY <1>1, <1>2, <1>3, <1>4

LEMMA RecordStep ==
  ASSUME Base, RecordVersion
  PROVE  Base' /\ Same
  <1>0. /\ proc.at = "record" /\ UNCHANGED <<setup, journal, tmp, pend, begun, mem, odd, left>>
        /\ disk' = [disk EXCEPT !.db.version = @ + 1] /\ Goes("migrate")
    BY DEF RecordVersion
  <1>1. /\ disk.db.version < Last /\ disk.db.version \in Nat /\ Last \in Nat /\ disk \in Disk
        /\ disk.db.version + 1 \in 0..Last
    BY <1>0, BaseFacts, KindAssumption DEF Base, Ready, Versioned
  <1>2. disk' = [disk EXCEPT !.db.version = disk.db.version + 1]
    BY <1>0
  <1>3. /\ disk' \in Disk /\ disk'.conf = disk.conf /\ disk'.db.data = disk.db.data
        /\ disk'.db.version = disk.db.version + 1 /\ disk'.db.parts = disk.db.parts
    BY <1>1, <1>2, DiskVersion
  <1>4. Same /\ proc' \in Process /\ proc'.at = "migrate"
    BY <1>0, AtType, PhasesAre DEF Goes, Same
  <1>5. 1..(disk.db.version + 1) \subseteq disk.db.parts \/ "altered" \in odd
    BY <1>0, <1>1, VersionStep DEF Base, Ready, Versioned
  <1>6. Versioned'
    BY <1>0, <1>3, <1>4, <1>5 DEF Versioned, Up
  <1> QED BY <1>0, <1>3, <1>4, <1>6, BaseFacts, SchemaBase

LEMMA ListenStep ==
  ASSUME Base, ListenAndServe
  PROVE  Base' /\ Same
  <1>0. /\ proc.at = "migrate" /\ disk.db.version = Last /\ Goes("up")
        /\ UNCHANGED <<setup, disk, journal, tmp, pend, mem, begun, odd, left>>
    BY DEF ListenAndServe
  <1>1. Same /\ proc' \in Process /\ proc'.at = "up"
    BY <1>0, AtType, PhasesAre DEF Goes, Same
  <1>2. Versioned'
    BY <1>0, <1>1 DEF Base, Ready, Versioned, Up
  <1> QED BY <1>0, <1>1, <1>2, BaseFacts, SchemaBase

LEMMA StartingStep ==
  ASSUME Base, Starting \/ \E k \in Versions : AlterFails(k)
  PROVE  Base' /\ Same
  BY StartStep, StatStep, DefaultsStep, ApplyStep, TruncateStep, FillStep, RefuseStep, RemoveStep,
     LoadStep, OpenStep, MigrateStep, RecordStep, ListenStep DEF Starting
---------------------------------------------------------------------------
(* Serving. *)

(* authMu is held by one request at a time, *)
Mutex ==
  \A q, r \in Requests : req[q].at \in Holding /\ req[r].at \in Holding => q = r
(* which knows the password in force, *)
Holders ==
  \A r \in Requests :
    /\ req[r].at \in {"checked", "updated", "revoked"} => req[r].new = mem
    /\ req[r].at \in {"held", "torn", "saved"} => req[r].by = mem
(* while a token that waits is the one that it was, or none. *)
Waiting ==
  \A r \in Requests :
    req[r].at = "waiting" /\ req[r].token \in DOMAIN sess => sess[req[r].token] = req[r].by
(* Between a change in memory and the revocation sessions are old. *)
Current ==
  Up /\ (\A r \in Requests : req[r].at # "updated") => \A t \in DOMAIN sess : sess[t] = mem
(* The file, with no password in the environment. *)
Stored ==
  Up /\ setup.env = None =>
    /\ \A r \in Requests : /\ req[r].at = "torn" => disk.conf = Torn
                           /\ req[r].at = "saved" => disk.conf = req[r].new
    /\ (\A r \in Requests : req[r].at \notin {"torn", "saved"}) =>
         disk.conf = mem \/ (disk.conf = Torn /\ "halfsaved" \in odd)

Sessions == Mutex /\ Holders /\ Waiting /\ Current /\ Stored

LEMMA NoSessionsFacts ==
  /\ DOMAIN NoSessions = {}
  /\ \E T \in SUBSET Tokens : NoSessions \in [T -> Passwords]
  <1>1. DOMAIN NoSessions = {} /\ NoSessions \in [{} -> Passwords]
    BY DEF NoSessions
  <1>2. {} \in SUBSET Tokens
    OBVIOUS
  <1> QED BY <1>1, <1>2

LEMMA SessFacts ==
  ASSUME TypeOK
  PROVE  DOMAIN sess \subseteq Tokens /\ sess \in [DOMAIN sess -> Passwords]
  <1>1. PICK T \in SUBSET Tokens : sess \in [T -> Passwords]
    BY DEF TypeOK
  <1> QED BY <1>1

LEMMA IdleSessions ==
  ASSUME \A r \in Requests : req[r] = Idle, sess = NoSessions,
         Up /\ setup.env = None => disk.conf = mem
  PROVE  Sessions
  <1>1. Idle.at = "idle"
    BY DEF Idle
  <1> QED BY <1>1, NoSessionsFacts
          DEF Sessions, Mutex, Holders, Waiting, Current, Stored, Holding

\* The files of a program that serves.
LEMMA ServeBase ==
  ASSUME Base, Up, proc' = proc, setup' = setup, begun' = begun, mem' \in Passwords,
         journal' \in {"none", "own"}, disk'.conf # Missing, disk'.db.data # Torn,
         disk'.db.version = disk.db.version, disk'.db.parts = disk.db.parts,
         odd' = odd \/ \E x : odd' = odd \cup {x}
  PROVE  Ready' /\ Quiet' /\ Up'
  <1>1. proc.at = "up" /\ proc'.at = "up" /\ ~begun /\ Up'
    BY DEF Up, Base, Ready, Extracting
  <1>2. Configured' /\ Loaded' /\ Extracting' /\ Applied' /\ Journaled'
    BY <1>1 DEF Configured, Loaded, Extracting, Applied, Journaled, Up
  <1>3. Versioned'
    BY <1>1 DEF Base, Ready, Versioned, Up
  <1>4. Quiet'
    BY <1>1 DEF Quiet
  <1> QED BY <1>1, <1>2, <1>3, <1>4 DEF Ready

LEMMA UpFacts ==
  ASSUME Base, Up
  PROVE  /\ mem \in Passwords /\ journal \in {"none", "own"} /\ disk.conf # Missing /\ ~begun
         /\ disk.db.data # Torn /\ disk \in Disk
  BY BaseFacts DEF Base, Ready, Configured, Loaded, Extracting, Journaled, Up

\* A request, and how it goes on.
LEMMA ReqFacts ==
  ASSUME Base, NEW r \in Requests, req[r].at # "idle"
  PROVE  /\ Up /\ req[r] \in Asking /\ req \in [Requests -> Asking \cup {Idle}]
         /\ req[r].token \in Tokens \cup {None} /\ req[r].by \in Passwords /\ req[r].new \in Passwords
  <1>1. req \in [Requests -> Asking \cup {Idle}] /\ Idle.at = "idle"
    BY DEF Base, TypeOK, Idle
  <1>2. Up /\ req[r] \in Asking
    BY <1>1 DEF Base, Quiet
  <1> QED BY <1>1, <1>2 DEF Asking

LEMMA StepFacts ==
  ASSUME Base, NEW r \in Requests, req[r].at # "idle", NEW phase \in Holding, Step(r, phase)
  PROVE  /\ req' \in [Requests -> Asking \cup {Idle}]
         /\ \A q \in Requests : q # r => req'[q] = req[q]
         /\ req'[r].at = phase /\ req'[r].token = req[r].token
         /\ req'[r].by = req[r].by /\ req'[r].new = req[r].new
  <1> DEFINE e == [req[r] EXCEPT !.at = phase]
  <1>1. req[r] \in Asking /\ req \in [Requests -> Asking \cup {Idle}]
    BY ReqFacts
  <1>2. /\ e \in Asking /\ e.at = phase /\ e.token = req[r].token /\ e.by = req[r].by
        /\ e.new = req[r].new
    BY <1>1 DEF Asking
  <1>3. req' = [req EXCEPT ![r] = e]
    BY DEF Step
  <1> HIDE DEF e
  <1> QED BY <1>1, <1>2, <1>3

LEMMA BackFacts ==
  ASSUME Base, NEW r \in Requests, Back(r)
  PROVE  /\ req' \in [Requests -> Asking \cup {Idle}]
         /\ \A q \in Requests : q # r => req'[q] = req[q]
         /\ req'[r].at = "idle"
  BY DEF Base, TypeOK, Back, Idle

LEMMA BeginFacts ==
  ASSUME Base, NEW r \in Requests, NEW at \in Holding \cup {"waiting"}, NEW token \in Tokens \cup {None},
         NEW by \in Passwords, NEW new \in Passwords,
         req' = [req EXCEPT ![r] = [at |-> at, token |-> token, by |-> by, new |-> new]]
  PROVE  /\ req' \in [Requests -> Asking \cup {Idle}]
         /\ \A q \in Requests : q # r => req'[q] = req[q]
         /\ req'[r].at = at /\ req'[r].token = token /\ req'[r].by = by /\ req'[r].new = new
  <1> DEFINE e == [at |-> at, token |-> token, by |-> by, new |-> new]
  <1>1. e \in Asking /\ e.at = at /\ e.token = token /\ e.by = by /\ e.new = new
    BY DEF Asking
  <1>2. req' = [req EXCEPT ![r] = e] /\ req \in [Requests -> Asking \cup {Idle}]
    BY DEF Base, TypeOK
  <1> HIDE DEF e
  <1> QED BY <1>1, <1>2
\* A step of a request, given what it does.
LEMMA AuthBase ==
  ASSUME Base, Up, UNCHANGED <<setup, journal, proc, tmp, pend, upl, restart, begun>>,
         disk' \in Disk, disk'.conf # Missing, disk'.db = disk.db, mem' \in Passwords,
         \E T \in SUBSET Tokens : sess' \in [T -> Passwords],
         req' \in [Requests -> Asking \cup {Idle}],
         odd' \in {odd, odd \cup {"halfsaved"}}, left' \in [troubles: Nat, asks: Nat, writes: Nat]
  PROVE  Base' /\ Up'
  <1>1. Ready' /\ Quiet' /\ Up'
    BY UpFacts, ServeBase
  <1>2. TypeOK'
    <2>1. /\ setup \in Setups /\ journal \in {"none", "own", "foreign"} /\ tmp \in Zips /\ pend \in Zips
          /\ proc \in Process /\ upl \in [Uploads -> Sending \cup {Unsent, Sent}]
          /\ restart \in BOOLEAN /\ begun \in BOOLEAN
          /\ odd \in SUBSET {"halfsaved", "crossed", "altered"}
      BY DEF Base, TypeOK, Process
    <2>2. odd' \in SUBSET {"halfsaved", "crossed", "altered"}
      BY <2>1
    <2> QED BY <2>1, <2>2 DEF TypeOK, Disk, Process
  <1> QED BY <1>1, <1>2 DEF Base

Frame == UNCHANGED <<setup, journal, proc, tmp, pend, upl, restart, begun>>

LEMMA LoginStep ==
  ASSUME Base, Sessions, NEW r \in Requests, Login(r)
  PROVE  Base' /\ Sessions' /\ Frame
  <1>0. /\ Up /\ Frame /\ UNCHANGED <<disk, mem, sess, odd>> /\ req[r] = Idle /\ Unlocked
        /\ req' = [req EXCEPT ![r] = [at |-> "checked", token |-> None, by |-> mem, new |-> mem]]
        /\ left' \in [troubles: Nat, asks: Nat, writes: Nat]
    BY BaseFacts DEF Login, Asks, zips, Frame
  <1>1. /\ req' \in [Requests -> Asking \cup {Idle}]
        /\ \A q \in Requests : q # r => req'[q] = req[q]
        /\ req'[r].at = "checked" /\ req'[r].token = None /\ req'[r].by = mem /\ req'[r].new = mem
    BY <1>0, UpFacts, BeginFacts DEF Holding
  <1>2. Base' /\ Up'
    BY <1>0, <1>1, UpFacts, AuthBase DEF Base, TypeOK, Frame
  <1>3. \A q \in Requests : req[q].at \notin Holding
    BY <1>0 DEF Unlocked
  <1>4. Mutex' /\ Holders' /\ Waiting'
    BY <1>0, <1>1, <1>3 DEF Sessions, Mutex, Holders, Waiting
  <1>5. Current' /\ Stored'
    BY <1>0, <1>1, <1>3 DEF Sessions, Current, Stored, Holding, Frame
  <1> QED BY <1>0, <1>2, <1>4, <1>5 DEF Sessions

LEMMA SetStep ==
  ASSUME Base, Sessions, NEW r \in Requests, Set(r)
  PROVE  Base' /\ Sessions' /\ Frame
  <1>0. /\ Frame /\ UNCHANGED <<disk, mem, odd, left>> /\ req[r].at \in {"checked", "revoked"}
        /\ Back(r)
    BY DEF Set, zips, Frame
  <1>1. /\ Up /\ req[r].new \in Passwords /\ req[r].new = mem
    BY <1>0, ReqFacts DEF Sessions, Holders
  <1>2. /\ req' \in [Requests -> Asking \cup {Idle}]
        /\ \A q \in Requests : q # r => req'[q] = req[q]
        /\ req'[r].at = "idle"
    BY <1>0, BackFacts
  <1>3. PICK t \in Tokens \ (DOMAIN sess \cup {req[q].token : q \in {q \in Requests : req[q] # Idle}}) :
          sess' = [s \in DOMAIN sess \cup {t} |-> IF s = t THEN req[r].new ELSE sess[s]]
    BY DEF Set
  <1>4. \E T \in SUBSET Tokens : sess' \in [T -> Passwords]
    <2>1. DOMAIN sess \subseteq Tokens /\ sess \in [DOMAIN sess -> Passwords]
      BY SessFacts DEF Base
    <2>2. DOMAIN sess \cup {t} \in SUBSET Tokens
      BY <2>1
    <2>3. sess' \in [DOMAIN sess \cup {t} -> Passwords]
      BY <1>1, <1>3, <2>1
    <2> QED BY <2>2, <2>3
  <1>5. Base' /\ Up'
    BY <1>0, <1>1, <1>2, <1>4, BaseFacts, UpFacts, AuthBase DEF Frame
  <1>6. Mutex' /\ Holders'
    BY <1>0, <1>2 DEF Sessions, Mutex, Holders, Holding
  <1>7. Waiting'
    <2> SUFFICES ASSUME NEW q \in Requests, req'[q].at = "waiting", req'[q].token \in DOMAIN sess'
                 PROVE  sess'[req'[q].token] = req'[q].by
      BY DEF Waiting
    <2>1. q # r /\ req'[q] = req[q] /\ req[q] # Idle
      BY <1>2 DEF Idle
    <2>2. req[q].token # t
      BY <2>1
    <2> QED BY <1>3, <2>1, <2>2 DEF Sessions, Waiting
  <1>8. Current' /\ Stored'
    <2>1. \A q \in Requests : req[q].at \notin {"updated", "torn", "saved"}
      BY <1>0 DEF Sessions, Mutex, Holding
    <2> QED BY <1>0, <1>1, <1>2, <1>3, <2>1 DEF Sessions, Current, Stored, Frame
  <1> QED BY <1>0, <1>5, <1>6, <1>7, <1>8 DEF Sessions

LEMMA SetFailsStep ==
  ASSUME Base, Sessions, NEW r \in Requests, SetFails(r)
  PROVE  Base' /\ Sessions' /\ Frame
  <1>0. /\ Frame /\ UNCHANGED <<disk, mem, sess, odd, left>> /\ req[r].at \in {"checked", "revoked"}
        /\ Back(r)
    BY DEF SetFails, zips, Frame
  <1>1. Up
    BY <1>0, ReqFacts
  <1>2. /\ req' \in [Requests -> Asking \cup {Idle}]
        /\ \A q \in Requests : q # r => req'[q] = req[q]
        /\ req'[r].at = "idle"
    BY <1>0, BackFacts
  <1>3. Base' /\ Up'
    BY <1>0, <1>1, <1>2, BaseFacts, UpFacts, AuthBase DEF Frame, Base, TypeOK
  <1>4. Mutex' /\ Holders' /\ Waiting'
    BY <1>0, <1>2 DEF Sessions, Mutex, Holders, Waiting, Holding
  <1>5. Current' /\ Stored'
    <2>1. \A q \in Requests : req[q].at \notin {"updated", "torn", "saved"}
      BY <1>0 DEF Sessions, Mutex, Holding
    <2> QED BY <1>0, <1>1, <1>2, <2>1 DEF Sessions, Current, Stored, Frame
  <1> QED BY <1>0, <1>3, <1>4, <1>5 DEF Sessions

LEMMA LeaveStep ==
  ASSUME Base, Sessions, NEW t \in Tokens, Leave(t)
  PROVE  Base' /\ Sessions' /\ Frame
  <1>0. /\ Frame /\ UNCHANGED <<disk, mem, req, odd, left>> /\ Up
        /\ sess' = [s \in DOMAIN sess \ {t} |-> sess[s]]
    BY DEF Leave, zips, Frame
  <1>1. DOMAIN sess' \subseteq DOMAIN sess /\ \A s \in DOMAIN sess' : sess'[s] = sess[s]
    BY <1>0
  <1>2. \E T \in SUBSET Tokens : sess' \in [T -> Passwords]
    <2>1. DOMAIN sess \subseteq Tokens /\ sess \in [DOMAIN sess -> Passwords]
      BY SessFacts DEF Base
    <2>2. sess' \in [DOMAIN sess \ {t} -> Passwords] /\ DOMAIN sess \ {t} \in SUBSET Tokens
      BY <1>0, <2>1
    <2> QED BY <2>2
  <1>3. Base' /\ Up'
    BY <1>0, <1>2, BaseFacts, UpFacts, AuthBase DEF Frame, Base, TypeOK
  <1>4. Sessions'
    BY <1>0, <1>1 DEF Sessions, Mutex, Holders, Waiting, Current, Stored, Frame, Up
  <1> QED BY <1>0, <1>3, <1>4

LEMMA ChangeStep ==
  ASSUME Base, Sessions, NEW r \in Requests, NEW t \in Tokens, NEW p \in Passwords, ChangePassword(r, t, p)
  PROVE  Base' /\ Sessions' /\ Frame
  <1>0. /\ Up /\ Frame /\ UNCHANGED <<disk, mem, sess, odd>> /\ req[r] = Idle /\ t \in DOMAIN sess
        /\ req' = [req EXCEPT ![r] = [at |-> "waiting", token |-> t, by |-> sess[t], new |-> p]]
        /\ left' \in [troubles: Nat, asks: Nat, writes: Nat]
    BY BaseFacts DEF ChangePassword, Asks, zips, Frame
  <1>a. sess[t] \in Passwords
    BY <1>0, SessFacts DEF Base
  <1>1. /\ req' \in [Requests -> Asking \cup {Idle}]
        /\ \A q \in Requests : q # r => req'[q] = req[q]
        /\ req'[r].at = "waiting" /\ req'[r].token = t /\ req'[r].by = sess[t]
    BY <1>0, <1>a, BeginFacts
  <1>2. Base' /\ Up'
    BY <1>0, <1>1, UpFacts, AuthBase DEF Base, TypeOK, Frame
  <1>b. req[r].at = "idle"
    BY <1>0 DEF Idle
  <1>3. Mutex' /\ Holders' /\ Waiting'
    BY <1>0, <1>1 DEF Sessions, Mutex, Holders, Waiting, Holding
  <1>4. Current' /\ Stored'
    BY <1>0, <1>1, <1>b DEF Sessions, Current, Stored, Frame
  <1> QED BY <1>0, <1>2, <1>3, <1>4 DEF Sessions

LEMMA RecheckStep ==
  ASSUME Base, Sessions, NEW r \in Requests, Recheck(r)
  PROVE  Base' /\ Sessions' /\ Frame
  <1>0. /\ Frame /\ UNCHANGED <<disk, mem, sess, odd, left>> /\ req[r].at = "waiting"
        /\ \A q \in Requests : req[q].at \notin Holding
        /\ IF req[r].token \in DOMAIN sess THEN Step(r, "held") ELSE Back(r)
    BY DEF Recheck, zips, Frame, Unlocked
  <1>1. Up
    BY <1>0, ReqFacts
  <1>2. /\ req' \in [Requests -> Asking \cup {Idle}]
        /\ \A q \in Requests : q # r => req'[q] = req[q]
        /\ req'[r].at \in {"held", "idle"}
        /\ req'[r].at = "held" => req'[r].by = req[r].by /\ req[r].token \in DOMAIN sess
    BY <1>0, BackFacts, StepFacts DEF Holding
  <1>3. Base' /\ Up'
    BY <1>0, <1>1, <1>2, BaseFacts, UpFacts, AuthBase DEF Frame, Base, TypeOK
  <1>4. req'[r].at = "held" => req[r].by = mem
    BY <1>0, <1>1, <1>2 DEF Sessions, Waiting, Current, Holding
  <1>5. Mutex' /\ Holders' /\ Waiting'
    BY <1>0, <1>2, <1>4 DEF Sessions, Mutex, Holders, Waiting
  <1>6. Current' /\ Stored'
    BY <1>0, <1>1, <1>2 DEF Sessions, Current, Stored, Frame, Holding
  <1> QED BY <1>0, <1>3, <1>5, <1>6 DEF Sessions
\* The holder of authMu: nobody else is past its check.
LEMMA Alone ==
  ASSUME Sessions, NEW r \in Requests, req[r].at \in Holding
  PROVE  \A q \in Requests : q # r => req[q].at \notin Holding
  BY DEF Sessions, Mutex

LEMMA SaveStep ==
  ASSUME Base, Sessions, NEW r \in Requests, SaveRuntimePassword(r)
  PROVE  Base' /\ Sessions' /\ Frame
  <1>0. /\ Frame /\ UNCHANGED <<mem, sess, odd, left>> /\ req[r].at = "held"
    BY DEF SaveRuntimePassword, zips, Frame
  <1>1. /\ Up /\ \A q \in Requests : q # r => req[q].at \notin Holding
        /\ \A q \in Requests : req[q].at \notin {"updated", "torn", "saved"}
    BY <1>0, ReqFacts, Alone DEF Holding
  <1>2. /\ req' \in [Requests -> Asking \cup {Idle}]
        /\ \A q \in Requests : q # r => req'[q] = req[q]
        /\ \/ req'[r].at = "idle" /\ disk' = disk
           \/ req'[r].at = "torn" /\ req'[r].by = req[r].by /\ disk' = [disk EXCEPT !.conf = Torn]
    <2>1. CASE disk.conf = Torn
      BY <2>1, BackFacts DEF SaveRuntimePassword
    <2>2. CASE disk.conf # Torn
      BY <1>0, <2>2, StepFacts DEF SaveRuntimePassword, Holding
    <2> QED BY <2>1, <2>2
  <1>3. /\ disk' \in Disk /\ disk'.db = disk.db /\ disk'.conf # Missing
        /\ req'[r].at = "torn" => disk'.conf = Torn
        /\ req'[r].at = "idle" => disk' = disk
    <2>1. disk \in Disk /\ disk.conf # Missing /\ Torn # Missing
      BY <1>1, UpFacts, SpecialAssumption
    <2>2. CASE disk' = [disk EXCEPT !.conf = Torn] /\ req'[r].at = "torn"
      BY <2>1, <2>2, DiskConf
    <2>3. CASE disk' = disk /\ req'[r].at = "idle"
      BY <2>1, <2>3
    <2> QED BY <1>2, <2>2, <2>3
  <1>4. Base' /\ Up'
    BY <1>0, <1>1, <1>2, <1>3, BaseFacts, UpFacts, AuthBase DEF Frame, Base, TypeOK
  <1>5. Mutex' /\ Holders' /\ Waiting'
    BY <1>0, <1>1, <1>2 DEF Sessions, Mutex, Holders, Waiting, Holding
  <1>6. Current' /\ Stored'
    BY <1>0, <1>1, <1>2, <1>3 DEF Sessions, Current, Stored, Frame, Holding
  <1> QED BY <1>0, <1>4, <1>5, <1>6 DEF Sessions

LEMMA WriteFileStep ==
  ASSUME Base, Sessions, NEW r \in Requests, WriteFile(r)
  PROVE  Base' /\ Sessions' /\ Frame
  <1>0. /\ Frame /\ UNCHANGED <<mem, sess, odd, left>> /\ req[r].at = "torn" /\ Step(r, "saved")
        /\ disk' = [disk EXCEPT !.conf = req[r].new]
    BY DEF WriteFile, zips, Frame
  <1>1. /\ Up /\ \A q \in Requests : q # r => req[q].at \notin Holding
        /\ \A q \in Requests : req[q].at \notin {"updated", "saved"} /\ req[r].new \in Passwords
    BY <1>0, ReqFacts, Alone DEF Holding
  <1>2. /\ req' \in [Requests -> Asking \cup {Idle}]
        /\ \A q \in Requests : q # r => req'[q] = req[q]
        /\ req'[r].at = "saved" /\ req'[r].by = req[r].by /\ req'[r].new = req[r].new
    BY <1>0, StepFacts DEF Holding
  <1>3. /\ disk' \in Disk /\ disk'.db = disk.db /\ disk'.conf = req[r].new /\ disk'.conf # Missing
    BY <1>0, <1>1, UpFacts, DiskConf, SpecialAssumption
  <1>4. Base' /\ Up'
    BY <1>0, <1>1, <1>2, <1>3, BaseFacts, UpFacts, AuthBase DEF Frame, Base, TypeOK
  <1>5. Mutex' /\ Holders' /\ Waiting'
    BY <1>0, <1>1, <1>2 DEF Sessions, Mutex, Holders, Waiting, Holding
  <1>6. Current' /\ Stored'
    BY <1>0, <1>1, <1>2, <1>3 DEF Sessions, Current, Stored, Frame, Holding
  <1> QED BY <1>0, <1>4, <1>5, <1>6 DEF Sessions

LEMMA FailsStep ==
  ASSUME Base, Sessions, NEW r \in Requests, ReadFails(r) \/ WriteFails(r)
  PROVE  Base' /\ Sessions' /\ Frame
  <1>0. /\ Frame /\ UNCHANGED <<mem, sess, disk>> /\ req[r].at \in {"held", "torn"} /\ Back(r)
        /\ odd' \in {odd, odd \cup {"halfsaved"}}
        /\ req[r].at = "torn" => "halfsaved" \in odd'
        /\ left' \in [troubles: Nat, asks: Nat, writes: Nat]
    BY BaseFacts DEF ReadFails, WriteFails, zips, Frame
  <1>1. /\ Up /\ \A q \in Requests : q # r => req[q].at \notin Holding
        /\ \A q \in Requests : req[q].at \notin {"updated", "saved"}
    BY <1>0, ReqFacts, Alone DEF Holding
  <1>2. /\ req' \in [Requests -> Asking \cup {Idle}]
        /\ \A q \in Requests : q # r => req'[q] = req[q]
        /\ req'[r].at = "idle"
    BY <1>0, BackFacts
  <1>3. Base' /\ Up'
    BY <1>0, <1>1, <1>2, BaseFacts, UpFacts, AuthBase DEF Frame, Base, TypeOK
  <1>4. Mutex' /\ Holders' /\ Waiting'
    BY <1>0, <1>1, <1>2 DEF Sessions, Mutex, Holders, Waiting, Holding
  <1>5. Current'
    BY <1>0, <1>1, <1>2 DEF Sessions, Current, Frame
  <1>6. Stored'
    <2>1. CASE req[r].at = "held"
      BY <1>0, <1>1, <1>2, <2>1 DEF Sessions, Stored, Frame, Holding
    <2>2. CASE req[r].at = "torn"
      BY <1>0, <1>1, <1>2, <2>2 DEF Sessions, Stored, Frame, Holding
    <2> QED BY <1>0, <2>1, <2>2
  <1> QED BY <1>0, <1>3, <1>4, <1>5, <1>6 DEF Sessions

LEMMA UpdateStep ==
  ASSUME Base, Sessions, NEW r \in Requests, UpdatePassword(r)
  PROVE  Base' /\ Sessions' /\ Frame
  <1>0. /\ Frame /\ UNCHANGED <<disk, sess, odd, left>> /\ req[r].at = "saved" /\ Step(r, "updated")
        /\ mem' = req[r].new
    BY DEF UpdatePassword, zips, Frame
  <1>1. /\ Up /\ \A q \in Requests : q # r => req[q].at \notin Holding
        /\ req[r].new \in Passwords
    BY <1>0, ReqFacts, Alone DEF Holding
  <1>2. /\ req' \in [Requests -> Asking \cup {Idle}]
        /\ \A q \in Requests : q # r => req'[q] = req[q]
        /\ req'[r].at = "updated" /\ req'[r].by = req[r].by /\ req'[r].new = req[r].new
    BY <1>0, StepFacts DEF Holding
  <1>3. Base' /\ Up'
    BY <1>0, <1>1, <1>2, BaseFacts, UpFacts, AuthBase DEF Frame, Base, TypeOK
  <1>4. Mutex' /\ Holders' /\ Waiting'
    BY <1>0, <1>1, <1>2 DEF Sessions, Mutex, Holders, Waiting, Holding
  <1>5. Current' /\ Stored'
    BY <1>0, <1>1, <1>2 DEF Sessions, Current, Stored, Frame, Holding
  <1> QED BY <1>0, <1>3, <1>4, <1>5 DEF Sessions

LEMMA RevokeStep ==
  ASSUME Base, Sessions, NEW r \in Requests, RevokeAll(r)
  PROVE  Base' /\ Sessions' /\ Frame
  <1>0. /\ Frame /\ UNCHANGED <<disk, mem, odd, left>> /\ req[r].at = "updated" /\ Step(r, "revoked")
        /\ sess' = NoSessions
    BY DEF RevokeAll, zips, Frame
  <1>1. /\ Up /\ \A q \in Requests : q # r => req[q].at \notin Holding
        /\ req[r].new = mem
    BY <1>0, ReqFacts, Alone DEF Holding, Sessions, Holders
  <1>2. /\ req' \in [Requests -> Asking \cup {Idle}]
        /\ \A q \in Requests : q # r => req'[q] = req[q]
        /\ req'[r].at = "revoked" /\ req'[r].by = req[r].by /\ req'[r].new = req[r].new
    BY <1>0, StepFacts DEF Holding
  <1>3. Base' /\ Up'
    BY <1>0, <1>1, <1>2, BaseFacts, UpFacts, NoSessionsFacts, AuthBase DEF Frame, Base, TypeOK
  <1>4. Mutex' /\ Holders' /\ Waiting'
    BY <1>0, <1>1, <1>2, NoSessionsFacts DEF Sessions, Mutex, Holders, Waiting, Holding
  <1>5. Current' /\ Stored'
    BY <1>0, <1>1, <1>2, NoSessionsFacts DEF Sessions, Current, Stored, Frame, Holding
  <1> QED BY <1>0, <1>3, <1>4, <1>5 DEF Sessions

LEMMA AuthStep ==
  ASSUME Base, Sessions,
         (\E r \in Requests : Authenticating(r)) \/ (\E t \in Tokens : Leave(t))
  PROVE  Base' /\ Sessions' /\ Frame
  BY LoginStep, SetStep, SetFailsStep, LeaveStep, ChangeStep, RecheckStep, SaveStep, WriteFileStep,
     FailsStep, UpdateStep, RevokeStep DEF Authenticating

---------------------------------------------------------------------------
(* Requests and uploads across a start. *)

\* A start serves with what it has read, and leaves the archive or none.
LEMMA StartingServes ==
  ASSUME Base, Starting \/ \E k \in Versions : AlterFails(k)
  PROVE  /\ ~Up /\ pend' \in {pend, None} /\ odd' \in {odd, odd \cup {"altered"}}
         /\ Up' => proc.at = "migrate" /\ disk' = disk /\ mem' = mem
  <1>1. CASE Start \/ Stat \/ EnsureDefaultConfig
    BY <1>1 DEF Start, Stat, EnsureDefaultConfig, Goes, At, First, Up
  <1>2. CASE Apply
    BY <1>2 DEF Apply, Goes, Fatal, At, Up
  <1>3. CASE \E e \in Entries : Truncate(e)
    BY <1>3 DEF Truncate, zips, Up
  <1>4. CASE \E e \in Entries : Fill(e)
    <2>1. PICK e \in Entries : Fill(e)
      BY <1>4
    <2>2. proc.at = "extract" /\ UNCHANGED <<pend, odd>> /\ (Fatal \/ proc' = [proc EXCEPT !.todo = @ \ {e}])
      BY <2>1 DEF Fill
    <2>3. proc'.at # "up"
      BY <2>2, BaseFacts DEF Fatal, At, Process
    <2> QED BY <2>2, <2>3 DEF Up
  <1>5. CASE Refuse \/ Remove \/ LoadRuntimeConfig \/ Open
    BY <1>5 DEF Refuse, Remove, LoadRuntimeConfig, Open, Goes, Fatal, At, Up
  <1>6. CASE \E k \in Versions : MigrateStrict(k) \/ MigrateLoose(k) \/ AlterFails(k)
    BY <1>6 DEF MigrateStrict, MigrateLoose, AlterFails, Migrating, Goes, Fatal, At, Up
  <1>7. CASE RecordVersion \/ ListenAndServe
    BY <1>7 DEF RecordVersion, ListenAndServe, Goes, At, Up
  <1> QED BY <1>1, <1>2, <1>3, <1>4, <1>5, <1>6, <1>7 DEF Starting

Active(u) == upl[u] \notin {Unsent, Sent}

(* Unless uploads crossed, there is one at a time, its file is the temporary *)
(* one, and what was checked is safe.                                        *)
Pending ==
  \/ "crossed" \in odd
  \/ /\ pend # None => pend \in Archives /\ pend.safe
     /\ \A u, v \in Uploads : Active(u) /\ Active(v) => u = v
     /\ \A u \in Uploads : Active(u) =>
          /\ upl[u].name = "tmp"
          /\ upl[u].at = "checked" => tmp \in Archives /\ tmp.safe

Inv == Base /\ Sessions /\ Pending

LEMMA StartingInv ==
  ASSUME Inv, Starting \/ \E k \in Versions : AlterFails(k)
  PROVE  Inv'
  <1>1. Base' /\ Same
    BY StartingStep DEF Inv
  <1>2. /\ ~Up /\ pend' \in {pend, None} /\ odd' \in {odd, odd \cup {"altered"}}
        /\ Up' => proc.at = "migrate" /\ disk' = disk /\ mem' = mem
    BY StartingServes DEF Inv
  <1>3. Up' /\ setup'.env = None => disk'.conf = mem'
    BY <1>1, <1>2 DEF Inv, Base, Ready, Loaded, Same
  <1>4. (\A r \in Requests : req'[r] = Idle) /\ sess' = NoSessions
    BY <1>1, <1>2 DEF Inv, Base, Quiet, Same
  <1>5. Sessions'
    <2>1. Idle.at = "idle" /\ DOMAIN NoSessions = {}
      BY NoSessionsFacts DEF Idle
    <2> QED BY <1>3, <1>4, <2>1 DEF Sessions, Mutex, Holders, Waiting, Current, Stored, Holding
  <1>6. Pending'
    BY <1>1, <1>2 DEF Inv, Pending, Active, Same
  <1> QED BY <1>1, <1>5, <1>6 DEF Inv

---------------------------------------------------------------------------
(* Uploads. *)

\* A step of an upload, given what it does to it.
LEMMA UploadBase ==
  ASSUME Base, Sessions, Up, UNCHANGED <<setup, disk, journal, proc, auth, begun>>,
         tmp' \in Zips, pend' \in Zips, upl' \in [Uploads -> Sending \cup {Unsent, Sent}],
         restart' \in BOOLEAN, odd' \in {odd, odd \cup {"crossed"}},
         left' \in [troubles: Nat, asks: Nat, writes: Nat]
  PROVE  Base' /\ Sessions'
  <1>0. /\ setup' = setup /\ disk' = disk /\ journal' = journal /\ proc' = proc /\ begun' = begun
        /\ mem' = mem /\ sess' = sess /\ req' = req
    BY DEF auth
  <1>1. Ready' /\ Quiet' /\ Up'
    BY <1>0, UpFacts, ServeBase
  <1>2. TypeOK'
    <2>1. /\ setup \in Setups /\ journal \in {"none", "own", "foreign"} /\ disk \in Disk
          /\ proc \in Process /\ begun \in BOOLEAN /\ mem \in Passwords \cup {None}
          /\ \E T \in SUBSET Tokens : sess \in [T -> Passwords]
          /\ req \in [Requests -> Asking \cup {Idle}]
          /\ odd \in SUBSET {"halfsaved", "crossed", "altered"}
      BY DEF Base, TypeOK, Process, Disk
    <2>2. odd' \in SUBSET {"halfsaved", "crossed", "altered"}
      BY <2>1
    <2> QED BY <1>0, <2>1, <2>2 DEF TypeOK, Disk, Process
  <1>3. Sessions'
    BY <1>0 DEF Sessions, Mutex, Holders, Waiting, Current, Stored, Up
  <1> QED BY <1>1, <1>2, <1>3 DEF Base

LEMMA UplFacts ==
  ASSUME Base, NEW u \in Uploads, Active(u)
  PROVE  /\ Up /\ upl[u] \in Sending /\ upl \in [Uploads -> Sending \cup {Unsent, Sent}]
         /\ upl[u].file \in Archives /\ upl[u].name \in {"tmp", "pend", "gone"}
  <1>1. upl \in [Uploads -> Sending \cup {Unsent, Sent}]
    BY DEF Base, TypeOK
  <1>2. Up /\ upl[u] \in Sending
    BY <1>1 DEF Base, Quiet, Active
  <1> QED BY <1>1, <1>2 DEF Sending

LEMMA ActiveAt ==
  ASSUME NEW u \in Uploads, upl[u].at \in {"created", "copied", "checked"}
  PROVE  Active(u)
  BY DEF Active, Unsent, Sent

LEMMA SendingFacts ==
  ASSUME NEW x \in Sending
  PROVE  x \notin {Unsent, Sent} /\ x.at \in {"created", "copied", "checked"}
  BY DEF Sending, Unsent, Sent

\* An upload goes on, or its file is known by another name.
LEMMA SendingOn ==
  ASSUME NEW x \in Sending, NEW at \in {"created", "copied", "checked"}, NEW n \in {"tmp", "pend", "gone"}
  PROVE  /\ [x EXCEPT !.at = at] \in Sending /\ [x EXCEPT !.at = at].at = at
         /\ [x EXCEPT !.at = at].name = x.name
         /\ [x EXCEPT !.name = n] \in Sending
  BY DEF Sending

LEMMA CreateStep ==
  ASSUME Inv, NEW u \in Uploads, NEW a \in Archives, CreateTmp(u, a)
  PROVE  Inv'
  <1> DEFINE e == [at |-> "created", file |-> a, name |-> "tmp"]
  <1>0. /\ Up /\ upl[u] = Unsent /\ tmp' = Partial /\ UNCHANGED <<setup, disk, journal, proc, auth, pend, restart, begun>>
        /\ upl' = [upl EXCEPT ![u] = e]
        /\ odd' = IF \A v \in Uploads : upl[v] \in {Unsent, Sent} THEN odd ELSE odd \cup {"crossed"}
        /\ left' \in [troubles: Nat, asks: Nat, writes: Nat]
    BY BaseFacts DEF CreateTmp, Asks, Inv
  <1>1. e \in Sending /\ e.name = "tmp" /\ e.at = "created"
    BY DEF Sending
  <1> HIDE DEF e
  <1>2. /\ upl' \in [Uploads -> Sending \cup {Unsent, Sent}] /\ upl'[u] = e
        /\ \A v \in Uploads : v # u => upl'[v] = upl[v]
    BY <1>0, <1>1 DEF Inv, Base, TypeOK
  <1>3. Base' /\ Sessions'
    BY <1>0, <1>2, BaseFacts, UploadBase DEF Inv, Zips, Base, TypeOK
  <1>4. Pending'
    BY <1>0, <1>1, <1>2 DEF Inv, Pending, Active
  <1> QED BY <1>3, <1>4 DEF Inv

LEMMA CopyStep ==
  ASSUME Inv, NEW u \in Uploads, Copy(u)
  PROVE  Inv'
  <1> DEFINE e == [upl[u] EXCEPT !.at = "copied"]
  <1>0. /\ upl[u].at = "created" /\ UNCHANGED <<setup, disk, journal, proc, auth, restart, begun, odd, left>>
        /\ upl' = [upl EXCEPT ![u] = e]
        /\ tmp'  \in IF upl[u].name = "tmp" THEN Written(tmp, upl[u].file) ELSE {tmp}
        /\ pend' \in IF upl[u].name = "pend" THEN Written(pend, upl[u].file) ELSE {pend}
    BY DEF Copy
  <1>1. /\ Active(u) /\ Up /\ upl[u] \in Sending /\ upl \in [Uploads -> Sending \cup {Unsent, Sent}]
        /\ upl[u].file \in Archives
    BY <1>0, ActiveAt, UplFacts DEF Inv
  <1>2. e \in Sending /\ e.name = upl[u].name /\ e.at = "copied"
    BY <1>1, SendingOn
  <1> HIDE DEF e
  <1>3. /\ upl' \in [Uploads -> Sending \cup {Unsent, Sent}] /\ upl'[u] = e
        /\ \A v \in Uploads : v # u => upl'[v] = upl[v]
    BY <1>0, <1>1, <1>2
  <1>4. tmp \in Zips /\ pend \in Zips /\ restart \in BOOLEAN
    BY DEF Inv, Base, TypeOK
  <1>5. tmp' \in Zips /\ pend' \in Zips
    BY <1>0, <1>1, <1>4 DEF Written, Zips
  <1>6. Base' /\ Sessions'
    BY <1>0, <1>1, <1>3, <1>4, <1>5, BaseFacts, UploadBase DEF Inv
  <1>7. Pending'
    BY <1>0, <1>1, <1>2, <1>3 DEF Inv, Pending, Active
  <1> QED BY <1>6, <1>7 DEF Inv

LEMMA RenamedFacts ==
  ASSUME Base, NEW u \in Uploads, GivesUp(u)
  PROVE  /\ upl' \in [Uploads -> Sending \cup {Unsent, Sent}] /\ upl'[u] = Sent /\ tmp' = None
         /\ \A v \in Uploads : v # u /\ ~Active(v) => upl'[v] = upl[v]
  <1>0. upl \in [Uploads -> Sending \cup {Unsent, Sent}]
    BY DEF Base, TypeOK
  <1> DEFINE f == Renamed("tmp", "gone")
  <1>1. f \in [Uploads -> Sending \cup {Unsent, Sent}]
    BY <1>0, SendingOn DEF Renamed
  <1>2. \A v \in Uploads : ~Active(v) => f[v] = upl[v]
    BY DEF Renamed, Active
  <1>3. upl' = [f EXCEPT ![u] = Sent] /\ tmp' = None
    BY DEF GivesUp
  <1> HIDE DEF f
  <1> QED BY <1>1, <1>2, <1>3

\* An upload that gives up leaves no other that is under way.
LEMMA GivesUpPending ==
  ASSUME Inv, NEW u \in Uploads, Active(u), GivesUp(u), odd' = odd, pend' = pend
  PROVE  Pending'
  <1>1. /\ upl'[u] = Sent /\ \A v \in Uploads : v # u /\ ~Active(v) => upl'[v] = upl[v]
    BY RenamedFacts DEF Inv
  <1> QED BY <1>1 DEF Inv, Pending, Active

LEMMA CopyFailsStep ==
  ASSUME Inv, NEW u \in Uploads, CopyFails(u)
  PROVE  Inv'
  <1>0. /\ upl[u].at = "created" /\ GivesUp(u)
        /\ UNCHANGED <<setup, disk, journal, proc, auth, pend, restart, begun, odd>>
        /\ left' \in [troubles: Nat, asks: Nat, writes: Nat]
    BY BaseFacts DEF CopyFails, Inv
  <1>1. Active(u) /\ Up
    BY <1>0, ActiveAt, UplFacts DEF Inv
  <1>2. Base' /\ Sessions'
    BY <1>0, <1>1, RenamedFacts, UploadBase DEF Inv, Base, TypeOK, Zips
  <1>3. Pending'
    BY <1>0, <1>1, GivesUpPending
  <1> QED BY <1>2, <1>3 DEF Inv

LEMMA ValidateStep ==
  ASSUME Inv, NEW u \in Uploads, Validate(u)
  PROVE  Inv'
  <1>0. /\ upl[u].at = "copied"
        /\ UNCHANGED <<setup, disk, journal, proc, auth, pend, restart, begun, odd, left>>
    BY DEF Validate
  <1>1. /\ Active(u) /\ Up /\ upl[u] \in Sending /\ upl \in [Uploads -> Sending \cup {Unsent, Sent}]
    BY <1>0, ActiveAt, UplFacts DEF Inv
  <1>2. pend \in Zips /\ tmp \in Zips /\ restart \in BOOLEAN /\ left \in [troubles: Nat, asks: Nat, writes: Nat]
    BY DEF Inv, Base, TypeOK
  <1>3. CASE Valid(tmp)
    <2> DEFINE e == [upl[u] EXCEPT !.at = "checked"]
    <2>1. upl' = [upl EXCEPT ![u] = e] /\ tmp' = tmp /\ tmp \in Archives /\ tmp.safe
      BY <1>3 DEF Validate, Valid
    <2>2. e \in Sending /\ e.name = upl[u].name
      BY <1>1, SendingOn
    <2> HIDE DEF e
    <2>3. /\ upl' \in [Uploads -> Sending \cup {Unsent, Sent}] /\ upl'[u] = e
          /\ \A v \in Uploads : v # u => upl'[v] = upl[v]
      BY <1>1, <2>1, <2>2
    <2>4. Base' /\ Sessions'
      BY <1>0, <1>1, <1>2, <2>1, <2>3, UploadBase DEF Inv
    <2>5. Pending'
      BY <1>0, <1>1, <2>1, <2>2, <2>3 DEF Inv, Pending, Active
    <2> QED BY <2>4, <2>5 DEF Inv
  <1>4. CASE ~Valid(tmp)
    <2>1. GivesUp(u)
      BY <1>4 DEF Validate
    <2>2. Base' /\ Sessions'
      BY <1>0, <1>1, <1>2, <2>1, RenamedFacts, UploadBase DEF Inv, Zips
    <2>3. Pending'
      BY <1>0, <1>1, <2>1, GivesUpPending
    <2> QED BY <2>2, <2>3 DEF Inv
  <1> QED BY <1>3, <1>4

LEMMA RenameStep ==
  ASSUME Inv, NEW u \in Uploads, Rename(u)
  PROVE  Inv'
  <1>0. /\ upl[u].at = "checked" /\ UNCHANGED <<setup, disk, journal, proc, auth, begun, odd, left>>
    BY DEF Rename
  <1>1. /\ Active(u) /\ Up /\ upl[u] \in Sending /\ upl \in [Uploads -> Sending \cup {Unsent, Sent}]
    BY <1>0, ActiveAt, UplFacts DEF Inv
  <1>2. pend \in Zips /\ tmp \in Zips /\ restart \in BOOLEAN /\ left \in [troubles: Nat, asks: Nat, writes: Nat]
    BY DEF Inv, Base, TypeOK
  <1>3. CASE tmp = None
    <2>1. GivesUp(u) /\ UNCHANGED <<pend, restart>>
      BY <1>3 DEF Rename
    <2>2. Base' /\ Sessions'
      BY <1>0, <1>1, <1>2, <2>1, RenamedFacts, UploadBase DEF Inv, Zips
    <2>3. Pending'
      BY <1>0, <1>1, <2>1, GivesUpPending
    <2> QED BY <2>2, <2>3 DEF Inv
  <1>4. CASE tmp # None
    <2>1. /\ pend' = tmp /\ tmp' = None /\ restart' = TRUE
          /\ upl' = [v \in Uploads |->
                       IF v = u THEN Sent
                       ELSE IF upl[v] \in {Unsent, Sent} THEN upl[v]
                       ELSE [upl[v] EXCEPT !.name = IF upl[v].name = "tmp" THEN "pend" ELSE "gone"]]
      BY <1>4 DEF Rename
    <2>2. /\ upl' \in [Uploads -> Sending \cup {Unsent, Sent}] /\ upl'[u] = Sent
          /\ \A v \in Uploads : v # u /\ ~Active(v) => upl'[v] = upl[v]
      <3>1. \A v \in Uploads : upl'[v] \in Sending \cup {Unsent, Sent}
        <4> SUFFICES ASSUME NEW v \in Uploads, v # u, upl[v] \notin {Unsent, Sent}
                     PROVE  upl'[v] \in Sending
          BY <1>1, <2>1
        <4> DEFINE n == IF upl[v].name = "tmp" THEN "pend" ELSE "gone"
        <4> DEFINE on(w) == [upl[w] EXCEPT !.name = IF upl[w].name = "tmp" THEN "pend" ELSE "gone"]
        <4>0. upl' = [w \in Uploads |-> IF w = u THEN Sent
                                       ELSE IF upl[w] \in {Unsent, Sent} THEN upl[w] ELSE on(w)]
          BY <2>1
        <4>a. on(v) = [upl[v] EXCEPT !.name = n]
          OBVIOUS
        <4> HIDE DEF on
        <4>b. upl'[v] = on(v)
          BY <4>0
        <4>1. upl'[v] = [upl[v] EXCEPT !.name = n]
          BY <4>a, <4>b
        <4>2. n \in {"tmp", "pend", "gone"} /\ upl[v] \in Sending
          BY <1>1
        <4> HIDE DEF n
        <4>3. [upl[v] EXCEPT !.name = n] \in Sending
          BY <4>2 DEF Sending
        <4> QED BY <4>1, <4>3
      <3> QED BY <1>1, <2>1, <3>1 DEF Active
    <2>3. Base' /\ Sessions'
      BY <1>0, <1>1, <1>2, <2>1, <2>2, UploadBase DEF Inv, Zips
    <2>4. Pending'
      BY <1>0, <1>1, <2>1, <2>2 DEF Inv, Pending, Active
    <2> QED BY <2>3, <2>4 DEF Inv
  <1> QED BY <1>3, <1>4

---------------------------------------------------------------------------
(* The program's other writes. *)

LEMMA WriteStep ==
  ASSUME Inv, BeginWrite \/ CommitWrite
  PROVE  Inv'
  <1>0. /\ Up /\ UNCHANGED <<setup, proc, mem, sess, req, tmp, pend, upl, restart, begun, odd>>
        /\ journal' \in {"none", "own"} /\ left' \in [troubles: Nat, asks: Nat, writes: Nat]
    BY BaseFacts DEF BeginWrite, CommitWrite, auth, zips, Inv
  <1>1. /\ disk' \in Disk /\ disk'.conf = disk.conf /\ disk'.db.data # Torn
        /\ disk'.db.version = disk.db.version /\ disk'.db.parts = disk.db.parts
    <2>1. CASE disk' = disk
      BY <1>0, <2>1, UpFacts DEF Inv
    <2>2. CASE \E d \in Datas : disk' = [disk EXCEPT !.db.data = d]
      <3>1. PICK d \in Datas : disk' = [disk EXCEPT !.db.data = d]
        BY <2>2
      <3>2. d \in Datas \cup {Torn, Spoilt} /\ d # Torn
        BY SpecialAssumption
      <3> QED BY <3>1, <3>2, BaseFacts, DiskData DEF Inv
    <2> QED BY <2>1, <2>2 DEF BeginWrite, CommitWrite
  <1>2. Ready' /\ Quiet' /\ Up'
    BY <1>0, <1>1, UpFacts, ServeBase DEF Inv
  <1>3. TypeOK'
    <2>1. /\ setup \in Setups /\ tmp \in Zips /\ pend \in Zips /\ restart \in BOOLEAN /\ begun \in BOOLEAN
          /\ proc \in Process /\ mem \in Passwords \cup {None}
          /\ \E T \in SUBSET Tokens : sess \in [T -> Passwords]
          /\ req \in [Requests -> Asking \cup {Idle}] /\ upl \in [Uploads -> Sending \cup {Unsent, Sent}]
          /\ odd \in SUBSET {"halfsaved", "crossed", "altered"}
      BY DEF Inv, Base, TypeOK, Process
    <2> QED BY <1>0, <1>1, <2>1 DEF TypeOK, Disk, Process
  <1>4. Sessions'
    BY <1>0, <1>1 DEF Inv, Sessions, Mutex, Holders, Waiting, Current, Stored, Up
  <1>5. Pending'
    BY <1>0 DEF Inv, Pending, Active
  <1> QED BY <1>2, <1>3, <1>4, <1>5 DEF Inv, Base

---------------------------------------------------------------------------
(* The process ends, and the installation's first state. *)

LEMMA EndsInv ==
  ASSUME Inv, Ends, UNCHANGED <<setup, disk, journal, tmp, pend, begun, odd>>,
         NEW phase \in {"off", "stat"}, proc' = At(phase),
         Crash \/ RestartSelf, left' \in [troubles: Nat, asks: Nat, writes: Nat]
  PROVE  Inv'
  <1>1. proc' \in Process /\ proc'.at = phase /\ ~Up'
    BY AtType, PhasesAre DEF Up
  <1>2. /\ mem' = None /\ sess' = NoSessions /\ (\A r \in Requests : req'[r] = Idle)
        /\ (\A u \in Uploads : upl'[u] \in {Unsent, Sent}) /\ restart' = FALSE
    BY DEF Ends
  <1>3. TypeOK'
    <2>1. /\ setup \in Setups /\ tmp \in Zips /\ pend \in Zips /\ begun \in BOOLEAN
          /\ odd \in SUBSET {"halfsaved", "crossed", "altered"} /\ journal \in {"none", "own", "foreign"}
          /\ disk \in Disk
      BY DEF Inv, Base, TypeOK, Disk
    <2>2. /\ req' \in [Requests -> Asking \cup {Idle}] /\ upl' \in [Uploads -> Sending \cup {Unsent, Sent}]
      BY DEF Ends
    <2> QED BY <1>1, <1>2, <2>1, <2>2, NoSessionsFacts DEF TypeOK, Disk, Process
  <1>4. Quiet'
    BY <1>2 DEF Quiet
  <1>5. Ready'
    <2>1. Configured' /\ Loaded' /\ Applied'
      BY <1>1 DEF Configured, Loaded, Applied
    <2>2. Extracting'
      BY <1>1 DEF Inv, Base, Ready, Extracting
    <2>3. Journaled' /\ Versioned'
      BY <1>1 DEF Inv, Base, Ready, Journaled, Versioned
    <2> QED BY <2>1, <2>2, <2>3 DEF Ready
  <1>6. Sessions'
    <2>1. Idle.at = "idle" /\ DOMAIN NoSessions = {}
      BY NoSessionsFacts DEF Idle
    <2> QED BY <1>1, <1>2, <2>1 DEF Sessions, Mutex, Holders, Waiting, Current, Stored, Holding
  <1>7. Pending'
    BY <1>2 DEF Inv, Pending, Active
  <1> QED BY <1>3, <1>4, <1>5, <1>6, <1>7 DEF Inv, Base

LEMMA EndStep ==
  ASSUME Inv, Crash \/ RestartSelf
  PROVE  Inv'
  <1>1. CASE Crash
    <2>1. /\ Ends /\ UNCHANGED <<setup, disk, journal, tmp, pend, begun, odd>> /\ proc' = At("off")
          /\ left' \in [troubles: Nat, asks: Nat, writes: Nat]
      BY <1>1, BaseFacts DEF Crash, Inv
    <2> QED BY <1>1, <2>1, EndsInv
  <1>2. CASE RestartSelf
    <2>1. /\ Ends /\ UNCHANGED <<setup, disk, journal, tmp, pend, begun, odd>> /\ proc' = At("stat")
          /\ left' \in [troubles: Nat, asks: Nat, writes: Nat]
      BY <1>2, BaseFacts DEF RestartSelf, Inv
    <2> QED BY <1>2, <2>1, EndsInv
  <1> QED BY <1>1, <1>2

LEMMA InitInv ==
  ASSUME Init
  PROVE  Inv
  <1>1. proc \in Process /\ proc.at = "off" /\ ~Up
    BY AtType, PhasesAre DEF Init, Up
  <1>2. /\ disk \in Disk /\ disk.db.data \in Datas /\ 1..disk.db.version \subseteq disk.db.parts
    BY DisksAssumption DEF Init, Disk
  <1>3. TypeOK
    BY <1>1, <1>2, NoSessionsFacts, SpecialAssumption DEF Init, TypeOK, Disk, Process, Zips
  <1>4. Quiet
    BY DEF Init, Quiet
  <1>5. Ready
    BY <1>1, <1>2 DEF Init, Ready, Configured, Loaded, Extracting, Applied, Journaled, Versioned
  <1>6. Sessions
    BY <1>1, IdleSessions DEF Init
  <1>7. Pending
    BY DEF Init, Pending, Active
  <1> QED BY <1>3, <1>4, <1>5, <1>6, <1>7 DEF Inv, Base

LEMMA NextInv ==
  ASSUME Inv, [Next]_vars
  PROVE  Inv'
  <1>1. CASE Starting \/ \E k \in Versions : AlterFails(k)
    BY <1>1, StartingInv
  <1>2. CASE (\E r \in Requests : Authenticating(r)) \/ (\E t \in Tokens : Leave(t))
    <2>1. Base' /\ Sessions' /\ Frame
      BY <1>2, AuthStep DEF Inv
    <2>2. odd \subseteq odd'
      BY <1>2 DEF Authenticating, Login, Set, SetFails, ChangePassword, Recheck, SaveRuntimePassword,
         ReadFails, WriteFile, WriteFails, UpdatePassword, RevokeAll, Leave
    <2>3. Pending'
      BY <2>1, <2>2 DEF Inv, Pending, Active, Frame
    <2> QED BY <2>1, <2>3 DEF Inv
  <1>3. CASE \E u \in Uploads : Uploading(u)
    BY <1>3, CreateStep, CopyStep, CopyFailsStep, ValidateStep, RenameStep DEF Uploading
  <1>4. CASE BeginWrite \/ CommitWrite
    BY <1>4, WriteStep
  <1>5. CASE RestartSelf \/ Crash
    BY <1>5, EndStep
  <1>6. CASE UNCHANGED vars
    BY <1>6 DEF vars, auth, zips, Inv, Base, TypeOK, Quiet, Ready, Configured, Loaded, Extracting, Applied,
       Journaled, Versioned, Sessions, Mutex, Holders, Waiting, Current, Stored, Pending, Active, Up, InUse
  <1> QED BY <1>1, <1>2, <1>3, <1>4, <1>5, <1>6 DEF Next

(* The inductive invariant: what a start has done so far, who holds authMu and *)
(* what it knows, and whose the temporary file is.                             *)
THEOREM Invariance == Spec => []Inv
  <1>1. Init => Inv
    BY InitInv
  <1>2. Inv /\ [Next]_vars => Inv'
    BY NextInv
  <1> QED BY <1>1, <1>2, PTL DEF Spec

---------------------------------------------------------------------------
(* The properties. *)

(* Every variable keeps its type through logins, uploads, restores, starts *)
(* and crashes (auth/session.go, web/backup.go, config/restore.go, db.go). *)
THEOREM TypeCorrect == Spec => []TypeOK
  <1>1. Inv => TypeOK
    BY DEF Inv, Base
  <1> QED BY <1>1, Invariance, PTL

(* Whenever nobody holds authMu, every session was opened with the password *)
(* in force, however many logins and changes run at once (web/auth.go).     *)
THEOREM OldSessionsGone == Spec => []OldPasswordSessionsGone
  <1>1. Inv => OldPasswordSessionsGone
    BY DEF Inv, Sessions, Current, OldPasswordSessionsGone, Unlocked, Holding
  <1> QED BY <1>1, Invariance, PTL

(* With no password in the environment the file and memory agree whenever no *)
(* change is under way, unless a write of the file failed half-way           *)
(* (SaveRuntimePassword and handleAuthPasswordUpdate).                       *)
THEOREM PasswordKept == Spec => []PasswordDurable
  <1>1. Inv => PasswordDurable
    BY DEF Inv, Sessions, Stored, PasswordDurable, Unlocked, Holding
  <1> QED BY <1>1, Invariance, PTL

(* The pending archive is one whole upload with safe names, unless uploads  *)
(* overlapped (handleBackupRestore).                                        *)
THEOREM PendingIsWhole == Spec => []PendingWhole
  <1>1. Inv => PendingWhole
    BY DEF Inv, Pending, PendingWhole
  <1> QED BY <1>1, Invariance, PTL

(* The program serves only with all the tables and columns it was built for, *)
(* wherever migrations were cut off, unless an ALTER failed for another      *)
(* reason than the column being there (db.go).                               *)
THEOREM SchemaIsComplete == Spec => []SchemaComplete
  <1>1. Inv => SchemaComplete
    BY DEF Inv, Base, Ready, Versioned, SchemaComplete, Versions
  <1> QED BY <1>1, Invariance, PTL

(* A password changes only by a request whose session was opened with the one *)
(* in force: a change that waited for another one's lock goes no further.     *)
THEOREM OnlyBySession == Spec => ChangedBySession
  <1>1. Inv /\ [Next]_vars =>
          [ Up /\ proc'.at = "up" /\ mem' # mem
            => \E r \in Requests : req[r].at = "saved" /\ req[r].by = mem /\ req[r].new = mem' ]_vars
    <2> SUFFICES ASSUME Inv, [Next]_vars, Up, proc'.at = "up", mem' # mem
                 PROVE  \E r \in Requests : req[r].at = "saved" /\ req[r].by = mem /\ req[r].new = mem'
      OBVIOUS
    <2>1. ~ (Starting \/ \E k \in Versions : AlterFails(k))
      BY StartingServes DEF Inv
    <2>2. ~ ((\E t \in Tokens : Leave(t)) \/ BeginWrite \/ CommitWrite \/ RestartSelf \/ Crash)
      <3>1. ~ ((\E t \in Tokens : Leave(t)) \/ BeginWrite \/ CommitWrite)
        BY DEF Leave, BeginWrite, CommitWrite, auth
      <3>2. At("off").at # "up" /\ At("stat").at # "up"
        BY DEF At
      <3>3. ~ (RestartSelf \/ Crash)
        BY <3>2 DEF RestartSelf, Crash
      <3> QED BY <3>1, <3>3
    <2>3. ~ \E u \in Uploads : Uploading(u)
      BY DEF Uploading, CreateTmp, Copy, CopyFails, Validate, Rename, auth
    <2>4. PICK r \in Requests : Authenticating(r)
      BY <2>1, <2>2, <2>3 DEF Next, vars, auth
    <2>5. UpdatePassword(r)
      BY <2>4 DEF Authenticating, Login, Set, SetFails, ChangePassword, Recheck, SaveRuntimePassword,
         ReadFails, WriteFile, WriteFails, RevokeAll
    <2>6. req[r].at = "saved" /\ mem' = req[r].new /\ req[r].by = mem
      BY <2>5 DEF UpdatePassword, Inv, Sessions, Holders
    <2> QED BY <2>6
  <1> QED BY <1>1, Invariance, PTL DEF Spec, ChangedBySession
=============================================================================
