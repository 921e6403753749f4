---------------------------- MODULE Installation ----------------------------
(***************************************************************************)
(* What an installation promises its administrator about its files: the    *)
(* running program is the only one to change them, an uploaded backup      *)
(* replaces all the files it has in one step while nothing runs, and the   *)
(* program serves only whole files of a complete schema, with no uploaded  *)
(* backup left to apply.                                                   *)
(* Admin implements it: files written one by one, crashes, migrations.     *)
(***************************************************************************)
EXTENDS Naturals

CONSTANTS
  Passwords,
  Datas,     \* what the database holds
  Last,      \* schemaVersion
  Missing,   \* there is no configuration file
  Torn,      \* a file that cannot be read
  Spoilt     \* a database that another one's journal was played back into

VARIABLES
  files,   \* the configuration's password and the database
  staged,  \* the uploaded backup that the next start applies, if there is one
  up,      \* the program serves requests
  cut      \* a database write is under way, or was when the program stopped

vars == <<files, staged, up, cut>>

\* What a has of file f, f as it is otherwise; a damaged entry leaves a torn file.
Overlaid(fs, a, spoils) ==
  [f \in DOMAIN fs |->
     IF f \notin DOMAIN a.entries THEN fs[f]
     ELSE IF f = "db" /\ spoils THEN [a.entries[f] EXCEPT !.data = Spoilt]
     ELSE a.entries[f]]

\* Files the program can serve.
Whole(fs) == fs.conf \in Passwords /\ fs.db.data # Torn /\ fs.db.version = Last

\* The running program changes its password, its data, and takes a backup.
Serve ==
  /\ up
  /\ UNCHANGED up
  /\ files'.db.version = files.db.version /\ files'.db.parts = files.db.parts
  /\ files'.db.data \in Datas \cup {files.db.data}
  /\ files'.conf \in Passwords \cup {Torn, files.conf}

Stop == up /\ up' = FALSE /\ UNCHANGED <<files, staged, cut>>

\* All files of the backup at once. A write that was cut short left a
\* journal, which spoils the database that comes in its place.
Restore ==
  /\ ~up
  /\ \E a \in staged : /\ files' = Overlaid(files, a, cut)
                      /\ cut' = (cut /\ "db" \notin DOMAIN a.entries)
  /\ staged' = {}
  /\ UNCHANGED up

\* Before it serves: a missing configuration, the journal, the schema. What
\* the administrator stored stays as it is.
Prepare ==
  /\ ~up
  /\ files'.db.data = files.db.data
  /\ files'.conf # files.conf => files.conf \in {Missing, Torn}
  /\ cut' = FALSE \/ cut' = cut
  /\ UNCHANGED <<staged, up>>

Start ==
  /\ ~up /\ staged = {} /\ ~cut /\ Whole(files)
  /\ up' = TRUE
  /\ UNCHANGED <<files, staged, cut>>

Init ==
  /\ files.conf \in Passwords \cup {Missing} /\ files.db.data \in Datas
  /\ staged = {} /\ ~up /\ ~cut

Next == Serve \/ Stop \/ Restore \/ Prepare \/ Start

Spec == Init /\ [][Next]_vars
=============================================================================
