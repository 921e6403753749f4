--------------------------- MODULE PoliciesProofs ---------------------------
(***************************************************************************)
(* Proofs about Policies, for any users, nodes, groups, providers, sources *)
(* and number of concurrent requests: that a provider keeps its group,     *)
(* type correctness, what a cleanup leaves and takes, and what a refresh   *)
(* that nothing disturbs writes back.                                      *)
(***************************************************************************)
EXTENDS Policies, TLAPS

---------------------------------------------------------------------------
(* A provider's group: the invariant is inductive as it stands. *)

LEMMA WithProvidersKeeps ==
  ASSUME NEW table, NEW ids, NEW id \in ids
  PROVE  id \in DOMAIN WithProviders(table, ids) /\ WithProviders(table, ids)[id] = id
  BY DEF WithProviders

LEMMA WithProvidersLeaves ==
  ASSUME NEW table, NEW ids, NEW id \in DOMAIN table, id \notin ids
  PROVE  id \in DOMAIN WithProviders(table, ids) /\ WithProviders(table, ids)[id] = table[id]
  BY DEF WithProviders

LEMMA UpsertKeepsGroups ==
  ASSUME ProvidersHaveTheirGroup, NEW id, NEW row, UpsertProviderToDB(id, row)
  PROVE  ProvidersHaveTheirGroup'
  <1>1. DOMAIN rows' = DOMAIN rows \cup {id} /\ groups' = WithProviders(groups, {id})
    BY DEF UpsertProviderToDB
  <1> SUFFICES ASSUME NEW i \in DOMAIN rows'
               PROVE  i \in DOMAIN groups' /\ groups'[i] = i
    BY DEF ProvidersHaveTheirGroup
  <1>2. CASE i = id
    BY <1>1, <1>2, WithProvidersKeeps
  <1>3. CASE i # id
    BY <1>1, <1>3, WithProvidersLeaves DEF ProvidersHaveTheirGroup
  <1> QED BY <1>2, <1>3

LEMMA GroupsStep ==
  ASSUME ProvidersHaveTheirGroup, [Next]_vars
  PROVE  ProvidersHaveTheirGroup'
  <1>1. ASSUME NEW r, NEW a, SaveGroupsConfig(r, a)
        PROVE  ProvidersHaveTheirGroup'
    <2>1. rows' = rows /\ groups' = WithProviders(a.want, DOMAIN rows)
      BY <1>1 DEF SaveGroupsConfig
    <2> QED BY <2>1, WithProvidersKeeps DEF ProvidersHaveTheirGroup
  <1>2. ASSUME NEW r, NEW a, DeleteProvider(r, a)
        PROVE  ProvidersHaveTheirGroup'
    BY <1>2 DEF DeleteProvider, ProvidersHaveTheirGroup
  <1>3. ASSUME NEW r, UpsertProvider(r) \/ WriteBack(r)
        PROVE  ProvidersHaveTheirGroup'
    BY <1>3, UpsertKeepsGroups DEF UpsertProvider, WriteBack
  <1>4. ASSUME NEW r, NEW a, Begins(r, a)
        PROVE  ProvidersHaveTheirGroup'
    BY <1>1, <1>2, <1>4 DEF Begins, ReadAppConfig, SavePage, ReplaceNodes, PrepareProvider,
         RefreshProvider, tables, ProvidersHaveTheirGroup
  <1>5. ASSUME NEW r, Continues(r)
        PROVE  ProvidersHaveTheirGroup'
    BY <1>3, <1>5 DEF Continues, SaveAppConfig, ListUsers, RemoveProviderFile, Return, Walking,
         CleanupNodePrefs, CleanupGroupPrefs, CleanupProviderPrefs, OpenFile, FillFile, tables,
         ProvidersHaveTheirGroup
  <1>6. CASE IntervalPasses
    BY <1>6 DEF IntervalPasses, ProvidersHaveTheirGroup
  <1>7. ASSUME NEW r, RefreshFails(r) \/ StatementFails(r)
        PROVE  ProvidersHaveTheirGroup'
    BY <1>7 DEF RefreshFails, StatementFails, tables, ProvidersHaveTheirGroup
  <1>8. CASE Updating \/ Crash \/ UNCHANGED vars
    BY <1>8 DEF Updating, ListDue, RefreshDue, Crash, tables, vars, ProvidersHaveTheirGroup
  <1> QED BY <1>4, <1>5, <1>6, <1>7, <1>8 DEF Next

\* Every provider has its own group, whatever is saved, deleted, refreshed,
\* cut off or interleaved.
THEOREM GroupsKept == Spec => []ProvidersHaveTheirGroup
  <1>1. Init => ProvidersHaveTheirGroup
    BY StartsAssumption DEF Init, ProvidersHaveTheirGroup
  <1> QED BY <1>1, GroupsStep, PTL DEF Spec
---------------------------------------------------------------------------
(* Types: tables, requests and policies. *)

States == Editing \cup Fetching \cup {Idle}
Walks  == {"save", "list", "walk", "done"}
Loads  == {"put", "fetch", "open", "back"}

(* Where a request is tells which one it is. *)
OpAt(at) ==
  CASE at = "save"                      -> {"policy"}
    [] at \in {"list", "walk"}          -> {"nodes", "groups", "delete"}
    [] at = "done"                      -> {"delete"}
    [] at = "put"                       -> {"upsert"}
    [] at \in {"fetch", "open", "back"} -> {"refresh"}
Shape == \A r \in Actors : Busy(r) => run[r].ask.op \in OpAt(run[r].at)

LEMMA TableIs ==
  ASSUME NEW Keys, NEW Values, NEW t \in Tables(Keys, Values)
  PROVE  DOMAIN t \subseteq Keys /\ t \in [DOMAIN t -> Values]
  <1>1. PICK K \in SUBSET Keys : t \in [K -> Values]
    BY DEF Tables
  <1> QED BY <1>1

LEMMA IsTable ==
  ASSUME NEW Keys, NEW Values, NEW K \in SUBSET Keys, NEW t \in [K -> Values]
  PROVE  t \in Tables(Keys, Values)
  BY DEF Tables

LEMMA AskFields ==
  ASSUME NEW a \in AllAsks
  PROVE  /\ a.op \in {"refresh", "delete", "upsert", "nodes", "groups", "page", "policy"}
         /\ a.op \in Storing => a.id \in Providers
         /\ a.op = "upsert" => a.src \in Sources
         /\ a.op = "nodes" => a.want \in SUBSET Nodes
         /\ a.op = "groups" => a.want \in Tables(Names, Providers \cup {None})
         /\ a.op = "page" => a.want \in [Users -> Policy]
         /\ a.op = "policy" => /\ a.user \in Users /\ a.want \in Policy
                               /\ a.given \in SUBSET Columns
  BY DEF AllAsks, Refreshes, Storing

LEMMA AskIs ==
  ASSUME NEW a \in Asks \cup Refreshes
  PROVE  a \in AllAsks
  BY AsksAssumption DEF AllAsks

LEMMA Somewhere ==
  ASSUME TypeOK, NEW r \in Actors
  PROVE  /\ run \in [Actors -> States] /\ run[r] \in States
         /\ run[r].at = "idle" <=> run[r] = Idle
         /\ run[r].at \in Walks => run[r] \in Editing
         /\ run[r].at \in Loads => run[r] \in Fetching
         /\ Busy(r) => run[r].at \in Walks \cup Loads
  <1>1. run \in [Actors -> States]
    BY DEF TypeOK, States
  <1>2. run[r] \in States
    BY <1>1
  <1>3. \A e \in Editing : e.at \in Walks
    BY DEF Editing, Walks
  <1>4. \A e \in Fetching : e.at \in Loads
    BY DEF Fetching, Loads
  <1>5. Idle.at = "idle"
    BY DEF Idle
  <1>6. "idle" \notin Walks \cup Loads /\ Walks \cap Loads = {}
    BY DEF Walks, Loads
  <1> QED BY <1>1, <1>2, <1>3, <1>4, <1>5, <1>6 DEF States, Busy

LEMMA EditingFields ==
  ASSUME NEW e \in Editing
  PROVE  /\ e.at \in Walks /\ e.ask \in Asks /\ e.ask \in AllAsks /\ e.copy \in [Users -> Policy]
         /\ e.todo \in SUBSET Users /\ e.alone \in BOOLEAN
  BY AsksAssumption DEF Editing, Walks

LEMMA FetchingFields ==
  ASSUME NEW e \in Fetching
  PROVE  /\ e.at \in Loads /\ e.ask \in Asks \cup Refreshes /\ e.ask \in AllAsks
         /\ e.copy \in Row /\ e.copy.src \in Sources /\ e.alone \in BOOLEAN
  BY AskIs DEF Fetching, Loads, Row

\* A function on the columns, each of its type, is a policy.
LEMMA IsPolicy ==
  ASSUME NEW p, DOMAIN p = Columns, p = [c \in Columns |-> p[c]],
         p["nodes"] \in SUBSET Nodes, p["provs"] \in SUBSET Providers,
         p["refs"] \in SUBSET (Names \X Providers), p["modes"] \in SUBSET Names
  PROVE  p \in Policy
  BY DEF Columns, Policy

LEMMA PolicyFields ==
  ASSUME NEW p \in Policy
  PROVE  /\ DOMAIN p = Columns /\ p = [c \in Columns |-> p[c]]
         /\ p["nodes"] \in SUBSET Nodes /\ p["provs"] \in SUBSET Providers
         /\ p["refs"] \in SUBSET (Names \X Providers) /\ p["modes"] \in SUBSET Names
  BY DEF Columns, Policy

LEMMA MergedPolicy ==
  ASSUME NEW p \in Policy, NEW q \in Policy, NEW columns
  PROVE  [c \in Columns |-> IF c \in columns THEN p[c] ELSE q[c]] \in Policy
  <1> DEFINE m == [c \in Columns |-> IF c \in columns THEN p[c] ELSE q[c]]
  <1> SUFFICES m \in Policy
    OBVIOUS
  <1>1. DOMAIN m = Columns /\ m = [c \in Columns |-> m[c]]
    OBVIOUS
  <1>2. \A c \in Columns : m[c] = p[c] \/ m[c] = q[c]
    OBVIOUS
  <1>3. /\ m["nodes"] \in SUBSET Nodes /\ m["provs"] \in SUBSET Providers
        /\ m["refs"] \in SUBSET (Names \X Providers) /\ m["modes"] \in SUBSET Names
    BY <1>2, PolicyFields DEF Columns
  <1> HIDE DEF m
  <1> QED BY <1>1, <1>3, IsPolicy

LEMMA CleanedPolicy ==
  ASSUME NEW p \in Policy, NEW want, NEW id
  PROVE  /\ KeepNodes(p, want) \in Policy /\ KeepGroups(p, want) \in Policy
         /\ DropProvider(p, id) \in Policy
  <1>1. KeepNodes(p, want) \in Policy
    BY DEF KeepNodes, Policy
  <1>2. KeepGroups(p, want) \in Policy
    BY DEF KeepGroups, Policy
  <1>3. DropProvider(p, id) \in Policy
    BY DEF DropProvider, Policy
  <1> QED BY <1>1, <1>2, <1>3

LEMMA StoreType ==
  ASSUME TypeOK, NEW u \in Users, NEW columns, NEW p \in Policy, Store(u, columns, p)
  PROVE  pol' \in [Users -> Policy]
  <1>1. pol \in [Users -> Policy] /\ pol[u] \in Policy
    BY DEF TypeOK
  <1> DEFINE m == [c \in Columns |-> IF c \in columns THEN p[c] ELSE pol[u][c]]
  <1>2. pol' = [pol EXCEPT ![u] = m]
    BY <1>1 DEF Store
  <1>3. m \in Policy
    BY <1>1, MergedPolicy
  <1> HIDE DEF m
  <1> QED BY <1>1, <1>2, <1>3

---------------------------------------------------------------------------
(* Types: what the parts of an action do. *)

LEMMA DisturbedType ==
  ASSUME TypeOK, NEW a
  PROVE  /\ Disturbed(a) \in [Actors -> States]
         /\ \A q \in Actors : /\ Busy(q) => Disturbed(a)[q] = [run[q] EXCEPT !.alone = FALSE]
                                            \/ Disturbed(a)[q] = run[q]
                              /\ ~Busy(q) => Disturbed(a)[q] = Idle
  <1>1. ASSUME NEW q \in Actors
        PROVE  [run[q] EXCEPT !.alone = FALSE] \in States \/ ~Busy(q)
    <2>1. CASE run[q] \in Editing
      BY <2>1 DEF Editing, States
    <2>2. CASE run[q] \in Fetching
      BY <2>2 DEF Fetching, States
    <2> QED BY <2>1, <2>2, Somewhere DEF States, Busy
  <1>2. \A q \in Actors : run[q] \in States
    BY Somewhere
  <1>3. Disturbed(a) = [q \in Actors |-> IF Busy(q) /\ Clash(run[q].ask, a)
                    THEN [run[q] EXCEPT !.alone = FALSE] ELSE run[q]]
    BY DEF Disturbed
  <1> QED BY <1>1, <1>2, <1>3 DEF Busy

LEMMA AskingType ==
  ASSUME TypeOK, NEW r, NEW a, Asking(r, a)
  PROVE  r \in Actors /\ pass' \in SUBSET Providers /\ left' \in [asks: Nat, troubles: Nat]
  BY DEF Asking, TypeOK, Actors

LEMMA AloneType == \A a : Alone(a) \in BOOLEAN
  BY DEF Alone

LEMMA EditsType ==
  ASSUME TypeOK, NEW r \in Actors, NEW a \in Asks, NEW at \in Walks, NEW todo \in SUBSET Users,
         Edits(r, a, at, todo)
  PROVE  run' \in [Actors -> States]
  <1> DEFINE e == [at |-> at, ask |-> a, copy |-> pol, todo |-> todo, alone |-> Alone(a)]
  <1>1. e \in Editing
    BY AloneType DEF Editing, Walks, TypeOK
  <1>2. run' = [Disturbed(a) EXCEPT ![r] = e]
    BY DEF Edits
  <1> HIDE DEF e
  <1> QED BY <1>1, <1>2, DisturbedType DEF States

LEMMA FetchesType ==
  ASSUME TypeOK, NEW r \in Actors, NEW a \in Asks \cup Refreshes, NEW at \in Loads,
         NEW copy \in Row, Fetches(r, a, at, copy)
  PROVE  run' \in [Actors -> States]
  <1> DEFINE e == [at |-> at, ask |-> a, copy |-> copy, alone |-> Alone(a)]
  <1>1. e \in Fetching
    BY AloneType DEF Fetching, Loads, TypeOK
  <1>2. run' = [Disturbed(a) EXCEPT ![r] = e]
    BY DEF Fetches
  <1> HIDE DEF e
  <1> QED BY <1>1, <1>2, DisturbedType DEF States

LEMMA EndsType ==
  ASSUME TypeOK, NEW r \in Actors, Ends(r)
  PROVE  run' \in [Actors -> States]
  BY Somewhere DEF Ends, States

LEMMA GoesType ==
  ASSUME TypeOK, NEW r \in Actors, NEW at, Goes(r, at),
         \/ run[r].at \in Walks /\ at \in Walks
         \/ run[r].at \in Loads /\ at \in Loads
  PROVE  run' \in [Actors -> States]
  <1> DEFINE e == [run[r] EXCEPT !.at = at]
  <1>1. run' = [run EXCEPT ![r] = e]
    BY DEF Goes
  <1>2. e \in States
    BY Somewhere DEF Editing, Fetching, Walks, Loads, States
  <1> HIDE DEF e
  <1> QED BY <1>1, <1>2, Somewhere

LEMMA TroubleType ==
  ASSUME TypeOK, Trouble
  PROVE  left' \in [asks: Nat, troubles: Nat]
  BY DEF TypeOK, Trouble

LEMMA UpsertType ==
  ASSUME TypeOK, NEW id \in Providers, NEW row \in Row, UpsertProviderToDB(id, row)
  PROVE  /\ groups' \in Tables(Names, Providers \cup {None})
         /\ rows' \in Tables(Providers, Row)
  <1>1. DOMAIN rows \subseteq Providers /\ rows \in [DOMAIN rows -> Row]
    BY TableIs DEF TypeOK
  <1>2. DOMAIN groups \subseteq Names /\ groups \in [DOMAIN groups -> Providers \cup {None}]
    BY TableIs DEF TypeOK
  <1>3. rows' \in [DOMAIN rows \cup {id} -> Row]
    BY <1>1 DEF UpsertProviderToDB
  <1>4. groups' \in [DOMAIN groups \cup {id} -> Providers \cup {None}]
    BY <1>2 DEF UpsertProviderToDB, WithProviders
  <1>5. DOMAIN rows \cup {id} \in SUBSET Providers /\ DOMAIN groups \cup {id} \in SUBSET Names
    BY <1>1, <1>2 DEF Names
  <1> QED BY <1>3, <1>4, <1>5, IsTable
---------------------------------------------------------------------------
(* Types: the steps. *)

LEMMA BeginsType ==
  ASSUME TypeOK, NEW r \in Actors, NEW a \in Asks, Begins(r, a)
  PROVE  TypeOK'
  <1>0. a \in AllAsks /\ a \in Asks \cup Refreshes /\ {} \in SUBSET Users
    BY AskIs
  <1>a. /\ DOMAIN rows \subseteq Providers /\ rows \in [DOMAIN rows -> Row]
        /\ DOMAIN groups \subseteq Names /\ groups \in [DOMAIN groups -> Providers \cup {None}]
    BY TableIs DEF TypeOK
  <1>1. CASE ReadAppConfig(r, a)
    <2>1. run' \in [Actors -> States]
      BY <1>0, <1>1, EditsType DEF ReadAppConfig, Walks
    <2> QED BY <2>1, <1>1, AskingType DEF ReadAppConfig, tables, TypeOK, States
  <1>2. CASE SavePage(r, a)
    <2>1. run' \in [Actors -> States]
      BY <1>2, DisturbedType DEF SavePage
    <2>2. pol' \in [Users -> Policy]
      BY <1>0, <1>2, AskFields DEF SavePage
    <2> QED BY <2>1, <2>2, <1>2, AskingType DEF SavePage, tables, TypeOK, States
  <1>3. CASE ReplaceNodes(r, a)
    <2>1. run' \in [Actors -> States]
      BY <1>0, <1>3, EditsType DEF ReplaceNodes, Walks
    <2>2. nodes' \in SUBSET Nodes
      BY <1>0, <1>3, AskFields DEF ReplaceNodes
    <2> QED BY <2>1, <2>2, <1>3, AskingType DEF ReplaceNodes, TypeOK, States
  <1>4. CASE SaveGroupsConfig(r, a)
    <2>1. run' \in [Actors -> States]
      BY <1>0, <1>4, EditsType DEF SaveGroupsConfig, Walks
    <2>2. a.want \in Tables(Names, Providers \cup {None})
      BY <1>0, <1>4, AskFields DEF SaveGroupsConfig
    <2>3. DOMAIN a.want \subseteq Names /\ a.want \in [DOMAIN a.want -> Providers \cup {None}]
      BY <2>2, TableIs
    <2>4. groups' \in [DOMAIN a.want \cup DOMAIN rows -> Providers \cup {None}]
      BY <1>4, <1>a, <2>3 DEF SaveGroupsConfig, WithProviders
    <2>5. DOMAIN a.want \cup DOMAIN rows \in SUBSET Names
      BY <1>a, <2>3 DEF Names
    <2>6. groups' \in Tables(Names, Providers \cup {None})
      BY <2>4, <2>5, IsTable
    <2> QED BY <2>1, <2>6, <1>4, AskingType DEF SaveGroupsConfig, TypeOK, States
  <1>5. CASE DeleteProvider(r, a)
    <2>1. run' \in [Actors -> States]
      BY <1>0, <1>5, EditsType DEF DeleteProvider, Walks
    <2>2. rows' \in [DOMAIN rows \ {a.id} -> Row] /\ DOMAIN rows \ {a.id} \in SUBSET Providers
      BY <1>5, <1>a DEF DeleteProvider
    <2>3. rows' \in Tables(Providers, Row)
      BY <2>2, IsTable
    <2> DEFINE rest == {h \in DOMAIN groups : groups[h] # a.id /\ h # a.id}
    <2>4. groups' \in [rest -> Providers \cup {None}] /\ rest \in SUBSET Names
      BY <1>5, <1>a DEF DeleteProvider
    <2>5. groups' \in Tables(Names, Providers \cup {None})
      BY <2>4, IsTable
    <2> QED BY <2>1, <2>3, <2>5, <1>5, AskingType DEF DeleteProvider, TypeOK, States
  <1>6. CASE PrepareProvider(r, a)
    <2> DEFINE row == [src |-> a.src, age |-> IF a.id \in DOMAIN rows THEN rows[a.id].age ELSE "never"]
    <2>1. row \in Row
      BY <1>0, <1>6, <1>a, AskFields DEF PrepareProvider, Row
    <2>2. Fetches(r, a, "put", row)
      BY <1>6 DEF PrepareProvider
    <2> HIDE DEF row
    <2>3. run' \in [Actors -> States]
      BY <1>0, <2>1, <2>2, FetchesType DEF Loads
    <2> QED BY <2>3, <1>6, AskingType DEF PrepareProvider, tables, TypeOK, States
  <1>7. CASE RefreshProvider(r, a)
    <2>1. rows[a.id] \in Row
      BY <1>7, <1>a DEF RefreshProvider
    <2>2. run' \in [Actors -> States]
      BY <1>0, <1>7, <2>1, FetchesType DEF RefreshProvider, Loads
    <2> QED BY <2>2, <1>7, AskingType DEF RefreshProvider, tables, TypeOK, States
  <1> QED BY <1>1, <1>2, <1>3, <1>4, <1>5, <1>6, <1>7 DEF Begins

LEMMA WalkingType ==
  ASSUME TypeOK, NEW r \in Actors, NEW u, NEW op, Walking(r, u, op)
  PROVE  /\ u \in Users /\ run[r] \in Editing /\ run[r].copy[u] \in Policy
         /\ run' \in [Actors -> States]
  <1>1. run[r] \in Editing /\ run[r].at = "walk" /\ run \in [Actors -> States]
    BY Somewhere DEF Walking, Walks
  <1>2. u \in Users /\ run[r].copy[u] \in Policy
    BY <1>1, EditingFields DEF Walking
  <1> DEFINE e == [run[r] EXCEPT !.todo = @ \ {u}]
  <1>3. e \in States
    BY <1>1 DEF Editing, States
  <1>4. run' = [run EXCEPT ![r] = e]
    BY DEF Walking
  <1> HIDE DEF e
  <1> QED BY <1>1, <1>2, <1>3, <1>4

LEMMA ContinuesType ==
  ASSUME TypeOK, Shape, NEW r \in Actors, Continues(r)
  PROVE  TypeOK'
  <1>a. /\ DOMAIN file \subseteq Providers /\ file \in [DOMAIN file -> Sources \cup {Torn}]
        /\ pol \in [Users -> Policy] /\ run \in [Actors -> States]
    BY TableIs, Somewhere DEF TypeOK
  <1>b. /\ run[r].at \in Walks => run[r] \in Editing
        /\ run[r].at \in Loads => run[r] \in Fetching /\ run[r].ask.id \in Providers
                                 /\ run[r].copy \in Row /\ run[r].copy.src \in Sources
        /\ run[r].at = "save" => run[r].ask.op = "policy"
    <2>1. run[r].at = "save" => Busy(r)
      BY Somewhere DEF Busy, Idle
    <2>2. run[r].at \in Loads => Busy(r)
      BY Somewhere DEF Busy, Idle, Loads
    <2>3. run[r].at = "save" => run[r].ask.op = "policy"
      BY <2>1 DEF Shape, OpAt
    <2>4. run[r].at \in Loads => run[r].ask.op \in Storing
      BY <2>2 DEF Shape, OpAt, Loads, Storing
    <2> QED BY <2>3, <2>4, Somewhere, FetchingFields, AskFields
  <1>1. CASE SaveAppConfig(r)
    <2>1. run[r] \in Editing /\ run' \in [Actors -> States]
      BY <1>1, <1>b, EndsType DEF SaveAppConfig, Walks
    <2> DEFINE a == run[r].ask
    <2>2. a.user \in Users /\ a.want \in Policy /\ run[r].copy \in [Users -> Policy]
      BY <2>1, <1>1, <1>b, EditingFields, AskFields DEF SaveAppConfig
    <2>3. Updated(a, run[r].copy[a.user]) \in Policy
      BY <2>2, MergedPolicy DEF Updated
    <2>4. pol' = [run[r].copy EXCEPT ![a.user] = Updated(a, @)]
      BY <1>1 DEF SaveAppConfig
    <2> HIDE DEF a
    <2>5. pol' \in [Users -> Policy]
      BY <2>2, <2>3, <2>4
    <2> QED BY <2>1, <2>5, <1>1 DEF SaveAppConfig, tables, TypeOK, States
  <1>2. CASE UpsertProvider(r) \/ WriteBack(r)
    <2>1. run[r].at \in Loads /\ run' \in [Actors -> States]
      BY <1>2, EndsType DEF UpsertProvider, WriteBack, Loads
    <2>2. /\ groups' \in Tables(Names, Providers \cup {None})
          /\ rows' \in Tables(Providers, Row)
      BY <2>1, <1>2, <1>b, UpsertType DEF UpsertProvider, WriteBack
    <2> QED BY <2>1, <2>2, <1>2 DEF UpsertProvider, WriteBack, TypeOK, States
  <1>3. CASE ListUsers(r)
    <2> DEFINE e == [run[r] EXCEPT !.at = "walk", !.copy = pol, !.todo = Users]
    <2>1. run' = [run EXCEPT ![r] = e]
      BY <1>3 DEF ListUsers
    <2>2. e \in States
      BY <1>3, <1>a, <1>b DEF ListUsers, Walks, Editing, States
    <2> HIDE DEF e
    <2>3. run' \in [Actors -> States]
      BY <1>a, <2>1, <2>2
    <2> QED BY <2>3, <1>3 DEF ListUsers, tables, TypeOK, States
  <1>4. CASE RemoveProviderFile(r)
    <2> DEFINE id == run[r].ask.id
    <2>1. file' \in [DOMAIN file \ {id} -> Sources \cup {Torn}] /\ DOMAIN file \ {id} \in SUBSET Providers
      BY <1>4, <1>a DEF RemoveProviderFile
    <2>2. file' \in Tables(Providers, Sources \cup {Torn})
      BY <2>1, IsTable
    <2>3. [run[r] EXCEPT !.at = "done"] \in States
      BY <1>4, <1>b DEF RemoveProviderFile, Editing, Walks, States
    <2>4. \A q \in Actors : run[q].at = "open" =>
            [run[q] EXCEPT !.at = "back", !.copy.age = "fresh"] \in States
      <3> SUFFICES ASSUME NEW q \in Actors, run[q].at = "open"
                   PROVE  [run[q] EXCEPT !.at = "back", !.copy.age = "fresh"] \in States
        OBVIOUS
      <3>1. run[q] \in Fetching
        BY Somewhere DEF Loads
      <3> QED BY <3>1 DEF Fetching, Row, States
    <2>5. run' = [q \in Actors |->
              IF q = r THEN [run[r] EXCEPT !.at = "done"]
              ELSE IF run[q].at = "open" /\ run[q].ask.id = id
                   THEN [run[q] EXCEPT !.at = "back", !.copy.age = "fresh"] ELSE run[q]]
      BY <1>4 DEF RemoveProviderFile
    <2> HIDE DEF id
    <2>6. run' \in [Actors -> States]
      BY <1>a, <2>3, <2>4, <2>5
    <2> QED BY <2>2, <2>6, <1>4 DEF RemoveProviderFile, TypeOK, States
  <1>5. CASE Return(r)
    BY <1>5, EndsType DEF Return, tables, TypeOK, States
  <1>6. ASSUME NEW u \in Users,
               CleanupNodePrefs(r, u) \/ CleanupGroupPrefs(r, u) \/ CleanupProviderPrefs(r, u)
        PROVE  TypeOK'
    <2>1. /\ run[r].copy[u] \in Policy /\ run' \in [Actors -> States]
          /\ UNCHANGED <<tables, pass, left>>
      BY <1>6, WalkingType DEF CleanupNodePrefs, CleanupGroupPrefs, CleanupProviderPrefs, Walking
    <2>2. \A want, id : /\ KeepNodes(run[r].copy[u], want) \in Policy
                        /\ KeepGroups(run[r].copy[u], want) \in Policy
                        /\ DropProvider(run[r].copy[u], id) \in Policy
      BY <2>1, CleanedPolicy
    <2>3. pol' \in [Users -> Policy]
      BY <1>a, <1>6, <2>2, StoreType DEF CleanupNodePrefs, CleanupGroupPrefs, CleanupProviderPrefs
    <2> QED BY <2>1, <2>3 DEF tables, TypeOK, States
  <1>7. CASE OpenFile(r)
    <2> DEFINE id == run[r].ask.id
    <2>1. id \in Providers /\ run[r].at \in Loads
      BY <1>7, <1>b DEF OpenFile, Loads
    <2>2. run' \in [Actors -> States]
      BY <1>7, <2>1, GoesType DEF OpenFile, Loads
    <2>3. file' = [f \in DOMAIN file \cup {id} |-> IF f = id THEN Torn ELSE file[f]]
      BY <1>7 DEF OpenFile
    <2>4. file' \in [DOMAIN file \cup {id} -> Sources \cup {Torn}]
      BY <2>3, <1>a
    <2>5. file' \in Tables(Providers, Sources \cup {Torn})
      BY <2>1, <2>4, <1>a, IsTable
    <2> QED BY <2>2, <2>5, <1>7 DEF OpenFile, TypeOK, States
  <1>8. CASE FillFile(r)
    <2> DEFINE e == [run[r] EXCEPT !.at = "back", !.copy.age = "fresh"]
    <2>1. run' = [run EXCEPT ![r] = e] /\ run[r].at = "open"
      BY <1>8 DEF FillFile
    <2>2. e \in States
      BY <2>1, <1>b DEF Fetching, Row, States, Loads
    <2> HIDE DEF e
    <2>3. run' \in [Actors -> States]
      BY <1>a, <2>1, <2>2
    <2>4. run[r].copy.src \in Sources
      BY <2>1, <1>b DEF Loads
    <2>5. \/ file' = [file EXCEPT ![run[r].ask.id] = run[r].copy.src]
          \/ file' = [file EXCEPT ![run[r].ask.id] = Torn]
      BY <1>8 DEF FillFile
    <2>6. file' \in [DOMAIN file -> Sources \cup {Torn}]
      BY <2>4, <2>5, <1>a
    <2>7. file' \in Tables(Providers, Sources \cup {Torn})
      BY <2>6, <1>a, IsTable
    <2> QED BY <2>3, <2>7, <1>8 DEF FillFile, TypeOK, States
  <1> QED BY <1>1, <1>2, <1>3, <1>4, <1>5, <1>6, <1>7, <1>8 DEF Continues

LEMMA OtherType ==
  ASSUME TypeOK,
         \/ \E r \in Actors : RefreshFails(r) \/ StatementFails(r)
         \/ Updating \/ IntervalPasses \/ Crash \/ UNCHANGED vars
  PROVE  TypeOK'
  <1>a. DOMAIN rows \subseteq Providers /\ rows \in [DOMAIN rows -> Row]
    BY TableIs DEF TypeOK
  <1>b. run \in [Actors -> States] /\ Ticker \in Actors
    BY Somewhere DEF Actors
  <1>1. ASSUME NEW r \in Actors, RefreshFails(r)
        PROVE  TypeOK'
    <2>1. run' \in [Actors -> States]
      BY <1>1, GoesType DEF RefreshFails, Loads
    <2> QED BY <2>1, <1>1, TroubleType DEF RefreshFails, tables, TypeOK, States
  <1>2. ASSUME NEW r \in Actors, StatementFails(r)
        PROVE  TypeOK'
    BY <1>2, EndsType, TroubleType DEF StatementFails, tables, TypeOK, States
  <1>3. CASE ListDue
    BY <1>a, <1>3 DEF ListDue, tables, TypeOK
  <1>4. ASSUME NEW id \in Providers, RefreshDue(id)
        PROVE  TypeOK'
    <2>1. run' \in [Actors -> States]
      <3>1. CASE id \in DOMAIN rows
        <4> DEFINE ask == [op |-> "refresh", id |-> id]
        <4>1. ask \in Refreshes
          BY DEF Refreshes
        <4>2. Fetches(Ticker, ask, "fetch", rows[id])
          BY <3>1, <1>4 DEF RefreshDue
        <4> HIDE DEF ask
        <4> QED BY <4>1, <4>2, <3>1, <1>a, <1>b, FetchesType DEF Loads
      <3>2. CASE id \notin DOMAIN rows
        BY <3>2, <1>4, <1>b DEF RefreshDue
      <3> QED BY <3>1, <3>2
    <2> QED BY <2>1, <1>4 DEF RefreshDue, tables, TypeOK, States
  <1>5. CASE IntervalPasses
    <2>0. \A row \in Row : Aged(row) \in Row
      BY DEF Aged, Row
    <2>1. rows' \in [DOMAIN rows -> Row]
      BY <1>5, <1>a, <2>0 DEF IntervalPasses
    <2>2. rows' \in Tables(Providers, Row)
      BY <2>1, <1>a, IsTable
    <2>3. \A e \in Fetching : [e EXCEPT !.copy = Aged(@)] \in States
      BY <2>0 DEF Fetching, States
    <2>4. \A q \in Actors : run[q].at \in Loads => [run[q] EXCEPT !.copy = Aged(@)] \in States
      BY <2>3, Somewhere
    <2>5. run' = [r \in Actors |-> IF run[r].at \in Loads
                              THEN [run[r] EXCEPT !.copy = Aged(@)] ELSE run[r]]
      BY <1>5 DEF IntervalPasses, Loads
    <2>6. run' \in [Actors -> States]
      BY <1>b, <2>4, <2>5
    <2> QED BY <2>2, <2>6, <1>5 DEF IntervalPasses, TypeOK, States
  <1>6. CASE Crash
    BY <1>6, TroubleType DEF Crash, tables, TypeOK
  <1>7. CASE UNCHANGED vars
    BY <1>7 DEF vars, tables, TypeOK
  <1> QED BY <1>1, <1>2, <1>3, <1>4, <1>5, <1>6, <1>7 DEF Updating
---------------------------------------------------------------------------
(* Requests that overlap. *)

(* Requests that would disturb each other know it, and refreshes of the    *)
(* same provider know the same.                                            *)
Apart ==
  \A q, r \in Actors :
    q # r /\ Busy(q) /\ Busy(r) /\ Clash(run[q].ask, run[r].ask) => ~run[q].alone /\ ~run[r].alone
Joined ==
  \A q, r \in Actors :
    q # r /\ Busy(q) /\ Busy(r) /\ Joins(run[q].ask, run[r].ask) => (run[q].alone <=> run[r].alone)

Resumes(q) ==
  /\ Busy(q) /\ Busy(q)'
  /\ run'[q].ask = run[q].ask /\ run'[q].alone = run[q].alone

\* A request begins: it alone is new, and the others that it clashes with know.
Begun(r, a) ==
  /\ ~Busy(r)
  /\ run'[r] = Idle \/ (Busy(r)' /\ run'[r].ask = a /\ (run'[r].alone <=> Alone(a)))
  /\ \A q \in Actors : q # r /\ Busy(q)' =>
       /\ Busy(q) /\ run'[q].ask = run[q].ask
       /\ run'[q].alone <=> run[q].alone /\ ~Clash(run[q].ask, a)

LEMMA ClashFacts ==
  /\ \A a, b : Clash(a, b) <=> Clash(b, a)
  /\ \A a, b, c : Joins(a, b) => (Clash(c, a) <=> Clash(c, b)) /\ (Clash(a, c) <=> Clash(b, c))
  /\ \A a, b : Joins(a, b) => ~Clash(a, b) /\ Joins(b, a)
  /\ \A a, b, c : Joins(a, b) /\ Joins(b, c) => Joins(a, c)
  <1>1. \A a, b : Clash(a, b) <=> Clash(b, a)
    BY DEF Clash
  <1>2. \A a, b : Joins(a, b) => a.op = "refresh" /\ b.op = "refresh" /\ a.id = b.id
    BY DEF Joins
  <1>3. Writes("refresh") = {}
    BY DEF Writes
  <1>4. \A a, b, c : Joins(a, b) => (Clash(c, a) <=> Clash(c, b))
    BY <1>2 DEF Clash
  <1>5. \A a, b : Joins(a, b) => ~Clash(a, b) /\ Joins(b, a)
    BY <1>2, <1>3 DEF Clash, Joins
  <1>6. \A a, b, c : Joins(a, b) /\ Joins(b, c) => Joins(a, c)
    BY DEF Joins
  <1> QED BY <1>1, <1>4, <1>5, <1>6

LEMMA ResumesApart ==
  ASSUME Apart, Joined, \A q \in Actors : run'[q] = Idle \/ Resumes(q)
  PROVE  Apart' /\ Joined'
  <1>1. \A q \in Actors : Busy(q)' => Resumes(q)
    BY DEF Busy
  <1>2. Apart'
    BY <1>1 DEF Apart, Resumes
  <1>3. Joined'
    BY <1>1 DEF Joined, Resumes
  <1> QED BY <1>2, <1>3

LEMMA BegunApart ==
  ASSUME TypeOK, Apart, Joined, NEW r \in Actors, NEW a, Begun(r, a)
  PROVE  Apart' /\ Joined'
  <1>1. \A q \in Actors : q # r /\ Busy(q)' =>
          /\ Busy(q) /\ run'[q].ask = run[q].ask
          /\ run'[q].alone <=> run[q].alone /\ ~Clash(run[q].ask, a)
    BY DEF Begun
  <1>2. Busy(r)' => run'[r].ask = a /\ (run'[r].alone <=> Alone(a))
    BY DEF Begun, Busy
  <1>3. \A q \in Actors : Busy(q) /\ Alone(a) => /\ ~Clash(run[q].ask, a)
                                                 /\ Joins(run[q].ask, a) => run[q].alone
    BY DEF Alone
  <1>4. Apart'
    <2> SUFFICES ASSUME NEW q \in Actors, NEW p \in Actors, q # p, Busy(q)', Busy(p)',
                        Clash(run'[q].ask, run'[p].ask)
                 PROVE  ~run'[q].alone /\ ~run'[p].alone
      BY DEF Apart
    <2>1. CASE q # r /\ p # r
      BY <2>1, <1>1 DEF Apart
    <2>2. CASE q = r
      BY <2>2, <1>1, <1>2, <1>3, ClashFacts
    <2>3. CASE p = r
      BY <2>3, <1>1, <1>2, <1>3
    <2> QED BY <2>1, <2>2, <2>3
  <1>5. ASSUME NEW q \in Actors, q # r, Busy(q)', Busy(r)', Joins(run[q].ask, a)
        PROVE  run'[q].alone <=> run'[r].alone
    <2>1. Busy(q) /\ (run'[q].alone <=> run[q].alone)
      BY <1>5, <1>1, ClashFacts
    <2>2. ASSUME run[q].alone
          PROVE  Alone(a)
      <3> SUFFICES ASSUME NEW p \in Actors, Busy(p)
                   PROVE  ~Clash(run[p].ask, a) /\ (Joins(run[p].ask, a) => run[p].alone)
        BY DEF Alone
      <3>1. CASE p = q
        BY <3>1, <1>5, <2>2, ClashFacts
      <3>2. CASE p # q
        <4>1. ~Clash(run[p].ask, run[q].ask)
          BY <3>2, <2>1, <2>2 DEF Apart
        <4>2. ~Clash(run[p].ask, a)
          BY <4>1, <1>5, ClashFacts
        <4>3. Joins(run[p].ask, a) => Joins(run[p].ask, run[q].ask)
          BY <1>5, ClashFacts
        <4> QED BY <3>2, <4>2, <4>3, <2>1, <2>2 DEF Joined
      <3> QED BY <3>1, <3>2
    <2> QED BY <1>2, <1>3, <1>5, <2>1, <2>2
  <1>6. Joined'
    <2> SUFFICES ASSUME NEW q \in Actors, NEW p \in Actors, q # p, Busy(q)', Busy(p)',
                        Joins(run'[q].ask, run'[p].ask)
                 PROVE  run'[q].alone <=> run'[p].alone
      BY DEF Joined
    <2>1. CASE q # r /\ p # r
      <3>1. run[q].alone <=> run[p].alone
        BY <2>1, <1>1 DEF Joined
      <3>2. Clash(run[q].ask, a) <=> Clash(run[p].ask, a)
        BY <2>1, <1>1, ClashFacts
      <3> QED BY <2>1, <1>1, <3>1, <3>2
    <2>2. CASE q = r
      BY <2>2, <1>1, <1>2, <1>5, ClashFacts
    <2>3. CASE p = r
      BY <2>3, <1>1, <1>2, <1>5
    <2> QED BY <2>1, <2>2, <2>3
  <1> QED BY <1>4, <1>6

---------------------------------------------------------------------------
(* What a request that is alone can count on. *)

Clean(a, p) ==
  /\ a.op = "nodes" => p["nodes"] \subseteq a.want
  /\ a.op = "groups" => /\ \A x \in p["refs"] : x[1] \in DOMAIN a.want
                        /\ p["modes"] \subseteq DOMAIN a.want
  /\ a.op = "delete" => a.id \notin p["provs"] /\ \A x \in p["refs"] : x[2] # a.id

(* The table is still what its request made of it, *)
Listed(r) ==
  run[r].at \in {"list", "walk", "done"} =>
    LET a == run[r].ask
    IN  /\ a.op = "nodes" => nodes = a.want
        /\ a.op = "groups" => DOMAIN a.want \subseteq DOMAIN groups
        /\ a.op = "delete" => /\ a.id \notin DOMAIN rows
                              /\ run[r].at = "done" => a.id \notin DOMAIN file
        /\ run[r].at = "done" => run[r].todo = {}
(* the policies it has written are clean and the others as they were read, *)
Walked(r) ==
  run[r].at \in {"walk", "done"} =>
    \A u \in Users :
      /\ u \in run[r].todo => \A c \in Writes(run[r].ask.op) : pol[u][c] = run[r].copy[u][c]
      /\ u \notin run[r].todo => Clean(run[r].ask, pol[u])
(* and the provider that it refreshes is still there, with its source. *)
Reads(r) ==
  run[r].ask.op = "refresh" =>
    /\ run[r].ask.id \in DOMAIN rows
    /\ rows[run[r].ask.id].src = run[r].copy.src

Own(r) == Busy(r) /\ run[r].alone => Listed(r) /\ Walked(r) /\ Reads(r)

Inv ==
  /\ TypeOK /\ ProvidersHaveTheirGroup /\ Shape /\ Apart /\ Joined
  /\ \A r \in Actors : Own(r)

LEMMA WritesColumns ==
  ASSUME NEW a \in AllAsks
  PROVE  Writes(a.op) \subseteq Columns
  BY AskFields DEF Writes, Columns

LEMMA CleanFrame ==
  ASSUME NEW a \in AllAsks, NEW p, NEW q, \A c \in Writes(a.op) : p[c] = q[c], Clean(a, p)
  PROVE  Clean(a, q)
  <1>1. CASE a.op = "nodes"
    BY <1>1 DEF Clean, Writes
  <1>2. CASE a.op = "groups"
    BY <1>2 DEF Clean, Writes
  <1>3. CASE a.op = "delete"
    BY <1>3 DEF Clean, Writes
  <1>4. CASE a.op \notin {"nodes", "groups", "delete"}
    BY <1>4 DEF Clean
  <1> QED BY <1>1, <1>2, <1>3, <1>4

\* A step of another's: r goes on where it was,
Bystander(r) ==
  \/ run'[r] = Idle
  \/ /\ Busy(r) /\ Busy(r)' /\ run'[r].ask = run[r].ask /\ (run'[r].alone => run[r].alone)
     /\ run'[r].ask.op \in OpAt(run'[r].at)
     /\ run[r] \in Editing => /\ run'[r].at = run[r].at /\ run'[r].copy = run[r].copy
                              /\ run'[r].todo = run[r].todo
     /\ run[r] \in Fetching => run'[r].copy.src = run[r].copy.src
\* and finds what it counts on.
Spared(r) ==
  LET a == run[r].ask
  IN  /\ \A u \in Users, c \in Writes(a.op) : pol'[u][c] = pol[u][c]
      /\ a.op = "nodes" => nodes' = nodes
      /\ a.op = "groups" => DOMAIN groups \subseteq DOMAIN groups'
      /\ a.op = "delete" => /\ a.id \in DOMAIN rows' => a.id \in DOMAIN rows
                            /\ a.id \in DOMAIN file' => a.id \in DOMAIN file
      /\ a.op = "refresh" /\ a.id \in DOMAIN rows =>
           a.id \in DOMAIN rows' /\ rows'[a.id].src = rows[a.id].src

LEMMA SparedKeeps ==
  ASSUME TypeOK, Shape, NEW r \in Actors, Own(r), Bystander(r),
         Busy(r)' /\ run'[r].alone => Spared(r)
  PROVE  Own(r)'
  <1> SUFFICES ASSUME Busy(r)', run'[r].alone
               PROVE  Listed(r)' /\ Walked(r)' /\ Reads(r)'
    BY DEF Own
  <1>1. /\ Busy(r) /\ run[r].alone /\ run'[r].ask = run[r].ask
        /\ run'[r].ask.op \in OpAt(run'[r].at) /\ Spared(r)
        /\ run[r] \in Editing => /\ run'[r].at = run[r].at /\ run'[r].copy = run[r].copy
                                 /\ run'[r].todo = run[r].todo
        /\ run[r] \in Fetching => run'[r].copy.src = run[r].copy.src
    BY DEF Bystander, Busy
  <1>2. Listed(r) /\ Walked(r) /\ Reads(r) /\ run[r].ask.op \in OpAt(run[r].at)
    BY <1>1 DEF Own, Shape
  <1>3. run[r] \in Editing \/ run[r] \in Fetching
    BY <1>1, Somewhere DEF Busy, States
  <1>4. CASE run[r] \in Editing
    <2>1. run[r].ask \in AllAsks /\ run[r].at \in Walks
      BY <1>4, EditingFields
    <2>2. Listed(r)'
      BY <1>1, <1>2, <1>4 DEF Listed, Spared
    <2>3. Walked(r)'
      <3> SUFFICES ASSUME run[r].at \in {"walk", "done"}, NEW u \in Users
                   PROVE  /\ u \in run[r].todo => \A c \in Writes(run[r].ask.op) :
                                                    pol'[u][c] = run[r].copy[u][c]
                          /\ u \notin run[r].todo => Clean(run[r].ask, pol'[u])
        BY <1>1, <1>4 DEF Walked
      <3>1. \A c \in Writes(run[r].ask.op) : pol'[u][c] = pol[u][c]
        BY <1>1 DEF Spared
      <3>2. u \in run[r].todo => \A c \in Writes(run[r].ask.op) : pol[u][c] = run[r].copy[u][c]
        BY <1>2 DEF Walked
      <3>3. u \notin run[r].todo => Clean(run[r].ask, pol[u])
        BY <1>2 DEF Walked
      <3> QED BY <3>1, <3>2, <3>3, <2>1, CleanFrame
    <2>4. run[r].ask.op # "refresh"
      BY <1>2, <2>1 DEF OpAt, Walks
    <2> QED BY <2>2, <2>3, <2>4, <1>1 DEF Reads
  <1>5. CASE run[r] \in Fetching
    <2>1. run[r].at \in Loads
      BY <1>5, FetchingFields
    <2>2. run[r].ask.op \in {"upsert", "refresh"}
      BY <2>1, <1>2 DEF OpAt, Loads
    <2>3. run'[r].at \notin {"list", "walk", "done"}
      BY <2>2, <1>1 DEF OpAt
    <2>4. Reads(r)'
      BY <1>1, <1>2, <1>5 DEF Reads, Spared
    <2> QED BY <2>3, <2>4 DEF Listed, Walked
  <1> QED BY <1>3, <1>4, <1>5
---------------------------------------------------------------------------
(* What a step of a request writes, and whom it spares. *)

Wrote(b, lone) ==
  /\ \A u \in Users, c \in Columns \ Writes(b.op) : pol'[u][c] = pol[u][c]
  /\ b.op # "nodes" => nodes' = nodes
  /\ b.op \notin {"groups", "delete"} => DOMAIN groups \subseteq DOMAIN groups'
  /\ \A id \in DOMAIN rows' \ DOMAIN rows : b.op \in {"upsert", "refresh"} /\ b.id = id
  /\ \A id \in DOMAIN file' \ DOMAIN file : b.op = "refresh" /\ b.id = id
  /\ \A id \in DOMAIN rows :
       \/ id \in DOMAIN rows' /\ rows'[id].src = rows[id].src
       \/ b.op \in {"delete", "upsert"} /\ b.id = id
       \/ b.op = "refresh" /\ b.id = id /\ ~lone

LEMMA WroteSpares ==
  ASSUME TypeOK, Shape, NEW b \in AllAsks, NEW lone, Wrote(b, lone), NEW r \in Actors, Busy(r),
         ~Clash(b, run[r].ask), Joins(b, run[r].ask) => lone
  PROVE  Spared(r)
  <1> DEFINE a == run[r].ask
  <1>1. a \in AllAsks
    BY Somewhere, EditingFields, FetchingFields DEF Busy, States
  <1>2. Writes(b.op) \cap Writes(a.op) = {} /\ Writes(a.op) \subseteq Columns
    BY <1>1, WritesColumns DEF Clash
  <1>3. \A u \in Users, c \in Writes(a.op) : pol'[u][c] = pol[u][c]
    BY <1>2 DEF Wrote
  <1>4. a.op = "nodes" => nodes' = nodes
    BY <1>2 DEF Wrote, Writes
  <1>5. a.op = "groups" => DOMAIN groups \subseteq DOMAIN groups'
    BY <1>2 DEF Wrote, Writes
  <1>6. a.op \in Storing /\ b.op \in Storing /\ a.id = b.id => a.op = "refresh" /\ b.op = "refresh"
    BY DEF Clash
  <1>7. a.op = "delete" => /\ a.id \in DOMAIN rows' => a.id \in DOMAIN rows
                           /\ a.id \in DOMAIN file' => a.id \in DOMAIN file
    BY <1>6 DEF Wrote, Storing
  <1>8. a.op = "refresh" /\ a.id \in DOMAIN rows =>
          a.id \in DOMAIN rows' /\ rows'[a.id].src = rows[a.id].src
    <2> SUFFICES ASSUME a.op = "refresh", a.id \in DOMAIN rows
                 PROVE  a.id \in DOMAIN rows' /\ rows'[a.id].src = rows[a.id].src
      OBVIOUS
    <2>1. ~(b.op \in {"delete", "upsert"} /\ b.id = a.id)
      BY <1>6 DEF Storing
    <2>2. ~(b.op = "refresh" /\ b.id = a.id /\ ~lone)
      BY DEF Joins
    <2> QED BY <2>1, <2>2 DEF Wrote
  <1> QED BY <1>3, <1>4, <1>5, <1>7, <1>8 DEF Spared

\* A request that begins: the others go on, and know.
LEMMA BeginsOthers ==
  ASSUME TypeOK, Shape, \A q \in Actors : Own(q), NEW r \in Actors, NEW a \in AllAsks,
         ~Busy(r), Wrote(a, TRUE),
         \A q \in Actors : q # r => run'[q] = Disturbed(a)[q]
  PROVE  \A q \in Actors : q # r =>
           /\ Own(q)' /\ (Busy(q)' => Bystander(q))
           /\ Busy(q)' => Busy(q) /\ (run'[q].alone <=> run[q].alone /\ ~Clash(run[q].ask, a))
  <1> SUFFICES ASSUME NEW q \in Actors, q # r
               PROVE  /\ Own(q)' /\ (Busy(q)' => Bystander(q))
                      /\ Busy(q)' => /\ Busy(q)
                                     /\ run'[q].alone <=> run[q].alone /\ ~Clash(run[q].ask, a)
    OBVIOUS
  <1>1. CASE ~Busy(q)
    BY <1>1, DisturbedType DEF Own, Busy
  <1>2. CASE Busy(q)
    <2>1. run'[q] = IF Clash(run[q].ask, a) THEN [run[q] EXCEPT !.alone = FALSE] ELSE run[q]
      BY <1>2 DEF Disturbed
    <2>2. run[q] \in Editing \/ run[q] \in Fetching
      BY <1>2, Somewhere DEF Busy, States
    <2>3. /\ run'[q].at = run[q].at /\ run'[q].ask = run[q].ask /\ run'[q].copy = run[q].copy
          /\ run[q] \in Editing => run'[q].todo = run[q].todo
          /\ Clash(run[q].ask, a) => ~run'[q].alone
          /\ ~Clash(run[q].ask, a) => run'[q].alone = run[q].alone
      BY <2>1, <2>2 DEF Editing, Fetching
    <2>4. run[q].at # "idle" /\ run[q].ask.op \in OpAt(run[q].at) /\ run[q].alone \in BOOLEAN
      BY <1>2, <2>2, Somewhere, EditingFields, FetchingFields DEF Busy, Shape
    <2>5. Busy(q)'
      BY <2>3, <2>4 DEF Busy, Idle
    <2>6. Bystander(q)
      BY <1>2, <2>3, <2>4, <2>5 DEF Bystander
    <2>7. run'[q].alone => Spared(q)
      BY <1>2, <2>3, WroteSpares, ClashFacts
    <2>8. Own(q)'
      BY <2>6, <2>7, SparedKeeps
    <2> QED BY <1>2, <2>3, <2>4, <2>6, <2>8
  <1> QED BY <1>1, <1>2

\* A step of a request that goes on or ends: the others stay as they are, or
\* a refresh whose file is gone goes on to write back.
LEMMA ContinuesOthers ==
  ASSUME Inv, NEW r \in Actors, Busy(r), Wrote(run[r].ask, run[r].alone),
         NEW q \in Actors, q # r,
         \/ run'[q] = run[q]
         \/ run[q].at = "open" /\ run'[q] = [run[q] EXCEPT !.at = "back", !.copy.age = "fresh"]
  PROVE  /\ Own(q)' /\ (Busy(q)' => Bystander(q))
         /\ run'[q] = Idle \/ Resumes(q)
  <1>0. TypeOK /\ Shape /\ Own(q) /\ run[r].ask \in AllAsks
    BY Somewhere, EditingFields, FetchingFields DEF Inv, Busy, States
  <1>1. CASE ~Busy(q)
    <2>1. run[q].at = "idle"
      BY <1>0, <1>1, Somewhere DEF Busy
    <2> QED BY <1>1, <2>1 DEF Own, Busy
  <1>2. CASE Busy(q)
    <2>1. run[q].ask.op \in OpAt(run[q].at) /\ run[q].at # "idle"
      BY <1>0, <1>2, Somewhere DEF Shape, Busy
    <2>2. Resumes(q) /\ Bystander(q)
      <3>1. CASE run'[q] = run[q]
        BY <1>2, <2>1, <3>1 DEF Resumes, Bystander, Busy
      <3>2. CASE run[q].at = "open" /\ run'[q] = [run[q] EXCEPT !.at = "back", !.copy.age = "fresh"]
        <4>1. run[q] \in Fetching /\ run[q] \notin Editing
          BY <1>0, <3>2, Somewhere, EditingFields DEF Loads, Walks
        <4>2. /\ run'[q].at = "back" /\ run'[q].ask = run[q].ask /\ run'[q].alone = run[q].alone
              /\ run'[q].copy.src = run[q].copy.src
          BY <3>2, <4>1 DEF Fetching, Row
        <4>3. Busy(q)'
          BY <4>2 DEF Busy, Idle
        <4>4. run'[q].ask.op \in OpAt(run'[q].at)
          BY <2>1, <3>2, <4>2 DEF OpAt
        <4> QED BY <1>2, <4>1, <4>2, <4>3, <4>4 DEF Resumes, Bystander
      <3> QED BY <3>1, <3>2
    <2>3. Busy(q)' /\ run'[q].alone => Spared(q)
      <3> SUFFICES ASSUME Busy(q)', run'[q].alone
                   PROVE  Spared(q)
        OBVIOUS
      <3>1. run[q].alone
        BY <2>2 DEF Resumes
      <3>2. ~Clash(run[r].ask, run[q].ask)
        BY <1>2, <3>1 DEF Inv, Apart
      <3>3. Joins(run[r].ask, run[q].ask) => run[r].alone
        BY <1>2, <3>1 DEF Inv, Joined
      <3> QED BY <1>0, <1>2, <3>2, <3>3, WroteSpares
    <2> QED BY <1>0, <2>2, <2>3, SparedKeeps
  <1> QED BY <1>1, <1>2
---------------------------------------------------------------------------
(* The invariant, from what the step does to its own request. *)

LEMMA BeginsKeeps ==
  ASSUME Inv, TypeOK', ProvidersHaveTheirGroup', NEW r \in Actors, NEW a \in AllAsks,
         ~Busy(r), Wrote(a, TRUE),
         \A q \in Actors : q # r => run'[q] = Disturbed(a)[q],
         \/ run'[r] = Idle
         \/ /\ run'[r].ask = a /\ (run'[r].alone <=> Alone(a)) /\ run'[r].at # "idle"
            /\ a.op \in OpAt(run'[r].at)
            /\ Listed(r)' /\ Walked(r)' /\ Reads(r)'
  PROVE  Inv'
  <1>1. \A q \in Actors : q # r =>
           /\ Own(q)' /\ (Busy(q)' => Bystander(q))
           /\ Busy(q)' => Busy(q) /\ (run'[q].alone <=> run[q].alone /\ ~Clash(run[q].ask, a))
    BY BeginsOthers DEF Inv
  <1>2. Busy(r)' => /\ run'[r].ask = a /\ (run'[r].alone <=> Alone(a))
                    /\ a.op \in OpAt(run'[r].at) /\ Own(r)'
    BY DEF Busy, Own
  <1>3. \A q \in Actors : q # r /\ Busy(q)' =>
          run'[q].ask = run[q].ask /\ run'[q].ask.op \in OpAt(run'[q].at)
    BY <1>1 DEF Bystander, Busy
  <1>4. Begun(r, a)
    BY <1>1, <1>2, <1>3 DEF Begun, Busy
  <1>5. Apart' /\ Joined'
    BY <1>4, BegunApart DEF Inv
  <1>6. Shape'
    BY <1>2, <1>3 DEF Shape
  <1>7. ASSUME NEW q \in Actors
        PROVE  Own(q)'
    BY <1>1, <1>2 DEF Own
  <1> QED BY <1>5, <1>6, <1>7 DEF Inv

LEMMA ContinuesKeeps ==
  ASSUME Inv, TypeOK', ProvidersHaveTheirGroup', NEW r \in Actors, Busy(r),
         Wrote(run[r].ask, run[r].alone),
         \A q \in Actors : q # r =>
           \/ run'[q] = run[q]
           \/ run[q].at = "open" /\ run'[q] = [run[q] EXCEPT !.at = "back", !.copy.age = "fresh"],
         \/ run'[r] = Idle
         \/ /\ run'[r].ask = run[r].ask /\ run'[r].alone = run[r].alone /\ run'[r].at # "idle"
            /\ run[r].ask.op \in OpAt(run'[r].at) /\ Own(r)'
  PROVE  Inv'
  <1>1. \A q \in Actors : q # r =>
           /\ Own(q)' /\ (Busy(q)' => Bystander(q))
           /\ run'[q] = Idle \/ Resumes(q)
    BY ContinuesOthers
  <1>2. Busy(r)' => Resumes(r) /\ run'[r].ask.op \in OpAt(run'[r].at) /\ Own(r)'
    BY DEF Busy, Resumes
  <1>3. run'[r] = Idle \/ Resumes(r)
    BY <1>2 DEF Busy
  <1>4. Apart' /\ Joined'
    BY <1>1, <1>3, ResumesApart DEF Inv
  <1>5. \A q \in Actors : q # r /\ Busy(q)' => run'[q].ask.op \in OpAt(run'[q].at)
    BY <1>1 DEF Bystander, Busy
  <1>6. Shape'
    BY <1>2, <1>5 DEF Shape
  <1>7. ASSUME NEW q \in Actors
        PROVE  Own(q)'
    BY <1>1, <1>2 DEF Own
  <1> QED BY <1>4, <1>6, <1>7 DEF Inv

---------------------------------------------------------------------------
(* The invariant: the steps. *)

LEMMA EditsFacts ==
  ASSUME TypeOK, NEW r \in Actors, NEW a, NEW at, NEW todo, Edits(r, a, at, todo)
  PROVE  /\ run'[r].at = at /\ run'[r].ask = a /\ (run'[r].alone <=> Alone(a))
         /\ \A q \in Actors : q # r => run'[q] = Disturbed(a)[q]
  <1> DEFINE e == [at |-> at, ask |-> a, copy |-> pol, todo |-> todo, alone |-> Alone(a)]
  <1>1. e.at = at /\ e.ask = a /\ e.alone = Alone(a)
    OBVIOUS
  <1>2. run' = [Disturbed(a) EXCEPT ![r] = e]
    BY DEF Edits
  <1> HIDE DEF e
  <1>3. run'[r] = e /\ \A q \in Actors : q # r => run'[q] = Disturbed(a)[q]
    BY <1>2, DisturbedType
  <1> QED BY <1>1, <1>3

LEMMA FetchesFacts ==
  ASSUME TypeOK, NEW r \in Actors, NEW a, NEW at, NEW copy, Fetches(r, a, at, copy)
  PROVE  /\ run'[r].at = at /\ run'[r].ask = a /\ (run'[r].alone <=> Alone(a)) /\ run'[r].copy = copy
         /\ \A q \in Actors : q # r => run'[q] = Disturbed(a)[q]
  <1> DEFINE e == [at |-> at, ask |-> a, copy |-> copy, alone |-> Alone(a)]
  <1>1. e.at = at /\ e.ask = a /\ e.alone = Alone(a) /\ e.copy = copy
    OBVIOUS
  <1>2. run' = [Disturbed(a) EXCEPT ![r] = e]
    BY DEF Fetches
  <1> HIDE DEF e
  <1>3. run'[r] = e /\ \A q \in Actors : q # r => run'[q] = Disturbed(a)[q]
    BY <1>2, DisturbedType
  <1> QED BY <1>1, <1>3

LEMMA BeginsInv ==
  ASSUME Inv, NEW r \in Actors, NEW a \in Asks, Begins(r, a)
  PROVE  Inv'
  <1>0. /\ TypeOK /\ Shape /\ a \in AllAsks /\ Writes(a.op) \subseteq Columns
    BY AskIs, WritesColumns DEF Inv
  <1>a. TypeOK'
    BY <1>0, BeginsType
  <1>b. ProvidersHaveTheirGroup'
    BY GroupsStep DEF Inv, Next
  <1>c. ~Busy(r)
    BY DEF Begins, ReadAppConfig, SavePage, ReplaceNodes, SaveGroupsConfig, DeleteProvider,
         PrepareProvider, RefreshProvider, Asking
  <1>1. CASE ReadAppConfig(r, a)
    <2>1. run'[r].at = "save" /\ run'[r].ask = a /\ (run'[r].alone <=> Alone(a))
      BY <1>0, <1>1, EditsFacts DEF ReadAppConfig
    <2>2. \A q \in Actors : q # r => run'[q] = Disturbed(a)[q]
      BY <1>0, <1>1, EditsFacts DEF ReadAppConfig
    <2>3. Wrote(a, TRUE)
      BY <1>1 DEF ReadAppConfig, tables, Wrote
    <2>4. a.op = "policy"
      BY <1>1 DEF ReadAppConfig
    <2>5. Listed(r)' /\ Walked(r)' /\ Reads(r)' /\ a.op \in OpAt(run'[r].at)
      BY <2>1, <2>4 DEF Listed, Walked, Reads, OpAt
    <2> QED BY <1>0, <1>a, <1>b, <1>c, <2>1, <2>2, <2>3, <2>5, BeginsKeeps
  <1>2. CASE SavePage(r, a)
    <2>1. run' = Disturbed(a)
      BY <1>2 DEF SavePage
    <2>2. run'[r] = Idle
      BY <1>0, <1>c, <2>1, DisturbedType
    <2>3. Wrote(a, TRUE)
      BY <1>2 DEF SavePage, tables, Wrote, Writes
    <2> QED BY <1>0, <1>a, <1>b, <1>c, <2>1, <2>2, <2>3, BeginsKeeps
  <1>3. CASE ReplaceNodes(r, a)
    <2>1. run'[r].at = "list" /\ run'[r].ask = a /\ (run'[r].alone <=> Alone(a))
      BY <1>0, <1>3, EditsFacts DEF ReplaceNodes
    <2>2. \A q \in Actors : q # r => run'[q] = Disturbed(a)[q]
      BY <1>0, <1>3, EditsFacts DEF ReplaceNodes
    <2>3. Wrote(a, TRUE)
      BY <1>3 DEF ReplaceNodes, Wrote
    <2>4. a.op = "nodes" /\ nodes' = a.want
      BY <1>3 DEF ReplaceNodes
    <2>5. Listed(r)' /\ Walked(r)' /\ Reads(r)' /\ a.op \in OpAt(run'[r].at)
      BY <2>1, <2>4 DEF Listed, Walked, Reads, OpAt
    <2> QED BY <1>0, <1>a, <1>b, <1>c, <2>1, <2>2, <2>3, <2>5, BeginsKeeps
  <1>4. CASE SaveGroupsConfig(r, a)
    <2>1. run'[r].at = "list" /\ run'[r].ask = a /\ (run'[r].alone <=> Alone(a))
      BY <1>0, <1>4, EditsFacts DEF SaveGroupsConfig
    <2>2. \A q \in Actors : q # r => run'[q] = Disturbed(a)[q]
      BY <1>0, <1>4, EditsFacts DEF SaveGroupsConfig
    <2>3. Wrote(a, TRUE)
      BY <1>4 DEF SaveGroupsConfig, Wrote
    <2>4. a.op = "groups" /\ DOMAIN a.want \subseteq DOMAIN groups'
      BY <1>4 DEF SaveGroupsConfig, WithProviders
    <2>5. Listed(r)' /\ Walked(r)' /\ Reads(r)' /\ a.op \in OpAt(run'[r].at)
      BY <2>1, <2>4 DEF Listed, Walked, Reads, OpAt
    <2> QED BY <1>0, <1>a, <1>b, <1>c, <2>1, <2>2, <2>3, <2>5, BeginsKeeps
  <1>5. CASE DeleteProvider(r, a)
    <2>1. run'[r].at = "list" /\ run'[r].ask = a /\ (run'[r].alone <=> Alone(a))
      BY <1>0, <1>5, EditsFacts DEF DeleteProvider
    <2>2. \A q \in Actors : q # r => run'[q] = Disturbed(a)[q]
      BY <1>0, <1>5, EditsFacts DEF DeleteProvider
    <2>3. Wrote(a, TRUE)
      BY <1>5 DEF DeleteProvider, Wrote
    <2>4. a.op = "delete" /\ a.id \notin DOMAIN rows'
      BY <1>5 DEF DeleteProvider
    <2>5. Listed(r)' /\ Walked(r)' /\ Reads(r)' /\ a.op \in OpAt(run'[r].at)
      BY <2>1, <2>4 DEF Listed, Walked, Reads, OpAt
    <2> QED BY <1>0, <1>a, <1>b, <1>c, <2>1, <2>2, <2>3, <2>5, BeginsKeeps
  <1>6. CASE PrepareProvider(r, a)
    <2>1. run'[r].at = "put" /\ run'[r].ask = a /\ (run'[r].alone <=> Alone(a))
      BY <1>0, <1>6, FetchesFacts DEF PrepareProvider
    <2>2. \A q \in Actors : q # r => run'[q] = Disturbed(a)[q]
      BY <1>0, <1>6, FetchesFacts DEF PrepareProvider
    <2>3. Wrote(a, TRUE)
      BY <1>6 DEF PrepareProvider, tables, Wrote
    <2>4. a.op = "upsert"
      BY <1>6 DEF PrepareProvider
    <2>5. Listed(r)' /\ Walked(r)' /\ Reads(r)' /\ a.op \in OpAt(run'[r].at)
      BY <2>1, <2>4 DEF Listed, Walked, Reads, OpAt
    <2> QED BY <1>0, <1>a, <1>b, <1>c, <2>1, <2>2, <2>3, <2>5, BeginsKeeps
  <1>7. CASE RefreshProvider(r, a)
    <2>1. run'[r].at = "fetch" /\ run'[r].ask = a /\ (run'[r].alone <=> Alone(a))
                              /\ run'[r].copy = rows[a.id]
      BY <1>0, <1>7, FetchesFacts DEF RefreshProvider
    <2>2. \A q \in Actors : q # r => run'[q] = Disturbed(a)[q]
      BY <1>0, <1>7, FetchesFacts DEF RefreshProvider
    <2>3. Wrote(a, TRUE) /\ rows' = rows
      BY <1>7 DEF RefreshProvider, tables, Wrote
    <2>4. a.op = "refresh" /\ a.id \in DOMAIN rows
      BY <1>7 DEF RefreshProvider
    <2>5. Listed(r)' /\ Walked(r)' /\ Reads(r)' /\ a.op \in OpAt(run'[r].at)
      BY <2>1, <2>3, <2>4 DEF Listed, Walked, Reads, OpAt
    <2> QED BY <1>0, <1>a, <1>b, <1>c, <2>1, <2>2, <2>3, <2>5, BeginsKeeps
  <1> QED BY <1>1, <1>2, <1>3, <1>4, <1>5, <1>6, <1>7 DEF Begins
LEMMA EndsFacts ==
  ASSUME TypeOK, NEW r \in Actors, Ends(r)
  PROVE  run'[r] = Idle /\ \A q \in Actors : q # r => run'[q] = run[q]
  BY Somewhere DEF Ends

\* Statements of a cleanup: the policy that is written is clean.
LEMMA StoreFacts ==
  ASSUME TypeOK, NEW u \in Users, NEW columns, NEW p \in Policy, Store(u, columns, p)
  PROVE  /\ \A v \in Users : v # u => pol'[v] = pol[v]
         /\ \A c \in Columns : pol'[u][c] = IF c \in columns THEN p[c] ELSE pol[u][c]
  <1>1. pol \in [Users -> Policy]
    BY DEF TypeOK
  <1> QED BY <1>1 DEF Store

LEMMA KeepNodesFields ==
  ASSUME NEW p \in Policy, NEW want
  PROVE  /\ KeepNodes(p, want)["nodes"] = p["nodes"] \cap want
         /\ \A c \in Columns \ {"nodes"} : KeepNodes(p, want)[c] = p[c]
  BY DEF KeepNodes, Policy, Columns

LEMMA KeepGroupsFields ==
  ASSUME NEW p \in Policy, NEW want
  PROVE  /\ KeepGroups(p, want)["refs"] = {x \in p["refs"] : x[1] \in want}
         /\ KeepGroups(p, want)["modes"] = p["modes"] \cap want
         /\ \A c \in Columns \ {"refs", "modes"} : KeepGroups(p, want)[c] = p[c]
  BY DEF KeepGroups, Policy, Columns

LEMMA DropProviderFields ==
  ASSUME NEW p \in Policy, NEW id
  PROVE  /\ DropProvider(p, id)["provs"] = p["provs"] \ {id}
         /\ DropProvider(p, id)["refs"] = {x \in p["refs"] : x[2] # id}
         /\ \A c \in Columns \ {"provs", "refs"} : DropProvider(p, id)[c] = p[c]
  BY DEF DropProvider, Policy, Columns

Cleans(r, u) == CleanupNodePrefs(r, u) \/ CleanupGroupPrefs(r, u) \/ CleanupProviderPrefs(r, u)

\* A statement of a cleanup that is alone leaves the user's policy clean, takes
\* from it only what its request did away with, and leaves the other policies
\* and the other columns.
Taken(a, c, x) ==
  \/ a.op = "nodes" /\ c = "nodes" /\ x \notin a.want
  \/ a.op = "groups" /\ c = "refs" /\ x[1] \notin DOMAIN a.want
  \/ a.op = "groups" /\ c = "modes" /\ x \notin DOMAIN a.want
  \/ a.op = "delete" /\ c = "provs" /\ x = a.id
  \/ a.op = "delete" /\ c = "refs" /\ x[2] = a.id

LEMMA CleansOthers ==
  ASSUME TypeOK, NEW r \in Actors, NEW u \in Users, Cleans(r, u)
  PROVE  /\ \A v \in Users : v # u => pol'[v] = pol[v]
         /\ \A v \in Users, c \in Columns \ Writes(run[r].ask.op) : pol'[v][c] = pol[v][c]
  <1>1. run[r].copy[u] \in Policy
    BY WalkingType DEF Cleans, CleanupNodePrefs, CleanupGroupPrefs, CleanupProviderPrefs
  <1>2. /\ \A want : KeepNodes(run[r].copy[u], want) \in Policy
        /\ \A want : KeepGroups(run[r].copy[u], want) \in Policy
        /\ \A id : DropProvider(run[r].copy[u], id) \in Policy
    BY <1>1, CleanedPolicy
  <1>3. CASE CleanupNodePrefs(r, u)
    BY <1>2, <1>3, StoreFacts DEF CleanupNodePrefs, Walking, Writes
  <1>4. CASE CleanupGroupPrefs(r, u)
    BY <1>2, <1>4, StoreFacts DEF CleanupGroupPrefs, Walking, Writes
  <1>5. CASE CleanupProviderPrefs(r, u)
    BY <1>2, <1>5, StoreFacts DEF CleanupProviderPrefs, Walking, Writes
  <1> QED BY <1>3, <1>4, <1>5 DEF Cleans

LEMMA CleansOwn ==
  ASSUME TypeOK, NEW r \in Actors, Walked(r), NEW u \in Users, Cleans(r, u)
  PROVE  /\ Clean(run[r].ask, pol'[u])
         /\ \A c \in Columns : /\ pol'[u][c] \subseteq pol[u][c]
                               /\ \A x \in pol[u][c] \ pol'[u][c] : Taken(run[r].ask, c, x)
  <1> DEFINE a == run[r].ask
             p == run[r].copy[u]
  <1>1. /\ p \in Policy /\ run[r].at = "walk" /\ u \in run[r].todo
    BY WalkingType DEF Cleans, CleanupNodePrefs, CleanupGroupPrefs, CleanupProviderPrefs, Walking
  <1>2. \A c \in Writes(a.op) : pol[u][c] = p[c]
    BY <1>1 DEF Walked
  <1>3. CASE CleanupNodePrefs(r, u)
    <2> DEFINE q == KeepNodes(p, a.want)
    <2>1. a.op = "nodes" /\ (q # p => Store(u, {"nodes"}, q)) /\ (q = p => pol' = pol)
      BY <1>3 DEF CleanupNodePrefs, Walking
    <2>2. q \in Policy /\ q["nodes"] = p["nodes"] \cap a.want
      BY <1>1, CleanedPolicy, KeepNodesFields
    <2>3. pol[u]["nodes"] = p["nodes"]
      BY <1>2, <2>1 DEF Writes
    <2> HIDE DEF q, p, a
    <2>4. /\ pol'[u]["nodes"] = pol[u]["nodes"] \cap a.want
          /\ \A c \in Columns : c # "nodes" => pol'[u][c] = pol[u][c]
      <3>1. CASE q = p
        BY <2>1, <2>2, <2>3, <3>1
      <3>2. CASE q # p
        BY <2>1, <2>2, <2>3, <3>2, StoreFacts DEF Columns
      <3> QED BY <3>1, <3>2
    <2>5. Clean(a, pol'[u])
      BY <2>1, <2>4 DEF Clean
    <2>6. \A c \in Columns : /\ pol'[u][c] \subseteq pol[u][c]
                             /\ \A x \in pol[u][c] \ pol'[u][c] : Taken(a, c, x)
      BY <2>1, <2>4 DEF Taken
    <2> QED BY <2>5, <2>6 DEF a
  <1>4. CASE CleanupGroupPrefs(r, u)
    <2> DEFINE q == KeepGroups(p, DOMAIN a.want)
    <2>1. /\ a.op = "groups" /\ (q # p => Store(u, {"refs", "modes"}, q)) /\ (q = p => pol' = pol)
      BY <1>4 DEF CleanupGroupPrefs, Walking
    <2>2. /\ q \in Policy /\ q["refs"] = {x \in p["refs"] : x[1] \in DOMAIN a.want}
          /\ q["modes"] = p["modes"] \cap DOMAIN a.want
      BY <1>1, CleanedPolicy, KeepGroupsFields
    <2>3. pol[u]["refs"] = p["refs"] /\ pol[u]["modes"] = p["modes"]
      BY <1>2, <2>1 DEF Writes
    <2> HIDE DEF q, p, a
    <2>4. /\ pol'[u]["refs"] = {x \in pol[u]["refs"] : x[1] \in DOMAIN a.want}
          /\ pol'[u]["modes"] = pol[u]["modes"] \cap DOMAIN a.want
          /\ \A c \in Columns : c \notin {"refs", "modes"} => pol'[u][c] = pol[u][c]
      <3>1. CASE q = p
        BY <2>1, <2>2, <2>3, <3>1
      <3>2. CASE q # p
        BY <2>1, <2>2, <2>3, <3>2, StoreFacts DEF Columns
      <3> QED BY <3>1, <3>2
    <2>5. Clean(a, pol'[u])
      BY <2>1, <2>4 DEF Clean
    <2>6. \A c \in Columns : /\ pol'[u][c] \subseteq pol[u][c]
                             /\ \A x \in pol[u][c] \ pol'[u][c] : Taken(a, c, x)
      BY <2>1, <2>4 DEF Taken
    <2> QED BY <2>5, <2>6 DEF a
  <1>5. CASE CleanupProviderPrefs(r, u)
    <2> DEFINE q == DropProvider(p, a.id)
    <2>1. a.op = "delete" /\ Store(u, {"provs", "refs"}, q)
      BY <1>5 DEF CleanupProviderPrefs, Walking
    <2>2. /\ q \in Policy /\ q["provs"] = p["provs"] \ {a.id}
          /\ q["refs"] = {x \in p["refs"] : x[2] # a.id}
      BY <1>1, CleanedPolicy, DropProviderFields
    <2>3. pol[u]["provs"] = p["provs"] /\ pol[u]["refs"] = p["refs"]
      BY <1>2, <2>1 DEF Writes
    <2> HIDE DEF q, p, a
    <2>4. /\ pol'[u]["provs"] = pol[u]["provs"] \ {a.id}
          /\ pol'[u]["refs"] = {x \in pol[u]["refs"] : x[2] # a.id}
          /\ \A c \in Columns : c \notin {"provs", "refs"} => pol'[u][c] = pol[u][c]
      BY <2>1, <2>2, <2>3, StoreFacts DEF Columns
    <2>5. Clean(a, pol'[u])
      BY <2>1, <2>4 DEF Clean
    <2>6. \A c \in Columns : /\ pol'[u][c] \subseteq pol[u][c]
                             /\ \A x \in pol[u][c] \ pol'[u][c] : Taken(a, c, x)
      BY <2>1, <2>4 DEF Taken
    <2> QED BY <2>5, <2>6 DEF a
  <1> QED BY <1>3, <1>4, <1>5 DEF Cleans
LEMMA ContinuesInv ==
  ASSUME Inv, NEW r \in Actors, Continues(r)
  PROVE  Inv'
  <1>0. TypeOK /\ Shape /\ Own(r) /\ run \in [Actors -> States]
    BY Somewhere DEF Inv
  <1>a. TypeOK'
    BY <1>0, ContinuesType
  <1>b. ProvidersHaveTheirGroup'
    BY GroupsStep DEF Inv, Next
  <1>c. run[r].at # "idle"
    BY DEF Continues, SaveAppConfig, UpsertProvider, ListUsers, RemoveProviderFile, Return, Finished,
         CleanupNodePrefs, CleanupGroupPrefs, CleanupProviderPrefs, Walking, OpenFile, FillFile, WriteBack
  <1>d. /\ Busy(r) /\ run[r].ask.op \in OpAt(run[r].at) /\ run[r].ask \in AllAsks
        /\ run[r].at \in Walks => run[r] \in Editing
        /\ run[r].at \in Loads => run[r] \in Fetching
    BY <1>0, <1>c, Somewhere, EditingFields, FetchingFields DEF Busy, Idle, Shape, States
  <1> DEFINE a == run[r].ask
  <1>1. CASE SaveAppConfig(r)
    <2>1. a.op = "policy"
      BY <1>1, <1>d DEF SaveAppConfig, OpAt
    <2>2. Wrote(a, run[r].alone)
      BY <1>1, <2>1 DEF SaveAppConfig, tables, Wrote, Writes
    <2>3. run'[r] = Idle /\ \A q \in Actors : q # r => run'[q] = run[q]
      BY <1>0, <1>1, EndsFacts DEF SaveAppConfig
    <2> QED BY <1>a, <1>b, <1>d, <2>2, <2>3, ContinuesKeeps
  <1>2. CASE UpsertProvider(r)
    <2>1. a.op = "upsert"
      BY <1>2, <1>d DEF UpsertProvider, OpAt
    <2>2. Wrote(a, run[r].alone)
      BY <1>2, <2>1 DEF UpsertProvider, UpsertProviderToDB, WithProviders, Wrote
    <2>3. run'[r] = Idle /\ \A q \in Actors : q # r => run'[q] = run[q]
      BY <1>0, <1>2, EndsFacts DEF UpsertProvider
    <2> QED BY <1>a, <1>b, <1>d, <2>2, <2>3, ContinuesKeeps
  <1>3. CASE WriteBack(r)
    <2>1. a.op = "refresh"
      BY <1>3, <1>d DEF WriteBack, OpAt
    <2>2. run[r].alone => a.id \in DOMAIN rows /\ rows[a.id].src = run[r].copy.src
      BY <1>0, <1>d, <2>1 DEF Own, Reads
    <2>3. Wrote(a, run[r].alone)
      BY <1>3, <2>1, <2>2 DEF WriteBack, UpsertProviderToDB, WithProviders, Wrote
    <2>4. run'[r] = Idle /\ \A q \in Actors : q # r => run'[q] = run[q]
      BY <1>0, <1>3, EndsFacts DEF WriteBack
    <2> QED BY <1>a, <1>b, <1>d, <2>3, <2>4, ContinuesKeeps
  <1>4. CASE ListUsers(r)
    <2>1. run[r].at = "list" /\ run[r] \in Editing
      BY <1>4, <1>d DEF ListUsers, Walks
    <2> DEFINE e == [run[r] EXCEPT !.at = "walk", !.copy = pol, !.todo = Users]
    <2>2. /\ e.at = "walk" /\ e.ask = a /\ e.alone = run[r].alone /\ e.copy = pol /\ e.todo = Users
      BY <2>1 DEF Editing
    <2>3. run' = [run EXCEPT ![r] = e]
      BY <1>4 DEF ListUsers
    <2> HIDE DEF e
    <2>4. run'[r] = e /\ \A q \in Actors : q # r => run'[q] = run[q]
      BY <2>3, <1>0
    <2>5. Wrote(a, run[r].alone) /\ pol' = pol /\ nodes' = nodes /\ groups' = groups /\ rows' = rows
      BY <1>4 DEF ListUsers, tables, Wrote
    <2>6. a.op \in {"nodes", "groups", "delete"}
      BY <2>1, <1>d DEF OpAt
    <2>7. Own(r)'
      <3>1. run[r].alone => Listed(r)'
        BY <1>0, <1>d, <2>1, <2>2, <2>4, <2>5 DEF Own, Listed
      <3>2. Walked(r)' /\ Reads(r)'
        BY <2>2, <2>4, <2>5, <2>6 DEF Walked, Reads
      <3> QED BY <2>2, <2>4, <3>1, <3>2 DEF Own
    <2>8. a.op \in OpAt(run'[r].at)
      BY <2>2, <2>4, <2>6 DEF OpAt
    <2> QED BY <1>a, <1>b, <1>d, <2>2, <2>4, <2>5, <2>7, <2>8, ContinuesKeeps
  <1>5. CASE RemoveProviderFile(r)
    <2>1. run[r].at = "walk" /\ run[r] \in Editing /\ a.op = "delete" /\ run[r].todo = {}
      BY <1>5, <1>d DEF RemoveProviderFile, Walks
    <2> DEFINE e == [run[r] EXCEPT !.at = "done"]
    <2>2. e.at = "done" /\ e.ask = a /\ e.alone = run[r].alone /\ e.todo = {}
      BY <2>1 DEF Editing
    <2>3. run' = [q \in Actors |->
              IF q = r THEN e
              ELSE IF run[q].at = "open" /\ run[q].ask.id = a.id
                   THEN [run[q] EXCEPT !.at = "back", !.copy.age = "fresh"] ELSE run[q]]
      BY <1>5 DEF RemoveProviderFile
    <2> HIDE DEF e
    <2>4. /\ run'[r] = e
          /\ \A q \in Actors : q # r =>
               \/ run'[q] = run[q]
               \/ run[q].at = "open" /\ run'[q] = [run[q] EXCEPT !.at = "back", !.copy.age = "fresh"]
      BY <2>3
    <2>5. Wrote(a, run[r].alone) /\ pol' = pol /\ rows' = rows /\ a.id \notin DOMAIN file'
      BY <1>5 DEF RemoveProviderFile, Wrote
    <2>6. Own(r)'
      <3>1. run[r].alone => Listed(r)'
        BY <1>0, <1>d, <2>1, <2>2, <2>4, <2>5 DEF Own, Listed
      <3>2. run[r].alone => Walked(r)'
        BY <1>0, <1>d, <2>1, <2>2, <2>4, <2>5 DEF Own, Walked
      <3>3. Reads(r)'
        BY <2>1, <2>2, <2>4 DEF Reads
      <3> QED BY <2>2, <2>4, <3>1, <3>2, <3>3 DEF Own
    <2>7. a.op \in OpAt(run'[r].at)
      BY <2>1, <2>2, <2>4 DEF OpAt
    <2> QED BY <1>a, <1>b, <1>d, <2>2, <2>4, <2>5, <2>6, <2>7, ContinuesKeeps
  <1>6. CASE Return(r)
    <2>1. Wrote(a, run[r].alone)
      BY <1>6 DEF Return, tables, Wrote
    <2>2. run'[r] = Idle /\ \A q \in Actors : q # r => run'[q] = run[q]
      BY <1>0, <1>6, EndsFacts DEF Return
    <2> QED BY <1>a, <1>b, <1>d, <2>1, <2>2, ContinuesKeeps
  <1>7. ASSUME NEW u \in Users, Cleans(r, u)
        PROVE  Inv'
    <2>1. /\ run[r].at = "walk" /\ run[r] \in Editing /\ u \in run[r].todo
          /\ run' = [run EXCEPT ![r].todo = @ \ {u}] /\ UNCHANGED tables
      BY <1>7, <1>d DEF Cleans, CleanupNodePrefs, CleanupGroupPrefs, CleanupProviderPrefs, Walking, Walks
    <2> DEFINE e == [run[r] EXCEPT !.todo = @ \ {u}]
    <2>2. /\ e.at = "walk" /\ e.ask = a /\ e.alone = run[r].alone /\ e.copy = run[r].copy
          /\ e.todo = run[r].todo \ {u}
      BY <2>1 DEF Editing
    <2>3. run' = [run EXCEPT ![r] = e]
      BY <2>1
    <2> HIDE DEF e
    <2>4. run'[r] = e /\ \A q \in Actors : q # r => run'[q] = run[q]
      BY <2>3, <1>0
    <2>5. /\ \A v \in Users : v # u => pol'[v] = pol[v]
          /\ \A v \in Users, c \in Columns \ Writes(a.op) : pol'[v][c] = pol[v][c]
      BY <1>0, <1>7, CleansOthers
    <2>6. Wrote(a, run[r].alone) /\ nodes' = nodes /\ groups' = groups /\ rows' = rows
      BY <2>1, <2>5 DEF tables, Wrote
    <2>7. a.op \in {"nodes", "groups", "delete"}
      BY <2>1, <1>d DEF OpAt
    <2>8. Own(r)'
      <3> SUFFICES ASSUME run[r].alone
                   PROVE  Listed(r)' /\ Walked(r)' /\ Reads(r)'
        BY <2>2, <2>4 DEF Own
      <3>1. Listed(r) /\ Walked(r)
        BY <1>0, <1>d DEF Own
      <3>2. Listed(r)'
        BY <3>1, <2>1, <2>2, <2>4, <2>6 DEF Listed
      <3>3. Clean(a, pol'[u])
        BY <1>0, <1>7, <3>1, CleansOwn
      <3>4. Walked(r)'
        BY <3>1, <3>3, <2>1, <2>2, <2>4, <2>5 DEF Walked
      <3> QED BY <3>2, <3>4, <2>2, <2>4, <2>7 DEF Reads
    <2>9. a.op \in OpAt(run'[r].at)
      BY <2>2, <2>4, <2>7 DEF OpAt
    <2> QED BY <1>a, <1>b, <1>d, <2>2, <2>4, <2>6, <2>8, <2>9, ContinuesKeeps
  <1>8. CASE OpenFile(r) \/ FillFile(r)
    <2>1. run[r].at \in {"fetch", "open"} /\ run[r] \in Fetching /\ a.op = "refresh"
      BY <1>8, <1>d DEF OpenFile, FillFile, Loads, OpAt
    <2> DEFINE e == IF run[r].at = "fetch" THEN [run[r] EXCEPT !.at = "open"]
                    ELSE [run[r] EXCEPT !.at = "back", !.copy.age = "fresh"]
    <2>2. /\ e.at \in {"open", "back"} /\ e.ask = a /\ e.alone = run[r].alone
          /\ e.copy.src = run[r].copy.src
      BY <2>1 DEF Fetching, Row
    <2>3. run' = [run EXCEPT ![r] = e]
      BY <1>8 DEF OpenFile, FillFile, Goes
    <2> HIDE DEF e
    <2>4. run'[r] = e /\ \A q \in Actors : q # r => run'[q] = run[q]
      BY <2>3, <1>0
    <2>5. Wrote(a, run[r].alone) /\ rows' = rows
      BY <1>8, <2>1 DEF OpenFile, FillFile, Wrote
    <2>6. Own(r)'
      BY <1>0, <1>d, <2>1, <2>2, <2>4, <2>5 DEF Own, Listed, Walked, Reads
    <2>7. a.op \in OpAt(run'[r].at)
      BY <2>1, <2>2, <2>4 DEF OpAt
    <2> QED BY <1>a, <1>b, <1>d, <2>2, <2>4, <2>5, <2>6, <2>7, ContinuesKeeps
  <1> QED BY <1>1, <1>2, <1>3, <1>4, <1>5, <1>6, <1>7, <1>8 DEF Continues, Cleans
\* Steps that are no request's, and write nothing that one counts on.
LEMMA QuietKeeps ==
  ASSUME Inv, TypeOK', ProvidersHaveTheirGroup', pol' = pol, nodes' = nodes, groups' = groups,
         file' = file, DOMAIN rows' = DOMAIN rows,
         \A id \in DOMAIN rows : rows'[id].src = rows[id].src,
         \A q \in Actors :
           \/ run'[q] = Idle \/ run'[q] = run[q]
           \/ run[q] \in Fetching /\ run'[q] = [run[q] EXCEPT !.copy = Aged(@)]
  PROVE  Inv'
  <1>1. ASSUME NEW q \in Actors
        PROVE  /\ Own(q)' /\ (run'[q] = Idle \/ Resumes(q))
               /\ Busy(q)' => run'[q].ask.op \in OpAt(run'[q].at)
    <2>1. CASE run'[q] = Idle
      BY <2>1 DEF Own, Busy
    <2>2. CASE run'[q] # Idle
      <3>1. /\ Busy(q) /\ Busy(q)' /\ run'[q].ask = run[q].ask /\ run'[q].alone = run[q].alone
            /\ run'[q].at = run[q].at
            /\ run[q] \in Editing => run'[q] = run[q]
            /\ run[q] \in Fetching => run'[q].copy.src = run[q].copy.src
        <4>1. CASE run'[q] = run[q]
          BY <2>2, <4>1 DEF Busy
        <4>2. CASE run[q] \in Fetching /\ run'[q] = [run[q] EXCEPT !.copy = Aged(@)]
          <5>1. run[q] \notin Editing /\ Busy(q)
            BY <4>2, EditingFields, FetchingFields DEF Walks, Loads, Busy, Idle
          <5> QED BY <2>2, <4>2, <5>1 DEF Fetching, Row, Aged, Busy
        <4> QED BY <2>2, <4>1, <4>2
      <3>2. run'[q].ask.op \in OpAt(run'[q].at)
        BY <3>1 DEF Inv, Shape
      <3>3. Bystander(q) /\ Resumes(q)
        BY <3>1, <3>2 DEF Bystander, Resumes
      <3>4. Spared(q)
        BY DEF Spared
      <3> QED BY <3>2, <3>3, <3>4, SparedKeeps DEF Inv
    <2> QED BY <2>1, <2>2
  <1>2. Apart' /\ Joined'
    BY <1>1, ResumesApart DEF Inv
  <1>3. Shape'
    BY <1>1 DEF Shape
  <1> QED BY <1>1, <1>2, <1>3 DEF Inv

LEMMA OtherInv ==
  ASSUME Inv,
         \/ \E r \in Actors : RefreshFails(r) \/ StatementFails(r)
         \/ Updating \/ IntervalPasses \/ Crash \/ UNCHANGED vars
  PROVE  Inv'
  <1>0. TypeOK /\ Shape /\ run \in [Actors -> States] /\ Ticker \in Actors
    BY Somewhere DEF Inv, Actors
  <1>a. TypeOK'
    BY <1>0, OtherType
  <1>b. ProvidersHaveTheirGroup'
    BY GroupsStep DEF Inv, Next
  <1>1. ASSUME NEW r \in Actors, RefreshFails(r)
        PROVE  Inv'
    <2> DEFINE a == run[r].ask
    <2>1. /\ run[r] \in Fetching /\ Busy(r) /\ run[r].at \in {"fetch", "open"} /\ a.op = "refresh"
          /\ Own(r)
      <3>1. run[r].at \in Loads /\ run[r].at \in {"fetch", "open"}
        BY <1>1 DEF RefreshFails, Loads
      <3>2. Busy(r)
        BY <3>1 DEF Busy, Idle, Loads
      <3> QED BY <1>0, <3>1, <3>2, Somewhere DEF Inv, Shape, OpAt
    <2> DEFINE e == [run[r] EXCEPT !.at = "back"]
    <2>2. /\ e.at = "back" /\ e.ask = a /\ e.alone = run[r].alone /\ e.copy = run[r].copy
      BY <2>1 DEF Fetching
    <2>3. run' = [run EXCEPT ![r] = e]
      BY <1>1 DEF RefreshFails, Goes
    <2> HIDE DEF e
    <2>4. run'[r] = e /\ \A q \in Actors : q # r => run'[q] = run[q]
      BY <2>3, <1>0
    <2>5. Wrote(a, run[r].alone) /\ rows' = rows
      BY <1>1 DEF RefreshFails, tables, Wrote
    <2>6. Own(r)'
      BY <2>1, <2>2, <2>4, <2>5 DEF Own, Listed, Walked, Reads
    <2>7. a.op \in OpAt(run'[r].at)
      BY <2>1, <2>2, <2>4 DEF OpAt
    <2> QED BY <1>a, <1>b, <2>1, <2>2, <2>4, <2>5, <2>6, <2>7, ContinuesKeeps
  <1>2. ASSUME NEW r \in Actors, StatementFails(r)
        PROVE  Inv'
    <2>1. run'[r] = Idle /\ \A q \in Actors : q # r => run'[q] = run[q]
      BY <1>0, <1>2, EndsFacts DEF StatementFails
    <2> QED BY <1>a, <1>b, <1>2, <2>1, QuietKeeps DEF StatementFails, tables
  <1>3. CASE ListDue \/ UNCHANGED vars
    BY <1>a, <1>b, <1>3, QuietKeeps DEF ListDue, tables, vars
  <1>4. ASSUME NEW id \in Providers, RefreshDue(id)
        PROVE  Inv'
    <2>1. CASE id \in DOMAIN rows
      <3> DEFINE ask == [op |-> "refresh", id |-> id]
      <3>1. ask \in AllAsks /\ ask.op = "refresh" /\ ask.id = id
        BY DEF AllAsks, Refreshes
      <3>2. Fetches(Ticker, ask, "fetch", rows[id]) /\ ~Busy(Ticker) /\ UNCHANGED <<pol, tables>>
        BY <2>1, <1>4 DEF RefreshDue, Busy
      <3> HIDE DEF ask
      <3>3. /\ run'[Ticker].at = "fetch" /\ run'[Ticker].ask = ask
            /\ run'[Ticker].alone <=> Alone(ask)
            /\ run'[Ticker].copy = rows[id]
        BY <1>0, <3>2, FetchesFacts
      <3>4. \A q \in Actors : q # Ticker => run'[q] = Disturbed(ask)[q]
        BY <1>0, <3>2, FetchesFacts
      <3>5. Wrote(ask, TRUE) /\ rows' = rows
        BY <3>2 DEF tables, Wrote
      <3>6. Listed(Ticker)' /\ Walked(Ticker)' /\ Reads(Ticker)' /\ ask.op \in OpAt(run'[Ticker].at)
        BY <2>1, <3>1, <3>3, <3>5 DEF Listed, Walked, Reads, OpAt
      <3> QED BY <1>0, <1>a, <1>b, <3>1, <3>2, <3>3, <3>4, <3>5, <3>6, BeginsKeeps
    <2>2. CASE id \notin DOMAIN rows
      BY <1>a, <1>b, <1>4, <2>2, QuietKeeps DEF RefreshDue, tables
    <2> QED BY <2>1, <2>2
  <1>5. CASE IntervalPasses
    <2>1. DOMAIN rows' = DOMAIN rows /\ \A id \in DOMAIN rows : rows'[id].src = rows[id].src
      <3>1. rows \in [DOMAIN rows -> Row]
        BY <1>0, TableIs DEF TypeOK
      <3>2. \A row \in Row : Aged(row).src = row.src
        BY DEF Aged, Row
      <3> QED BY <1>5, <3>1, <3>2 DEF IntervalPasses
    <2>2. \A q \in Actors :
           \/ run'[q] = run[q]
           \/ run[q] \in Fetching /\ run'[q] = [run[q] EXCEPT !.copy = Aged(@)]
      <3>1. \A q \in Actors : run[q].at \in Loads => run[q] \in Fetching
        BY <1>0, Somewhere
      <3>2. run' = [r \in Actors |-> IF run[r].at \in Loads
                              THEN [run[r] EXCEPT !.copy = Aged(@)] ELSE run[r]]
        BY <1>5 DEF IntervalPasses, Loads
      <3> QED BY <3>1, <3>2
    <2> QED BY <1>a, <1>b, <1>5, <2>1, <2>2, QuietKeeps DEF IntervalPasses
  <1>6. CASE Crash
    BY <1>a, <1>b, <1>6, QuietKeeps DEF Crash, tables
  <1> QED BY <1>1, <1>2, <1>3, <1>4, <1>5, <1>6 DEF Updating

---------------------------------------------------------------------------
LEMMA InitInv == Init => Inv
  <1> SUFFICES ASSUME Init
               PROVE  Inv
    OBVIOUS
  <1>1. PICK s \in Starts :
          pol = s.pol /\ nodes = s.nodes /\ groups = s.groups /\ rows = s.rows /\ file = s.file
    BY DEF Init
  <1>2. \A r \in Actors : run[r] = Idle
    BY DEF Init
  <1>3. file \in Tables(Providers, Sources \cup {Torn})
    <2>1. DOMAIN file \subseteq Providers /\ file \in [DOMAIN file -> Sources]
      BY <1>1, StartsAssumption, TableIs
    <2>2. file \in [DOMAIN file -> Sources \cup {Torn}]
      BY <2>1
    <2> QED BY <2>1, <2>2, IsTable
  <1>4. TypeOK
    BY <1>1, <1>3, StartsAssumption, NamesAssumption DEF Init, TypeOK
  <1>5. ProvidersHaveTheirGroup
    BY <1>1, StartsAssumption DEF ProvidersHaveTheirGroup
  <1> QED BY <1>2, <1>4, <1>5 DEF Inv, Shape, Apart, Joined, Own, Busy

LEMMA NextInv == Inv /\ [Next]_vars => Inv'
  BY BeginsInv, ContinuesInv, OtherInv DEF Next

LEMMA Invariance == Spec => []Inv
  BY InitInv, NextInv, PTL DEF Spec

\* The tables hold what their columns may and every request is somewhere in
\* its handler, whatever is asked for, overlaps, fails or is cut off.
THEOREM TypeCorrect == Spec => []TypeOK
  <1>1. Inv => TypeOK
    BY DEF Inv
  <1> QED BY <1>1, Invariance, PTL

LEMMA FinishedClean ==
  ASSUME Inv, NEW r \in Actors, Finished(r), run[r].alone
  PROVE  /\ Listed(r) /\ run[r].at \in {"walk", "done"} /\ run[r].ask.op \in OpAt(run[r].at)
         /\ \A u \in Users : Clean(run[r].ask, pol[u])
  <1>1. run[r].at \in {"walk", "done"} /\ Busy(r)
    BY DEF Finished, Busy, Idle
  <1>2. Listed(r) /\ Walked(r) /\ run[r].ask.op \in OpAt(run[r].at)
    BY <1>1 DEF Inv, Own, Shape
  <1>3. run[r].todo = {}
    BY <1>2 DEF Finished, Listed
  <1> QED BY <1>1, <1>2, <1>3 DEF Walked

\* A cleanup of the nodes that nothing overlapped leaves no policy with a
\* node that is not there.
THEOREM NodesCleanedUp == Spec => []NodePrefsClean
  <1>1. Inv => NodePrefsClean
    <2> SUFFICES ASSUME Inv, NEW r \in Requests, Finished(r), run[r].ask.op = "nodes", run[r].alone,
                        NEW u \in Users
                 PROVE  pol[u].nodes \subseteq nodes
      BY DEF NodePrefsClean
    <2>1. r \in Actors
      BY DEF Actors
    <2>2. Listed(r) /\ run[r].at \in {"walk", "done"} /\ Clean(run[r].ask, pol[u])
      BY <2>1, FinishedClean
    <2> QED BY <2>2 DEF Listed, Clean
  <1> QED BY <1>1, Invariance, PTL

\* A cleanup of the groups that nothing overlapped leaves no policy with a
\* group that is not there.
THEOREM GroupsCleanedUp == Spec => []GroupPrefsClean
  <1>1. Inv => GroupPrefsClean
    <2> SUFFICES ASSUME Inv, NEW r \in Requests, Finished(r), run[r].ask.op = "groups", run[r].alone,
                        NEW u \in Users
                 PROVE  /\ \A x \in pol[u].refs : x[1] \in DOMAIN groups
                        /\ pol[u].modes \subseteq DOMAIN groups
      BY DEF GroupPrefsClean
    <2>1. r \in Actors
      BY DEF Actors
    <2>2. Listed(r) /\ run[r].at \in {"walk", "done"} /\ Clean(run[r].ask, pol[u])
      BY <2>1, FinishedClean
    <2> QED BY <2>2 DEF Listed, Clean
  <1> QED BY <1>1, Invariance, PTL

\* A deletion that nothing overlapped leaves nothing of the provider.
THEOREM ProvidersCleanedUp == Spec => []ProviderPrefsClean
  <1>1. Inv => ProviderPrefsClean
    <2> SUFFICES ASSUME Inv, NEW r \in Requests, run[r].at = "done", run[r].alone
                 PROVE  /\ run[r].ask.id \notin DOMAIN rows \cup DOMAIN file
                        /\ \A u \in Users : /\ run[r].ask.id \notin pol[u].provs
                                            /\ \A x \in pol[u].refs : x[2] # run[r].ask.id
      BY DEF ProviderPrefsClean
    <2>1. r \in Actors /\ Finished(r)
      BY DEF Actors, Finished
    <2>2. /\ Listed(r) /\ run[r].ask.op = "delete"
          /\ \A u \in Users : Clean(run[r].ask, pol[u])
      BY <2>1, FinishedClean DEF OpAt
    <2> QED BY <2>2 DEF Listed, Clean
  <1> QED BY <1>1, Invariance, PTL
---------------------------------------------------------------------------
(* Steps. *)

\* A request that begins leaves the others where they are,
LEMMA DisturbedStays ==
  ASSUME TypeOK, NEW r \in Actors, Busy(r), NEW a, run'[r] = Disturbed(a)[r]
  PROVE  run'[r] # Idle /\ (run[r] \in Editing => run'[r].at = run[r].at /\ run'[r].todo = run[r].todo)
  <1>1. run[r] \in Editing \/ run[r] \in Fetching
    BY Somewhere DEF Busy, States
  <1>2. run'[r].at = run[r].at /\ (run[r] \in Editing => run'[r].todo = run[r].todo)
    <2>1. run'[r] = run[r] \/ run'[r] = [run[r] EXCEPT !.alone = FALSE]
      BY DisturbedType
    <2> QED BY <1>1, <2>1 DEF Editing, Fetching
  <1>3. run[r].at # "idle"
    BY Somewhere DEF Busy
  <1> QED BY <1>2, <1>3 DEF Idle

\* and so does one that goes on or ends.
LEMMA OthersStay ==
  ASSUME TypeOK, NEW r \in Actors, Busy(r), NEW q \in Actors, q # r,
         \/ \E a \in Asks : Begins(q, a)
         \/ Continues(q) \/ RefreshFails(q) \/ StatementFails(q)
  PROVE  run'[r] # Idle /\ (run[r] \in Editing => run'[r].at = run[r].at /\ run'[r].todo = run[r].todo)
  <1>0. run \in [Actors -> States]
    BY Somewhere
  <1>1. ASSUME NEW a \in Asks, Begins(q, a)
        PROVE  run'[r] = Disturbed(a)[r]
    <2>1. ASSUME NEW at, NEW todo, Edits(q, a, at, todo)
          PROVE  run'[r] = Disturbed(a)[r]
      BY <2>1, EditsFacts
    <2>2. ASSUME NEW at, NEW copy, Fetches(q, a, at, copy)
          PROVE  run'[r] = Disturbed(a)[r]
      BY <2>2, FetchesFacts
    <2>3. CASE SavePage(q, a)
      BY <2>3 DEF SavePage
    <2>4. CASE ReadAppConfig(q, a) \/ ReplaceNodes(q, a) \/ SaveGroupsConfig(q, a) \/ DeleteProvider(q, a)
      BY <2>1, <2>4 DEF ReadAppConfig, ReplaceNodes, SaveGroupsConfig, DeleteProvider
    <2>5. CASE PrepareProvider(q, a)
      <3> DEFINE row == [src |-> a.src,
                         age |-> IF a.id \in DOMAIN rows THEN rows[a.id].age ELSE "never"]
      <3>1. Fetches(q, a, "put", row)
        BY <2>5 DEF PrepareProvider
      <3> HIDE DEF row
      <3> QED BY <3>1, <2>2
    <2>6. CASE RefreshProvider(q, a)
      BY <2>2, <2>6 DEF RefreshProvider
    <2> QED BY <1>1, <2>3, <2>4, <2>5, <2>6 DEF Begins
  <1>2. ASSUME Ends(q)
        PROVE  run'[r] = run[r]
    BY <1>2, EndsFacts
  <1>3. CASE StatementFails(q) \/ SaveAppConfig(q) \/ UpsertProvider(q) \/ WriteBack(q) \/ Return(q)
    BY <1>2, <1>3 DEF StatementFails, SaveAppConfig, UpsertProvider, WriteBack, Return, Busy
  <1>4. CASE RemoveProviderFile(q)
    <2>1. run'[r] = run[r] \/ (run[r].at = "open" /\ run'[r] = [run[r] EXCEPT !.at = "back", !.copy.age = "fresh"])
      BY <1>4 DEF RemoveProviderFile
    <2>2. CASE run[r].at = "open" /\ run'[r] = [run[r] EXCEPT !.at = "back", !.copy.age = "fresh"]
      <3>1. run[r] \in Fetching /\ run[r] \notin Editing
        BY <2>2, Somewhere, EditingFields DEF Loads, Walks
      <3>2. run'[r].at = "back"
        BY <2>2, <3>1 DEF Fetching
      <3> QED BY <3>1, <3>2 DEF Idle
    <2> QED BY <2>1, <2>2 DEF Busy
  <1>5. CASE RefreshFails(q) \/ ListUsers(q) \/ OpenFile(q) \/ FillFile(q)
             \/ \E u \in Users : Cleans(q, u)
    <2>1. \E e : run' = [run EXCEPT ![q] = e]
      BY <1>5 DEF RefreshFails, Goes, ListUsers, OpenFile, FillFile, Cleans, CleanupNodePrefs,
           CleanupGroupPrefs, CleanupProviderPrefs, Walking
    <2> QED BY <2>1, <1>0 DEF Busy
  <1> QED BY <1>1, <1>3, <1>4, <1>5, DisturbedStays DEF Continues, Cleans

\* A policy leaves the list of a cleanup that is alone by that cleanup's own
\* statement.
LEMMA LeavesByItself ==
  ASSUME Inv, [Next]_vars, NEW r \in Actors, NEW u \in Users, run[r].at = "walk", u \in run[r].todo,
         run'[r].at = "walk", u \notin run'[r].todo
  PROVE  Cleans(r, u)
  <1>0. /\ TypeOK /\ run \in [Actors -> States] /\ Busy(r) /\ run[r] \in Editing
        /\ Ticker \in Actors /\ Idle.at = "idle"
    BY Somewhere DEF Inv, Actors, Walks, Busy, Idle
  <1>1. ASSUME NEW q \in Actors,
               \/ \E a \in Asks : Begins(q, a)
               \/ Continues(q) \/ RefreshFails(q) \/ StatementFails(q)
        PROVE  q = r
    BY <1>0, <1>1, OthersStay
  <1>2. CASE \E a \in Asks : Begins(r, a)
    BY <1>0, <1>2 DEF Begins, ReadAppConfig, SavePage, ReplaceNodes, SaveGroupsConfig, DeleteProvider,
         PrepareProvider, RefreshProvider, Asking
  <1>3. CASE Continues(r)
    <2>1. CASE SaveAppConfig(r) \/ UpsertProvider(r) \/ ListUsers(r) \/ OpenFile(r) \/ FillFile(r)
               \/ WriteBack(r)
      BY <2>1 DEF SaveAppConfig, UpsertProvider, ListUsers, OpenFile, FillFile, WriteBack
    <2>2. CASE RemoveProviderFile(r)
      <3>1. run'[r] = [run[r] EXCEPT !.at = "done"]
        BY <2>2 DEF RemoveProviderFile
      <3> QED BY <3>1, <1>0 DEF Editing
    <2>3. CASE Return(r)
      BY <1>0, <2>3, EndsFacts DEF Return
    <2>4. ASSUME NEW v \in Users, Cleans(r, v)
          PROVE  v = u
      <3>1. run' = [run EXCEPT ![r].todo = @ \ {v}]
        BY <2>4 DEF Cleans, CleanupNodePrefs, CleanupGroupPrefs, CleanupProviderPrefs, Walking
      <3>2. run'[r].todo = run[r].todo \ {v}
        BY <3>1, <1>0 DEF Editing
      <3> QED BY <3>2
    <2> QED BY <1>3, <2>1, <2>2, <2>3, <2>4 DEF Continues, Cleans
  <1>4. CASE RefreshFails(r)
    BY <1>4 DEF RefreshFails
  <1>5. CASE StatementFails(r)
    BY <1>0, <1>5, EndsFacts DEF StatementFails
  <1>6. ASSUME NEW id \in Providers, RefreshDue(id)
        PROVE  FALSE
    <2>1. CASE id \in DOMAIN rows
      <3> DEFINE ask == [op |-> "refresh", id |-> id]
      <3>1. Fetches(Ticker, ask, "fetch", rows[id]) /\ r # Ticker
        BY <1>0, <1>6, <2>1 DEF RefreshDue, Busy
      <3> HIDE DEF ask
      <3>2. run'[r] = Disturbed(ask)[r]
        BY <1>0, <3>1, FetchesFacts
      <3> QED BY <1>0, <3>2, DisturbedStays
    <2>2. CASE id \notin DOMAIN rows
      BY <1>6, <2>2 DEF RefreshDue
    <2> QED BY <2>1, <2>2
  <1>7. CASE ListDue \/ UNCHANGED vars
    BY <1>7 DEF ListDue, vars
  <1>8. CASE IntervalPasses
    BY <1>8 DEF IntervalPasses
  <1>9. CASE Crash
    BY <1>0, <1>9 DEF Crash
  <1> QED BY <1>1, <1>2, <1>3, <1>4, <1>5, <1>6, <1>7, <1>8, <1>9 DEF Next, Updating

\* A cleanup that nothing overlapped takes from a policy only what its request
\* did away with, though it writes a copy.
THEOREM OnlyDanglingTaken == Spec => CleanupTakesOnlyDangling
  <1> DEFINE Takes ==
        \A r \in Requests, u \in Users :
          /\ run[r].at = "walk" /\ run[r].alone /\ u \in run[r].todo
          /\ run'[r].at = "walk" /\ u \notin run'[r].todo
          =>
            LET a == run[r].ask
            IN  \A c \in Columns :
                  /\ pol'[u][c] \subseteq pol[u][c]
                  /\ \A x \in pol[u][c] \ pol'[u][c] :
                       \/ a.op = "nodes" /\ c = "nodes" /\ x \notin a.want
                       \/ a.op = "groups" /\ c = "refs" /\ x[1] \notin DOMAIN a.want
                       \/ a.op = "groups" /\ c = "modes" /\ x \notin DOMAIN a.want
                       \/ a.op = "delete" /\ c = "provs" /\ x = a.id
                       \/ a.op = "delete" /\ c = "refs" /\ x[2] = a.id
  <1>1. Inv /\ [Next]_vars => Takes
    <2> SUFFICES ASSUME Inv, [Next]_vars, NEW r \in Requests, NEW u \in Users,
                        run[r].at = "walk", run[r].alone, u \in run[r].todo,
                        run'[r].at = "walk", u \notin run'[r].todo
                 PROVE  \A c \in Columns :
                          /\ pol'[u][c] \subseteq pol[u][c]
                          /\ \A x \in pol[u][c] \ pol'[u][c] : Taken(run[r].ask, c, x)
      BY DEF Taken
    <2>1. r \in Actors /\ Busy(r)
      BY DEF Actors, Busy, Idle
    <2>2. TypeOK /\ Walked(r)
      BY <2>1 DEF Inv, Own
    <2>3. Cleans(r, u)
      BY <2>1, LeavesByItself
    <2> QED BY <2>1, <2>2, <2>3, CleansOwn
  <1>2. Inv /\ [Next]_vars => [Takes]_vars
    BY <1>1
  <1> QED BY <1>2, Invariance, PTL DEF Spec, CleanupTakesOnlyDangling

\* A refresh ends by its own write, by a failure or with the program.
LEMMA EndsByItself ==
  ASSUME Inv, [Next]_vars, NEW r \in Actors, run[r].at = "back", run'[r] = Idle
  PROVE  WriteBack(r) \/ (rows' = rows /\ groups' = groups)
  <1>0. TypeOK /\ run \in [Actors -> States] /\ Busy(r) /\ Ticker \in Actors
    BY Somewhere DEF Inv, Actors, Busy, Idle
  <1>1. ASSUME NEW q \in Actors,
               \/ \E a \in Asks : Begins(q, a)
               \/ Continues(q) \/ RefreshFails(q) \/ StatementFails(q)
        PROVE  q = r
    BY <1>0, <1>1, OthersStay
  <1>2. CASE \E a \in Asks : Begins(r, a)
    BY <1>0, <1>2 DEF Begins, ReadAppConfig, SavePage, ReplaceNodes, SaveGroupsConfig, DeleteProvider,
         PrepareProvider, RefreshProvider, Asking
  <1>3. CASE Continues(r)
    BY <1>3 DEF Continues, SaveAppConfig, UpsertProvider, ListUsers, RemoveProviderFile, Return, Finished,
         CleanupNodePrefs, CleanupGroupPrefs, CleanupProviderPrefs, Walking, OpenFile, FillFile
  <1>4. CASE RefreshFails(r) \/ StatementFails(r) \/ Updating \/ Crash \/ UNCHANGED vars
    BY <1>4 DEF RefreshFails, StatementFails, Updating, ListDue, RefreshDue, Crash, tables, vars
  <1>5. CASE IntervalPasses
    <2>1. run[r] \in Fetching /\ run'[r] = [run[r] EXCEPT !.copy = Aged(@)]
      BY <1>0, <1>5, Somewhere DEF IntervalPasses, Loads
    <2>2. run'[r].at = "back"
      BY <2>1 DEF Fetching
    <2> QED BY <2>2 DEF Idle
  <1> QED BY <1>1, <1>2, <1>3, <1>4, <1>5 DEF Next

\* What a refresh that nothing disturbed writes back leaves the providers, the
\* sources and the groups as they are.
THEOREM OnlyRefreshed == Spec => RefreshOnlyRefreshes
  <1> DEFINE Refreshed ==
        \A r \in Actors :
          run[r].at = "back" /\ run[r].alone /\ run'[r] = Idle =>
            /\ DOMAIN rows' = DOMAIN rows
            /\ \A id \in DOMAIN rows :
                 /\ rows'[id].src = rows[id].src
                 /\ id # run[r].ask.id => rows'[id] = rows[id]
            /\ groups' = groups
  <1>1. Inv /\ [Next]_vars => Refreshed
    <2> SUFFICES ASSUME Inv, [Next]_vars, NEW r \in Actors,
                        run[r].at = "back", run[r].alone, run'[r] = Idle
                 PROVE  /\ DOMAIN rows' = DOMAIN rows
                        /\ \A id \in DOMAIN rows :
                             /\ rows'[id].src = rows[id].src
                             /\ id # run[r].ask.id => rows'[id] = rows[id]
                        /\ groups' = groups
      OBVIOUS
    <2>1. CASE rows' = rows /\ groups' = groups
      BY <2>1
    <2>2. CASE WriteBack(r)
      <3> DEFINE i == run[r].ask.id
      <3>1. Busy(r)
        BY DEF Busy, Idle
      <3>2. i \in DOMAIN rows /\ rows[i].src = run[r].copy.src
        BY <3>1 DEF Inv, Own, Shape, OpAt, Reads
      <3>3. i \in DOMAIN groups /\ groups[i] = i /\ groups \in [DOMAIN groups -> Providers \cup {None}]
        BY <3>2, TableIs DEF Inv, ProvidersHaveTheirGroup, TypeOK
      <3>4. /\ rows' = [j \in DOMAIN rows \cup {i} |-> IF j = i THEN run[r].copy ELSE rows[j]]
            /\ groups' = [g \in DOMAIN groups \cup {i} |-> IF g \in {i} THEN g ELSE groups[g]]
        BY <2>2 DEF WriteBack, UpsertProviderToDB, WithProviders
      <3> HIDE DEF i
      <3>5. DOMAIN groups \cup {i} = DOMAIN groups
        BY <3>3
      <3>6. groups' = groups
        BY <3>3, <3>4, <3>5
      <3> QED BY <3>2, <3>4, <3>6 DEF i
    <2> QED BY <2>1, <2>2, EndsByItself
  <1>2. Inv /\ [Next]_vars => [Refreshed]_vars
    BY <1>1
  <1> QED BY <1>2, Invariance, PTL DEF Spec, RefreshOnlyRefreshes
=============================================================================
