-------------------------- MODULE MainImportProofs --------------------------
(***************************************************************************)
(* Proofs about MainImport for any number of requests, inbounds and users  *)
(* and any bounds: the tables keep their unique columns, an inbound keeps  *)
(* its local id, an import removes only users that are not listed, an      *)
(* import that nothing overlaps keeps the policies and plans its listing,  *)
(* and imports that do overlap leave the panel's users and assignments as  *)
(* long as the panel stays as it is, nobody deletes users and no statement *)
(* on the database fails.                                                  *)
(***************************************************************************)
EXTENDS MainImport, FiniteSetTheorems, TLAPS

(***************************************************************************)
(* The inductive invariant.                                                *)
(***************************************************************************)
Importing == {"users", "create", "fill", "store", "drop"}
UsersBelow(h, d) ==
  h.uid < d.nextUid /\ \A u \in d.users : u.uid = h.uid => u.email = h.email

\* A listed entry is still to be looked at, or its user is in hand or was seen.
Covered(r) ==
  \A t \in r.snap :
    \/ t \in r.todo
    \/ \E x \in r.seen : x.email = t.email
    \/ r.pc \in {"create", "fill", "store"} /\ \E h \in r.hand : h.email = t.email

\* A user record in hand has an id that was handed out, and whoever has that id has
\* that email; what is to be removed is not listed, and nothing is before the listing
\* is in; what is to be assigned belongs to a listed user that was, or will be, looked at.
RunInv(r, d) ==
  /\ r.pc \in {"fetch", "cache", "rows", "clear"} => r.gone = {}
  /\ r.pc \in {"fill", "store", "drop"} => \A h \in r.hand : UsersBelow(h, d)
  /\ \A e \in r.gone, t \in r.snap : t.email # e
  /\ r.pc = "drop" => \A h \in r.hand, t \in r.snap : t.email # h.email
  /\ r.pc \in {"create", "fill", "store"} => \A g, h \in r.hand : g = h
  /\ r.pc \in Importing => r.owed \subseteq Assignments(r) /\ Covered(r)

Inv == TypeOK /\ \A s \in Requests : RunInv(run[s], db)

\* What every step does to the database: user ids keep their emails and are not
\* reused, inbounds keep their local ids.
Evolves(d, e) ==
  /\ d.nextUid <= e.nextUid
  /\ \A v \in e.users : \/ \E u \in d.users : u.uid = v.uid /\ u.email = v.email
                        \/ ~(v.uid < d.nextUid)
  /\ \A q \in d.rows, x \in e.rows : q.id = x.id => q.local = x.local

(***************************************************************************)
(* Lemmas.                                                                 *)
(***************************************************************************)

\* New rows get ids of their own, below the next one.
LEMMA RankLess ==
  ASSUME NEW N, N \subseteq Nat, IsFiniteSet(N), NEW i \in N
  PROVE  /\ Rank(N, i) \in Nat /\ Cardinality(N) \in Nat
         /\ Rank(N, i) < Cardinality(N)
         /\ \A j \in N : i < j => Rank(N, i) < Rank(N, j)
<1> DEFINE below(k) == {j \in N : j < k}
<1>1. \A k \in N : /\ below(k) \subseteq N /\ IsFiniteSet(below(k))
                   /\ Cardinality(below(k)) \in Nat
  BY FS_Subset, FS_CardinalityType
<1>2. Cardinality(N) \in Nat
  BY FS_CardinalityType
<1>3. Cardinality(below(i)) < Cardinality(N)
  <2>1. below(i) # N
    <3>1. i \in N /\ i \notin below(i)
      OBVIOUS
    <3> QED BY <3>1
  <2>2. /\ Cardinality(below(i)) <= Cardinality(N)
        /\ Cardinality(N) = Cardinality(below(i)) => N = below(i)
    BY <1>1, FS_Subset
  <2> HIDE DEF below
  <2> QED BY <1>1, <1>2, <2>1, <2>2
<1>4. ASSUME NEW j \in N, i < j
      PROVE  Cardinality(below(i)) < Cardinality(below(j))
  <2>1. below(i) \subseteq below(j) /\ i \in below(j) /\ i \notin below(i)
    <3>1. ASSUME NEW k \in N, k < i PROVE k < j
      <4>1. k \in Nat /\ i \in Nat /\ j \in Nat
        OBVIOUS
      <4> QED BY <1>4, <3>1, <4>1
    <3>2. ~(i < i)
      <4>1. i \in Nat
        OBVIOUS
      <4> QED BY <4>1
    <3> QED BY <1>4, <3>1, <3>2
  <2>2. /\ Cardinality(below(i)) <= Cardinality(below(j))
        /\ Cardinality(below(j)) = Cardinality(below(i)) => below(j) = below(i)
    <3> HIDE DEF below
    <3> QED BY <1>1, <2>1, FS_Subset
  <2> HIDE DEF below
  <2> QED BY <1>1, <2>1, <2>2
<1> QED BY <1>1, <1>2, <1>3, <1>4 DEF Rank

\* A run's record in hand survives what others do to the database.
LEMMA RunFrame ==
  ASSUME NEW r \in RunState, NEW d \in Db, NEW e \in Db, Evolves(d, e), RunInv(r, d)
  PROVE  RunInv(r, e)
<1>1. ASSUME NEW h \in r.hand, UsersBelow(h, d) PROVE UsersBelow(h, e)
  <2>1. h.uid \in Nat /\ d.nextUid \in Nat /\ e.nextUid \in Nat
    BY DEF RunState, User, Db
  <2>2. h.uid < e.nextUid
    BY <1>1, <2>1 DEF UsersBelow, Evolves
  <2>3. ASSUME NEW v \in e.users, v.uid = h.uid PROVE v.email = h.email
    BY <1>1, <2>3 DEF UsersBelow, Evolves
  <2> QED BY <2>2, <2>3 DEF UsersBelow
<1> QED BY <1>1 DEF RunInv

\* Nothing happens to the database.
LEMMA EvolvesSame ==
  ASSUME NEW d \in Db, Consistent(d) PROVE Evolves(d, d)
BY DEF Evolves, Consistent, Db

\* A step of run s.
LEMMA MoveKeeps ==
  ASSUME Inv, NEW s \in Requests, NEW next \in RunState, Go(s, next), panel' = panel,
         db' \in Db, Consistent(db'), Evolves(db, db'), RunInv(next, db'),
         left' \in Left
  PROVE  Inv' /\ Evolves(db, db')
<1>1. run \in [Requests -> RunState] /\ db \in Db
  BY DEF Inv, TypeOK
<1>2. run'[s] = next /\ \A u \in Requests \ {s} : run'[u] = run[u]
  BY <1>1 DEF Go
<1>3. run' \in [Requests -> RunState]
  BY <1>1 DEF Go
<1>4. \A u \in Requests \ {s} : RunInv(run[u], db')
  BY <1>1, RunFrame DEF Inv
<1> QED BY <1>2, <1>3, <1>4 DEF Inv, TypeOK

\* What Inv says of a run and the database.
LEMMA Types ==
  ASSUME Inv, NEW s \in Requests
  PROVE  /\ run[s] \in RunState /\ RunInv(run[s], db) /\ db \in Db /\ Consistent(db)
         /\ Evolves(db, db)
         /\ left \in Left
BY EvolvesSame DEF Inv, TypeOK

\* A run that stops, or goes on without its import, has nothing in hand.
LEMMA StoppedKeeps ==
  ASSUME NEW r \in RunState, NEW x, x = Abort(r) \/ x = Ended("done") \/ x = Ended("failed"),
         NEW d
  PROVE  x \in RunState /\ RunInv(x, d)
<1>1. Idle \in RunState
  BY DEF Idle, RunState
<1>2. Ended("done") \in RunState /\ Ended("failed") \in RunState
  BY DEF Ended, Idle, RunState
<1>3. Abort(r) \in RunState
  <2>1. ASSUME NEW al \in BOOLEAN, NEW ca \in BOOLEAN
        PROVE  [Idle EXCEPT !.pc = "read", !.sync = TRUE, !.alone = al, !.calm = ca] \in RunState
    BY DEF Idle, RunState
  <2>2. r.alone \in BOOLEAN /\ r.calm \in BOOLEAN
    BY DEF RunState
  <2>3. [Idle EXCEPT !.pc = "read", !.sync = TRUE, !.alone = r.alone, !.calm = r.calm]
          \in RunState
    BY ONLY <2>1, <2>2
  <2> QED BY <1>2, <2>3 DEF Abort
<1>4. x.pc \in {"read", "done", "failed"} /\ x.gone = {}
  BY DEF Abort, Ended, Idle
<1> QED BY <1>2, <1>3, <1>4 DEF RunInv, Importing

(***************************************************************************)
(* The steps of a request.                                                 *)
(***************************************************************************)

\* Fetch
LEMMA FetchKeeps ==
  ASSUME Inv, NEW s \in Requests, Fetch(s) PROVE Inv' /\ Evolves(db, db')
<1> DEFINE r == run[s]
           next == [r EXCEPT !.pc = "cache", !.snap = SnapOf(panel), !.ids = DOMAIN panel]
<1>1. /\ r \in RunState /\ RunInv(r, db) /\ db \in Db /\ Consistent(db) /\ Evolves(db, db)
      /\ left \in Left
  BY Types
<1>2. r.pc = "fetch" /\ panel' = panel /\ db' = db
  BY DEF Fetch
<1>3. left' \in Left
  BY <1>1 DEF Fetch, Left
<1>4. CASE Go(s, Abort(r))
  <2>1. Abort(r) \in RunState /\ RunInv(Abort(r), db)
    BY <1>1, StoppedKeeps
  <2> QED BY <1>1, <1>2, <1>3, <1>4, <2>1, MoveKeeps
<1>5. CASE Go(s, next)
  <2>1. SnapOf(panel) \subseteq Todo
    BY DEF SnapOf
  <2>2. DOMAIN panel \subseteq Ids
    <3>1. panel \in Panel
      BY ChoicesAssumption DEF Inv, TypeOK
    <3>2. PICK d \in SUBSET Ids : panel \in [d -> SUBSET Client]
      BY <3>1 DEF Panel
    <3> QED BY <3>2
  <2>3. next \in RunState /\ next.pc = "cache" /\ next.gone = r.gone
    BY <1>1, <2>1, <2>2 DEF RunState
  <2>4. RunInv(next, db)
    BY <2>3, <1>1, <1>2 DEF RunInv, Importing
  <2> QED BY <1>1, <1>2, <1>3, <1>5, <2>3, <2>4, MoveKeeps
<1> QED BY <1>4, <1>5 DEF Fetch

\* The tables after EnsureServerInbounds.
LEMMA EnsureKeeps ==
  ASSUME NEW r \in RunState, NEW d \in Db, Consistent(d)
  PROVE  /\ EnsureServerInbounds(r, d) \in Db
         /\ Consistent(EnsureServerInbounds(r, d))
         /\ Evolves(d, EnsureServerInbounds(r, d))
<1> DEFINE N == NewIds(r, d)
           e == EnsureServerInbounds(r, d)
<1>1. N \subseteq Ids /\ N \subseteq Nat /\ IsFiniteSet(N)
  <2>1. N \subseteq Ids
    BY DEF NewIds, RunState
  <2> HIDE DEF N
  <2> QED BY <2>1, IdsAssumption, FS_Subset
<1>2. Cardinality(N) \in Nat
  BY <1>1, FS_CardinalityType
<1>3. \A i \in N : /\ Rank(N, i) \in Nat
                   /\ \A j \in N : i < j => Rank(N, i) < Rank(N, j)
  <2> HIDE DEF N
  <2> QED BY <1>1, RankLess
<1>4. \A i \in N : Rank(N, i) < Cardinality(N)
  <2> HIDE DEF N
  <2> QED BY <1>1, RankLess
<1>5. \A i : ClientsAt(r, i) \subseteq Client
  BY DEF ClientsAt, RunState, Todo, Client
<1>6. d.rows \subseteq Row /\ d.nextLocal \in Nat /\ d.nextUid \in Nat
  BY DEF Db
<1>7. \A x \in KeptRows(r, d) : x \in Row /\ \E q \in d.rows : x.id = q.id /\ x.local = q.local
                                                          /\ x.clients = ClientsAt(r, q.id)
  BY <1>5, <1>6 DEF KeptRows, Row
<1>8. \A x \in NewRows(r, d) : \E i \in N :
        x = [local |-> d.nextLocal + Rank(N, i), id |-> i, clients |-> ClientsAt(r, i)]
  BY DEF NewRows
<1>9. /\ e.users = d.users /\ e.nextUid = d.nextUid
      /\ e.rows = KeptRows(r, d) \cup NewRows(r, d)
      /\ e.grants \subseteq d.grants
      /\ e.nextLocal = d.nextLocal + Cardinality(N)
  BY DEF EnsureServerInbounds, Db
<1>10. \A x \in NewRows(r, d) :
         /\ x \in Row /\ x.id \in N /\ x.local = d.nextLocal + Rank(N, x.id)
         /\ x.clients = ClientsAt(r, x.id)
  <2> HIDE DEF N
  <2> SUFFICES ASSUME NEW x \in NewRows(r, d)
               PROVE  /\ x \in Row /\ x.id \in N /\ x.local = d.nextLocal + Rank(N, x.id)
                      /\ x.clients = ClientsAt(r, x.id)
    OBVIOUS
  <2>1. PICK i \in N :
          x = [local |-> d.nextLocal + Rank(N, i), id |-> i, clients |-> ClientsAt(r, i)]
    BY <1>8
  <2>2. d.nextLocal + Rank(N, i) \in Nat /\ i \in Ids /\ ClientsAt(r, i) \in SUBSET Client
    BY <1>1, <1>3, <1>5, <1>6
  <2>3. x.id = i /\ x.local = d.nextLocal + Rank(N, i) /\ x.clients = ClientsAt(r, i)
    BY <2>1
  <2>4. x \in Row
    BY <2>1, <2>2 DEF Row
  <2> QED BY <2>3, <2>4
<1>11. e \in Db
  <2> DEFINE R == KeptRows(r, d) \cup NewRows(r, d)
             lost == {q.local : q \in {x \in d.rows : x.id \notin r.ids}}
             G == {g \in d.grants : g.local \notin lost}
             n == d.nextLocal + Cardinality(N)
  <2>1. e = [d EXCEPT !.rows = R, !.grants = G, !.nextLocal = n]
    BY DEF EnsureServerInbounds, Db
  <2>2. R \in SUBSET Row
    BY <1>7, <1>10
  <2>3. G \in SUBSET Grant
    BY DEF Db
  <2>4. n \in Nat
    <3> HIDE DEF N
    <3> QED BY <1>2, <1>6
  <2> HIDE DEF e, R, G, n
  <2> QED BY <2>1, <2>2, <2>3, <2>4 DEF Db
<1>12. \A q \in d.rows : q.id \notin N
  BY DEF NewIds
<1>13. \A q \in d.rows : q.local \in Nat /\ q.local < d.nextLocal
  BY <1>6 DEF Consistent, Row
<1>14. ASSUME NEW x \in e.rows, NEW y \in e.rows, x.id = y.id \/ x.local = y.local
       PROVE  x = y
  <2> HIDE DEF N, e
  <2>1. CASE x \in KeptRows(r, d) /\ y \in KeptRows(r, d)
    <3>1. PICK q \in d.rows : x.id = q.id /\ x.local = q.local /\ x.clients = ClientsAt(r, q.id)
      BY <2>1, <1>7
    <3>2. PICK p \in d.rows : y.id = p.id /\ y.local = p.local /\ y.clients = ClientsAt(r, p.id)
      BY <2>1, <1>7
    <3>3. q = p
      BY <1>14, <3>1, <3>2 DEF Consistent
    <3>4. x \in Row /\ y \in Row
      BY <2>1, <1>7
    <3> QED BY <3>1, <3>2, <3>3, <3>4 DEF Row
  <2>2. CASE x \in NewRows(r, d) /\ y \in NewRows(r, d)
    <3>1. x.id \in Nat /\ y.id \in Nat /\ Rank(N, x.id) \in Nat /\ Rank(N, y.id) \in Nat
      BY <2>2, <1>1, <1>3, <1>10
    <3>2. x.local = y.local => Rank(N, x.id) = Rank(N, y.id)
      BY <2>2, <3>1, <1>6, <1>10
    <3>3. ~(x.id < y.id) /\ ~(y.id < x.id)
      BY <2>2, <1>14, <1>3, <1>10, <3>1, <3>2
    <3>4. x.id = y.id
      BY <3>1, <3>3
    <3> QED BY <3>4, <2>2, <1>10 DEF Row
  <2>3. ASSUME NEW k \in KeptRows(r, d), NEW n \in NewRows(r, d)
        PROVE  k.id # n.id /\ k.local # n.local
    <3>1. PICK q \in d.rows : k.id = q.id /\ k.local = q.local
      BY <1>7
    <3>2. n.id \in N /\ n.local = d.nextLocal + Rank(N, n.id) /\ Rank(N, n.id) \in Nat
      BY <1>3, <1>10
    <3>3. k.local \in Nat /\ k.local < d.nextLocal
      BY <3>1, <1>13
    <3> QED BY <3>1, <3>2, <3>3, <1>6, <1>12
  <2> QED BY <1>9, <1>14, <2>1, <2>2, <2>3
<1>15. \A x \in e.rows : x.local < e.nextLocal
  <2> HIDE DEF N, e
  <2>1. ASSUME NEW x \in KeptRows(r, d) PROVE x.local < d.nextLocal + Cardinality(N)
    <3>1. PICK q \in d.rows : x.local = q.local
      BY <1>7
    <3> QED BY <3>1, <1>2, <1>6, <1>13
  <2>2. ASSUME NEW x \in NewRows(r, d) PROVE x.local < d.nextLocal + Cardinality(N)
    <3>1. Rank(N, x.id) \in Nat /\ Rank(N, x.id) < Cardinality(N)
      BY <1>3, <1>4, <1>10
    <3> QED BY <3>1, <1>2, <1>6, <1>10
  <2> QED BY <1>9, <2>1, <2>2
<1>16. Consistent(e)
  <2> HIDE DEF N, e
  <2> QED BY <1>9, <1>14, <1>15 DEF Consistent
<1>17. Evolves(d, e)
  <2> HIDE DEF N, e
  <2>1. ASSUME NEW q \in d.rows, NEW x \in e.rows, q.id = x.id PROVE q.local = x.local
    <3>1. x \in KeptRows(r, d)
      BY <2>1, <1>9, <1>10, <1>12
    <3>2. PICK p \in d.rows : x.id = p.id /\ x.local = p.local
      BY <3>1, <1>7
    <3> QED BY <2>1, <3>2 DEF Consistent
  <2> QED BY <2>1, <1>6, <1>9 DEF Evolves
<1> QED BY <1>11, <1>16, <1>17

\* Cache
LEMMA CacheKeeps ==
  ASSUME Inv, NEW s \in Requests, Cache(s) PROVE Inv' /\ Evolves(db, db')
<1> DEFINE r == run[s]
           next == [r EXCEPT !.pc = "rows"]
<1>1. r \in RunState /\ RunInv(r, db) /\ db \in Db /\ Consistent(db)
  BY Types
<1>2. r.pc = "cache" /\ panel' = panel /\ left' = left /\ Go(s, next)
      /\ db' = EnsureServerInbounds(r, db)
  BY DEF Cache
<1>3. db' \in Db /\ Consistent(db') /\ Evolves(db, db')
  BY <1>1, <1>2, EnsureKeeps
<1>4. next \in RunState /\ next.pc = "rows" /\ next.gone = r.gone
  BY <1>1 DEF RunState
<1>5. RunInv(next, db')
  <2> HIDE DEF next
  <2> QED BY <1>1, <1>2, <1>4 DEF RunInv, Importing
<1> QED BY <1>2, <1>3, <1>4, <1>5, Types, MoveKeeps

\* ReadBack
LEMMA ReadBackKeeps ==
  ASSUME Inv, NEW s \in Requests, ReadBack(s) PROVE Inv' /\ Evolves(db, db')
<1> DEFINE r == run[s]
           next == [r EXCEPT !.pc = "clear", !.cached = db.rows]
<1>1. r \in RunState /\ RunInv(r, db) /\ db \in Db /\ Consistent(db) /\ Evolves(db, db)
  BY Types
<1>2. r.pc = "rows" /\ panel' = panel /\ left' = left /\ Go(s, next) /\ db' = db
  BY DEF ReadBack
<1>3. next \in RunState /\ next.pc = "clear" /\ next.gone = r.gone
  BY <1>1 DEF RunState, Db
<1>4. RunInv(next, db')
  <2> HIDE DEF next
  <2> QED BY <1>1, <1>2, <1>3 DEF RunInv, Importing
<1> QED BY <1>1, <1>2, <1>3, <1>4, Types, MoveKeeps

\* Assignments and users may go without harm to the rest.
LEMMA LessKeeps ==
  ASSUME NEW d \in Db, Consistent(d), NEW U \in SUBSET d.users, NEW G \in SUBSET Grant,
         NEW e, e = [d EXCEPT !.users = U, !.grants = G]
  PROVE  e \in Db /\ Consistent(e) /\ Evolves(d, e)
<1>1. e \in Db /\ d.nextUid \in Nat
  BY DEF Db
<1>2. /\ e.users = U /\ e.rows = d.rows /\ e.nextUid = d.nextUid /\ e.nextLocal = d.nextLocal
  BY DEF Db
<1>3. Consistent(e)
  <2> QED BY <1>2 DEF Consistent
<1>4. Evolves(d, e)
  <2> QED BY <1>1, <1>2 DEF Consistent, Evolves
<1> QED BY <1>1, <1>3, <1>4

\* DeleteUser
LEMMA WithoutUserKeeps ==
  ASSUME NEW d \in Db, Consistent(d), NEW uid
  PROVE  /\ WithoutUser(d, uid) \in Db /\ Consistent(WithoutUser(d, uid))
         /\ Evolves(d, WithoutUser(d, uid))
<1> DEFINE U == {u \in d.users : u.uid # uid}
           G == {g \in d.grants : g.uid # uid}
<1>1. WithoutUser(d, uid) = [d EXCEPT !.users = U, !.grants = G]
  BY DEF WithoutUser
<1>2. U \in SUBSET d.users /\ G \in SUBSET Grant
  BY DEF Db
<1> HIDE DEF U, G
<1> QED BY <1>1, <1>2, LessKeeps

\* ClearAssignments
LEMMA ClearKeeps ==
  ASSUME Inv, NEW s \in Requests, ClearAssignments(s) PROVE Inv' /\ Evolves(db, db')
<1> DEFINE r == run[s]
           gone == r.before \ {t.email : t \in r.snap}
           next == [r EXCEPT !.pc = "users", !.todo = r.snap, !.owed = Assignments(r),
                             !.gone = gone]
<1>1. r \in RunState /\ RunInv(r, db) /\ db \in Db /\ Consistent(db)
  BY Types
<1>2. r.pc = "clear" /\ panel' = panel /\ left' = left /\ Go(s, next)
      /\ db' = [db EXCEPT !.grants = {}]
  BY DEF ClearAssignments
<1>3. db' \in Db /\ Consistent(db') /\ Evolves(db, db')
  <2>1. db' = [db EXCEPT !.users = db.users, !.grants = {}]
    BY <1>1, <1>2 DEF Db
  <2> QED BY <1>1, <2>1, LessKeeps
<1>4. next \in RunState
  <2>1. Assignments(r) \in SUBSET Owed /\ gone \in SUBSET Emails /\ r.snap \in SUBSET Todo
    BY <1>1 DEF Assignments, RunState
  <2> HIDE DEF gone
  <2> QED BY <1>1, <2>1 DEF RunState
<1>5. /\ next.pc = "users" /\ next.gone = gone /\ next.snap = r.snap /\ next.todo = r.snap
      /\ next.owed = Assignments(r) /\ next.cached = r.cached
  BY <1>1 DEF RunState
<1>6. RunInv(next, db')
  <2>1. \A e \in gone, t \in r.snap : t.email # e
    OBVIOUS
  <2> HIDE DEF next, gone
  <2>2. Assignments(next) = Assignments(r)
    BY <1>5 DEF Assignments
  <2> QED BY <1>5, <2>1, <2>2 DEF RunInv, Importing, Covered
<1> HIDE DEF next, r
<1> QED BY <1>2, <1>3, <1>4, <1>6, Types, MoveKeeps

\* The users seen.
LEMMA SeeCovers ==
  ASSUME NEW seen \in SUBSET [email: Emails, uid: Nat], NEW e \in Emails, NEW uid \in Nat
  PROVE  /\ See(seen, e, uid) \in SUBSET [email: Emails, uid: Nat]
         /\ \E x \in See(seen, e, uid) : x.email = e
         /\ \A y \in seen : \E x \in See(seen, e, uid) : x.email = y.email
<1> DEFINE new == [email |-> e, uid |-> uid]
<1>1. new \in [email: Emails, uid: Nat] /\ new.email = e
  OBVIOUS
<1>2. new \in See(seen, e, uid)
  BY DEF See
<1>3. \A y \in seen : y.email # e => y \in See(seen, e, uid)
  BY DEF See
<1>4. See(seen, e, uid) \subseteq seen \cup {new}
  BY DEF See
<1> HIDE DEF new
<1> QED BY <1>1, <1>2, <1>3, <1>4

\* The ways a run goes back to its loops, with a user seen ...
LEMMA SeenKeeps ==
  ASSUME NEW r \in RunState, NEW d, RunInv(r, d), r.pc \in {"create", "fill", "store"},
         NEW h \in r.hand, NEW uid \in Nat, NEW e,
         NEW next, next = [r EXCEPT !.pc = "users", !.hand = {}, !.seen = See(@, h.email, uid)]
  PROVE  next \in RunState /\ RunInv(next, e)
<1>1. h.email \in Emails /\ r.seen \in SUBSET [email: Emails, uid: Nat]
  BY DEF RunState, User
<1>2. See(r.seen, h.email, uid) \in SUBSET [email: Emails, uid: Nat]
  BY <1>1, SeeCovers
<1>3. next \in RunState
  BY <1>2 DEF RunState
<1>4. /\ next.pc = "users" /\ next.snap = r.snap /\ next.todo = r.todo /\ next.owed = r.owed
      /\ next.gone = r.gone /\ next.cached = r.cached /\ next.seen = See(r.seen, h.email, uid)
  BY DEF RunState
<1>5. Assignments(next) = Assignments(r)
  BY <1>4 DEF Assignments
<1>6. Covered(next)
  <2>1. Covered(r) /\ \A g \in r.hand : g = h
    BY DEF RunInv, Importing
  <2>2. \E x \in next.seen : x.email = h.email
    BY <1>1, <1>4, SeeCovers
  <2>3. \A y \in r.seen : \E x \in next.seen : x.email = y.email
    BY <1>1, <1>4, SeeCovers
  <2> QED BY <1>4, <2>1, <2>2, <2>3 DEF Covered
<1> QED BY <1>3, <1>4, <1>5, <1>6 DEF RunInv, Importing

\* ... with a user in hand ...
LEMMA HeldKeeps ==
  ASSUME NEW r \in RunState, NEW d, RunInv(r, d), r.pc = "users", NEW t \in r.todo,
         NEW h \in User, h.email = t.email, NEW how \in {"create", "fill"},
         how = "fill" => UsersBelow(h, d),
         NEW next, next = [r EXCEPT !.pc = how, !.hand = {h}, !.todo = @ \ {t}]
  PROVE  next \in RunState /\ RunInv(next, d)
<1>1. next \in RunState
  BY DEF RunState
<1>2. /\ next.pc = how /\ next.snap = r.snap /\ next.todo = r.todo \ {t} /\ next.owed = r.owed
      /\ next.gone = r.gone /\ next.cached = r.cached /\ next.seen = r.seen /\ next.hand = {h}
  BY DEF RunState
<1>3. Assignments(next) = Assignments(r)
  BY <1>2 DEF Assignments
<1>4. Covered(next)
  BY <1>2 DEF RunInv, Importing, Covered
<1> QED BY <1>1, <1>2, <1>3, <1>4 DEF RunInv, Importing

\* ... or with an entry looked at whose user is as it should be.
LEMMA PassedKeeps ==
  ASSUME NEW r \in RunState, NEW d, RunInv(r, d), r.pc = "users", NEW t \in r.todo,
         NEW uid \in Nat,
         NEW next, next = [r EXCEPT !.seen = See(@, t.email, uid), !.todo = @ \ {t}]
  PROVE  next \in RunState /\ RunInv(next, d)
<1>1. t.email \in Emails /\ r.seen \in SUBSET [email: Emails, uid: Nat]
  BY DEF RunState, Todo
<1>2. See(r.seen, t.email, uid) \in SUBSET [email: Emails, uid: Nat]
  BY <1>1, SeeCovers
<1>3. next \in RunState
  BY <1>2 DEF RunState
<1>4. /\ next.pc = "users" /\ next.snap = r.snap /\ next.todo = r.todo \ {t}
      /\ next.owed = r.owed /\ next.gone = r.gone /\ next.cached = r.cached
      /\ next.seen = See(r.seen, t.email, uid)
  BY DEF RunState
<1>5. Assignments(next) = Assignments(r)
  BY <1>4 DEF Assignments
<1>6. Covered(next)
  <2>1. Covered(r)
    BY DEF RunInv, Importing
  <2>2. \E x \in next.seen : x.email = t.email
    BY <1>1, <1>4, SeeCovers
  <2>3. \A y \in r.seen : \E x \in next.seen : x.email = y.email
    BY <1>1, <1>4, SeeCovers
  <2> QED BY <1>4, <2>1, <2>2, <2>3 DEF Covered
<1> QED BY <1>3, <1>4, <1>5, <1>6 DEF RunInv, Importing

\* A user of the table.
LEMMA KnownUser ==
  ASSUME NEW d \in Db, Consistent(d), NEW u \in d.users, NEW h, h.uid = u.uid, h.email = u.email
  PROVE  u \in User /\ u.uid \in Nat /\ UsersBelow(h, d)
BY DEF Db, User, Consistent, UsersBelow

\* LookUp
LEMMA LookUpKeeps ==
  ASSUME Inv, NEW s \in Requests, LookUp(s) PROVE Inv' /\ Evolves(db, db')
<1> DEFINE r == run[s]
<1>1. r \in RunState /\ RunInv(r, db) /\ db \in Db /\ Consistent(db) /\ Evolves(db, db)
  BY Types
<1>2. r.pc = "users" /\ panel' = panel /\ left' = left /\ db' = db
  BY DEF LookUp
<1>3. PICK t \in r.todo :
        LET rest == [r EXCEPT !.todo = @ \ {t}]
            new  == [uid |-> 0, email |-> t.email, cred |-> t.cred, pref |-> NoPref]
        IN \/ Go(s, [rest EXCEPT !.pc = "create", !.hand = {new}])
           \/ \E u \in ByEmail(db, t.email) :
                Go(s, IF u.cred = t.cred
                      THEN [rest EXCEPT !.seen = See(@, t.email, u.uid)]
                      ELSE [rest EXCEPT !.pc = "fill", !.hand = {[u EXCEPT !.cred = t.cred]}])
  BY DEF LookUp
<1>4. t.email \in Emails /\ t.cred \in Creds
  BY <1>1 DEF RunState, Todo
<1>5. SUFFICES \E next \in RunState : Go(s, next) /\ RunInv(next, db)
  <2>1. left' \in Left
    BY <1>2, Types
  <2> QED BY <1>1, <1>2, <1>5, <2>1, MoveKeeps
<1>6. ASSUME NEW h \in User, h.email = t.email, NEW how \in {"create", "fill"},
             how = "fill" => UsersBelow(h, db)
      PROVE  LET next == [[r EXCEPT !.todo = @ \ {t}] EXCEPT !.pc = how, !.hand = {h}]
             IN next \in RunState /\ RunInv(next, db)
  <2> DEFINE next == [[r EXCEPT !.todo = @ \ {t}] EXCEPT !.pc = how, !.hand = {h}]
  <2>1. next = [r EXCEPT !.pc = how, !.hand = {h}, !.todo = @ \ {t}]
    BY <1>1 DEF RunState
  <2> HIDE DEF next
  <2>2. next \in RunState /\ RunInv(next, db)
    BY <1>1, <1>2, <1>6, <2>1, HeldKeeps
  <2> QED BY <2>2 DEF next
<1>7. CASE \E u \in ByEmail(db, t.email) :
             Go(s, IF u.cred = t.cred
                   THEN [[r EXCEPT !.todo = @ \ {t}] EXCEPT !.seen = See(@, t.email, u.uid)]
                   ELSE [[r EXCEPT !.todo = @ \ {t}] EXCEPT
                           !.pc = "fill", !.hand = {[u EXCEPT !.cred = t.cred]}])
  <2>1. PICK u \in ByEmail(db, t.email) :
             Go(s, IF u.cred = t.cred
                   THEN [[r EXCEPT !.todo = @ \ {t}] EXCEPT !.seen = See(@, t.email, u.uid)]
                   ELSE [[r EXCEPT !.todo = @ \ {t}] EXCEPT
                           !.pc = "fill", !.hand = {[u EXCEPT !.cred = t.cred]}])
    BY <1>7
  <2>2. u \in db.users /\ u.email = t.email
    BY DEF ByEmail
  <2>3. CASE u.cred = t.cred
    <3> DEFINE next == [[r EXCEPT !.todo = @ \ {t}] EXCEPT !.seen = See(@, t.email, u.uid)]
    <3>1. next = [r EXCEPT !.seen = See(@, t.email, u.uid), !.todo = @ \ {t}]
      BY <1>1 DEF RunState
    <3>2. u.uid \in Nat
      BY <1>1, <2>2, KnownUser
    <3>3. Go(s, next)
      BY <2>1, <2>3
    <3> HIDE DEF next
    <3>4. next \in RunState /\ RunInv(next, db)
      BY <1>1, <1>2, <3>1, <3>2, PassedKeeps
    <3> QED BY <3>3, <3>4
  <2>4. CASE u.cred # t.cred
    <3> DEFINE h == [u EXCEPT !.cred = t.cred]
               next == [[r EXCEPT !.todo = @ \ {t}] EXCEPT !.pc = "fill", !.hand = {h}]
    <3>1. u \in User
      BY <1>1, <2>2, KnownUser
    <3>2. h \in User /\ h.uid = u.uid /\ h.email = u.email
      BY <1>4, <3>1 DEF User
    <3>3. Go(s, next)
      BY <2>1, <2>4
    <3> HIDE DEF h
    <3>4. UsersBelow(h, db)
      BY <1>1, <2>2, <3>2, KnownUser
    <3>5. next \in RunState /\ RunInv(next, db)
      BY <1>6, <2>2, <3>2, <3>4
    <3> QED BY <3>3, <3>5
  <2> QED BY <2>3, <2>4
<1>8. CASE Go(s, [[r EXCEPT !.todo = @ \ {t}] EXCEPT !.pc = "create",
                   !.hand = {[uid |-> 0, email |-> t.email, cred |-> t.cred, pref |-> NoPref]}])
  <2> DEFINE h == [uid |-> 0, email |-> t.email, cred |-> t.cred, pref |-> NoPref]
             next == [[r EXCEPT !.todo = @ \ {t}] EXCEPT !.pc = "create", !.hand = {h}]
  <2>1. h \in User /\ h.email = t.email
    BY <1>4 DEF User, Pref
  <2>2. Go(s, next)
    BY <1>8
  <2> HIDE DEF h
  <2>3. next \in RunState /\ RunInv(next, db)
    BY <1>6, <2>1
  <2> QED BY <2>2, <2>3
<1> QED BY <1>3, <1>7, <1>8

\* Create
LEMMA CreateKeeps ==
  ASSUME Inv, NEW s \in Requests, Create(s) PROVE Inv' /\ Evolves(db, db')
<1> DEFINE r == run[s]
<1>1. /\ r \in RunState /\ RunInv(r, db) /\ db \in Db /\ Consistent(db) /\ Evolves(db, db)
      /\ left \in Left
  BY Types
<1>2. r.pc = "create" /\ panel' = panel /\ left' = left
  BY DEF Create
<1>3. PICK h \in r.hand :
        \/ /\ ByEmail(db, h.email) = {}
           /\ db' = [db EXCEPT !.users = @ \cup {[h EXCEPT !.uid = db.nextUid]},
                               !.nextUid = @ + 1]
           /\ Go(s, [r EXCEPT !.pc = "users", !.hand = {},
                              !.seen = See(@, h.email, db.nextUid)])
        \/ Go(s, Abort(r)) /\ db' = db
  BY DEF Create
<1>4. CASE Go(s, Abort(r)) /\ db' = db
  <2>1. Abort(r) \in RunState /\ RunInv(Abort(r), db)
    BY <1>1, StoppedKeeps
  <2> QED BY <1>1, <1>2, <1>4, <2>1, MoveKeeps
<1>5. CASE /\ ByEmail(db, h.email) = {}
           /\ db' = [db EXCEPT !.users = @ \cup {[h EXCEPT !.uid = db.nextUid]},
                               !.nextUid = @ + 1]
           /\ Go(s, [r EXCEPT !.pc = "users", !.hand = {},
                              !.seen = See(@, h.email, db.nextUid)])
  <2> DEFINE new  == [h EXCEPT !.uid = db.nextUid]
             next == [r EXCEPT !.pc = "users", !.hand = {}, !.seen = See(@, h.email, db.nextUid)]
  <2>1. h \in User /\ db.nextUid \in Nat
    BY <1>1 DEF RunState, Db
  <2>2. new \in User /\ new.uid = db.nextUid /\ new.email = h.email
    BY <2>1 DEF User
  <2>3. Go(s, next) /\ db' = [db EXCEPT !.users = @ \cup {new}, !.nextUid = @ + 1]
    BY <1>5
  <2>4. next \in RunState /\ RunInv(next, db')
    <3> HIDE DEF r
    <3> QED BY <1>1, <1>2, <2>1, SeenKeeps
  <2> HIDE DEF new, next
  <2>5. /\ db'.users = db.users \cup {new} /\ db'.nextUid = db.nextUid + 1
        /\ db'.rows = db.rows /\ db'.nextLocal = db.nextLocal
    BY <1>1, <2>3 DEF Db
  <2>6. db' \in Db
    <3> DEFINE U == db.users \cup {new}
               n == db.nextUid + 1
    <3>1. U \in SUBSET User /\ n \in Nat
      BY <1>1, <2>1, <2>2 DEF Db
    <3>2. db' = [db EXCEPT !.users = U, !.nextUid = n]
      BY <1>1, <2>3 DEF Db
    <3> HIDE DEF U, n
    <3> QED BY <1>1, <3>1, <3>2 DEF Db
  <2>7. \A u \in db.users : u.uid \in Nat /\ u.uid < db.nextUid /\ u.email # h.email
    BY <1>1, <1>5 DEF Db, User, Consistent, ByEmail
  <2>8. Consistent(db')
    <3>1. \A u, v \in db'.users : u.email = v.email \/ u.uid = v.uid => u = v
      BY <1>1, <2>1, <2>2, <2>5, <2>7 DEF Consistent
    <3>2. \A u \in db'.users : u.uid < db'.nextUid
      BY <2>1, <2>2, <2>5, <2>7
    <3> QED BY <1>1, <2>5, <3>1, <3>2 DEF Consistent
  <2>9. Evolves(db, db')
    <3>1. ~(new.uid < db.nextUid) /\ db.nextUid <= db'.nextUid
      BY <2>1, <2>2, <2>5
    <3> QED BY <1>1, <2>5, <3>1 DEF Evolves
  <2> QED BY <1>1, <1>2, <2>3, <2>4, <2>6, <2>8, <2>9, MoveKeeps
<1> QED BY <1>3, <1>4, <1>5

\* Fill
LEMMA FillKeeps ==
  ASSUME Inv, NEW s \in Requests, Fill(s) PROVE Inv' /\ Evolves(db, db')
<1> DEFINE r == run[s]
           filled(h) == IF h.pref = NoPref
                        THEN [h EXCEPT !.pref = PolicyNow(db, h.uid)] ELSE h
           next == [r EXCEPT !.pc = "store", !.hand = {filled(h) : h \in @}]
<1>1. /\ r \in RunState /\ RunInv(r, db) /\ db \in Db /\ Consistent(db) /\ Evolves(db, db)
      /\ left \in Left
  BY Types
<1>2. r.pc = "fill" /\ panel' = panel /\ left' = left /\ db' = db /\ Go(s, next)
  BY DEF Fill
<1>3. \A uid : PolicyNow(db, uid) \in Pref
  BY <1>1 DEF PolicyNow, Pref, Db, User
<1>4. \A h \in r.hand : filled(h) \in User /\ filled(h).uid = h.uid /\ filled(h).email = h.email
  BY <1>1, <1>3 DEF RunState, User
<1> HIDE DEF filled
<1>5. next \in RunState
  <2> DEFINE filledHand == {filled(h) : h \in r.hand}
  <2>1. filledHand \in SUBSET User
    BY <1>4
  <2>2. next = [r EXCEPT !.pc = "store", !.hand = filledHand]
    BY <1>1 DEF RunState
  <2> HIDE DEF next, filledHand
  <2> QED BY <1>1, <2>1, <2>2 DEF RunState
<1>6. /\ next.pc = "store" /\ next.snap = r.snap /\ next.todo = r.todo /\ next.owed = r.owed
      /\ next.gone = r.gone /\ next.cached = r.cached /\ next.seen = r.seen
      /\ next.hand = {filled(h) : h \in r.hand}
  BY <1>1 DEF RunState
<1> HIDE DEF next, r
<1>7. Assignments(next) = Assignments(r)
  BY <1>6 DEF Assignments
<1>8. Covered(next)
  <2>1. \A t \in r.snap : (\E h \in r.hand : h.email = t.email)
                           => \E h \in next.hand : h.email = t.email
    BY <1>4, <1>6
  <2>2. Covered(r)
    BY <1>1, <1>2 DEF RunInv, Importing
  <2> QED BY <1>6, <2>1, <2>2 DEF Covered
<1>9. \A h \in next.hand : UsersBelow(h, db)
  BY <1>1, <1>2, <1>4, <1>6 DEF RunInv, UsersBelow
<1>10. RunInv(next, db)
  <2>1. \A g, h \in next.hand : g = h
    BY <1>1, <1>2, <1>6 DEF RunInv
  <2> QED BY <1>1, <1>2, <1>6, <1>7, <1>8, <1>9, <2>1 DEF RunInv, Importing
<1> QED BY <1>1, <1>2, <1>5, <1>10, MoveKeeps

\* Store
LEMMA StoreKeeps ==
  ASSUME Inv, NEW s \in Requests, Store(s) PROVE Inv' /\ Evolves(db, db')
<1> DEFINE r == run[s]
<1>1. /\ r \in RunState /\ RunInv(r, db) /\ db \in Db /\ Consistent(db)
      /\ left \in Left
  BY Types
<1>2. r.pc = "store" /\ panel' = panel /\ left' = left
  BY DEF Store
<1>3. PICK h \in r.hand :
        /\ db' = [db EXCEPT !.users = {IF u.uid = h.uid THEN h ELSE u : u \in @}]
        /\ Go(s, [r EXCEPT !.pc = "users", !.hand = {}, !.seen = See(@, h.email, h.uid)])
  BY DEF Store
<1> DEFINE U == {IF u.uid = h.uid THEN h ELSE u : u \in db.users}
           next == [r EXCEPT !.pc = "users", !.hand = {}, !.seen = See(@, h.email, h.uid)]
<1>4. h \in User /\ h.uid \in Nat
  BY <1>1 DEF RunState, User
<1>5. \A v \in U : /\ v \in User
                   /\ \E u \in db.users : /\ u.uid = v.uid /\ u.email = v.email
                                          /\ v = IF u.uid = h.uid THEN h ELSE u
  BY <1>1, <1>2, <1>4 DEF RunInv, UsersBelow, Db
<1>6. db' = [db EXCEPT !.users = U] /\ Go(s, next)
  BY <1>3
<1>7. next \in RunState /\ RunInv(next, db')
  <2> HIDE DEF r
  <2> QED BY <1>1, <1>2, <1>4, SeenKeeps
<1> HIDE DEF U, next
<1>8. /\ db'.users = U /\ db'.nextUid = db.nextUid
      /\ db'.rows = db.rows /\ db'.nextLocal = db.nextLocal
  BY <1>1, <1>6 DEF Db
<1>9. db' \in Db
  BY <1>1, <1>5, <1>6 DEF Db
<1>10. Consistent(db')
  <2>1. ASSUME NEW v \in U, NEW w \in U, v.email = w.email \/ v.uid = w.uid PROVE v = w
    <3>1. PICK u \in db.users : /\ u.uid = v.uid /\ u.email = v.email
                                /\ v = IF u.uid = h.uid THEN h ELSE u
      BY <1>5
    <3>2. PICK x \in db.users : /\ x.uid = w.uid /\ x.email = w.email
                                /\ w = IF x.uid = h.uid THEN h ELSE x
      BY <1>5
    <3>3. u = x
      BY <1>1, <2>1, <3>1, <3>2 DEF Consistent
    <3> QED BY <3>1, <3>2, <3>3
  <2>2. \A v \in U : v.uid < db.nextUid
    BY <1>1, <1>5 DEF Consistent
  <2> QED BY <1>1, <1>8, <2>1, <2>2 DEF Consistent
<1>11. Evolves(db, db')
  <2>1. db.nextUid \in Nat
    BY <1>1 DEF Db
  <2> QED BY <1>1, <1>5, <1>8, <2>1 DEF Evolves, Consistent
<1> QED BY <1>1, <1>2, <1>6, <1>7, <1>9, <1>10, <1>11, MoveKeeps

\* What a run in its loops has in hand, once every entry is looked at.
LEMMA AssignmentReady ==
  ASSUME NEW r \in RunState, NEW d, RunInv(r, d), r.pc = "users", r.todo = {}, NEW o \in r.owed
  PROVE  o \in Owed /\ SeenId(r, o.email) \in Nat /\ LocalOf(r.cached, o.id) \in Nat
<1>1. o \in Assignments(r) /\ Covered(r)
  BY DEF RunInv, Importing
<1>2. PICK t \in r.snap : t.email = o.email
  BY <1>1 DEF Assignments
<1>3. \E x \in r.seen : x.email = o.email
  BY <1>1, <1>2 DEF Covered
<1>4. SeenId(r, o.email) \in Nat
  <2>1. (CHOOSE x \in r.seen : x.email = o.email) \in r.seen
    BY <1>3
  <2> QED BY <2>1 DEF SeenId, RunState
<1>5. LocalOf(r.cached, o.id) \in Nat
  <2>1. \E q \in r.cached : q.id = o.id
    BY <1>1 DEF Assignments, HasRow
  <2>2. (CHOOSE q \in r.cached : q.id = o.id) \in r.cached
    BY <2>1
  <2> QED BY <2>2 DEF LocalOf, RunState, Row
<1> QED BY <1>4, <1>5 DEF RunState

\* Assign
LEMMA AssignKeeps ==
  ASSUME Inv, NEW s \in Requests, Assign(s) PROVE Inv' /\ Evolves(db, db')
<1> DEFINE r == run[s]
<1>1. /\ r \in RunState /\ RunInv(r, db) /\ db \in Db /\ Consistent(db) /\ Evolves(db, db)
      /\ left \in Left
  BY Types
<1>2. r.pc = "users" /\ r.todo = {} /\ panel' = panel /\ left' = left
  BY DEF Assign
<1>3. PICK o \in r.owed :
        LET g == [uid |-> SeenId(r, o.email), local |-> LocalOf(r.cached, o.id),
                  email |-> o.email]
        IN /\ db' = IF \E x \in db.grants : x.uid = g.uid /\ x.local = g.local THEN db
                    ELSE [db EXCEPT !.grants = @ \cup {g}]
           /\ Go(s, [r EXCEPT !.owed = @ \ {o}])
  BY DEF Assign
<1> DEFINE g == [uid |-> SeenId(r, o.email), local |-> LocalOf(r.cached, o.id),
                 email |-> o.email]
           next == [r EXCEPT !.owed = @ \ {o}]
<1>4. o \in Owed /\ SeenId(r, o.email) \in Nat /\ LocalOf(r.cached, o.id) \in Nat
  <2> HIDE DEF r
  <2> QED BY <1>1, <1>2, AssignmentReady
<1>5. g \in Grant
  BY <1>4 DEF Grant, Owed
<1>6. Go(s, next) /\ (db' = db \/ db' = [db EXCEPT !.grants = @ \cup {g}])
  BY <1>3
<1>7. next \in RunState
  BY <1>1 DEF RunState
<1>8. /\ next.pc = "users" /\ next.snap = r.snap /\ next.todo = r.todo /\ next.hand = r.hand
      /\ next.gone = r.gone /\ next.cached = r.cached /\ next.seen = r.seen
      /\ next.owed = r.owed \ {o}
  BY <1>1, <1>2 DEF RunState
<1> HIDE DEF g, next
<1>9. RunInv(next, db')
  <2>1. Assignments(next) = Assignments(r)
    BY <1>8 DEF Assignments
  <2>2. Covered(next)
    BY <1>1, <1>2, <1>8 DEF RunInv, Importing, Covered
  <2> QED BY <1>1, <1>2, <1>8, <2>1, <2>2 DEF RunInv, Importing
<1>10. CASE db' = db
  BY <1>1, <1>2, <1>6, <1>7, <1>9, <1>10, MoveKeeps
<1>11. CASE db' = [db EXCEPT !.grants = @ \cup {g}]
  <2> DEFINE G == db.grants \cup {g}
  <2>1. db' = [db EXCEPT !.users = db.users, !.grants = G]
    BY <1>1, <1>11 DEF Db
  <2>2. G \in SUBSET Grant
    BY <1>1, <1>5 DEF Db
  <2> HIDE DEF G
  <2>3. db' \in Db /\ Consistent(db') /\ Evolves(db, db')
    BY <1>1, <2>1, <2>2, LessKeeps
  <2> QED BY <1>1, <1>2, <1>6, <1>7, <1>9, <2>3, MoveKeeps
<1> QED BY <1>6, <1>10, <1>11

\* FindGone
LEMMA FindGoneKeeps ==
  ASSUME Inv, NEW s \in Requests, FindGone(s) PROVE Inv' /\ Evolves(db, db')
<1> DEFINE r == run[s]
<1>1. /\ r \in RunState /\ RunInv(r, db) /\ db \in Db /\ Consistent(db) /\ Evolves(db, db)
      /\ left \in Left
  BY Types
<1>2. r.pc = "users" /\ panel' = panel /\ left' = left /\ db' = db
  BY DEF FindGone
<1>3. PICK e \in r.gone :
        Go(s, [r EXCEPT !.gone = @ \ {e}, !.hand = ByEmail(db, e),
                        !.pc = IF ByEmail(db, e) = {} THEN "users" ELSE "drop"])
  BY DEF FindGone
<1> DEFINE how  == IF ByEmail(db, e) = {} THEN "users" ELSE "drop"
           next == [r EXCEPT !.gone = @ \ {e}, !.hand = ByEmail(db, e), !.pc = how]
<1>4. how \in {"users", "drop"} /\ Go(s, next)
  BY <1>3
<1>5. ByEmail(db, e) \in SUBSET User
  BY <1>1 DEF ByEmail, Db
<1> HIDE DEF how
<1>6. next \in RunState
  BY <1>1, <1>4, <1>5 DEF RunState
<1>7. /\ next.pc = how /\ next.snap = r.snap /\ next.todo = r.todo /\ next.owed = r.owed
      /\ next.gone = r.gone \ {e} /\ next.cached = r.cached /\ next.seen = r.seen
      /\ next.hand = ByEmail(db, e)
  BY <1>1 DEF RunState
<1> HIDE DEF next
<1>8. \A h \in next.hand : UsersBelow(h, db) /\ h.email = e
  BY <1>1, <1>7, KnownUser DEF ByEmail
<1>9. RunInv(next, db)
  <2>1. Assignments(next) = Assignments(r)
    BY <1>7 DEF Assignments
  <2>2. Covered(next)
    BY <1>1, <1>2, <1>7 DEF RunInv, Importing, Covered
  <2>3. \A t \in r.snap : t.email # e
    BY <1>1 DEF RunInv
  <2> QED BY <1>1, <1>2, <1>4, <1>7, <1>8, <2>1, <2>2, <2>3 DEF RunInv, Importing
<1> QED BY <1>1, <1>2, <1>4, <1>6, <1>9, MoveKeeps

\* DropGone, which removes only users the listing does not have.
LEMMA DropGoneKeeps ==
  ASSUME Inv, NEW s \in Requests, DropGone(s)
  PROVE  /\ Inv' /\ Evolves(db, db')
         /\ \A u \in db.users : (\A v \in db'.users : v.uid # u.uid) =>
              \A t \in run[s].snap : t.email # u.email
<1> DEFINE r == run[s]
           next == [r EXCEPT !.pc = "users", !.hand = {}]
<1>1. /\ r \in RunState /\ RunInv(r, db) /\ db \in Db /\ Consistent(db)
      /\ left \in Left
  BY Types
<1>2. r.pc = "drop" /\ panel' = panel /\ left' = left /\ Go(s, next)
  BY DEF DropGone
<1>3. PICK h \in r.hand : db' = WithoutUser(db, h.uid)
  BY DEF DropGone
<1>4. db' \in Db /\ Consistent(db') /\ Evolves(db, db')
  BY <1>1, <1>3, WithoutUserKeeps
<1>5. next \in RunState
  BY <1>1 DEF RunState
<1>6. /\ next.pc = "users" /\ next.snap = r.snap /\ next.todo = r.todo /\ next.owed = r.owed
      /\ next.gone = r.gone /\ next.cached = r.cached /\ next.seen = r.seen
  BY <1>1 DEF RunState
<1>7. ASSUME NEW u \in db.users, \A v \in db'.users : v.uid # u.uid, NEW t \in r.snap
      PROVE  t.email # u.email
  <2>1. db'.users = {v \in db.users : v.uid # h.uid}
    BY <1>1, <1>3 DEF WithoutUser, Db
  <2>2. u.uid = h.uid
    BY <1>7, <2>1
  <2>3. u.email = h.email
    BY <1>1, <1>2, <2>2 DEF RunInv, UsersBelow
  <2> QED BY <1>1, <1>2, <2>3 DEF RunInv
<1> HIDE DEF next
<1>8. RunInv(next, db')
  <2>1. Assignments(next) = Assignments(r)
    BY <1>6 DEF Assignments
  <2>2. Covered(next)
    BY <1>1, <1>2, <1>6 DEF RunInv, Importing, Covered
  <2> QED BY <1>1, <1>2, <1>6, <2>1, <2>2 DEF RunInv, Importing
<1> QED BY <1>1, <1>2, <1>4, <1>5, <1>7, <1>8, MoveKeeps

\* FinishImport, ReadRows, ReadGrants: the database is only read.
LEMMA ReadKeeps ==
  ASSUME Inv, NEW s \in Requests, FinishImport(s) \/ ReadRows(s) \/ ReadGrants(s)
  PROVE  Inv' /\ Evolves(db, db')
<1> DEFINE r == run[s]
           goOn == [r EXCEPT !.pc = "read", !.imported = TRUE]
           rows == [r EXCEPT !.pc = "plan", !.cached = db.rows]
<1>1. /\ r \in RunState /\ RunInv(r, db) /\ db \in Db /\ Consistent(db) /\ Evolves(db, db)
      /\ left \in Left
  BY Types
<1>2. panel' = panel /\ left' = left /\ db' = db
  BY DEF FinishImport, ReadRows, ReadGrants
<1>3. SUFFICES ASSUME NEW next, Go(s, next)
               PROVE  next \in {goOn, rows, Ended("done"), Ended("failed")}
                        => next \in RunState /\ RunInv(next, db)
  <2>1. \/ Go(s, goOn) \/ Go(s, rows) \/ Go(s, Ended("done")) \/ Go(s, Ended("failed"))
    BY DEF FinishImport, ReadRows, ReadGrants
  <2>2. PICK next \in {goOn, rows, Ended("done"), Ended("failed")} : Go(s, next)
    BY <2>1
  <2>3. next \in RunState /\ RunInv(next, db)
    BY <1>3, <2>2
  <2> QED BY <1>1, <1>2, <2>2, <2>3, MoveKeeps
<1>4. Ended("done") \in RunState /\ RunInv(Ended("done"), db)
  BY <1>1, StoppedKeeps
<1>5. Ended("failed") \in RunState /\ RunInv(Ended("failed"), db)
  BY <1>1, StoppedKeeps
<1>6. goOn \in RunState /\ rows \in RunState
  BY <1>1 DEF RunState, Db
<1>7. /\ goOn.pc = "read" /\ goOn.gone = r.gone /\ goOn.snap = r.snap
      /\ rows.pc = "plan" /\ rows.gone = r.gone /\ rows.snap = r.snap
  BY <1>1 DEF RunState
<1>8. RunInv(goOn, db) /\ RunInv(rows, db)
  <2> HIDE DEF goOn, rows
  <2> QED BY <1>1, <1>7 DEF RunInv, Importing
<1> QED BY <1>4, <1>5, <1>6, <1>8

\* Every step of a request.
LEMMA StepKeeps ==
  ASSUME Inv, NEW s \in Requests, Step(s) PROVE Inv' /\ Evolves(db, db')
BY FetchKeeps, CacheKeeps, ReadBackKeeps, ClearKeeps, LookUpKeeps, CreateKeeps, FillKeeps,
   StoreKeeps, AssignKeeps, FindGoneKeeps, DropGoneKeeps, ReadKeeps DEF Step, Import

(***************************************************************************)
(* The other steps.                                                        *)
(***************************************************************************)

\* A run with a history flag cleared is a run.
LEMMA FlagTypes ==
  ASSUME NEW r \in RunState
  PROVE  [r EXCEPT !.alone = FALSE] \in RunState /\ [r EXCEPT !.calm = FALSE] \in RunState
<1>1. [r EXCEPT !.alone = FALSE] \in RunState
  BY DEF RunState
<1>2. [r EXCEPT !.calm = FALSE] \in RunState
  BY DEF RunState
<1> QED BY <1>1, <1>2

\* The history flags do not matter to the invariant.
LEMMA FlagKeeps ==
  ASSUME NEW r \in RunState, NEW d, RunInv(r, d), NEW next,
         next \in {r, [r EXCEPT !.alone = FALSE], [r EXCEPT !.calm = FALSE]}
  PROVE  next \in RunState /\ RunInv(next, d)
<1>1. next \in RunState
  BY FlagTypes
<1>2. /\ next.pc = r.pc /\ next.snap = r.snap /\ next.todo = r.todo /\ next.owed = r.owed
      /\ next.gone = r.gone /\ next.cached = r.cached /\ next.seen = r.seen
      /\ next.hand = r.hand
  BY DEF RunState
<1>3. Assignments(next) = Assignments(r) /\ (Covered(r) => Covered(next))
  BY <1>2 DEF Assignments, Covered
<1> QED BY <1>1, <1>2, <1>3 DEF RunInv

\* Nothing in hand: a run that has not started, or has just.
LEMMA FreshKeeps ==
  ASSUME NEW d, NEW b \in SUBSET Emails, NEW sync \in BOOLEAN, NEW alone \in BOOLEAN
  PROVE  /\ Idle \in RunState /\ RunInv(Idle, d)
         /\ LET next == [Idle EXCEPT !.pc = "fetch", !.sync = sync, !.before = b,
                                     !.alone = alone]
            IN next \in RunState /\ RunInv(next, d)
<1> DEFINE next == [Idle EXCEPT !.pc = "fetch", !.sync = sync, !.before = b, !.alone = alone]
<1>1. Idle \in RunState
  BY DEF Idle, RunState
<1>2. next \in RunState
  BY DEF Idle, RunState
<1>3. Idle.pc = "idle" /\ Idle.gone = {} /\ next.pc = "fetch" /\ next.gone = {}
  BY DEF Idle
<1>4. RunInv(Idle, d) /\ RunInv(next, d)
  <2> HIDE DEF next
  <2> QED BY <1>3 DEF RunInv, Importing
<1> QED BY <1>1, <1>2, <1>4

\* The runs go on with other history flags.
LEMMA FlagsKeep ==
  ASSUME Inv, panel' \in PanelChoices, db' \in Db, Consistent(db'), Evolves(db, db'),
         left' \in Left,
         run' \in [Requests -> RunState],
         \A t \in Requests :
           run'[t] \in {run[t], [run[t] EXCEPT !.alone = FALSE], [run[t] EXCEPT !.calm = FALSE]}
  PROVE  Inv' /\ Evolves(db, db')
<1>1. ASSUME NEW t \in Requests PROVE RunInv(run'[t], db')
  <2>1. run[t] \in RunState /\ RunInv(run[t], db) /\ db \in Db
    BY Types
  <2>2. RunInv(run[t], db')
    BY <2>1, RunFrame
  <2> QED BY <2>1, <2>2, FlagKeeps
<1> QED BY <1>1 DEF Inv, TypeOK

\* Begin and BeginBlind
LEMMA ArriveKeeps ==
  ASSUME Inv, NEW s \in Requests, NEW emails \in SUBSET Emails, Arrive(s, emails),
         left' \in Left
  PROVE  Inv' /\ Evolves(db, db')
<1>1. /\ db \in Db /\ Consistent(db) /\ Evolves(db, db) /\ db' = db /\ panel' = panel
      /\ panel \in PanelChoices
  BY Types DEF Arrive, Inv, TypeOK
<1> DEFINE alone == \A u \in Requests \ {s} : ~Active(run[u])
<1>2. PICK sync \in BOOLEAN :
        run' = [t \in Requests |->
          IF t = s
          THEN [Idle EXCEPT !.pc = "fetch", !.sync = sync, !.before = emails, !.alone = alone]
          ELSE IF Active(run[t]) THEN [run[t] EXCEPT !.alone = FALSE] ELSE run[t]]
  BY DEF Arrive
<1>3. emails \in SUBSET Emails /\ alone \in BOOLEAN
  OBVIOUS
<1> HIDE DEF alone
<1>4. ASSUME NEW t \in Requests PROVE run'[t] \in RunState /\ RunInv(run'[t], db)
  <2>1. CASE t = s
    <3>1. run'[t] = [Idle EXCEPT !.pc = "fetch", !.sync = sync, !.before = emails,
                                 !.alone = alone]
      BY <1>2, <2>1
    <3>2. LET next == [Idle EXCEPT !.pc = "fetch", !.sync = sync, !.before = emails,
                                   !.alone = alone]
          IN next \in RunState /\ RunInv(next, db)
      BY <1>3, FreshKeeps
    <3> QED BY ONLY <3>1, <3>2
  <2>2. CASE t # s
    <3>1. run'[t] \in {run[t], [run[t] EXCEPT !.alone = FALSE], [run[t] EXCEPT !.calm = FALSE]}
      BY <1>2, <2>2
    <3>2. run[t] \in RunState /\ RunInv(run[t], db)
      BY Types
    <3> QED BY <3>1, <3>2, FlagKeeps
  <2> QED BY <2>1, <2>2
<1>5. run' \in [Requests -> RunState]
  <2>1. run' = [t \in Requests |-> run'[t]]
    BY <1>2
  <2> QED BY <1>4, <2>1
<1> QED BY <1>1, <1>4, <1>5 DEF Inv, TypeOK

\* What the two ways to begin have in common.
LEMMA Arrivals ==
  ASSUME Inv, NEW s \in Requests, Begin(s) \/ BeginBlind(s)
  PROVE  \E emails \in SUBSET Emails : Arrive(s, emails)
<1>1. CASE Begin(s)
  <2> DEFINE emails == {u.email : u \in db.users}
  <2>1. emails \in SUBSET Emails
    BY DEF Inv, TypeOK, Db, User
  <2>2. Arrive(s, emails)
    BY <1>1 DEF Begin
  <2> HIDE DEF emails
  <2> QED BY <2>1, <2>2
<1>2. CASE BeginBlind(s)
  <2>1. {} \in SUBSET Emails /\ Arrive(s, {})
    BY <1>2 DEF BeginBlind
  <2> QED BY <2>1
<1> QED BY <1>1, <1>2

\* A statement fails: one slip fewer.
LEMMA SlipTypes ==
  ASSUME Inv, Slip
  PROVE  left' \in Left /\ left'.slips # left.slips
<1>1. left \in Left
  BY DEF Inv, TypeOK
<1>2. left' = [left EXCEPT !.slips = @ - 1] /\ left.slips > 0
  BY DEF Slip
<1> QED BY <1>1, <1>2 DEF Left

LEMMA BeginKeeps ==
  ASSUME Inv, NEW s \in Requests, Begin(s) \/ BeginBlind(s) PROVE Inv' /\ Evolves(db, db')
<1>1. PICK emails \in SUBSET Emails : Arrive(s, emails)
  BY Arrivals
<1>2. left' \in Left
  BY Types, SlipTypes DEF Begin, BeginBlind
<1> QED BY <1>1, <1>2, ArriveKeeps

\* StatementFails
LEMMA StatementFailsKeeps ==
  ASSUME Inv, NEW s \in Requests, StatementFails(s) PROVE Inv' /\ Evolves(db, db')
<1> DEFINE r == run[s]
<1>1. r \in RunState /\ RunInv(r, db) /\ db \in Db /\ Consistent(db) /\ Evolves(db, db)
  BY Types
<1>2. panel' = panel /\ db' = db /\ left' \in Left
  BY SlipTypes DEF StatementFails
<1>3. PICK next \in {Abort(r), Ended("failed")} : Go(s, next)
  BY DEF StatementFails
<1>4. next \in RunState /\ RunInv(next, db)
  BY <1>1, <1>3, StoppedKeeps
<1> QED BY <1>1, <1>2, <1>3, <1>4, MoveKeeps

\* LookUpFails
LEMMA LookUpFailsKeeps ==
  ASSUME Inv, NEW s \in Requests, LookUpFails(s) PROVE Inv' /\ Evolves(db, db')
<1> DEFINE r == run[s]
<1>1. r \in RunState /\ RunInv(r, db) /\ db \in Db /\ Consistent(db) /\ Evolves(db, db)
  BY Types
<1>2. r.pc = "users" /\ panel' = panel /\ db' = db /\ left' \in Left
  BY SlipTypes DEF LookUpFails
<1>3. PICK t \in r.todo :
        Go(s, [r EXCEPT !.todo = @ \ {t}, !.pc = "create",
                        !.hand = {[uid |-> 0, email |-> t.email, cred |-> t.cred,
                                   pref |-> NoPref]}])
  BY DEF LookUpFails
<1> DEFINE h    == [uid |-> 0, email |-> t.email, cred |-> t.cred, pref |-> NoPref]
           next == [r EXCEPT !.pc = "create", !.hand = {h}, !.todo = @ \ {t}]
<1>4. h \in User /\ h.email = t.email
  BY <1>1 DEF RunState, Todo, User, Pref
<1>5. Go(s, next)
  <2>1. next = [r EXCEPT !.todo = @ \ {t}, !.pc = "create", !.hand = {h}]
    BY <1>1 DEF RunState
  <2> QED BY <1>3, <2>1
<1> HIDE DEF h
<1>6. next \in RunState /\ RunInv(next, db)
  <2> HIDE DEF r
  <2> QED BY <1>1, <1>2, <1>4, HeldKeeps
<1> QED BY <1>1, <1>2, <1>5, <1>6, MoveKeeps

\* FillFails
LEMMA FillFailsKeeps ==
  ASSUME Inv, NEW s \in Requests, FillFails(s) PROVE Inv' /\ Evolves(db, db')
<1> DEFINE r == run[s]
           next == [r EXCEPT !.pc = "store"]
<1>1. r \in RunState /\ RunInv(r, db) /\ db \in Db /\ Consistent(db) /\ Evolves(db, db)
  BY Types
<1>2. r.pc = "fill" /\ panel' = panel /\ db' = db /\ left' \in Left /\ Go(s, next)
  BY SlipTypes DEF FillFails
<1>3. next \in RunState
  BY <1>1 DEF RunState
<1>4. /\ next.pc = "store" /\ next.snap = r.snap /\ next.todo = r.todo /\ next.owed = r.owed
      /\ next.gone = r.gone /\ next.cached = r.cached /\ next.seen = r.seen
      /\ next.hand = r.hand
  BY <1>1 DEF RunState
<1> HIDE DEF next, r
<1>5. Assignments(next) = Assignments(r) /\ (Covered(r) => Covered(next))
  BY <1>2, <1>4 DEF Assignments, Covered
<1>6. RunInv(next, db)
  BY <1>1, <1>2, <1>4, <1>5 DEF RunInv, Importing
<1> QED BY <1>1, <1>2, <1>3, <1>6, MoveKeeps

\* AssignFails
LEMMA AssignFailsKeeps ==
  ASSUME Inv, NEW s \in Requests, AssignFails(s) PROVE Inv' /\ Evolves(db, db')
<1> DEFINE r == run[s]
<1>1. r \in RunState /\ RunInv(r, db) /\ db \in Db /\ Consistent(db) /\ Evolves(db, db)
  BY Types
<1>2. r.pc = "users" /\ panel' = panel /\ db' = db /\ left' \in Left
  BY SlipTypes DEF AssignFails
<1>3. PICK o \in r.owed : Go(s, [r EXCEPT !.owed = @ \ {o}, !.whole = FALSE])
  BY DEF AssignFails
<1> DEFINE next == [r EXCEPT !.owed = @ \ {o}, !.whole = FALSE]
<1>4. next \in RunState /\ Go(s, next)
  BY <1>1, <1>3 DEF RunState
<1>5. /\ next.pc = "users" /\ next.snap = r.snap /\ next.todo = r.todo
      /\ next.owed = r.owed \ {o} /\ next.gone = r.gone /\ next.cached = r.cached
      /\ next.seen = r.seen /\ next.hand = r.hand
  BY <1>1, <1>2 DEF RunState
<1> HIDE DEF next, r
<1>6. Assignments(next) = Assignments(r) /\ (Covered(r) => Covered(next))
  BY <1>2, <1>5 DEF Assignments, Covered
<1>7. RunInv(next, db)
  BY <1>1, <1>2, <1>5, <1>6 DEF RunInv, Importing
<1> QED BY <1>1, <1>2, <1>4, <1>7, MoveKeeps

\* FindGoneFails and DropGoneFails: a user that is not listed stays.
LEMMA StaysKeeps ==
  ASSUME Inv, NEW s \in Requests, FindGoneFails(s) \/ DropGoneFails(s)
  PROVE  Inv' /\ Evolves(db, db')
<1> DEFINE r == run[s]
<1>1. r \in RunState /\ RunInv(r, db) /\ db \in Db /\ Consistent(db) /\ Evolves(db, db)
  BY Types
<1>2. r.pc \in {"users", "drop"} /\ panel' = panel /\ db' = db /\ left' \in Left
  BY SlipTypes DEF FindGoneFails, DropGoneFails
<1>3. \/ \E e \in r.gone : Go(s, [r EXCEPT !.gone = @ \ {e}])
      \/ Go(s, [r EXCEPT !.pc = "users", !.hand = {}])
  BY DEF FindGoneFails, DropGoneFails
<1>4. PICK next \in RunState :
        /\ Go(s, next) /\ next.pc \in {r.pc, "users"} /\ next.snap = r.snap
        /\ next.todo = r.todo /\ next.owed = r.owed /\ next.gone \subseteq r.gone
        /\ next.cached = r.cached /\ next.seen = r.seen /\ next.hand \subseteq r.hand
  <2>1. CASE Go(s, [r EXCEPT !.pc = "users", !.hand = {}])
    <3> DEFINE next == [r EXCEPT !.pc = "users", !.hand = {}]
    <3>1. /\ next \in RunState /\ next.pc = "users" /\ next.snap = r.snap
          /\ next.todo = r.todo /\ next.owed = r.owed /\ next.gone \subseteq r.gone
          /\ next.cached = r.cached /\ next.seen = r.seen /\ next.hand \subseteq r.hand
      BY <1>1 DEF RunState
    <3> HIDE DEF next
    <3> QED BY <2>1, <3>1 DEF next
  <2>2. ASSUME NEW e \in r.gone, Go(s, [r EXCEPT !.gone = @ \ {e}])
        PROVE  \E n \in RunState :
                 /\ Go(s, n) /\ n.pc \in {r.pc, "users"} /\ n.snap = r.snap
                 /\ n.todo = r.todo /\ n.owed = r.owed /\ n.gone \subseteq r.gone
                 /\ n.cached = r.cached /\ n.seen = r.seen /\ n.hand \subseteq r.hand
    <3> DEFINE next == [r EXCEPT !.gone = @ \ {e}]
    <3>1. /\ next \in RunState /\ next.pc = r.pc /\ next.snap = r.snap
          /\ next.todo = r.todo /\ next.owed = r.owed /\ next.gone \subseteq r.gone
          /\ next.cached = r.cached /\ next.seen = r.seen /\ next.hand \subseteq r.hand
      BY <1>1 DEF RunState
    <3>2. Go(s, next)
      BY <2>2
    <3> HIDE DEF next
    <3> QED BY <3>1, <3>2
  <2> QED BY <1>3, <2>1, <2>2
<1> HIDE DEF r
<1>5. Assignments(next) = Assignments(r)
  BY <1>4 DEF Assignments
<1>6. Covered(next)
  BY <1>1, <1>2, <1>4 DEF RunInv, Importing, Covered
<1>7. RunInv(next, db)
  BY <1>1, <1>2, <1>4, <1>5, <1>6 DEF RunInv, Importing
<1> QED BY <1>1, <1>2, <1>4, <1>7, MoveKeeps DEF r

\* Every statement that fails.
LEMMA FailsKeeps ==
  ASSUME Inv, NEW s \in Requests, Fails(s) PROVE Inv' /\ Evolves(db, db')
BY StatementFailsKeeps, LookUpFailsKeeps, FillFailsKeeps, AssignFailsKeeps, StaysKeeps DEF Fails

\* PanelChanges
LEMMA PanelChangesKeeps ==
  ASSUME Inv, PanelChanges PROVE Inv' /\ Evolves(db, db')
<1>1. db \in Db /\ Consistent(db) /\ left \in Left
      /\ run \in [Requests -> RunState]
  BY DEF Inv, TypeOK
<1>2. db' = db /\ run' = run /\ panel' \in PanelChoices
  BY DEF PanelChanges
<1>3. left' \in Left
  BY <1>1 DEF PanelChanges, Left
<1>4. Evolves(db, db')
  BY <1>1, <1>2, EvolvesSame
<1> QED BY <1>1, <1>2, <1>3, <1>4, FlagsKeep

\* DeleteUser
LEMMA DeleteUserKeeps ==
  ASSUME Inv, DeleteUser PROVE Inv' /\ Evolves(db, db')
<1>1. db \in Db /\ Consistent(db) /\ left \in Left
      /\ run \in [Requests -> RunState] /\ panel \in PanelChoices
  BY DEF Inv, TypeOK
<1>2. panel' = panel
  BY DEF DeleteUser
<1>3. left' \in Left
  BY <1>1 DEF DeleteUser, Left
<1>4. PICK u \in db.users : db' = WithoutUser(db, u.uid)
  BY DEF DeleteUser
<1>5. db' \in Db /\ Consistent(db') /\ Evolves(db, db')
  BY <1>1, <1>4, WithoutUserKeeps
<1>6. run' = [t \in Requests |-> IF Active(run[t]) THEN [run[t] EXCEPT !.alone = FALSE]
                                 ELSE run[t]]
  BY DEF DeleteUser
<1>7. run' \in [Requests -> RunState]
  BY <1>1, <1>6, FlagTypes
<1>8. \A t \in Requests :
        run'[t] \in {run[t], [run[t] EXCEPT !.alone = FALSE], [run[t] EXCEPT !.calm = FALSE]}
  BY <1>6
<1> QED BY <1>1, <1>2, <1>3, <1>5, <1>7, <1>8, FlagsKeep

\* SavePolicy
LEMMA SavePolicyKeeps ==
  ASSUME Inv, SavePolicy PROVE Inv' /\ Evolves(db, db')
<1>1. db \in Db /\ Consistent(db) /\ left \in Left
      /\ run \in [Requests -> RunState] /\ panel \in PanelChoices
  BY DEF Inv, TypeOK
<1>2. panel' = panel
  BY DEF SavePolicy
<1>3. left' \in Left
  BY <1>1 DEF SavePolicy, Left
<1>4. PICK u \in db.users, p \in Prefs :
        db' = [db EXCEPT !.users = {IF v = u THEN [v EXCEPT !.pref = p] ELSE v : v \in @}]
  BY DEF SavePolicy
<1> DEFINE saved(v) == IF v = u THEN [v EXCEPT !.pref = p] ELSE v
           U == {saved(v) : v \in db.users}
<1>5. \A v \in db.users : /\ saved(v) \in User
                          /\ saved(v).uid = v.uid /\ saved(v).email = v.email
  BY <1>1 DEF Db, User, Pref
<1>6. db' = [db EXCEPT !.users = U]
  BY <1>4
<1> HIDE DEF saved
<1>7. U \in SUBSET User
  BY <1>5
<1>8. \A w \in U : \E v \in db.users : w = saved(v)
  OBVIOUS
<1> HIDE DEF U
<1>9. db' \in Db /\ db'.users = U /\ db'.rows = db.rows /\ db'.nextUid = db.nextUid
      /\ db'.nextLocal = db.nextLocal
  BY <1>1, <1>6, <1>7 DEF Db
<1>10. Consistent(db')
  BY <1>1, <1>5, <1>8, <1>9 DEF Consistent
<1>11. Evolves(db, db')
  <2>1. db.nextUid \in Nat
    BY <1>1 DEF Db
  <2> QED BY <1>1, <1>5, <1>8, <1>9, <2>1 DEF Evolves, Consistent
<1>12. run' = [t \in Requests |-> IF Active(run[t]) THEN [run[t] EXCEPT !.calm = FALSE]
                                  ELSE run[t]]
  BY DEF SavePolicy
<1>13. run' \in [Requests -> RunState]
  BY <1>1, <1>12, FlagTypes
<1>14. \A t \in Requests :
        run'[t] \in {run[t], [run[t] EXCEPT !.alone = FALSE], [run[t] EXCEPT !.calm = FALSE]}
  BY <1>12
<1> QED BY <1>1, <1>2, <1>3, <1>9, <1>10, <1>11, <1>13, <1>14, FlagsKeep

\* Restart
LEMMA RestartKeeps ==
  ASSUME Inv, Restart PROVE Inv' /\ Evolves(db, db')
<1>1. db \in Db /\ Consistent(db) /\ left \in Left
      /\ panel \in PanelChoices
  BY DEF Inv, TypeOK
<1>2. db' = db /\ panel' = panel /\ run' = [t \in Requests |-> Idle]
  BY DEF Restart
<1>3. left' \in Left
  BY <1>1 DEF Restart, Left
<1>4. Idle \in RunState /\ RunInv(Idle, db)
  BY FreshKeeps
<1> QED BY <1>1, <1>2, <1>3, <1>4, EvolvesSame DEF Inv, TypeOK

(***************************************************************************)
(* The theorems.                                                           *)
(***************************************************************************)

\* The invariant holds at the start ...
LEMMA InitInv == Init => Inv
<1> SUFFICES ASSUME Init PROVE Inv
  OBVIOUS
<1>1. Idle \in RunState /\ RunInv(Idle, db)
  BY FreshKeeps
<1>2. db \in Db /\ Consistent(db) /\ panel \in PanelChoices
  BY ChoicesAssumption DEF Init
<1>3. left \in Left
  BY BoundsAssumption DEF Init, Left
<1> QED BY <1>1, <1>2, <1>3 DEF Init, Inv, TypeOK

\* ... and every step keeps it, and the identities of the tables.
LEMMA NextKeeps == Inv /\ [Next]_vars => Inv' /\ Evolves(db, db')
<1> SUFFICES ASSUME Inv, [Next]_vars PROVE Inv' /\ Evolves(db, db')
  OBVIOUS
<1>1. CASE UNCHANGED vars
  <2>1. Inv'
    BY <1>1 DEF vars, Inv, TypeOK
  <2>2. db \in Db /\ Consistent(db)
    BY DEF Inv, TypeOK
  <2> QED BY <1>1, <2>1, <2>2, EvolvesSame DEF vars
<1>2. CASE Next
  BY <1>2, BeginKeeps, StepKeeps, FailsKeeps, PanelChangesKeeps, DeleteUserKeeps, SavePolicyKeeps,
     RestartKeeps DEF Next
<1> QED BY <1>1, <1>2

\* The invariant the other theorems come from.
THEOREM Invariant == Spec => []Inv
<1>1. Inv /\ [Next]_vars => Inv'
  BY NextKeeps
<1> QED BY <1>1, InitInv, PTL DEF Spec

\* However imports, synchronisations, policy saves, deletions and restarts interleave,
\* emails, panel inbound ids and local ids stay unique in the tables.
THEOREM TypeCorrect == Spec => []TypeOK
<1>1. Inv => TypeOK
  BY DEF Inv
<1> QED BY <1>1, Invariant, PTL

\* EnsureServerInbounds and whatever runs beside it keep the local id of every inbound.
THEOREM IdsStable == Spec => RowIdsStable
<1>1. Inv /\ [Next]_vars
        => [\A q \in db.rows, x \in db'.rows : q.id = x.id => q.local = x.local]_vars
  BY NextKeeps DEF Evolves
<1> QED BY <1>1, Invariant, PTL DEF Spec, RowIdsStable

\* What the statements that fail have in common: they are of a running request, which
\* goes on, and the tables stay as they are.
LEMMA FailsOnly ==
  ASSUME NEW s \in Requests, Fails(s)
  PROVE  /\ Active(run[s]) /\ db' = db /\ panel' = panel /\ Slip
         /\ \E next : Go(s, next)
BY DEF Fails, StatementFails, LookUpFails, FillFails, AssignFails, FindGoneFails,
   DropGoneFails, Active

\* Only DropGone takes a run out of "drop" and back to its loops, unless the deletion fails.
LEMMA OnlyDropGone ==
  ASSUME Inv, Next, NEW s \in Requests, run[s].pc = "drop", run'[s].pc = "users"
  PROVE  DropGone(s) \/ db' = db
<1>1. run[s] \in RunState
  BY Types
<1>2. ASSUME NEW t \in Requests, t # s, Step(t) PROVE run'[s] = run[s]
  <2>1. \E next : Go(t, next)
    BY <1>2 DEF Step, Import, Fetch, Cache, ReadBack, ClearAssignments, LookUp, Create, Fill,
       Store, Assign, FindGone, DropGone, FinishImport, ReadRows, ReadGrants
  <2> QED BY <1>2, <2>1 DEF Go, Inv, TypeOK
<1>3. ASSUME NEW t \in Requests, Begin(t) \/ BeginBlind(t) PROVE run'[s].pc # "users"
  <2> DEFINE alone == \A u \in Requests \ {t} : ~Active(run[u])
  <2>0. PICK emails \in SUBSET Emails : Arrive(t, emails)
    BY <1>3, Arrivals
  <2>1. PICK sync \in BOOLEAN :
          run' = [u \in Requests |->
            IF u = t
            THEN [Idle EXCEPT !.pc = "fetch", !.sync = sync, !.before = emails, !.alone = alone]
            ELSE IF Active(run[u]) THEN [run[u] EXCEPT !.alone = FALSE] ELSE run[u]]
    BY <2>0 DEF Arrive
  <2> HIDE DEF alone
  <2>2. [run[s] EXCEPT !.alone = FALSE].pc = run[s].pc
    BY <1>1 DEF RunState
  <2>3. [Idle EXCEPT !.pc = "fetch", !.sync = sync, !.before = emails, !.alone = alone].pc = "fetch"
    BY DEF Idle
  <2>4. CASE s = t
    BY <2>1, <2>3, <2>4
  <2>5. CASE s # t
    <3>1. run'[s] \in {run[s], [run[s] EXCEPT !.alone = FALSE]}
      BY <2>1, <2>5
    <3> QED BY <3>1, <2>2
  <2> QED BY <2>4, <2>5
<1>4. ~PanelChanges /\ ~Restart
  BY <1>1 DEF PanelChanges, Restart, Idle
<1>5. ~DeleteUser /\ ~SavePolicy
  <2>1. [run[s] EXCEPT !.alone = FALSE].pc = "drop" /\ [run[s] EXCEPT !.calm = FALSE].pc = "drop"
    BY <1>1 DEF RunState
  <2> QED BY <2>1 DEF DeleteUser, SavePolicy
<1>6. Step(s) \/ db' = db
  BY <1>2, <1>3, <1>4, <1>5, FailsOnly DEF Next
<1> QED BY <1>6 DEF Step, Import, Fetch, Cache, ReadBack, ClearAssignments, LookUp, Create, Fill,
     Store, Assign, FindGone, FinishImport, ReadRows, ReadGrants

\* A user an import deletes had no entry in the listing the import works on.
THEOREM OnlyAbsentGo == Spec => ImportRemovesOnlyAbsent
<1>1. Inv /\ [Next]_vars =>
        [\A s \in Requests : run[s].pc = "drop" /\ run'[s].pc = "users" =>
           \A u \in db.users : (\A v \in db'.users : v.uid # u.uid) =>
             \A t \in run[s].snap : t.email # u.email]_vars
  <2>1. ASSUME Inv, Next, NEW s \in Requests, run[s].pc = "drop", run'[s].pc = "users"
        PROVE  \A u \in db.users : (\A v \in db'.users : v.uid # u.uid) =>
                 \A t \in run[s].snap : t.email # u.email
    BY <2>1, OnlyDropGone, DropGoneKeeps
  <2> QED BY <2>1
<1> QED BY <1>1, Invariant, PTL DEF Spec, ImportRemovesOnlyAbsent

(***************************************************************************)
(* A request that nothing overlaps.                                        *)
(***************************************************************************)
Past(r) == r.pc \in {"read", "plan"} /\ r.imported

\* The rows are those of the listing.
RowsAre(r, rows) ==
  /\ \A q \in rows : q.id \in r.ids /\ q.clients = ClientsAt(r, q.id)
  /\ \A i \in r.ids : HasRow(rows, i)

Known(z, d) == \E u \in d.users : u.uid = z.uid /\ u.email = z.email
Listed(z, r) == \E t \in r.snap : t.email = z.email

\* The users seen are listed and there; every assignment is a user's, and unless one
\* could not be written those that are not to be made yet are there.
Granted(r, d) ==
  /\ r.todo \subseteq r.snap
  /\ r.pc \in {"create", "fill", "store"} => \A h \in r.hand : Listed(h, r)
  /\ \A z \in r.seen : Listed(z, r) /\ Known(z, d)
  /\ \A g \in d.grants : Known(g, d)
  /\ r.whole => \A t \in r.snap :
       \/ [id |-> t.id, email |-> t.email] \in r.owed
       \/ \E g \in d.grants : g.email = t.email /\ g.local = LocalOf(d.rows, t.id)

\* The user in hand is in the table, with the policy it has there.
InTable(r, d) ==
  \A h \in r.hand : \E u \in d.users :
    u.uid = h.uid /\ u.email = h.email /\ (r.calm => u.pref = h.pref)

\* What a request knows of the tables at each point.
Undisturbed(r, d) ==
  /\ r.pc \in {"fetch", "cache", "rows", "clear"} => r.seen = {}
  /\ r.pc \in {"cache", "rows", "clear"} \cup Importing \/ Past(r)
       => \A t \in r.snap : t.id \in r.ids
  /\ r.pc \in {"rows", "clear"} \cup Importing \/ Past(r) => RowsAre(r, d.rows)
  /\ r.pc \in {"clear"} \cup Importing \/ Past(r) => r.cached = d.rows
  /\ r.pc \in Importing \/ Past(r) => Granted(r, d)
  /\ Past(r) => r.owed = {}
  /\ r.pc \in {"fill", "store"} => InTable(r, d)

\* A request flagged alone is the only one, and knows the tables.
AloneInv ==
  \A s \in Requests : run[s].alone /\ Active(run[s]) =>
    (\A t \in Requests \ {s} : ~Active(run[t])) /\ Undisturbed(run[s], db)

LEMMA MoveAlone ==
  ASSUME Inv, AloneInv, NEW s \in Requests, Active(run[s]), NEW next, Go(s, next),
         next.alone /\ Active(next) => run[s].alone,
         run[s].alone => Undisturbed(next, db')
  PROVE  AloneInv'
<1>1. run'[s] = next /\ \A u \in Requests \ {s} : run'[u] = run[u]
  BY DEF Go, Inv, TypeOK
<1>2. ASSUME NEW q \in Requests, run'[q].alone, Active(run'[q])
      PROVE  (\A t \in Requests \ {q} : ~Active(run'[t])) /\ Undisturbed(run'[q], db')
  <2>1. CASE q = s
    BY <1>1, <1>2, <2>1 DEF AloneInv
  <2>2. CASE q # s
    BY <1>1, <1>2, <2>2 DEF AloneInv
  <2> QED BY <2>1, <2>2
<1> QED BY <1>2 DEF AloneInv

\* A run that stops, or goes on without its import, promises nothing.
LEMMA StoppedAlone ==
  ASSUME NEW r \in RunState, NEW d,
         NEW x, x = Abort(r) \/ x = Ended("done") \/ x = Ended("failed")
  PROVE  (x.alone /\ Active(x) => r.alone) /\ Undisturbed(x, d)
<1>1. CASE x = Abort(r) /\ r.sync
  <2>1. x.pc = "read" /\ x.imported = FALSE /\ x.alone = r.alone
    BY <1>1 DEF Abort, Idle
  <2> QED BY <2>1 DEF Undisturbed, Past, Importing
<1>2. CASE x = Ended("done") \/ x = Ended("failed")
  <2>1. x.pc \in {"done", "failed"}
    BY <1>2 DEF Ended, Idle
  <2> QED BY <2>1 DEF Undisturbed, Past, Importing, Active
<1> QED BY <1>1, <1>2 DEF Abort

\* Going round the loops.
LEMMA GrantedKeeps ==
  ASSUME NEW r, NEW d, Granted(r, d), NEW n, NEW e,
         n.snap = r.snap, n.todo \subseteq r.todo, n.owed = r.owed, n.whole = r.whole,
         e.grants = d.grants, e.rows = d.rows,
         \A u \in d.users : Known(u, e),
         \A z \in n.seen : z \in r.seen \/ (Listed(z, r) /\ Known(z, e)),
         n.pc \in {"create", "fill", "store"} => \A h \in n.hand : Listed(h, r)
  PROVE  Granted(n, e)
<1>1. ASSUME NEW z, Known(z, d) PROVE Known(z, e)
  BY <1>1 DEF Known
<1>2. \A z : Listed(z, n) <=> Listed(z, r)
  BY DEF Listed
<1> QED BY <1>1, <1>2 DEF Granted

LEMMA LoopUndisturbed ==
  ASSUME NEW r, NEW d, Undisturbed(r, d), r.pc \in Importing,
         NEW n, NEW e, n.pc \in Importing,
         n.snap = r.snap, n.ids = r.ids, n.cached = r.cached, e.rows = d.rows,
         Granted(n, e), n.pc \in {"fill", "store"} => InTable(n, e)
  PROVE  Undisturbed(n, e)
<1>1. \A i : ClientsAt(n, i) = ClientsAt(r, i)
  BY DEF ClientsAt
<1>2. RowsAre(n, e.rows)
  BY <1>1 DEF Undisturbed, RowsAre
<1>3. n.pc \notin {"fetch", "cache", "rows", "clear", "read", "plan"}
  BY DEF Importing
<1> QED BY <1>2, <1>3 DEF Undisturbed, Past

(***************************************************************************)
(* Its steps.                                                              *)
(***************************************************************************)
LEMMA FetchAlone ==
  ASSUME Inv, AloneInv, NEW s \in Requests, Fetch(s) PROVE AloneInv'
<1> DEFINE r == run[s]
           next == [r EXCEPT !.pc = "cache", !.snap = SnapOf(panel), !.ids = DOMAIN panel]
<1>1. r \in RunState /\ r.pc = "fetch" /\ Active(r)
  BY Types DEF Fetch, Active
<1>2. CASE Go(s, Abort(r))
  <2>1. (Abort(r).alone /\ Active(Abort(r)) => r.alone) /\ Undisturbed(Abort(r), db')
    BY <1>1, StoppedAlone
  <2> QED BY <1>1, <1>2, <2>1, MoveAlone
<1>3. CASE Go(s, next)
  <2>1. /\ next.pc = "cache" /\ next.snap = SnapOf(panel) /\ next.ids = DOMAIN panel
        /\ next.alone = r.alone /\ next.seen = r.seen
    BY <1>1 DEF RunState
  <2>2. r.alone => r.seen = {}
    BY <1>1 DEF AloneInv, Undisturbed
  <2>3. \A t \in SnapOf(panel) : t.id \in DOMAIN panel
    BY DEF SnapOf
  <2> HIDE DEF next
  <2>4. r.alone => Undisturbed(next, db')
    BY <2>1, <2>2, <2>3 DEF Undisturbed, Past, Importing
  <2> QED BY <1>1, <1>3, <2>1, <2>4, MoveAlone
<1> QED BY <1>2, <1>3 DEF Fetch

\* EnsureServerInbounds leaves the rows of the listing.
LEMMA EnsureRows ==
  ASSUME NEW r \in RunState, NEW d \in Db
  PROVE  RowsAre(r, EnsureServerInbounds(r, d).rows)
<1>1. EnsureServerInbounds(r, d).rows = KeptRows(r, d) \cup NewRows(r, d)
  BY DEF EnsureServerInbounds, Db
<1>2. \A q \in KeptRows(r, d) : q.id \in r.ids /\ q.clients = ClientsAt(r, q.id)
  <2>1. SUFFICES ASSUME NEW x \in d.rows, x.id \in r.ids
                 PROVE  LET q == [x EXCEPT !.clients = ClientsAt(r, x.id)]
                        IN q.id \in r.ids /\ q.clients = ClientsAt(r, q.id)
    BY DEF KeptRows
  <2>2. x \in Row
    BY DEF Db
  <2> QED BY <2>1, <2>2 DEF Row
<1>3. \A q \in NewRows(r, d) : q.id \in r.ids /\ q.clients = ClientsAt(r, q.id)
  <2>1. NewIds(r, d) \subseteq r.ids
    BY DEF NewIds
  <2> QED BY <2>1 DEF NewRows
<1>4. ASSUME NEW i \in r.ids PROVE \E q \in KeptRows(r, d) \cup NewRows(r, d) : q.id = i
  <2>1. CASE \E x \in d.rows : x.id = i
    <3>1. PICK x \in d.rows : x.id = i
      BY <2>1
    <3>2. [x EXCEPT !.clients = ClientsAt(r, x.id)] \in KeptRows(r, d)
      BY <1>4, <3>1 DEF KeptRows
    <3>3. [x EXCEPT !.clients = ClientsAt(r, x.id)].id = i
      BY <3>1 DEF Db, Row
    <3> QED BY <3>2, <3>3
  <2>2. CASE \A x \in d.rows : x.id # i
    <3>1. i \in NewIds(r, d)
      BY <2>2, <1>4 DEF NewIds
    <3> DEFINE new == [local |-> d.nextLocal + Rank(NewIds(r, d), i), id |-> i,
                       clients |-> ClientsAt(r, i)]
    <3>2. new \in NewRows(r, d) /\ new.id = i
      BY <3>1 DEF NewRows
    <3> HIDE DEF new
    <3> QED BY <3>2
  <2> QED BY <2>1, <2>2
<1> QED BY <1>1, <1>2, <1>3, <1>4 DEF RowsAre, HasRow

LEMMA CacheAlone ==
  ASSUME Inv, AloneInv, NEW s \in Requests, Cache(s) PROVE AloneInv'
<1> DEFINE r == run[s]
           next == [r EXCEPT !.pc = "rows"]
<1>1. r \in RunState /\ r.pc = "cache" /\ Active(r) /\ db \in Db
  BY Types DEF Cache, Active
<1>2. Go(s, next) /\ db' = EnsureServerInbounds(r, db)
  BY DEF Cache
<1>3. /\ next.pc = "rows" /\ next.snap = r.snap /\ next.ids = r.ids /\ next.seen = r.seen
      /\ next.alone = r.alone
  BY <1>1 DEF RunState
<1> HIDE DEF next
<1>4. RowsAre(next, db'.rows)
  <2>1. RowsAre(r, db'.rows)
    BY <1>1, <1>2, EnsureRows
  <2>2. \A i : ClientsAt(next, i) = ClientsAt(r, i)
    BY <1>3 DEF ClientsAt
  <2> QED BY <1>3, <2>1, <2>2 DEF RowsAre
<1>5. ASSUME r.alone PROVE Undisturbed(next, db')
  <2>1. Undisturbed(r, db)
    BY <1>1, <1>5 DEF AloneInv
  <2> QED BY <1>1, <1>3, <1>4, <2>1 DEF Undisturbed, Past, Importing
<1> QED BY <1>1, <1>2, <1>3, <1>5, MoveAlone

LEMMA ReadBackAlone ==
  ASSUME Inv, AloneInv, NEW s \in Requests, ReadBack(s) PROVE AloneInv'
<1> DEFINE r == run[s]
           next == [r EXCEPT !.pc = "clear", !.cached = db.rows]
<1>1. r \in RunState /\ r.pc = "rows" /\ Active(r)
  BY Types DEF ReadBack, Active
<1>2. Go(s, next) /\ db' = db
  BY DEF ReadBack
<1>3. /\ next.pc = "clear" /\ next.snap = r.snap /\ next.ids = r.ids /\ next.seen = r.seen
      /\ next.alone = r.alone /\ next.cached = db.rows
  BY <1>1 DEF RunState
<1> HIDE DEF next
<1>4. ASSUME r.alone PROVE Undisturbed(next, db')
  <2>1. Undisturbed(r, db)
    BY <1>1, <1>4 DEF AloneInv
  <2>2. \A i : ClientsAt(next, i) = ClientsAt(r, i)
    BY <1>3 DEF ClientsAt
  <2> QED BY <1>1, <1>2, <1>3, <2>1, <2>2 DEF Undisturbed, RowsAre, Past, Importing
<1> QED BY <1>1, <1>2, <1>3, <1>4, MoveAlone

LEMMA ClearAlone ==
  ASSUME Inv, AloneInv, NEW s \in Requests, ClearAssignments(s) PROVE AloneInv'
<1> DEFINE r == run[s]
           gone == r.before \ {t.email : t \in r.snap}
           next == [r EXCEPT !.pc = "users", !.todo = r.snap, !.owed = Assignments(r),
                             !.gone = gone]
<1>1. r \in RunState /\ r.pc = "clear" /\ Active(r) /\ db \in Db
  BY Types DEF ClearAssignments, Active
<1>2. Go(s, next) /\ db'.rows = db.rows /\ db'.grants = {} /\ db'.users = db.users
  BY <1>1 DEF ClearAssignments, Db
<1>3. /\ next.pc = "users" /\ next.snap = r.snap /\ next.ids = r.ids /\ next.seen = r.seen
      /\ next.alone = r.alone /\ next.cached = r.cached /\ next.todo = r.snap
      /\ next.owed = Assignments(r)
  BY <1>1 DEF RunState
<1> HIDE DEF next
<1>4. ASSUME r.alone PROVE Undisturbed(next, db')
  <2>1. Undisturbed(r, db)
    BY <1>1, <1>4 DEF AloneInv
  <2>2. /\ r.seen = {} /\ RowsAre(r, db.rows) /\ r.cached = db.rows
        /\ \A t \in r.snap : t.id \in r.ids
    BY <1>1, <2>1 DEF Undisturbed
  <2>3. ASSUME NEW t \in r.snap PROVE [id |-> t.id, email |-> t.email] \in Assignments(r)
    <3>1. [id |-> t.id, email |-> t.email] \in Owed
      BY <1>1 DEF RunState, Todo, Owed
    <3>2. HasRow(r.cached, t.id)
      BY <2>2 DEF RowsAre
    <3> QED BY <3>1, <3>2 DEF Assignments
  <2>4. Granted(next, db')
    BY <1>2, <1>3, <2>2, <2>3 DEF Granted
  <2>5. \A i : ClientsAt(next, i) = ClientsAt(r, i)
    BY <1>3 DEF ClientsAt
  <2>6. RowsAre(next, db'.rows)
    BY <1>2, <1>3, <2>2, <2>5 DEF RowsAre
  <2> QED BY <1>2, <1>3, <2>2, <2>4, <2>6 DEF Undisturbed, Past, Importing
<1> QED BY <1>1, <1>2, <1>3, <1>4, MoveAlone

\* What a request in its loops knows while it is alone.
LEMMA LoopFacts ==
  ASSUME Inv, AloneInv, NEW s \in Requests, run[s].alone, run[s].pc \in Importing
  PROVE  /\ Undisturbed(run[s], db) /\ Granted(run[s], db)
         /\ run[s].cached = db.rows /\ RowsAre(run[s], db.rows)
<1>1. Active(run[s])
  BY DEF Importing, Active
<1> QED BY <1>1 DEF AloneInv, Undisturbed

LEMMA LookUpAlone ==
  ASSUME Inv, AloneInv, NEW s \in Requests, LookUp(s) PROVE AloneInv'
<1> DEFINE r == run[s]
<1>1. r \in RunState /\ r.pc = "users" /\ Active(r) /\ r.pc \in Importing
      /\ db \in Db /\ Consistent(db) /\ db' = db
  BY Types DEF LookUp, Active, Importing
<1>2. PICK t \in r.todo :
        LET rest == [r EXCEPT !.todo = @ \ {t}]
            new  == [uid |-> 0, email |-> t.email, cred |-> t.cred, pref |-> NoPref]
        IN \/ Go(s, [rest EXCEPT !.pc = "create", !.hand = {new}])
           \/ \E u \in ByEmail(db, t.email) :
                Go(s, IF u.cred = t.cred
                      THEN [rest EXCEPT !.seen = See(@, t.email, u.uid)]
                      ELSE [rest EXCEPT !.pc = "fill", !.hand = {[u EXCEPT !.cred = t.cred]}])
  BY DEF LookUp
<1>3. r.alone => t \in r.snap
  BY <1>1, LoopFacts DEF Granted
<1>4. \A u \in db.users : Known(u, db)
  BY DEF Known
<1>5. ASSUME NEW next, Go(s, next), next.alone = r.alone, next.pc \in Importing,
             next.snap = r.snap, next.ids = r.ids, next.cached = r.cached, next.owed = r.owed,
             next.whole = r.whole,
             next.todo \subseteq r.todo,
             \A z \in next.seen : z \in r.seen \/ (z.email = t.email /\ Known(z, db)),
             next.pc \in {"create", "fill", "store"} => \A h \in next.hand : h.email = t.email,
             next.pc \in {"fill", "store"} => InTable(next, db)
      PROVE  AloneInv'
  <2>1. ASSUME r.alone PROVE Undisturbed(next, db')
    <3>1. \A z : z.email = t.email => Listed(z, r)
      BY <2>1, <1>3 DEF Listed
    <3>2. Undisturbed(r, db) /\ Granted(r, db)
      BY <1>1, <2>1, LoopFacts
    <3> HIDE DEF r
    <3>3. Granted(next, db')
      BY <1>1, <1>4, <1>5, <3>1, <3>2, GrantedKeeps
    <3> QED BY <1>1, <1>5, <3>2, <3>3, LoopUndisturbed
  <2> QED BY <1>1, <1>5, <2>1, MoveAlone
<1>6. CASE Go(s, [[r EXCEPT !.todo = @ \ {t}] EXCEPT !.pc = "create",
                   !.hand = {[uid |-> 0, email |-> t.email, cred |-> t.cred, pref |-> NoPref]}])
  <2> DEFINE h == [uid |-> 0, email |-> t.email, cred |-> t.cred, pref |-> NoPref]
             next == [[r EXCEPT !.todo = @ \ {t}] EXCEPT !.pc = "create", !.hand = {h}]
  <2>1. h.email = t.email /\ Go(s, next)
    BY <1>6
  <2> HIDE DEF h
  <2>2. /\ next.pc = "create" /\ next.hand = {h} /\ next.alone = r.alone /\ next.snap = r.snap
        /\ next.whole = r.whole
        /\ next.ids = r.ids /\ next.cached = r.cached /\ next.owed = r.owed
        /\ next.todo \subseteq r.todo /\ next.seen = r.seen
    BY <1>1 DEF RunState
  <2> HIDE DEF next, r
  <2>3. next.pc \in Importing
    BY <2>2 DEF Importing
  <2> QED BY <1>5, <2>1, <2>2, <2>3
<1>7. CASE \E u \in ByEmail(db, t.email) :
             Go(s, IF u.cred = t.cred
                   THEN [[r EXCEPT !.todo = @ \ {t}] EXCEPT !.seen = See(@, t.email, u.uid)]
                   ELSE [[r EXCEPT !.todo = @ \ {t}] EXCEPT
                           !.pc = "fill", !.hand = {[u EXCEPT !.cred = t.cred]}])
  <2>1. PICK u \in ByEmail(db, t.email) :
             Go(s, IF u.cred = t.cred
                   THEN [[r EXCEPT !.todo = @ \ {t}] EXCEPT !.seen = See(@, t.email, u.uid)]
                   ELSE [[r EXCEPT !.todo = @ \ {t}] EXCEPT
                           !.pc = "fill", !.hand = {[u EXCEPT !.cred = t.cred]}])
    BY <1>7
  <2>2. u \in db.users /\ u.email = t.email /\ u \in User
    BY <1>1 DEF ByEmail, Db
  <2>3. CASE u.cred = t.cred
    <3> DEFINE next == [[r EXCEPT !.todo = @ \ {t}] EXCEPT !.seen = See(@, t.email, u.uid)]
    <3>1. /\ next.pc = "users" /\ next.alone = r.alone /\ next.snap = r.snap
          /\ next.whole = r.whole
          /\ next.ids = r.ids /\ next.cached = r.cached /\ next.owed = r.owed
          /\ next.todo \subseteq r.todo /\ next.seen = See(r.seen, t.email, u.uid)
      BY <1>1 DEF RunState
    <3>2. Go(s, next)
      BY <2>1, <2>3
    <3> HIDE DEF next
    <3>3. \A z \in next.seen : z \in r.seen \/ (z.email = t.email /\ Known(z, db))
      BY <2>2, <3>1 DEF See, Known
    <3> HIDE DEF r
    <3>4. next.pc \in Importing
      BY <3>1 DEF Importing
    <3> QED BY <1>5, <3>1, <3>2, <3>3, <3>4
  <2>4. CASE u.cred # t.cred
    <3> DEFINE h == [u EXCEPT !.cred = t.cred]
               next == [[r EXCEPT !.todo = @ \ {t}] EXCEPT !.pc = "fill", !.hand = {h}]
    <3>1. h.uid = u.uid /\ h.email = u.email /\ h.pref = u.pref
      BY <2>2 DEF User
    <3>2. Go(s, next)
      BY <2>1, <2>4
    <3> HIDE DEF h
    <3>3. /\ next.pc = "fill" /\ next.hand = {h} /\ next.alone = r.alone /\ next.snap = r.snap
          /\ next.whole = r.whole
          /\ next.ids = r.ids /\ next.cached = r.cached /\ next.owed = r.owed
          /\ next.todo \subseteq r.todo /\ next.seen = r.seen
      BY <1>1 DEF RunState
    <3> HIDE DEF next, r
    <3>4. InTable(next, db)
      BY <2>2, <3>1, <3>3 DEF InTable
    <3>5. next.pc \in Importing
      BY <3>3 DEF Importing
    <3>6. \A g \in next.hand : g.email = t.email
      BY <2>2, <3>1, <3>3
    <3> QED BY <1>5, <3>2, <3>3, <3>4, <3>5, <3>6
  <2> QED BY <2>3, <2>4
<1> QED BY <1>2, <1>6, <1>7

\* A user was stored: the request goes back to its loops.
LEMMA SeenAlone ==
  ASSUME Inv, AloneInv, NEW s \in Requests, run[s].pc \in {"create", "fill", "store"},
         NEW h \in run[s].hand, NEW uid,
         Go(s, [run[s] EXCEPT !.pc = "users", !.hand = {}, !.seen = See(@, h.email, uid)]),
         db'.rows = db.rows, db'.grants = db.grants,
         run[s].alone => \A u \in db.users : Known(u, db'),
         run[s].alone => \E v \in db'.users : v.uid = uid /\ v.email = h.email
  PROVE  AloneInv'
<1> DEFINE r == run[s]
           next == [r EXCEPT !.pc = "users", !.hand = {}, !.seen = See(@, h.email, uid)]
<1>1. r \in RunState /\ Active(r) /\ r.pc \in Importing
  BY Types DEF Importing, Active
<1>2. /\ next.pc = "users" /\ next.alone = r.alone /\ next.snap = r.snap /\ next.todo = r.todo
      /\ next.whole = r.whole
      /\ next.ids = r.ids /\ next.cached = r.cached /\ next.owed = r.owed
      /\ next.seen = See(r.seen, h.email, uid)
  BY <1>1 DEF RunState
<1>3. Go(s, next)
  OBVIOUS
<1> HIDE DEF next
<1>4. ASSUME r.alone PROVE Undisturbed(next, db')
  <2>1. Undisturbed(r, db) /\ Granted(r, db)
    BY <1>1, <1>4, LoopFacts
  <2>2. Listed(h, r)
    BY <2>1 DEF Granted
  <2>3. \A z \in next.seen : z \in r.seen \/ (Listed(z, r) /\ Known(z, db'))
    BY <1>2, <1>4, <2>2 DEF See, Known, Listed
  <2>4. Granted(next, db')
    <3>1. next.todo \subseteq r.todo /\ \A u \in db.users : Known(u, db')
      BY <1>2, <1>4
    <3> HIDE DEF r
    <3> QED BY <1>2, <2>1, <2>3, <3>1, GrantedKeeps
  <2>5. next.pc \in Importing
    BY <1>2 DEF Importing
  <2> HIDE DEF r
  <2> QED BY <1>1, <1>2, <2>1, <2>4, <2>5, LoopUndisturbed
<1> QED BY <1>1, <1>2, <1>3, <1>4, MoveAlone

LEMMA CreateAlone ==
  ASSUME Inv, AloneInv, NEW s \in Requests, Create(s) PROVE AloneInv'
<1> DEFINE r == run[s]
<1>1. r \in RunState /\ r.pc = "create" /\ Active(r) /\ db \in Db
  BY Types DEF Create, Active
<1>2. PICK h \in r.hand :
        \/ /\ db' = [db EXCEPT !.users = @ \cup {[h EXCEPT !.uid = db.nextUid]},
                               !.nextUid = @ + 1]
           /\ Go(s, [r EXCEPT !.pc = "users", !.hand = {},
                              !.seen = See(@, h.email, db.nextUid)])
        \/ Go(s, Abort(r)) /\ db' = db
  BY DEF Create
<1>3. CASE Go(s, Abort(r)) /\ db' = db
  <2>1. (Abort(r).alone /\ Active(Abort(r)) => r.alone) /\ Undisturbed(Abort(r), db')
    BY <1>1, StoppedAlone
  <2> QED BY <1>1, <1>3, <2>1, MoveAlone
<1>4. CASE /\ db' = [db EXCEPT !.users = @ \cup {[h EXCEPT !.uid = db.nextUid]},
                               !.nextUid = @ + 1]
           /\ Go(s, [r EXCEPT !.pc = "users", !.hand = {},
                              !.seen = See(@, h.email, db.nextUid)])
  <2> DEFINE new == [h EXCEPT !.uid = db.nextUid]
  <2>1. new.uid = db.nextUid /\ new.email = h.email
    BY <1>1 DEF RunState, User
  <2>2. db'.users = db.users \cup {new} /\ db'.rows = db.rows /\ db'.grants = db.grants
    BY <1>1, <1>4 DEF Db
  <2> HIDE DEF new
  <2>3. \A u \in db.users : Known(u, db')
    BY <2>2 DEF Known
  <2> QED BY <1>1, <1>4, <2>1, <2>2, <2>3, SeenAlone
<1> QED BY <1>2, <1>3, <1>4

LEMMA FillAlone ==
  ASSUME Inv, AloneInv, NEW s \in Requests, Fill(s) PROVE AloneInv'
<1> DEFINE r == run[s]
           filled(h) == IF h.pref = NoPref
                        THEN [h EXCEPT !.pref = PolicyNow(db, h.uid)] ELSE h
           next == [r EXCEPT !.pc = "store", !.hand = {filled(h) : h \in @}]
<1>1. r \in RunState /\ r.pc = "fill" /\ Active(r) /\ r.pc \in Importing
      /\ db \in Db /\ Consistent(db) /\ db' = db /\ Go(s, next)
  BY Types DEF Fill, Active, Importing
<1>2. \A h \in r.hand :
        /\ filled(h).uid = h.uid /\ filled(h).email = h.email
        /\ filled(h).pref = IF h.pref = NoPref THEN PolicyNow(db, h.uid) ELSE h.pref
  BY <1>1 DEF RunState, User
<1>3. /\ next.pc = "store" /\ next.hand = {filled(h) : h \in r.hand} /\ next.alone = r.alone
      /\ next.snap = r.snap /\ next.ids = r.ids /\ next.cached = r.cached /\ next.owed = r.owed
      /\ next.todo = r.todo /\ next.seen = r.seen /\ next.calm = r.calm
      /\ next.whole = r.whole
  BY <1>1 DEF RunState
<1> HIDE DEF next, filled
<1>4. ASSUME r.alone PROVE Undisturbed(next, db')
  <2>1. Undisturbed(r, db) /\ Granted(r, db)
    BY <1>1, <1>4, LoopFacts
  <2>2. InTable(next, db)
    <3>1. SUFFICES ASSUME NEW h \in r.hand
                   PROVE  \E u \in db.users : /\ u.uid = filled(h).uid /\ u.email = filled(h).email
                                              /\ r.calm => u.pref = filled(h).pref
      BY <1>3 DEF InTable
    <3>2. PICK u \in db.users : u.uid = h.uid /\ u.email = h.email /\ (r.calm => u.pref = h.pref)
      BY <1>1, <2>1 DEF Undisturbed, InTable
    <3>3. PolicyNow(db, h.uid) = u.pref
      <4>1. \E v \in db.users : v.uid = h.uid
        BY <3>2
      <4>2. (CHOOSE v \in db.users : v.uid = h.uid) = u
        BY <1>1, <3>2 DEF Consistent
      <4> QED BY <4>1, <4>2 DEF PolicyNow
    <3> QED BY <1>2, <3>2, <3>3
  <2>3. \A h \in next.hand : Listed(h, r)
    BY <1>1, <1>2, <1>3, <2>1 DEF Granted, Listed
  <2>4. \A u \in db.users : Known(u, db)
    BY DEF Known
  <2>5. next.pc \in Importing
    BY <1>3 DEF Importing
  <2> HIDE DEF r
  <2>6. Granted(next, db')
    BY <1>1, <1>3, <2>1, <2>3, <2>4, GrantedKeeps
  <2> QED BY <1>1, <1>3, <2>1, <2>2, <2>5, <2>6, LoopUndisturbed
<1> QED BY <1>1, <1>3, <1>4, MoveAlone

LEMMA StoreAlone ==
  ASSUME Inv, AloneInv, NEW s \in Requests, Store(s) PROVE AloneInv'
<1> DEFINE r == run[s]
<1>1. r \in RunState /\ r.pc = "store" /\ Active(r) /\ r.pc \in Importing /\ db \in Db
      /\ RunInv(r, db)
  BY Types DEF Store, Active, Importing
<1>2. PICK h \in r.hand :
        /\ db' = [db EXCEPT !.users = {IF u.uid = h.uid THEN h ELSE u : u \in @}]
        /\ Go(s, [r EXCEPT !.pc = "users", !.hand = {}, !.seen = See(@, h.email, h.uid)])
  BY DEF Store
<1>3. /\ db'.users = {IF u.uid = h.uid THEN h ELSE u : u \in db.users}
      /\ db'.rows = db.rows /\ db'.grants = db.grants
  BY <1>1, <1>2 DEF Db
<1>4. \A u \in db.users : Known(u, db')
  <2>1. \A u \in db.users : u.uid = h.uid => u.email = h.email
    BY <1>1 DEF RunInv, UsersBelow
  <2> QED BY <1>3, <2>1 DEF Known
<1>5. r.alone => \E v \in db'.users : v.uid = h.uid /\ v.email = h.email
  <2>1. r.alone => \E u \in db.users : u.uid = h.uid /\ u.email = h.email
    BY <1>1, LoopFacts DEF Undisturbed, InTable
  <2> QED BY <1>3, <2>1
<1> QED BY <1>1, <1>2, <1>3, <1>4, <1>5, SeenAlone

\* CreateAssignment finds no assignment of somebody else in its way.
LEMMA AssignAlone ==
  ASSUME Inv, AloneInv, NEW s \in Requests, Assign(s) PROVE AloneInv'
<1> DEFINE r == run[s]
<1>1. r \in RunState /\ r.pc = "users" /\ r.todo = {} /\ Active(r) /\ r.pc \in Importing
      /\ db \in Db /\ Consistent(db) /\ RunInv(r, db)
  BY Types DEF Assign, Active, Importing
<1>2. PICK o \in r.owed :
        LET g == [uid |-> SeenId(r, o.email), local |-> LocalOf(r.cached, o.id),
                  email |-> o.email]
        IN /\ db' = IF \E z \in db.grants : z.uid = g.uid /\ z.local = g.local THEN db
                    ELSE [db EXCEPT !.grants = @ \cup {g}]
           /\ Go(s, [r EXCEPT !.owed = @ \ {o}])
  BY DEF Assign
<1> DEFINE g == [uid |-> SeenId(r, o.email), local |-> LocalOf(r.cached, o.id),
                 email |-> o.email]
           next == [r EXCEPT !.owed = @ \ {o}]
<1>3. /\ Go(s, next) /\ g.uid = SeenId(r, o.email) /\ g.email = o.email
      /\ g.local = LocalOf(r.cached, o.id)
      /\ db' = IF \E z \in db.grants : z.uid = g.uid /\ z.local = g.local THEN db
               ELSE [db EXCEPT !.grants = @ \cup {g}]
  BY <1>2
<1>4. /\ next.pc = "users" /\ next.alone = r.alone /\ next.snap = r.snap /\ next.todo = r.todo
      /\ next.whole = r.whole
      /\ next.ids = r.ids /\ next.cached = r.cached /\ next.owed = r.owed \ {o}
      /\ next.seen = r.seen
  BY <1>1 DEF RunState
<1> HIDE DEF g, next
<1>5. /\ db'.users = db.users /\ db'.rows = db.rows
      /\ \/ db'.grants = db.grants \cup {g}
         \/ db'.grants = db.grants /\ \E z \in db.grants : z.uid = g.uid /\ z.local = g.local
  BY <1>1, <1>3 DEF Db
<1>6. ASSUME r.alone PROVE Undisturbed(next, db')
  <2>1. Undisturbed(r, db) /\ Granted(r, db) /\ r.cached = db.rows
    BY <1>1, <1>6, LoopFacts
  <2>2. Known(g, db)
    <3>1. o \in Assignments(r) /\ Covered(r)
      BY <1>1 DEF RunInv, Importing
    <3>2. PICK t \in r.snap : t.email = o.email
      BY <3>1 DEF Assignments
    <3>3. \E z \in r.seen : z.email = o.email
      BY <1>1, <3>1, <3>2 DEF Covered
    <3> DEFINE first == CHOOSE z \in r.seen : z.email = o.email
    <3>4. first \in r.seen /\ first.email = o.email /\ SeenId(r, o.email) = first.uid
      BY <3>3 DEF SeenId
    <3> HIDE DEF first
    <3>5. Known(first, db)
      BY <2>1, <3>4 DEF Granted
    <3> QED BY <1>3, <3>4, <3>5 DEF Known
  <2>3. \E z \in db'.grants : z.email = o.email /\ z.local = LocalOf(db.rows, o.id)
    <3>1. CASE db'.grants = db.grants \cup {g}
      BY <1>3, <2>1, <3>1
    <3>2. CASE db'.grants = db.grants /\ \E z \in db.grants : z.uid = g.uid /\ z.local = g.local
      <4>1. PICK z \in db.grants : z.uid = g.uid /\ z.local = g.local
        BY <3>2
      <4>2. PICK u \in db.users : u.uid = z.uid /\ u.email = z.email
        BY <2>1 DEF Granted, Known
      <4>3. PICK v \in db.users : v.uid = g.uid /\ v.email = g.email
        BY <2>2 DEF Known
      <4>4. u = v
        BY <1>1, <4>1, <4>2, <4>3 DEF Consistent
      <4> QED BY <1>3, <2>1, <3>2, <4>1, <4>2, <4>3, <4>4
    <3> QED BY <1>5, <3>1, <3>2
  <2>4. ASSUME r.whole, NEW t \in r.snap
        PROVE  \/ [id |-> t.id, email |-> t.email] \in next.owed
               \/ \E z \in db'.grants : z.email = t.email /\ z.local = LocalOf(db'.rows, t.id)
    <3>1. CASE [id |-> t.id, email |-> t.email] = o
      <4>1. o.id = t.id /\ o.email = t.email
        BY <3>1
      <4> QED BY <1>5, <2>3, <4>1
    <3>2. CASE [id |-> t.id, email |-> t.email] # o
      BY <1>4, <1>5, <2>1, <2>4, <3>2 DEF Granted
    <3> QED BY <3>1, <3>2
  <2>5. \A z : (Listed(z, next) <=> Listed(z, r)) /\ (Known(z, db') <=> Known(z, db))
    BY <1>4, <1>5 DEF Listed, Known
  <2>6. \A z \in db'.grants : Known(z, db')
    BY <1>5, <2>1, <2>2, <2>5 DEF Granted
  <2>7. Granted(next, db')
    BY <1>4, <2>1, <2>4, <2>5, <2>6 DEF Granted
  <2>8. next.pc \in Importing
    BY <1>4 DEF Importing
  <2> HIDE DEF r
  <2> QED BY <1>1, <1>4, <1>5, <2>1, <2>7, <2>8, LoopUndisturbed
<1> QED BY <1>1, <1>3, <1>4, <1>6, MoveAlone

LEMMA FindGoneAlone ==
  ASSUME Inv, AloneInv, NEW s \in Requests, FindGone(s) PROVE AloneInv'
<1> DEFINE r == run[s]
<1>1. r \in RunState /\ r.pc = "users" /\ Active(r) /\ r.pc \in Importing /\ db' = db
  BY Types DEF FindGone, Active, Importing
<1>2. PICK e \in r.gone, how \in {"users", "drop"} :
        Go(s, [r EXCEPT !.gone = @ \ {e}, !.hand = ByEmail(db, e), !.pc = how])
  BY DEF FindGone
<1> DEFINE next == [r EXCEPT !.gone = @ \ {e}, !.hand = ByEmail(db, e), !.pc = how]
<1>3. Go(s, next)
  BY <1>2
<1>4. /\ next.pc = how /\ next.alone = r.alone /\ next.snap = r.snap /\ next.todo = r.todo
      /\ next.whole = r.whole
      /\ next.ids = r.ids /\ next.cached = r.cached /\ next.owed = r.owed
      /\ next.seen = r.seen
  BY <1>1 DEF RunState
<1> HIDE DEF next
<1>5. ASSUME r.alone PROVE Undisturbed(next, db')
  <2>1. Undisturbed(r, db) /\ Granted(r, db)
    BY <1>1, <1>5, LoopFacts
  <2>2. (\A u \in db.users : Known(u, db')) /\ next.todo \subseteq r.todo
    BY <1>1, <1>4 DEF Known
  <2>3. next.pc \in Importing
    BY <1>4 DEF Importing
  <2> HIDE DEF r
  <2>4. Granted(next, db')
    BY <1>1, <1>4, <2>1, <2>2, GrantedKeeps
  <2> QED BY <1>1, <1>4, <2>1, <2>3, <2>4, LoopUndisturbed
<1> QED BY <1>1, <1>3, <1>4, <1>5, MoveAlone

\* The assignments that go with a removed user are not those of a listed one.
LEMMA DropGoneAlone ==
  ASSUME Inv, AloneInv, NEW s \in Requests, DropGone(s) PROVE AloneInv'
<1> DEFINE r == run[s]
           next == [r EXCEPT !.pc = "users", !.hand = {}]
<1>1. r \in RunState /\ r.pc = "drop" /\ Active(r) /\ r.pc \in Importing
      /\ db \in Db /\ Consistent(db) /\ RunInv(r, db)
  BY Types DEF DropGone, Active, Importing
<1>2. PICK h \in r.hand : db' = WithoutUser(db, h.uid) /\ Go(s, next)
  BY DEF DropGone
<1>3. /\ db'.users = {u \in db.users : u.uid # h.uid}
      /\ db'.grants = {g \in db.grants : g.uid # h.uid}
      /\ db'.rows = db.rows
  BY <1>1, <1>2 DEF WithoutUser, Db
<1>4. /\ next.pc = "users" /\ next.alone = r.alone /\ next.snap = r.snap /\ next.todo = r.todo
      /\ next.whole = r.whole
      /\ next.ids = r.ids /\ next.cached = r.cached /\ next.owed = r.owed
      /\ next.seen = r.seen
  BY <1>1 DEF RunState
<1> HIDE DEF next
<1>5. ASSUME r.alone PROVE Undisturbed(next, db')
  <2>1. Undisturbed(r, db) /\ Granted(r, db)
    BY <1>1, <1>5, LoopFacts
  <2>2. ~Listed(h, r) /\ \A u \in db.users : u.uid = h.uid => u.email = h.email
    BY <1>1 DEF RunInv, UsersBelow, Listed
  <2>3. ASSUME NEW z, Known(z, db), z.uid # h.uid PROVE Known(z, db')
    BY <1>3, <2>3 DEF Known
  <2>4. ASSUME NEW z, Known(z, db), Listed(z, r) PROVE z.uid # h.uid
    BY <2>2, <2>4 DEF Known, Listed
  <2>5. \A z \in next.seen : Listed(z, next) /\ Known(z, db')
    BY <1>4, <2>1, <2>3, <2>4 DEF Granted, Listed
  <2>6. \A g \in db'.grants : Known(g, db')
    BY <1>3, <2>1, <2>3 DEF Granted
  <2>7. ASSUME NEW t \in r.snap, NEW g \in db.grants, g.email = t.email
        PROVE  g \in db'.grants
    <3>1. Known(g, db) /\ Listed(g, r)
      BY <2>1, <2>7 DEF Granted, Listed
    <3> QED BY <1>3, <2>4, <3>1
  <2>8. r.whole => \A t \in r.snap :
          \/ [id |-> t.id, email |-> t.email] \in r.owed
          \/ \E g \in db'.grants : g.email = t.email /\ g.local = LocalOf(db'.rows, t.id)
    BY <1>3, <2>1, <2>7 DEF Granted
  <2>9. Granted(next, db')
    BY <1>4, <2>1, <2>5, <2>6, <2>8 DEF Granted
  <2>10. next.pc \in Importing
    BY <1>4 DEF Importing
  <2> HIDE DEF r
  <2> QED BY <1>1, <1>3, <1>4, <2>1, <2>9, <2>10, LoopUndisturbed
<1> QED BY <1>1, <1>2, <1>4, <1>5, MoveAlone

LEMMA FinishAlone ==
  ASSUME Inv, AloneInv, NEW s \in Requests, FinishImport(s) PROVE AloneInv'
<1> DEFINE r == run[s]
           next == [r EXCEPT !.pc = "read", !.imported = TRUE]
<1>1. r \in RunState /\ r.pc = "users" /\ r.owed = {} /\ Active(r) /\ r.pc \in Importing /\ db' = db
  BY Types DEF FinishImport, Active, Importing
<1>2. CASE Go(s, Ended("done"))
  <2>1. (Ended("done").alone /\ Active(Ended("done")) => r.alone) /\ Undisturbed(Ended("done"), db')
    BY <1>1, StoppedAlone
  <2> QED BY <1>1, <1>2, <2>1, MoveAlone
<1>3. CASE Go(s, next)
  <2>1. /\ next.pc = "read" /\ next.alone = r.alone /\ next.snap = r.snap /\ next.todo = r.todo
        /\ next.whole = r.whole
        /\ next.ids = r.ids /\ next.cached = r.cached /\ next.owed = r.owed
        /\ next.seen = r.seen
    BY <1>1 DEF RunState
  <2> HIDE DEF next
  <2>2. ASSUME r.alone PROVE Undisturbed(next, db')
    <3>1. Undisturbed(r, db) /\ Granted(r, db) /\ RowsAre(r, db.rows) /\ r.cached = db.rows
      BY <1>1, <2>2, LoopFacts
    <3>2. \A i : ClientsAt(next, i) = ClientsAt(r, i)
      BY <2>1 DEF ClientsAt
    <3>3. RowsAre(next, db.rows)
      BY <2>1, <3>1, <3>2 DEF RowsAre
    <3>4. (\A u \in db.users : Known(u, db')) /\ next.todo \subseteq r.todo
      BY <1>1, <2>1 DEF Known
    <3>5. Granted(next, db')
      <4> HIDE DEF r
      <4> QED BY <1>1, <2>1, <3>1, <3>4, GrantedKeeps
    <3>6. \A t \in r.snap : t.id \in r.ids
      BY <1>1, <3>1 DEF Undisturbed
    <3> QED BY <1>1, <2>1, <3>1, <3>3, <3>5, <3>6 DEF Undisturbed, Importing
  <2> QED BY <1>1, <1>3, <2>1, <2>2, MoveAlone
<1> QED BY <1>2, <1>3 DEF FinishImport

LEMMA ReadRowsAlone ==
  ASSUME Inv, AloneInv, NEW s \in Requests, ReadRows(s) PROVE AloneInv'
<1> DEFINE r == run[s]
           next == [r EXCEPT !.pc = "plan", !.cached = db.rows]
<1>1. r \in RunState /\ r.pc = "read" /\ Active(r) /\ db' = db /\ Go(s, next)
  BY Types DEF ReadRows, Active
<1>2. /\ next.pc = "plan" /\ next.alone = r.alone /\ next.snap = r.snap /\ next.todo = r.todo
      /\ next.whole = r.whole
      /\ next.ids = r.ids /\ next.cached = db.rows /\ next.owed = r.owed
      /\ next.seen = r.seen /\ next.imported = r.imported
  BY <1>1 DEF RunState
<1> HIDE DEF next
<1>3. ASSUME r.alone PROVE Undisturbed(next, db')
  <2>1. Undisturbed(r, db)
    BY <1>1, <1>3 DEF AloneInv
  <2>2. CASE ~r.imported
    BY <1>2, <2>2 DEF Undisturbed, Past, Importing
  <2>3. CASE r.imported
    <3>1. Past(r)
      BY <1>1, <2>3 DEF Past
    <3>2. /\ Granted(r, db) /\ RowsAre(r, db.rows) /\ r.owed = {}
          /\ \A t \in r.snap : t.id \in r.ids
      BY <2>1, <3>1 DEF Undisturbed
    <3>3. \A i : ClientsAt(next, i) = ClientsAt(r, i)
      BY <1>2 DEF ClientsAt
    <3>4. RowsAre(next, db.rows)
      BY <1>2, <3>2, <3>3 DEF RowsAre
    <3>5. (\A u \in db.users : Known(u, db')) /\ next.todo \subseteq r.todo
      BY <1>1, <1>2 DEF Known
    <3>6. Granted(next, db')
      <4> HIDE DEF r
      <4> QED BY <1>1, <1>2, <3>2, <3>5, GrantedKeeps
    <3> QED BY <1>1, <1>2, <3>2, <3>4, <3>6 DEF Undisturbed, Importing
  <2> QED BY <2>2, <2>3
<1> QED BY <1>1, <1>2, <1>3, MoveAlone

LEMMA ReadGrantsAlone ==
  ASSUME Inv, AloneInv, NEW s \in Requests, ReadGrants(s) PROVE AloneInv'
<1>1. run[s] \in RunState /\ Active(run[s])
  BY Types DEF ReadGrants, Active
<1>2. PICK x \in {Ended("done"), Ended("failed")} : Go(s, x)
  BY DEF ReadGrants
<1>3. (x.alone /\ Active(x) => run[s].alone) /\ Undisturbed(x, db')
  BY <1>1, StoppedAlone
<1> QED BY <1>1, <1>2, <1>3, MoveAlone

LEMMA StepAlone ==
  ASSUME Inv, AloneInv, NEW s \in Requests, Step(s) PROVE AloneInv'
BY FetchAlone, CacheAlone, ReadBackAlone, ClearAlone, LookUpAlone, CreateAlone, FillAlone,
   StoreAlone, AssignAlone, FindGoneAlone, DropGoneAlone, FinishAlone, ReadRowsAlone,
   ReadGrantsAlone DEF Step, Import

(***************************************************************************)
(* Its statements that fail.                                               *)
(***************************************************************************)
LEMMA StatementFailsAlone ==
  ASSUME Inv, AloneInv, NEW s \in Requests, StatementFails(s) PROVE AloneInv'
<1>1. run[s] \in RunState /\ Active(run[s])
  BY Types DEF StatementFails, Active
<1>2. PICK x \in {Abort(run[s]), Ended("failed")} : Go(s, x)
  BY DEF StatementFails
<1>3. (x.alone /\ Active(x) => run[s].alone) /\ Undisturbed(x, db')
  BY <1>1, <1>2, StoppedAlone
<1> QED BY <1>1, <1>2, <1>3, MoveAlone

\* In the loops, with the tables as they are.
LEMMA LoopFailsAlone ==
  ASSUME Inv, AloneInv, NEW s \in Requests, run[s].pc \in Importing, db' = db,
         NEW next, Go(s, next), next.alone = run[s].alone, next.pc \in Importing,
         next.snap = run[s].snap, next.ids = run[s].ids, next.cached = run[s].cached,
         next.todo \subseteq run[s].todo, next.seen = run[s].seen,
         next.whole => run[s].whole /\ next.owed = run[s].owed,
         run[s].alone /\ next.pc \in {"create", "fill", "store"} =>
           \A h \in next.hand : Listed(h, run[s]),
         run[s].alone /\ next.pc \in {"fill", "store"} => InTable(next, db)
  PROVE  AloneInv'
<1> DEFINE r == run[s]
<1>1. Active(r)
  BY DEF Importing, Active
<1>2. ASSUME r.alone PROVE Undisturbed(next, db')
  <2>1. Undisturbed(r, db) /\ Granted(r, db)
    BY <1>2, LoopFacts
  <2>2. \A z : Listed(z, next) <=> Listed(z, r)
    BY DEF Listed
  <2>3. Granted(next, db')
    BY <1>2, <2>1, <2>2 DEF Granted
  <2> QED BY <1>2, <2>1, <2>3, LoopUndisturbed
<1> QED BY <1>1, <1>2, MoveAlone

LEMMA LookUpFailsAlone ==
  ASSUME Inv, AloneInv, NEW s \in Requests, LookUpFails(s) PROVE AloneInv'
<1> DEFINE r == run[s]
<1>1. r \in RunState /\ r.pc \in Importing /\ db' = db
  BY Types DEF LookUpFails, Importing
<1>2. PICK t \in r.todo :
        Go(s, [r EXCEPT !.todo = @ \ {t}, !.pc = "create",
                        !.hand = {[uid |-> 0, email |-> t.email, cred |-> t.cred,
                                   pref |-> NoPref]}])
  BY DEF LookUpFails
<1> DEFINE h    == [uid |-> 0, email |-> t.email, cred |-> t.cred, pref |-> NoPref]
           next == [r EXCEPT !.todo = @ \ {t}, !.pc = "create", !.hand = {h}]
<1>3. h.email = t.email /\ Go(s, next)
  BY <1>2
<1> HIDE DEF h
<1>4. /\ next.pc = "create" /\ next.hand = {h} /\ next.alone = r.alone
      /\ next.whole = r.whole /\ next.snap = r.snap /\ next.ids = r.ids
      /\ next.cached = r.cached /\ next.owed = r.owed /\ next.todo \subseteq r.todo
      /\ next.seen = r.seen
  BY <1>1 DEF RunState
<1> HIDE DEF next
<1>5. r.alone => Listed(h, r)
  BY <1>1, <1>3, LoopFacts DEF Granted, Listed
<1>6. next.pc \in Importing
  BY <1>4 DEF Importing
<1> QED BY <1>1, <1>3, <1>4, <1>5, <1>6, LoopFailsAlone

LEMMA FillFailsAlone ==
  ASSUME Inv, AloneInv, NEW s \in Requests, FillFails(s) PROVE AloneInv'
<1> DEFINE r == run[s]
           next == [r EXCEPT !.pc = "store"]
<1>1. r \in RunState /\ r.pc = "fill" /\ r.pc \in Importing /\ db' = db /\ Go(s, next)
  BY Types DEF FillFails, Importing
<1>2. /\ next.pc = "store" /\ next.hand = r.hand /\ next.alone = r.alone
      /\ next.whole = r.whole /\ next.snap = r.snap /\ next.ids = r.ids
      /\ next.cached = r.cached /\ next.owed = r.owed /\ next.todo = r.todo
      /\ next.seen = r.seen /\ next.calm = r.calm
  BY <1>1 DEF RunState
<1> HIDE DEF next
<1>3. r.alone => (\A h \in next.hand : Listed(h, r)) /\ InTable(next, db)
  BY <1>1, <1>2, LoopFacts DEF Granted, Undisturbed, InTable
<1>4. next.pc \in Importing
  BY <1>2 DEF Importing
<1> QED BY <1>1, <1>2, <1>3, <1>4, LoopFailsAlone

LEMMA AssignFailsAlone ==
  ASSUME Inv, AloneInv, NEW s \in Requests, AssignFails(s) PROVE AloneInv'
<1> DEFINE r == run[s]
<1>1. r \in RunState /\ r.pc = "users" /\ r.pc \in Importing /\ db' = db
  BY Types DEF AssignFails, Importing
<1>2. PICK o \in r.owed : Go(s, [r EXCEPT !.owed = @ \ {o}, !.whole = FALSE])
  BY DEF AssignFails
<1> DEFINE next == [r EXCEPT !.owed = @ \ {o}, !.whole = FALSE]
<1>3. /\ next.pc = "users" /\ next.alone = r.alone /\ next.whole = FALSE
      /\ next.snap = r.snap /\ next.ids = r.ids /\ next.cached = r.cached
      /\ next.todo = r.todo /\ next.seen = r.seen
  BY <1>1 DEF RunState
<1>4. Go(s, next)
  BY <1>2
<1> HIDE DEF next
<1>5. next.pc \in Importing
  BY <1>3 DEF Importing
<1> QED BY <1>1, <1>3, <1>4, <1>5, LoopFailsAlone

LEMMA FindGoneFailsAlone ==
  ASSUME Inv, AloneInv, NEW s \in Requests, FindGoneFails(s) PROVE AloneInv'
<1> DEFINE r == run[s]
<1>1. r \in RunState /\ r.pc = "users" /\ r.pc \in Importing /\ db' = db
  BY Types DEF FindGoneFails, Importing
<1>2. PICK e \in r.gone : Go(s, [r EXCEPT !.gone = @ \ {e}])
  BY DEF FindGoneFails
<1> DEFINE next == [r EXCEPT !.gone = @ \ {e}]
<1>3. /\ next.pc = "users" /\ next.alone = r.alone /\ next.whole = r.whole
      /\ next.snap = r.snap /\ next.ids = r.ids /\ next.cached = r.cached
      /\ next.owed = r.owed /\ next.todo = r.todo /\ next.seen = r.seen
  BY <1>1 DEF RunState
<1>4. Go(s, next)
  BY <1>2
<1> HIDE DEF next
<1>5. next.pc \in Importing
  BY <1>3 DEF Importing
<1> QED BY <1>1, <1>3, <1>4, <1>5, LoopFailsAlone

LEMMA DropGoneFailsAlone ==
  ASSUME Inv, AloneInv, NEW s \in Requests, DropGoneFails(s) PROVE AloneInv'
<1> DEFINE r == run[s]
           next == [r EXCEPT !.pc = "users", !.hand = {}]
<1>1. r \in RunState /\ r.pc \in Importing /\ db' = db /\ Go(s, next)
  BY Types DEF DropGoneFails, Importing
<1>2. /\ next.pc = "users" /\ next.alone = r.alone /\ next.whole = r.whole
      /\ next.snap = r.snap /\ next.ids = r.ids /\ next.cached = r.cached
      /\ next.owed = r.owed /\ next.todo = r.todo /\ next.seen = r.seen
  BY <1>1 DEF RunState
<1> HIDE DEF next
<1>3. next.pc \in Importing
  BY <1>2 DEF Importing
<1> QED BY <1>1, <1>2, <1>3, LoopFailsAlone

LEMMA FailsAlone ==
  ASSUME Inv, AloneInv, NEW s \in Requests, Fails(s) PROVE AloneInv'
BY StatementFailsAlone, LookUpFailsAlone, FillFailsAlone, AssignFailsAlone,
   FindGoneFailsAlone, DropGoneFailsAlone DEF Fails

(***************************************************************************)
(* What else happens.                                                      *)
(***************************************************************************)

\* A request that arrives takes the flag from the others.
LEMMA BeginAlone ==
  ASSUME Inv, AloneInv, NEW s \in Requests, Begin(s) \/ BeginBlind(s) PROVE AloneInv'
<1> DEFINE alone == \A u \in Requests \ {s} : ~Active(run[u])
<1>0. PICK emails \in SUBSET Emails : Arrive(s, emails)
  BY Arrivals
<1>1. PICK sync \in BOOLEAN :
        run' = [u \in Requests |->
          IF u = s
          THEN [Idle EXCEPT !.pc = "fetch", !.sync = sync, !.before = emails, !.alone = alone]
          ELSE IF Active(run[u]) THEN [run[u] EXCEPT !.alone = FALSE] ELSE run[u]]
  BY <1>0 DEF Arrive
<1> DEFINE fresh == [Idle EXCEPT !.pc = "fetch", !.sync = sync, !.before = emails, !.alone = alone]
<1>2. fresh.pc = "fetch" /\ fresh.seen = {} /\ (fresh.alone <=> alone)
  BY DEF Idle
<1> HIDE DEF fresh
<1>3. \A t \in Requests : [run[t] EXCEPT !.alone = FALSE].alone = FALSE
  BY DEF Inv, TypeOK, RunState
<1>4. /\ run'[s] = fresh
      /\ \A t \in Requests \ {s} : run'[t] = IF Active(run[t]) THEN [run[t] EXCEPT !.alone = FALSE]
                                             ELSE run[t]
  BY <1>1 DEF fresh
<1>5. ASSUME NEW q \in Requests, run'[q].alone, Active(run'[q])
      PROVE  (\A t \in Requests \ {q} : ~Active(run'[t])) /\ Undisturbed(run'[q], db')
  <2>1. q = s
    BY <1>3, <1>4, <1>5
  <2>2. \A t \in Requests \ {q} : ~Active(run'[t])
    BY <1>2, <1>4, <1>5, <2>1
  <2>3. Undisturbed(fresh, db')
    BY <1>2 DEF Undisturbed, Past, Importing
  <2> QED BY <1>4, <2>1, <2>2, <2>3
<1> QED BY <1>5 DEF AloneInv

\* A policy save is noted by every request, and changes nothing else they rely on.
LEMMA SavePolicyAlone ==
  ASSUME Inv, AloneInv, SavePolicy PROVE AloneInv'
<1>1. db \in Db /\ run \in [Requests -> RunState]
  BY DEF Inv, TypeOK
<1>2. PICK u \in db.users, p \in Prefs :
        db' = [db EXCEPT !.users = {IF v = u THEN [v EXCEPT !.pref = p] ELSE v : v \in @}]
  BY DEF SavePolicy
<1>3. /\ db'.users = {IF v = u THEN [v EXCEPT !.pref = p] ELSE v : v \in db.users}
      /\ db'.rows = db.rows /\ db'.grants = db.grants
  BY <1>1, <1>2 DEF Db
<1>4. \A v \in db.users : \E w \in db'.users : w.uid = v.uid /\ w.email = v.email
  <2>1. \A v \in db.users : [v EXCEPT !.pref = p].uid = v.uid
                            /\ [v EXCEPT !.pref = p].email = v.email
    BY <1>1 DEF Db, User
  <2> QED BY <1>3, <2>1
<1>5. \A t \in Requests :
        run'[t] = IF Active(run[t]) THEN [run[t] EXCEPT !.calm = FALSE] ELSE run[t]
  BY DEF SavePolicy
<1>6. \A t \in Requests :
        /\ run'[t].pc = run[t].pc /\ run'[t].alone = run[t].alone
        /\ run'[t].imported = run[t].imported /\ run'[t].snap = run[t].snap
        /\ run'[t].ids = run[t].ids /\ run'[t].cached = run[t].cached
        /\ run'[t].todo = run[t].todo /\ run'[t].seen = run[t].seen
        /\ run'[t].hand = run[t].hand /\ run'[t].owed = run[t].owed
        /\ run'[t].whole = run[t].whole
        /\ Active(run[t]) => run'[t].calm = FALSE
  <2>1. ASSUME NEW r \in RunState
        PROVE  LET n == [r EXCEPT !.calm = FALSE]
               IN /\ n.pc = r.pc /\ n.alone = r.alone /\ n.imported = r.imported
                  /\ n.snap = r.snap /\ n.ids = r.ids /\ n.cached = r.cached
                  /\ n.todo = r.todo /\ n.seen = r.seen /\ n.hand = r.hand /\ n.owed = r.owed
                  /\ n.calm = FALSE /\ n.whole = r.whole
    BY DEF RunState
  <2>2. ASSUME NEW t \in Requests
        PROVE  /\ run'[t].pc = run[t].pc /\ run'[t].alone = run[t].alone
               /\ run'[t].imported = run[t].imported /\ run'[t].snap = run[t].snap
               /\ run'[t].ids = run[t].ids /\ run'[t].cached = run[t].cached
               /\ run'[t].todo = run[t].todo /\ run'[t].seen = run[t].seen
               /\ run'[t].hand = run[t].hand /\ run'[t].owed = run[t].owed
               /\ run'[t].whole = run[t].whole
               /\ Active(run[t]) => run'[t].calm = FALSE
    <3> DEFINE r == run[t]
               n == [r EXCEPT !.calm = FALSE]
    <3>1. r \in RunState
      BY <1>1
    <3>2. /\ n.pc = r.pc /\ n.alone = r.alone /\ n.imported = r.imported
          /\ n.snap = r.snap /\ n.ids = r.ids /\ n.cached = r.cached
          /\ n.todo = r.todo /\ n.seen = r.seen /\ n.hand = r.hand /\ n.owed = r.owed
          /\ n.calm = FALSE /\ n.whole = r.whole
      BY <2>1, <3>1
    <3>3. run'[t] = IF Active(r) THEN n ELSE r
      BY <1>5
    <3> HIDE DEF n
    <3>4. CASE Active(r)
      <4>1. run'[t] = n
        BY <3>3, <3>4
      <4> QED BY <3>2, <4>1
    <3>5. CASE ~Active(r)
      <4>1. run'[t] = r
        BY <3>3, <3>5
      <4> QED BY <3>5, <4>1
    <3> QED BY <3>4, <3>5
  <2> QED BY <2>2
<1>7. ASSUME NEW q \in Requests, run'[q].alone, Active(run'[q])
      PROVE  (\A t \in Requests \ {q} : ~Active(run'[t])) /\ Undisturbed(run'[q], db')
  <2> DEFINE r == run[q]
             n == run'[q]
  <2>1. Active(r) /\ \A t \in Requests : Active(run'[t]) <=> Active(run[t])
    BY <1>6, <1>7 DEF Active
  <2>2. (\A t \in Requests \ {q} : ~Active(run[t])) /\ Undisturbed(r, db)
    BY <1>6, <1>7, <2>1 DEF AloneInv
  <2>3. /\ n.pc = r.pc /\ n.imported = r.imported /\ n.snap = r.snap /\ n.ids = r.ids
        /\ n.cached = r.cached /\ n.todo = r.todo /\ n.seen = r.seen /\ n.hand = r.hand
        /\ n.owed = r.owed /\ n.calm = FALSE /\ n.whole = r.whole
    BY <1>6, <2>1
  <2> HIDE DEF r, n
  <2>4. \A i : ClientsAt(n, i) = ClientsAt(r, i)
    BY <2>3 DEF ClientsAt
  <2>5. RowsAre(r, db.rows) => RowsAre(n, db'.rows)
    BY <1>3, <2>3, <2>4 DEF RowsAre
  <2>6. Granted(r, db) => Granted(n, db')
    <3>1. SUFFICES ASSUME Granted(r, db) PROVE Granted(n, db')
      OBVIOUS
    <3>2. \A v \in db.users : Known(v, db')
      BY <1>4 DEF Known
    <3>3. n.pc \in {"create", "fill", "store"} => \A h \in n.hand : Listed(h, r)
      BY <2>3, <3>1 DEF Granted
    <3> QED BY <1>3, <2>3, <3>1, <3>2, <3>3, GrantedKeeps
  <2>7. InTable(r, db) => InTable(n, db')
    <3>1. SUFFICES ASSUME InTable(r, db), NEW h \in r.hand
                   PROVE  \E w \in db'.users : w.uid = h.uid /\ w.email = h.email
      BY <2>3 DEF InTable
    <3>2. PICK v \in db.users : v.uid = h.uid /\ v.email = h.email
      BY <3>1 DEF InTable
    <3> QED BY <1>4, <3>2
  <2>8. Undisturbed(n, db')
    BY <1>3, <2>2, <2>3, <2>5, <2>6, <2>7 DEF Undisturbed, Past
  <2> QED BY <2>1, <2>2, <2>8 DEF n
<1> QED BY <1>7 DEF AloneInv

LEMMA OthersAlone ==
  ASSUME Inv, AloneInv, PanelChanges \/ DeleteUser \/ Restart PROVE AloneInv'
<1>1. CASE PanelChanges
  BY <1>1 DEF PanelChanges, AloneInv
<1>2. CASE DeleteUser
  <2>1. \A t \in Requests : [run[t] EXCEPT !.alone = FALSE].alone = FALSE
    BY DEF Inv, TypeOK, RunState
  <2>2. \A t \in Requests : run'[t] = IF Active(run[t]) THEN [run[t] EXCEPT !.alone = FALSE]
                                      ELSE run[t]
    BY <1>2 DEF DeleteUser
  <2> QED BY <2>1, <2>2 DEF AloneInv
<1>3. CASE Restart
  <2>1. \A t \in Requests : ~Active(run'[t])
    BY <1>3 DEF Restart, Idle, Active
  <2> QED BY <2>1 DEF AloneInv
<1> QED BY <1>1, <1>2, <1>3

LEMMA InitAlone == Init => AloneInv
BY DEF Init, AloneInv, Idle, Active

LEMMA NextAlone == Inv /\ AloneInv /\ [Next]_vars => AloneInv'
<1> SUFFICES ASSUME Inv, AloneInv, [Next]_vars PROVE AloneInv'
  OBVIOUS
<1>1. CASE UNCHANGED vars
  BY <1>1 DEF vars, AloneInv
<1>2. CASE Next
  BY <1>2, BeginAlone, StepAlone, FailsAlone, SavePolicyAlone, OthersAlone DEF Next
<1> QED BY <1>1, <1>2

\* A step beside an active request that is alone is its own, an arrival, or none of a request.
LEMMA OwnStep ==
  ASSUME Inv, AloneInv, NEW s \in Requests, run[s].alone, Active(run[s]),
         NEW t \in Requests, Step(t) \/ Fails(t)
  PROVE  t = s
<1>1. Active(run[t])
  BY FailsOnly DEF Step, Import, Fetch, Cache, ReadBack, ClearAssignments, LookUp, Create, Fill,
     Store, Assign, FindGone, DropGone, FinishImport, ReadRows, ReadGrants, Active
<1> QED BY <1>1 DEF AloneInv

\* The steps of a request that is alone and calm leave the policies as they are.
LEMMA StepKeepsPolicies ==
  ASSUME Inv, AloneInv, NEW s \in Requests, run[s].alone, run[s].calm, Step(s),
         NEW u \in db.users, NEW v \in db'.users, u.uid = v.uid
  PROVE  u.pref = v.pref
<1> DEFINE r == run[s]
<1>1. r \in RunState /\ db \in Db /\ Consistent(db) /\ RunInv(r, db)
  BY Types
<1>2. CASE db'.users \subseteq db.users
  BY <1>1, <1>2 DEF Consistent
<1>3. CASE Create(s)
  <2>1. CASE db' = db
    BY <1>2, <2>1
  <2>2. CASE \E h \in r.hand :
               db' = [db EXCEPT !.users = @ \cup {[h EXCEPT !.uid = db.nextUid]}, !.nextUid = @ + 1]
    <3>1. PICK h \in r.hand :
               db' = [db EXCEPT !.users = @ \cup {[h EXCEPT !.uid = db.nextUid]}, !.nextUid = @ + 1]
      BY <2>2
    <3> DEFINE new == [h EXCEPT !.uid = db.nextUid]
    <3>2. new.uid = db.nextUid
      BY <1>1 DEF RunState, User
    <3>3. db'.users = db.users \cup {new}
      BY <1>1, <3>1 DEF Db
    <3> HIDE DEF new
    <3>4. u.uid < db.nextUid /\ u.uid \in Nat /\ db.nextUid \in Nat
      BY <1>1 DEF Consistent, Db, User
    <3>5. v \in db.users
      BY <3>2, <3>3, <3>4
    <3> QED BY <1>1, <3>5 DEF Consistent
  <2> QED BY <1>3, <2>1, <2>2 DEF Create
<1>4. CASE Store(s)
  <2>1. PICK h \in r.hand :
          db' = [db EXCEPT !.users = {IF w.uid = h.uid THEN h ELSE w : w \in @}]
    BY <1>4 DEF Store
  <2>2. r.pc = "store"
    BY <1>4 DEF Store
  <2>3. r.pc \in Importing
    BY <2>2 DEF Importing
  <2>4. PICK w \in db.users : w.uid = h.uid /\ w.pref = h.pref
    BY <2>2, <2>3, LoopFacts DEF Undisturbed, InTable
  <2>5. PICK x \in db.users : v = IF x.uid = h.uid THEN h ELSE x
    BY <1>1, <2>1 DEF Db
  <2> QED BY <1>1, <2>4, <2>5 DEF Consistent
<1>5. CASE Cache(s)
  BY <1>1, <1>2, <1>5 DEF Cache, EnsureServerInbounds, Db
<1>6. CASE ClearAssignments(s) \/ Assign(s)
  <2>1. db'.users = db.users
    BY <1>1, <1>6 DEF ClearAssignments, Assign, Db
  <2> QED BY <1>2, <2>1
<1>7. CASE DropGone(s)
  <2>1. \A uid : WithoutUser(db, uid).users \subseteq db.users
    BY <1>1 DEF WithoutUser, Db
  <2> QED BY <1>2, <1>7, <2>1 DEF DropGone
<1>8. CASE Fetch(s) \/ ReadBack(s) \/ LookUp(s) \/ Fill(s) \/ FindGone(s) \/ FinishImport(s)
           \/ ReadRows(s) \/ ReadGrants(s)
  <2>1. db' = db
    BY <1>8 DEF Fetch, ReadBack, LookUp, Fill, FindGone, FinishImport, ReadRows, ReadGrants
  <2> QED BY <1>2, <2>1
<1> QED BY <1>3, <1>4, <1>5, <1>6, <1>7, <1>8 DEF Step, Import

\* A whole-row write of an import that neither a policy save nor another request
\* overlaps writes the policy the row has.
THEOREM ImportKeepsPolicies == Spec => PoliciesKept
<1>1. Inv /\ AloneInv /\ [Next]_vars =>
        [\A s \in Requests :
           Active(run[s]) /\ run[s].calm /\ run[s].alone /\ run'[s] # run[s] /\ left' = left =>
             \A u \in db.users, v \in db'.users : u.uid = v.uid => u.pref = v.pref]_vars
  <2>1. ASSUME Inv, AloneInv, Next, NEW s \in Requests,
               Active(run[s]), run[s].calm, run[s].alone, left' = left,
               NEW u \in db.users, NEW v \in db'.users, u.uid = v.uid
        PROVE  u.pref = v.pref
    <3>1. Consistent(db) /\ db' = db => u.pref = v.pref
      BY <2>1 DEF Consistent
    <3>2. Consistent(db)
      BY <2>1 DEF Inv, TypeOK
    <3>3. CASE \E t \in Requests : Step(t)
      BY <2>1, <3>3, OwnStep, StepKeepsPolicies
    <3>4. CASE \E t \in Requests : Begin(t) \/ BeginBlind(t) \/ Fails(t)
      BY <3>1, <3>2, <3>4, FailsOnly DEF Begin, BeginBlind, Arrive
    <3>5. CASE PanelChanges \/ Restart
      BY <3>1, <3>2, <3>5 DEF PanelChanges, Restart
    <3>6. ~DeleteUser /\ ~SavePolicy
      <4>1. left \in Left
        BY <2>1 DEF Inv, TypeOK
      <4> DEFINE next == [left EXCEPT !.edits = @ - 1]
      <4>2. left.edits \in Nat /\ next.edits = left.edits - 1
        BY <4>1 DEF Left
      <4>3. DeleteUser \/ SavePolicy => left' = next
        BY DEF DeleteUser, SavePolicy
      <4> HIDE DEF next
      <4>4. left # next
        BY <4>2
      <4> QED BY <2>1, <4>3, <4>4
    <3> QED BY <2>1, <3>3, <3>4, <3>5, <3>6 DEF Next
  <2> QED BY <2>1
<1> QED BY <1>1, Invariant, InitAlone, InitInv, NextAlone, NextKeeps, PTL
        DEF Spec, PoliciesKept

\* What the targets get of an import that reports success.
LEMMA PlanOfListing ==
  ASSUME NEW r \in RunState, NEW d \in Db, Consistent(d), Undisturbed(r, d),
         r.pc = "plan", r.imported
  PROVE  LET plan == DesiredClients(r.cached, d.grants)
         IN plan \subseteq r.snap /\ (r.whole => r.snap \subseteq plan)
<1>1. /\ Granted(r, d) /\ RowsAre(r, d.rows) /\ r.cached = d.rows /\ r.owed = {}
      /\ \A t \in r.snap : t.id \in r.ids
  BY DEF Undisturbed, Past
<1>2. ASSUME NEW t \in DesiredClients(r.cached, d.grants) PROVE t \in r.snap
  <2>1. PICK q \in d.rows : q.id = t.id /\ [email |-> t.email, cred |-> t.cred] \in q.clients
    BY <1>1 DEF DesiredClients
  <2>2. [email |-> t.email, cred |-> t.cred] \in ClientsAt(r, t.id)
    BY <1>1, <2>1 DEF RowsAre
  <2>3. PICK x \in r.snap : x.id = t.id /\ [email |-> t.email, cred |-> t.cred]
                                             = [email |-> x.email, cred |-> x.cred]
    BY <2>2 DEF ClientsAt
  <2>4. x.email = t.email /\ x.cred = t.cred
    BY <2>3
  <2>5. x \in Todo /\ t \in Todo
    BY DEF RunState, DesiredClients
  <2>6. x = t
    BY <2>3, <2>4, <2>5 DEF Todo
  <2> QED BY <2>6
<1>3. ASSUME r.whole, NEW t \in r.snap PROVE t \in DesiredClients(r.cached, d.grants)
  <2>1. t \in Todo
    BY DEF RunState
  <2>2. PICK q \in d.rows : q.id = t.id
    BY <1>1 DEF RowsAre, HasRow
  <2>3. [email |-> t.email, cred |-> t.cred] \in q.clients
    <3>1. q.clients = ClientsAt(r, t.id)
      BY <1>1, <2>2 DEF RowsAre
    <3> QED BY <3>1 DEF ClientsAt
  <2>4. LocalOf(d.rows, t.id) = q.local
    <3>1. (CHOOSE x \in d.rows : x.id = t.id) = q
      BY <2>2 DEF Consistent
    <3> QED BY <3>1 DEF LocalOf
  <2>5. \E g \in d.grants : g.email = t.email /\ g.local = q.local
    BY <1>1, <1>3, <2>4 DEF Granted
  <2> QED BY <1>1, <2>1, <2>2, <2>3, <2>5 DEF DesiredClients
<1> QED BY <1>2, <1>3

\* Only ReadGrants takes a run from "plan" to "done".
LEMMA OnlyReadGrants ==
  ASSUME Inv, AloneInv, Next, NEW s \in Requests, run[s].alone,
         run[s].pc = "plan", run'[s].pc = "done"
  PROVE  ReadGrants(s)
<1>1. run[s] \in RunState /\ Active(run[s])
  BY Types DEF Active
<1>2. ASSUME NEW t \in Requests, Begin(t) \/ BeginBlind(t)
      PROVE  run'[s] \in {run[s], [run[s] EXCEPT !.alone = FALSE]}
  BY <1>1, <1>2 DEF Begin, BeginBlind, Arrive
<1>3. DeleteUser \/ SavePolicy
        => run'[s] \in {[run[s] EXCEPT !.alone = FALSE], [run[s] EXCEPT !.calm = FALSE]}
  BY <1>1 DEF DeleteUser, SavePolicy
<1>4. [run[s] EXCEPT !.alone = FALSE].pc = "plan" /\ [run[s] EXCEPT !.calm = FALSE].pc = "plan"
  BY <1>1 DEF RunState
<1>5. ~Restart /\ ~PanelChanges
  BY DEF Restart, PanelChanges, Idle
<1>6. ~Fails(s)
  <2>1. \A x : Go(s, x) => run'[s] = x
    BY DEF Go, Inv, TypeOK
  <2>2. Ended("failed").pc = "failed"
    BY DEF Ended, Idle
  <2> QED BY <2>1, <2>2 DEF Fails, StatementFails, LookUpFails, FillFails, AssignFails,
       FindGoneFails, DropGoneFails
<1>7. Step(s)
  BY <1>1, <1>2, <1>3, <1>4, <1>5, <1>6, OwnStep DEF Next
<1> QED BY <1>7 DEF Step, Import, Fetch, Cache, ReadBack, ClearAssignments, LookUp, Create, Fill,
     Store, Assign, FindGone, DropGone, FinishImport, ReadRows, ReadGrants

\* The plan of a synchronisation that reports success and that nothing overlapped has
\* no client the listing lacks, and none with an old credential, whatever statements of
\* its import failed unseen; and none is missing if the assignments could be written.
THEOREM PlanMirrors == Spec => PlanIsTheListing
<1>1. Inv /\ AloneInv /\ [Next]_vars =>
        [\A s \in Requests :
           run[s].pc = "plan" /\ run'[s].pc = "done" /\ run[s].alone =>
             LET plan == DesiredClients(run[s].cached, db.grants)
             IN plan \subseteq run[s].snap /\ (run[s].whole => run[s].snap \subseteq plan)]_vars
  <2>1. ASSUME Inv, AloneInv, Next, NEW s \in Requests,
               run[s].pc = "plan", run'[s].pc = "done", run[s].alone
        PROVE  LET plan == DesiredClients(run[s].cached, db.grants)
               IN plan \subseteq run[s].snap /\ (run[s].whole => run[s].snap \subseteq plan)
    <3>1. ReadGrants(s)
      BY <2>1, OnlyReadGrants
    <3>2. run[s] \in RunState /\ db \in Db /\ Consistent(db) /\ run' = [run EXCEPT ![s] =
             Ended(IF run[s].imported THEN "done" ELSE "failed")]
      BY <2>1, <3>1, Types DEF ReadGrants, Go
    <3>3. run[s].imported
      BY <2>1, <3>2 DEF Ended, Idle, Inv, TypeOK
    <3>4. Undisturbed(run[s], db)
      BY <2>1 DEF AloneInv, Active
    <3> QED BY <2>1, <3>2, <3>3, <3>4, PlanOfListing
  <2> QED BY <2>1
<1> QED BY <1>1, Invariant, InitAlone, InitInv, NextAlone, NextKeeps, PTL
        DEF Spec, PlanIsTheListing

(***************************************************************************)
(* While the panel stays as it is, nobody deletes users and no statement   *)
(* fails.                                                                  *)
(***************************************************************************)
OnPanel(z, p) == \E t \in SnapOf(p) : t.email = z.email
AsOn(z, p)    == \E t \in SnapOf(p) : t.email = z.email /\ t.cred = z.cred

\* The user of entry t is there, as some entry of the panel has it.
UserThere(t, d, p) == \E u \in d.users : u.email = t.email /\ AsOn(u, p)

RowsOf(rows, p) ==
  /\ \A q \in rows : q.id \in DOMAIN p
  /\ \A i \in DOMAIN p : HasRow(rows, i)

\* Assignment g is one of the panel's; entry t has its assignment.
Valid(g, d, p) ==
  \E u \in d.users, q \in d.rows :
    /\ g.uid = u.uid /\ g.local = q.local /\ g.email = u.email
    /\ \E t \in SnapOf(p) : t.id = q.id /\ t.email = u.email
Provided(t, d) ==
  \E g \in d.grants, q \in d.rows : g.email = t.email /\ g.local = q.local /\ q.id = t.id

InHand(r) == r.pc \in {"create", "fill", "store"}
Imported(r) == Past(r) \/ r.pc = "done"
Cleared(r) == r.pc \in Importing \/ Imported(r)
OwesAll(r, p) == \A t \in SnapOf(p) : [id |-> t.id, email |-> t.email] \in r.owed

\* A run in its loops: whom it has passed is as on the panel, whom the panel does not
\* have is still to be removed, and until every user was looked at all assignments are
\* still to be made.
Working(r, d, p) ==
  /\ r.todo \subseteq SnapOf(p)
  /\ \A u \in d.users : \/ OnPanel(u, p) \/ u.email \in r.gone
                        \/ r.pc = "drop" /\ \E h \in r.hand : h.uid = u.uid
  /\ r.pc = "drop" => \A g, h \in r.hand : g = h
  /\ \A t \in SnapOf(p) : \/ t \in r.todo \/ UserThere(t, d, p)
                          \/ InHand(r) /\ \E h \in r.hand : h.email = t.email
  /\ InHand(r) => \A h \in r.hand : AsOn(h, p)
  /\ r.pc \in {"fill", "store"} => \A h \in r.hand : Known(h, d)
  /\ \A z \in r.seen : OnPanel(z, p) /\ Known(z, d)
  /\ InHand(r) \/ r.todo # {} => OwesAll(r, p)

\* What a run knows of the tables, and the tables of a run that has come so far,
\* whatever other requests do.
QuietRun(r, d, p) ==
  /\ r.pc \in {"cache", "rows", "clear"} \cup Importing =>
       r.snap = SnapOf(p) /\ r.ids = DOMAIN p
  /\ r.pc \in {"rows", "clear"} \/ Cleared(r) => RowsOf(d.rows, p)
  /\ r.pc \in {"clear"} \cup Importing =>
       /\ \A i \in DOMAIN p : HasRow(r.cached, i)
       /\ \A q \in r.cached, x \in d.rows : q.id = x.id => q.local = x.local
  /\ r.pc \in {"fetch", "cache", "rows", "clear"} =>
       r.seen = {} /\ \A u \in d.users : OnPanel(u, p) \/ u.email \in r.before
  /\ Cleared(r) => \A g \in d.grants : Valid(g, d, p)
  /\ r.pc \in Importing => Working(r, d, p)
  /\ Imported(r) => /\ \A t \in SnapOf(p) : UserThere(t, d, p)
                    /\ \A u \in d.users : OnPanel(u, p)

Full(d, p) == \A t \in SnapOf(p) : \E u \in d.users : u.email = t.email

\* A run that will make the assignment of entry t: one about to create a user may
\* still fail.
Owes(r, t) == r.pc \in Importing \ {"create"} /\ [id |-> t.id, email |-> t.email] \in r.owed

\* Once all users are there, and some run has cleared the assignments, every entry has
\* its assignment or a run that will make it.
CoverInv ==
  Full(db, panel) /\ (\E s \in Requests : Cleared(run[s])) =>
    \A t \in SnapOf(panel) : Provided(t, db) \/ \E s \in Requests : Owes(run[s], t)

Untouched ==
  left.changes = MaxChanges /\ left.edits = MaxEdits /\ left.slips = MaxSlips

QuietInv ==
  /\ left.changes <= MaxChanges /\ left.edits <= MaxEdits /\ left.slips <= MaxSlips
  /\ Untouched => CoverInv /\ \A s \in Requests : QuietRun(run[s], db, panel)

\* What the steps of requests do to the tables: users of the panel stay, and stay as
\* they are on it, others only go, and no assignment is added but the panel's.
Settles(d, e, p) ==
  /\ \A u \in d.users : OnPanel(u, p) =>
       \E v \in e.users : v.uid = u.uid /\ v.email = u.email /\ (AsOn(u, p) => AsOn(v, p))
  /\ \A v \in e.users : OnPanel(v, p) \/ Known(v, d)
  /\ RowsOf(d.rows, p) => RowsOf(e.rows, p)
  /\ \A g \in e.grants : g \in d.grants \/ Valid(g, e, p)

\* A step of a run from r to n that keeps CoverInv: the run owes everything, or no entry
\* loses its assignment or the run that will make it.
Carries(r, n, d, e, p) ==
  Full(e, p) =>
    \/ \A t \in SnapOf(p) : Owes(n, t)
    \/ /\ Full(d, p)
       /\ Cleared(n) => Cleared(r)
       /\ \A t \in SnapOf(p) : Provided(t, d) \/ Owes(r, t) => Provided(t, e) \/ Owes(n, t)

\* What a run knows survives what the others do.
LEMMA QuietFrame ==
  ASSUME NEW r, NEW d, NEW e, NEW p, QuietRun(r, d, p), Settles(d, e, p), Evolves(d, e)
  PROVE  QuietRun(r, e, p)
<1>1. ASSUME NEW z, AsOn(z, p) PROVE OnPanel(z, p)
  BY <1>1 DEF AsOn, OnPanel
<1>2. ASSUME NEW z, OnPanel(z, p), Known(z, d) PROVE Known(z, e)
  <2>1. PICK u \in d.users : u.uid = z.uid /\ u.email = z.email
    BY <1>2 DEF Known
  <2>2. OnPanel(u, p)
    BY <1>2, <2>1 DEF OnPanel
  <2> QED BY <2>1, <2>2 DEF Settles, Known
<1>3. ASSUME NEW t \in SnapOf(p), UserThere(t, d, p) PROVE UserThere(t, e, p)
  <2>1. PICK u \in d.users : u.email = t.email /\ AsOn(u, p)
    BY <1>3 DEF UserThere
  <2> QED BY <1>1, <2>1 DEF Settles, UserThere
<1>4. ASSUME NEW v \in e.users, ~OnPanel(v, p)
      PROVE  \E u \in d.users : u.uid = v.uid /\ u.email = v.email /\ ~OnPanel(u, p)
  <2>1. PICK u \in d.users : u.uid = v.uid /\ u.email = v.email
    BY <1>4 DEF Settles, Known
  <2> QED BY <1>4, <2>1 DEF OnPanel
<1>5. ASSUME RowsOf(d.rows, p)
      PROVE  /\ RowsOf(e.rows, p)
             /\ \A x \in e.rows : \E q \in d.rows : q.id = x.id /\ q.local = x.local
             /\ \A q \in d.rows : \E x \in e.rows : q.id = x.id /\ q.local = x.local
  BY <1>5 DEF Settles, RowsOf, HasRow, Evolves
<1>6. ASSUME RowsOf(d.rows, p), NEW g, Valid(g, d, p) PROVE Valid(g, e, p)
  <2>1. PICK u \in d.users, q \in d.rows :
          /\ g.uid = u.uid /\ g.local = q.local /\ g.email = u.email
          /\ \E t \in SnapOf(p) : t.id = q.id /\ t.email = u.email
    BY <1>6 DEF Valid
  <2>2. OnPanel(u, p)
    BY <2>1 DEF OnPanel
  <2>3. PICK v \in e.users : v.uid = u.uid /\ v.email = u.email
    BY <2>2 DEF Settles
  <2>4. PICK x \in e.rows : q.id = x.id /\ q.local = x.local
    BY <1>5, <1>6
  <2> QED BY <2>1, <2>3, <2>4 DEF Valid
<1>7. ASSUME Working(r, d, p) PROVE Working(r, e, p)
  <2>1. ASSUME NEW v \in e.users
        PROVE  \/ OnPanel(v, p) \/ v.email \in r.gone
               \/ r.pc = "drop" /\ \E h \in r.hand : h.uid = v.uid
    BY <1>4, <1>7 DEF Working
  <2>2. \A z \in r.seen : OnPanel(z, p) /\ Known(z, e)
    BY <1>2, <1>7 DEF Working
  <2>3. r.pc \in {"fill", "store"} => \A h \in r.hand : Known(h, e)
    BY <1>1, <1>2, <1>7 DEF Working, InHand
  <2>4. \A t \in SnapOf(p) : \/ t \in r.todo \/ UserThere(t, e, p)
                             \/ InHand(r) /\ \E h \in r.hand : h.email = t.email
    BY <1>3, <1>7 DEF Working
  <2> QED BY <1>7, <2>1, <2>2, <2>3, <2>4 DEF Working
<1>8. r.pc \in {"rows", "clear"} \/ Cleared(r) => RowsOf(d.rows, p) /\ RowsOf(e.rows, p)
  BY <1>5 DEF QuietRun
<1>9. ASSUME r.pc \in {"clear"} \cup Importing, NEW q \in r.cached, NEW x \in e.rows, q.id = x.id
      PROVE  q.local = x.local
  <2>1. RowsOf(d.rows, p)
    BY <1>8, <1>9 DEF Cleared
  <2>2. PICK y \in d.rows : y.id = x.id /\ y.local = x.local
    BY <1>5, <2>1
  <2> QED BY <1>9, <2>2 DEF QuietRun
<1>10. Cleared(r) => \A g \in e.grants : Valid(g, e, p)
  BY <1>6, <1>8 DEF QuietRun, Settles
<1>11. ASSUME r.pc \in {"fetch", "cache", "rows", "clear"}, NEW v \in e.users
       PROVE  OnPanel(v, p) \/ v.email \in r.before
  BY <1>4, <1>11 DEF QuietRun
<1>12. Imported(r) => \A v \in e.users : OnPanel(v, p)
  BY <1>4 DEF QuietRun
<1>13. Imported(r) => \A t \in SnapOf(p) : UserThere(t, e, p)
  BY <1>3 DEF QuietRun
<1> QED BY <1>7, <1>8, <1>9, <1>10, <1>11, <1>12, <1>13 DEF QuietRun

\* A step of run s.
LEMMA MoveQuiet ==
  ASSUME Inv, QuietInv, NEW s \in Requests, NEW n, Go(s, n), panel' = panel,
         left'.changes = left.changes, left'.edits = left.edits, left'.slips = left.slips,
         Evolves(db, db'),
         Untouched => /\ Settles(db, db', panel) /\ QuietRun(n, db', panel)
                      /\ Carries(run[s], n, db, db', panel)
  PROVE  QuietInv'
<1>1. run'[s] = n /\ \A u \in Requests \ {s} : run'[u] = run[u]
  BY DEF Go, Inv, TypeOK
<1>2. (Untouched' <=> Untouched) /\ left'.changes <= MaxChanges /\ left'.edits <= MaxEdits
      /\ left'.slips <= MaxSlips
  BY DEF Untouched, QuietInv
<1>3. SUFFICES ASSUME Untouched
               PROVE  CoverInv' /\ \A u \in Requests : QuietRun(run'[u], db', panel)
  BY <1>2 DEF QuietInv
<1>4. CoverInv /\ \A u \in Requests : QuietRun(run[u], db, panel)
  BY <1>3 DEF QuietInv
<1>5. ASSUME NEW u \in Requests PROVE QuietRun(run'[u], db', panel)
  <2>1. CASE u = s
    BY <1>1, <1>3, <2>1
  <2>2. CASE u # s
    BY <1>1, <1>3, <1>4, <2>2, QuietFrame
  <2> QED BY <2>1, <2>2
<1>6. ASSUME Full(db', panel), NEW u \in Requests, Cleared(run'[u]), NEW t \in SnapOf(panel)
      PROVE  Provided(t, db') \/ \E q \in Requests : Owes(run'[q], t)
  <2>1. CASE Owes(n, t)
    BY <1>1, <2>1
  <2>2. CASE /\ Full(db, panel) /\ (Cleared(n) => Cleared(run[s]))
             /\ Provided(t, db) \/ Owes(run[s], t) => Provided(t, db') \/ Owes(n, t)
    <3>1. Cleared(run[u])
      BY <1>1, <1>6, <2>2
    <3>2. Provided(t, db) \/ \E q \in Requests : Owes(run[q], t)
      BY <1>4, <2>2, <3>1 DEF CoverInv
    <3> QED BY <1>1, <2>2, <3>2
  <2> QED BY <1>3, <1>6, <2>1, <2>2 DEF Carries
<1>7. CoverInv'
  BY <1>6 DEF CoverInv
<1> QED BY <1>5, <1>7

LEMMA SettlesSame ==
  ASSUME NEW d, NEW p PROVE Settles(d, d, p)
BY DEF Settles, Known

\* A run that gives up leaves nothing behind that it owed.
LEMMA StoppedQuiet ==
  ASSUME Inv, QuietInv, NEW s \in Requests, run[s].pc \notin Importing \ {"create"},
         NEW x, x = Abort(run[s]) \/ x = Ended("failed"), Go(s, x), panel' = panel, db' = db,
         left'.changes = left.changes, left'.edits = left.edits, left'.slips = left.slips
  PROVE  QuietInv'
<1>1. x.pc \in {"read", "failed"} /\ x.imported = FALSE
  BY DEF Abort, Ended, Idle
<1>2. ~Cleared(x) /\ QuietRun(x, db', panel)
  BY <1>1 DEF Cleared, Imported, Past, Importing, QuietRun
<1>3. Carries(run[s], x, db, db', panel)
  BY <1>2 DEF Carries, Owes
<1> QED BY <1>2, <1>3, SettlesSame, Types, MoveQuiet

LEMMA FetchQuiet ==
  ASSUME Inv, QuietInv, NEW s \in Requests, Fetch(s) PROVE QuietInv'
<1> DEFINE r == run[s]
           next == [r EXCEPT !.pc = "cache", !.snap = SnapOf(panel), !.ids = DOMAIN panel]
<1>1. /\ r \in RunState /\ r.pc = "fetch" /\ panel' = panel /\ db' = db
      /\ left'.changes = left.changes /\ left'.edits = left.edits /\ left'.slips = left.slips
  BY Types DEF Fetch, Left
<1>2. CASE Go(s, Abort(r))
  <2>1. r.pc \notin Importing \ {"create"}
    BY <1>1 DEF Importing
  <2> QED BY <1>1, <1>2, <2>1, StoppedQuiet
<1>3. CASE Go(s, next)
  <2>1. /\ next.pc = "cache" /\ next.snap = SnapOf(panel) /\ next.ids = DOMAIN panel
        /\ next.seen = r.seen /\ next.before = r.before
    BY <1>1 DEF RunState
  <2> HIDE DEF next
  <2>2. ~Cleared(next)
    BY <2>1 DEF Cleared, Imported, Past, Importing
  <2>3. Carries(r, next, db, db', panel)
    BY <1>1, <2>2 DEF Carries, Owes, Importing
  <2>4. Untouched => QuietRun(next, db', panel)
    BY <1>1, <2>1, <2>2 DEF QuietInv, QuietRun, Importing, Imported, Cleared
  <2> QED BY <1>1, <1>3, <2>3, <2>4, SettlesSame, Types, MoveQuiet
<1> QED BY <1>2, <1>3 DEF Fetch

\* EnsureServerInbounds removes no assignment of an inbound the panel has.
LEMMA CacheQuiet ==
  ASSUME Inv, QuietInv, NEW s \in Requests, Cache(s) PROVE QuietInv'
<1> DEFINE r == run[s]
           next == [r EXCEPT !.pc = "rows"]
           lost == {q.local : q \in {x \in db.rows : x.id \notin r.ids}}
<1>1. /\ r \in RunState /\ r.pc = "cache" /\ panel' = panel /\ left' = left
      /\ Go(s, next) /\ db' = EnsureServerInbounds(r, db)
      /\ db \in Db /\ Consistent(db) /\ Evolves(db, db')
  BY Types, CacheKeeps DEF Cache
<1>2. /\ next.pc = "rows" /\ next.snap = r.snap /\ next.ids = r.ids /\ next.seen = r.seen
      /\ next.before = r.before
  BY <1>1 DEF RunState
<1>3. db'.users = db.users /\ db'.grants = {g \in db.grants : g.local \notin lost}
  BY <1>1 DEF EnsureServerInbounds, Db
<1>4. RowsAre(r, db'.rows)
  BY <1>1, EnsureRows
<1> HIDE DEF next
<1>5. ASSUME Untouched
      PROVE  /\ Settles(db, db', panel) /\ QuietRun(next, db', panel)
             /\ Carries(r, next, db, db', panel)
  <2>1. QuietRun(r, db, panel) /\ r.snap = SnapOf(panel) /\ r.ids = DOMAIN panel
    BY <1>1, <1>5 DEF QuietInv, QuietRun
  <2>2. RowsOf(db'.rows, panel)
    BY <1>4, <2>1 DEF RowsAre, RowsOf
  <2>3. Settles(db, db', panel)
    BY <1>3, <2>2 DEF Settles, Known
  <2> HIDE DEF r
  <2>4. QuietRun(r, db', panel)
    BY <1>1, <2>1, <2>3, QuietFrame
  <2>5. QuietRun(next, db', panel)
    BY <1>1, <1>2, <2>1, <2>2, <2>4 DEF QuietRun, Importing, Cleared, Imported, Past
  <2>6. ASSUME NEW t \in SnapOf(panel), Provided(t, db) PROVE Provided(t, db')
    <3>1. PICK g \in db.grants, q \in db.rows :
            g.email = t.email /\ g.local = q.local /\ q.id = t.id
      BY <2>6 DEF Provided
    <3>2. t.id \in DOMAIN panel
      BY DEF SnapOf
    <3>3. g.local \notin lost
      BY <1>1, <2>1, <3>1, <3>2 DEF Consistent
    <3>4. PICK y \in db'.rows : y.id = t.id
      BY <2>2, <3>2 DEF RowsOf, HasRow
    <3>5. y.local = q.local
      BY <1>1, <3>1, <3>4 DEF Evolves
    <3> QED BY <1>3, <3>1, <3>3, <3>4, <3>5 DEF Provided
  <2>7. Carries(r, next, db, db', panel)
    BY <1>1, <1>2, <1>3, <2>6
       DEF Carries, Full, Owes, Importing, Cleared, Imported, Past
  <2> QED BY <2>3, <2>5, <2>7
<1> QED BY <1>1, <1>5, MoveQuiet

LEMMA ReadBackQuiet ==
  ASSUME Inv, QuietInv, NEW s \in Requests, ReadBack(s) PROVE QuietInv'
<1> DEFINE r == run[s]
           next == [r EXCEPT !.pc = "clear", !.cached = db.rows]
<1>1. /\ r \in RunState /\ r.pc = "rows" /\ panel' = panel /\ left' = left /\ db' = db
      /\ Go(s, next) /\ Consistent(db)
  BY Types DEF ReadBack
<1>2. /\ next.pc = "clear" /\ next.snap = r.snap /\ next.ids = r.ids /\ next.seen = r.seen
      /\ next.before = r.before /\ next.cached = db.rows
  BY <1>1 DEF RunState
<1> HIDE DEF next
<1>3. ~Cleared(next) /\ ~Cleared(r)
  BY <1>1, <1>2 DEF Cleared, Imported, Past, Importing
<1>4. Untouched => QuietRun(next, db', panel)
  BY <1>1, <1>2, <1>3
     DEF QuietInv, QuietRun, RowsOf, Consistent, Importing, Imported, Cleared
<1>5. Carries(r, next, db, db', panel)
  BY <1>1, <1>3 DEF Carries, Owes, Importing
<1> QED BY <1>1, <1>4, <1>5, SettlesSame, Types, MoveQuiet

\* After DeleteAssignmentsByServer the run owes every assignment.
LEMMA ClearQuiet ==
  ASSUME Inv, QuietInv, NEW s \in Requests, ClearAssignments(s) PROVE QuietInv'
<1> DEFINE r == run[s]
           gone == r.before \ {t.email : t \in r.snap}
           next == [r EXCEPT !.pc = "users", !.todo = r.snap, !.owed = Assignments(r),
                             !.gone = gone]
<1>1. /\ r \in RunState /\ r.pc = "clear" /\ panel' = panel /\ left' = left /\ db \in Db
      /\ Go(s, next) /\ Evolves(db, db') /\ db'.rows = db.rows /\ db'.grants = {}
      /\ db'.users = db.users
  BY Types, ClearKeeps DEF ClearAssignments, Db
<1>2. /\ next.pc = "users" /\ next.snap = r.snap /\ next.ids = r.ids /\ next.seen = r.seen
      /\ next.cached = r.cached /\ next.todo = r.snap /\ next.owed = Assignments(r)
      /\ next.gone = gone
  BY <1>1 DEF RunState
<1> HIDE DEF next
<1>3. ASSUME Untouched
      PROVE  /\ Settles(db, db', panel) /\ QuietRun(next, db', panel)
             /\ Carries(r, next, db, db', panel)
  <2>1. QuietRun(r, db, panel) /\ r.snap = SnapOf(panel) /\ r.ids = DOMAIN panel
    BY <1>1, <1>3 DEF QuietInv, QuietRun
  <2>2. Settles(db, db', panel)
    BY <1>1 DEF Settles, Known
  <2>3. ASSUME NEW t \in SnapOf(panel) PROVE [id |-> t.id, email |-> t.email] \in next.owed
    <3>1. t \in Todo /\ t.id \in DOMAIN panel
      BY DEF SnapOf
    <3>2. [id |-> t.id, email |-> t.email] \in Owed
      BY <3>1 DEF Todo, Owed
    <3>3. HasRow(r.cached, t.id)
      BY <1>1, <2>1, <3>1 DEF QuietRun
    <3> QED BY <1>2, <2>1, <3>2, <3>3 DEF Assignments
  <2>4. ASSUME NEW u \in db.users PROVE OnPanel(u, panel) \/ u.email \in gone
    BY <1>1, <2>1 DEF QuietRun, OnPanel
  <2>5. r.seen = {}
    BY <1>1, <2>1 DEF QuietRun
  <2> HIDE DEF gone
  <2>6. Working(next, db', panel)
    BY <1>1, <1>2, <2>1, <2>3, <2>4, <2>5 DEF Working, InHand, OwesAll
  <2>7. Carries(r, next, db, db', panel)
    BY <1>2, <2>3 DEF Carries, Owes, Importing
  <2> HIDE DEF r
  <2>8. QuietRun(next, db', panel)
    BY <1>1, <1>2, <2>1, <2>6 DEF QuietRun, Importing, Imported, Past
  <2> QED BY <2>2, <2>7, <2>8
<1> QED BY <1>1, <1>3, MoveQuiet

\* Going round the loops.
LEMMA LoopQuiet ==
  ASSUME NEW r, NEW n, NEW e, NEW p, QuietRun(r, e, p), r.pc \in Importing, n.pc \in Importing,
         n.snap = r.snap, n.ids = r.ids, n.cached = r.cached, Working(n, e, p)
  PROVE  QuietRun(n, e, p)
<1>1. n.pc \notin {"fetch", "cache", "rows", "clear", "read", "plan", "done"}
  BY DEF Importing
<1>2. Cleared(r) /\ ~Imported(n)
  BY <1>1 DEF Cleared, Imported, Past
<1> QED BY <1>1, <1>2 DEF QuietRun

LEMMA LoopStep ==
  ASSUME Inv, QuietInv, NEW s \in Requests, run[s].pc \in Importing,
         NEW n, Go(s, n), n.pc \in Importing, n.snap = run[s].snap, n.ids = run[s].ids,
         n.cached = run[s].cached, panel' = panel, left' = left, Evolves(db, db'),
         ASSUME Untouched, QuietRun(run[s], db, panel)
         PROVE  Settles(db, db', panel) /\ Carries(run[s], n, db, db', panel),
         ASSUME Untouched, QuietRun(run[s], db', panel), Working(run[s], db', panel)
         PROVE  Working(n, db', panel)
  PROVE  QuietInv'
<1>1. ASSUME Untouched
      PROVE  /\ Settles(db, db', panel) /\ QuietRun(n, db', panel)
             /\ Carries(run[s], n, db, db', panel)
  <2>1. QuietRun(run[s], db, panel)
    BY <1>1 DEF QuietInv
  <2>2. Settles(db, db', panel) /\ Carries(run[s], n, db, db', panel)
    BY <1>1, <2>1
  <2>3. QuietRun(run[s], db', panel)
    BY <2>1, <2>2, QuietFrame
  <2>4. Working(run[s], db', panel)
    BY <2>3 DEF QuietRun
  <2>5. Working(n, db', panel)
    BY <1>1, <2>3, <2>4
  <2>6. QuietRun(n, db', panel)
    BY <2>3, <2>5, LoopQuiet
  <2> QED BY <2>2, <2>6
<1> QED BY <1>1, MoveQuiet

\* A step that leaves the tables alone and what is owed.
LEMMA LookStep ==
  ASSUME Inv, QuietInv, NEW s \in Requests, run[s].pc \in Importing,
         NEW n, Go(s, n), n.pc \in Importing, n.snap = run[s].snap, n.ids = run[s].ids,
         n.cached = run[s].cached, n.owed = run[s].owed, panel' = panel, left' = left, db' = db,
         n.pc = "create" => ~Full(db, panel) \/ run[s].pc = "create",
         ASSUME Untouched, QuietRun(run[s], db, panel), Working(run[s], db, panel)
         PROVE  Working(n, db, panel)
  PROVE  QuietInv'
<1>1. Carries(run[s], n, db, db', panel)
  BY DEF Carries, Owes, Cleared
<1> QED BY <1>1, SettlesSame, Types, LoopStep

LEMMA LookUpQuiet ==
  ASSUME Inv, QuietInv, NEW s \in Requests, LookUp(s) PROVE QuietInv'
<1> DEFINE r == run[s]
<1>1. /\ r \in RunState /\ r.pc = "users" /\ r.pc \in Importing /\ panel' = panel /\ left' = left
      /\ db \in Db /\ Consistent(db) /\ db' = db
  BY Types DEF LookUp, Importing
<1>2. PICK t \in r.todo :
        LET rest == [r EXCEPT !.todo = @ \ {t}]
            new  == [uid |-> 0, email |-> t.email, cred |-> t.cred, pref |-> NoPref]
        IN \/ ByEmail(db, t.email) = {} /\ Go(s, [rest EXCEPT !.pc = "create", !.hand = {new}])
           \/ \E u \in ByEmail(db, t.email) :
                Go(s, IF u.cred = t.cred
                      THEN [rest EXCEPT !.seen = See(@, t.email, u.uid)]
                      ELSE [rest EXCEPT !.pc = "fill", !.hand = {[u EXCEPT !.cred = t.cred]}])
  BY DEF LookUp
<1>3. ASSUME NEW how \in {"create", "fill"}, NEW h, h.email = t.email, h.cred = t.cred,
             Go(s, [[r EXCEPT !.todo = @ \ {t}] EXCEPT !.pc = how, !.hand = {h}]),
             how = "create" => ByEmail(db, t.email) = {}, how = "fill" => Known(h, db)
      PROVE  QuietInv'
  <2> DEFINE next == [[r EXCEPT !.todo = @ \ {t}] EXCEPT !.pc = how, !.hand = {h}]
  <2>1. /\ next.pc = how /\ next.hand = {h} /\ next.snap = r.snap /\ next.gone = r.gone
        /\ next.ids = r.ids /\ next.cached = r.cached /\ next.owed = r.owed
        /\ next.todo = r.todo \ {t} /\ next.seen = r.seen
    BY <1>1 DEF RunState
  <2>2. Go(s, next)
    BY <1>3
  <2> HIDE DEF next
  <2>3. ASSUME Working(r, db, panel) PROVE Working(next, db, panel) /\ t \in SnapOf(panel)
    <3>1. t \in SnapOf(panel) /\ OwesAll(r, panel)
      BY <2>3 DEF Working
    <3>2. \A g \in next.hand : AsOn(g, panel)
      BY <1>3, <2>1, <3>1 DEF AsOn
    <3>3. OwesAll(next, panel)
      BY <2>1, <3>1 DEF OwesAll
    <3>4. InHand(next) /\ ~InHand(r)
      BY <1>1, <2>1 DEF InHand
    <3> QED BY <1>1, <1>3, <2>1, <2>3, <3>1, <3>2, <3>3, <3>4 DEF Working
  <2>4. next.pc \in Importing
    BY <2>1 DEF Importing
  <2>5. t \in SnapOf(panel) /\ how = "create" => ~Full(db, panel)
    BY <1>3 DEF Full, ByEmail
  <2>6. CASE Untouched
    <3>1. t \in SnapOf(panel)
      BY <1>1, <2>3, <2>6 DEF QuietInv, QuietRun
    <3> HIDE DEF r
    <3> QED BY <1>1, <2>1, <2>2, <2>3, <2>4, <2>5, <3>1, LookStep DEF r
  <2>7. CASE ~Untouched
    BY <1>1, <2>2, <2>7, Types, MoveQuiet
  <2> QED BY <2>6, <2>7
<1>4. CASE \E u \in ByEmail(db, t.email) :
             Go(s, IF u.cred = t.cred
                   THEN [[r EXCEPT !.todo = @ \ {t}] EXCEPT !.seen = See(@, t.email, u.uid)]
                   ELSE [[r EXCEPT !.todo = @ \ {t}] EXCEPT
                           !.pc = "fill", !.hand = {[u EXCEPT !.cred = t.cred]}])
  <2>1. PICK u \in ByEmail(db, t.email) :
             Go(s, IF u.cred = t.cred
                   THEN [[r EXCEPT !.todo = @ \ {t}] EXCEPT !.seen = See(@, t.email, u.uid)]
                   ELSE [[r EXCEPT !.todo = @ \ {t}] EXCEPT
                           !.pc = "fill", !.hand = {[u EXCEPT !.cred = t.cred]}])
    BY <1>4
  <2>2. u \in db.users /\ u.email = t.email /\ u \in User
    BY <1>1 DEF ByEmail, Db
  <2>3. CASE u.cred = t.cred
    <3> DEFINE next == [[r EXCEPT !.todo = @ \ {t}] EXCEPT !.seen = See(@, t.email, u.uid)]
    <3>1. /\ next.pc = "users" /\ next.snap = r.snap /\ next.gone = r.gone
          /\ next.ids = r.ids /\ next.cached = r.cached /\ next.owed = r.owed
          /\ next.todo = r.todo \ {t} /\ next.seen = See(r.seen, t.email, u.uid)
          /\ next.hand = r.hand
      BY <1>1 DEF RunState
    <3>2. Go(s, next)
      BY <2>1, <2>3
    <3> HIDE DEF next
    <3>3. ASSUME Working(r, db, panel) PROVE Working(next, db, panel)
      <4>1. t \in SnapOf(panel) /\ OwesAll(r, panel)
        BY <3>3 DEF Working
      <4>2. \A z \in next.seen : z \in r.seen \/ (OnPanel(z, panel) /\ Known(z, db))
        BY <2>2, <3>1, <4>1 DEF See, Known, OnPanel
      <4>3. \A x \in SnapOf(panel) : x.email = t.email => UserThere(x, db, panel)
        BY <2>2, <2>3, <4>1 DEF UserThere, AsOn
      <4>4. OwesAll(next, panel) /\ ~InHand(next) /\ ~InHand(r)
        BY <1>1, <3>1, <4>1 DEF OwesAll, InHand
      <4> QED BY <1>1, <3>1, <3>3, <4>2, <4>3, <4>4 DEF Working
    <3>4. next.pc \in Importing
      BY <3>1 DEF Importing
    <3> HIDE DEF r
    <3> QED BY <1>1, <3>1, <3>2, <3>3, <3>4, LookStep DEF r
  <2>4. CASE u.cred # t.cred
    <3> DEFINE h == [u EXCEPT !.cred = t.cred]
    <3>1. h.uid = u.uid /\ h.email = u.email /\ h.cred = t.cred
      BY <2>2 DEF User
    <3>2. Go(s, [[r EXCEPT !.todo = @ \ {t}] EXCEPT !.pc = "fill", !.hand = {h}])
      BY <2>1, <2>4
    <3> HIDE DEF h
    <3>3. Known(h, db)
      BY <2>2, <3>1 DEF Known
    <3> QED BY <1>3, <2>2, <3>1, <3>2, <3>3
  <2> QED BY <2>3, <2>4
<1>5. CASE /\ ByEmail(db, t.email) = {}
           /\ Go(s, [[r EXCEPT !.todo = @ \ {t}] EXCEPT !.pc = "create",
                   !.hand = {[uid |-> 0, email |-> t.email, cred |-> t.cred, pref |-> NoPref]}])
  <2> DEFINE h == [uid |-> 0, email |-> t.email, cred |-> t.cred, pref |-> NoPref]
  <2>1. h.email = t.email /\ h.cred = t.cred
    OBVIOUS
  <2>2. Go(s, [[r EXCEPT !.todo = @ \ {t}] EXCEPT !.pc = "create", !.hand = {h}])
    BY <1>5
  <2> HIDE DEF h
  <2> QED BY <1>3, <1>5, <2>1, <2>2
<1> QED BY <1>2, <1>4, <1>5

\* A user was stored.
LEMMA SeenQuiet ==
  ASSUME NEW r \in RunState, NEW e, NEW p, Working(r, e, p), InHand(r), NEW h \in r.hand,
         \A g \in r.hand : g = h, NEW v \in e.users, v.email = h.email, AsOn(v, p),
         NEW n, n.pc = "users", n.hand = {}, n.todo = r.todo, n.gone = r.gone,
         n.owed = r.owed, n.seen = See(r.seen, h.email, v.uid)
  PROVE  Working(n, e, p) /\ OwesAll(n, p)
<1>1. ~InHand(n) /\ r.pc # "drop" /\ OwesAll(r, p) /\ OwesAll(n, p)
  BY DEF InHand, Working, OwesAll
<1>2. \A z \in n.seen : z \in r.seen \/ (OnPanel(z, p) /\ Known(z, e))
  BY DEF See, Known, OnPanel, AsOn
<1>3. \A t \in SnapOf(p) : t.email = h.email => UserThere(t, e, p)
  BY DEF UserThere
<1> QED BY <1>1, <1>2, <1>3 DEF Working

LEMMA CreateQuiet ==
  ASSUME Inv, QuietInv, NEW s \in Requests, Create(s) PROVE QuietInv'
<1> DEFINE r == run[s]
<1>1. /\ r \in RunState /\ r.pc = "create" /\ db \in Db /\ Consistent(db) /\ RunInv(r, db)
      /\ panel' = panel /\ left' = left /\ Evolves(db, db')
  BY Types, CreateKeeps DEF Create
<1>2. PICK h \in r.hand :
        \/ /\ db' = [db EXCEPT !.users = @ \cup {[h EXCEPT !.uid = db.nextUid]},
                               !.nextUid = @ + 1]
           /\ Go(s, [r EXCEPT !.pc = "users", !.hand = {},
                              !.seen = See(@, h.email, db.nextUid)])
        \/ Go(s, Abort(r)) /\ db' = db
  BY DEF Create
<1>3. CASE Go(s, Abort(r)) /\ db' = db
  BY <1>1, <1>3, StoppedQuiet
<1>4. CASE /\ db' = [db EXCEPT !.users = @ \cup {[h EXCEPT !.uid = db.nextUid]},
                               !.nextUid = @ + 1]
           /\ Go(s, [r EXCEPT !.pc = "users", !.hand = {},
                              !.seen = See(@, h.email, db.nextUid)])
  <2> DEFINE new == [h EXCEPT !.uid = db.nextUid]
             next == [r EXCEPT !.pc = "users", !.hand = {}, !.seen = See(@, h.email, db.nextUid)]
  <2>1. new.uid = db.nextUid /\ new.email = h.email /\ new.cred = h.cred
    BY <1>1 DEF RunState, User
  <2>2. db'.users = db.users \cup {new} /\ db'.rows = db.rows /\ db'.grants = db.grants
    BY <1>1, <1>4 DEF Db
  <2>3. /\ next.pc = "users" /\ next.snap = r.snap /\ next.gone = r.gone
        /\ next.ids = r.ids /\ next.cached = r.cached /\ next.owed = r.owed
        /\ next.todo = r.todo /\ next.seen = See(r.seen, h.email, db.nextUid)
        /\ next.hand = {}
    BY <1>1 DEF RunState
  <2>4. Go(s, next)
    BY <1>4
  <2> HIDE DEF new, next
  <2>5. \A g \in r.hand : g = h
    BY <1>1 DEF RunInv
  <2>6. r.pc \in Importing /\ next.pc \in Importing /\ InHand(r)
    BY <1>1, <2>3 DEF Importing, InHand
  <2>7. AsOn(h, panel) => AsOn(new, panel)
    BY <2>1 DEF AsOn
  <2>8. ASSUME QuietRun(r, db, panel)
        PROVE  Settles(db, db', panel) /\ Carries(r, next, db, db', panel)
    <3>1. AsOn(h, panel) /\ OwesAll(r, panel)
      BY <2>6, <2>8 DEF QuietRun, Working
    <3>2. OnPanel(new, panel)
      BY <2>7, <3>1 DEF AsOn, OnPanel
    <3>3. Settles(db, db', panel)
      BY <2>2, <3>2 DEF Settles, Known
    <3>4. Carries(r, next, db, db', panel)
      BY <2>3, <3>1 DEF Carries, Owes, OwesAll, Importing
    <3> QED BY <3>3, <3>4
  <2>9. ASSUME Working(r, db', panel) PROVE Working(next, db', panel)
    <3>1. AsOn(new, panel) /\ new \in db'.users
      BY <2>2, <2>6, <2>7, <2>9 DEF Working
    <3> HIDE DEF r
    <3> QED BY <1>1, <2>1, <2>3, <2>5, <2>6, <2>9, <3>1, SeenQuiet
  <2> QED BY <1>1, <2>3, <2>4, <2>6, <2>8, <2>9, LoopStep
<1> QED BY <1>2, <1>3, <1>4

LEMMA FillQuiet ==
  ASSUME Inv, QuietInv, NEW s \in Requests, Fill(s) PROVE QuietInv'
<1> DEFINE r == run[s]
           filled(h) == IF h.pref = NoPref
                        THEN [h EXCEPT !.pref = PolicyNow(db, h.uid)] ELSE h
           next == [r EXCEPT !.pc = "store", !.hand = {filled(h) : h \in @}]
<1>1. r \in RunState /\ r.pc = "fill" /\ r.pc \in Importing
      /\ panel' = panel /\ left' = left /\ db' = db /\ Go(s, next)
  BY Types DEF Fill, Importing
<1>2. \A h \in r.hand :
        filled(h).uid = h.uid /\ filled(h).email = h.email /\ filled(h).cred = h.cred
  BY <1>1 DEF RunState, User
<1>3. /\ next.pc = "store" /\ next.hand = {filled(h) : h \in r.hand} /\ next.gone = r.gone
      /\ next.snap = r.snap /\ next.ids = r.ids /\ next.cached = r.cached /\ next.owed = r.owed
      /\ next.todo = r.todo /\ next.seen = r.seen
  BY <1>1 DEF RunState
<1> HIDE DEF next, filled
<1>4. ASSUME Working(r, db, panel) PROVE Working(next, db, panel)
  <2>1. InHand(r) /\ InHand(next) /\ OwesAll(r, panel) /\ OwesAll(next, panel)
    BY <1>1, <1>3, <1>4 DEF InHand, Working, OwesAll
  <2>2. \A g \in next.hand : AsOn(g, panel) /\ Known(g, db)
    BY <1>1, <1>2, <1>3, <1>4, <2>1 DEF Working, AsOn, Known
  <2>3. \A t : (\E h \in r.hand : h.email = t.email) => \E h \in next.hand : h.email = t.email
    BY <1>2, <1>3
  <2> QED BY <1>1, <1>3, <1>4, <2>1, <2>2, <2>3 DEF Working
<1>5. next.pc \in Importing
  BY <1>3 DEF Importing
<1> QED BY <1>1, <1>3, <1>4, <1>5, LookStep

LEMMA StoreQuiet ==
  ASSUME Inv, QuietInv, NEW s \in Requests, Store(s) PROVE QuietInv'
<1> DEFINE r == run[s]
<1>1. /\ r \in RunState /\ r.pc = "store" /\ r.pc \in Importing /\ InHand(r)
      /\ db \in Db /\ Consistent(db) /\ RunInv(r, db)
      /\ panel' = panel /\ left' = left /\ Evolves(db, db')
  BY Types, StoreKeeps DEF Store, Importing, InHand
<1>2. PICK h \in r.hand :
        /\ db' = [db EXCEPT !.users = {IF u.uid = h.uid THEN h ELSE u : u \in @}]
        /\ Go(s, [r EXCEPT !.pc = "users", !.hand = {}, !.seen = See(@, h.email, h.uid)])
  BY DEF Store
<1> DEFINE next == [r EXCEPT !.pc = "users", !.hand = {}, !.seen = See(@, h.email, h.uid)]
<1>3. /\ db'.users = {IF u.uid = h.uid THEN h ELSE u : u \in db.users}
      /\ db'.rows = db.rows /\ db'.grants = db.grants
  BY <1>1, <1>2 DEF Db
<1>4. /\ next.pc = "users" /\ next.snap = r.snap /\ next.gone = r.gone
      /\ next.ids = r.ids /\ next.cached = r.cached /\ next.owed = r.owed
      /\ next.todo = r.todo /\ next.seen = See(r.seen, h.email, h.uid)
      /\ next.hand = {}
  BY <1>1 DEF RunState
<1>5. Go(s, next) /\ next.pc \in Importing
  BY <1>2, <1>4 DEF Importing
<1> HIDE DEF next
<1>6. /\ \A g \in r.hand : g = h
      /\ \A u \in db.users : u.uid = h.uid => u.email = h.email
  BY <1>1 DEF RunInv, UsersBelow
<1>7. ASSUME QuietRun(r, db, panel)
      PROVE  Settles(db, db', panel) /\ Carries(r, next, db, db', panel)
  <2>1. AsOn(h, panel) /\ OwesAll(r, panel)
    BY <1>1, <1>7 DEF QuietRun, Working
  <2>2. ASSUME NEW u \in db.users
        PROVE  \E v \in db'.users : v.uid = u.uid /\ v.email = u.email
                                    /\ (AsOn(u, panel) => AsOn(v, panel))
    <3>1. CASE u.uid = h.uid
      BY <1>3, <1>6, <2>1, <3>1
    <3>2. CASE u.uid # h.uid
      BY <1>3, <3>2
    <3> QED BY <3>1, <3>2
  <2>3. \A v \in db'.users : Known(v, db)
    BY <1>3, <1>6 DEF Known
  <2>4. Settles(db, db', panel)
    BY <1>3, <2>2, <2>3 DEF Settles
  <2>5. Carries(r, next, db, db', panel)
    BY <1>4, <2>1 DEF Carries, Owes, OwesAll, Importing
  <2> QED BY <2>4, <2>5
<1>8. ASSUME Working(r, db', panel) PROVE Working(next, db', panel)
  <2>1. AsOn(h, panel) /\ Known(h, db')
    BY <1>1, <1>8 DEF Working
  <2>2. h \in db'.users
    BY <1>3, <2>1 DEF Known
  <2> HIDE DEF r
  <2> QED BY <1>1, <1>4, <1>6, <1>8, <2>1, <2>2, SeenQuiet
<1> QED BY <1>1, <1>4, <1>5, <1>7, <1>8, LoopStep

\* CreateAssignment makes an assignment of the panel's, or finds it made.
LEMMA AssignQuiet ==
  ASSUME Inv, QuietInv, NEW s \in Requests, Assign(s) PROVE QuietInv'
<1> DEFINE r == run[s]
<1>1. /\ r \in RunState /\ r.pc = "users" /\ r.todo = {} /\ r.pc \in Importing
      /\ db \in Db /\ Consistent(db) /\ RunInv(r, db)
      /\ panel' = panel /\ left' = left /\ Evolves(db, db')
  BY Types, AssignKeeps DEF Assign, Importing
<1>2. PICK o \in r.owed :
        LET g == [uid |-> SeenId(r, o.email), local |-> LocalOf(r.cached, o.id),
                  email |-> o.email]
        IN /\ db' = IF \E z \in db.grants : z.uid = g.uid /\ z.local = g.local THEN db
                    ELSE [db EXCEPT !.grants = @ \cup {g}]
           /\ Go(s, [r EXCEPT !.owed = @ \ {o}])
  BY DEF Assign
<1> DEFINE g == [uid |-> SeenId(r, o.email), local |-> LocalOf(r.cached, o.id),
                 email |-> o.email]
           next == [r EXCEPT !.owed = @ \ {o}]
<1>3. /\ Go(s, next) /\ g.uid = SeenId(r, o.email) /\ g.email = o.email
      /\ g.local = LocalOf(r.cached, o.id)
      /\ db' = IF \E z \in db.grants : z.uid = g.uid /\ z.local = g.local THEN db
               ELSE [db EXCEPT !.grants = @ \cup {g}]
  BY <1>2
<1>4. /\ next.pc = "users" /\ next.snap = r.snap /\ next.todo = r.todo /\ next.gone = r.gone
      /\ next.ids = r.ids /\ next.cached = r.cached /\ next.owed = r.owed \ {o}
      /\ next.seen = r.seen /\ next.hand = r.hand
  BY <1>1 DEF RunState
<1> HIDE DEF g, next
<1>5. /\ db'.users = db.users /\ db'.rows = db.rows
      /\ \/ db'.grants = db.grants \cup {g}
         \/ db'.grants = db.grants /\ \E z \in db.grants : z.uid = g.uid /\ z.local = g.local
  BY <1>1, <1>3 DEF Db
<1>6. next.pc \in Importing
  BY <1>4 DEF Importing
<1>7. ASSUME QuietRun(r, db, panel)
      PROVE  Settles(db, db', panel) /\ Carries(r, next, db, db', panel)
  <2>1. o \in Assignments(r) /\ Covered(r)
    BY <1>1 DEF RunInv, Importing
  <2>2. r.snap = SnapOf(panel) /\ r.ids = DOMAIN panel /\ Cleared(r) /\ RowsOf(db.rows, panel)
    BY <1>1, <1>7 DEF QuietRun, Cleared
  <2>3. PICK t \in SnapOf(panel) : t.id = o.id /\ t.email = o.email
    BY <2>1, <2>2 DEF Assignments
  <2>4. PICK u \in db.users : u.uid = g.uid /\ u.email = o.email
    <3>1. \E z \in r.seen : z.email = o.email
      BY <1>1, <2>1, <2>2, <2>3 DEF Covered
    <3> DEFINE first == CHOOSE z \in r.seen : z.email = o.email
    <3>2. first \in r.seen /\ first.email = o.email /\ SeenId(r, o.email) = first.uid
      BY <3>1 DEF SeenId
    <3> HIDE DEF first
    <3>3. Known(first, db)
      BY <1>1, <1>7, <3>2 DEF QuietRun, Working
    <3> QED BY <1>3, <3>2, <3>3 DEF Known
  <2>5. PICK q \in db.rows : q.id = o.id /\ q.local = g.local
    <3>1. \E x \in r.cached : x.id = o.id
      BY <2>1 DEF Assignments, HasRow
    <3> DEFINE first == CHOOSE x \in r.cached : x.id = o.id
    <3>2. first \in r.cached /\ first.id = o.id /\ LocalOf(r.cached, o.id) = first.local
      BY <3>1 DEF LocalOf
    <3> HIDE DEF first
    <3>3. t.id \in DOMAIN panel
      BY DEF SnapOf
    <3>4. PICK x \in db.rows : x.id = o.id
      BY <2>2, <2>3, <3>3 DEF RowsOf, HasRow
    <3>5. first.local = x.local
      BY <1>1, <1>7, <3>2, <3>4 DEF QuietRun
    <3> QED BY <1>3, <3>2, <3>4, <3>5
  <2>6. Valid(g, db', panel)
    BY <1>3, <1>5, <2>3, <2>4, <2>5 DEF Valid
  <2>7. Settles(db, db', panel)
    BY <1>5, <2>6 DEF Settles, Known
  <2>8. \E z \in db'.grants : z.email = o.email /\ z.local = q.local
    <3>1. CASE db'.grants = db.grants \cup {g}
      BY <1>3, <2>5, <3>1
    <3>2. CASE db'.grants = db.grants /\ \E z \in db.grants : z.uid = g.uid /\ z.local = g.local
      <4>1. PICK z \in db.grants : z.uid = g.uid /\ z.local = g.local
        BY <3>2
      <4>2. PICK v \in db.users : v.uid = z.uid /\ v.email = z.email
        BY <1>7, <2>2 DEF QuietRun, Valid
      <4>3. u = v
        BY <1>1, <2>4, <4>1, <4>2 DEF Consistent
      <4> QED BY <2>4, <2>5, <3>2, <4>1, <4>2, <4>3
    <3> QED BY <1>5, <3>1, <3>2
  <2>9. ASSUME NEW x \in SnapOf(panel), Owes(r, x) PROVE Owes(next, x) \/ Provided(x, db')
    <3>1. CASE [id |-> x.id, email |-> x.email] = o
      <4>1. o.id = x.id /\ o.email = x.email
        BY <3>1
      <4> QED BY <1>5, <2>5, <2>8, <4>1 DEF Provided
    <3>2. CASE [id |-> x.id, email |-> x.email] # o
      BY <1>4, <2>9, <3>2 DEF Owes, Importing
    <3> QED BY <3>1, <3>2
  <2>10. \A x : Provided(x, db) => Provided(x, db')
    BY <1>5 DEF Provided
  <2>11. Full(db', panel) => Full(db, panel)
    BY <1>5 DEF Full
  <2> QED BY <2>2, <2>7, <2>9, <2>10, <2>11 DEF Carries
<1>8. ASSUME Working(r, db', panel) PROVE Working(next, db', panel)
  <2>1. ~InHand(next) /\ ~InHand(r)
    BY <1>1, <1>4 DEF InHand
  <2> QED BY <1>1, <1>4, <1>8, <2>1 DEF Working
<1> QED BY <1>1, <1>3, <1>4, <1>6, <1>7, <1>8, LoopStep

LEMMA FindGoneQuiet ==
  ASSUME Inv, QuietInv, NEW s \in Requests, FindGone(s) PROVE QuietInv'
<1> DEFINE r == run[s]
<1>1. /\ r \in RunState /\ r.pc = "users" /\ r.pc \in Importing /\ r.todo = {}
      /\ panel' = panel /\ left' = left /\ db' = db /\ Consistent(db)
  BY Types DEF FindGone, Importing
<1>2. PICK e \in r.gone :
        Go(s, [r EXCEPT !.gone = @ \ {e}, !.hand = ByEmail(db, e),
                        !.pc = IF ByEmail(db, e) = {} THEN "users" ELSE "drop"])
  BY DEF FindGone
<1> DEFINE how  == IF ByEmail(db, e) = {} THEN "users" ELSE "drop"
           next == [r EXCEPT !.gone = @ \ {e}, !.hand = ByEmail(db, e), !.pc = how]
<1>3. Go(s, next) /\ how \in {"users", "drop"} /\ (how = "users" => ByEmail(db, e) = {})
  BY <1>2
<1> HIDE DEF how
<1>4. /\ next.pc = how /\ next.snap = r.snap /\ next.todo = r.todo /\ next.gone = r.gone \ {e}
      /\ next.ids = r.ids /\ next.cached = r.cached /\ next.owed = r.owed
      /\ next.seen = r.seen /\ next.hand = ByEmail(db, e)
  BY <1>1 DEF RunState
<1> HIDE DEF next
<1>5. next.pc \in Importing
  BY <1>3, <1>4 DEF Importing
<1>6. ASSUME Working(r, db, panel) PROVE Working(next, db, panel)
  <2>1. ~InHand(next) /\ ~InHand(r) /\ next.pc \notin {"fill", "store"}
    BY <1>1, <1>3, <1>4 DEF InHand
  <2>2. ASSUME NEW u \in db.users
        PROVE  \/ OnPanel(u, panel) \/ u.email \in next.gone
               \/ next.pc = "drop" /\ \E h \in next.hand : h.uid = u.uid
    <3>1. OnPanel(u, panel) \/ u.email \in r.gone
      BY <1>1, <1>6 DEF Working
    <3>2. CASE u.email = e
      <4>1. u \in ByEmail(db, e)
        BY <3>2 DEF ByEmail
      <4> QED BY <1>3, <1>4, <4>1
    <3>3. CASE u.email # e
      BY <1>4, <3>1, <3>3
    <3> QED BY <3>2, <3>3
  <2>3. \A g, h \in next.hand : g = h
    BY <1>1, <1>4 DEF ByEmail, Consistent
  <2> QED BY <1>1, <1>4, <1>6, <2>1, <2>2, <2>3 DEF Working
<1> QED BY <1>1, <1>3, <1>4, <1>5, <1>6, LookStep

\* The user that goes is not on the panel, nor are its assignments.
LEMMA DropGoneQuiet ==
  ASSUME Inv, QuietInv, NEW s \in Requests, DropGone(s) PROVE QuietInv'
<1> DEFINE r == run[s]
           next == [r EXCEPT !.pc = "users", !.hand = {}]
<1>1. /\ r \in RunState /\ r.pc = "drop" /\ r.pc \in Importing /\ db \in Db /\ Consistent(db)
      /\ RunInv(r, db) /\ panel' = panel /\ left' = left /\ Evolves(db, db') /\ Go(s, next)
  BY Types, DropGoneKeeps DEF DropGone, Importing
<1>2. PICK h \in r.hand : db' = WithoutUser(db, h.uid)
  BY DEF DropGone
<1>3. /\ db'.users = {u \in db.users : u.uid # h.uid}
      /\ db'.grants = {g \in db.grants : g.uid # h.uid}
      /\ db'.rows = db.rows
  BY <1>1, <1>2 DEF WithoutUser, Db
<1>4. /\ next.pc = "users" /\ next.snap = r.snap /\ next.todo = r.todo /\ next.gone = r.gone
      /\ next.ids = r.ids /\ next.cached = r.cached /\ next.owed = r.owed
      /\ next.seen = r.seen /\ next.hand = {}
  BY <1>1 DEF RunState
<1> HIDE DEF next
<1>5. next.pc \in Importing
  BY <1>4 DEF Importing
<1>6. ASSUME QuietRun(r, db, panel)
      PROVE  Settles(db, db', panel) /\ Carries(r, next, db, db', panel)
  <2>1. r.snap = SnapOf(panel) /\ Cleared(r)
    BY <1>1, <1>6 DEF QuietRun, Cleared
  <2>2. ASSUME NEW u \in db.users, OnPanel(u, panel) PROVE u.uid # h.uid
    BY <1>1, <2>1, <2>2 DEF RunInv, UsersBelow, OnPanel
  <2>3. Settles(db, db', panel)
    BY <1>3, <2>2 DEF Settles, Known
  <2>4. ASSUME NEW t \in SnapOf(panel), Provided(t, db) PROVE Provided(t, db')
    <3>1. PICK g \in db.grants, q \in db.rows :
            g.email = t.email /\ g.local = q.local /\ q.id = t.id
      BY <2>4 DEF Provided
    <3>2. PICK u \in db.users : u.uid = g.uid /\ u.email = g.email
      BY <1>6, <2>1 DEF QuietRun, Valid
    <3>3. OnPanel(u, panel)
      BY <3>1, <3>2 DEF OnPanel
    <3> QED BY <1>3, <2>2, <3>1, <3>2, <3>3 DEF Provided
  <2>5. Carries(r, next, db, db', panel)
    BY <1>1, <1>3, <1>4, <1>5, <2>1, <2>4 DEF Carries, Full, Owes
  <2> QED BY <2>3, <2>5
<1>7. ASSUME Working(r, db', panel) PROVE Working(next, db', panel)
  <2>1. ~InHand(next) /\ ~InHand(r)
    BY <1>1, <1>4 DEF InHand
  <2>2. \A u \in db'.users : OnPanel(u, panel) \/ u.email \in r.gone
    BY <1>1, <1>3, <1>7 DEF Working
  <2> QED BY <1>1, <1>4, <1>7, <2>1, <2>2 DEF Working, OwesAll
<1> QED BY <1>1, <1>4, <1>5, <1>6, <1>7, LoopStep

\* FinishImport: nothing is left to do.
LEMMA FinishQuiet ==
  ASSUME Inv, QuietInv, NEW s \in Requests, FinishImport(s) PROVE QuietInv'
<1> DEFINE r == run[s]
<1>1. /\ r \in RunState /\ r.pc = "users" /\ r.pc \in Importing
      /\ r.todo = {} /\ r.owed = {} /\ r.gone = {}
      /\ panel' = panel /\ left' = left /\ db' = db
  BY Types DEF FinishImport, Importing
<1>2. PICK n : /\ Go(s, n)
               /\ n = [r EXCEPT !.pc = "read", !.imported = TRUE] \/ n = Ended("done")
  BY DEF FinishImport
<1>3. n.pc = "done" \/ (n.pc = "read" /\ n.imported)
  <2>1. Ended("done").pc = "done"
    BY DEF Ended, Idle
  <2>2. /\ [r EXCEPT !.pc = "read", !.imported = TRUE].pc = "read"
        /\ [r EXCEPT !.pc = "read", !.imported = TRUE].imported
    BY <1>1 DEF RunState
  <2> QED BY <1>2, <2>1, <2>2
<1>4. Cleared(r) /\ \A t : ~Owes(r, t)
  BY <1>1 DEF Cleared, Owes
<1>5. Carries(r, n, db, db', panel)
  BY <1>1, <1>4 DEF Carries
<1>6. ASSUME Untouched PROVE QuietRun(n, db', panel)
  <2>1. QuietRun(r, db, panel) /\ Working(r, db, panel)
    BY <1>1, <1>6 DEF QuietInv, QuietRun
  <2>2. ~InHand(r) /\ r.pc # "drop"
    BY <1>1 DEF InHand
  <2>3. /\ \A t \in SnapOf(panel) : UserThere(t, db, panel)
        /\ \A u \in db.users : OnPanel(u, panel)
    BY <1>1, <2>1, <2>2 DEF Working
  <2>4. RowsOf(db.rows, panel) /\ \A g \in db.grants : Valid(g, db, panel)
    BY <1>4, <2>1 DEF QuietRun
  <2> HIDE DEF r
  <2> QED BY <1>1, <1>3, <2>3, <2>4 DEF QuietRun, Importing
<1> QED BY <1>1, <1>2, <1>5, <1>6, SettlesSame, Types, MoveQuiet

\* The rest of a synchronisation only reads.
LEMMA ReadQuiet ==
  ASSUME Inv, QuietInv, NEW s \in Requests, ReadRows(s) \/ ReadGrants(s) PROVE QuietInv'
<1> DEFINE r == run[s]
           rows == [r EXCEPT !.pc = "plan", !.cached = db.rows]
           done == Ended(IF r.imported THEN "done" ELSE "failed")
<1>1. /\ r \in RunState /\ r.pc \in {"read", "plan"}
      /\ panel' = panel /\ left' = left /\ db' = db
  BY Types DEF ReadRows, ReadGrants
<1>2. PICK n : Go(s, n) /\ (n = rows \/ n = done)
  BY DEF ReadRows, ReadGrants
<1>3. \/ n.pc = "plan" /\ n.imported = r.imported
      \/ n.pc = "done" /\ r.imported
      \/ n.pc = "failed"
  <2>1. rows.pc = "plan" /\ rows.imported = r.imported
    BY <1>1 DEF RunState
  <2>2. \/ done.pc = "done" /\ r.imported
        \/ done.pc = "failed"
    BY DEF Ended, Idle
  <2> QED BY <1>2, <2>1, <2>2
<1> HIDE DEF rows, done
<1>4. (Imported(n) => Imported(r)) /\ n.pc \in {"plan", "done", "failed"}
  BY <1>1, <1>3 DEF Imported, Past
<1>5. /\ n.pc \notin {"fetch", "cache", "rows", "clear"} \cup Importing
      /\ r.pc \notin Importing
  BY <1>1, <1>4 DEF Importing
<1>6. Carries(r, n, db, db', panel)
  BY <1>1, <1>4, <1>5 DEF Carries, Owes, Cleared
<1>7. ASSUME Untouched PROVE QuietRun(n, db', panel)
  <2>1. QuietRun(r, db, panel)
    BY <1>7 DEF QuietInv
  <2> HIDE DEF r
  <2> QED BY <1>1, <1>4, <1>5, <2>1 DEF QuietRun, Cleared
<1> QED BY <1>1, <1>2, <1>6, <1>7, SettlesSame, Types, MoveQuiet

LEMMA StepQuiet ==
  ASSUME Inv, QuietInv, NEW s \in Requests, Step(s) PROVE QuietInv'
BY FetchQuiet, CacheQuiet, ReadBackQuiet, ClearQuiet, LookUpQuiet, CreateQuiet, FillQuiet,
   StoreQuiet, AssignQuiet, FindGoneQuiet, DropGoneQuiet, FinishQuiet, ReadQuiet
   DEF Step, Import

\* A run with another history flag.
LEMMA FlagQuiet ==
  ASSUME NEW r \in RunState, NEW d, NEW p, NEW n, n \in {r, [r EXCEPT !.alone = FALSE]}
  PROVE  /\ QuietRun(r, d, p) => QuietRun(n, d, p)
         /\ Cleared(n) => Cleared(r)
         /\ \A t : Owes(r, t) => Owes(n, t)
<1>1. /\ n.pc = r.pc /\ n.before = r.before /\ n.snap = r.snap /\ n.ids = r.ids
      /\ n.cached = r.cached /\ n.todo = r.todo /\ n.hand = r.hand /\ n.seen = r.seen
      /\ n.owed = r.owed /\ n.gone = r.gone /\ n.imported = r.imported
  BY DEF RunState
<1>2. /\ (Cleared(n) <=> Cleared(r)) /\ (Imported(n) <=> Imported(r))
      /\ Working(r, d, p) => Working(n, d, p)
  BY <1>1 DEF Cleared, Imported, Past, Working, InHand, OwesAll
<1> QED BY <1>1, <1>2 DEF QuietRun, Owes

\* A request that arrives has listed the users there are.
LEMMA BeginQuiet ==
  ASSUME Inv, QuietInv, NEW s \in Requests, Begin(s) PROVE QuietInv'
<1> DEFINE emails == {u.email : u \in db.users}
           alone == \A u \in Requests \ {s} : ~Active(run[u])
<1>1. PICK sync \in BOOLEAN :
        run' = [u \in Requests |->
          IF u = s
          THEN [Idle EXCEPT !.pc = "fetch", !.sync = sync, !.before = emails, !.alone = alone]
          ELSE IF Active(run[u]) THEN [run[u] EXCEPT !.alone = FALSE] ELSE run[u]]
  BY DEF Begin, Arrive
<1> DEFINE fresh == [Idle EXCEPT !.pc = "fetch", !.sync = sync, !.before = emails, !.alone = alone]
<1>2. fresh.pc = "fetch" /\ fresh.seen = {} /\ fresh.before = emails
  BY DEF Idle
<1> HIDE DEF fresh
<1>3. /\ run'[s] = fresh
      /\ \A t \in Requests \ {s} : run'[t] \in {run[t], [run[t] EXCEPT !.alone = FALSE]}
  BY <1>1 DEF fresh
<1>4. panel' = panel /\ db' = db /\ left' = left /\ ~Active(run[s])
  BY DEF Begin, Arrive
<1>5. SUFFICES ASSUME Untouched
               PROVE  CoverInv' /\ \A u \in Requests : QuietRun(run'[u], db', panel)
  BY <1>4 DEF QuietInv, Untouched
<1>6. CoverInv /\ \A u \in Requests : QuietRun(run[u], db, panel)
  BY <1>5 DEF QuietInv
<1>7. QuietRun(fresh, db, panel)
  BY <1>2 DEF QuietRun, Importing, Cleared, Imported, Past
<1>8. \A u \in Requests \ {s} :
        /\ QuietRun(run'[u], db, panel)
        /\ Cleared(run'[u]) => Cleared(run[u])
        /\ \A t : Owes(run[u], t) => Owes(run'[u], t)
  BY <1>3, <1>6, Types, FlagQuiet
<1>9. ~Cleared(fresh)
  BY <1>2 DEF Cleared, Imported, Past, Importing
<1>10. \A t : ~Owes(run[s], t)
  BY <1>4 DEF Owes, Active, Importing
<1>11. CoverInv'
  <2>1. SUFFICES ASSUME Full(db, panel), NEW u \in Requests, Cleared(run'[u]),
                        NEW t \in SnapOf(panel)
                 PROVE  Provided(t, db) \/ \E q \in Requests : Owes(run'[q], t)
    BY <1>4 DEF CoverInv
  <2>2. u # s /\ Cleared(run[u])
    BY <1>3, <1>8, <1>9, <2>1
  <2>3. Provided(t, db) \/ \E q \in Requests : Owes(run[q], t)
    BY <1>6, <2>1, <2>2 DEF CoverInv
  <2> QED BY <1>8, <1>10, <2>3
<1> QED BY <1>3, <1>4, <1>7, <1>8, <1>11

\* A statement that fails ends the quiet.
LEMMA SlipQuiet ==
  ASSUME Inv, QuietInv, Slip, UNCHANGED <<panel, db>> PROVE QuietInv'
<1>1. left \in Left /\ left.slips <= MaxSlips /\ left.slips > 0
      /\ left' = [left EXCEPT !.slips = @ - 1]
  BY DEF QuietInv, Inv, TypeOK, Slip
<1>2. left'.changes = left.changes /\ left'.edits = left.edits
      /\ left'.slips = left.slips - 1 /\ left.slips \in Nat
  BY <1>1 DEF Left
<1>3. left'.slips <= MaxSlips /\ left'.slips # MaxSlips
  BY <1>1, <1>2, BoundsAssumption
<1> QED BY <1>2, <1>3 DEF QuietInv, Untouched

LEMMA OthersQuiet ==
  ASSUME Inv, QuietInv, PanelChanges \/ DeleteUser \/ SavePolicy \/ Restart PROVE QuietInv'
<1>1. /\ left.changes <= MaxChanges /\ left.edits <= MaxEdits /\ left.slips <= MaxSlips
      /\ left \in Left
  BY DEF QuietInv, Inv, TypeOK
<1>2. CASE PanelChanges \/ DeleteUser \/ SavePolicy
  <2>1. /\ left'.changes <= MaxChanges /\ left'.edits <= MaxEdits /\ left'.slips <= MaxSlips
        /\ left'.changes # MaxChanges \/ left'.edits # MaxEdits
    BY <1>1, <1>2, BoundsAssumption DEF PanelChanges, DeleteUser, SavePolicy, Left
  <2> QED BY <2>1 DEF QuietInv, Untouched
<1>3. CASE Restart
  <2>1. left'.changes = left.changes /\ left'.edits = left.edits /\ left'.slips = left.slips
    BY <1>1, <1>3 DEF Restart, Left
  <2>2. Idle.pc = "idle"
    BY DEF Idle
  <2>3. \A s \in Requests : run'[s] = Idle
    BY <1>3 DEF Restart
  <2>4. ~Cleared(Idle) /\ \A d, p : QuietRun(Idle, d, p)
    BY <2>2 DEF QuietRun, Importing, Cleared, Imported, Past
  <2> QED BY <1>1, <2>1, <2>3, <2>4 DEF QuietInv, Untouched, CoverInv
<1> QED BY <1>2, <1>3

LEMMA InitQuiet == Init => QuietInv
<1> SUFFICES ASSUME Init PROVE QuietInv
  OBVIOUS
<1>1. /\ left.changes = MaxChanges /\ left.edits = MaxEdits /\ left.slips = MaxSlips
      /\ \A s \in Requests : run[s] = Idle
  BY DEF Init
<1>2. Idle.pc = "idle"
  BY DEF Idle
<1>3. ~Cleared(Idle) /\ QuietRun(Idle, db, panel)
  BY <1>2 DEF QuietRun, Importing, Cleared, Imported, Past
<1> QED BY <1>1, <1>3, BoundsAssumption DEF QuietInv, CoverInv

LEMMA NextQuiet == Inv /\ QuietInv /\ [Next]_vars => QuietInv'
<1> SUFFICES ASSUME Inv, QuietInv, [Next]_vars PROVE QuietInv'
  OBVIOUS
<1>1. CASE vars' = vars
  BY <1>1 DEF vars, QuietInv, CoverInv, Untouched
<1>2. CASE Next
  <2>1. CASE \E s \in Requests : BeginBlind(s) \/ Fails(s)
    BY <2>1, FailsOnly, SlipQuiet DEF BeginBlind, Arrive
  <2> QED BY <1>2, <2>1, StepQuiet, BeginQuiet, OthersQuiet DEF Next
<1> QED BY <1>1, <1>2

\* When no import runs any more and one succeeded, the tables are the panel's.
LEMMA QuietIsMirror == Inv /\ QuietInv => QuietImportsMirror
<1> SUFFICES ASSUME Inv, QuietInv, Untouched, \A s \in Requests : ~Active(run[s]),
                    NEW s \in Requests, run[s].pc = "done"
             PROVE  Mirrored
  BY DEF QuietImportsMirror, Untouched
<1>1. Imported(run[s]) /\ Cleared(run[s]) /\ CoverInv /\ QuietRun(run[s], db, panel)
      /\ db \in Db /\ Consistent(db)
  BY Types DEF Imported, Cleared, QuietInv
<1>2. /\ \A t \in SnapOf(panel) : UserThere(t, db, panel)
      /\ \A u \in db.users : OnPanel(u, panel)
      /\ \A g \in db.grants : Valid(g, db, panel)
  BY <1>1 DEF QuietRun
<1>3. UsersMirror(db, SnapOf(panel))
  <2>1. ASSUME NEW u \in db.users PROVE AsOn(u, panel)
    <3>1. PICK t \in SnapOf(panel) : t.email = u.email
      BY <1>2 DEF OnPanel
    <3>2. PICK v \in db.users : v.email = t.email /\ AsOn(v, panel)
      BY <1>2 DEF UserThere
    <3> QED BY <1>1, <3>1, <3>2 DEF Consistent
  <2>2. \A u \in db.users : \E t \in SnapOf(panel) : t.email = u.email /\ t.cred = u.cred
    BY <2>1 DEF AsOn
  <2>3. \A t \in SnapOf(panel) : \E u \in db.users : u.email = t.email
    BY <1>2 DEF UserThere
  <2> QED BY <2>2, <2>3 DEF UsersMirror
<1>4. GrantsMirror(db, SnapOf(panel))
  <2>1. ASSUME NEW t \in SnapOf(panel) PROVE Provided(t, db)
    <3>1. Full(db, panel)
      BY <1>2 DEF UserThere, Full
    <3>2. \A q \in Requests : ~Owes(run[q], t)
      BY DEF Owes, Importing, Active
    <3> QED BY <1>1, <3>1, <3>2 DEF CoverInv
  <2> QED BY <1>2, <2>1 DEF GrantsMirror, Valid, Provided
<1> QED BY <1>3, <1>4 DEF Mirrored

\* While the panel stays as it is, nobody deletes users and no statement fails, however
\* many imports overlap, get no listing, lose a race for an email or are cut short: when
\* none runs any more and one succeeded, users and assignments are the panel's.
THEOREM QuietImports == Spec => []QuietImportsMirror
<1>1. Inv /\ QuietInv => QuietImportsMirror
  BY QuietIsMirror
<1> QED BY <1>1, InitQuiet, NextQuiet, Invariant, PTL DEF Spec
=============================================================================
