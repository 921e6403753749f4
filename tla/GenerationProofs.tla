-------------------------- MODULE GenerationProofs --------------------------
(***************************************************************************)
(* Proofs about Generation, for any databases, panel, templates, users and *)
(* credentials, and any changes between the reads of a request.            *)
(***************************************************************************)
EXTENDS Generation, TLAPS, WellFoundedInduction

LEMMA SeqFacts ==
  ASSUME NEW S, NEW s \in Seq(S)
  PROVE  DOMAIN s \subseteq Nat /\ \A j \in DOMAIN s : s[j] \in S
  <1>1. DOMAIN s = 1..Len(s) /\ Len(s) \in Nat
    OBVIOUS
  <1> QED BY <1>1

---------------------------------------------------------------------------
(* Nodes. *)

LEMMA NetFacts ==
  ASSUME NEW net \in Nets
  PROVE  NormalNet(net) \in Nets
  BY DEF NormalNet, Nets

LEMMA NormalFacts ==
  ASSUME NEW n \in Node
  PROVE  /\ NormalNode(n) \in Node /\ NormalNode(n).name = n.name
         /\ NormalNode(n).type = n.type /\ NormalNode(n).cred = n.cred
         /\ NormalNode(n).sid = n.sid
  <1> DEFINE net == NormalNet(n.net)
  <1>1. n.net \in Nets /\ net \in Nets
    BY NetFacts DEF Node
  <1>2. NormalNode(n) = IF n.type # "vless"
          THEN [n EXCEPT !.net = net, !.flow = FALSE, !.reality = FALSE, !.xhttp = FALSE]
          ELSE IF net = "xhttp" THEN [n EXCEPT !.tls = TRUE, !.flow = FALSE, !.reality = FALSE]
          ELSE [n EXCEPT !.net = net, !.xhttp = FALSE]
    BY DEF NormalNode
  <1> HIDE DEF net
  <1> QED BY <1>1, <1>2 DEF Node

\* Whoever has a field in his panel's record of an inbound and a client.
LEMMA NodeOfFacts ==
  ASSUME NEW inb, inb.remark \in STRING, inb.type \in Types, inb.net \in Nets,
         NEW cred \in Creds \cup {None}, NEW flow \in BOOLEAN, NEW sid \in Nat
  PROVE  NodeOf(inb, cred, flow, sid) \in Node /\ NodeOf(inb, cred, flow, sid).cred = cred
         /\ NodeOf(inb, cred, flow, sid).sid = sid
  <1>1. NormalNet(inb.net) \in Nets
    BY NetFacts
  <1> QED BY <1>1 DEF NodeOf, Node

LEMMA BuildFacts ==
  ASSUME NEW d \in Databases, NEW u \in DOMAIN d.rows, NEW i \in DOMAIN d.inbounds
  PROVE  LET n == BuildNode(d.inbounds[i], u, d.rows[u])
         IN  n \in Node /\ n.cred \in Own(u) /\ n.sid # 0
  <1> DEFINE inb == d.inbounds[i]
             row == d.rows[u]
             own == {e \in inb.entries : Fold(e.user) = Fold(u)}
             his == {e.cred : e \in own} \ {None}
             cred == IF his # {} THEN CHOOSE c \in his : TRUE ELSE row.cred
             flow == row.flow \/ \E e \in own : e.flow
  <1>1. /\ inb.remark \in STRING /\ inb.type \in Types /\ inb.net \in Nets /\ inb.sid \in Nat /\ inb.sid # 0
        /\ inb.entries \subseteq [user: Users, cred: Creds \cup {None}, flow: BOOLEAN]
        /\ row.cred \in Creds /\ row.flow \in BOOLEAN
    BY DatabasesAssumption
  <1>2. his \subseteq Creds
    BY <1>1
  <1>3. cred \in Creds /\ (cred \in his \/ cred = row.cred)
    BY <1>1, <1>2
  <1>4. flow \in BOOLEAN
    OBVIOUS
  <1>5. cred \in Own(u)
    <2>1. row.cred \in Own(u)
      BY DEF Own
    <2>2. ASSUME cred \in his PROVE cred \in Own(u)
      <3> HIDE DEF cred
      <3>1. PICK e \in inb.entries : Fold(e.user) = Fold(u) /\ e.cred = cred
        BY <2>2
      <3>2. cred \in {x.cred : x \in {f \in d.inbounds[i].entries : Fold(f.user) = Fold(u)}}
        BY <3>1
      <3>3. cred \in UNION {{x.cred : x \in {f \in d.inbounds[j].entries : Fold(f.user) = Fold(u)}} : j \in DOMAIN d.inbounds}
        BY <3>2
      <3>4. cred \in UNION {UNION {{x.cred : x \in {f \in b.inbounds[j].entries : Fold(f.user) = Fold(u)}} :
                                     j \in DOMAIN b.inbounds} : b \in Databases}
        BY <3>3
      <3> QED BY <3>4 DEF Own
    <2> QED BY <1>3, <2>1, <2>2
  <1>6. BuildNode(inb, u, row) = NormalNode(NodeOf(inb, cred, flow, inb.sid))
    BY DEF BuildNode
  <1> HIDE DEF cred, flow, inb, row
  <1>7. /\ NodeOf(inb, cred, flow, inb.sid) \in Node /\ NodeOf(inb, cred, flow, inb.sid).cred = cred
        /\ NodeOf(inb, cred, flow, inb.sid).sid = inb.sid
    BY <1>1, <1>3, <1>4, NodeOfFacts
  <1>8. /\ BuildNode(inb, u, row) \in Node /\ BuildNode(inb, u, row).cred = cred
        /\ BuildNode(inb, u, row).sid = inb.sid
    BY <1>6, <1>7, NormalFacts
  <1> QED BY <1>1, <1>5, <1>8 DEF inb, row

\* The least of some positions.
LEMMA LeastFacts ==
  ASSUME NEW S \in SUBSET Nat, S # {}
  PROVE  Least(S) \in S /\ \A j \in S : Least(S) <= j
  <1>1. PICK k \in S : \A j \in S : ~ (<<j, k>> \in OpToRel(<, Nat))
    BY NatLessThanWellFounded, WFMin
  <1>2. \A j \in S : k <= j
    <2> SUFFICES ASSUME NEW j \in S PROVE k <= j
      OBVIOUS
    <2>1. j \in Nat /\ k \in Nat
      OBVIOUS
    <2>2. ~ (j < k)
      BY <1>1, <2>1 DEF OpToRel
    <2> QED BY <2>1, <2>2
  <1> QED BY <1>2 DEF Least

SameType(t, m) == t.type = m.type
NearBy(t, m) == m.sid = 0 \/ t.sid = 0 \/ t.sid = m.sid
SameWay(t, m) == NormalNet(t.net) = NormalNet(m.net)

LEMMA PassFacts ==
  ASSUME NEW ts, NEW m
  PROVE  /\ Fitting(ts, m, Passes[1]) =
              {j \in DOMAIN ts : SameType(ts[j], m) /\ NearBy(ts[j], m) /\ SameWay(ts[j], m)}
         /\ Fitting(ts, m, Passes[2]) = {j \in DOMAIN ts : SameType(ts[j], m) /\ SameWay(ts[j], m)}
         /\ Fitting(ts, m, Passes[4]) = {j \in DOMAIN ts : SameType(ts[j], m)}
         /\ \A p \in 1..4 : /\ Fitting(ts, m, Passes[p]) \subseteq DOMAIN ts
                            /\ \A j \in Fitting(ts, m, Passes[p]) : SameType(ts[j], m)
  <1>1. /\ Passes[1][1] = TRUE /\ Passes[1][2] = TRUE /\ Passes[2][1] = FALSE /\ Passes[2][2] = TRUE
        /\ Passes[4][1] = FALSE /\ Passes[4][2] = FALSE
    BY DEF Passes
  <1>2. \A p \in 1..4 : Fitting(ts, m, Passes[p]) =
            {j \in DOMAIN ts : /\ SameType(ts[j], m)
                               /\ Passes[p][1] => NearBy(ts[j], m)
                               /\ Passes[p][2] => SameWay(ts[j], m)}
    BY DEF Fitting, Fits, SameType, NearBy, SameWay
  <1> QED BY <1>1, <1>2

\* A managed node's template is one of the user's nodes, of its type, and the
\* best there is.
LEMMA TemplateFacts ==
  ASSUME NEW ts, DOMAIN ts \subseteq Nat, NEW m, Usable(ts, m)
  PROVE  \E k \in DOMAIN ts :
           /\ TemplateOf(ts, m) = ts[k] /\ SameType(ts[k], m)
           /\ \A j \in DOMAIN ts :
                SameType(ts[j], m) /\ SameWay(ts[j], m) =>
                  SameWay(ts[k], m) /\ (NearBy(ts[j], m) => NearBy(ts[k], m))
  <1> DEFINE A(q) == Fitting(ts, m, Passes[q])
             some == {q \in 1..4 : A(q) # {}}
             p == Least(some)
             k == Least(A(p))
  <1>1. \A q \in 1..4 : A(q) \subseteq DOMAIN ts /\ \A j \in A(q) : SameType(ts[j], m)
    BY PassFacts
  <1>2. A(4) # {}
    BY PassFacts DEF Usable, SameType
  <1>3. \A j \in DOMAIN ts : SameType(ts[j], m) /\ SameWay(ts[j], m) =>
          j \in A(2) /\ (NearBy(ts[j], m) => j \in A(1))
    BY PassFacts
  <1>4. /\ \A j \in A(1) : SameWay(ts[j], m) /\ NearBy(ts[j], m)
        /\ \A j \in A(2) : SameWay(ts[j], m)
    BY PassFacts
  <1>5. TemplateOf(ts, m) = ts[k]
    BY DEF TemplateOf
  <1> HIDE DEF A
  <1>6. some \in SUBSET Nat /\ 4 \in some /\ some \subseteq 1..4
    BY <1>2
  <1>7. p \in some /\ \A q \in some : p <= q
    BY <1>6, LeastFacts
  <1>8. p \in 1..4 /\ A(p) # {} /\ \A q \in 1..4 : A(q) # {} => p <= q
    BY <1>7
  <1> HIDE DEF p, some
  <1>9. k \in A(p)
    BY <1>1, <1>8, LeastFacts
  <1> HIDE DEF k
  <1>10. k \in DOMAIN ts /\ SameType(ts[k], m)
    BY <1>1, <1>8, <1>9
  <1>11. ASSUME NEW j \in DOMAIN ts, SameType(ts[j], m), SameWay(ts[j], m)
         PROVE  SameWay(ts[k], m) /\ (NearBy(ts[j], m) => NearBy(ts[k], m))
    <2>1. j \in A(2) /\ (NearBy(ts[j], m) => j \in A(1))
      BY <1>3, <1>11
    <2>2. p <= 2 /\ (NearBy(ts[j], m) => p <= 1)
      BY <1>8, <2>1
    <2>3. p = 1 \/ (p = 2 /\ ~NearBy(ts[j], m))
      BY <1>8, <2>2
    <2> QED BY <1>4, <1>9, <2>3
  <1> QED BY <1>5, <1>10, <1>11

LEMMA AdaptedFacts ==
  ASSUME NEW t \in Node, NEW m \in ManagedNode
  PROVE  /\ Adapted(t, m) \in Node /\ Adapted(t, m).name = m.name /\ Adapted(t, m).cred = t.cred
  <1> DEFINE net == NormalNet(m.net)
             n == [t EXCEPT !.net = net]
             a == NormalNode(n)
             name == m.name
  <1>1. net \in Nets /\ name \in STRING
    BY NetFacts DEF ManagedNode
  <1> HIDE DEF net, name
  <1>2. n \in Node /\ n.cred = t.cred
    BY <1>1 DEF Node
  <1> HIDE DEF n
  <1>3. a \in Node /\ a.cred = t.cred
    BY <1>2, NormalFacts
  <1>4. Adapted(t, m) = [a EXCEPT !.name = name]
    BY DEF Adapted, n, net, name
  <1> HIDE DEF a
  <1>5. [a EXCEPT !.name = name] \in Node /\ [a EXCEPT !.name = name].name = name
        /\ [a EXCEPT !.name = name].cred = a.cred
    BY <1>1, <1>3 DEF Node
  <1> QED BY <1>3, <1>4, <1>5 DEF name

\* What the nodes of a user become.
LEMMA ManagedFacts ==
  ASSUME NEW ts, DOMAIN ts \subseteq Nat, DOMAIN ts # {}, \A k \in DOMAIN ts : ts[k] \in Node,
         NEW nodes \in SUBSET ManagedNode, NEW ids
  PROVE  /\ ManagedNodes(ts, nodes, ids) # {} /\ ManagedNodes(ts, nodes, ids) \subseteq Node
         /\ \A n \in ManagedNodes(ts, nodes, ids) : \E k \in DOMAIN ts : n.cred = ts[k].cred
         /\ \A m \in Selected(nodes, ids) : Usable(ts, m) =>
              \E n \in ManagedNodes(ts, nodes, ids) : n = Adapted(TemplateOf(ts, m), m)
         /\ LET served == {m \in nodes : (ids = {} \/ m.id \in ids) /\ Usable(ts, m)}
            IN  {n.name : n \in ManagedNodes(ts, nodes, ids)} =
                  IF served # {} THEN {m.name : m \in served} ELSE {ts[k].name : k \in DOMAIN ts}
  <1> DEFINE served == {m \in nodes : (ids = {} \/ m.id \in ids) /\ Usable(ts, m)}
             on(m) == Adapted(TemplateOf(ts, m), m)
             all == ManagedNodes(ts, nodes, ids)
  <1>1. Expanded(ts, nodes, ids) = {on(m) : m \in served}
    BY DEF Expanded, Selected
  <1>2. ASSUME NEW m \in served
        PROVE  on(m) \in Node /\ on(m).name = m.name /\ \E k \in DOMAIN ts : on(m).cred = ts[k].cred
    <2>1. m \in ManagedNode /\ Usable(ts, m)
      BY <1>2
    <2>2. PICK k \in DOMAIN ts : TemplateOf(ts, m) = ts[k]
      BY <2>1, TemplateFacts
    <2>3. ts[k] \in Node
      OBVIOUS
    <2> QED BY <2>1, <2>2, <2>3, AdaptedFacts
  <1>3. all = IF served # {} THEN {on(m) : m \in served} ELSE {ts[k] : k \in DOMAIN ts}
    BY <1>1 DEF ManagedNodes
  <1>4. \A m \in Selected(nodes, ids) : Usable(ts, m) => m \in served
    BY DEF Selected
  <1> HIDE DEF on, all, served
  <1>5. all # {} /\ all \subseteq Node
    BY <1>2, <1>3
  <1>6. \A n \in all : \E k \in DOMAIN ts : n.cred = ts[k].cred
    BY <1>2, <1>3
  <1>7. \A m \in served : on(m) \in all
    BY <1>3
  <1>8. {n.name : n \in all} = IF served # {} THEN {m.name : m \in served} ELSE {ts[k].name : k \in DOMAIN ts}
    <2>1. CASE served # {}
      <3>1. {n.name : n \in all} = {on(m).name : m \in served}
        BY <1>3, <2>1
      <3>2. {on(m).name : m \in served} = {m.name : m \in served}
        BY <1>2
      <3> QED BY <2>1, <3>1, <3>2
    <2>2. CASE served = {}
      BY <1>3, <2>2
    <2> QED BY <2>1, <2>2
  <1> QED BY <1>4, <1>5, <1>6, <1>7, <1>8 DEF on, all, served

LEMMA ProxyFacts ==
  ASSUME NEW n \in Node
  PROVE  Proxy(n).name = n.name /\ Proxy(n).cred \in {n.cred, None}
  BY DEF Proxy

---------------------------------------------------------------------------
(* What a request has found out by each of its steps. *)

Common == {"at", "user", "asked", "variant", "pol", "mode", "groups", "calm", "sure"}

\* Whose credentials a node found for r's user may carry.
Allowed(r, cred) ==
  \/ cred \in Own(r.user) \cup {None}
  \/ r.from = "panel" /\ \E k \in DOMAIN Panel : Fold(Panel[k].remark) = Fold(r.user)

\* A database's tables of groups are read after its policies.
Begun(r) ==
  /\ Common \subseteq DOMAIN r /\ r.at \in Phases /\ r.user \in Users
  /\ \E d \in Databases : r.pol = PolicyOf(d, r.user)
  /\ r.at # "groups" => \E d \in Databases : r.groups = d.groups
  /\ r.calm => r.pol = PolicyOf(db, r.user) /\ (r.at # "groups" => r.groups = db.groups)

Found(r) ==
  /\ {"nodes", "from"} \subseteq DOMAIN r
  /\ DOMAIN r.nodes # {} /\ DOMAIN r.nodes \subseteq Nat
  /\ \A k \in DOMAIN r.nodes : /\ r.nodes[k] \in Node /\ Allowed(r, r.nodes[k].cred)
                               /\ r.from = "db" => r.nodes[k].sid # 0

\* Where the nodes are from if no read failed and nothing changed.
Certain(r) ==
  /\ r.at = "panel" /\ r.calm /\ r.sure => DOMAIN DbNodes(db, r.user) = {}
  /\ r.at \in {"manage", "providers", "merge", "done"} /\ r.calm /\ r.sure =>
       DOMAIN DbNodes(db, r.user) = {} \/ r.nodes = DbNodes(db, r.user)
  /\ r.at \in {"providers", "merge", "done"} /\ r.calm /\ r.sure => r.managed = db.nodes

Managed(r) ==
  /\ {"managed", "out"} \subseteq DOMAIN r
  /\ r.managed \subseteq ManagedNode /\ r.out = ManagedNodes(r.nodes, r.managed, r.pol.nodes)

Uses(r) == UNION {UNION {r.addons[id][g].use : g \in DOMAIN r.addons[id]} : id \in DOMAIN r.addons}

\* Groups that a document may have.
Proper(r, entries) ==
  /\ DOMAIN entries \subseteq STRING
  /\ \A g \in DOMAIN entries : entries[g] \in Member /\ entries[g].use \subseteq r.pol.provs \cup Uses(r)

Merging(r) ==
  /\ {"addons", "todo", "entries"} \subseteq DOMAIN r
  /\ DOMAIN r.addons \subseteq r.pol.provs /\ r.todo \subseteq DOMAIN r.addons
  /\ \A id \in DOMAIN r.addons : /\ DOMAIN r.addons[id] \subseteq STRING
                                 /\ \A g \in DOMAIN r.addons[id] : r.addons[id][g] \in Member
  /\ Proper(r, r.entries)
  /\ DOMAIN BuildGroups(r.groups, r.pol) \subseteq DOMAIN r.entries
  /\ r.calm => DOMAIN r.addons = r.pol.provs \cap DOMAIN db.provs

Template(r) == Templates[IF r.variant = "ios" THEN "ios" ELSE r.mode]

Made(r) ==
  /\ "doc" \in DOMAIN r
  /\ r.doc.proxies = {Proxy(n) : n \in r.out}
  /\ r.doc.groups = FilterInvalidGroupRefs(r.entries, {n.name : n \in r.out})
  /\ r.doc.providers = DOMAIN r.addons \cup Template(r).providers
  /\ r.doc.rules = FilterProviderRules(Template(r).rules, DOMAIN r.addons, r.asked)

Sound ==
  /\ Begun(req) /\ Certain(req)
  /\ req.at \in {"manage", "providers", "merge", "done"} => Found(req)
  /\ req.at \in {"providers", "merge", "done"} => Managed(req)
  /\ req.at \in {"merge", "done"} => Merging(req)
  /\ req.at = "done" => Made(req)

Inv == db \in Databases /\ (req = Idle \/ Sound)

LEMMA IdleFacts == Idle.at = "idle" /\ "idle" \notin Phases
  BY DEF Idle, Phases

LEMMA GoesFacts ==
  ASSUME NEW at, NEW fields, "at" \in DOMAIN req, "at" \notin DOMAIN fields, Goes(at, fields)
  PROVE  /\ req'.at = at /\ DOMAIN req' = DOMAIN req \cup DOMAIN fields
         /\ \A f \in DOMAIN fields : req'[f] = fields[f]
         /\ \A f \in DOMAIN req \ DOMAIN fields : f # "at" => req'[f] = req[f]
  BY DEF Goes

LEMMA LoadStep ==
  ASSUME Inv, LoadAppConfig
  PROVE  Inv'
  <1>1. PICK u \in Users, asked \in {None} \cup DOMAIN db.provs, variant \in {"", "ios", "other"} :
          req' = [at |-> "groups", user |-> u, asked |-> asked, variant |-> variant,
                  pol |-> PolicyOf(db, u), mode |-> ResolveMode(db, u), groups |-> [g \in {} |-> None],
                  calm |-> TRUE, sure |-> TRUE]
    BY DEF LoadAppConfig
  <1>2. db' = db /\ db \in Databases
    BY DEF LoadAppConfig, Inv
  <1>3. DOMAIN req' = Common /\ req'.at = "groups" /\ req'.user = u /\ req'.pol = PolicyOf(db, u)
    BY <1>1 DEF Common
  <1>4. Sound'
    BY <1>2, <1>3 DEF Sound, Begun, Certain, Phases
  <1> QED BY <1>2, <1>4 DEF Inv

\* A step that is not the first has a request to work on.
LEMMA SoundFacts ==
  ASSUME Inv, req.at # "idle"
  PROVE  Sound /\ Common \subseteq DOMAIN req /\ "at" \in DOMAIN req /\ db \in Databases
  BY IdleFacts DEF Inv, Sound, Begun, Common

LEMMA GroupsStep ==
  ASSUME Inv, LoadGroupsConfig
  PROVE  Inv'
  <1> DEFINE fields == [groups |-> db.groups]
  <1>1. req.at = "groups" /\ db' = db /\ Sound /\ Common \subseteq DOMAIN req /\ db \in Databases
        /\ "at" \in DOMAIN req
    BY SoundFacts DEF LoadGroupsConfig
  <1>2. CASE Refused
    BY <1>1, <1>2 DEF Refused, Inv
  <1>3. CASE Goes("resolve", fields)
    <2>a. DOMAIN fields = {"groups"} /\ fields["groups"] = db.groups
      OBVIOUS
    <2> HIDE DEF fields
    <2>1. /\ req'.at = "resolve" /\ req'.groups = db.groups /\ DOMAIN req' = DOMAIN req
          /\ \A f \in Common \ {"at", "groups"} : req'[f] = req[f]
      BY <1>1, <1>3, <2>a, GoesFacts DEF Common
    <2>2. req'.user = req.user /\ req'.pol = req.pol /\ req'.calm = req.calm
      BY <2>1 DEF Common
    <2>3. Sound'
      BY <1>1, <2>1, <2>2 DEF Sound, Begun, Certain, Phases
    <2> QED BY <1>1, <2>3 DEF Inv
  <1> QED BY <1>2, <1>3 DEF LoadGroupsConfig

\* The nodes of the database are well-formed, and the user's own.
LEMMA DbNodesFacts ==
  ASSUME NEW d \in Databases, NEW u
  PROVE  LET all == DbNodes(d, u)
         IN  /\ DOMAIN all \subseteq Nat
             /\ \A k \in DOMAIN all : all[k] \in Node /\ all[k].cred \in Own(u) /\ all[k].sid # 0
  <1> DEFINE mine == IF u \in DOMAIN d.rows THEN d.assigned[u] ELSE <<>>
             usable == {j \in DOMAIN mine : mine[j].on /\ d.inbounds[mine[j].inb].on}
             all == DbNodes(d, u)
  <1>1. all = [k \in usable |-> BuildNode(d.inbounds[mine[k].inb], u, d.rows[u])]
    BY DEF DbNodes
  <1>2. CASE u \notin DOMAIN d.rows
    <2>1. DOMAIN mine = {}
      BY <1>2
    <2> QED BY <1>1, <2>1
  <1>3. CASE u \in DOMAIN d.rows
    <2>1. mine \in Seq([inb: DOMAIN d.inbounds, on: BOOLEAN])
      BY <1>3, DatabasesAssumption
    <2>2. DOMAIN mine \subseteq Nat /\ \A j \in DOMAIN mine : mine[j].inb \in DOMAIN d.inbounds
      <3> HIDE DEF mine
      <3>1. DOMAIN mine \subseteq Nat /\ \A j \in DOMAIN mine : mine[j] \in [inb: DOMAIN d.inbounds, on: BOOLEAN]
        BY <2>1, SeqFacts
      <3> QED BY <3>1
    <2> HIDE DEF mine, all
    <2>3. \A k \in usable : LET n == BuildNode(d.inbounds[mine[k].inb], u, d.rows[u])
                            IN  n \in Node /\ n.cred \in Own(u) /\ n.sid # 0
      BY <1>3, <2>2, BuildFacts
    <2> HIDE DEF usable
    <2>4. DOMAIN all = usable /\ \A k \in usable : all[k] = BuildNode(d.inbounds[mine[k].inb], u, d.rows[u])
      BY <1>1
    <2>5. /\ DOMAIN all \subseteq Nat
          /\ \A k \in DOMAIN all : all[k] \in Node /\ all[k].cred \in Own(u) /\ all[k].sid # 0
      BY <2>2, <2>3, <2>4 DEF usable
    <2> QED BY <2>5 DEF all
  <1> QED BY <1>2, <1>3

LEMMA ResolveStep ==
  ASSUME Inv, DbResolveUserNodes
  PROVE  Inv'
  <1> DEFINE all == DbNodes(db, req.user)
             found(lost) == [k \in DOMAIN all \ lost |-> all[k]]
  <1>1. req.at = "resolve" /\ db' = db /\ Sound /\ Common \subseteq DOMAIN req /\ db \in Databases
        /\ "at" \in DOMAIN req
    BY SoundFacts DEF DbResolveUserNodes
  <1>2. /\ DOMAIN all \subseteq Nat
        /\ \A k \in DOMAIN all : all[k] \in Node /\ all[k].cred \in Own(req.user) /\ all[k].sid # 0
    BY <1>1, DbNodesFacts
  <1>3. PICK lost \in SUBSET DOMAIN all :
          IF DOMAIN found(lost) = {} THEN Goes("panel", [sure |-> lost = {}])
          ELSE Goes("manage", [nodes |-> found(lost), from |-> "db", sure |-> lost = {}])
    BY DEF DbResolveUserNodes
  <1> DEFINE some == found(lost)
             sure == lost = {}
  <1>4. /\ DOMAIN some = DOMAIN all \ lost /\ \A k \in DOMAIN some : some[k] = all[k]
        /\ sure => some = all
    <2>1. ASSUME sure PROVE some = all
      <3>1. DOMAIN all \ lost = DOMAIN all
        BY <2>1
      <3>2. all = [k \in DOMAIN all |-> all[k]]
        BY DEF DbNodes
      <3> HIDE DEF all
      <3> QED BY <3>1, <3>2
    <2> QED BY <2>1
  <1>a. sure \in BOOLEAN /\ (DOMAIN some = {} => Goes("panel", [sure |-> sure]))
        /\ (DOMAIN some # {} => Goes("manage", [nodes |-> some, from |-> "db", sure |-> sure]))
    BY <1>3
  <1> HIDE DEF found, some, sure
  <1>5. CASE DOMAIN some = {}
    <2> DEFINE fields == [sure |-> sure]
    <2>1. Goes("panel", fields)
      BY <1>a, <1>5
    <2>a. DOMAIN fields = {"sure"} /\ fields["sure"] = sure
      OBVIOUS
    <2> HIDE DEF fields
    <2>2. /\ req'.at = "panel" /\ req'.sure = sure /\ DOMAIN req' = DOMAIN req
          /\ \A f \in Common \ {"at", "sure"} : req'[f] = req[f]
      BY <1>1, <2>1, <2>a, GoesFacts DEF Common
    <2>3. req'.user = req.user /\ req'.pol = req.pol /\ req'.calm = req.calm /\ req'.groups = req.groups
      BY <2>2 DEF Common
    <2>4. Begun(req)'
      BY <1>1, <2>2, <2>3 DEF Sound, Begun, Phases
    <2>5. req'.sure => DOMAIN DbNodes(db', req'.user) = {}
      BY <1>1, <1>4, <1>5, <2>2, <2>3
    <2>6. Certain(req)'
      BY <2>2, <2>5 DEF Certain
    <2>7. Sound'
      BY <2>2, <2>4, <2>6 DEF Sound
    <2> QED BY <1>1, <2>7 DEF Inv
  <1>6. CASE DOMAIN some # {}
    <2> DEFINE fields == [nodes |-> some, from |-> "db", sure |-> sure]
    <2>1. Goes("manage", fields)
      BY <1>a, <1>6
    <2>a. /\ DOMAIN fields = {"nodes", "from", "sure"} /\ fields["nodes"] = some /\ fields["from"] = "db"
          /\ fields["sure"] = sure
      OBVIOUS
    <2> HIDE DEF fields
    <2>2. /\ req'.at = "manage" /\ req'.nodes = some /\ req'.from = "db" /\ req'.sure = sure
          /\ \A f \in Common \ {"at", "sure"} : req'[f] = req[f]
          /\ DOMAIN req' = DOMAIN req \cup {"nodes", "from"}
      <3>1. "sure" \in DOMAIN req
        BY <1>1 DEF Common
      <3>2. DOMAIN req' = DOMAIN req \cup {"nodes", "from", "sure"}
        BY <1>1, <2>1, <2>a, GoesFacts
      <3> QED BY <1>1, <2>1, <2>a, <3>1, <3>2, GoesFacts DEF Common
    <2>3. req'.user = req.user /\ req'.pol = req.pol /\ req'.calm = req.calm /\ req'.groups = req.groups
      BY <2>2 DEF Common
    <2>4. Begun(req)'
      BY <1>1, <2>2, <2>3 DEF Sound, Begun, Phases
    <2>5. /\ DOMAIN some \subseteq Nat
          /\ \A k \in DOMAIN some : some[k] \in Node /\ some[k].cred \in Own(req.user) /\ some[k].sid # 0
      <3> HIDE DEF all
      <3> QED BY <1>2, <1>4
    <2>6. Found(req)'
      BY <1>6, <2>2, <2>3, <2>5 DEF Found, Allowed
    <2>7. req'.sure => req'.nodes = DbNodes(db', req'.user)
      BY <1>1, <1>4, <2>2, <2>3
    <2>8. Certain(req)'
      BY <2>2, <2>7 DEF Certain
    <2>9. Sound'
      BY <2>2, <2>4, <2>6, <2>8 DEF Sound
    <2> QED BY <1>1, <2>9 DEF Inv
  <1> QED BY <1>5, <1>6

LEMMA PanelStep ==
  ASSUME Inv, ResolveUserNodes
  PROVE  Inv'
  <1> DEFINE found == PanelNodes(req.user)
             fields == [nodes |-> found, from |-> "panel"]
  <1>1. req.at = "panel" /\ db' = db /\ Sound /\ Common \subseteq DOMAIN req /\ db \in Databases
        /\ "at" \in DOMAIN req
    BY SoundFacts DEF ResolveUserNodes
  <1>2. CASE Refused
    BY <1>1, <1>2 DEF Refused, Inv
  <1>3. CASE DOMAIN found # {} /\ Goes("manage", fields)
    <2>a. DOMAIN fields = {"nodes", "from"} /\ fields["nodes"] = found /\ fields["from"] = "panel"
      OBVIOUS
    <2> HIDE DEF fields
    <2>2. /\ req'.at = "manage" /\ \A f \in Common \ {"at"} : req'[f] = req[f]
          /\ req'.nodes = found /\ req'.from = "panel"
      BY <1>1, <1>3, <2>a, GoesFacts DEF Common
    <2>3. DOMAIN req' = DOMAIN req \cup {"nodes", "from"}
      BY <1>1, <1>3, <2>a, GoesFacts
    <2>4. /\ DOMAIN found \subseteq Nat
          /\ \A k \in DOMAIN found : found[k] \in Node /\ Allowed(req', found[k].cred)
      <3> DEFINE u == req.user
                 usable == {j \in DOMAIN Panel : /\ Panel[j].on /\ Panel[j].client.on
                                                 /\ Named(Panel[j], u)}
      <3>1. found = [k \in usable |-> NodeOf(Panel[k], Panel[k].client.cred, Panel[k].client.flow, 0)]
        BY DEF PanelNodes
      <3>2. /\ DOMAIN Panel \subseteq Nat
            /\ \A k \in DOMAIN Panel :
                 /\ Panel[k].remark \in STRING /\ Panel[k].type \in Types /\ Panel[k].net \in Nets
                 /\ Panel[k].client.cred \in Creds \cup {None} /\ Panel[k].client.flow \in BOOLEAN
        <4> DEFINE S == [remark: STRING, type: Types, net: Nets, sec: {"", "tls", "reality"}, on: BOOLEAN,
                         client: [user: Users, cred: Creds \cup {None}, flow: BOOLEAN, on: BOOLEAN]]
        <4>1. Panel \in Seq(S)
          BY PanelAssumption
        <4> HIDE DEF S
        <4>2. DOMAIN Panel \subseteq Nat /\ \A k \in DOMAIN Panel : Panel[k] \in S
          BY <4>1, SeqFacts
        <4> QED BY <4>2 DEF S
      <3>3. \A k \in usable : LET n == NodeOf(Panel[k], Panel[k].client.cred, Panel[k].client.flow, 0)
                              IN  n \in Node /\ n.cred = Panel[k].client.cred
        <4>1. usable \subseteq DOMAIN Panel
          OBVIOUS
        <4> HIDE DEF usable
        <4> QED BY <3>2, <4>1, NodeOfFacts
      <3>4. \A k \in usable : Panel[k].client.cred \in Own(u) \/ Fold(Panel[k].remark) = Fold(u)
        <4>0. \A k \in usable : Fold(Panel[k].client.user) = Fold(u) \/ Fold(Panel[k].remark) = Fold(u)
          BY DEF Named
        <4> SUFFICES ASSUME NEW k \in usable, Fold(Panel[k].client.user) = Fold(u)
                     PROVE  Panel[k].client.cred \in Own(u)
          BY <4>0
        <4> HIDE DEF u
        <4>1. Panel[k].client.cred \in {Panel[i].client.cred : i \in {j \in DOMAIN Panel : Fold(Panel[j].client.user) = Fold(u)}}
          OBVIOUS
        <4> QED BY <4>1 DEF Own
      <3>5. req'.user = u /\ req'.from = "panel"
        BY <2>2 DEF Common
      <3> HIDE DEF u, found
      <3>6. DOMAIN found = usable /\ \A k \in usable :
              found[k] = NodeOf(Panel[k], Panel[k].client.cred, Panel[k].client.flow, 0)
        BY <3>1
      <3> QED BY <3>2, <3>3, <3>4, <3>5, <3>6 DEF Allowed
    <2> HIDE DEF found
    <2>5. Found(req')
      BY <1>3, <2>2, <2>3, <2>4 DEF Found
    <2>6. Certain(req')
      BY <1>1, <2>2 DEF Sound, Certain, Common
    <2>7. Begun(req)'
      BY <1>1, <2>2, <2>3 DEF Sound, Begun, Common, Phases
    <2>8. Sound'
      BY <1>1, <2>2, <2>5, <2>6, <2>7 DEF Sound, Found, Allowed, Certain
    <2> QED BY <1>1, <2>8 DEF Inv
  <1> QED BY <1>2, <1>3 DEF ResolveUserNodes

LEMMA ManageStep ==
  ASSUME Inv, ApplyManagedNodes
  PROVE  Inv'
  <1>1. req.at = "manage" /\ db' = db /\ Sound /\ Common \subseteq DOMAIN req /\ db \in Databases
        /\ "at" \in DOMAIN req
    BY SoundFacts DEF ApplyManagedNodes
  <1>b. PICK listed \in BOOLEAN : \E nodes \in IF listed THEN {db.nodes} ELSE {FileNodes, {}} :
          Goes("providers", [managed |-> nodes, sure |-> req.sure /\ listed,
                             out |-> ManagedNodes(req.nodes, nodes, req.pol.nodes)])
    BY DEF ApplyManagedNodes
  <1>e. PICK nodes \in IF listed THEN {db.nodes} ELSE {FileNodes, {}} :
          Goes("providers", [managed |-> nodes, sure |-> req.sure /\ listed,
                             out |-> ManagedNodes(req.nodes, nodes, req.pol.nodes)])
    BY <1>b
  <1> DEFINE out == ManagedNodes(req.nodes, nodes, req.pol.nodes)
             sure == req.sure /\ listed
             fields == [managed |-> nodes, sure |-> sure, out |-> out]
  <1>c. nodes \subseteq ManagedNode /\ (listed => nodes = db.nodes)
    BY <1>1, DatabasesAssumption, FileAssumption
  <1>d. Goes("providers", fields) /\ (sure => req.sure /\ listed)
    BY <1>e
  <1>a. /\ DOMAIN fields = {"managed", "sure", "out"} /\ fields["managed"] = nodes
        /\ fields["sure"] = sure /\ fields["out"] = out
    OBVIOUS
  <1> HIDE DEF fields, sure
  <1>2. /\ req'.at = "providers" /\ req'.managed = nodes /\ req'.out = out /\ req'.sure = sure
        /\ \A f \in DOMAIN req \ {"at", "managed", "sure", "out"} : req'[f] = req[f]
        /\ DOMAIN req' = DOMAIN req \cup {"managed", "sure", "out"}
    BY <1>1, <1>a, <1>d, GoesFacts
  <1>3. {"nodes", "from"} \subseteq DOMAIN req
    BY <1>1 DEF Sound, Found
  <1>4. /\ req'.user = req.user /\ req'.pol = req.pol /\ req'.groups = req.groups /\ req'.calm = req.calm
        /\ req'.nodes = req.nodes /\ req'.from = req.from
    BY <1>1, <1>2, <1>3 DEF Common
  <1>5. Begun(req)' /\ Found(req)'
    BY <1>1, <1>2, <1>4 DEF Sound, Begun, Found, Allowed, Phases
  <1>6. Certain(req)'
    BY <1>1, <1>c, <1>d, <1>2, <1>4 DEF Sound, Certain
  <1>7. Managed(req)'
    BY <1>c, <1>2, <1>4 DEF Managed
  <1> QED BY <1>1, <1>2, <1>5, <1>6, <1>7 DEF Inv, Sound

\* The groups that a policy builds.
LEMMA BuildGroupsFacts ==
  ASSUME NEW d \in Databases, NEW b \in Databases, NEW u \in Users
  PROVE  LET G == BuildGroups(b.groups, PolicyOf(d, u))
         IN  /\ DOMAIN G \subseteq STRING
             /\ \A g \in DOMAIN G : G[g] \in Member /\ G[g].use \subseteq PolicyOf(d, u).provs
  <1> DEFINE policy == PolicyOf(d, u)
             defs == IF DOMAIN b.groups = {} THEN [g \in Defaults |-> None] ELSE b.groups
             on == {h \in DOMAIN defs : defs[h] \in policy.provs \cup {None}}
             members(g) == IF defs[g] = None /\ g \in DOMAIN policy.refs THEN policy.refs[g] ELSE {}
             use(g) == IF defs[g] = None THEN {} ELSE {defs[g]}
  <1>1. /\ policy.provs \subseteq STRING /\ \A g \in DOMAIN policy.refs : policy.refs[g] \subseteq STRING
        /\ DOMAIN b.groups \subseteq STRING
    BY DatabasesAssumption DEF PolicyOf
  <1>2. DOMAIN defs \subseteq STRING
    BY <1>1, NamesAssumption
  <1>3. \A g \in on : members(g) \subseteq STRING /\ use(g) \subseteq policy.provs
    BY <1>1
  <1>4. BuildGroups(b.groups, policy) = [g \in on |-> [members |-> members(g), use |-> use(g)]]
    BY DEF BuildGroups
  <1>5. policy.provs \subseteq STRING
    BY <1>1
  <1>6. on \subseteq STRING
    BY <1>2
  <1> HIDE DEF members, use, on, policy
  <1>7. \A g \in on : [members |-> members(g), use |-> use(g)] \in Member
    BY <1>3, <1>5 DEF Member
  <1> DEFINE G == BuildGroups(b.groups, policy)
             member(g) == [members |-> members(g), use |-> use(g)]
  <1>8. G = [g \in on |-> member(g)] /\ \A g : member(g).use = use(g)
    BY <1>4
  <1> HIDE DEF G
  <1>9. \A g \in on : member(g) \in Member /\ member(g).use \subseteq policy.provs
    BY <1>3, <1>7, <1>8
  <1> HIDE DEF member
  <1>10. /\ DOMAIN G \subseteq STRING
         /\ \A g \in DOMAIN G : G[g] \in Member /\ G[g].use \subseteq policy.provs
    BY <1>6, <1>8, <1>9
  <1> QED BY <1>10 DEF policy, G

LEMMA ProvidersStep ==
  ASSUME Inv, ReadProviders
  PROVE  Inv'
  <1> DEFINE chosen == req.pol.provs \cap DOMAIN db.provs
             addons == [id \in chosen |-> db.provs[id]]
             entries == BuildGroups(req.groups, req.pol)
             fields == [addons |-> addons, todo |-> chosen, entries |-> entries]
  <1>r. CASE Refused
    BY <1>r DEF ReadProviders, Refused, Inv
  <1> SUFFICES ASSUME ~Refused PROVE Inv'
    BY <1>r
  <1>1. req.at = "providers" /\ db' = db /\ Sound /\ Common \subseteq DOMAIN req /\ db \in Databases
        /\ "at" \in DOMAIN req /\ Goes("merge", fields)
    BY SoundFacts DEF ReadProviders
  <1>a. /\ DOMAIN fields = {"addons", "todo", "entries"} /\ fields["addons"] = addons
        /\ fields["todo"] = chosen /\ fields["entries"] = entries
    OBVIOUS
  <1>b. /\ DOMAIN addons = chosen /\ chosen \subseteq req.pol.provs
        /\ \A id \in chosen : addons[id] = db.provs[id] /\ id \in DOMAIN db.provs
    OBVIOUS
  <1>c. /\ DOMAIN entries \subseteq STRING
        /\ \A g \in DOMAIN entries : entries[g] \in Member /\ entries[g].use \subseteq req.pol.provs
    <2>1. PICK d \in Databases : req.pol = PolicyOf(d, req.user)
      BY <1>1 DEF Sound, Begun
    <2>2. PICK b \in Databases : req.groups = b.groups
      BY <1>1 DEF Sound, Begun
    <2>3. req.user \in Users
      BY <1>1 DEF Sound, Begun
    <2> QED BY <2>1, <2>2, <2>3, BuildGroupsFacts
  <1> HIDE DEF fields, addons, entries
  <1>2. /\ req'.at = "merge" /\ req'.addons = addons /\ req'.todo = chosen /\ req'.entries = entries
        /\ \A f \in DOMAIN req \ {"at", "addons", "todo", "entries"} : req'[f] = req[f]
        /\ DOMAIN req' = DOMAIN req \cup {"addons", "todo", "entries"}
    BY <1>1, <1>a, GoesFacts
  <1>3. {"nodes", "from", "managed", "out"} \subseteq DOMAIN req
    BY <1>1 DEF Sound, Found, Managed
  <1>4. /\ req'.user = req.user /\ req'.pol = req.pol /\ req'.groups = req.groups /\ req'.calm = req.calm
        /\ req'.sure = req.sure
        /\ req'.nodes = req.nodes /\ req'.from = req.from /\ req'.managed = req.managed /\ req'.out = req.out
    BY <1>1, <1>2, <1>3 DEF Common
  <1>5. Begun(req)' /\ Certain(req)' /\ Found(req)' /\ Managed(req)'
    BY <1>1, <1>2, <1>4 DEF Sound, Begun, Certain, Found, Managed, Allowed, Phases
  <1>6. Merging(req)'
    <2>1. \A id \in chosen : /\ DOMAIN addons[id] \subseteq STRING
                             /\ \A g \in DOMAIN addons[id] : addons[id][g] \in Member
      BY <1>1, <1>b, DatabasesAssumption
    <2>2. Proper(req', entries)
      BY <1>c, <1>4 DEF Proper
    <2>3. DOMAIN BuildGroups(req'.groups, req'.pol) \subseteq DOMAIN req'.entries
      BY <1>2, <1>4 DEF entries
    <2>4. Proper(req', req'.entries)
      BY <1>2, <2>2
    <2>5. /\ {"addons", "todo", "entries"} \subseteq DOMAIN req'
          /\ DOMAIN req'.addons = chosen /\ req'.todo \subseteq DOMAIN req'.addons
          /\ DOMAIN req'.addons \subseteq req'.pol.provs
          /\ req'.pol.provs \cap DOMAIN db'.provs = chosen
      BY <1>1, <1>b, <1>2, <1>4
    <2>6. \A id \in DOMAIN req'.addons : /\ DOMAIN req'.addons[id] \subseteq STRING
                                         /\ \A g \in DOMAIN req'.addons[id] : req'.addons[id][g] \in Member
      BY <1>b, <1>2, <2>1
    <2> QED BY <2>3, <2>4, <2>5, <2>6 DEF Merging
  <1> QED BY <1>1, <1>2, <1>5, <1>6 DEF Inv, Sound

LEMMA MergeFacts ==
  ASSUME NEW S, NEW entries, NEW added,
         DOMAIN entries \subseteq STRING, \A g \in DOMAIN entries : entries[g] \in Member /\ entries[g].use \subseteq S,
         DOMAIN added \subseteq STRING, \A g \in DOMAIN added : added[g] \in Member /\ added[g].use \subseteq S
  PROVE  LET M == MergeGroups(entries, added)
         IN  /\ DOMAIN M \subseteq STRING /\ DOMAIN entries \subseteq DOMAIN M
             /\ \A g \in DOMAIN M : M[g] \in Member /\ M[g].use \subseteq S
  <1> DEFINE both(g) == [members |-> IF entries[g].members = {} THEN added[g].members ELSE entries[g].members,
                         use     |-> IF entries[g].use = {} THEN added[g].use ELSE entries[g].use]
             D == DOMAIN entries \cup DOMAIN added
  <1>1. \A g \in DOMAIN entries \cap DOMAIN added : both(g) \in Member /\ both(g).use \subseteq S
    BY DEF Member
  <1>2. MergeGroups(entries, added) = [g \in D |-> IF g \notin DOMAIN entries THEN added[g]
                                                   ELSE IF g \notin DOMAIN added THEN entries[g] ELSE both(g)]
    BY DEF MergeGroups
  <1> HIDE DEF both
  <1> QED BY <1>1, <1>2

LEMMA UpsertStep ==
  ASSUME Inv, NEW id, UpsertProviderGroups(id)
  PROVE  Inv'
  <1> DEFINE todo == req.todo \ {id}
             entries == MergeGroups(req.entries, req.addons[id])
             fields == [todo |-> todo, entries |-> entries]
  <1>1. req.at = "merge" /\ db' = db /\ Sound /\ Common \subseteq DOMAIN req /\ db \in Databases
        /\ "at" \in DOMAIN req /\ Goes("merge", fields) /\ id \in req.todo
    BY SoundFacts DEF UpsertProviderGroups
  <1>a. DOMAIN fields = {"todo", "entries"} /\ fields["todo"] = todo /\ fields["entries"] = entries
    OBVIOUS
  <1>b. Merging(req)
    BY <1>1 DEF Sound
  <1>c. /\ DOMAIN entries \subseteq STRING /\ DOMAIN req.entries \subseteq DOMAIN entries
        /\ \A g \in DOMAIN entries : entries[g] \in Member /\ entries[g].use \subseteq req.pol.provs \cup Uses(req)
    <2> DEFINE added == req.addons[id]
    <2>1. id \in DOMAIN req.addons
      BY <1>1, <1>b DEF Merging
    <2>2. DOMAIN added \subseteq STRING /\ \A g \in DOMAIN added : added[g] \in Member
      BY <1>b, <2>1 DEF Merging
    <2>3. \A g \in DOMAIN added : added[g].use \subseteq Uses(req)
      BY <2>1 DEF Uses
    <2>4. /\ DOMAIN req.entries \subseteq STRING
          /\ \A g \in DOMAIN req.entries : /\ req.entries[g] \in Member
                                           /\ req.entries[g].use \subseteq req.pol.provs \cup Uses(req)
      BY <1>b DEF Merging, Proper
    <2> HIDE DEF added
    <2>5. /\ DOMAIN MergeGroups(req.entries, added) \subseteq STRING
          /\ DOMAIN req.entries \subseteq DOMAIN MergeGroups(req.entries, added)
          /\ \A g \in DOMAIN MergeGroups(req.entries, added) :
               /\ MergeGroups(req.entries, added)[g] \in Member
               /\ MergeGroups(req.entries, added)[g].use \subseteq req.pol.provs \cup Uses(req)
      <3> DEFINE S == req.pol.provs \cup Uses(req)
                 es == req.entries
      <3>1. /\ DOMAIN es \subseteq STRING /\ \A g \in DOMAIN es : es[g] \in Member /\ es[g].use \subseteq S
            /\ \A g \in DOMAIN added : added[g] \in Member /\ added[g].use \subseteq S
        BY <2>2, <2>3, <2>4
      <3> HIDE DEF S, es
      <3>2. LET M == MergeGroups(es, added)
            IN  /\ DOMAIN M \subseteq STRING /\ DOMAIN es \subseteq DOMAIN M
                /\ \A g \in DOMAIN M : M[g] \in Member /\ M[g].use \subseteq S
        BY <2>2, <3>1, MergeFacts
      <3> QED BY <3>2 DEF S, es
    <2> QED BY <2>5 DEF added
  <1> HIDE DEF fields, entries
  <1>2. /\ req'.at = "merge" /\ req'.todo = todo /\ req'.entries = entries
        /\ \A f \in DOMAIN req \ {"at", "todo", "entries"} : req'[f] = req[f]
        /\ DOMAIN req' = DOMAIN req \cup {"todo", "entries"}
    BY <1>1, <1>a, GoesFacts
  <1>3. {"nodes", "from", "managed", "out", "addons"} \subseteq DOMAIN req
    BY <1>1, <1>b DEF Sound, Found, Managed, Merging
  <1>4. /\ req'.user = req.user /\ req'.pol = req.pol /\ req'.groups = req.groups /\ req'.calm = req.calm
        /\ req'.sure = req.sure
        /\ req'.nodes = req.nodes /\ req'.from = req.from /\ req'.managed = req.managed /\ req'.out = req.out
        /\ req'.addons = req.addons
    BY <1>1, <1>2, <1>3 DEF Common
  <1>5. Begun(req)' /\ Certain(req)' /\ Found(req)' /\ Managed(req)'
    BY <1>1, <1>2, <1>4 DEF Sound, Begun, Certain, Found, Managed, Allowed, Phases
  <1>6. Merging(req)'
    <2>1. Uses(req') = Uses(req)
      BY <1>4 DEF Uses
    <2>2. Proper(req', entries)
      BY <1>c, <1>4, <2>1 DEF Proper
    <2>3. Proper(req', req'.entries)
      BY <1>2, <2>2
    <2>4. DOMAIN BuildGroups(req'.groups, req'.pol) \subseteq DOMAIN req'.entries
      BY <1>b, <1>c, <1>2, <1>4 DEF Merging
    <2>5. /\ {"addons", "todo", "entries"} \subseteq DOMAIN req'
          /\ req'.todo \subseteq DOMAIN req'.addons /\ DOMAIN req'.addons \subseteq req'.pol.provs
      BY <1>b, <1>2, <1>4 DEF Merging
    <2>6. \A x \in DOMAIN req'.addons : /\ DOMAIN req'.addons[x] \subseteq STRING
                                        /\ \A g \in DOMAIN req'.addons[x] : req'.addons[x][g] \in Member
      BY <1>b, <1>4 DEF Merging
    <2>7. req'.calm => DOMAIN req'.addons = req'.pol.provs \cap DOMAIN db'.provs
      BY <1>1, <1>b, <1>4 DEF Merging
    <2> QED BY <2>3, <2>4, <2>5, <2>6, <2>7 DEF Merging
  <1> QED BY <1>1, <1>2, <1>5, <1>6 DEF Inv, Sound

LEMMA BuildStep ==
  ASSUME Inv, BuildFinalYAML
  PROVE  Inv'
  <1> DEFINE doc == [proxies   |-> {Proxy(n) : n \in req.out},
                     groups    |-> FilterInvalidGroupRefs(req.entries, {n.name : n \in req.out}),
                     providers |-> DOMAIN req.addons \cup Template(req).providers,
                     rules     |-> FilterProviderRules(Template(req).rules, DOMAIN req.addons, req.asked)]
             fields == [doc |-> doc]
  <1>1. req.at = "merge" /\ db' = db /\ Sound /\ Common \subseteq DOMAIN req /\ db \in Databases
        /\ "at" \in DOMAIN req /\ Goes("done", fields)
    BY SoundFacts DEF BuildFinalYAML, Template
  <1>a. DOMAIN fields = {"doc"} /\ fields["doc"] = doc
    OBVIOUS
  <1> HIDE DEF fields, doc
  <1>2. /\ req'.at = "done" /\ req'.doc = doc
        /\ \A f \in DOMAIN req \ {"at", "doc"} : req'[f] = req[f]
        /\ DOMAIN req' = DOMAIN req \cup {"doc"}
    BY <1>1, <1>a, GoesFacts
  <1>3. {"nodes", "from", "managed", "out", "addons", "todo", "entries"} \subseteq DOMAIN req
    BY <1>1 DEF Sound, Found, Managed, Merging
  <1>4. /\ req'.user = req.user /\ req'.pol = req.pol /\ req'.groups = req.groups /\ req'.calm = req.calm
        /\ req'.sure = req.sure
        /\ req'.nodes = req.nodes /\ req'.from = req.from /\ req'.managed = req.managed /\ req'.out = req.out
        /\ req'.addons = req.addons /\ req'.todo = req.todo /\ req'.entries = req.entries
        /\ req'.variant = req.variant /\ req'.mode = req.mode /\ req'.asked = req.asked
    BY <1>1, <1>2, <1>3 DEF Common
  <1>5. Begun(req)' /\ Certain(req)' /\ Found(req)' /\ Managed(req)' /\ Merging(req)'
    <2>1. Begun(req)' /\ Certain(req)' /\ Found(req)' /\ Managed(req)'
      BY <1>1, <1>2, <1>4 DEF Sound, Begun, Certain, Found, Managed, Allowed, Phases
    <2>2. Merging(req) /\ Uses(req') = Uses(req)
      BY <1>1, <1>4 DEF Sound, Uses
    <2>3. Proper(req', req'.entries)
      BY <1>4, <2>2 DEF Merging, Proper
    <2>4. {"addons", "todo", "entries"} \subseteq DOMAIN req'
      BY <1>2, <1>3
    <2>5. Merging(req)'
      BY <1>1, <1>4, <2>2, <2>3, <2>4 DEF Merging
    <2> QED BY <2>1, <2>5
  <1>6. Made(req)'
    <2>1. Template(req') = Template(req)
      BY <1>4 DEF Template
    <2> QED BY <1>2, <1>4, <2>1 DEF Made, doc
  <1> QED BY <1>1, <1>2, <1>5, <1>6 DEF Inv, Sound

\* Another request changes the database: what was read stays.
LEMMA ChangeStep ==
  ASSUME Inv, Change
  PROVE  Inv'
  <1>0. db' \in Databases
    BY DEF Change
  <1>1. CASE req = Idle
    BY <1>0, <1>1 DEF Change, Inv
  <1>2. CASE req # Idle
    <2> DEFINE fields == [calm |-> FALSE]
    <2>1. Sound /\ Common \subseteq DOMAIN req /\ "at" \in DOMAIN req /\ Goes(req.at, fields)
      BY <1>2 DEF Inv, Sound, Begun, Common, Change
    <2>a. DOMAIN fields = {"calm"} /\ fields["calm"] = FALSE
      OBVIOUS
    <2> HIDE DEF fields
    <2>2. /\ req'.at = req.at /\ req'.calm = FALSE /\ DOMAIN req' = DOMAIN req
          /\ \A f \in DOMAIN req \ {"at", "calm"} : req'[f] = req[f]
      BY <2>1, <2>a, GoesFacts DEF Common
    <2>3. /\ req'.user = req.user /\ req'.pol = req.pol /\ req'.groups = req.groups
          /\ req'.variant = req.variant /\ req'.mode = req.mode /\ req'.asked = req.asked
      BY <2>1, <2>2 DEF Common
    <2>4. Begun(req)' /\ Certain(req)'
      BY <2>1, <2>2, <2>3 DEF Sound, Begun, Certain
    <2>5. req'.at \in {"manage", "providers", "merge", "done"} => Found(req)'
      BY <2>1, <2>2, <2>3 DEF Sound, Found, Allowed
    <2>6. req'.at \in {"providers", "merge", "done"} => Managed(req)'
      BY <2>1, <2>2, <2>3 DEF Sound, Found, Managed
    <2>7. req'.at \in {"merge", "done"} => Merging(req)'
      BY <2>1, <2>2, <2>3 DEF Sound, Merging, Proper, Uses
    <2>8. req'.at = "done" => Made(req)'
      BY <2>1, <2>2, <2>3 DEF Sound, Managed, Merging, Made, Template
    <2> QED BY <1>0, <2>4, <2>5, <2>6, <2>7, <2>8 DEF Inv, Sound
  <1> QED BY <1>1, <1>2

(* The inductive invariant: what a request has found out by each of its steps, *)
(* from which databases, whatever has changed since.                           *)
THEOREM Invariance == Spec => []Inv
  <1>1. Init => Inv
    BY DEF Init, Inv
  <1>2. Inv /\ [Next]_vars => Inv'
    <2> SUFFICES ASSUME Inv, [Next]_vars PROVE Inv'
      OBVIOUS
    <2>1. CASE TemplateModeFails \/ Answer
      BY <2>1 DEF TemplateModeFails, Answer, Refused, Inv
    <2>2. CASE UNCHANGED vars
      BY <2>2 DEF vars, Inv, Sound, Begun, Certain, Found, Allowed, Managed, Merging, Proper, Uses, Made, Template
    <2> QED BY <2>1, <2>2, LoadStep, GroupsStep, ResolveStep, PanelStep, ManageStep, ProvidersStep, UpsertStep,
           BuildStep, ChangeStep DEF Next
  <1> QED BY <1>1, <1>2, PTL DEF Spec

---------------------------------------------------------------------------
(* What every answer is like. *)

\* What the nodes of a request become, as ManagedFacts says of any nodes.
LEMMA OutFacts ==
  ASSUME Inv, req.at \in {"providers", "merge", "done"}
  PROVE  /\ Found(req) /\ Managed(req) /\ req.out # {} /\ req.out \subseteq Node
         /\ \A n \in req.out : \E k \in DOMAIN req.nodes : n.cred = req.nodes[k].cred
         /\ \A m \in Selected(req.managed, req.pol.nodes) : Usable(req.nodes, m) =>
              \E n \in req.out : n = Adapted(TemplateOf(req.nodes, m), m)
         /\ LET served == {m \in req.managed : (req.pol.nodes = {} \/ m.id \in req.pol.nodes)
                                               /\ Usable(req.nodes, m)}
            IN  {n.name : n \in req.out} =
                  IF served # {} THEN {m.name : m \in served}
                                 ELSE {req.nodes[k].name : k \in DOMAIN req.nodes}
  <1> DEFINE ts == req.nodes
             nodes == req.managed
             ids == req.pol.nodes
  <1>1. Sound
    BY IdleFacts DEF Inv
  <1>2. Found(req) /\ Managed(req)
    BY <1>1 DEF Sound
  <1>3. /\ DOMAIN ts \subseteq Nat /\ DOMAIN ts # {} /\ \A k \in DOMAIN ts : ts[k] \in Node
        /\ nodes \in SUBSET ManagedNode /\ req.out = ManagedNodes(ts, nodes, ids)
    BY <1>2 DEF Found, Managed
  <1> HIDE DEF ts, nodes, ids
  <1>4. /\ ManagedNodes(ts, nodes, ids) # {} /\ ManagedNodes(ts, nodes, ids) \subseteq Node
        /\ \A n \in ManagedNodes(ts, nodes, ids) : \E k \in DOMAIN ts : n.cred = ts[k].cred
        /\ \A m \in Selected(nodes, ids) : Usable(ts, m) =>
             \E n \in ManagedNodes(ts, nodes, ids) : n = Adapted(TemplateOf(ts, m), m)
        /\ LET served == {m \in nodes : (ids = {} \/ m.id \in ids) /\ Usable(ts, m)}
           IN  {n.name : n \in ManagedNodes(ts, nodes, ids)} =
                 IF served # {} THEN {m.name : m \in served} ELSE {ts[k].name : k \in DOMAIN ts}
    BY <1>3, ManagedFacts
  <1> QED BY <1>2, <1>3, <1>4 DEF ts, nodes, ids

\* An answer that is done, and what it was made of.
LEMMA DoneFacts ==
  ASSUME Inv, req.at = "done"
  PROVE  Begun(req) /\ Found(req) /\ Managed(req) /\ Merging(req) /\ Made(req)
  BY IdleFacts DEF Inv, Sound

\* Whatever changes between a request's reads, what it has read and made is
\* well-formed, and it never makes an empty list of nodes.
THEOREM TypeCorrect == Spec => []TypeOK
  <1>1. Inv => TypeOK
    <2> SUFFICES ASSUME Inv PROVE TypeOK
      OBVIOUS
    <2>1. CASE req = Idle
      BY <2>1, IdleFacts DEF Inv, TypeOK
    <2>2. CASE Sound
      <3>1. db \in Databases /\ req.at \in Phases /\ req.user \in Users
        BY <2>2 DEF Inv, Sound, Begun
      <3>2. req.at \in {"manage", "providers", "merge", "done"} => Found(req)
        BY <2>2 DEF Sound
      <3>3. req.at \in {"providers", "merge", "done"} => req.out # {} /\ req.out \subseteq Node
        BY OutFacts
      <3>4. req.at \in {"merge", "done"} => Proper(req, req.entries)
        BY <2>2 DEF Sound, Merging
      <3> QED BY <3>1, <3>2, <3>3, <3>4 DEF TypeOK, Found, Proper
    <2> QED BY <2>1, <2>2 DEF Inv
  <1> QED BY <1>1, Invariance, PTL

\* The credentials in a user's answer are his own: a managed node changes a
\* template's name and transport, never whose it is.
THEOREM OwnCredentialsKept == Spec => []OwnCredentials
  <1>1. Inv => OwnCredentials
    <2> SUFFICES ASSUME Inv, req.at = "done", NEW p \in req.doc.proxies
                 PROVE  Allowed(req, p.cred)
      BY DEF OwnCredentials, Allowed
    <2>1. Made(req) /\ Found(req)
      BY DoneFacts
    <2>2. PICK n \in req.out : p = Proxy(n)
      BY <2>1 DEF Made
    <2>3. n \in Node /\ \E k \in DOMAIN req.nodes : n.cred = req.nodes[k].cred
      BY OutFacts
    <2>4. Allowed(req, n.cred)
      BY <2>1, <2>3 DEF Found
    <2>5. p.cred \in {n.cred, None}
      BY <2>2, <2>3, ProxyFacts
    <2> QED BY <2>4, <2>5 DEF Allowed
  <1> QED BY <1>1, Invariance, PTL

\* A managed node's template is the user's own inbound of its protocol,
\* transport and server if there is one, and of its transport if there is one.
THEOREM BestTemplateTaken == Spec => []BestTemplate
  <1>1. Inv => BestTemplate
    <2> SUFFICES ASSUME Inv, req.at = "done", req.from = "db",
                        NEW m \in Selected(req.managed, req.pol.nodes), SameNet(m) # {}
                 PROVE  \E p \in req.doc.proxies, k \in IF Exact(m) # {} THEN Exact(m) ELSE SameNet(m) :
                          p = Proxy(Adapted(req.nodes[k], m))
      BY DEF BestTemplate
    <2> DEFINE ts == req.nodes
    <2>1. /\ DOMAIN ts \subseteq Nat /\ \A k \in DOMAIN ts : ts[k].sid # 0
          /\ req.doc.proxies = {Proxy(n) : n \in req.out}
      BY DoneFacts DEF Found, Made
    <2>2. /\ SameNet(m) = {j \in DOMAIN ts : SameType(ts[j], m) /\ SameWay(ts[j], m)}
          /\ Exact(m) = {j \in SameNet(m) : ts[j].sid = m.sid}
      BY DEF SameNet, Exact, SameType, SameWay
    <2>3. Usable(ts, m)
      BY <2>2 DEF Usable, SameType
    <2>4. PICK n \in req.out : n = Adapted(TemplateOf(ts, m), m)
      BY <2>3, OutFacts
    <2> HIDE DEF ts
    <2>5. PICK k \in DOMAIN ts :
            /\ TemplateOf(ts, m) = ts[k] /\ SameType(ts[k], m)
            /\ \A j \in DOMAIN ts :
                 SameType(ts[j], m) /\ SameWay(ts[j], m) =>
                   SameWay(ts[k], m) /\ (NearBy(ts[j], m) => NearBy(ts[k], m))
      BY <2>1, <2>3, TemplateFacts
    <2>6. k \in SameNet(m)
      BY <2>2, <2>5
    <2>7. Exact(m) # {} => k \in Exact(m)
      <3> SUFFICES ASSUME NEW j \in Exact(m) PROVE ts[k].sid = m.sid
        BY <2>2, <2>6
      <3>1. j \in DOMAIN ts /\ SameType(ts[j], m) /\ SameWay(ts[j], m) /\ ts[j].sid = m.sid
        BY <2>2
      <3>2. NearBy(ts[k], m)
        BY <2>5, <3>1 DEF NearBy
      <3>3. m.sid # 0 /\ ts[k].sid # 0
        BY <2>1, <3>1
      <3> QED BY <3>2, <3>3 DEF NearBy
    <2>8. Proxy(n) \in req.doc.proxies /\ Proxy(n) = Proxy(Adapted(ts[k], m))
      BY <2>1, <2>4, <2>5
    <2> QED BY <2>6, <2>7, <2>8 DEF ts
  <1> QED BY <1>1, Invariance, PTL

\* If no read fails: the names in an answer are those of the managed nodes that
\* the user's inbounds can serve, only the selected ones if the spelling that is
\* asked for has a row with a selection, or of the inbounds if there is none
\* such; and if nothing changes meanwhile, all that is as the database says.
THEOREM SelectionKept == Spec => []SelectionHonoured
  <1>1. Inv => SelectionHonoured
    <2> SUFFICES ASSUME Inv, req.at = "done", req.sure PROVE SelectionHonoured
      BY DEF SelectionHonoured
    <2> DEFINE ids == req.pol.nodes
               served == {m \in req.managed : /\ ids = {} \/ m.id \in ids
                                              /\ \E k \in DOMAIN req.nodes : req.nodes[k].type = m.type}
               names == {p.name : p \in req.doc.proxies}
    <2>1. req.doc.proxies = {Proxy(n) : n \in req.out} /\ req.out \subseteq Node
      BY DoneFacts, OutFacts DEF Made
    <2>2. names = {n.name : n \in req.out}
      <3>1. names = {Proxy(n).name : n \in req.out}
        BY <2>1
      <3>2. \A n \in req.out : Proxy(n).name = n.name
        BY <2>1, ProxyFacts
      <3> QED BY <3>1, <3>2
    <2>3. served = {m \in req.managed : (ids = {} \/ m.id \in ids) /\ Usable(req.nodes, m)}
      BY DEF Usable
    <2>4. {n.name : n \in req.out} =
            IF served # {} THEN {m.name : m \in served} ELSE {req.nodes[k].name : k \in DOMAIN req.nodes}
      BY <2>3, OutFacts
    <2>5. names = IF served # {} THEN {m.name : m \in served}
                                 ELSE {req.nodes[k].name : k \in DOMAIN req.nodes}
      BY <2>2, <2>4
    <2>6. ASSUME req.calm
          PROVE  /\ req.managed = db.nodes
                 /\ ids = IF req.user \in DOMAIN db.rows THEN db.pol[req.user].nodes ELSE {}
                 /\ DOMAIN DbNodes(db, req.user) # {} => req.nodes = DbNodes(db, req.user)
      <3>1. Begun(req) /\ Certain(req)
        BY IdleFacts DEF Inv, Sound
      <3>2. req.pol = PolicyOf(db, req.user)
        BY <2>6, <3>1 DEF Begun
      <3>3. ids = IF req.user \in DOMAIN db.rows THEN db.pol[req.user].nodes ELSE {}
        BY <3>2 DEF PolicyOf
      <3> QED BY <2>6, <3>1, <3>3 DEF Certain
    <2> HIDE DEF names, served, ids
    <2>7. /\ names = IF served # {} THEN {m.name : m \in served}
                                    ELSE {req.nodes[k].name : k \in DOMAIN req.nodes}
          /\ req.calm => /\ req.managed = db.nodes
                         /\ ids = IF req.user \in DOMAIN db.rows THEN db.pol[req.user].nodes ELSE {}
                         /\ DOMAIN DbNodes(db, req.user) # {} => req.nodes = DbNodes(db, req.user)
      BY <2>5, <2>6
    <2> QED BY <2>7 DEF SelectionHonoured, names, served, ids
  <1> QED BY <1>1, Invariance, PTL

\* The groups of a document have the entries' members and providers, but for
\* members that the document does not have.
LEMMA GroupFacts ==
  ASSUME NEW entries, NEW names, \A g \in DOMAIN entries : entries[g] \in Member
  PROVE  LET G == FilterInvalidGroupRefs(entries, names)
         IN  /\ DOMAIN G = DOMAIN entries
             /\ \A g \in DOMAIN G : /\ G[g].use = entries[g].use
                                    /\ G[g].members \subseteq Builtins \cup names \cup DOMAIN entries
  <1> DEFINE of(g) == entries[g].members \cap (Builtins \cup names \cup DOMAIN entries)
             group(g) == [entries[g] EXCEPT !.members = of(g)]
             G == FilterInvalidGroupRefs(entries, names)
  <1>1. \A g \in DOMAIN entries : group(g).members = of(g) /\ group(g).use = entries[g].use
    BY DEF Member
  <1>2. G = [g \in DOMAIN entries |-> group(g)]
    BY DEF FilterInvalidGroupRefs
  <1>3. \A g : of(g) \subseteq Builtins \cup names \cup DOMAIN entries
    OBVIOUS
  <1> HIDE DEF of, group, G
  <1>4. /\ DOMAIN G = DOMAIN entries
        /\ \A g \in DOMAIN G : /\ G[g].use = entries[g].use
                               /\ G[g].members \subseteq Builtins \cup names \cup DOMAIN entries
    BY <1>1, <1>2, <1>3
  <1> QED BY <1>4 DEF G

\* What the document that is done has.
LEMMA DocFacts ==
  ASSUME Inv, req.at = "done"
  PROVE  /\ DOMAIN req.doc.groups = DOMAIN req.entries
         /\ \A g \in DOMAIN req.doc.groups :
              /\ req.doc.groups[g].use \subseteq req.pol.provs \cup Declared
              /\ req.doc.groups[g].members \subseteq
                   Builtins \cup {p.name : p \in req.doc.proxies} \cup DOMAIN req.doc.groups
  <1> DEFINE names == {n.name : n \in req.out}
  <1>1. /\ Made(req) /\ Proper(req, req.entries) /\ req.out \subseteq Node
        /\ \A g \in DOMAIN req.entries : req.entries[g] \in Member
    BY DoneFacts, OutFacts DEF Merging, Proper
  <1>2. names \subseteq {p.name : p \in req.doc.proxies}
    <2> SUFFICES ASSUME NEW n \in req.out PROVE \E p \in req.doc.proxies : p.name = n.name
      OBVIOUS
    <2>1. Proxy(n) \in req.doc.proxies /\ Proxy(n).name = n.name
      BY <1>1, ProxyFacts DEF Made
    <2> QED BY <2>1
  <1>3. Uses(req) = Declared
    BY DEF Uses, Declared
  <1>4. req.doc.groups = FilterInvalidGroupRefs(req.entries, names)
    BY <1>1 DEF Made
  <1> HIDE DEF names
  <1>5. /\ DOMAIN req.doc.groups = DOMAIN req.entries
        /\ \A g \in DOMAIN req.doc.groups :
             /\ req.doc.groups[g].use = req.entries[g].use
             /\ req.doc.groups[g].members \subseteq Builtins \cup names \cup DOMAIN req.entries
    BY <1>1, <1>4, GroupFacts
  <1> QED BY <1>1, <1>2, <1>3, <1>5 DEF Proper

\* However the reads are torn, only GLOBAL can be a member that the document
\* does not have; and in a calm request on clean tables, no group uses a
\* provider that is not there, and no rule for a provider misses its group.
THEOREM OnlyKnown == Spec => []OnlyKnownFaults
  <1>1. Inv => OnlyKnownFaults
    <2> SUFFICES ASSUME Inv, req.at = "done", NEW f \in Faults(req.doc)
                 PROVE  /\ f.kind = "member" => f.what = "GLOBAL"
                        /\ req.calm /\ Clean(db, req.user) =>
                             /\ f.kind = "use" => f.what \in Declared
                             /\ f.kind = "rule" => f.what \notin DOMAIN req.addons
      BY DEF OnlyKnownFaults
    <2> DEFINE doc == req.doc
               names == {p.name : p \in doc.proxies}
               known == DOMAIN doc.groups \cup {"DIRECT", "REJECT", "PASS"}
    <2>1. \/ f.kind = "rule" /\ f.what \notin known
          \/ f.kind = "member" /\ \E g \in DOMAIN doc.groups : f.what \in doc.groups[g].members \ (names \cup known)
          \/ f.kind = "use" /\ \E g \in DOMAIN doc.groups : f.what \in doc.groups[g].use \ doc.providers
      <3> DEFINE Of(g, kind, what) == [group |-> g, kind |-> kind, what |-> what]
                 missing(g) == {Of(g, "member", x) : x \in doc.groups[g].members \ (names \cup known)}
                 unused(g) == {Of(g, "use", x) : x \in doc.groups[g].use \ doc.providers}
                 astray == {Of(None, "rule", r.target) : r \in {s \in doc.rules : s.target \notin known}}
      <3>1. f \in astray \cup UNION {missing(g) \cup unused(g) : g \in DOMAIN doc.groups}
        BY DEF Faults
      <3>2. ASSUME f \in astray PROVE f.kind = "rule" /\ f.what \notin known
        BY <3>2
      <3>3. ASSUME NEW g \in DOMAIN doc.groups, f \in missing(g)
            PROVE  f.kind = "member" /\ f.what \in doc.groups[g].members \ (names \cup known)
        BY <3>3
      <3>4. ASSUME NEW g \in DOMAIN doc.groups, f \in unused(g)
            PROVE  f.kind = "use" /\ f.what \in doc.groups[g].use \ doc.providers
        BY <3>4
      <3> HIDE DEF astray, missing, unused, names, known, doc
      <3> QED BY <3>1, <3>2, <3>3, <3>4
    <2>2. /\ Begun(req) /\ Merging(req) /\ Made(req)
      BY DoneFacts
    <2>3. f.kind = "member" => f.what = "GLOBAL"
      BY <2>1, DocFacts DEF Builtins
    <2>4. ASSUME req.calm, Clean(db, req.user)
          PROVE  /\ f.kind = "use" => f.what \in Declared
                 /\ f.kind = "rule" => f.what \notin DOMAIN req.addons
      <3>1. /\ req.pol = PolicyOf(db, req.user) /\ req.groups = db.groups
            /\ DOMAIN req.addons = req.pol.provs /\ req.pol.provs \subseteq DOMAIN db.provs
        BY <2>2, <2>4 DEF Begun, Merging, Clean
      <3>2. f.kind = "use" => f.what \in Declared
        <4>1. DOMAIN req.addons \subseteq doc.providers
          BY <2>2 DEF Made
        <4> QED BY <2>1, <3>1, <4>1, DocFacts
      <3>3. ASSUME f.what \in DOMAIN req.addons PROVE f.what \in known
        <4> DEFINE id == f.what
        <4>1. id \in DOMAIN req.groups /\ req.groups[id] = id /\ id \in req.pol.provs
          BY <2>4, <3>1, <3>3 DEF Clean
        <4>2. id \in DOMAIN BuildGroups(req.groups, req.pol)
          <5> DEFINE groups == req.groups
                     policy == req.pol
                     defs == IF DOMAIN groups = {} THEN [g \in Defaults |-> None] ELSE groups
          <5>1. defs = groups
            BY <4>1
          <5>2. DOMAIN BuildGroups(groups, policy) = {h \in DOMAIN defs : defs[h] \in policy.provs \cup {None}}
            BY DEF BuildGroups
          <5> HIDE DEF defs, groups, policy
          <5>3. id \in DOMAIN groups /\ groups[id] = id /\ id \in policy.provs
            BY <4>1 DEF groups, policy
          <5>4. id \in DOMAIN BuildGroups(groups, policy)
            BY <5>1, <5>2, <5>3
          <5> QED BY <5>4 DEF groups, policy
        <4> QED BY <2>2, <4>2, DocFacts DEF Merging
      <3>4. f.kind = "rule" => f.what \notin DOMAIN req.addons
        BY <2>1, <3>3
      <3> QED BY <3>2, <3>4
    <2> QED BY <2>3, <2>4
  <1> QED BY <1>1, Invariance, PTL

\* A provider that the policy does not select, as it was read, leaves no rule,
\* whoever asks for it, and no group that uses it.
THEOREM UnselectedHidden == Spec => []UnselectedInvisible
  <1>1. Inv => UnselectedInvisible
    <2> SUFFICES ASSUME Inv, req.at = "done" PROVE UnselectedInvisible
      BY DEF UnselectedInvisible
    <2>1. Made(req) /\ DOMAIN req.addons \subseteq req.pol.provs
      BY DoneFacts DEF Merging
    <2>2. req.doc.providers \subseteq req.pol.provs \cup Template(req).providers
      BY <2>1 DEF Made
    <2>3. \A r \in req.doc.rules : r.tags \subseteq {req.asked} \cap req.pol.provs
      BY <2>1 DEF Made, FilterProviderRules
    <2> QED BY <2>2, <2>3, DocFacts DEF UnselectedInvisible, Template
  <1> QED BY <1>1, Invariance, PTL
=============================================================================
