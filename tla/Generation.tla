----------------------------- MODULE Generation -----------------------------
(***************************************************************************)
(* A subscription: the nodes a user may use, the groups, providers and     *)
(* rules of his policy, and the document that is made of them              *)
(* (backend/internal/app/service.go, groups/builder.go, generator/         *)
(* build.go, generator/provider_rules.go and generator/validate.go, and    *)
(* xui/service.go for users the database does not know).                   *)
(*                                                                         *)
(* Generating changes nothing, but it reads the database in several        *)
(* statements, any of which may fail, and any request may change it in     *)
(* between. What a document says is a set of proxies and a function from   *)
(* groups to what is in them; an address, a port and the other options of  *)
(* a proxy stay with its name.                                             *)
(* The database and the policies know a user by the exact spelling of his  *)
(* email, a panel's clients and remarks are compared without regard to     *)
(* case: Fold is what is left of a name then.                              *)
(***************************************************************************)
EXTENDS Naturals, Sequences

CONSTANTS
  Users, Creds,  \* spellings of emails; credentials
  Fold(_),
  Databases,  \* what the database may hold
  FileNodes,  \* the nodes of nodes.yaml
  Panel,      \* the inbounds of the configured panel
  Templates,  \* the mode's template, and the one for iOS: rules, providers
  Defaults,   \* the groups there are when none are saved
  None

Types    == {"vless", "vmess", "trojan", "shadowsocks", "hysteria2"}
Nets     == {"tcp", "raw", "ws", "xhttp"}
Builtins == {"DIRECT", "REJECT", "GLOBAL", "PASS"}

\* A node before it becomes a proxy; sid 0: of no server of the database.
Node == [name: STRING, type: Types, sid: Nat, net: Nets, tls: BOOLEAN, reality: BOOLEAN,
         xhttp: BOOLEAN, flow: BOOLEAN, cred: Creds \cup {None}]

ManagedNode == [id: STRING, name: STRING, type: Types, net: Nets, sid: Nat]

Member == [members: SUBSET STRING, use: SUBSET STRING]

ASSUME NamesAssumption ==
  Users \cup Defaults \subseteq STRING /\ None \notin Creds /\ None \notin STRING
ASSUME DatabasesAssumption ==
  \A d \in Databases :
    /\ DOMAIN d.rows \subseteq Users
    /\ \A u \in DOMAIN d.rows : d.rows[u] \in [cred: Creds, flow: BOOLEAN]
    /\ \A i \in DOMAIN d.inbounds :
         d.inbounds[i] \in [remark: STRING, sid: Nat \ {0}, type: Types, net: Nets, on: BOOLEAN,
                            sec: {"", "tls", "reality"},
                            entries: SUBSET [user: Users, cred: Creds \cup {None}, flow: BOOLEAN]]
    /\ \A u \in DOMAIN d.rows : d.assigned[u] \in Seq([inb: DOMAIN d.inbounds, on: BOOLEAN])
    /\ d.nodes \subseteq ManagedNode
    /\ \A u \in DOMAIN d.rows :
         /\ DOMAIN d.pol[u].refs \subseteq STRING /\ d.pol[u].provs \subseteq STRING
         /\ \A g \in DOMAIN d.pol[u].refs : d.pol[u].refs[g] \subseteq STRING
    /\ DOMAIN d.groups \subseteq STRING
    /\ \A id \in DOMAIN d.provs : /\ DOMAIN d.provs[id] \subseteq STRING
                                  /\ \A g \in DOMAIN d.provs[id] : d.provs[id][g] \in Member
ASSUME FileAssumption == FileNodes \subseteq ManagedNode
ASSUME PanelAssumption ==
  Panel \in Seq([remark: STRING, type: Types, net: Nets, sec: {"", "tls", "reality"}, on: BOOLEAN,
                 client: [user: Users, cred: Creds \cup {None}, flow: BOOLEAN, on: BOOLEAN]])

VARIABLES
  db,    \* the tables
  req    \* the request that is being answered, with what it has read so far

vars == <<db, req>>

Idle == [at |-> "idle"]

---------------------------------------------------------------------------
(* Nodes *)

NormalNet(net) == IF net = "tcp" THEN "raw" ELSE net

NormalNode(n) ==
  LET net == NormalNet(n.net)
  IN  IF n.type # "vless"
      THEN [n EXCEPT !.net = net, !.flow = FALSE, !.reality = FALSE, !.xhttp = FALSE]
      ELSE IF net = "xhttp"
           THEN [n EXCEPT !.tls = TRUE, !.flow = FALSE, !.reality = FALSE]
           ELSE [n EXCEPT !.net = net, !.xhttp = FALSE]

\* The node of an inbound for one of its clients.
NodeOf(inb, cred, flow, sid) ==
  [name |-> inb.remark, type |-> inb.type, sid |-> sid, net |-> NormalNet(inb.net),
   tls |-> inb.sec \in {"tls", "reality"}, reality |-> inb.sec = "reality",
   xhttp |-> inb.net = "xhttp", flow |-> flow, cred |-> cred]

\* Mutant: any client of the inbound.
BuildAnyNode(inb, u, row) ==
  LET theirs == {e.cred : e \in inb.entries} \ {None}
      cred == IF theirs # {} THEN CHOOSE c \in theirs : TRUE ELSE row.cred
  IN  NormalNode(NodeOf(inb, cred, row.flow \/ \E e \in inb.entries : e.flow, inb.sid))

\* buildNodeFromCache: what the panel's client with the user's email leaves
\* empty comes from the user's row. An inbound has one client of an email at
\* most, whatever its case.
BuildNode(inb, u, row) ==
  LET own  == {e \in inb.entries : Fold(e.user) = Fold(u)}
      his  == {e.cred : e \in own} \ {None}
      cred == IF his # {} THEN CHOOSE c \in his : TRUE ELSE row.cred
  IN  NormalNode(NodeOf(inb, cred, row.flow \/ \E e \in own : e.flow, inb.sid))

\* dbResolveUserNodes: the nodes have their assignment's position. An inbound
\* that is assigned twice counts once: as the proxies are a set, it makes no
\* difference here.
DbNodes(d, u) ==
  LET mine == IF u \in DOMAIN d.rows THEN d.assigned[u] ELSE <<>>
  IN  [k \in {j \in DOMAIN mine : mine[j].on /\ d.inbounds[mine[j].inb].on} |->
         BuildNode(d.inbounds[mine[k].inb], u, d.rows[u])]

\* collectNodes: of each enabled client with this email, or of an inbound
\* that has it for a remark. They are not normalised.
Named(rec, u) == Fold(u) \in {Fold(rec.client.user), Fold(rec.remark)}
PanelNodes(u) ==
  [k \in {j \in DOMAIN Panel : Panel[j].on /\ Panel[j].client.on /\ Named(Panel[j], u)} |->
     NodeOf(Panel[k], Panel[k].client.cred, Panel[k].client.flow, 0)]

\* findTemplateNode
Fits(t, m, sameServer, sameNet) ==
  /\ t.type = m.type
  /\ sameServer => m.sid = 0 \/ t.sid = 0 \/ t.sid = m.sid
  /\ sameNet => NormalNet(t.net) = NormalNet(m.net)

\* Mutant: the server comes before the transport.
ServerFirst == <<<<TRUE, TRUE>>, <<TRUE, FALSE>>, <<FALSE, TRUE>>, <<FALSE, FALSE>>>>

\* managedTemplateNode tries these in turn.
Passes == <<<<TRUE, TRUE>>, <<FALSE, TRUE>>, <<TRUE, FALSE>>, <<FALSE, FALSE>>>>

Fitting(ts, m, pass) == {k \in DOMAIN ts : Fits(ts[k], m, pass[1], pass[2])}
Usable(ts, m) == \E k \in DOMAIN ts : ts[k].type = m.type
Least(S) == CHOOSE k \in S : \A j \in S : k <= j
TemplateOf(ts, m) ==
  LET pass == Passes[Least({p \in 1..4 : Fitting(ts, m, Passes[p]) # {}})]
  IN  ts[Least(Fitting(ts, m, pass))]

\* adaptTemplateNodeToManaged, and the name and address of the managed node.
Adapted(t, m) == [NormalNode([t EXCEPT !.net = NormalNet(m.net)]) EXCEPT !.name = m.name]

\* Mutant: no selection selects nothing.
SelectedOnly(nodes, ids) == {m \in nodes : m.id \in ids}

\* applyManagedNodes: no selection selects everything.
Selected(nodes, ids) == {m \in nodes : ids = {} \/ m.id \in ids}
Expanded(ts, nodes, ids) ==
  {Adapted(TemplateOf(ts, m), m) : m \in {n \in Selected(nodes, ids) : Usable(ts, n)}}
\* Mutant: the inbounds are no replacement.
NothingElse(ts, nodes, ids) == Expanded(ts, nodes, ids)

ManagedNodes(ts, nodes, ids) ==
  LET expanded == Expanded(ts, nodes, ids)
  IN  IF expanded # {} THEN expanded ELSE {ts[k] : k \in DOMAIN ts}

\* buildProxy
Proxy(n) ==
  [name |-> n.name, type |-> n.type,
   net     |-> IF n.net \in {"raw", "tcp"} THEN "tcp" ELSE n.net,
   tls     |-> n.tls \/ (n.type = "vless" /\ n.net = "xhttp"),
   xhttp   |-> n.type = "vless" /\ n.net = "xhttp",
   flow    |-> n.type = "vless" /\ n.net # "xhttp" /\ n.flow,
   reality |-> n.type = "vless" /\ n.net # "xhttp" /\ n.reality,
   cred    |-> IF n.type = "hysteria2" THEN None ELSE n.cred,
   sid     |-> n.sid]

---------------------------------------------------------------------------
(* Groups and rules *)

\* groups.Build and convertGroups. Groups of providers that are not selected
\* are left out; the others have the members that the policy gives them.
BuildGroups(groups, policy) ==
  LET defs == IF DOMAIN groups = {} THEN [g \in Defaults |-> None] ELSE groups
  IN  [g \in {h \in DOMAIN defs : defs[h] \in policy.provs \cup {None}} |->
         [members |-> IF defs[g] = None /\ g \in DOMAIN policy.refs THEN policy.refs[g] ELSE {},
          use     |-> IF defs[g] = None THEN {} ELSE {defs[g]}]]

\* upsertProviderGroup: what a group of that name lacks is filled in.
MergeGroups(entries, added) ==
  [g \in DOMAIN entries \cup DOMAIN added |->
     IF g \notin DOMAIN entries THEN added[g]
     ELSE IF g \notin DOMAIN added THEN entries[g]
     ELSE [members |-> IF entries[g].members = {} THEN added[g].members ELSE entries[g].members,
           use     |-> IF entries[g].use = {} THEN added[g].use ELSE entries[g].use]]

\* Mutant: groups that use a provider are passed over.
FilterPlainGroups(entries, names) ==
  [g \in DOMAIN entries |->
     IF entries[g].use # {} THEN entries[g]
     ELSE [entries[g] EXCEPT !.members = @ \cap (Builtins \cup names \cup DOMAIN entries)]]

\* Of all the entries, after the providers' were merged.
FilterInvalidGroupRefs(entries, names) ==
  [g \in DOMAIN entries |->
     [entries[g] EXCEPT !.members = @ \cap (Builtins \cup names \cup DOMAIN entries)]]

\* Mutant: whoever asks gets the provider's rules.
FilterAskedRules(rules, selected, asked) == {r \in rules : \A tag \in r.tags : tag = asked}

\* A rule under @provider comments: each must be the one that is asked for,
\* and be selected.
FilterProviderRules(rules, selected, asked) ==
  {r \in rules : \A tag \in r.tags : tag = asked /\ tag \in selected}

\* generator.ValidateConfig, which knows no GLOBAL.
Faults(doc) ==
  LET names == {p.name : p \in doc.proxies}
      Of(g, kind, what) == [group |-> g, kind |-> kind, what |-> what]
      known == DOMAIN doc.groups \cup {"DIRECT", "REJECT", "PASS"}
      InGroup(g) == {Of(g, "member", x) : x \in doc.groups[g].members \ (names \cup known)}
                      \cup {Of(g, "use", x) : x \in doc.groups[g].use \ doc.providers}
  IN  {Of(None, "rule", r.target) : r \in {s \in doc.rules : s.target \notin known}}
        \cup UNION {InGroup(g) : g \in DOMAIN doc.groups}

---------------------------------------------------------------------------
(* GenerateWithOptions: a step for each of the reads it calls, though most   *)
(* of these are more than one statement: the settings and the users; the     *)
(* number of groups, their settings and the groups; a user's row, his        *)
(* assignments and each inbound. No change comes between those.              *)

\* LoadAppConfigFromDB: a spelling that has no row has no policy, and the mode
\* of the settings.
PolicyOf(d, u) == IF u \in DOMAIN d.rows THEN d.pol[u]
                  ELSE [nodes |-> {}, provs |-> {}, refs |-> [g \in {} |-> {}]]
ResolveMode(d, u) == IF u \in DOMAIN d.rows /\ d.mode[u] \in {"whitelist", "blacklist"}
                     THEN d.mode[u] ELSE d.default

\* history: calm, nothing has changed since the request began; sure, no read
\* has failed. If loadBundle fails, there is no request.
LoadAppConfig ==
  /\ req = Idle
  /\ \E u \in Users, asked \in {None} \cup DOMAIN db.provs, variant \in {"", "ios", "other"} :
       req' = [at |-> "groups", user |-> u, asked |-> asked, variant |-> variant,
               pol |-> PolicyOf(db, u), mode |-> ResolveMode(db, u), groups |-> [g \in {} |-> None],
               calm |-> TRUE, sure |-> TRUE]
  /\ UNCHANGED db

\* Adds what the step found out, under its name, and goes on.
Goes(at, fields) ==
  req' = [f \in {"at"} \cup DOMAIN fields \cup DOMAIN req |->
            IF f = "at" THEN at ELSE IF f \in DOMAIN fields THEN fields[f] ELSE req[f]]

Refused == req' = Idle

LoadGroupsConfig ==
  /\ req.at = "groups"
  /\ \/ Goes("resolve", [groups |-> db.groups])
     \/ Refused
  /\ UNCHANGED db

\* An inbound that cannot be read is passed over; if it is the user or his
\* assignments, there are no nodes.
DbResolveUserNodes ==
  /\ req.at = "resolve"
  /\ LET all == DbNodes(db, req.user)
     IN  \E lost \in SUBSET DOMAIN all :
           LET found == [k \in DOMAIN all \ lost |-> all[k]]
           IN  IF DOMAIN found = {} THEN Goes("panel", [sure |-> lost = {}])
               ELSE Goes("manage", [nodes |-> found, from |-> "db", sure |-> lost = {}])
  /\ UNCHANGED db

\* Or the panel does not answer, or is not configured.
ResolveUserNodes ==
  /\ req.at = "panel"
  /\ \/ DOMAIN PanelNodes(req.user) # {} /\ Goes("manage", [nodes |-> PanelNodes(req.user), from |-> "panel"])
     \/ Refused
  /\ UNCHANGED db

\* loadManagedNodes: if the table cannot be read, the nodes are those of the
\* file, or none if that cannot be read either; the policy is what it was.
ApplyManagedNodes ==
  /\ req.at = "manage"
  /\ \E listed \in BOOLEAN : \E nodes \in IF listed THEN {db.nodes} ELSE {FileNodes, {}} :
       Goes("providers", [managed |-> nodes, sure |-> req.sure /\ listed,
                          out |-> ManagedNodes(req.nodes, nodes, req.pol.nodes)])
  /\ UNCHANGED db

\* The providers that are selected and exist; todo: those whose groups are not
\* merged yet: a Go map is walked in any order.
ReadProviders ==
  /\ req.at = "providers" /\ req.variant # "other"
  /\ LET chosen == req.pol.provs \cap DOMAIN db.provs
     IN  \/ Goes("merge", [addons |-> [id \in chosen |-> db.provs[id]], todo |-> chosen,
                           entries |-> BuildGroups(req.groups, req.pol)])
         \/ Refused
  /\ UNCHANGED db

TemplateModeFails ==
  /\ req.at = "providers" /\ req.variant = "other"
  /\ Refused
  /\ UNCHANGED db

UpsertProviderGroups(id) ==
  /\ req.at = "merge" /\ id \in req.todo
  /\ Goes("merge", [todo |-> req.todo \ {id}, entries |-> MergeGroups(req.entries, req.addons[id])])
  /\ UNCHANGED db

BuildFinalYAML ==
  /\ req.at = "merge" /\ req.todo = {}
  /\ LET template == Templates[IF req.variant = "ios" THEN "ios" ELSE req.mode]
         chosen   == DOMAIN req.addons
     IN  Goes("done", [doc |->
           [proxies   |-> {Proxy(n) : n \in req.out},
            groups    |-> FilterInvalidGroupRefs(req.entries, {n.name : n \in req.out}),
            providers |-> chosen \cup template.providers,
            rules     |-> FilterProviderRules(template.rules, chosen, req.asked)]])
  /\ UNCHANGED db

Answer ==
  /\ req.at = "done"
  /\ req' = Idle
  /\ UNCHANGED db

\* Any other request; Policies and MainImport are about these.
Change ==
  /\ db' \in Databases /\ db' # db
  /\ IF req = Idle THEN UNCHANGED req ELSE Goes(req.at, [calm |-> FALSE])

Init == db \in Databases /\ req = Idle

Next ==
  \/ LoadAppConfig \/ LoadGroupsConfig \/ DbResolveUserNodes \/ ResolveUserNodes \/ ApplyManagedNodes
  \/ ReadProviders \/ TemplateModeFails
  \/ \E id \in UNION {DOMAIN d.provs : d \in Databases} : UpsertProviderGroups(id)
  \/ BuildFinalYAML \/ Answer \/ Change

Spec == Init /\ [][Next]_vars
---------------------------------------------------------------------------
(* Properties *)

Phases == {"groups", "resolve", "panel", "manage", "providers", "merge", "done"}

\* The tables, and what a request has read and made by each of its steps.
TypeOK ==
  /\ db \in Databases
  /\ \/ req = Idle
     \/ req.at \in Phases /\ req.user \in Users
  /\ req.at \in {"manage", "providers", "merge", "done"} =>
       /\ DOMAIN req.nodes # {} /\ DOMAIN req.nodes \subseteq Nat
       /\ \A k \in DOMAIN req.nodes : req.nodes[k] \in Node
  /\ req.at \in {"providers", "merge", "done"} => req.out # {} /\ req.out \subseteq Node
  /\ req.at \in {"merge", "done"} =>
       DOMAIN req.entries \subseteq STRING /\ \A g \in DOMAIN req.entries : req.entries[g] \in Member

\* Whose credentials there are: those of the row with that spelling, and those
\* of the entries that panels have for him, whatever their case.
Own(u) ==
  {d.rows[u].cred : d \in {e \in Databases : u \in DOMAIN e.rows}}
    \cup {Panel[k].client.cred : k \in {j \in DOMAIN Panel : Fold(Panel[j].client.user) = Fold(u)}}
    \cup UNION {UNION {{e.cred : e \in {f \in d.inbounds[i].entries : Fold(f.user) = Fold(u)}} :
                         i \in DOMAIN d.inbounds} : d \in Databases}

\* Nobody's subscription carries another's credentials, whatever changes
\* between the reads and whichever template a managed node takes. Asking by an
\* inbound's remark, for a user the database has no nodes for, is the exception.
OwnCredentials ==
  req.at = "done" =>
    \A p \in req.doc.proxies :
      \/ p.cred \in Own(req.user) \cup {None}
      \/ req.from = "panel" /\ \E k \in DOMAIN Panel : Fold(Panel[k].remark) = Fold(req.user)

\* The user's inbounds with the protocol and transport of a managed node, and
\* those of them on its server.
SameNet(m) == {k \in DOMAIN req.nodes : /\ req.nodes[k].type = m.type
                                       /\ NormalNet(req.nodes[k].net) = NormalNet(m.net)}
Exact(m)   == {k \in SameNet(m) : req.nodes[k].sid = m.sid}

\* A managed node takes its credentials and keys from the user's inbound of
\* that protocol, server and transport if he has one, and never from a
\* transport that is not its own if he has its own anywhere.
BestTemplate ==
  req.at = "done" /\ req.from = "db" =>
    \A m \in Selected(req.managed, req.pol.nodes) :
      SameNet(m) # {} =>
        \E p \in req.doc.proxies, k \in IF Exact(m) # {} THEN Exact(m) ELSE SameNet(m) :
          p = Proxy(Adapted(req.nodes[k], m))

\* If no read fails, whoever asks by the spelling that the database has, and
\* has a selection, gets the selected nodes that his inbounds can serve, all of
\* them and nothing else; whoever has none, and any other spelling has none,
\* gets every managed node they can serve. Only if there is none such do the
\* inbounds themselves come. What was selected, and from which nodes, is what
\* the database says unless it changes meanwhile.
SelectionHonoured ==
  req.at = "done" /\ req.sure =>
    LET ids    == req.pol.nodes
        served == {m \in req.managed : /\ ids = {} \/ m.id \in ids
                                       /\ \E k \in DOMAIN req.nodes : req.nodes[k].type = m.type}
        names  == {p.name : p \in req.doc.proxies}
    IN  /\ names = IF served # {} THEN {m.name : m \in served}
                                  ELSE {req.nodes[k].name : k \in DOMAIN req.nodes}
        /\ req.calm => /\ req.managed = db.nodes
                       /\ ids = IF req.user \in DOMAIN db.rows THEN db.pol[req.user].nodes ELSE {}
                       /\ DOMAIN DbNodes(db, req.user) # {} => req.nodes = DbNodes(db, req.user)

\* What Policies keeps: of policies (ProviderPrefsClean) and of groups
\* (ProvidersHaveTheirGroup).
Clean(d, u) ==
  /\ PolicyOf(d, u).provs \subseteq DOMAIN d.provs
  /\ \A id \in DOMAIN d.provs : id \in DOMAIN d.groups /\ d.groups[id] = id
\* What the selected providers' own groups use.
Declared == UNION {UNION {req.addons[id][g].use : g \in DOMAIN req.addons[id]} : id \in DOMAIN req.addons}

\* However the reads are torn, no group has a member that the document does
\* not have, but for GLOBAL, which the validator does not know; and if nothing
\* changed in between and the cleanups had been done, no group uses a provider
\* that is not there and every rule for a provider leads to its group.
OnlyKnownFaults ==
  req.at = "done" =>
    \A f \in Faults(req.doc) :
      /\ f.kind = "member" => f.what = "GLOBAL"
      /\ req.calm /\ Clean(db, req.user) =>
           /\ f.kind = "use" => f.what \in Declared
           /\ f.kind = "rule" => f.what \notin DOMAIN req.addons

\* A provider that the policy does not select leaves no trace in the document:
\* not a rule, whoever asks for it, nor a group that uses it, though the policy
\* and the providers are read at different times.
UnselectedInvisible ==
  req.at = "done" =>
    /\ req.doc.providers \subseteq req.pol.provs
                              \cup Templates[IF req.variant = "ios" THEN "ios" ELSE req.mode].providers
    /\ \A g \in DOMAIN req.doc.groups : req.doc.groups[g].use \subseteq req.pol.provs \cup Declared
    /\ \A r \in req.doc.rules : r.tags \subseteq {req.asked} \cap req.pol.provs
=============================================================================
