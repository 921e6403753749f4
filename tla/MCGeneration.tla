---------------------------- MODULE MCGeneration ----------------------------
(* A small instance of Generation for TLC. *)
EXTENDS Generation, TLC

CONSTANTS ca, cb, cx

Inbound(sid, type, net, sec, entries) ==
  [remark |-> type, sid |-> sid, type |-> type, net |-> net, sec |-> sec, on |-> TRUE, entries |-> entries]
Entry(u, cred) == [user |-> u, cred |-> cred, flow |-> TRUE]

\* On the second server ann has other credentials than her row's.
Inbounds ==
  "in1" :> Inbound(1, "vless", "tcp", "reality", {Entry("ann", None), Entry("bob", cb)})
    @@ "in2" :> Inbound(2, "vless", "xhttp", "reality", {Entry("ann", cx)})
    @@ "in3" :> Inbound(2, "trojan", "ws", "tls", {Entry("bob", cb)})
    @@ "in4" :> [Inbound(2, "vless", "tcp", "reality", {Entry("ann", cx)}) EXCEPT !.on = FALSE]

Managed(id, name, type, net, sid) == [id |-> id, name |-> name, type |-> type, net |-> net, sid |-> sid]
Policy(nodes, provs, refs) == [nodes |-> nodes, provs |-> provs, refs |-> refs]

\* px brings a group of its own beside the one that bears its name, and so does
\* py, of the same name.
Shared(use, members) == [members |-> members, use |-> use]
Px == "px" :> Shared({"px"}, {}) @@ "extra" :> Shared({"px"}, {"gone"})
Py == "extra" :> Shared({"py"}, {"n1", "main"})

Whole ==
  [rows |-> [u \in {"ann", "bob"} |-> [cred |-> IF u = "ann" THEN ca ELSE cb, flow |-> FALSE]],
   assigned |-> [u \in {"ann", "bob"} |->
     IF u = "ann" THEN <<[inb |-> "in4", on |-> TRUE], [inb |-> "in2", on |-> TRUE], [inb |-> "in1", on |-> TRUE]>>
     ELSE <<[inb |-> "in1", on |-> FALSE], [inb |-> "in3", on |-> TRUE]>>],
   inbounds |-> Inbounds,
   nodes |-> {Managed("n1", "n1", "vless", "raw", 1), Managed("n2", "n2", "vless", "xhttp", 2),
              Managed("n3", "n3", "vless", "ws", 2), Managed("n4", "n4", "trojan", "ws", 0), Managed("n5", "n5", "vless", "xhttp", 1)},
   pol |-> [u \in {"ann", "bob"} |->
     IF u = "ann" THEN Policy({"n1", "n3", "n5"}, {"px", "py"}, "main" :> {"n1", "n2", "px", "GLOBAL"})
                  ELSE Policy({}, {"py"}, "main" :> {"n4", "extra"})],
   mode |-> [u \in {"ann", "bob"} |-> IF u = "ann" THEN "whitelist" ELSE ""],
   default |-> "blacklist",
   groups |-> "main" :> None @@ "px" :> "px" @@ "py" :> "py",
   provs |-> "px" :> Px @@ "py" :> Py]

\* A provider and a node are deleted, and the policies cleaned.
Deleted ==
  [Whole EXCEPT !.nodes = {m \in @ : m.id # "n1"}, !.groups = "main" :> None @@ "py" :> "py",
                !.provs = "py" :> Py, !.pol["ann"] = Policy({"n3", "n5"}, {"py"}, "main" :> {"n1", "n2"})]
\* The same before the cleanup.
Halfway == [Deleted EXCEPT !.pol = Whole.pol, !.groups = Whole.groups]
\* Nothing but imported users: no nodes, groups or policies, one user is gone.
Bare ==
  [Whole EXCEPT !.rows = [u \in {"ann"} |-> Whole.rows["ann"]], !.nodes = {},
                !.groups = [g \in {} |-> None], !.provs = [p \in {} |-> Px],
                !.pol = [u \in {"ann"} |-> Policy({}, {}, [g \in {} |-> {}])],
                !.mode = [u \in {"ann"} |-> ""], !.default = "whitelist"]
Four == {Whole, Deleted, Halfway, Bare}

Client(u, cred, on) == [user |-> u, cred |-> cred, flow |-> TRUE, on |-> on]
Record(remark, type, net, client) ==
  [remark |-> remark, type |-> type, net |-> net, sec |-> "reality", on |-> TRUE, client |-> client]
\* An inbound bears a user's name; one client is disabled, cy is a user of this
\* panel alone, and so is ann, if her email is written as Ann.
TwoUsersPanel ==
  <<Record("bob", "vless", "tcp", Client("ann", ca, TRUE)),
    Record("second", "trojan", "ws", Client("bob", cb, TRUE)),
    Record("third", "vless", "xhttp", Client("bob", cb, FALSE)),
    Record("fourth", "vless", "xhttp", Client("cy", cx, TRUE))>>

Lower(name) == IF name = "Ann" THEN "ann" ELSE name

\* What an older version left.
OldFile == {Managed("n1", "old1", "vless", "raw", 0), Managed("o2", "old2", "trojan", "tcp", 0)}

Rule(target, tags) == [target |-> target, tags |-> tags]
Modes ==
  [m \in {"whitelist", "blacklist", "ios"} |->
     [providers |-> IF m = "ios" THEN {"builtin"} ELSE {},
      rules |-> {Rule("main", {}), Rule("px", {"px"}), Rule("py", {"py"}), Rule("DIRECT", {})}
                  \cup IF m = "blacklist" THEN {Rule("missing", {}), Rule("px", {"px", "py"})} ELSE {}]]
=============================================================================
