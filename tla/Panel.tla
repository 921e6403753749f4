------------------------------- MODULE Panel -------------------------------
(***************************************************************************)
(* One 3x-ui panel as SubForMe's HTTP client sees it.  The panel is not    *)
(* part of the repository: what each endpoint does is taken from how       *)
(* app/service.go and xui/client.go use it and from the calls listed in    *)
(* docs/3x-ui-api-usage.md.                                                *)
(*                                                                         *)
(* Every write endpoint is an operator that returns the SET of panels the  *)
(* call can leave behind; the empty set means that the panel rejects the   *)
(* call and changes nothing.                                               *)
(***************************************************************************)
EXTENDS Naturals

CONSTANTS
  Ids,      \* inbound ids the panel can hand out (1..n: an AUTOINCREMENT column)
  Keys,     \* sync keys: the tag, or protocol|listen|port|remark without a tag
  Ports,    \* listen|port pairs
  Confs,    \* the rest of an inbound's configuration, without its clients
  Emails,   \* client emails, the match key of a user
  Creds,    \* what a client entry carries: uuid, password, flow, quota, ...
  Owns      \* the settings a panel keeps for itself: group, adTag, limitHwid

ASSUME IdsAssumption == Ids \subseteq Nat

Inbound    == [id: Ids, key: Keys, port: Ports, conf: Confs, enable: BOOLEAN]
Attachment == [id: Ids, email: Emails, cred: Creds, enable: BOOLEAN]
Row        == [email: Emails, cred: Creds, enable: BOOLEAN, own: Owns]

\* inbounds and their settings.clients entries, the global client rows, and
\* the id the next inbound will get.
PanelState == [inbounds: SUBSET Inbound, clients: SUBSET Attachment,
               rows: SUBSET Row, next: Nat]

Attached(p, e)  == \E a \in p.clients : a.email = e
HasRow(p, e)    == \E r \in p.rows : r.email = e
HasInbound(p, id) == \E i \in p.inbounds : i.id = id

\* The panel refuses two inbounds with one tag or on one port.
Fits(p, id, key, port) ==
  \A i \in p.inbounds : i.id # id => i.key # key /\ i.port # port

\* A panel that could exist: ids, keys, ports, entries and rows are unique and
\* every entry has its inbound and its row.
WellFormed(p) ==
  /\ \A i \in p.inbounds : Fits(p, i.id, i.key, i.port) /\ i.id < p.next
  /\ \A i, j \in p.inbounds : i.id = j.id => i = j
  /\ \A a, b \in p.clients : a.id = b.id /\ a.email = b.email => a = b
  /\ \A r, q \in p.rows : r.email = q.email => r = q
  /\ \A a \in p.clients : HasInbound(p, a.id) /\ HasRow(p, a.email)

\* Panel q after a removal from p: what happens to a client row that lost its
\* last attachment depends on the panel's version, it stays or it goes.
Settled(p, q) ==
  {q, [q EXCEPT !.rows = {r \in q.rows : Attached(p, r.email) => Attached(q, r.email)}]}

\* inbounds/add: the body carries no clients.
AddInbound(p, m) ==
  IF Fits(p, p.next, m.key, m.port) /\ p.next \in Ids
  THEN {[p EXCEPT !.inbounds = @ \cup {[id |-> p.next, key |-> m.key, port |-> m.port,
                                        conf |-> m.conf, enable |-> m.enable]},
                  !.next = @ + 1]}
  ELSE {}

\* inbounds/update/{id}: since 3.9.0 it touches neither clients nor enable.
UpdateInbound(p, id, m) ==
  IF HasInbound(p, id) /\ Fits(p, id, m.key, m.port)
  THEN {[p EXCEPT !.inbounds =
           {IF i.id = id THEN [i EXCEPT !.key = m.key, !.port = m.port, !.conf = m.conf]
            ELSE i : i \in @}]}
  ELSE {}

\* inbounds/setEnable/{id}
SetInboundEnable(p, id, on) ==
  IF HasInbound(p, id)
  THEN {[p EXCEPT !.inbounds = {IF i.id = id THEN [i EXCEPT !.enable = on] ELSE i : i \in @}]}
  ELSE {}

\* inbounds/del/{id}: the inbound goes with its client entries.
DeleteInbound(p, id) ==
  IF HasInbound(p, id)
  THEN Settled(p, [p EXCEPT !.inbounds = {i \in @ : i.id # id},
                            !.clients = {a \in @ : a.id # id}])
  ELSE {}

\* clients/add: refused with "email already in use" when the row exists.
CreateClient(p, c, id) ==
  IF ~HasRow(p, c.email) /\ HasInbound(p, id)
  THEN {[p EXCEPT !.rows = @ \cup {c},
                  !.clients = @ \cup {[id |-> id, email |-> c.email,
                                       cred |-> c.cred, enable |-> c.enable]}]}
  ELSE {}

\* clients/{email}/attach: the new entry is a copy of the global row.
AttachClient(p, e, id) ==
  IF HasRow(p, e) /\ HasInbound(p, id)
  THEN IF \E a \in p.clients : a.id = id /\ a.email = e
       THEN {p}
       ELSE {[p EXCEPT !.clients = @ \cup {[id |-> id, email |-> e, cred |-> r.cred,
                                            enable |-> r.enable]}] :
                r \in {x \in p.rows : x.email = e}}
  ELSE {}

\* clients/update/{email}?inboundIds={id}: one entry, and the global row with it.
UpdateClient(p, c, id) ==
  IF \E a \in p.clients : a.id = id /\ a.email = c.email
  THEN {[p EXCEPT !.clients = {IF a.id = id /\ a.email = c.email
                               THEN [a EXCEPT !.cred = c.cred, !.enable = c.enable]
                               ELSE a : a \in @},
                  !.rows = {IF r.email = c.email THEN c ELSE r : r \in @}]}
  ELSE {}

\* clients/{email}/detach
DetachClient(p, e, id) ==
  IF HasRow(p, e) /\ HasInbound(p, id)
  THEN Settled(p, [p EXCEPT !.clients = {a \in @ : ~(a.id = id /\ a.email = e)}])
  ELSE {}

\* clients/del/{email}: the row and every entry of it.
DeleteClient(p, e) ==
  IF HasRow(p, e)
  THEN {[p EXCEPT !.rows = {r \in @ : r.email # e}, !.clients = {a \in @ : a.email # e}]}
  ELSE {}

\* A quota or an expiry turns a client off, or the panel's own administrator
\* turns it on or off: the row and every entry follow.
SwitchClient(p, e) ==
  LET on == ~(\E r \in p.rows : r.email = e /\ r.enable)
  IN [p EXCEPT !.rows = {IF r.email = e THEN [r EXCEPT !.enable = on] ELSE r : r \in @},
               !.clients = {IF a.email = e THEN [a EXCEPT !.enable = on] ELSE a : a \in @}]
=============================================================================
