----------------------------- MODULE PanelProofs -----------------------------
(***************************************************************************)
(* What each operation of Panel keeps: the type of the panel, the ids of   *)
(* its inbounds, and the client entries it has no business with; and what  *)
(* it makes of a well-formed panel.                                        *)
(***************************************************************************)
EXTENDS Panel, TLAPS

(***************************************************************************)
(* What the panel's operations keep.                                       *)
(***************************************************************************)
UniqueIds(x) == \A i, j \in x.inbounds : i.id = j.id => i = j
EntryIn(p, id, e) == \E a \in p.clients : a.id = id /\ a.email = e

\* The part of WellFormed that the arguments below need.
Sound(p) ==
  /\ UniqueIds(p)
  /\ \A i \in p.inbounds : i.id < p.next
  /\ \A a \in p.clients : HasInbound(p, a.id)

\* A well-formed panel is sound.
LEMMA WellFormedSound ==
  ASSUME NEW p \in PanelState, WellFormed(p) PROVE Sound(p)
BY DEF WellFormed, Sound, UniqueIds

\* inbounds/add keeps what is there and adds an inbound with a new id.
LEMMA AddInboundKeeps ==
  ASSUME NEW p \in PanelState, Sound(p), NEW m \in [key: Keys, port: Ports, conf: Confs, enable: BOOLEAN],
         NEW q \in AddInbound(p, m)
  PROVE  /\ q \in PanelState /\ Sound(q)
         /\ q.clients = p.clients
         /\ p.inbounds \subseteq q.inbounds
         /\ p.next < q.next
         /\ \E j \in q.inbounds : j.key = m.key /\ j.id = p.next
<1> DEFINE new == [id |-> p.next, key |-> m.key, port |-> m.port,
                   conf |-> m.conf, enable |-> m.enable]
<1>1. /\ p.next \in Ids /\ p.next \in Nat
      /\ q = [p EXCEPT !.inbounds = @ \cup {new}, !.next = @ + 1]
  BY DEF AddInbound, PanelState
<1>2. new \in Inbound /\ new.key = m.key /\ new.id = p.next
  BY <1>1 DEF Inbound
<1> HIDE DEF new
<1>3. q.inbounds = p.inbounds \cup {new} /\ q.clients = p.clients
      /\ q.next = p.next + 1 /\ q.rows = p.rows
  BY <1>1 DEF PanelState
<1>4. q \in PanelState
  <2>1. q.inbounds \subseteq Inbound /\ q.next \in Nat
    BY <1>1, <1>2, <1>3 DEF PanelState
  <2>2. q.clients \subseteq Attachment /\ q.rows \subseteq Row
    BY <1>3 DEF PanelState
  <2>3. q = [inbounds |-> q.inbounds, clients |-> q.clients, rows |-> q.rows,
             next |-> q.next]
    BY <1>1 DEF PanelState
  <2> QED BY <2>1, <2>2, <2>3 DEF PanelState
<1>5. Sound(q)
  <2>1. \A i \in p.inbounds : i.id \in Nat /\ i.id < p.next
    BY IdsAssumption DEF Sound, PanelState, Inbound
  <2>2. UniqueIds(q)
    BY <1>1, <1>2, <1>3, <2>1 DEF Sound, UniqueIds
  <2>3. \A i \in q.inbounds : i.id < q.next
    BY <1>1, <1>2, <1>3, <2>1
  <2>4. \A a \in q.clients : HasInbound(q, a.id)
    BY <1>3 DEF Sound, HasInbound
  <2> QED BY <2>2, <2>3, <2>4 DEF Sound
<1> QED BY <1>1, <1>2, <1>3, <1>4, <1>5

\* inbounds/update changes one inbound and leaves its id and all clients alone.
LEMMA UpdateInboundKeeps ==
  ASSUME NEW p \in PanelState, Sound(p), NEW id \in Ids, NEW m \in [key: Keys, port: Ports, conf: Confs, enable: BOOLEAN],
         NEW q \in UpdateInbound(p, id, m)
  PROVE  /\ q \in PanelState /\ Sound(q)
         /\ q.clients = p.clients /\ q.next = p.next
         /\ \A i \in p.inbounds : i.id # id => i \in q.inbounds
         /\ \E j \in q.inbounds : j.id = id /\ j.key = m.key
<1> DEFINE up(i) == IF i.id = id
                    THEN [i EXCEPT !.key = m.key, !.port = m.port, !.conf = m.conf] ELSE i
<1>1. HasInbound(p, id) /\ q = [p EXCEPT !.inbounds = {up(i) : i \in @}]
  BY DEF UpdateInbound
<1>2. q.inbounds = {up(i) : i \in p.inbounds} /\ q.clients = p.clients
      /\ q.next = p.next /\ q.rows = p.rows
  BY <1>1 DEF PanelState
<1>3. \A i \in p.inbounds : up(i) \in Inbound /\ up(i).id = i.id
  BY DEF PanelState, Inbound
<1>4. q \in PanelState
  BY <1>1, <1>2, <1>3 DEF PanelState
<1> HIDE DEF up
<1>5. Sound(q)
  <2>1. UniqueIds(q)
    BY <1>2, <1>3 DEF Sound, UniqueIds
  <2>2. \A i \in q.inbounds : i.id < q.next
    BY <1>2, <1>3 DEF Sound
  <2>3. \A a \in q.clients : HasInbound(q, a.id)
    BY <1>2, <1>3 DEF Sound, HasInbound
  <2> QED BY <2>1, <2>2, <2>3 DEF Sound
<1>6. \E j \in q.inbounds : j.id = id /\ j.key = m.key
  <2>1. PICK i \in p.inbounds : i.id = id
    BY <1>1 DEF HasInbound
  <2>2. up(i) \in q.inbounds /\ up(i).id = id /\ up(i).key = m.key
    BY <1>2, <2>1 DEF PanelState, Inbound, up
  <2> QED BY <2>2
<1>7. \A i \in p.inbounds : i.id # id => i \in q.inbounds
  BY <1>2 DEF up
<1> QED BY <1>2, <1>4, <1>5, <1>6, <1>7

\* inbounds/setEnable keeps ids, keys and clients.
LEMMA SetInboundEnableKeeps ==
  ASSUME NEW p \in PanelState, Sound(p), NEW id \in Ids, NEW on \in BOOLEAN,
         NEW q \in SetInboundEnable(p, id, on)
  PROVE  /\ q \in PanelState /\ Sound(q)
         /\ q.clients = p.clients /\ q.next = p.next
         /\ \A i \in p.inbounds : \E j \in q.inbounds : j.id = i.id /\ j.key = i.key
<1> DEFINE up(i) == IF i.id = id THEN [i EXCEPT !.enable = on] ELSE i
<1>1. q = [p EXCEPT !.inbounds = {up(i) : i \in @}]
  BY DEF SetInboundEnable
<1>2. q.inbounds = {up(i) : i \in p.inbounds} /\ q.clients = p.clients
      /\ q.next = p.next /\ q.rows = p.rows
  BY <1>1 DEF PanelState
<1>3. \A i \in p.inbounds : up(i) \in Inbound /\ up(i).id = i.id /\ up(i).key = i.key
  BY DEF PanelState, Inbound
<1>4. q \in PanelState
  BY <1>1, <1>2, <1>3 DEF PanelState
<1> HIDE DEF up
<1>5. Sound(q)
  <2>1. UniqueIds(q)
    BY <1>2, <1>3 DEF Sound, UniqueIds
  <2>2. \A i \in q.inbounds : i.id < q.next
    BY <1>2, <1>3 DEF Sound
  <2>3. \A a \in q.clients : HasInbound(q, a.id)
    BY <1>2, <1>3 DEF Sound, HasInbound
  <2> QED BY <2>1, <2>2, <2>3 DEF Sound
<1> QED BY <1>2, <1>3, <1>4, <1>5

\* After a removal only rows may go as well.
LEMMA SettledKeeps ==
  ASSUME NEW p \in PanelState, NEW q \in PanelState, NEW x \in Settled(p, q)
  PROVE  /\ x \in PanelState
         /\ x.inbounds = q.inbounds /\ x.clients = q.clients /\ x.next = q.next
<1>1. x = q \/ x = [q EXCEPT !.rows =
                      {r \in q.rows : Attached(p, r.email) => Attached(q, r.email)}]
  BY DEF Settled
<1> QED BY <1>1 DEF PanelState

\* inbounds/del takes one inbound and its entries.
LEMMA DeleteInboundKeeps ==
  ASSUME NEW p \in PanelState, Sound(p), NEW id \in Ids, NEW q \in DeleteInbound(p, id)
  PROVE  /\ q \in PanelState /\ Sound(q)
         /\ q.next = p.next
         /\ \A i \in p.inbounds : i.id # id => i \in q.inbounds
         /\ \A a \in p.clients : a.id # id => a \in q.clients
<1> DEFINE x == [p EXCEPT !.inbounds = {i \in @ : i.id # id},
                          !.clients = {a \in @ : a.id # id}]
<1>1. q \in Settled(p, x)
  BY DEF DeleteInbound
<1>2. /\ x \in PanelState /\ x.next = p.next
      /\ x.inbounds = {i \in p.inbounds : i.id # id}
      /\ x.clients = {a \in p.clients : a.id # id}
  BY DEF PanelState
<1> HIDE DEF x
<1>3. /\ q \in PanelState /\ q.next = p.next
      /\ q.inbounds = x.inbounds /\ q.clients = x.clients
  BY <1>1, <1>2, SettledKeeps
<1>4. Sound(q)
  BY <1>2, <1>3 DEF Sound, UniqueIds, HasInbound
<1> QED BY <1>2, <1>3, <1>4

\* The entries p has, q has too (credentials and enable aside).
KeepsEntries(p, q) ==
  \A id \in Ids, e \in Emails : EntryIn(p, id, e) => EntryIn(q, id, e)

\* A panel with the inbounds of a sound one and entries only under them is sound.
LEMMA SameInboundsSound ==
  ASSUME NEW p, NEW q, Sound(p), q.inbounds = p.inbounds, q.next = p.next,
         \A a \in q.clients : HasInbound(p, a.id)
  PROVE  Sound(q)
BY DEF Sound, UniqueIds, HasInbound

\* clients/add makes the entry.
LEMMA CreateClientKeeps ==
  ASSUME NEW p \in PanelState, Sound(p), NEW c \in Row, NEW id \in Ids,
         NEW q \in CreateClient(p, c, id)
  PROVE  /\ q \in PanelState /\ Sound(q)
         /\ q.inbounds = p.inbounds /\ q.next = p.next
         /\ p.clients \subseteq q.clients /\ EntryIn(q, id, c.email)
<1> DEFINE new == [id |-> id, email |-> c.email, cred |-> c.cred, enable |-> c.enable]
<1>1. /\ HasInbound(p, id)
      /\ q = [p EXCEPT !.rows = @ \cup {c}, !.clients = @ \cup {new}]
  BY DEF CreateClient
<1>2. new \in Attachment /\ new.id = id /\ new.email = c.email
  BY DEF Attachment, Row
<1> HIDE DEF new
<1>3. /\ q.inbounds = p.inbounds /\ q.next = p.next
      /\ q.clients = p.clients \cup {new} /\ q.rows = p.rows \cup {c}
  BY <1>1 DEF PanelState
<1>4. q \in PanelState
  BY <1>1, <1>2 DEF PanelState
<1>5. \A a \in q.clients : HasInbound(p, a.id)
  BY <1>1, <1>2, <1>3 DEF Sound
<1>6. Sound(q)
  BY <1>3, <1>5, SameInboundsSound
<1> QED BY <1>2, <1>3, <1>4, <1>6 DEF EntryIn

\* clients/attach makes the entry, if it is not there.
LEMMA AttachClientKeeps ==
  ASSUME NEW p \in PanelState, Sound(p), NEW e \in Emails, NEW id \in Ids,
         NEW q \in AttachClient(p, e, id)
  PROVE  /\ q \in PanelState /\ Sound(q)
         /\ q.inbounds = p.inbounds /\ q.next = p.next
         /\ p.clients \subseteq q.clients /\ EntryIn(q, id, e)
<1>1. HasInbound(p, id)
  BY DEF AttachClient
<1>2. CASE \E a \in p.clients : a.id = id /\ a.email = e
  <2>1. q = p
    BY <1>2 DEF AttachClient
  <2> QED BY <1>2, <2>1 DEF EntryIn
<1>3. CASE ~\E a \in p.clients : a.id = id /\ a.email = e
  <2> DEFINE new(r) == [id |-> id, email |-> e, cred |-> r.cred, enable |-> r.enable]
  <2>1. PICK r \in p.rows : q = [p EXCEPT !.clients = @ \cup {new(r)}]
    BY <1>3 DEF AttachClient
  <2>2. new(r) \in Attachment /\ new(r).id = id /\ new(r).email = e
    BY DEF Attachment, Row, PanelState
  <2> HIDE DEF new
  <2>3. /\ q.inbounds = p.inbounds /\ q.next = p.next
        /\ q.clients = p.clients \cup {new(r)}
    BY <2>1 DEF PanelState
  <2>4. q \in PanelState
    BY <2>1, <2>2 DEF PanelState
  <2>5. \A a \in q.clients : HasInbound(p, a.id)
    BY <1>1, <2>2, <2>3 DEF Sound
  <2>6. Sound(q)
    BY <2>3, <2>5, SameInboundsSound
  <2> QED BY <2>2, <2>3, <2>4, <2>6 DEF EntryIn
<1> QED BY <1>2, <1>3

\* clients/update rewrites entries and rows, it adds and removes none.
LEMMA UpdateClientKeeps ==
  ASSUME NEW p \in PanelState, Sound(p), NEW c \in Row, NEW id \in Ids,
         NEW q \in UpdateClient(p, c, id)
  PROVE  /\ q \in PanelState /\ Sound(q)
         /\ q.inbounds = p.inbounds /\ q.next = p.next
         /\ KeepsEntries(p, q) /\ EntryIn(q, id, c.email)
<1> DEFINE up(a) == IF a.id = id /\ a.email = c.email
                    THEN [a EXCEPT !.cred = c.cred, !.enable = c.enable] ELSE a
           ur(r) == IF r.email = c.email THEN c ELSE r
<1>1. /\ EntryIn(p, id, c.email)
      /\ q = [p EXCEPT !.clients = {up(a) : a \in @}, !.rows = {ur(r) : r \in @}]
  BY DEF UpdateClient, EntryIn
<1>2. \A a \in p.clients :
        up(a) \in Attachment /\ up(a).id = a.id /\ up(a).email = a.email
  BY DEF PanelState, Attachment, Row
<1>3. \A r \in p.rows : ur(r) \in Row
  BY DEF PanelState
<1> HIDE DEF up, ur
<1>4. /\ q.inbounds = p.inbounds /\ q.next = p.next
      /\ q.clients = {up(a) : a \in p.clients}
  BY <1>1 DEF PanelState
<1>5. q \in PanelState
  BY <1>1, <1>2, <1>3 DEF PanelState
<1>6. \A a \in q.clients : HasInbound(p, a.id)
  BY <1>2, <1>4 DEF Sound
<1>7. Sound(q)
  BY <1>4, <1>6, SameInboundsSound
<1>8. \A i, e : EntryIn(p, i, e) => EntryIn(q, i, e)
  BY <1>2, <1>4 DEF EntryIn
<1> QED BY <1>1, <1>4, <1>5, <1>7, <1>8 DEF KeepsEntries

\* clients/detach takes one entry.
LEMMA DetachClientKeeps ==
  ASSUME NEW p \in PanelState, Sound(p), NEW e \in Emails, NEW id \in Ids,
         NEW q \in DetachClient(p, e, id)
  PROVE  /\ q \in PanelState /\ Sound(q)
         /\ q.inbounds = p.inbounds /\ q.next = p.next
         /\ \A a \in p.clients : ~(a.id = id /\ a.email = e) => a \in q.clients
<1> DEFINE x == [p EXCEPT !.clients = {a \in @ : ~(a.id = id /\ a.email = e)}]
<1>1. q \in Settled(p, x)
  BY DEF DetachClient
<1>2. /\ x \in PanelState /\ x.next = p.next /\ x.inbounds = p.inbounds
      /\ x.clients = {a \in p.clients : ~(a.id = id /\ a.email = e)}
  BY DEF PanelState
<1> HIDE DEF x
<1>3. /\ q \in PanelState /\ q.next = p.next
      /\ q.inbounds = p.inbounds /\ q.clients = x.clients
  BY <1>1, <1>2, SettledKeeps
<1>4. \A a \in q.clients : HasInbound(p, a.id)
  BY <1>2, <1>3 DEF Sound
<1>5. Sound(q)
  BY <1>3, <1>4, SameInboundsSound
<1> QED BY <1>2, <1>3, <1>5

\* clients/del takes the entries of one client.
LEMMA DeleteClientKeeps ==
  ASSUME NEW p \in PanelState, Sound(p), NEW e \in Emails, NEW q \in DeleteClient(p, e)
  PROVE  /\ q \in PanelState /\ Sound(q)
         /\ q.inbounds = p.inbounds /\ q.next = p.next
         /\ \A a \in p.clients : a.email # e => a \in q.clients
<1>1. q = [p EXCEPT !.rows = {r \in @ : r.email # e}, !.clients = {a \in @ : a.email # e}]
  BY DEF DeleteClient
<1>2. /\ q \in PanelState /\ q.next = p.next /\ q.inbounds = p.inbounds
      /\ q.clients = {a \in p.clients : a.email # e}
  BY <1>1 DEF PanelState
<1>3. \A a \in q.clients : HasInbound(p, a.id)
  BY <1>2 DEF Sound
<1>4. Sound(q)
  BY <1>2, <1>3, SameInboundsSound
<1> QED BY <1>2, <1>4

\* The panel's own switches add and remove nothing.
LEMMA SwitchClientKeeps ==
  ASSUME NEW p \in PanelState, Sound(p), NEW e \in Emails, NEW q, q = SwitchClient(p, e)
  PROVE  /\ q \in PanelState /\ Sound(q)
         /\ q.inbounds = p.inbounds /\ q.next = p.next
         /\ KeepsEntries(p, q)
<1> DEFINE on == ~(\E r \in p.rows : r.email = e /\ r.enable)
           up(a) == IF a.email = e THEN [a EXCEPT !.enable = on] ELSE a
<1>1. q = [p EXCEPT !.rows = {up(r) : r \in @}, !.clients = {up(a) : a \in @}]
  BY DEF SwitchClient
<1>2. on \in BOOLEAN
  OBVIOUS
<1> HIDE DEF on
<1>3. \A a \in p.clients :
        up(a) \in Attachment /\ up(a).id = a.id /\ up(a).email = a.email
  BY <1>2 DEF PanelState, Attachment
<1>4. \A r \in p.rows : up(r) \in Row
  BY <1>2 DEF PanelState, Row
<1> HIDE DEF up
<1>5. /\ q.inbounds = p.inbounds /\ q.next = p.next
      /\ q.clients = {up(a) : a \in p.clients} /\ q.rows = {up(r) : r \in p.rows}
  BY <1>1 DEF PanelState
<1>6. q \in PanelState
  <2>1. q.clients \subseteq Attachment /\ q.rows \subseteq Row
    BY <1>3, <1>4, <1>5
  <2>2. q.inbounds \subseteq Inbound /\ q.next \in Nat
    BY <1>5 DEF PanelState
  <2>3. q = [inbounds |-> q.inbounds, clients |-> q.clients, rows |-> q.rows,
             next |-> q.next]
    BY <1>1 DEF PanelState
  <2> QED BY <2>1, <2>2, <2>3 DEF PanelState
<1>7. \A a \in q.clients : HasInbound(p, a.id)
  BY <1>3, <1>5 DEF Sound
<1>8. Sound(q)
  BY <1>5, <1>7, SameInboundsSound
<1>9. \A i, x : EntryIn(p, i, x) => EntryIn(q, i, x)
  BY <1>3, <1>5 DEF EntryIn
<1> QED BY <1>5, <1>6, <1>8, <1>9 DEF KeepsEntries
(***************************************************************************)
(* What each operation makes of a well-formed panel.                       *)
(***************************************************************************)

\* Ids, keys and ports identify an inbound.
Distinct(x) ==
  \A i, j \in x.inbounds : i.id = j.id \/ i.key = j.key \/ i.port = j.port => i = j

\* An inbound has one entry per email, an email one row, and every entry both.
Registered(p) ==
  /\ \A a, b \in p.clients : a.id = b.id /\ a.email = b.email => a = b
  /\ \A r, q \in p.rows : r.email = q.email => r = q
  /\ \A a \in p.clients : HasRow(p, a.email)

\* The parts of a well-formed panel.
LEMMA WellFormedParts ==
  ASSUME NEW p PROVE WellFormed(p) <=> Sound(p) /\ Distinct(p) /\ Registered(p)
<1>1. ASSUME WellFormed(p) PROVE Sound(p) /\ Distinct(p) /\ Registered(p)
  BY <1>1 DEF WellFormed, Sound, UniqueIds, Distinct, Registered, Fits
<1>2. ASSUME Sound(p), Distinct(p), Registered(p) PROVE WellFormed(p)
  BY <1>2 DEF WellFormed, Sound, UniqueIds, Distinct, Registered, Fits
<1> QED BY <1>1, <1>2

\* A panel with the clients and rows of a registered one.
LEMMA SameClientsRegistered ==
  ASSUME NEW p, NEW q, Registered(p), q.clients = p.clients, q.rows = p.rows
  PROVE  Registered(q)
BY DEF Registered, HasRow

\* inbounds/add: one more inbound, as asked for.
LEMMA AddInboundMakes ==
  ASSUME NEW p \in PanelState, WellFormed(p),
         NEW m \in [key: Keys, port: Ports, conf: Confs, enable: BOOLEAN],
         NEW q \in AddInbound(p, m)
  PROVE  /\ WellFormed(q) /\ q.clients = p.clients /\ q.rows = p.rows
         /\ \E j \in Inbound :
              /\ q.inbounds = p.inbounds \cup {j}
              /\ j.id = p.next /\ j.key = m.key /\ j.port = m.port
              /\ j.conf = m.conf /\ j.enable = m.enable
<1> DEFINE new == [id |-> p.next, key |-> m.key, port |-> m.port,
                   conf |-> m.conf, enable |-> m.enable]
<1>1. /\ p.next \in Ids /\ Fits(p, p.next, m.key, m.port)
      /\ q = [p EXCEPT !.inbounds = @ \cup {new}, !.next = @ + 1]
  BY DEF AddInbound
<1>2. /\ new \in Inbound /\ new.id = p.next /\ new.key = m.key /\ new.port = m.port
      /\ new.conf = m.conf /\ new.enable = m.enable
  BY <1>1 DEF Inbound
<1> HIDE DEF new
<1>3. q.inbounds = p.inbounds \cup {new} /\ q.clients = p.clients /\ q.rows = p.rows
  BY <1>1 DEF PanelState
<1>4. Sound(p) /\ Distinct(p) /\ Registered(p)
  BY WellFormedParts
<1>5. Sound(q)
  BY <1>4, AddInboundKeeps
<1>6. Distinct(q)
  <2>1. \A i \in p.inbounds : i.id # new.id
    <3>1. \A i \in p.inbounds : i.id \in Nat /\ i.id < p.next
      BY <1>4, IdsAssumption DEF Sound, PanelState, Inbound
    <3> QED BY <1>2, <3>1 DEF PanelState
  <2>2. \A i \in p.inbounds : i.key # new.key /\ i.port # new.port
    BY <1>1, <1>2, <2>1 DEF Fits
  <2> QED BY <1>3, <1>4, <2>1, <2>2 DEF Distinct
<1>7. Registered(q)
  BY <1>3, <1>4, SameClientsRegistered
<1> QED BY <1>2, <1>3, <1>5, <1>6, <1>7, WellFormedParts

\* inbounds/update: the inbound gets the key, port and configuration, and no other
\* inbound changes.
LEMMA UpdateInboundMakes ==
  ASSUME NEW p \in PanelState, WellFormed(p), NEW id \in Ids,
         NEW m \in [key: Keys, port: Ports, conf: Confs, enable: BOOLEAN],
         NEW q \in UpdateInbound(p, id, m)
  PROVE  /\ WellFormed(q) /\ q.clients = p.clients /\ q.rows = p.rows
         /\ \A i \in q.inbounds : i.id # id => i \in p.inbounds
         /\ \E i \in p.inbounds, j \in q.inbounds :
              /\ i.id = id /\ j.id = id /\ j.enable = i.enable
              /\ j.key = m.key /\ j.port = m.port /\ j.conf = m.conf
<1> DEFINE up(i) == IF i.id = id
                    THEN [i EXCEPT !.key = m.key, !.port = m.port, !.conf = m.conf] ELSE i
<1>1. /\ HasInbound(p, id) /\ Fits(p, id, m.key, m.port)
      /\ q = [p EXCEPT !.inbounds = {up(i) : i \in @}]
  BY DEF UpdateInbound
<1>2. /\ q.inbounds = {up(i) : i \in p.inbounds}
      /\ q.clients = p.clients /\ q.rows = p.rows
  BY <1>1 DEF PanelState
<1>3. \A i \in p.inbounds :
        /\ up(i).id = i.id /\ up(i).enable = i.enable
        /\ i.id # id => up(i) = i
        /\ i.id = id => up(i).key = m.key /\ up(i).port = m.port /\ up(i).conf = m.conf
  BY DEF PanelState, Inbound
<1> HIDE DEF up
<1>4. Sound(p) /\ Distinct(p) /\ Registered(p)
  BY WellFormedParts
<1>5. Sound(q)
  BY <1>4, UpdateInboundKeeps
<1>6. Distinct(q)
  <2>1. \A i, j \in p.inbounds :
          up(i).id = up(j).id \/ up(i).key = up(j).key \/ up(i).port = up(j).port => up(i) = up(j)
    <3> SUFFICES ASSUME NEW i \in p.inbounds, NEW j \in p.inbounds, i # j
                 PROVE  up(i).id # up(j).id /\ up(i).key # up(j).key /\ up(i).port # up(j).port
      OBVIOUS
    <3>1. i.id # j.id /\ i.key # j.key /\ i.port # j.port
      BY <1>4 DEF Distinct
    <3>2. CASE i.id # id /\ j.id # id
      BY <1>3, <3>1, <3>2
    <3>3. CASE i.id = id
      BY <1>1, <1>3, <3>1, <3>3 DEF Fits
    <3>4. CASE j.id = id
      BY <1>1, <1>3, <3>1, <3>4 DEF Fits
    <3> QED BY <3>2, <3>3, <3>4
  <2> QED BY <1>2, <2>1 DEF Distinct
<1>7. Registered(q)
  BY <1>2, <1>4, SameClientsRegistered
<1>8. WellFormed(q)
  BY <1>5, <1>6, <1>7, WellFormedParts
<1>9. PICK i \in p.inbounds : i.id = id
  BY <1>1 DEF HasInbound
<1>10. up(i) \in q.inbounds
  BY <1>2
<1>11. \A j \in q.inbounds : j.id # id => j \in p.inbounds
  BY <1>2, <1>3
<1>12. /\ i.id = id /\ up(i).id = id /\ up(i).enable = i.enable
       /\ up(i).key = m.key /\ up(i).port = m.port /\ up(i).conf = m.conf
  BY <1>3, <1>9
<1> QED BY <1>2, <1>8, <1>10, <1>11, <1>12

\* inbounds/setEnable: the inbound gets the switch.
LEMMA SetInboundEnableMakes ==
  ASSUME NEW p \in PanelState, WellFormed(p), NEW id \in Ids, NEW on \in BOOLEAN,
         NEW q \in SetInboundEnable(p, id, on)
  PROVE  /\ WellFormed(q) /\ q.clients = p.clients /\ q.rows = p.rows
         /\ \A i \in p.inbounds : \E j \in q.inbounds :
              /\ j.id = i.id /\ j.key = i.key /\ j.port = i.port /\ j.conf = i.conf
              /\ j.enable = IF i.id = id THEN on ELSE i.enable
         /\ \A j \in q.inbounds : \E i \in p.inbounds : i.id = j.id /\ i.key = j.key
<1> DEFINE up(i) == IF i.id = id THEN [i EXCEPT !.enable = on] ELSE i
<1>1. q = [p EXCEPT !.inbounds = {up(i) : i \in @}]
  BY DEF SetInboundEnable
<1>2. /\ q.inbounds = {up(i) : i \in p.inbounds}
      /\ q.clients = p.clients /\ q.rows = p.rows
  BY <1>1 DEF PanelState
<1>3. \A i \in p.inbounds :
        /\ up(i).id = i.id /\ up(i).key = i.key /\ up(i).port = i.port /\ up(i).conf = i.conf
        /\ up(i).enable = IF i.id = id THEN on ELSE i.enable
  BY DEF PanelState, Inbound
<1> HIDE DEF up
<1>4. Sound(p) /\ Distinct(p) /\ Registered(p)
  BY WellFormedParts
<1>5. Sound(q)
  BY <1>4, SetInboundEnableKeeps
<1>6. Distinct(q)
  <2>1. \A i, j \in p.inbounds :
          up(i).id = up(j).id \/ up(i).key = up(j).key \/ up(i).port = up(j).port => up(i) = up(j)
    BY <1>3, <1>4 DEF Distinct
  <2> QED BY <1>2, <2>1 DEF Distinct
<1>7. Registered(q)
  BY <1>2, <1>4, SameClientsRegistered
<1>8. WellFormed(q)
  BY <1>5, <1>6, <1>7, WellFormedParts
<1> QED BY <1>2, <1>3, <1>8

\* A removal takes no row of a client that still has an entry.
LEMMA SettledRegistered ==
  ASSUME NEW p, NEW q \in PanelState, NEW x \in Settled(p, q),
         Registered(p), q.rows = p.rows, q.clients \subseteq p.clients
  PROVE  Registered(x) /\ x.rows \subseteq p.rows
<1>1. /\ x.clients = q.clients /\ x.rows \subseteq q.rows
      /\ \A r \in q.rows : Attached(q, r.email) => r \in x.rows
  BY DEF Settled, PanelState
<1>2. ASSUME NEW a \in x.clients PROVE HasRow(x, a.email)
  <2>1. PICK r \in q.rows : r.email = a.email
    BY <1>1 DEF Registered, HasRow
  <2>2. Attached(q, r.email)
    BY <1>1, <2>1 DEF Attached
  <2> QED BY <1>1, <2>1, <2>2 DEF HasRow
<1> QED BY <1>1, <1>2 DEF Registered

\* inbounds/del: the inbound and its entries go, and perhaps rows with them.
LEMMA DeleteInboundMakes ==
  ASSUME NEW p \in PanelState, WellFormed(p), NEW id \in Ids, NEW q \in DeleteInbound(p, id)
  PROVE  /\ WellFormed(q) /\ q.rows \subseteq p.rows
         /\ q.inbounds = {i \in p.inbounds : i.id # id}
         /\ q.clients = {a \in p.clients : a.id # id}
<1> DEFINE x == [p EXCEPT !.inbounds = {i \in @ : i.id # id},
                          !.clients = {a \in @ : a.id # id}]
<1>1. q \in Settled(p, x)
  BY DEF DeleteInbound
<1>2. /\ x \in PanelState /\ x.rows = p.rows
      /\ x.inbounds = {i \in p.inbounds : i.id # id}
      /\ x.clients = {a \in p.clients : a.id # id}
  BY DEF PanelState
<1> HIDE DEF x
<1>3. q.inbounds = x.inbounds /\ q.clients = x.clients
  BY <1>1, <1>2, SettledKeeps
<1>4. Sound(p) /\ Distinct(p) /\ Registered(p)
  BY WellFormedParts
<1>5. Sound(q)
  BY <1>4, DeleteInboundKeeps
<1>6. Distinct(q)
  BY <1>2, <1>3, <1>4 DEF Distinct
<1>7. Registered(q) /\ q.rows \subseteq p.rows
  BY <1>1, <1>2, <1>4, SettledRegistered
<1> QED BY <1>2, <1>3, <1>5, <1>6, <1>7, WellFormedParts

\* clients/add: a row that was not there, and its entry.
LEMMA CreateClientMakes ==
  ASSUME NEW p \in PanelState, WellFormed(p), NEW c \in Row, NEW id \in Ids,
         NEW q \in CreateClient(p, c, id)
  PROVE  /\ WellFormed(q) /\ q.inbounds = p.inbounds
         /\ ~HasRow(p, c.email) /\ q.rows = p.rows \cup {c}
         /\ \E a \in Attachment :
              /\ q.clients = p.clients \cup {a}
              /\ a.id = id /\ a.email = c.email /\ a.cred = c.cred /\ a.enable = c.enable
<1> DEFINE new == [id |-> id, email |-> c.email, cred |-> c.cred, enable |-> c.enable]
<1>1. /\ ~HasRow(p, c.email)
      /\ q = [p EXCEPT !.rows = @ \cup {c}, !.clients = @ \cup {new}]
  BY DEF CreateClient
<1>2. /\ new \in Attachment /\ new.id = id /\ new.email = c.email
      /\ new.cred = c.cred /\ new.enable = c.enable
  BY DEF Attachment, Row
<1> HIDE DEF new
<1>3. /\ q.inbounds = p.inbounds
      /\ q.clients = p.clients \cup {new} /\ q.rows = p.rows \cup {c}
  BY <1>1 DEF PanelState
<1>4. Sound(p) /\ Distinct(p) /\ Registered(p)
  BY WellFormedParts
<1>5. Sound(q)
  BY <1>4, CreateClientKeeps
<1>6. Distinct(q)
  BY <1>3, <1>4 DEF Distinct
<1>7. \A a \in p.clients : a.email # new.email
  BY <1>1, <1>2, <1>4 DEF Registered, HasRow
<1>8. Registered(q)
  BY <1>1, <1>2, <1>3, <1>4, <1>7 DEF Registered, HasRow
<1> QED BY <1>1, <1>2, <1>3, <1>5, <1>6, <1>8, WellFormedParts

\* clients/attach: the entry that was there stays, a new one has what the row has.
LEMMA AttachClientMakes ==
  ASSUME NEW p \in PanelState, WellFormed(p), NEW e \in Emails, NEW id \in Ids,
         NEW q \in AttachClient(p, e, id)
  PROVE  /\ WellFormed(q) /\ q.inbounds = p.inbounds /\ q.rows = p.rows
         /\ HasRow(p, e)
         /\ \/ q.clients = p.clients /\ EntryIn(p, id, e)
            \/ /\ ~EntryIn(p, id, e)
               /\ \E a \in Attachment, r \in p.rows :
                    /\ q.clients = p.clients \cup {a}
                    /\ a.id = id /\ a.email = e /\ r.email = e /\ a.enable = r.enable
<1>1. HasRow(p, e)
  BY DEF AttachClient
<1>2. CASE \E a \in p.clients : a.id = id /\ a.email = e
  <2>1. q = p
    BY <1>2 DEF AttachClient
  <2> QED BY <1>1, <1>2, <2>1 DEF EntryIn
<1>3. CASE ~\E a \in p.clients : a.id = id /\ a.email = e
  <2> DEFINE new(r) == [id |-> id, email |-> e, cred |-> r.cred, enable |-> r.enable]
  <2>1. PICK r \in p.rows : r.email = e /\ q = [p EXCEPT !.clients = @ \cup {new(r)}]
    BY <1>3 DEF AttachClient
  <2>2. /\ new(r) \in Attachment /\ new(r).id = id /\ new(r).email = e
        /\ new(r).enable = r.enable
    BY DEF Attachment, Row, PanelState
  <2> HIDE DEF new
  <2>3. /\ q.inbounds = p.inbounds /\ q.rows = p.rows
        /\ q.clients = p.clients \cup {new(r)}
    BY <2>1 DEF PanelState
  <2>4. Sound(p) /\ Distinct(p) /\ Registered(p)
    BY WellFormedParts
  <2>5. Sound(q)
    BY <2>4, AttachClientKeeps
  <2>6. Distinct(q)
    BY <2>3, <2>4 DEF Distinct
  <2>7. Registered(q)
    BY <1>3, <2>1, <2>2, <2>3, <2>4 DEF Registered, HasRow
  <2>8. WellFormed(q)
    BY <2>5, <2>6, <2>7, WellFormedParts
  <2> QED BY <1>1, <1>3, <2>1, <2>2, <2>3, <2>8 DEF EntryIn
<1> QED BY <1>2, <1>3

\* clients/update: one entry and the row are written, and nothing else.
LEMMA UpdateClientMakes ==
  ASSUME NEW p \in PanelState, WellFormed(p), NEW c \in Row, NEW id \in Ids,
         NEW q \in UpdateClient(p, c, id)
  PROVE  /\ WellFormed(q) /\ q.inbounds = p.inbounds
         /\ EntryIn(p, id, c.email)
         /\ \A a \in p.clients : \E b \in q.clients :
              /\ b.id = a.id /\ b.email = a.email
              /\ IF a.id = id /\ a.email = c.email
                 THEN b.cred = c.cred /\ b.enable = c.enable ELSE b = a
         /\ \A b \in q.clients : \E a \in p.clients :
              /\ b.id = a.id /\ b.email = a.email
              /\ IF a.id = id /\ a.email = c.email
                 THEN b.cred = c.cred /\ b.enable = c.enable ELSE b = a
         /\ \A r \in q.rows : r = c \/ (r.email # c.email /\ r \in p.rows)
         /\ \A r \in p.rows : HasRow(q, r.email)
<1> DEFINE up(a) == IF a.id = id /\ a.email = c.email
                    THEN [a EXCEPT !.cred = c.cred, !.enable = c.enable] ELSE a
           ur(r) == IF r.email = c.email THEN c ELSE r
<1>1. /\ EntryIn(p, id, c.email)
      /\ q = [p EXCEPT !.clients = {up(a) : a \in @}, !.rows = {ur(r) : r \in @}]
  BY DEF UpdateClient, EntryIn
<1>2. \A a \in p.clients :
        /\ up(a).id = a.id /\ up(a).email = a.email
        /\ IF a.id = id /\ a.email = c.email
           THEN up(a).cred = c.cred /\ up(a).enable = c.enable ELSE up(a) = a
  BY DEF PanelState, Attachment, Row
<1>3. \A r \in p.rows : /\ ur(r).email = r.email
                        /\ ur(r) = c \/ (ur(r).email # c.email /\ ur(r) = r)
  OBVIOUS
<1> HIDE DEF up, ur
<1>4. /\ q.inbounds = p.inbounds
      /\ q.clients = {up(a) : a \in p.clients} /\ q.rows = {ur(r) : r \in p.rows}
  BY <1>1 DEF PanelState
<1>5. Sound(p) /\ Distinct(p) /\ Registered(p)
  BY WellFormedParts
<1>6. Sound(q)
  BY <1>5, UpdateClientKeeps
<1>7. Distinct(q)
  BY <1>4, <1>5 DEF Distinct
<1>8. Registered(q)
  <2>1. \A a, b \in p.clients : up(a).id = up(b).id /\ up(a).email = up(b).email => up(a) = up(b)
    BY <1>2, <1>5 DEF Registered
  <2>2. \A r, x \in p.rows : ur(r).email = ur(x).email => ur(r) = ur(x)
    BY <1>3, <1>5 DEF Registered
  <2>3. \A a \in p.clients : \E r \in p.rows : ur(r).email = up(a).email
    BY <1>2, <1>3, <1>5 DEF Registered, HasRow
  <2> QED BY <1>4, <2>1, <2>2, <2>3 DEF Registered, HasRow
<1>9. WellFormed(q)
  BY <1>6, <1>7, <1>8, WellFormedParts
<1>10. \A r \in p.rows : HasRow(q, r.email)
  BY <1>3, <1>4 DEF HasRow
<1>11. \A a \in p.clients : up(a) \in q.clients
  BY <1>4
<1> QED BY <1>1, <1>2, <1>3, <1>4, <1>9, <1>10, <1>11

\* clients/detach: one entry goes, and perhaps the row with it.
LEMMA DetachClientMakes ==
  ASSUME NEW p \in PanelState, WellFormed(p), NEW e \in Emails, NEW id \in Ids,
         NEW q \in DetachClient(p, e, id)
  PROVE  /\ WellFormed(q) /\ q.inbounds = p.inbounds /\ q.rows \subseteq p.rows
         /\ q.clients = {a \in p.clients : ~(a.id = id /\ a.email = e)}
<1> DEFINE x == [p EXCEPT !.clients = {a \in @ : ~(a.id = id /\ a.email = e)}]
<1>1. q \in Settled(p, x)
  BY DEF DetachClient
<1>2. /\ x \in PanelState /\ x.inbounds = p.inbounds /\ x.rows = p.rows
      /\ x.clients = {a \in p.clients : ~(a.id = id /\ a.email = e)}
  BY DEF PanelState
<1> HIDE DEF x
<1>3. q.inbounds = p.inbounds /\ q.clients = x.clients
  BY <1>1, <1>2, SettledKeeps
<1>4. Sound(p) /\ Distinct(p) /\ Registered(p)
  BY WellFormedParts
<1>5. Sound(q)
  BY <1>4, DetachClientKeeps
<1>6. Distinct(q)
  BY <1>3, <1>4 DEF Distinct
<1>7. Registered(q) /\ q.rows \subseteq p.rows
  BY <1>1, <1>2, <1>4, SettledRegistered
<1> QED BY <1>2, <1>3, <1>5, <1>6, <1>7, WellFormedParts

\* clients/del: the row and its entries go.
LEMMA DeleteClientMakes ==
  ASSUME NEW p \in PanelState, WellFormed(p), NEW e \in Emails, NEW q \in DeleteClient(p, e)
  PROVE  /\ WellFormed(q) /\ q.inbounds = p.inbounds /\ q.rows \subseteq p.rows
         /\ q.clients = {a \in p.clients : a.email # e}
<1>1. /\ q.inbounds = p.inbounds /\ q.rows = {r \in p.rows : r.email # e}
      /\ q.clients = {a \in p.clients : a.email # e}
  BY DEF DeleteClient, PanelState
<1>2. Sound(p) /\ Distinct(p) /\ Registered(p)
  BY WellFormedParts
<1>3. Sound(q)
  BY <1>2, DeleteClientKeeps
<1>4. Distinct(q) /\ Registered(q)
  BY <1>1, <1>2 DEF Distinct, Registered, HasRow
<1> QED BY <1>1, <1>3, <1>4, WellFormedParts

\* The panel's own switches change enable and nothing else.
LEMMA SwitchClientMakes ==
  ASSUME NEW p \in PanelState, WellFormed(p), NEW e \in Emails, NEW q, q = SwitchClient(p, e)
  PROVE  /\ WellFormed(q) /\ q.inbounds = p.inbounds
         /\ \A a \in p.clients : \E b \in q.clients :
              b.id = a.id /\ b.email = a.email /\ b.cred = a.cred
         /\ \A b \in q.clients : \E a \in p.clients :
              b.id = a.id /\ b.email = a.email /\ b.cred = a.cred
<1> DEFINE on == ~(\E r \in p.rows : r.email = e /\ r.enable)
           ur(r) == IF r.email = e THEN [r EXCEPT !.enable = on] ELSE r
           up(a) == IF a.email = e THEN [a EXCEPT !.enable = on] ELSE a
<1>1. q = [p EXCEPT !.rows = {ur(r) : r \in @}, !.clients = {up(a) : a \in @}]
  BY DEF SwitchClient
<1> HIDE DEF on
<1>2. \A a \in p.clients :
        /\ up(a).id = a.id /\ up(a).email = a.email /\ up(a).cred = a.cred
  BY DEF PanelState, Attachment
<1>3. \A r \in p.rows : ur(r).email = r.email
  BY DEF PanelState, Row
<1>4. /\ q.inbounds = p.inbounds
      /\ q.clients = {up(a) : a \in p.clients} /\ q.rows = {ur(r) : r \in p.rows}
  BY <1>1 DEF PanelState
<1>5. Sound(p) /\ Distinct(p) /\ Registered(p)
  BY WellFormedParts
<1>6. Sound(q)
  BY <1>5, SwitchClientKeeps
<1>7. Distinct(q)
  BY <1>4, <1>5 DEF Distinct
<1> HIDE DEF up, ur
<1>8. Registered(q)
  <2>1. \A a, b \in p.clients : up(a).id = up(b).id /\ up(a).email = up(b).email => up(a) = up(b)
    BY <1>2, <1>5 DEF Registered
  <2>2. \A r, x \in p.rows : ur(r).email = ur(x).email => ur(r) = ur(x)
    BY <1>3, <1>5 DEF Registered
  <2>3. \A a \in p.clients : \E r \in p.rows : ur(r).email = up(a).email
    BY <1>2, <1>3, <1>5 DEF Registered, HasRow
  <2> QED BY <1>4, <2>1, <2>2, <2>3 DEF Registered, HasRow
<1>9. \A a \in p.clients : up(a) \in q.clients
  BY <1>4
<1> QED BY <1>2, <1>4, <1>6, <1>7, <1>8, <1>9, WellFormedParts
=============================================================================
