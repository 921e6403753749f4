-------------------------- MODULE TargetSyncProofs --------------------------
(***************************************************************************)
(* Proofs about TargetSync for any number of requests, inbounds, clients   *)
(* and any bounds: type correctness, that a run removes only what its plan *)
(* does not want, that moving clients are never orphaned, that a success   *)
(* which no other run overlapped leaves a mirror of the plan, that a run   *)
(* which nothing disturbs keeps the target's own settings, and that, while *)
(* the main panel stays as it is and nobody imports the target, one        *)
(* success of whatever overlapping requests leaves a mirror that no step   *)
(* disturbs again.                                                         *)
(***************************************************************************)
EXTENDS TargetSync, PanelProofs

(***************************************************************************)
(* The inductive invariant.                                                *)
(***************************************************************************)

\* A listing, the panel's or the stored one: ids are unique, entries have inbounds.
WellListed(l) == UniqueIds(l) /\ \A a \in l.clients : HasInbound(l, a.id)

\* What a run knows from its own listings, whatever happens to the target.
LocalInv(r) ==
  /\ WellFormedPlan(r.plan)
  /\ WellListed(r.seen)
  /\ r.pc = "inbounds" => /\ r.todo \subseteq r.plan.inbounds
                          /\ r.stale \subseteq StaleInbounds(r.plan, r.seen)
                          /\ r.clear => Unambiguous(r.plan, r.seen)
  /\ r.pc = "clients" => r.prune \subseteq PruneList(r.plan, r.seen)

\* Main inbound m is on panel p: under the inbound it was matched with, or
\* under one that was not there when run r listed the inbounds.
Present(r, m, p) ==
  \E j \in p.inbounds :
    /\ j.key = m.key
    /\ IF Match(r.seen, m) = {} THEN ~HasInbound(r.seen, j.id)
       ELSE \E i \in Match(r.seen, m) : i.id = j.id

\* The inbound loops: what is done stays done.
InboundsInv(r, p) ==
  r.pc = "inbounds" =>
    /\ \A i \in r.seen.inbounds : i.id < p.next
    /\ \A m \in r.plan.inbounds \ r.todo : Present(r, m, p)

\* The client loops: every inbound of the plan was listed; until the last push no
\* listed entry is gone; an entry of the plan is there or still to be pushed.
ClientsInv(r, p) ==
  /\ r.pc \in {"fetched", "stored", "rows", "clients"} =>
       \A m \in r.plan.inbounds : \E i \in r.seen.inbounds : i.key = m.key
  /\ r.pc \in {"fetched", "stored", "rows"} \/ (r.pc = "clients" /\ r.push # {}) =>
       \A a \in r.seen.clients : EntryIn(p, a.id, a.email)
  /\ r.pc = "clients" =>
       \A w \in r.plan.clients, i \in r.seen.inbounds :
         i.key = w.key => \/ EntryIn(p, i.id, w.email)
                          \/ \E x \in r.push : x.id = i.id /\ x.want.email = w.email

\* What a run that no other run overlaps knows about the target.
RemoteInv(r, p) == r.alone /\ r.clear => InboundsInv(r, p) /\ ClientsInv(r, p)

AloneInv ==
  \A s, u \in Syncers : s # u /\ Active(run[s]) /\ run[s].alone => ~Active(run[u])

\* What a run alone has stored is what it will read back.
OwnStored == \A s \in Syncers : run[s].alone /\ run[s].pc = "stored" => cache = run[s].seen

Inv ==
  /\ TypeOK
  /\ Sound(target)
  /\ WellListed(cache)
  /\ \A s \in Syncers : LocalInv(run[s])
  /\ \A s \in Syncers : RemoteInv(run[s], target)
  /\ AloneInv
  /\ OwnStored

(***************************************************************************)
(* Facts about the matching and the lists.                                 *)
(***************************************************************************)

\* A match is listed.
LEMMA MatchListed ==
  ASSUME NEW seen, NEW m PROVE Match(seen, m) \subseteq seen.inbounds
BY DEF Match, ByKey, ByPort

\* The key of an inbound that is listed under this id.
LEMMA KeyOfListed ==
  ASSUME NEW seen, UniqueIds(seen), NEW i \in seen.inbounds
  PROVE  KeyOf(seen, i.id) = i.key
<1>1. (CHOOSE j \in seen.inbounds : j.id = i.id) = i
  BY DEF UniqueIds
<1> QED BY <1>1 DEF KeyOf

\* What a run that ends still holds.
LEMMA EndedParts ==
  ASSUME NEW how \in {"synced", "done", "failed"}
  PROVE  /\ Ended(how) \in RunState /\ Ended(how).pc = how
         /\ Ended(how).plan = [inbounds |-> {}, clients |-> {}]
         /\ Ended(how).seen = [inbounds |-> {}, clients |-> {}]
BY DEF Ended, Idle, RunState, Phases, Plan, Listing

\* What a request that has not begun holds.
LEMMA IdleParts ==
  /\ Idle \in RunState /\ Idle.pc = "idle"
  /\ Idle.plan = [inbounds |-> {}, clients |-> {}]
  /\ Idle.seen = [inbounds |-> {}, clients |-> {}]
BY DEF Idle, RunState, Phases, Plan, Listing

\* A run that is not active satisfies the invariant of runs.
LEMMA EndedKeeps ==
  ASSUME NEW how \in {"done", "failed"}, NEW p
  PROVE  /\ Ended(how) \in RunState /\ ~Active(Ended(how))
         /\ LocalInv(Ended(how)) /\ RemoteInv(Ended(how), p)
<1>1. /\ Ended(how) \in RunState /\ Ended(how).pc = how
      /\ Ended(how).plan = [inbounds |-> {}, clients |-> {}]
      /\ Ended(how).seen = [inbounds |-> {}, clients |-> {}]
  BY EndedParts
<1>2. ~Active(Ended(how))
  BY <1>1 DEF Active
<1>3. LocalInv(Ended(how))
  BY <1>1 DEF LocalInv, WellFormedPlan, WellListed, UniqueIds
<1>4. RemoteInv(Ended(how), p)
  BY <1>1 DEF RemoteInv, InboundsInv, ClientsInv
<1> QED BY <1>1, <1>2, <1>3, <1>4

(***************************************************************************)
(* Steps of one run.                                                       *)
(***************************************************************************)

\* The invariant after a step, and what the step took away.
Kept(s) == Inv' /\ LosesOnlyUnwanted(run[s], target, target')

\* Nothing is taken away when nothing changes.
LEMMA NothingLost ==
  ASSUME NEW r, NEW p PROVE LosesOnlyUnwanted(r, p, p)
BY DEF LosesOnlyUnwanted

\* Run s goes on to next with the panel and the stored listing the step leaves.
LEMMA MoveStores ==
  ASSUME Inv, NEW s \in Syncers, Active(run[s]),
         NEW next \in RunState, LocalInv(next), RemoteInv(next, target'),
         Active(next) => next.alone = run[s].alone,
         target' \in PanelState, Sound(target'),
         LosesOnlyUnwanted(run[s], target, target'),
         cache' \in Listing, WellListed(cache'),
         next.alone /\ next.pc = "stored" => cache' = next.seen,
         run' = [run EXCEPT ![s] = next], main' = main,
         left' \in [faults: Nat, switches: Nat, changes: Nat, imports: Nat]
  PROVE  Kept(s)
<1>1. run \in [Syncers -> RunState]
  BY DEF Inv, TypeOK
<1>2. run'[s] = next /\ \A u \in Syncers \ {s} : run'[u] = run[u]
  BY <1>1
<1>3. TypeOK'
  BY <1>1 DEF Inv, TypeOK
<1>4. \A u \in Syncers : LocalInv(run'[u])
  BY <1>2 DEF Inv
<1>5. \A u \in Syncers : RemoteInv(run'[u], target')
  <2>1. ASSUME NEW u \in Syncers, u # s PROVE RemoteInv(run[u], target')
    <3>1. ~(Active(run[u]) /\ run[u].alone)
      BY <2>1 DEF Inv, AloneInv
    <3>2. CASE ~run[u].alone
      BY <3>2 DEF RemoteInv
    <3>3. CASE ~Active(run[u])
      BY <3>3 DEF Active, RemoteInv, InboundsInv, ClientsInv
    <3> QED BY <3>1, <3>2, <3>3
  <2> QED BY <1>2, <2>1
<1>6. AloneInv'
  <2>1. ASSUME NEW u \in Syncers, NEW v \in Syncers, u # v,
               Active(run'[u]), run'[u].alone
        PROVE  ~Active(run'[v])
    <3>1. CASE u = s
      <4>1. Active(run[s]) /\ run[s].alone /\ run'[v] = run[v]
        BY <1>2, <2>1, <3>1
      <4> QED BY <2>1, <3>1, <4>1 DEF Inv, AloneInv
    <3>2. CASE u # s
      BY <1>2, <2>1, <3>2 DEF Inv, AloneInv
    <3> QED BY <3>1, <3>2
  <2> QED BY <2>1 DEF AloneInv
<1>7. OwnStored'
  <2>1. ASSUME NEW u \in Syncers, u # s, run[u].alone, run[u].pc = "stored" PROVE FALSE
    <3>1. Active(run[u])
      BY <2>1 DEF Active
    <3> QED BY <2>1, <3>1 DEF Inv, AloneInv
  <2> QED BY <1>2, <2>1 DEF OwnStored
<1> QED BY <1>3, <1>4, <1>5, <1>6, <1>7 DEF Inv, Kept

\* The same when the stored listing stays and next has not just stored one.
LEMMA MoveKeeps ==
  ASSUME Inv, NEW s \in Syncers, Active(run[s]),
         NEW next \in RunState, LocalInv(next), RemoteInv(next, target'),
         Active(next) => next.alone = run[s].alone,
         target' \in PanelState, Sound(target'),
         LosesOnlyUnwanted(run[s], target, target'),
         next.pc # "stored", cache' = cache,
         run' = [run EXCEPT ![s] = next], main' = main,
         left' \in [faults: Nat, switches: Nat, changes: Nat, imports: Nat]
  PROVE  Kept(s)
<1>1. cache' \in Listing /\ WellListed(cache')
  BY DEF Inv, TypeOK
<1> QED BY <1>1, MoveStores

\* A step that ends in a failure without touching the panel.
LEMMA FailKeeps ==
  ASSUME Inv, NEW s \in Syncers, Active(run[s]), target' = target, main' = main,
         cache' = cache, run' = [run EXCEPT ![s] = Ended("failed")],
         left' \in [faults: Nat, switches: Nat, changes: Nat, imports: Nat]
  PROVE  Kept(s)
<1>1. /\ Ended("failed") \in RunState /\ ~Active(Ended("failed"))
      /\ LocalInv(Ended("failed")) /\ RemoteInv(Ended("failed"), target')
  BY EndedKeeps
<1>2. target' \in PanelState /\ Sound(target')
  BY DEF Inv, TypeOK
<1>3. LosesOnlyUnwanted(run[s], target, target')
  BY NothingLost
<1>4. Ended("failed").pc = "failed"
  BY EndedParts
<1> QED BY <1>1, <1>2, <1>3, <1>4, MoveKeeps

\* A read that fails changes nothing but the run.
LEMMA ReadFailsKeeps ==
  ASSUME Inv, NEW s \in Syncers, Active(run[s]), NEW empty, ReadFails(s, empty)
  PROVE  Kept(s)
<1>1. /\ run' = [run EXCEPT ![s] = Ended("failed")]
      /\ main' = main /\ cache' = cache /\ target' = target
      /\ left' = left \/ (left.faults > 0 /\ left' = [left EXCEPT !.faults = @ - 1])
  BY DEF ReadFails
<1>2. left' \in [faults: Nat, switches: Nat, changes: Nat, imports: Nat]
  BY <1>1 DEF Inv, TypeOK
<1> QED BY <1>1, <1>2, FailKeeps

\* An HTTP write keeps the invariant if every panel it can leave behind does.
LEMMA CallKeeps ==
  ASSUME Inv, NEW s \in Syncers, Active(run[s]),
         NEW results, NEW next \in RunState, LocalInv(next), next.alone = run[s].alone,
         next.pc # "stored",
         \A q \in results : /\ q \in PanelState /\ Sound(q) /\ RemoteInv(next, q)
                            /\ LosesOnlyUnwanted(run[s], target, q),
         Call(s, results, next)
  PROVE  Kept(s)
<1>0. main' = main /\ cache' = cache
  BY DEF Call
<1>1. CASE /\ target' \in results /\ run' = [run EXCEPT ![s] = next] /\ UNCHANGED left
  <2>1. left' \in [faults: Nat, switches: Nat, changes: Nat, imports: Nat]
    BY <1>1 DEF Inv, TypeOK
  <2> QED BY <1>0, <1>1, <2>1, MoveKeeps
<1>2. CASE /\ run' = [run EXCEPT ![s] = Ended("failed")] /\ UNCHANGED <<target, left>>
  <2>1. left' \in [faults: Nat, switches: Nat, changes: Nat, imports: Nat]
    BY <1>2 DEF Inv, TypeOK
  <2> QED BY <1>0, <1>2, <2>1, FailKeeps
<1>3. CASE /\ left.faults > 0 /\ target' \in results \cup {target}
           /\ run' = [run EXCEPT ![s] = Ended("failed")]
           /\ left' = [left EXCEPT !.faults = @ - 1]
  <2>1. left' \in [faults: Nat, switches: Nat, changes: Nat, imports: Nat]
    BY <1>3 DEF Inv, TypeOK
  <2>2. CASE target' = target
    BY <1>0, <1>3, <2>1, <2>2, FailKeeps
  <2>3. CASE target' \in results
    <3>1. /\ Ended("failed") \in RunState /\ ~Active(Ended("failed"))
          /\ LocalInv(Ended("failed")) /\ RemoteInv(Ended("failed"), target')
      BY EndedKeeps
    <3>2. Ended("failed").pc = "failed"
      BY EndedParts
    <3> QED BY <1>0, <1>3, <2>1, <2>3, <3>1, <3>2, MoveKeeps
  <2> QED BY <1>3, <2>2, <2>3
<1> QED BY <1>1, <1>2, <1>3 DEF Call

\* The types of what the steps below read.
LEMMA RunTypes ==
  ASSUME Inv, NEW s \in Syncers
  PROVE  /\ run[s] \in RunState /\ target \in PanelState /\ Sound(target)
         /\ LocalInv(run[s]) /\ RemoteInv(run[s], target)
BY DEF Inv, TypeOK

\* Nothing is lost when the client entries stay.
LEMMA ClientsKept ==
  ASSUME NEW r, NEW p \in PanelState, NEW q \in PanelState,
         p.clients \subseteq q.clients \/ KeepsEntries(p, q)
  PROVE  LosesOnlyUnwanted(r, p, q) /\ KeepsEntries(p, q)
<1>1. \A a \in p.clients : a.id \in Ids /\ a.email \in Emails
  BY DEF PanelState, Attachment
<1>2. KeepsEntries(p, q)
  BY DEF KeepsEntries, EntryIn
<1> QED BY <1>1, <1>2 DEF LosesOnlyUnwanted, KeepsEntries, EntryIn

\* ListInbounds: what is not outdated is on the target as it should be.
LEMMA ListInboundsKeeps ==
  ASSUME Inv, NEW s \in Syncers, ListInbounds(s) PROVE Kept(s)
<1> DEFINE r == run[s]
           seen == [inbounds |-> target.inbounds, clients |-> {}]
           next == [r EXCEPT !.pc = "inbounds", !.seen = seen,
                             !.todo = Outdated(r.plan, seen),
                             !.stale = StaleInbounds(r.plan, seen),
                             !.clear = Unambiguous(r.plan, seen)]
<1>1. /\ r \in RunState /\ target \in PanelState /\ Sound(target)
      /\ LocalInv(r) /\ RemoteInv(r, target)
  BY RunTypes
<1>2. r.pc = "list" /\ Active(r)
  BY DEF ListInbounds, Active
<1>3. CASE run' = [run EXCEPT ![s] = next] /\ UNCHANGED <<main, cache, target, left>>
  <2>1. /\ next.pc = "inbounds" /\ next.plan = r.plan /\ next.seen = seen
        /\ next.todo = Outdated(r.plan, seen)
        /\ next.stale = StaleInbounds(r.plan, seen)
        /\ next.clear = Unambiguous(r.plan, seen) /\ next.alone = r.alone
    BY <1>1 DEF RunState
  <2>2. next \in RunState
    <3>1. seen \in Listing
      BY <1>1 DEF Listing, PanelState
    <3>2. Outdated(r.plan, seen) \subseteq MainInbound
      BY <1>1 DEF Outdated, RunState, Plan
    <3>3. StaleInbounds(r.plan, seen) \subseteq Inbound
      BY <1>1 DEF StaleInbounds, PanelState
    <3>4. Unambiguous(r.plan, seen) \in BOOLEAN
      BY DEF Unambiguous
    <3> HIDE DEF seen
    <3> QED BY <1>1, <3>1, <3>2, <3>3, <3>4 DEF RunState, Phases
  <2>3. WellListed(seen) /\ \A i \in seen.inbounds : i.id < target.next
    BY <1>1 DEF Sound, WellListed, UniqueIds
  <2>4. LocalInv(next)
    BY <1>1, <2>1, <2>3 DEF LocalInv, Outdated
  <2>5. \A m \in r.plan.inbounds \ Outdated(r.plan, seen) : Present(next, m, target)
    <3> SUFFICES ASSUME NEW m \in r.plan.inbounds \ Outdated(r.plan, seen)
                 PROVE  Present(next, m, target)
      OBVIOUS
    <3>1. PICK i \in Match(seen, m) : Equivalent(m, i)
      BY DEF Outdated
    <3>2. i \in target.inbounds /\ i.key = m.key
      BY <3>1, MatchListed DEF Equivalent
    <3> QED BY <2>1, <3>1, <3>2 DEF Present
  <2>6. RemoteInv(next, target)
    BY <2>1, <2>3, <2>5 DEF RemoteInv, InboundsInv, ClientsInv
  <2>7. left' \in [faults: Nat, switches: Nat, changes: Nat, imports: Nat]
    BY <1>3 DEF Inv, TypeOK
  <2> HIDE DEF next, seen
  <2> QED BY <1>1, <1>2, <1>3, <2>1, <2>2, <2>4, <2>6, <2>7, MoveKeeps, NothingLost
<1>4. CASE ReadFails(s, target.inbounds = {})
  BY <1>2, <1>4, ReadFailsKeeps
<1> QED BY <1>3, <1>4 DEF ListInbounds

\* AddMissing: the new inbound has an id that nothing listed has.
LEMMA AddMissingKeeps ==
  ASSUME Inv, NEW s \in Syncers, AddMissing(s) PROVE Kept(s)
<1> DEFINE r == run[s]
<1>1. /\ r \in RunState /\ target \in PanelState /\ Sound(target)
      /\ LocalInv(r) /\ RemoteInv(r, target)
  BY RunTypes
<1>2. PICK m \in r.todo : /\ r.pc = "inbounds" /\ Match(r.seen, m) = {}
                          /\ Call(s, AddInbound(target, m), [r EXCEPT !.todo = @ \ {m}])
  BY DEF AddMissing
<1> DEFINE next == [r EXCEPT !.todo = @ \ {m}]
<1>3. /\ next \in RunState /\ next.alone = r.alone /\ next.pc = "inbounds"
      /\ next.plan = r.plan /\ next.seen = r.seen /\ next.clear = r.clear
      /\ next.stale = r.stale /\ next.todo = r.todo \ {m}
  BY <1>1, <1>2 DEF RunState
<1>4. Call(s, AddInbound(target, m), next)
  BY <1>2
<1> HIDE DEF next
<1>5. LocalInv(next)
  BY <1>1, <1>2, <1>3 DEF LocalInv, WellListed
<1>6. ASSUME NEW q \in AddInbound(target, m)
      PROVE  /\ q \in PanelState /\ Sound(q) /\ RemoteInv(next, q)
             /\ LosesOnlyUnwanted(r, target, q)
  <2>1. /\ q \in PanelState /\ Sound(q) /\ q.clients = target.clients
        /\ target.inbounds \subseteq q.inbounds /\ target.next < q.next
        /\ \E j \in q.inbounds : j.key = m.key /\ j.id = target.next
    <3>1. m \in [key: Keys, port: Ports, conf: Confs, enable: BOOLEAN]
      BY <1>1, <1>2 DEF RunState, MainInbound
    <3> QED BY <1>1, <3>1, AddInboundKeeps
  <2>2. LosesOnlyUnwanted(r, target, q)
    BY <1>1, <2>1, ClientsKept
  <2>3. ASSUME r.alone, r.clear PROVE InboundsInv(next, q)
    <3>1. /\ \A i \in r.seen.inbounds : i.id < target.next
          /\ \A n \in r.plan.inbounds \ r.todo : Present(r, n, target)
      BY <1>1, <1>2, <2>3 DEF RemoteInv, InboundsInv
    <3>2. \A i \in r.seen.inbounds : i.id < q.next
      <4>1. \A i \in r.seen.inbounds : i.id \in Nat
        BY <1>1, IdsAssumption DEF RunState, Listing, Inbound
      <4>2. target.next \in Nat /\ q.next \in Nat
        BY <1>1, <2>1 DEF PanelState
      <4> QED BY <2>1, <3>1, <4>1, <4>2
    <3>3. Present(next, m, q)
      <4>1. PICK j \in q.inbounds : j.key = m.key /\ j.id = target.next
        BY <2>1
      <4>2. ~HasInbound(r.seen, j.id)
        <5>1. \A i \in r.seen.inbounds : i.id \in Nat
          BY <1>1, IdsAssumption DEF RunState, Listing, Inbound
        <5>2. target.next \in Nat
          BY <1>1 DEF PanelState
        <5> QED BY <3>1, <4>1, <5>1, <5>2 DEF HasInbound
      <4> QED BY <1>2, <1>3, <4>1, <4>2 DEF Present
    <3>4. \A n \in r.plan.inbounds \ r.todo : Present(next, n, q)
      BY <1>3, <2>1, <3>1 DEF Present
    <3> QED BY <1>3, <3>2, <3>3, <3>4 DEF InboundsInv
  <2>4. RemoteInv(next, q)
    BY <1>3, <2>3 DEF RemoteInv, ClientsInv
  <2> QED BY <2>1, <2>2, <2>4
<1>7. Active(r)
  BY <1>2 DEF Active
<1> QED BY <1>3, <1>4, <1>5, <1>6, <1>7, CallKeeps

\* An inbound of the panel that is not the one the call is for is not lost.
LEMMA PresentKept ==
  ASSUME NEW r, NEW m, NEW p, NEW q, NEW id, Present(r, m, p),
         \A i \in p.inbounds : i.id # id => i \in q.inbounds,
         HasInbound(r.seen, id), \A i \in Match(r.seen, m) : i.id # id
  PROVE  Present(r, m, q)
BY DEF Present

\* UpdateOutdated: no other main inbound was matched with the one it changes.
LEMMA UpdateOutdatedKeeps ==
  ASSUME Inv, NEW s \in Syncers, UpdateOutdated(s) PROVE Kept(s)
<1> DEFINE r == run[s]
<1>1. /\ r \in RunState /\ target \in PanelState /\ Sound(target)
      /\ LocalInv(r) /\ RemoteInv(r, target)
  BY RunTypes
<1> DEFINE after(m, i) == [r EXCEPT !.todo = @ \ {m},
                                    !.flip = IF m.enable # i.enable
                                             THEN {[id |-> i.id, enable |-> m.enable]} ELSE {}]
<1>2. PICK m \in r.todo : \E i \in Match(r.seen, m) :
        r.pc = "inbounds" /\ Call(s, UpdateInbound(target, i.id, m), after(m, i))
  BY DEF UpdateOutdated
<1>3. PICK i \in Match(r.seen, m) :
        r.pc = "inbounds" /\ Call(s, UpdateInbound(target, i.id, m), after(m, i))
  BY <1>2
<1> DEFINE next == after(m, i)
<1>4. i \in r.seen.inbounds /\ i \in Inbound /\ m \in MainInbound
  BY <1>1, MatchListed DEF RunState, Listing
<1>5. /\ next \in RunState /\ next.alone = r.alone /\ next.pc = "inbounds"
      /\ next.plan = r.plan /\ next.seen = r.seen /\ next.clear = r.clear
      /\ next.stale = r.stale /\ next.todo = r.todo \ {m}
  <2> DEFINE f == IF m.enable # i.enable THEN {[id |-> i.id, enable |-> m.enable]} ELSE {}
  <2>1. f \subseteq Flip
    BY <1>4 DEF Flip, Inbound, MainInbound
  <2> HIDE DEF f
  <2>2. next = [r EXCEPT !.todo = @ \ {m}, !.flip = f]
    BY DEF f
  <2> HIDE DEF next
  <2>3. next.pc = r.pc /\ next.todo = r.todo \ {m}
    BY <1>1, <2>2 DEF RunState
  <2>4. /\ next.alone = r.alone /\ next.plan = r.plan /\ next.seen = r.seen
        /\ next.clear = r.clear /\ next.stale = r.stale
    BY <1>1, <2>2 DEF RunState
  <2>5. next \in RunState
    BY <1>1, <2>1, <2>2 DEF RunState
  <2> QED BY <1>3, <2>3, <2>4, <2>5
<1>6. Call(s, UpdateInbound(target, i.id, m), next)
  BY <1>3
<1> HIDE DEF next
<1>7. LocalInv(next)
  BY <1>1, <1>3, <1>5 DEF LocalInv, WellListed
<1>8. ASSUME NEW q \in UpdateInbound(target, i.id, m)
      PROVE  /\ q \in PanelState /\ Sound(q) /\ RemoteInv(next, q)
             /\ LosesOnlyUnwanted(r, target, q)
  <2>1. /\ q \in PanelState /\ Sound(q)
        /\ q.clients = target.clients /\ q.next = target.next
        /\ \A j \in target.inbounds : j.id # i.id => j \in q.inbounds
        /\ \E j \in q.inbounds : j.id = i.id /\ j.key = m.key
    BY <1>1, <1>4, UpdateInboundKeeps DEF Inbound, MainInbound
  <2>2. LosesOnlyUnwanted(r, target, q)
    BY <1>1, <2>1, ClientsKept
  <2>3. ASSUME r.alone, r.clear PROVE InboundsInv(next, q)
    <3>1. /\ \A j \in r.seen.inbounds : j.id < target.next
          /\ \A n \in r.plan.inbounds \ r.todo : Present(r, n, target)
      BY <1>1, <1>3, <2>3 DEF RemoteInv, InboundsInv
    <3>2. Present(next, m, q)
      BY <1>3, <1>5, <2>1 DEF Present
    <3>3. ASSUME NEW n \in r.plan.inbounds \ r.todo PROVE Present(next, n, q)
      <4>1. Match(r.seen, m) \cap Match(r.seen, n) = {}
        BY <1>1, <1>3, <2>3 DEF LocalInv, Unambiguous
      <4>2. \A j \in Match(r.seen, n) : j.id # i.id
        BY <1>1, <1>3, <1>4, <4>1, MatchListed DEF LocalInv, WellListed, UniqueIds
      <4>3. HasInbound(r.seen, i.id)
        BY <1>4 DEF HasInbound
      <4>4. Present(r, n, q)
        BY <2>1, <3>1, <4>2, <4>3, PresentKept
      <4> QED BY <1>5, <4>4 DEF Present
    <3> QED BY <1>5, <2>1, <3>1, <3>2, <3>3 DEF InboundsInv
  <2>4. RemoteInv(next, q)
    BY <1>5, <2>3 DEF RemoteInv, ClientsInv
  <2> QED BY <2>1, <2>2, <2>4
<1>9. Active(r)
  BY <1>3 DEF Active
<1> QED BY <1>5, <1>6, <1>7, <1>8, <1>9, CallKeeps

\* FlipEnable changes neither ids nor keys.
LEMMA FlipEnableKeeps ==
  ASSUME Inv, NEW s \in Syncers, FlipEnable(s) PROVE Kept(s)
<1> DEFINE r == run[s]
<1>1. /\ r \in RunState /\ target \in PanelState /\ Sound(target)
      /\ LocalInv(r) /\ RemoteInv(r, target)
  BY RunTypes
<1> DEFINE next == [r EXCEPT !.flip = {}]
<1>2. PICK f \in r.flip : /\ r.pc = "inbounds"
                          /\ Call(s, SetInboundEnable(target, f.id, f.enable), next)
  BY DEF FlipEnable
<1>3. /\ next \in RunState /\ next.alone = r.alone /\ next.pc = "inbounds"
      /\ next.plan = r.plan /\ next.seen = r.seen /\ next.clear = r.clear
      /\ next.stale = r.stale /\ next.todo = r.todo
  BY <1>1, <1>2 DEF RunState
<1> HIDE DEF next
<1>4. LocalInv(next)
  BY <1>1, <1>2, <1>3 DEF LocalInv, WellListed
<1>5. ASSUME NEW q \in SetInboundEnable(target, f.id, f.enable)
      PROVE  /\ q \in PanelState /\ Sound(q) /\ RemoteInv(next, q)
             /\ LosesOnlyUnwanted(r, target, q)
  <2>1. /\ q \in PanelState /\ Sound(q)
        /\ q.clients = target.clients /\ q.next = target.next
        /\ \A i \in target.inbounds : \E j \in q.inbounds : j.id = i.id /\ j.key = i.key
    <3>1. f.id \in Ids /\ f.enable \in BOOLEAN
      BY <1>1 DEF RunState, Flip
    <3> QED BY <1>1, <3>1, SetInboundEnableKeeps
  <2>2. LosesOnlyUnwanted(r, target, q)
    BY <1>1, <2>1, ClientsKept
  <2>3. \A m : Present(r, m, target) => Present(next, m, q)
    BY <1>3, <2>1 DEF Present
  <2>4. RemoteInv(next, q)
    BY <1>1, <1>2, <1>3, <2>1, <2>3 DEF RemoteInv, InboundsInv, ClientsInv
  <2> QED BY <2>1, <2>2, <2>4
<1>6. Active(r)
  BY <1>2 DEF Active
<1> QED BY <1>2, <1>3, <1>4, <1>5, <1>6, CallKeeps

\* DeleteStale: a stale inbound was matched with no main inbound.
LEMMA DeleteStaleKeeps ==
  ASSUME Inv, NEW s \in Syncers, DeleteStale(s) PROVE Kept(s)
<1> DEFINE r == run[s]
<1>1. /\ r \in RunState /\ target \in PanelState /\ Sound(target)
      /\ LocalInv(r) /\ RemoteInv(r, target)
  BY RunTypes
<1>2. PICK i \in r.stale :
        /\ r.pc = "inbounds" /\ r.todo = {}
        /\ Call(s, DeleteInbound(target, i.id), [r EXCEPT !.stale = @ \ {i}])
  BY DEF DeleteStale
<1> DEFINE next == [r EXCEPT !.stale = @ \ {i}]
<1>3. /\ next \in RunState /\ next.alone = r.alone /\ next.pc = "inbounds"
      /\ next.plan = r.plan /\ next.seen = r.seen /\ next.clear = r.clear
      /\ next.stale = r.stale \ {i} /\ next.todo = r.todo
  BY <1>1, <1>2 DEF RunState
<1>4. Call(s, DeleteInbound(target, i.id), next)
  BY <1>2
<1> HIDE DEF next
<1>5. LocalInv(next)
  BY <1>1, <1>2, <1>3 DEF LocalInv, WellListed
<1>6. /\ i \in r.seen.inbounds /\ i.id \in Ids
      /\ i.key \notin MainKeys(r.plan) /\ i.id \notin UsedIds(r.plan, r.seen)
  <2>1. i \in StaleInbounds(r.plan, r.seen)
    BY <1>1, <1>2 DEF LocalInv, WellListed
  <2>2. i \in Inbound
    BY <1>1, <1>2 DEF RunState
  <2> QED BY <2>1, <2>2 DEF StaleInbounds, Inbound
<1>7. ASSUME NEW q \in DeleteInbound(target, i.id)
      PROVE  /\ q \in PanelState /\ Sound(q) /\ RemoteInv(next, q)
             /\ LosesOnlyUnwanted(r, target, q)
  <2>1. /\ q \in PanelState /\ Sound(q) /\ q.next = target.next
        /\ \A j \in target.inbounds : j.id # i.id => j \in q.inbounds
        /\ \A a \in target.clients : a.id # i.id => a \in q.clients
    BY <1>1, <1>6, DeleteInboundKeeps
  <2>2. LosesOnlyUnwanted(r, target, q)
    BY <1>6, <2>1 DEF LosesOnlyUnwanted
  <2>3. ASSUME r.alone, r.clear PROVE InboundsInv(next, q)
    <3>1. /\ \A j \in r.seen.inbounds : j.id < target.next
          /\ \A n \in r.plan.inbounds : Present(r, n, target)
      BY <1>1, <1>2, <2>3 DEF RemoteInv, InboundsInv
    <3>2. ASSUME NEW n \in r.plan.inbounds PROVE Present(next, n, q)
      <4>1. \A j \in Match(r.seen, n) : j.id # i.id
        BY <1>6, MatchListed DEF UsedIds
      <4>2. HasInbound(r.seen, i.id)
        BY <1>6 DEF HasInbound
      <4>3. Present(r, n, q)
        BY <2>1, <3>1, <4>1, <4>2, PresentKept
      <4> QED BY <1>3, <4>3 DEF Present
    <3> QED BY <1>3, <2>1, <3>1, <3>2 DEF InboundsInv
  <2>4. RemoteInv(next, q)
    BY <1>3, <2>3 DEF RemoteInv, ClientsInv
  <2> QED BY <2>1, <2>2, <2>4
<1>8. Active(r)
  BY <1>2 DEF Active
<1> QED BY <1>3, <1>4, <1>5, <1>7, <1>8, CallKeeps

\* Refetch: every inbound of the plan is listed now.
LEMMA RefetchKeeps ==
  ASSUME Inv, NEW s \in Syncers, Refetch(s) PROVE Kept(s)
<1> DEFINE r == run[s]
           seen == [inbounds |-> target.inbounds, clients |-> target.clients]
           next == [r EXCEPT !.pc = "fetched", !.seen = seen]
<1>1. /\ r \in RunState /\ target \in PanelState /\ Sound(target)
      /\ LocalInv(r) /\ RemoteInv(r, target)
  BY RunTypes
<1>2. r.pc = "inbounds" /\ r.todo = {} /\ Active(r)
  BY DEF Refetch, Active
<1>3. CASE run' = [run EXCEPT ![s] = next] /\ UNCHANGED <<main, cache, target, left>>
  <2>1. seen \in Listing
    BY <1>1 DEF Listing, PanelState
  <2>2. /\ UniqueIds(seen)
        /\ \A a \in seen.clients : HasInbound(seen, a.id)
        /\ \A a \in seen.clients : EntryIn(target, a.id, a.email)
    BY <1>1 DEF Sound, UniqueIds, HasInbound, EntryIn
  <2>3. seen.inbounds = target.inbounds
    OBVIOUS
  <2> HIDE DEF seen
  <2>4. /\ next \in RunState /\ next.alone = r.alone /\ next.pc = "fetched"
        /\ next.plan = r.plan /\ next.seen = seen /\ next.clear = r.clear
    BY <1>1, <2>1 DEF RunState, Phases
  <2> HIDE DEF next
  <2>5. LocalInv(next)
    BY <1>1, <2>2, <2>4 DEF LocalInv, WellListed
  <2>6. RemoteInv(next, target)
    <3>1. ASSUME r.alone, r.clear, NEW m \in r.plan.inbounds
          PROVE  \E i \in seen.inbounds : i.key = m.key
      BY <1>1, <1>2, <2>3, <3>1 DEF RemoteInv, InboundsInv, Present
    <3> QED BY <2>2, <2>4, <3>1 DEF RemoteInv, InboundsInv, ClientsInv
  <2>7. left' \in [faults: Nat, switches: Nat, changes: Nat, imports: Nat]
    BY <1>3 DEF Inv, TypeOK
  <2> QED BY <1>1, <1>2, <1>3, <2>4, <2>5, <2>6, <2>7, MoveKeeps, NothingLost
<1>4. CASE ReadFails(s, target.inbounds = {})
  BY <1>2, <1>4, ReadFailsKeeps
<1> QED BY <1>3, <1>4 DEF Refetch

\* EnsureServerInbounds: the stored listing is the run's own now.
LEMMA EnsureServerInboundsKeeps ==
  ASSUME Inv, NEW s \in Syncers, EnsureServerInbounds(s) PROVE Kept(s)
<1> DEFINE r == run[s]
           next == [r EXCEPT !.pc = "stored"]
<1>1. /\ r \in RunState /\ target \in PanelState /\ Sound(target)
      /\ LocalInv(r) /\ RemoteInv(r, target)
  BY RunTypes
<1>2. r.pc = "fetched" /\ Active(r)
  BY DEF EnsureServerInbounds, Active
<1>3. CASE /\ cache' = r.seen /\ run' = [run EXCEPT ![s] = next]
           /\ UNCHANGED <<main, target, left>>
  <2>1. /\ next \in RunState /\ next.alone = r.alone /\ next.pc = "stored"
        /\ next.plan = r.plan /\ next.seen = r.seen /\ next.clear = r.clear
    BY <1>1 DEF RunState, Phases
  <2> HIDE DEF next
  <2>2. LocalInv(next)
    BY <1>1, <2>1 DEF LocalInv, WellListed
  <2>3. RemoteInv(next, target)
    BY <1>1, <1>2, <2>1 DEF RemoteInv, InboundsInv, ClientsInv
  <2>4. left' \in [faults: Nat, switches: Nat, changes: Nat, imports: Nat]
    BY <1>3 DEF Inv, TypeOK
  <2>5. cache' \in Listing /\ WellListed(cache')
    BY <1>1, <1>3 DEF RunState, LocalInv
  <2>6. LosesOnlyUnwanted(r, target, target')
    BY <1>3, NothingLost
  <2> QED BY <1>1, <1>2, <1>3, <2>1, <2>2, <2>3, <2>4, <2>5, <2>6, MoveStores
<1>4. CASE ReadFails(s, FALSE)
  BY <1>2, <1>4, ReadFailsKeeps
<1>5. CASE /\ cache' = r.seen /\ run' = [run EXCEPT ![s].pc = "stored"]
           /\ UNCHANGED <<main, target, left>>
  BY <1>3, <1>5
<1> QED BY <1>4, <1>5 DEF EnsureServerInbounds

\* ListInboundsByServer: a run alone reads back what it stored; what another reads is
\* a listing of the panel all the same.
LEMMA ListInboundsByServerKeeps ==
  ASSUME Inv, NEW s \in Syncers, ListInboundsByServer(s) PROVE Kept(s)
<1> DEFINE r == run[s]
           next == [r EXCEPT !.pc = "rows", !.seen = cache]
<1>1. /\ r \in RunState /\ target \in PanelState /\ Sound(target)
      /\ LocalInv(r) /\ RemoteInv(r, target)
  BY RunTypes
<1>2. r.pc = "stored" /\ Active(r)
  BY DEF ListInboundsByServer, Active
<1>3. CASE run' = [run EXCEPT ![s] = next] /\ UNCHANGED <<main, cache, target, left>>
  <2>1. cache \in Listing /\ WellListed(cache)
    BY DEF Inv, TypeOK
  <2>2. r.alone => cache = r.seen
    BY <1>2 DEF Inv, OwnStored
  <2>3. /\ next \in RunState /\ next.alone = r.alone /\ next.pc = "rows"
        /\ next.plan = r.plan /\ next.seen = cache /\ next.clear = r.clear
    BY <1>1, <2>1 DEF RunState, Phases
  <2> HIDE DEF next
  <2>4. LocalInv(next)
    BY <1>1, <2>1, <2>3 DEF LocalInv, WellListed
  <2>5. RemoteInv(next, target)
    BY <1>1, <1>2, <2>2, <2>3 DEF RemoteInv, InboundsInv, ClientsInv
  <2>6. left' \in [faults: Nat, switches: Nat, changes: Nat, imports: Nat]
    BY <1>3 DEF Inv, TypeOK
  <2> QED BY <1>1, <1>2, <1>3, <2>3, <2>4, <2>5, <2>6, MoveKeeps, NothingLost
<1>4. CASE ReadFails(s, FALSE)
  BY <1>2, <1>4, ReadFailsKeeps
<1> QED BY <1>3, <1>4 DEF ListInboundsByServer

\* ListClients: an entry of the plan that is not to be pushed was listed.
LEMMA ListClientsKeeps ==
  ASSUME Inv, NEW s \in Syncers, ListClients(s) PROVE Kept(s)
<1> DEFINE r == run[s]
           next == [r EXCEPT !.pc = "clients", !.rows = target.rows,
                             !.push = PushList(r.plan, r.seen),
                             !.prune = PruneList(r.plan, r.seen)]
<1>1. /\ r \in RunState /\ target \in PanelState /\ Sound(target)
      /\ LocalInv(r) /\ RemoteInv(r, target)
  BY RunTypes
<1>2. r.pc = "rows" /\ Active(r)
  BY DEF ListClients, Active
<1>3. CASE run' = [run EXCEPT ![s] = next] /\ UNCHANGED <<main, cache, target, left>>
  <2>1. PushList(r.plan, r.seen) \subseteq Push
    BY DEF PushList
  <2>2. PruneList(r.plan, r.seen) \subseteq Attachment
    BY <1>1 DEF PruneList, RunState, Listing
  <2>3. target.rows \subseteq Row
    BY <1>1 DEF PanelState
  <2>4. /\ next \in RunState /\ next.alone = r.alone /\ next.pc = "clients"
        /\ next.plan = r.plan /\ next.seen = r.seen /\ next.clear = r.clear
        /\ next.push = PushList(r.plan, r.seen) /\ next.prune = PruneList(r.plan, r.seen)
    BY <1>1, <2>1, <2>2, <2>3 DEF RunState, Phases
  <2> HIDE DEF next
  <2>5. LocalInv(next)
    BY <1>1, <1>2, <2>4 DEF LocalInv, WellListed
  <2>6. RemoteInv(next, target)
    <3> SUFFICES ASSUME r.alone, r.clear PROVE ClientsInv(next, target)
      BY <2>4 DEF RemoteInv, InboundsInv
    <3>1. /\ \A m \in r.plan.inbounds : \E i \in r.seen.inbounds : i.key = m.key
          /\ \A a \in r.seen.clients : EntryIn(target, a.id, a.email)
      BY <1>1, <1>2 DEF RemoteInv, ClientsInv
    <3>2. ASSUME NEW w \in r.plan.clients, NEW i \in r.seen.inbounds, i.key = w.key
          PROVE  \/ EntryIn(target, i.id, w.email)
                 \/ \E x \in next.push : x.id = i.id /\ x.want.email = w.email
      <4> DEFINE x == [id |-> i.id, want |-> w]
      <4>1. KeyOf(r.seen, i.id) = w.key
        BY <1>1, <3>2, KeyOfListed DEF LocalInv, WellListed
      <4>2. x \in Push
        BY <1>1 DEF Push, RunState, Listing, Inbound, Plan
      <4>3. CASE Entries(r.seen, i.id, w.email) = {}
        BY <2>4, <4>1, <4>2, <4>3 DEF PushList
      <4>4. CASE Entries(r.seen, i.id, w.email) # {}
        <5>1. PICK a \in r.seen.clients : a.id = i.id /\ a.email = w.email
          BY <4>4 DEF Entries
        <5> QED BY <3>1, <5>1
      <4> QED BY <4>3, <4>4
    <3> QED BY <2>4, <3>1, <3>2 DEF ClientsInv
  <2>7. left' \in [faults: Nat, switches: Nat, changes: Nat, imports: Nat]
    BY <1>3 DEF Inv, TypeOK
  <2> QED BY <1>1, <1>2, <1>3, <2>4, <2>5, <2>6, <2>7, MoveKeeps, NothingLost
<1>4. CASE ReadFails(s, FALSE)
  BY <1>2, <1>4, ReadFailsKeeps
<1> QED BY <1>3, <1>4 DEF ListClients

\* A write that loses no entry, and makes the entries it takes off the push list.
LEMMA PushKeeps ==
  ASSUME NEW r \in RunState, r.pc = "clients", NEW next,
         next.pc = r.pc, next.plan = r.plan, next.seen = r.seen, next.clear = r.clear,
         next.alone = r.alone, next.push \subseteq r.push,
         NEW p, NEW q, LocalInv(r), RemoteInv(r, p), KeepsEntries(p, q),
         \A x \in r.push \ next.push : EntryIn(q, x.id, x.want.email)
  PROVE  RemoteInv(next, q)
<1> SUFFICES ASSUME r.alone, r.clear PROVE ClientsInv(next, q)
  BY DEF RemoteInv, InboundsInv
<1>1. ClientsInv(r, p)
  BY DEF RemoteInv
<1>2. /\ \A a \in r.seen.clients : a.id \in Ids /\ a.email \in Emails
      /\ \A i \in r.seen.inbounds : i.id \in Ids
      /\ \A w \in r.plan.clients : w.email \in Emails
  BY DEF RunState, Listing, Attachment, Inbound, Plan, Wanted
<1>3. next.push # {} => \A a \in r.seen.clients : EntryIn(q, a.id, a.email)
  BY <1>1, <1>2 DEF ClientsInv, KeepsEntries
<1>4. ASSUME NEW w \in r.plan.clients, NEW i \in r.seen.inbounds, i.key = w.key
      PROVE  \/ EntryIn(q, i.id, w.email)
             \/ \E x \in next.push : x.id = i.id /\ x.want.email = w.email
  <2>1. CASE EntryIn(p, i.id, w.email)
    BY <1>2, <2>1 DEF KeepsEntries
  <2>2. CASE \E x \in r.push : x.id = i.id /\ x.want.email = w.email
    BY <2>2
  <2> QED BY <1>1, <1>4, <2>1, <2>2 DEF ClientsInv
<1> QED BY <1>1, <1>3, <1>4 DEF ClientsInv

\* What is written to a client is a client row of the wanted email.
LEMMA PayloadType ==
  ASSUME NEW r \in RunState, NEW x \in r.push
  PROVE  Payload(r, x) \in Row /\ Payload(r, x).email = x.want.email
<1> DEFINE w == x.want
           entries == Entries(r.seen, x.id, w.email)
           rows == {y \in r.rows : y.email = w.email}
           known == {y \in r.rows \cup r.created : y.email = w.email}
           on == IF entries # {} THEN (CHOOSE a \in entries : TRUE).enable
                 ELSE IF known # {} THEN (CHOOSE y \in known : TRUE).enable ELSE w.enable
           own == IF rows # {} THEN (CHOOSE y \in rows : TRUE).own ELSE w.own
<1>1. w \in Wanted
  BY DEF RunState, Push
<1>2. entries \subseteq Attachment /\ rows \subseteq Row /\ known \subseteq Row
  BY DEF RunState, Listing, Entries
<1> HIDE DEF entries, rows, known, w
<1>3. on \in BOOLEAN
  BY <1>1, <1>2 DEF Attachment, Row, Wanted
<1>4. own \in Owns
  BY <1>1, <1>2 DEF Row, Wanted
<1>5. Payload(r, x) = [email |-> w.email, cred |-> w.cred, enable |-> on, own |-> own]
  BY DEF Payload, entries, rows, known, w
<1> HIDE DEF on, own
<1>6. Payload(r, x) \in Row /\ Payload(r, x).email = w.email
  BY <1>1, <1>3, <1>4, <1>5 DEF Row, Wanted
<1> QED BY <1>6 DEF w

\* CreateMissing makes the entry it takes off the list.
LEMMA CreateMissingKeeps ==
  ASSUME Inv, NEW s \in Syncers, CreateMissing(s) PROVE Kept(s)
<1> DEFINE r == run[s]
<1>1. /\ r \in RunState /\ target \in PanelState /\ Sound(target)
      /\ LocalInv(r) /\ RemoteInv(r, target)
  BY RunTypes
<1> DEFINE after(x) == [r EXCEPT !.push = @ \ {x}, !.created = @ \cup {Payload(r, x)},
                                 !.write = {[id |-> x.id, client |-> Payload(r, x)]}]
<1>2. PICK x \in r.push :
        r.pc = "clients" /\ Call(s, CreateClient(target, Payload(r, x), x.id), after(x))
  BY DEF CreateMissing
<1> DEFINE next == after(x)
<1>3. x \in Push /\ x.id \in Ids /\ x.want.email \in Emails
  BY <1>1 DEF RunState, Push, Wanted
<1>4. Payload(r, x) \in Row /\ Payload(r, x).email = x.want.email
  BY <1>1, PayloadType
<1>5. /\ next \in RunState /\ next.alone = r.alone /\ next.pc = "clients"
      /\ next.plan = r.plan /\ next.seen = r.seen /\ next.clear = r.clear
      /\ next.prune = r.prune /\ next.push = r.push \ {x}
  <2> DEFINE w == {[id |-> x.id, client |-> Payload(r, x)]}
  <2>1. w \subseteq Write
    BY <1>3, <1>4 DEF Write
  <2> HIDE DEF w
  <2>2. next = [r EXCEPT !.push = @ \ {x}, !.created = @ \cup {Payload(r, x)}, !.write = w]
    BY DEF w
  <2> HIDE DEF next
  <2>3. next.pc = r.pc /\ next.push = r.push \ {x}
    BY <1>1, <2>2 DEF RunState
  <2>4. /\ next.alone = r.alone /\ next.plan = r.plan /\ next.seen = r.seen
        /\ next.clear = r.clear /\ next.prune = r.prune
    BY <1>1, <2>2 DEF RunState
  <2>5. next \in RunState
    BY <1>1, <1>4, <2>1, <2>2 DEF RunState
  <2> QED BY <1>2, <2>3, <2>4, <2>5
<1>6. Call(s, CreateClient(target, Payload(r, x), x.id), next)
  BY <1>2
<1> HIDE DEF next
<1>7. LocalInv(next)
  BY <1>1, <1>2, <1>5 DEF LocalInv, WellListed
<1>8. ASSUME NEW q \in CreateClient(target, Payload(r, x), x.id)
      PROVE  /\ q \in PanelState /\ Sound(q) /\ RemoteInv(next, q)
             /\ LosesOnlyUnwanted(r, target, q)
  <2>1. /\ q \in PanelState /\ Sound(q) /\ EntryIn(q, x.id, x.want.email)
        /\ target.clients \subseteq q.clients
    BY <1>1, <1>3, <1>4, CreateClientKeeps
  <2>2. LosesOnlyUnwanted(r, target, q) /\ KeepsEntries(target, q)
    BY <1>1, <2>1, ClientsKept
  <2>3. RemoteInv(next, q)
    BY <1>1, <1>2, <1>5, <2>1, <2>2, PushKeeps
  <2> QED BY <2>1, <2>2, <2>3
<1>9. Active(r)
  BY <1>2 DEF Active
<1> QED BY <1>5, <1>6, <1>7, <1>8, <1>9, CallKeeps

\* AttachMissing makes the entry it takes off the list.
LEMMA AttachMissingKeeps ==
  ASSUME Inv, NEW s \in Syncers, AttachMissing(s) PROVE Kept(s)
<1> DEFINE r == run[s]
<1>1. /\ r \in RunState /\ target \in PanelState /\ Sound(target)
      /\ LocalInv(r) /\ RemoteInv(r, target)
  BY RunTypes
<1> DEFINE after(x) == [r EXCEPT !.push = @ \ {x},
                                 !.write = {[id |-> x.id, client |-> Payload(r, x)]}]
<1>2. PICK x \in r.push :
        r.pc = "clients" /\ Call(s, AttachClient(target, x.want.email, x.id), after(x))
  BY DEF AttachMissing
<1> DEFINE next == after(x)
<1>3. x \in Push /\ x.id \in Ids /\ x.want.email \in Emails
  BY <1>1 DEF RunState, Push, Wanted
<1>4. Payload(r, x) \in Row /\ Payload(r, x).email = x.want.email
  BY <1>1, PayloadType
<1>5. /\ next \in RunState /\ next.alone = r.alone /\ next.pc = "clients"
      /\ next.plan = r.plan /\ next.seen = r.seen /\ next.clear = r.clear
      /\ next.prune = r.prune /\ next.push = r.push \ {x}
  <2> DEFINE w == {[id |-> x.id, client |-> Payload(r, x)]}
  <2>1. w \subseteq Write
    BY <1>3, <1>4 DEF Write
  <2> HIDE DEF w
  <2>2. next = [r EXCEPT !.push = @ \ {x}, !.write = w]
    BY DEF w
  <2> QED BY <1>1, <1>2, <1>4, <2>1, <2>2 DEF RunState
<1>6. Call(s, AttachClient(target, x.want.email, x.id), next)
  BY <1>2
<1> HIDE DEF next
<1>7. LocalInv(next)
  BY <1>1, <1>2, <1>5 DEF LocalInv, WellListed
<1>8. ASSUME NEW q \in AttachClient(target, x.want.email, x.id)
      PROVE  /\ q \in PanelState /\ Sound(q) /\ RemoteInv(next, q)
             /\ LosesOnlyUnwanted(r, target, q)
  <2>1. /\ q \in PanelState /\ Sound(q) /\ EntryIn(q, x.id, x.want.email)
        /\ target.clients \subseteq q.clients
    BY <1>1, <1>3, <1>4, AttachClientKeeps
  <2>2. LosesOnlyUnwanted(r, target, q) /\ KeepsEntries(target, q)
    BY <1>1, <2>1, ClientsKept
  <2>3. RemoteInv(next, q)
    BY <1>1, <1>2, <1>5, <2>1, <2>2, PushKeeps
  <2> QED BY <2>1, <2>2, <2>3
<1>9. Active(r)
  BY <1>2 DEF Active
<1> QED BY <1>5, <1>6, <1>7, <1>8, <1>9, CallKeeps

\* UpdateChanged succeeds only where the entry is.
LEMMA UpdateChangedKeeps ==
  ASSUME Inv, NEW s \in Syncers, UpdateChanged(s) PROVE Kept(s)
<1> DEFINE r == run[s]
<1>1. /\ r \in RunState /\ target \in PanelState /\ Sound(target)
      /\ LocalInv(r) /\ RemoteInv(r, target)
  BY RunTypes
<1> DEFINE after(x) == [r EXCEPT !.push = @ \ {x}]
<1>2. PICK x \in r.push :
        r.pc = "clients" /\ Call(s, UpdateClient(target, Payload(r, x), x.id), after(x))
  BY DEF UpdateChanged
<1> DEFINE next == after(x)
<1>3. x \in Push /\ x.id \in Ids /\ x.want.email \in Emails
  BY <1>1 DEF RunState, Push, Wanted
<1>4. Payload(r, x) \in Row /\ Payload(r, x).email = x.want.email
  BY <1>1, PayloadType
<1>5. /\ next \in RunState /\ next.alone = r.alone /\ next.pc = "clients"
      /\ next.plan = r.plan /\ next.seen = r.seen /\ next.clear = r.clear
      /\ next.prune = r.prune /\ next.push = r.push \ {x}
  BY <1>1, <1>2 DEF RunState
<1>6. Call(s, UpdateClient(target, Payload(r, x), x.id), next)
  BY <1>2
<1> HIDE DEF next
<1>7. LocalInv(next)
  BY <1>1, <1>2, <1>5 DEF LocalInv, WellListed
<1>8. ASSUME NEW q \in UpdateClient(target, Payload(r, x), x.id)
      PROVE  /\ q \in PanelState /\ Sound(q) /\ RemoteInv(next, q)
             /\ LosesOnlyUnwanted(r, target, q)
  <2>1. /\ q \in PanelState /\ Sound(q) /\ EntryIn(q, x.id, x.want.email)
        /\ KeepsEntries(target, q)
    BY <1>1, <1>3, <1>4, UpdateClientKeeps
  <2>2. LosesOnlyUnwanted(r, target, q) /\ KeepsEntries(target, q)
    BY <1>1, <2>1, ClientsKept
  <2>3. RemoteInv(next, q)
    BY <1>1, <1>2, <1>5, <2>1, <2>2, PushKeeps
  <2> QED BY <2>1, <2>2, <2>3
<1>9. Active(r)
  BY <1>2 DEF Active
<1> QED BY <1>5, <1>6, <1>7, <1>8, <1>9, CallKeeps

\* WriteNew rewrites an entry in place.
LEMMA WriteNewKeeps ==
  ASSUME Inv, NEW s \in Syncers, WriteNew(s) PROVE Kept(s)
<1> DEFINE r == run[s]
           next == [r EXCEPT !.write = {}]
<1>1. /\ r \in RunState /\ target \in PanelState /\ Sound(target)
      /\ LocalInv(r) /\ RemoteInv(r, target)
  BY RunTypes
<1>2. PICK x \in r.write : r.pc = "clients" /\ Call(s, UpdateClient(target, x.client, x.id), next)
  BY DEF WriteNew
<1>3. x.id \in Ids /\ x.client \in Row
  BY <1>1 DEF RunState, Write
<1>4. /\ next \in RunState /\ next.alone = r.alone /\ next.pc = "clients"
      /\ next.plan = r.plan /\ next.seen = r.seen /\ next.clear = r.clear
      /\ next.prune = r.prune /\ next.push = r.push
  BY <1>1, <1>2 DEF RunState
<1> HIDE DEF next
<1>5. LocalInv(next)
  BY <1>1, <1>2, <1>4 DEF LocalInv, WellListed
<1>6. ASSUME NEW q \in UpdateClient(target, x.client, x.id)
      PROVE  /\ q \in PanelState /\ Sound(q) /\ RemoteInv(next, q)
             /\ LosesOnlyUnwanted(r, target, q)
  <2>1. q \in PanelState /\ Sound(q) /\ KeepsEntries(target, q)
    BY <1>1, <1>3, UpdateClientKeeps
  <2>2. LosesOnlyUnwanted(r, target, q)
    BY <1>1, <2>1, ClientsKept
  <2>3. RemoteInv(next, q)
    BY <1>1, <1>2, <1>4, <2>1, PushKeeps
  <2> QED BY <2>1, <2>2, <2>3
<1>7. Active(r)
  BY <1>2 DEF Active
<1> QED BY <1>2, <1>4, <1>5, <1>6, <1>7, CallKeeps

\* Removals: all that is pushed is there, so it suffices that no entry of the plan goes.
LEMMA PruneKeeps ==
  ASSUME NEW r \in RunState, r.pc = "clients", r.push = {}, NEW next,
         next.pc = r.pc, next.plan = r.plan, next.seen = r.seen, next.clear = r.clear,
         next.alone = r.alone, next.push = {},
         NEW p, NEW q, RemoteInv(r, p),
         \A w \in r.plan.clients, i \in r.seen.inbounds :
           i.key = w.key /\ EntryIn(p, i.id, w.email) => EntryIn(q, i.id, w.email)
  PROVE  RemoteInv(next, q)
BY DEF RemoteInv, InboundsInv, ClientsInv

\* DeleteUnwanted takes the entries of a client that the plan does not have.
LEMMA DeleteUnwantedKeeps ==
  ASSUME Inv, NEW s \in Syncers, DeleteUnwanted(s) PROVE Kept(s)
<1> DEFINE r == run[s]
<1>1. /\ r \in RunState /\ target \in PanelState /\ Sound(target)
      /\ LocalInv(r) /\ RemoteInv(r, target)
  BY RunTypes
<1>2. PICK a \in r.prune :
        /\ r.pc = "clients" /\ r.push = {} /\ ~WantedAnywhere(r.plan, a.email)
        /\ Call(s, DeleteClient(target, a.email),
                [r EXCEPT !.prune = {b \in @ : b.email # a.email}])
  BY DEF DeleteUnwanted
<1> DEFINE next == [r EXCEPT !.prune = {b \in @ : b.email # a.email}]
<1>3. a.email \in Emails
  BY <1>1 DEF RunState, Attachment
<1>4. /\ next \in RunState /\ next.alone = r.alone /\ next.pc = "clients"
      /\ next.plan = r.plan /\ next.seen = r.seen /\ next.clear = r.clear
      /\ next.prune \subseteq r.prune /\ next.push = {}
  BY <1>1, <1>2 DEF RunState
<1>5. Call(s, DeleteClient(target, a.email), next)
  BY <1>2
<1> HIDE DEF next
<1>6. LocalInv(next)
  BY <1>1, <1>2, <1>4 DEF LocalInv, WellListed
<1>7. ASSUME NEW q \in DeleteClient(target, a.email)
      PROVE  /\ q \in PanelState /\ Sound(q) /\ RemoteInv(next, q)
             /\ LosesOnlyUnwanted(r, target, q)
  <2>1. /\ q \in PanelState /\ Sound(q)
        /\ \A b \in target.clients : b.email # a.email => b \in q.clients
    BY <1>1, <1>3, DeleteClientKeeps
  <2>2. LosesOnlyUnwanted(r, target, q)
    BY <1>2, <2>1 DEF LosesOnlyUnwanted
  <2>3. \A w \in r.plan.clients : \A id : EntryIn(target, id, w.email) => EntryIn(q, id, w.email)
    BY <1>2, <2>1 DEF WantedAnywhere, EntryIn
  <2>4. RemoteInv(next, q)
    BY <1>1, <1>2, <1>4, <2>3, PruneKeeps
  <2> QED BY <2>1, <2>2, <2>4
<1>8. Active(r)
  BY <1>2 DEF Active
<1> QED BY <1>4, <1>5, <1>6, <1>7, <1>8, CallKeeps

\* DetachMoved takes an entry where the plan does not want the client.
LEMMA DetachMovedKeeps ==
  ASSUME Inv, NEW s \in Syncers, DetachMoved(s) PROVE Kept(s)
<1> DEFINE r == run[s]
<1>1. /\ r \in RunState /\ target \in PanelState /\ Sound(target)
      /\ LocalInv(r) /\ RemoteInv(r, target)
  BY RunTypes
<1>2. PICK a \in r.prune :
        /\ r.pc = "clients" /\ r.push = {}
        /\ Call(s, DetachClient(target, a.email, a.id), [r EXCEPT !.prune = @ \ {a}])
  BY DEF DetachMoved
<1> DEFINE next == [r EXCEPT !.prune = @ \ {a}]
<1>3. a.email \in Emails /\ a.id \in Ids
  BY <1>1 DEF RunState, Attachment
<1>4. /\ next \in RunState /\ next.alone = r.alone /\ next.pc = "clients"
      /\ next.plan = r.plan /\ next.seen = r.seen /\ next.clear = r.clear
      /\ next.prune \subseteq r.prune /\ next.push = {}
  BY <1>1, <1>2 DEF RunState
<1>5. Call(s, DetachClient(target, a.email, a.id), next)
  BY <1>2
<1> HIDE DEF next
<1>6. LocalInv(next)
  BY <1>1, <1>2, <1>4 DEF LocalInv, WellListed
<1>7. PICK i \in r.seen.inbounds :
        i.id = a.id /\ ~\E w \in DesiredAt(r.plan, i.key) : w.email = a.email
  <2>1. /\ a \in r.seen.clients
        /\ ~\E w \in DesiredAt(r.plan, KeyOf(r.seen, a.id)) : w.email = a.email
    BY <1>1, <1>2 DEF LocalInv, PruneList
  <2>2. PICK i \in r.seen.inbounds : i.id = a.id
    BY <1>1, <1>2, <2>1 DEF LocalInv, WellListed, HasInbound
  <2>3. KeyOf(r.seen, a.id) = i.key
    BY <1>1, <2>2, KeyOfListed DEF LocalInv, WellListed
  <2> QED BY <2>1, <2>2, <2>3
<1>8. ASSUME NEW q \in DetachClient(target, a.email, a.id)
      PROVE  /\ q \in PanelState /\ Sound(q) /\ RemoteInv(next, q)
             /\ LosesOnlyUnwanted(r, target, q)
  <2>1. /\ q \in PanelState /\ Sound(q)
        /\ \A b \in target.clients : ~(b.id = a.id /\ b.email = a.email) => b \in q.clients
    BY <1>1, <1>3, DetachClientKeeps
  <2>2. LosesOnlyUnwanted(r, target, q)
    BY <1>7, <2>1 DEF LosesOnlyUnwanted
  <2>3. ASSUME NEW w \in r.plan.clients, NEW j \in r.seen.inbounds,
               j.key = w.key, EntryIn(target, j.id, w.email)
        PROVE  EntryIn(q, j.id, w.email)
    <3>1. ~(j.id = a.id /\ w.email = a.email)
      BY <1>1, <1>7, <2>3 DEF LocalInv, WellListed, UniqueIds, DesiredAt
    <3> QED BY <2>1, <2>3, <3>1 DEF EntryIn
  <2>4. RemoteInv(next, q)
    BY <1>1, <1>2, <1>4, <2>3, PruneKeeps
  <2> QED BY <2>1, <2>2, <2>4
<1>9. Active(r)
  BY <1>2 DEF Active
<1> QED BY <1>4, <1>5, <1>6, <1>8, <1>9, CallKeeps

\* A run that is past its loops, or that only imports, knows nothing of the target; a
\* step to such a state that stores a listing keeps the invariant.
LEMMA TailKeeps ==
  ASSUME Inv, NEW s \in Syncers, Active(run[s]), NEW next \in RunState,
         next.pc \in {"synced", "refresh", "rebuild", "done", "failed", "idle"},
         WellFormedPlan(next.plan), WellListed(next.seen),
         Active(next) => next.alone = run[s].alone,
         cache' \in Listing, WellListed(cache'),
         run' = [run EXCEPT ![s] = next], main' = main, target' = target,
         left' \in [faults: Nat, switches: Nat, changes: Nat, imports: Nat]
  PROVE  Kept(s)
<1>1. LocalInv(next)
  BY DEF LocalInv, WellListed
<1>2. RemoteInv(next, target')
  BY DEF RemoteInv, InboundsInv, ClientsInv
<1>3. target' \in PanelState /\ Sound(target')
  BY DEF Inv, TypeOK
<1> QED BY <1>1, <1>2, <1>3, MoveStores, NothingLost

\* A run that ends has empty hands.
LEMMA EmptyHands ==
  ASSUME NEW next \in RunState,
         next.plan = [inbounds |-> {}, clients |-> {}],
         next.seen = [inbounds |-> {}, clients |-> {}]
  PROVE  WellFormedPlan(next.plan) /\ WellListed(next.seen)
BY DEF WellFormedPlan, WellListed, UniqueIds

\* Finish.
LEMMA FinishKeeps ==
  ASSUME Inv, NEW s \in Syncers, Finish(s) PROVE Kept(s)
<1> DEFINE next == [Ended("synced") EXCEPT !.alone = run[s].alone]
<1>1. /\ run' = [run EXCEPT ![s] = next] /\ UNCHANGED <<main, cache, target, left>>
      /\ Active(run[s])
  BY DEF Finish, Active
<1>2. /\ next \in RunState /\ next.pc = "synced" /\ next.alone = run[s].alone
      /\ next.plan = [inbounds |-> {}, clients |-> {}]
      /\ next.seen = [inbounds |-> {}, clients |-> {}]
  <2>1. run[s].alone \in BOOLEAN
    BY DEF Inv, TypeOK, RunState
  <2> QED BY <2>1, EndedParts DEF RunState
<1> HIDE DEF next
<1>3. /\ left' \in [faults: Nat, switches: Nat, changes: Nat, imports: Nat]
      /\ cache' \in Listing /\ WellListed(cache')
  BY <1>1 DEF Inv, TypeOK
<1> QED BY <1>1, <1>2, <1>3, EmptyHands, TailKeeps

\* ListAgain holds a listing of the panel, or is through.
LEMMA ListAgainKeeps ==
  ASSUME Inv, NEW s \in Syncers, ListAgain(s) PROVE Kept(s)
<1> DEFINE r == run[s]
           seen == [inbounds |-> target.inbounds, clients |-> target.clients]
           next == [r EXCEPT !.pc = "refresh", !.seen = seen]
<1>1. /\ r \in RunState /\ target \in PanelState /\ Sound(target) /\ LocalInv(r)
  BY RunTypes
<1>2. /\ r.pc = "synced" /\ Active(r)
      /\ main' = main /\ cache' = cache /\ target' = target
      /\ left' = left \/ (left.faults > 0 /\ left' = [left EXCEPT !.faults = @ - 1])
      /\ run' = [run EXCEPT ![s] = next] \/ run' = [run EXCEPT ![s] = Ended("done")]
  BY DEF ListAgain, Active
<1>3. /\ left' \in [faults: Nat, switches: Nat, changes: Nat, imports: Nat]
      /\ cache' \in Listing /\ WellListed(cache')
  BY <1>2 DEF Inv, TypeOK
<1>4. CASE run' = [run EXCEPT ![s] = next]
  <2>1. seen \in Listing /\ WellListed(seen)
    BY <1>1 DEF Listing, PanelState, Sound, WellListed, UniqueIds, HasInbound
  <2> HIDE DEF seen
  <2>2. /\ next \in RunState /\ next.pc = "refresh" /\ next.alone = r.alone
        /\ next.plan = r.plan /\ next.seen = seen
    BY <1>1, <2>1 DEF RunState, Phases
  <2> HIDE DEF next
  <2>3. WellFormedPlan(next.plan) /\ WellListed(next.seen)
    BY <1>1, <2>1, <2>2 DEF LocalInv, WellListed
  <2> QED BY <1>2, <1>3, <1>4, <2>2, <2>3, TailKeeps
<1>5. CASE run' = [run EXCEPT ![s] = Ended("done")]
  <2> DEFINE last == Ended("done")
  <2>1. /\ ~Active(last) /\ last \in RunState /\ last.pc = "done"
        /\ last.plan = [inbounds |-> {}, clients |-> {}]
        /\ last.seen = [inbounds |-> {}, clients |-> {}]
    BY EndedKeeps, EndedParts
  <2> HIDE DEF last
  <2>2. run' = [run EXCEPT ![s] = last]
    BY <1>5 DEF last
  <2> QED BY <1>2, <1>3, <2>1, <2>2, EmptyHands, TailKeeps
<1> QED BY <1>2, <1>4, <1>5

\* A listing in hand is stored, or not.
LEMMA StoredKeeps ==
  ASSUME Inv, NEW s \in Syncers, Active(run[s]), NEW next \in RunState,
         next.pc \in {"rebuild", "done", "idle"},
         WellFormedPlan(next.plan), WellListed(next.seen),
         Active(next) => next.alone = run[s].alone, Stored(s, next)
  PROVE  Kept(s)
<1>1. run[s] \in RunState /\ LocalInv(run[s])
  BY RunTypes
<1>2. /\ cache' = run[s].seen \/ cache' = cache
      /\ left' = left \/ (left.faults > 0 /\ left' = [left EXCEPT !.faults = @ - 1])
      /\ run' = [run EXCEPT ![s] = next] /\ main' = main /\ target' = target
  BY DEF Stored
<1>3. cache' \in Listing /\ WellListed(cache')
  BY <1>1, <1>2 DEF Inv, TypeOK, RunState, LocalInv
<1>4. left' \in [faults: Nat, switches: Nat, changes: Nat, imports: Nat]
  BY <1>2 DEF Inv, TypeOK
<1> QED BY <1>2, <1>3, <1>4, TailKeeps

\* Recache.
LEMMA RecacheKeeps ==
  ASSUME Inv, NEW s \in Syncers, Recache(s) PROVE Kept(s)
<1> DEFINE next == [run[s] EXCEPT !.pc = "rebuild"]
<1>1. run[s] \in RunState /\ LocalInv(run[s])
  BY RunTypes
<1>2. /\ next \in RunState /\ next.pc = "rebuild" /\ next.alone = run[s].alone
      /\ next.plan = run[s].plan /\ next.seen = run[s].seen
  BY <1>1 DEF RunState, Phases
<1>3. Stored(s, next) /\ Active(run[s])
  BY DEF Recache, Active
<1> HIDE DEF next
<1>4. WellFormedPlan(next.plan) /\ WellListed(next.seen)
  BY <1>1, <1>2 DEF LocalInv, WellListed
<1> QED BY <1>2, <1>3, <1>4, StoredKeeps

\* Rebuild.
LEMMA RebuildKeeps ==
  ASSUME Inv, NEW s \in Syncers, Rebuild(s) PROVE Kept(s)
<1> DEFINE last == Ended("done")
<1>1. Stored(s, last) /\ Active(run[s])
  BY DEF Rebuild, Active
<1>2. /\ ~Active(last) /\ last \in RunState /\ last.pc = "done"
      /\ last.plan = [inbounds |-> {}, clients |-> {}]
      /\ last.seen = [inbounds |-> {}, clients |-> {}]
  BY EndedKeeps, EndedParts
<1> HIDE DEF last
<1> QED BY <1>1, <1>2, EmptyHands, StoredKeeps

\* ImportCaches.
LEMMA ImportCachesKeeps ==
  ASSUME Inv, NEW s \in Syncers, ImportCaches(s) PROVE Kept(s)
<1>1. Stored(s, Idle) /\ Active(run[s])
  BY DEF ImportCaches, Active
<1>2. ~Active(Idle)
  BY IdleParts DEF Active
<1> QED BY <1>1, <1>2, IdleParts, EmptyHands, StoredKeeps

\* Every step of a run.
LEMMA StepKeeps ==
  ASSUME Inv, NEW s \in Syncers, Step(s) PROVE Kept(s)
BY ListInboundsKeeps, AddMissingKeeps, UpdateOutdatedKeeps, FlipEnableKeeps,
   DeleteStaleKeeps, RefetchKeeps, EnsureServerInboundsKeeps, ListInboundsByServerKeeps,
   ListClientsKeeps, CreateMissingKeeps, AttachMissingKeeps, UpdateChangedKeeps,
   WriteNewKeeps, DeleteUnwantedKeeps, DetachMovedKeeps, FinishKeeps, ListAgainKeeps,
   RecacheKeeps, RebuildKeeps, ImportCachesKeeps
   DEF Step, InboundPhase, ReadBack, ClientPhase, Refresh

(***************************************************************************)
(* The other steps.                                                        *)
(***************************************************************************)

\* A step that changes only the history bits of the runs it does not start.
LEMMA BitsKeep ==
  ASSUME NEW r \in RunState, LocalInv(r), NEW x \in RunState, NEW p,
         \/ x = [r EXCEPT !.alone = FALSE]
         \/ x = [r EXCEPT !.calm = FALSE] /\ RemoteInv(r, p)
  PROVE  /\ LocalInv(x) /\ RemoteInv(x, p) /\ x.pc = r.pc /\ x.seen = r.seen
         /\ Active(x) = Active(r) /\ (x.alone => r.alone)
<1>1. /\ x.pc = r.pc /\ x.plan = r.plan /\ x.seen = r.seen /\ x.todo = r.todo
      /\ x.stale = r.stale /\ x.clear = r.clear /\ x.push = r.push /\ x.prune = r.prune
  BY DEF RunState
<1>2. LocalInv(x) /\ Active(x) = Active(r)
  BY <1>1 DEF LocalInv, Active
<1>3. CASE x = [r EXCEPT !.alone = FALSE]
  <2>1. x.alone = FALSE
    BY <1>3 DEF RunState
  <2> QED BY <1>1, <1>2, <2>1 DEF RemoteInv
<1>4. CASE x = [r EXCEPT !.calm = FALSE] /\ RemoteInv(r, p)
  <2>1. x.alone = r.alone
    BY <1>4 DEF RunState
  <2> QED BY <1>1, <1>2, <1>4, <2>1 DEF RemoteInv, InboundsInv, ClientsInv, Present
<1> QED BY <1>1, <1>3, <1>4

\* Begin: a request that begins is alone only when no other is active, and ends the
\* solitude of those that are.
LEMMA BeginKeeps ==
  ASSUME Inv, NEW s \in Syncers, NEW r \in RunState, r.pc \in {"list", "import"},
         WellFormedPlan(r.plan), WellListed(r.seen), Begin(s, r),
         main' = main, cache' = cache, target' = target,
         left' \in [faults: Nat, switches: Nat, changes: Nat, imports: Nat]
  PROVE  Inv'
<1> DEFINE solo == \A u \in Syncers \ {s} : ~Active(run[u])
           new == [r EXCEPT !.alone = solo]
<1>1. /\ run \in [Syncers -> RunState] /\ main \in MainChoices
  BY DEF Inv, TypeOK
<1>2. run' = [t \in Syncers |->
                IF t = s THEN new
                ELSE IF Active(run[t]) THEN [run[t] EXCEPT !.alone = FALSE] ELSE run[t]]
  BY DEF Begin
<1>4. /\ new \in RunState /\ new.pc = r.pc /\ new.plan = r.plan /\ new.alone = solo
      /\ new.seen = r.seen
  <2>1. solo \in BOOLEAN
    OBVIOUS
  <2> HIDE DEF solo
  <2> QED BY <2>1 DEF RunState
<1>5. LocalInv(new)
  BY <1>4 DEF LocalInv, WellListed
<1>6. RemoteInv(new, target)
  BY <1>4 DEF RemoteInv, InboundsInv, ClientsInv
<1> HIDE DEF new
<1>7. run'[s] = new
  BY <1>2
<1>8. ASSUME NEW t \in Syncers, t # s
      PROVE  /\ run'[t] \in RunState /\ LocalInv(run'[t]) /\ RemoteInv(run'[t], target)
             /\ Active(run'[t]) = Active(run[t])
             /\ Active(run'[t]) => ~run'[t].alone
             /\ run'[t].pc = run[t].pc
  <2>1. LocalInv(run[t]) /\ RemoteInv(run[t], target) /\ run[t] \in RunState
    BY <1>1 DEF Inv
  <2>2. CASE Active(run[t])
    <3>1. run'[t] = [run[t] EXCEPT !.alone = FALSE]
      BY <1>2, <1>8, <2>2
    <3>2. run'[t] \in RunState /\ run'[t].alone = FALSE
      BY <2>1, <3>1 DEF RunState
    <3> QED BY <2>1, <3>1, <3>2, BitsKeep
  <2>3. CASE ~Active(run[t])
    <3>1. run'[t] = run[t]
      BY <1>2, <1>8, <2>3
    <3> QED BY <2>1, <2>3, <3>1
  <2> QED BY <2>2, <2>3
<1>9. run' \in [Syncers -> RunState]
  <2>1. \A t \in Syncers : run'[t] \in RunState
    BY <1>4, <1>7, <1>8
  <2> QED BY <1>2, <2>1
<1>10. TypeOK'
  BY <1>1, <1>9 DEF Inv, TypeOK
<1>11. \A t \in Syncers : LocalInv(run'[t]) /\ RemoteInv(run'[t], target')
  BY <1>1, <1>5, <1>6, <1>7, <1>8
<1>12. AloneInv'
  <2>1. ASSUME NEW t \in Syncers, NEW u \in Syncers, t # u,
               Active(run'[t]), run'[t].alone
        PROVE  ~Active(run'[u])
    <3>1. t = s /\ solo
      BY <1>4, <1>7, <1>8, <2>1
    <3> QED BY <1>8, <2>1, <3>1
  <2> QED BY <2>1 DEF AloneInv
<1>13. Sound(target') /\ WellListed(cache')
  BY DEF Inv
<1>14. OwnStored'
  <2>1. ASSUME NEW t \in Syncers, run'[t].alone, run'[t].pc = "stored" PROVE FALSE
    <3>1. Active(run'[t])
      BY <2>1 DEF Active
    <3> QED BY <1>4, <1>7, <1>8, <2>1, <3>1
  <2> QED BY <2>1 DEF OwnStored
<1> QED BY <1>10, <1>11, <1>12, <1>13, <1>14 DEF Inv

\* Start has read a plan.
LEMMA StartKeeps ==
  ASSUME Inv, NEW s \in Syncers, Start(s) PROVE Inv'
<1> DEFINE r == [Idle EXCEPT !.pc = "list", !.plan = main, !.calm = Coherent(target)]
<1>1. /\ Begin(s, r) /\ main' = main /\ cache' = cache /\ target' = target /\ left' = left
  BY DEF Start
<1>2. main \in Plan /\ WellFormedPlan(main)
  BY ChoicesAssumption DEF Inv, TypeOK
<1>3. /\ r \in RunState /\ r.pc = "list" /\ r.plan = main
      /\ r.seen = [inbounds |-> {}, clients |-> {}]
  <2>1. Coherent(target) \in BOOLEAN
    BY DEF Coherent
  <2> QED BY <1>2, <2>1 DEF Idle, RunState, Phases, Plan, Listing
<1> HIDE DEF r
<1>4. WellListed(r.seen)
  BY <1>3 DEF WellListed, UniqueIds
<1>5. left' \in [faults: Nat, switches: Nat, changes: Nat, imports: Nat]
  BY <1>1 DEF Inv, TypeOK
<1> QED BY <1>1, <1>2, <1>3, <1>4, <1>5, BeginKeeps

\* Import has listed the target.
LEMMA ImportKeeps ==
  ASSUME Inv, NEW s \in Syncers, Import(s) PROVE Inv'
<1> DEFINE seen == [inbounds |-> target.inbounds, clients |-> target.clients]
           r == [Idle EXCEPT !.pc = "import", !.seen = seen]
<1>1. /\ Begin(s, r) /\ main' = main /\ cache' = cache /\ target' = target
      /\ left.imports > 0 /\ left' = [left EXCEPT !.imports = @ - 1]
  BY DEF Import
<1>2. seen \in Listing /\ WellListed(seen)
  BY DEF Inv, TypeOK, Listing, PanelState, Sound, WellListed, UniqueIds, HasInbound
<1> HIDE DEF seen
<1>3. /\ r \in RunState /\ r.pc = "import" /\ r.seen = seen
      /\ r.plan = [inbounds |-> {}, clients |-> {}]
  BY <1>2 DEF Idle, RunState, Phases, Plan, Listing
<1> HIDE DEF r
<1>4. WellFormedPlan(r.plan) /\ WellListed(r.seen)
  BY <1>2, <1>3 DEF WellFormedPlan
<1>5. left' \in [faults: Nat, switches: Nat, changes: Nat, imports: Nat]
  BY <1>1 DEF Inv, TypeOK
<1> QED BY <1>1, <1>3, <1>4, <1>5, BeginKeeps

\* What a run knows holds on every panel that has the same inbounds and loses no entry.
LEMMA FrameKeeps ==
  ASSUME NEW r \in RunState, NEW p, NEW q, RemoteInv(r, p),
         q.inbounds = p.inbounds, q.next = p.next, KeepsEntries(p, q)
  PROVE  RemoteInv(r, q)
<1>1. /\ \A a \in r.seen.clients : a.id \in Ids /\ a.email \in Emails
      /\ \A i \in r.seen.inbounds : i.id \in Ids
      /\ \A w \in r.plan.clients : w.email \in Emails
  BY DEF RunState, Listing, Attachment, Inbound, Plan, Wanted
<1>2. InboundsInv(r, p) => InboundsInv(r, q)
  BY DEF InboundsInv, Present
<1>3. ClientsInv(r, p) => ClientsInv(r, q)
  BY <1>1 DEF ClientsInv, KeepsEntries
<1> QED BY <1>2, <1>3 DEF RemoteInv

\* TargetSwitches neither adds nor removes anything.
LEMMA TargetSwitchesKeeps ==
  ASSUME Inv, TargetSwitches PROVE Inv'
<1>1. PICK row \in target.rows : target' = SwitchClient(target, row.email)
  BY DEF TargetSwitches
<1>2. /\ run \in [Syncers -> RunState] /\ target \in PanelState /\ Sound(target)
      /\ row.email \in Emails /\ main' = main /\ cache' = cache
      /\ left' = [left EXCEPT !.switches = @ - 1] /\ left.switches > 0
  BY DEF Inv, TypeOK, TargetSwitches, PanelState, Row
<1>3. /\ target' \in PanelState /\ Sound(target')
      /\ target'.inbounds = target.inbounds /\ target'.next = target.next
      /\ KeepsEntries(target, target')
  BY <1>1, <1>2, SwitchClientKeeps
<1>4. run' = [s \in Syncers |-> IF Active(run[s]) THEN [run[s] EXCEPT !.calm = FALSE]
                                ELSE run[s]]
  BY DEF TargetSwitches
<1>5. ASSUME NEW t \in Syncers
      PROVE  /\ run'[t] \in RunState /\ LocalInv(run'[t]) /\ RemoteInv(run'[t], target')
             /\ Active(run'[t]) = Active(run[t]) /\ (run'[t].alone => run[t].alone)
             /\ run'[t].pc = run[t].pc /\ run'[t].seen = run[t].seen
  <2>1. LocalInv(run[t]) /\ RemoteInv(run[t], target') /\ run[t] \in RunState
    BY <1>2, <1>3, FrameKeeps DEF Inv
  <2>2. CASE Active(run[t])
    <3>1. run'[t] = [run[t] EXCEPT !.calm = FALSE]
      BY <1>4, <2>2
    <3>2. run'[t] \in RunState
      BY <2>1, <3>1 DEF RunState
    <3> QED BY <2>1, <3>1, <3>2, BitsKeep
  <2>3. CASE ~Active(run[t])
    <3>1. run'[t] = run[t]
      BY <1>4, <2>3
    <3> QED BY <2>1, <3>1
  <2> QED BY <2>2, <2>3
<1>6. run' \in [Syncers -> RunState]
  BY <1>4, <1>5
<1>7. TypeOK'
  BY <1>2, <1>3, <1>6 DEF Inv, TypeOK
<1>8. AloneInv'
  BY <1>5 DEF Inv, AloneInv
<1>9. OwnStored' /\ WellListed(cache')
  BY <1>2, <1>5 DEF Inv, OwnStored
<1> QED BY <1>3, <1>5, <1>7, <1>8, <1>9 DEF Inv

\* MainChanges touches neither the runs nor the target.
LEMMA MainChangesKeeps ==
  ASSUME Inv, MainChanges PROVE Inv'
<1>1. /\ main' \in MainChoices /\ cache' = cache /\ target' = target /\ run' = run
      /\ left' \in [faults: Nat, switches: Nat, changes: Nat, imports: Nat]
  BY DEF Inv, TypeOK, MainChanges
<1> QED BY <1>1 DEF Inv, TypeOK, AloneInv, OwnStored

(***************************************************************************)
(* The theorems.                                                           *)
(***************************************************************************)

\* The invariant holds at the start: nothing runs, and the target is well-formed.
LEMMA InitInv == Init => Inv
<1> SUFFICES ASSUME Init PROVE Inv
  OBVIOUS
<1>1. /\ main \in MainChoices /\ target \in PanelState /\ Sound(target)
      /\ \A s \in Syncers : run[s] = Idle
      /\ cache \in Listing /\ WellListed(cache)
  BY ChoicesAssumption, WellFormedSound DEF Init, Listing, WellListed, UniqueIds
<1>2. Idle \in RunState
  BY DEF Idle, RunState, Phases, Plan, Listing
<1>3. TypeOK
  BY <1>1, <1>2, BoundsAssumption DEF Init, TypeOK
<1>4. /\ Idle.pc = "idle" /\ Idle.plan = [inbounds |-> {}, clients |-> {}]
      /\ Idle.seen = [inbounds |-> {}, clients |-> {}]
  BY DEF Idle
<1>5. LocalInv(Idle)
  BY <1>4 DEF LocalInv, WellFormedPlan, WellListed, UniqueIds
<1>6. RemoteInv(Idle, target)
  BY <1>4 DEF RemoteInv, InboundsInv, ClientsInv
<1>7. AloneInv /\ OwnStored
  BY <1>1, <1>4 DEF AloneInv, OwnStored, Active
<1> QED BY <1>1, <1>3, <1>5, <1>6, <1>7 DEF Inv

\* Every step keeps the invariant.
LEMMA NextInv == Inv /\ [Next]_vars => Inv'
<1> SUFFICES ASSUME Inv, [Next]_vars PROVE Inv'
  OBVIOUS
<1>1. ASSUME NEW s \in Syncers, Start(s) \/ Import(s) PROVE Inv'
  BY <1>1, StartKeeps, ImportKeeps
<1>2. ASSUME NEW s \in Syncers, Step(s) PROVE Inv'
  BY <1>2, StepKeeps DEF Kept
<1>3. CASE TargetSwitches
  BY <1>3, TargetSwitchesKeeps
<1>4. CASE MainChanges
  BY <1>4, MainChangesKeeps
<1>5. CASE UNCHANGED vars
  BY <1>5 DEF vars, Inv, TypeOK, AloneInv, OwnStored
<1> QED BY <1>1, <1>2, <1>3, <1>4, <1>5 DEF Next

\* The inductive invariant holds in every behaviour.
THEOREM Invariant == Spec => []Inv
<1> QED BY InitInv, NextInv, PTL DEF Spec

\* Runs, panel and bounds keep their types, whatever requests do.
THEOREM TypeCorrect == Spec => []TypeOK
<1>1. Inv => TypeOK
  BY DEF Inv
<1> QED BY <1>1, Invariant, PTL

\* A client of the plan that had an entry when the client loops began has one
\* throughout them: before the last push nothing is taken away, after it every
\* entry of the plan is there.
THEOREM MovingClientsStay == Spec => []NeverOrphaned
<1>1. Inv => NeverOrphaned
  <2> SUFFICES ASSUME Inv, NEW s \in Syncers,
                      run[s].pc = "clients", run[s].clear, run[s].alone,
                      NEW w \in run[s].plan.clients, Attached(run[s].seen, w.email)
               PROVE  Attached(target, w.email)
    BY DEF NeverOrphaned
  <2> DEFINE r == run[s]
  <2>1. ClientsInv(r, target) /\ WellFormedPlan(r.plan)
    BY DEF Inv, RemoteInv, LocalInv
  <2>2. PICK i \in r.seen.inbounds : i.key = w.key
    BY <2>1 DEF ClientsInv, WellFormedPlan, MainKeys
  <2>3. CASE EntryIn(target, i.id, w.email)
    BY <2>3 DEF EntryIn, Attached
  <2>4. CASE r.push # {}
    <3>1. PICK a \in r.seen.clients : a.email = w.email
      BY DEF Attached
    <3>2. EntryIn(target, a.id, w.email)
      BY <2>1, <2>4, <3>1 DEF ClientsInv
    <3> QED BY <3>2 DEF EntryIn, Attached
  <2> QED BY <2>1, <2>2, <2>3, <2>4 DEF ClientsInv
<1> QED BY <1>1, Invariant, PTL

\* No step of a run takes away an entry that the run's plan wants, however other
\* runs overlap it.
THEOREM OnlyUnwantedGo == Spec => RemovesOnlyUnwanted
<1>1. Inv /\ [Next]_vars =>
        [\A s \in Syncers : StepOf(s) => LosesOnlyUnwanted(run[s], target, target')]_vars
  <2> SUFFICES ASSUME Inv, Next, NEW s \in Syncers, StepOf(s)
               PROVE  LosesOnlyUnwanted(run[s], target, target')
    OBVIOUS
  <2>1. CASE Step(s)
    BY <2>1, StepKeeps DEF Kept
  <2>2. CASE target' = target
    BY <2>2, NothingLost
  <2>3. CASE TargetSwitches
    <3>1. left.switches \in Nat /\ left'.switches = left.switches - 1
      BY <2>3 DEF Inv, TypeOK, TargetSwitches
    <3> QED BY <3>1 DEF StepOf
  <2>4. ASSUME NEW u \in Syncers, u # s, Step(u) PROVE FALSE
    <3>1. run'[s] = run[s]
      BY <2>4 DEF Step, InboundPhase, ReadBack, ClientPhase, Refresh, ListInbounds,
         AddMissing, UpdateOutdated, FlipEnable, DeleteStale, Refetch, EnsureServerInbounds,
         ListInboundsByServer, ListClients, CreateMissing, AttachMissing, UpdateChanged,
         WriteNew, DeleteUnwanted, DetachMoved, Finish, ListAgain, Recache, Rebuild,
         ImportCaches, Stored, Call, ReadFails, Inv, TypeOK
    <3> QED BY <3>1 DEF StepOf
  <2> QED BY <2>1, <2>2, <2>3, <2>4 DEF Next, Start, Import, MainChanges
<1> QED BY <1>1, Invariant, PTL DEF Spec, RemovesOnlyUnwanted
(***************************************************************************)
(* What a run that no other run overlaps makes of the target.              *)
(***************************************************************************)

\* Main inbound m is on panel p as the main panel has it, but for the switch that the
\* run is about to flip.
Made(r, m, p) ==
  \E j \in p.inbounds :
    /\ j.key = m.key /\ j.port = m.port /\ j.conf = m.conf
    /\ j.enable = m.enable \/ [id |-> j.id, enable |-> m.enable] \in r.flip
    /\ IF Match(r.seen, m) = {} THEN ~HasInbound(r.seen, j.id)
       ELSE \E i \in Match(r.seen, m) : i.id = j.id

\* The main inbounds through with are made, the others' matches have the switch they
\* were listed with; what else is on the panel is stale, matched or made by the run.
Ready(r, p) ==
  /\ \A m \in r.plan.inbounds \ r.todo : Made(r, m, p)
  /\ \A m \in r.todo : \A i \in Match(r.seen, m), j \in p.inbounds :
       j.id = i.id => j.enable = i.enable
  /\ \A i \in r.seen.inbounds, j \in p.inbounds : j.id = i.id =>
       i \in r.stale \/ \E m \in r.plan.inbounds : i \in Match(r.seen, m)
  /\ \A j \in p.inbounds : ~HasInbound(r.seen, j.id) =>
       \E m \in r.plan.inbounds \ r.todo : Match(r.seen, m) = {} /\ j.key = m.key
  /\ \A f, g \in r.flip : f = g
  /\ \A f \in r.flip : \E m \in r.plan.inbounds \ r.todo : \E i \in Match(r.seen, m) :
       i.id = f.id /\ m.enable = f.enable

As(i) == [key |-> i.key, port |-> i.port, conf |-> i.conf, enable |-> i.enable]

\* Panel p has the inbounds of the plan, and they are the ones listed.
InboundsMirror(r, p) ==
  /\ r.seen.inbounds = p.inbounds
  /\ {As(i) : i \in p.inbounds} = r.plan.inbounds

\* Every entry of p is one of q, with its credential.
SameEntries(p, q) ==
  \A a \in p.clients : \E b \in q.clients :
    b.id = a.id /\ b.email = a.email /\ b.cred = a.cred

There(p, id, w) == \E a \in p.clients : a.id = id /\ a.email = w.email /\ a.cred = w.cred

\* A client of the plan is there, to be pushed or to be written; an entry is of the plan
\* or to be pruned.
Underway(r, p) ==
  /\ \A w \in r.plan.clients, i \in r.seen.inbounds : i.key = w.key =>
       \/ There(p, i.id, w)
       \/ \E x \in r.push : x.id = i.id /\ x.want = w
       \/ \E y \in r.write : /\ y.id = i.id /\ y.client.email = w.email
                             /\ y.client.cred = w.cred
  /\ \A a \in p.clients :
       \/ \E w \in r.plan.clients : w.key = KeyOf(r.seen, a.id) /\ w.email = a.email
       \/ \E b \in r.prune : b.id = a.id /\ b.email = a.email

\* What a run knows that started from an unambiguous matching.
Knows(r, p) ==
  /\ r.pc = "inbounds" => Ready(r, p)
  /\ r.pc \in {"fetched", "stored", "rows", "clients"} => InboundsMirror(r, p)
  /\ r.pc \in {"fetched", "stored", "rows"} => SameEntries(p, r.seen) /\ SameEntries(r.seen, p)
  /\ r.pc = "clients" => Underway(r, p)

\* The rows a run knows have the enable and the settings of the panel's.
RowsAgree(rows, p) ==
  \A x \in rows, y \in p.rows : x.email = y.email => x.enable = y.enable /\ x.own = y.own

\* What a run knows that nobody's switches disturb.
Calm(r, p) ==
  /\ r.pc \notin {"synced", "refresh", "rebuild", "import"} => Coherent(p)
  /\ r.pc \in {"fetched", "stored", "rows", "clients"} =>
       \A a \in r.seen.clients, x \in p.rows : a.email = x.email => a.enable = x.enable
  /\ r.pc \in {"fetched", "stored", "rows"} => \A a \in r.seen.clients : HasRow(p, a.email)
  /\ r.pc = "clients" =>
       /\ \A a \in r.seen.clients : \E x \in r.rows : x.email = a.email
       /\ RowsAgree(r.rows \cup r.created, p)
       /\ RowsAgree({y.client : y \in r.write}, p)

\* What a run has in hand comes from its plan and its listing.
Tidy(r) ==
  /\ Distinct(r.seen)
  /\ r.pc = "list" => r.flip = {}
  /\ r.pc \in {"list", "inbounds", "fetched", "stored", "rows"} =>
       r.write = {} /\ r.created = {}
  /\ \A x, y \in r.write : x = y
  /\ r.pc = "clients" =>
       /\ r.push \subseteq PushList(r.plan, r.seen)
       /\ \A y \in r.write : \E w \in r.plan.clients, i \in r.seen.inbounds :
            /\ w.key = i.key /\ i.id = y.id
            /\ w.email = y.client.email /\ w.cred = y.client.cred
       /\ \A c \in r.created : \E w \in r.plan.clients : w.email = c.email /\ w.own = c.own

Told(r, p) == (r.clear => Knows(r, p)) /\ (r.calm => Calm(r, p))

MirrorInv ==
  /\ WellFormed(target)
  /\ Distinct(cache)
  /\ \A s \in Syncers : Tidy(run[s])
  /\ \A s \in Syncers : Active(run[s]) /\ run[s].alone => Told(run[s], target)

\* No row that stays changes its enable or its settings.
RowsKept(p, q) == RowsAgree(p.rows, q)

\* The invariant after a step, and what the step left alone.
Advanced(s) == MirrorInv' /\ (run[s].calm /\ run[s].alone => RowsKept(target, target'))

\* The panel may lose rows, and does not change any.
LEMMA FewerRows ==
  ASSUME NEW p, NEW q, WellFormed(p), q.rows \subseteq p.rows
  PROVE  /\ RowsKept(p, q)
         /\ \A x \in q.rows, y \in p.rows : x.email = y.email => x = y
BY DEF WellFormed, RowsKept, RowsAgree

\* Run s goes on to next, and the step leaves a panel that next may be told.
LEMMA MoveStoresMirrors ==
  ASSUME Inv, MirrorInv, NEW s \in Syncers, Active(run[s]), NEW next,
         run' = [run EXCEPT ![s] = next], WellFormed(target'), Tidy(next), Distinct(cache'),
         Active(next) => next.alone = run[s].alone,
         run[s].alone /\ Active(next) => Told(next, target'),
         run[s].alone /\ run[s].calm => RowsKept(target, target')
  PROVE  Advanced(s)
<1>1. run'[s] = next /\ \A u \in Syncers \ {s} : run'[u] = run[u]
  BY DEF Inv, TypeOK
<1>2. \A u \in Syncers : Tidy(run'[u])
  BY <1>1 DEF MirrorInv
<1>3. ASSUME NEW u \in Syncers, Active(run'[u]), run'[u].alone
      PROVE  Told(run'[u], target')
  <2>1. CASE u = s
    BY <1>1, <1>3, <2>1
  <2>2. CASE u # s
    BY <1>1, <1>3, <2>2 DEF Inv, AloneInv
  <2> QED BY <2>1, <2>2
<1> QED BY <1>2, <1>3 DEF MirrorInv, Advanced

\* The same when the stored listing stays.
LEMMA MoveMirrors ==
  ASSUME Inv, MirrorInv, NEW s \in Syncers, Active(run[s]), NEW next, cache' = cache,
         run' = [run EXCEPT ![s] = next], WellFormed(target'), Tidy(next),
         Active(next) => next.alone = run[s].alone,
         run[s].alone /\ Active(next) => Told(next, target'),
         run[s].alone /\ run[s].calm => RowsKept(target, target')
  PROVE  Advanced(s)
<1>1. Distinct(cache')
  BY DEF MirrorInv
<1> QED BY <1>1, MoveStoresMirrors

\* A run that has ended knows nothing.
LEMMA EndedTidy ==
  ASSUME NEW how \in {"done", "failed"} PROVE Tidy(Ended(how)) /\ ~Active(Ended(how))
<1>1. /\ Ended(how).pc = how /\ Ended(how).seen = [inbounds |-> {}, clients |-> {}]
      /\ Ended(how).write = {}
  BY DEF Ended, Idle
<1> QED BY <1>1 DEF Tidy, Distinct, Active

\* A run that stops leaves a panel with the settings it had.
LEMMA FailMirrors ==
  ASSUME Inv, MirrorInv, NEW s \in Syncers, Active(run[s]), cache' = cache,
         run' = [run EXCEPT ![s] = Ended("failed")], WellFormed(target'),
         run[s].alone /\ run[s].calm => RowsKept(target, target')
  PROVE  Advanced(s)
BY EndedTidy, MoveMirrors

\* A read that fails leaves the panel alone.
LEMMA ReadFailsMirrors ==
  ASSUME Inv, MirrorInv, NEW s \in Syncers, Active(run[s]), NEW empty, ReadFails(s, empty)
  PROVE  Advanced(s)
<1>1. run' = [run EXCEPT ![s] = Ended("failed")] /\ target' = target /\ cache' = cache
  BY DEF ReadFails
<1>2. WellFormed(target) /\ RowsKept(target, target)
  BY FewerRows DEF MirrorInv
<1> QED BY <1>1, <1>2, FailMirrors

\* An HTTP write advances the run if every panel it can leave behind does.
LEMMA CallMirrors ==
  ASSUME Inv, MirrorInv, NEW s \in Syncers, Active(run[s]), NEW results, NEW next,
         Tidy(next), next.alone = run[s].alone,
         \A q \in results :
           /\ WellFormed(q)
           /\ run[s].alone => Told(next, q) /\ (run[s].calm => RowsKept(target, q)),
         Call(s, results, next)
  PROVE  Advanced(s)
<1>0. cache' = cache
  BY DEF Call
<1>1. WellFormed(target) /\ RowsKept(target, target)
  BY FewerRows DEF MirrorInv
<1>2. CASE target' \in results /\ run' = [run EXCEPT ![s] = next]
  BY <1>0, <1>2, MoveMirrors
<1>3. CASE /\ target' \in results \cup {target}
           /\ run' = [run EXCEPT ![s] = Ended("failed")]
  <2>1. WellFormed(target') /\ (run[s].alone /\ run[s].calm => RowsKept(target, target'))
    BY <1>1, <1>3
  <2> QED BY <1>0, <1>3, <2>1, FailMirrors
<1> QED BY <1>2, <1>3 DEF Call

\* The types and the knowledge that the steps below start from.
LEMMA RunFacts ==
  ASSUME Inv, MirrorInv, NEW s \in Syncers
  PROVE  /\ run[s] \in RunState /\ target \in PanelState /\ Sound(target)
         /\ LocalInv(run[s]) /\ Tidy(run[s])
         /\ WellFormed(target) /\ Distinct(target) /\ Registered(target)
         /\ Active(run[s]) /\ run[s].alone => Told(run[s], target)
BY WellFormedParts DEF Inv, TypeOK, MirrorInv

\* A main inbound matches at most one listed inbound.
LEMMA MatchOne ==
  ASSUME NEW seen, Distinct(seen), NEW m, NEW i \in Match(seen, m), NEW j \in Match(seen, m)
  PROVE  i = j
<1>1. i \in seen.inbounds /\ j \in seen.inbounds /\ (i.key = j.key \/ i.port = j.port)
  BY DEF Match, ByKey, ByPort
<1> QED BY <1>1 DEF Distinct

\* A panel that loses rows and entries stays coherent.
LEMMA CoherentLess ==
  ASSUME NEW p, NEW q, Coherent(p), q.clients \subseteq p.clients, q.rows \subseteq p.rows
  PROVE  Coherent(q)
BY DEF Coherent

\* In the inbound loops a calm run only knows that the panel is coherent.
LEMMA InboundCalm ==
  ASSUME NEW r, NEW next, NEW p, NEW q, Told(r, p), r.pc \in {"list", "inbounds"},
         next.pc = "inbounds", next.calm = r.calm,
         q.clients \subseteq p.clients, q.rows \subseteq p.rows,
         next.clear => Ready(next, q)
  PROVE  Told(next, q)
<1>1. next.calm => Calm(next, q)
  BY CoherentLess DEF Told, Calm
<1> QED BY <1>1 DEF Told, Knows

\* ListInbounds: what is not outdated is made, what is not stale is matched.
LEMMA ListInboundsMirrors ==
  ASSUME Inv, MirrorInv, NEW s \in Syncers, ListInbounds(s) PROVE Advanced(s)
<1> DEFINE r == run[s]
           seen == [inbounds |-> target.inbounds, clients |-> {}]
           next == [r EXCEPT !.pc = "inbounds", !.seen = seen,
                             !.todo = Outdated(r.plan, seen),
                             !.stale = StaleInbounds(r.plan, seen),
                             !.clear = Unambiguous(r.plan, seen)]
<1>1. /\ r \in RunState /\ target \in PanelState /\ Tidy(r)
      /\ WellFormed(target) /\ Distinct(target)
      /\ Active(r) /\ r.alone => Told(r, target)
  BY RunFacts
<1>2. r.pc = "list" /\ Active(r)
  BY DEF ListInbounds, Active
<1>3. CASE run' = [run EXCEPT ![s] = next] /\ UNCHANGED <<main, cache, target, left>>
  <2>1. /\ next.pc = "inbounds" /\ next.plan = r.plan /\ next.seen = seen
        /\ next.todo = Outdated(r.plan, seen)
        /\ next.stale = StaleInbounds(r.plan, seen)
        /\ next.clear = Unambiguous(r.plan, seen) /\ next.alone = r.alone
        /\ next.calm = r.calm /\ next.flip = r.flip
        /\ next.write = r.write /\ next.created = r.created
    BY <1>1 DEF RunState
  <2>2. Distinct(seen)
    BY <1>1 DEF Distinct
  <2>3. seen.inbounds = target.inbounds
    OBVIOUS
  <2> HIDE DEF seen, next
  <2>4. r.flip = {} /\ r.write = {} /\ r.created = {}
    BY <1>1, <1>2 DEF Tidy
  <2>5. Tidy(next)
    BY <2>1, <2>2, <2>4 DEF Tidy
  <2>6. \A m \in r.plan.inbounds \ next.todo : Made(next, m, target)
    <3> SUFFICES ASSUME NEW m \in r.plan.inbounds \ Outdated(r.plan, seen)
                 PROVE  Made(next, m, target)
      BY <2>1
    <3>1. PICK i \in Match(seen, m) : Equivalent(m, i)
      BY DEF Outdated
    <3>2. i \in target.inbounds
      BY <2>3, <3>1, MatchListed
    <3> QED BY <2>1, <3>1, <3>2 DEF Made, Equivalent
  <2>7. \A m \in next.todo : \A i \in Match(seen, m), j \in target.inbounds :
          j.id = i.id => j.enable = i.enable
    BY <1>1, <2>3, MatchListed DEF Distinct
  <2>8. ASSUME NEW i \in target.inbounds
        PROVE  i \in next.stale \/ \E m \in r.plan.inbounds : i \in Match(seen, m)
    <3>1. CASE i.key \in MainKeys(r.plan)
      <4>1. PICK m \in r.plan.inbounds : m.key = i.key
        BY <3>1 DEF MainKeys
      <4>2. i \in Match(seen, m)
        BY <2>3, <4>1 DEF Match, ByKey
      <4> QED BY <4>2
    <3>2. CASE i.id \in UsedIds(r.plan, seen)
      <4>1. PICK j \in seen.inbounds :
              j.id = i.id /\ \E m \in r.plan.inbounds : j \in Match(seen, m)
        BY <3>2 DEF UsedIds
      <4> QED BY <1>1, <2>3, <4>1 DEF Distinct
    <3> QED BY <2>1, <2>3, <3>1, <3>2 DEF StaleInbounds
  <2>9. Ready(next, target)
    <3>1. \A i \in seen.inbounds, j \in target.inbounds : j.id = i.id =>
            i \in next.stale \/ \E m \in r.plan.inbounds : i \in Match(seen, m)
      BY <2>3, <2>8
    <3>2. \A j \in target.inbounds : HasInbound(seen, j.id)
      BY <2>3 DEF HasInbound
    <3> QED BY <2>1, <2>4, <2>6, <2>7, <3>1, <3>2 DEF Ready
  <2>10. r.alone => Told(next, target)
    BY <1>1, <1>2, <2>1, <2>9, InboundCalm
  <2>11. RowsKept(target, target)
    BY <1>1, FewerRows
  <2> QED BY <1>1, <1>2, <1>3, <2>1, <2>5, <2>10, <2>11, MoveMirrors
<1>4. CASE ReadFails(s, target.inbounds = {})
  BY <1>2, <1>4, ReadFailsMirrors
<1> QED BY <1>3, <1>4 DEF ListInbounds

\* AddMissing: the new inbound is the main panel's.
LEMMA AddMissingMirrors ==
  ASSUME Inv, MirrorInv, NEW s \in Syncers, AddMissing(s) PROVE Advanced(s)
<1> DEFINE r == run[s]
<1>1. /\ r \in RunState /\ target \in PanelState /\ LocalInv(r) /\ Tidy(r)
      /\ WellFormed(target) /\ Distinct(target) /\ RemoteInv(r, target)
      /\ Active(r) /\ r.alone => Told(r, target)
  BY RunFacts, RunTypes
<1>2. PICK m \in r.todo : /\ r.pc = "inbounds" /\ Match(r.seen, m) = {}
                          /\ Call(s, AddInbound(target, m), [r EXCEPT !.todo = @ \ {m}])
  BY DEF AddMissing
<1> DEFINE next == [r EXCEPT !.todo = @ \ {m}]
<1>3. /\ next.alone = r.alone /\ next.pc = "inbounds" /\ next.calm = r.calm
      /\ next.plan = r.plan /\ next.seen = r.seen /\ next.clear = r.clear
      /\ next.stale = r.stale /\ next.todo = r.todo \ {m} /\ next.flip = r.flip
      /\ next.write = r.write /\ next.created = r.created
  BY <1>1, <1>2 DEF RunState
<1>4. Call(s, AddInbound(target, m), next)
  BY <1>2
<1> HIDE DEF next
<1>5. Tidy(next)
  BY <1>1, <1>2, <1>3 DEF Tidy
<1>6. Active(r) /\ m \in r.plan.inbounds /\ m \in MainInbound
  BY <1>1, <1>2 DEF Active, LocalInv, RunState
<1>7. ASSUME NEW q \in AddInbound(target, m)
      PROVE  /\ WellFormed(q)
             /\ r.alone => Told(next, q) /\ (r.calm => RowsKept(target, q))
  <2>1. /\ WellFormed(q) /\ q.clients = target.clients /\ q.rows = target.rows
    BY <1>1, <1>6, AddInboundMakes DEF MainInbound
  <2>2. PICK j \in Inbound :
              /\ q.inbounds = target.inbounds \cup {j}
              /\ j.id = target.next /\ j.key = m.key /\ j.port = m.port
              /\ j.conf = m.conf /\ j.enable = m.enable
    BY <1>1, <1>6, AddInboundMakes DEF MainInbound
  <2>3. ASSUME r.alone, r.clear PROVE Ready(next, q)
    <3>1. Ready(r, target) /\ InboundsInv(r, target)
      BY <1>1, <1>2, <1>6, <2>3 DEF Told, Knows, RemoteInv
    <3>2. ~HasInbound(r.seen, j.id)
      <4>1. \A i \in r.seen.inbounds : i.id \in Nat /\ i.id < target.next
        BY <1>1, <1>2, <3>1, IdsAssumption DEF RunState, Listing, Inbound, InboundsInv
      <4>2. target.next \in Nat
        BY <1>1 DEF PanelState
      <4> QED BY <2>2, <4>1, <4>2 DEF HasInbound
    <3>3. Made(next, m, q)
      BY <1>2, <1>3, <2>2, <3>2 DEF Made
    <3>4. \A n \in r.plan.inbounds \ next.todo : Made(next, n, q)
      <4> SUFFICES ASSUME NEW n \in r.plan.inbounds \ r.todo PROVE Made(next, n, q)
        BY <1>3, <3>3
      <4>1. Made(r, n, target)
        BY <3>1 DEF Ready
      <4>2. target.inbounds \subseteq q.inbounds
        BY <2>2
      <4> QED BY <1>3, <4>1, <4>2 DEF Made
    <3>5. \A n \in next.todo : \A i \in Match(r.seen, n), k \in q.inbounds :
            k.id = i.id => k.enable = i.enable
      BY <1>3, <2>2, <3>1, <3>2, MatchListed DEF Ready, HasInbound
    <3>6. \A i \in r.seen.inbounds, k \in q.inbounds : k.id = i.id =>
            i \in r.stale \/ \E n \in r.plan.inbounds : i \in Match(r.seen, n)
      BY <2>2, <3>1, <3>2 DEF Ready, HasInbound
    <3>7. \A k \in q.inbounds : ~HasInbound(r.seen, k.id) =>
            \E n \in r.plan.inbounds \ next.todo : Match(r.seen, n) = {} /\ k.key = n.key
      <4>1. /\ m \in r.plan.inbounds \ next.todo
            /\ r.plan.inbounds \ r.todo \subseteq r.plan.inbounds \ next.todo
        BY <1>3, <1>6
      <4> QED BY <1>2, <2>2, <3>1, <4>1 DEF Ready
    <3>8. \A f \in r.flip : \E n \in r.plan.inbounds \ next.todo : \E i \in Match(r.seen, n) :
            i.id = f.id /\ n.enable = f.enable
      BY <1>3, <3>1 DEF Ready
    <3>9. \A f, g \in r.flip : f = g
      BY <3>1 DEF Ready
    <3> QED BY <1>3, <3>4, <3>5, <3>6, <3>7, <3>8, <3>9 DEF Ready
  <2>4. r.alone => Told(next, q)
    BY <1>1, <1>2, <1>3, <1>6, <2>1, <2>3, InboundCalm
  <2> QED BY <1>1, <2>1, <2>4, FewerRows
<1> QED BY <1>3, <1>4, <1>5, <1>6, <1>7, CallMirrors

\* UpdateOutdated: the match becomes what the main panel has, but for its switch, and
\* then the run is about to flip that.
LEMMA UpdateOutdatedMirrors ==
  ASSUME Inv, MirrorInv, NEW s \in Syncers, UpdateOutdated(s) PROVE Advanced(s)
<1> DEFINE r == run[s]
<1>1. /\ r \in RunState /\ target \in PanelState /\ LocalInv(r) /\ Tidy(r)
      /\ WellFormed(target) /\ Distinct(target) /\ Sound(target)
      /\ Active(r) /\ r.alone => Told(r, target)
  BY RunFacts
<1> DEFINE flips(m, i) == IF m.enable # i.enable
                          THEN {[id |-> i.id, enable |-> m.enable]} ELSE {}
           after(m, i) == [r EXCEPT !.todo = @ \ {m}, !.flip = flips(m, i)]
<1>2. PICK m \in r.todo : \E i \in Match(r.seen, m) :
        /\ r.pc = "inbounds" /\ r.flip = {}
        /\ Call(s, UpdateInbound(target, i.id, m), after(m, i))
  BY DEF UpdateOutdated
<1>3. PICK i \in Match(r.seen, m) :
        /\ r.pc = "inbounds" /\ r.flip = {}
        /\ Call(s, UpdateInbound(target, i.id, m), after(m, i))
  BY <1>2
<1> DEFINE next == after(m, i)
<1> HIDE DEF flips
<1>4. /\ i \in r.seen.inbounds /\ i \in Inbound /\ i.id \in Ids
      /\ m \in MainInbound /\ m \in r.plan.inbounds
  BY <1>1, <1>3, MatchListed DEF RunState, Listing, LocalInv, Inbound
<1>5. /\ next.alone = r.alone /\ next.pc = "inbounds" /\ next.calm = r.calm
      /\ next.plan = r.plan /\ next.seen = r.seen /\ next.clear = r.clear
      /\ next.stale = r.stale /\ next.todo = r.todo \ {m} /\ next.flip = flips(m, i)
      /\ next.write = r.write /\ next.created = r.created
  BY <1>1, <1>3 DEF RunState
<1>6. Call(s, UpdateInbound(target, i.id, m), next)
  BY <1>3
<1> HIDE DEF next
<1>7. Tidy(next)
  BY <1>1, <1>3, <1>5 DEF Tidy
<1>8. Active(r)
  BY <1>3 DEF Active
<1>9. ASSUME NEW q \in UpdateInbound(target, i.id, m)
      PROVE  /\ WellFormed(q)
             /\ r.alone => Told(next, q) /\ (r.calm => RowsKept(target, q))
  <2>1. /\ WellFormed(q) /\ q.clients = target.clients /\ q.rows = target.rows
        /\ \A j \in q.inbounds : j.id # i.id => j \in target.inbounds
    BY <1>1, <1>4, UpdateInboundMakes DEF MainInbound
  <2>2. PICK k \in target.inbounds, j \in q.inbounds :
              /\ k.id = i.id /\ j.id = i.id /\ j.enable = k.enable
              /\ j.key = m.key /\ j.port = m.port /\ j.conf = m.conf
    BY <1>1, <1>4, UpdateInboundMakes DEF MainInbound
  <2>3. \A x \in target.inbounds : x.id # i.id => x \in q.inbounds
    BY <1>1, <1>4, UpdateInboundKeeps DEF MainInbound
  <2>4. \A x \in q.inbounds : x.id = i.id => x = j
    <3>1. Distinct(q)
      BY <2>1, WellFormedParts
    <3> QED BY <2>2, <3>1 DEF Distinct
  <2>5. ASSUME r.alone, r.clear PROVE Ready(next, q)
    <3>1. Ready(r, target)
      BY <1>1, <1>3, <1>8, <2>5 DEF Told, Knows
    <3>2. \A n \in r.plan.inbounds : n # m => \A x \in Match(r.seen, n) : x.id # i.id
      <4>1. \A n \in r.plan.inbounds : n # m => Match(r.seen, m) \cap Match(r.seen, n) = {}
        BY <1>1, <1>3, <1>4, <2>5 DEF LocalInv, Unambiguous
      <4> QED BY <1>1, <1>3, <1>4, <4>1, MatchListed DEF Tidy, Distinct
    <3>3. Made(next, m, q)
      <4>1. k.enable = i.enable
        BY <1>3, <2>2, <3>1 DEF Ready
      <4>2. j.enable = m.enable \/ [id |-> j.id, enable |-> m.enable] \in next.flip
        BY <1>5, <2>2, <4>1 DEF flips
      <4> QED BY <1>3, <1>5, <2>2, <4>2 DEF Made
    <3>4. ASSUME NEW n \in r.plan.inbounds \ r.todo PROVE Made(next, n, q)
      <4>1. PICK x \in target.inbounds :
              /\ x.key = n.key /\ x.port = n.port /\ x.conf = n.conf /\ x.enable = n.enable
              /\ IF Match(r.seen, n) = {} THEN ~HasInbound(r.seen, x.id)
                 ELSE \E y \in Match(r.seen, n) : y.id = x.id
        BY <1>3, <3>1 DEF Ready, Made
      <4>2. x.id # i.id
        BY <1>3, <1>4, <3>2, <4>1 DEF HasInbound
      <4> QED BY <1>5, <2>3, <4>1, <4>2 DEF Made
    <3>5. \A n \in r.plan.inbounds \ next.todo : Made(next, n, q)
      BY <1>5, <3>3, <3>4
    <3>6. \A n \in next.todo : \A x \in Match(r.seen, n), y \in q.inbounds :
            y.id = x.id => y.enable = x.enable
      <4>1. \A n \in next.todo : n \in r.todo /\ n # m /\ n \in r.plan.inbounds
        BY <1>1, <1>3, <1>5 DEF LocalInv, WellListed
      <4> QED BY <2>1, <3>1, <3>2, <4>1 DEF Ready
    <3>7. \A x \in r.seen.inbounds, y \in q.inbounds : y.id = x.id =>
            x \in r.stale \/ \E n \in r.plan.inbounds : x \in Match(r.seen, n)
      BY <2>1, <2>2, <3>1 DEF Ready
    <3>8. \A y \in q.inbounds : ~HasInbound(r.seen, y.id) =>
            \E n \in r.plan.inbounds \ next.todo : Match(r.seen, n) = {} /\ y.key = n.key
      <4>1. HasInbound(r.seen, i.id)
        BY <1>4 DEF HasInbound
      <4>2. r.plan.inbounds \ r.todo \subseteq r.plan.inbounds \ next.todo
        BY <1>5
      <4> QED BY <2>1, <3>1, <4>1, <4>2 DEF Ready
    <3>9. \A f \in next.flip : f.id = i.id /\ f.enable = m.enable
      BY <1>5 DEF flips
    <3>10. \A f, g \in next.flip : f = g
      BY <1>5 DEF flips
    <3>11. \A f \in next.flip : \E n \in r.plan.inbounds \ next.todo :
             \E x \in Match(r.seen, n) : x.id = f.id /\ n.enable = f.enable
      BY <1>3, <1>4, <1>5, <3>9
    <3> QED BY <1>5, <3>5, <3>6, <3>7, <3>8, <3>10, <3>11 DEF Ready
  <2>6. r.alone => Told(next, q)
    BY <1>1, <1>3, <1>5, <1>8, <2>1, <2>5, InboundCalm
  <2> QED BY <1>1, <2>1, <2>6, FewerRows
<1> QED BY <1>5, <1>6, <1>7, <1>8, <1>9, CallMirrors

\* FlipEnable: the switch is set where the update just was.
LEMMA FlipEnableMirrors ==
  ASSUME Inv, MirrorInv, NEW s \in Syncers, FlipEnable(s) PROVE Advanced(s)
<1> DEFINE r == run[s]
<1>1. /\ r \in RunState /\ target \in PanelState /\ LocalInv(r) /\ Tidy(r)
      /\ WellFormed(target) /\ Distinct(target)
      /\ Active(r) /\ r.alone => Told(r, target)
  BY RunFacts
<1> DEFINE next == [r EXCEPT !.flip = {}]
<1>2. PICK f \in r.flip : /\ r.pc = "inbounds"
                          /\ Call(s, SetInboundEnable(target, f.id, f.enable), next)
  BY DEF FlipEnable
<1>3. /\ next.alone = r.alone /\ next.pc = "inbounds" /\ next.calm = r.calm
      /\ next.plan = r.plan /\ next.seen = r.seen /\ next.clear = r.clear
      /\ next.stale = r.stale /\ next.todo = r.todo /\ next.flip = {}
      /\ next.write = r.write /\ next.created = r.created
  BY <1>1, <1>2 DEF RunState
<1> HIDE DEF next
<1>4. Tidy(next)
  BY <1>1, <1>2, <1>3 DEF Tidy
<1>5. Active(r) /\ f.id \in Ids /\ f.enable \in BOOLEAN
  BY <1>1, <1>2 DEF Active, RunState, Flip
<1>6. ASSUME NEW q \in SetInboundEnable(target, f.id, f.enable)
      PROVE  /\ WellFormed(q)
             /\ r.alone => Told(next, q) /\ (r.calm => RowsKept(target, q))
  <2>1. /\ WellFormed(q) /\ q.clients = target.clients /\ q.rows = target.rows
        /\ \A x \in target.inbounds : \E y \in q.inbounds :
              /\ y.id = x.id /\ y.key = x.key /\ y.port = x.port /\ y.conf = x.conf
              /\ y.enable = IF x.id = f.id THEN f.enable ELSE x.enable
        /\ \A y \in q.inbounds : \E x \in target.inbounds : x.id = y.id /\ x.key = y.key
    BY <1>1, <1>5, SetInboundEnableMakes
  <2>2. Distinct(q)
    BY <2>1, WellFormedParts
  <2>3. ASSUME r.alone, r.clear PROVE Ready(next, q)
    <3>1. Ready(r, target)
      BY <1>1, <1>2, <1>5, <2>3 DEF Told, Knows
    <3>2. PICK m \in r.plan.inbounds \ r.todo : \E i \in Match(r.seen, m) :
            i.id = f.id /\ m.enable = f.enable
      BY <1>2, <3>1 DEF Ready
    <3>3. PICK i \in Match(r.seen, m) : i.id = f.id
      BY <3>2
    <3>4. i \in r.seen.inbounds
      BY <3>3, MatchListed
    <3>5. \A n \in r.plan.inbounds : n # m => \A x \in Match(r.seen, n) : x.id # f.id
      <4>1. \A n \in r.plan.inbounds : n # m => Match(r.seen, m) \cap Match(r.seen, n) = {}
        BY <1>1, <1>2, <2>3, <3>2 DEF LocalInv, Unambiguous
      <4> QED BY <1>1, <3>3, <3>4, <4>1, MatchListed DEF Tidy, Distinct
    <3>6. ASSUME NEW n \in r.plan.inbounds \ r.todo PROVE Made(next, n, q)
      <4>1. PICK x \in target.inbounds :
              /\ x.key = n.key /\ x.port = n.port /\ x.conf = n.conf
              /\ x.enable = n.enable \/ [id |-> x.id, enable |-> n.enable] \in r.flip
              /\ IF Match(r.seen, n) = {} THEN ~HasInbound(r.seen, x.id)
                 ELSE \E y \in Match(r.seen, n) : y.id = x.id
        BY <3>1 DEF Ready, Made
      <4>2. PICK y \in q.inbounds :
              /\ y.id = x.id /\ y.key = x.key /\ y.port = x.port /\ y.conf = x.conf
              /\ y.enable = IF x.id = f.id THEN f.enable ELSE x.enable
        BY <2>1
      <4>3. CASE x.id = f.id
        <5>1. n = m
          BY <3>3, <3>4, <3>5, <4>1, <4>3 DEF HasInbound
        <5> QED BY <1>3, <3>2, <4>1, <4>2, <4>3, <5>1 DEF Made
      <4>4. CASE x.id # f.id
        <5>1. \A g \in r.flip : g.id = f.id
          BY <1>2, <3>1 DEF Ready
        <5>2. x.enable = n.enable
          BY <4>1, <4>4, <5>1
        <5> QED BY <1>3, <4>1, <4>2, <4>4, <5>2 DEF Made
      <4> QED BY <4>3, <4>4
    <3>7. \A n \in r.todo : \A x \in Match(r.seen, n), y \in q.inbounds :
            y.id = x.id => y.enable = x.enable
      <4> SUFFICES ASSUME NEW n \in r.todo, NEW x \in Match(r.seen, n),
                          NEW y \in q.inbounds, y.id = x.id
                   PROVE  y.enable = x.enable
        OBVIOUS
      <4>1. n # m /\ n \in r.plan.inbounds
        BY <1>1, <1>2, <3>2 DEF LocalInv, WellListed
      <4>2. x.id # f.id
        BY <3>5, <4>1
      <4>3. PICK k \in target.inbounds : k.id = y.id
        BY <2>1
      <4>4. k.enable = x.enable
        BY <3>1, <4>3 DEF Ready
      <4>5. PICK z \in q.inbounds : z.id = k.id /\ z.enable = k.enable
        BY <2>1, <4>2, <4>3
      <4>6. z = y
        BY <2>2, <4>3, <4>5 DEF Distinct
      <4> QED BY <4>4, <4>5, <4>6
    <3>8. ASSUME NEW x \in r.seen.inbounds, NEW y \in q.inbounds, y.id = x.id
          PROVE  x \in r.stale \/ \E n \in r.plan.inbounds : x \in Match(r.seen, n)
      <4>1. PICK k \in target.inbounds : k.id = y.id
        BY <2>1
      <4> QED BY <3>1, <3>8, <4>1 DEF Ready
    <3>9. ASSUME NEW y \in q.inbounds, ~HasInbound(r.seen, y.id)
          PROVE  \E n \in r.plan.inbounds \ r.todo : Match(r.seen, n) = {} /\ y.key = n.key
      <4>1. PICK k \in target.inbounds : k.id = y.id /\ k.key = y.key
        BY <2>1
      <4>2. \E n \in r.plan.inbounds \ r.todo : Match(r.seen, n) = {} /\ k.key = n.key
        BY <3>1, <3>9, <4>1 DEF Ready
      <4> QED BY <4>1, <4>2
    <3> QED BY <1>3, <3>6, <3>7, <3>8, <3>9 DEF Ready
  <2>4. r.alone => Told(next, q)
    BY <1>1, <1>2, <1>3, <1>5, <2>1, <2>3, InboundCalm
  <2> QED BY <1>1, <2>1, <2>4, FewerRows
<1> QED BY <1>2, <1>3, <1>4, <1>5, <1>6, CallMirrors

\* DeleteStale: what was matched stays.
LEMMA DeleteStaleMirrors ==
  ASSUME Inv, MirrorInv, NEW s \in Syncers, DeleteStale(s) PROVE Advanced(s)
<1> DEFINE r == run[s]
<1>1. /\ r \in RunState /\ target \in PanelState /\ LocalInv(r) /\ Tidy(r)
      /\ WellFormed(target)
      /\ Active(r) /\ r.alone => Told(r, target)
  BY RunFacts
<1>2. PICK i \in r.stale :
        /\ r.pc = "inbounds" /\ r.todo = {} /\ r.flip = {}
        /\ Call(s, DeleteInbound(target, i.id), [r EXCEPT !.stale = @ \ {i}])
  BY DEF DeleteStale
<1> DEFINE next == [r EXCEPT !.stale = @ \ {i}]
<1>3. /\ next.alone = r.alone /\ next.pc = "inbounds" /\ next.calm = r.calm
      /\ next.plan = r.plan /\ next.seen = r.seen /\ next.clear = r.clear
      /\ next.stale = r.stale \ {i} /\ next.todo = r.todo /\ next.flip = r.flip
      /\ next.write = r.write /\ next.created = r.created
  BY <1>1, <1>2 DEF RunState
<1>4. Call(s, DeleteInbound(target, i.id), next)
  BY <1>2
<1> HIDE DEF next
<1>5. Tidy(next)
  BY <1>1, <1>2, <1>3 DEF Tidy
<1>6. /\ i \in r.seen.inbounds /\ i.id \in Ids /\ i.id \notin UsedIds(r.plan, r.seen)
  <2>1. i \in StaleInbounds(r.plan, r.seen)
    BY <1>1, <1>2 DEF LocalInv, WellListed
  <2>2. i \in Inbound
    BY <1>1, <1>2 DEF RunState
  <2> QED BY <2>1, <2>2 DEF StaleInbounds, Inbound
<1>7. Active(r)
  BY <1>2 DEF Active
<1>8. ASSUME NEW q \in DeleteInbound(target, i.id)
      PROVE  /\ WellFormed(q)
             /\ r.alone => Told(next, q) /\ (r.calm => RowsKept(target, q))
  <2>1. /\ WellFormed(q) /\ q.rows \subseteq target.rows
        /\ q.inbounds = {x \in target.inbounds : x.id # i.id}
        /\ q.clients = {a \in target.clients : a.id # i.id}
    BY <1>1, <1>6, DeleteInboundMakes
  <2>2. ASSUME r.alone, r.clear PROVE Ready(next, q)
    <3>1. Ready(r, target)
      BY <1>1, <1>2, <1>7, <2>2 DEF Told, Knows
    <3>2. ASSUME NEW n \in r.plan.inbounds PROVE Made(next, n, q)
      <4>1. PICK x \in target.inbounds :
              /\ x.key = n.key /\ x.port = n.port /\ x.conf = n.conf /\ x.enable = n.enable
              /\ IF Match(r.seen, n) = {} THEN ~HasInbound(r.seen, x.id)
                 ELSE \E y \in Match(r.seen, n) : y.id = x.id
        BY <1>2, <3>1 DEF Ready, Made
      <4>2. x.id # i.id
        BY <1>6, <4>1, MatchListed DEF UsedIds, HasInbound
      <4> QED BY <1>3, <2>1, <4>1, <4>2 DEF Made
    <3>3. \A x \in r.seen.inbounds, y \in q.inbounds : y.id = x.id =>
            x \in next.stale \/ \E n \in r.plan.inbounds : x \in Match(r.seen, n)
      BY <1>3, <2>1, <3>1 DEF Ready
    <3>4. \A y \in q.inbounds : ~HasInbound(r.seen, y.id) =>
            \E n \in r.plan.inbounds \ r.todo : Match(r.seen, n) = {} /\ y.key = n.key
      BY <2>1, <3>1 DEF Ready
    <3> QED BY <1>2, <1>3, <3>2, <3>3, <3>4 DEF Ready
  <2>3. q.clients \subseteq target.clients
    BY <2>1
  <2>4. r.alone => Told(next, q)
    BY <1>1, <1>2, <1>3, <1>7, <2>1, <2>2, <2>3, InboundCalm
  <2> QED BY <1>1, <2>1, <2>4, FewerRows
<1> QED BY <1>3, <1>4, <1>5, <1>7, <1>8, CallMirrors

\* Refetch: with nothing left to do the panel has the plan's inbounds.
LEMMA RefetchMirrors ==
  ASSUME Inv, MirrorInv, NEW s \in Syncers, Refetch(s) PROVE Advanced(s)
<1> DEFINE r == run[s]
           seen == [inbounds |-> target.inbounds, clients |-> target.clients]
           next == [r EXCEPT !.pc = "fetched", !.seen = seen]
<1>1. /\ r \in RunState /\ target \in PanelState /\ Tidy(r)
      /\ WellFormed(target) /\ Distinct(target) /\ Registered(target)
      /\ Active(r) /\ r.alone => Told(r, target)
  BY RunFacts
<1>2. r.pc = "inbounds" /\ r.todo = {} /\ r.flip = {} /\ r.stale = {} /\ Active(r)
  BY DEF Refetch, Active
<1>3. CASE run' = [run EXCEPT ![s] = next] /\ UNCHANGED <<main, cache, target, left>>
  <2>1. /\ next.pc = "fetched" /\ next.plan = r.plan /\ next.seen = seen
        /\ next.clear = r.clear /\ next.alone = r.alone /\ next.calm = r.calm
        /\ next.write = r.write /\ next.created = r.created
    BY <1>1 DEF RunState
  <2>2. /\ Distinct(seen) /\ seen.inbounds = target.inbounds
        /\ seen.clients = target.clients
    BY <1>1 DEF Distinct
  <2> HIDE DEF seen, next
  <2>3. Tidy(next)
    BY <1>1, <1>2, <2>1, <2>2 DEF Tidy
  <2>4. ASSUME r.alone, r.clear PROVE InboundsMirror(next, target)
    <3>1. Ready(r, target)
      BY <1>1, <1>2, <2>4 DEF Told, Knows
    <3>2. \A m \in r.plan.inbounds, j \in target.inbounds :
            /\ j.key = m.key /\ j.port = m.port /\ j.conf = m.conf
            /\ j.enable = m.enable
            => As(j) = m
      BY <1>1 DEF As, RunState, Plan, MainInbound
    <3>3. ASSUME NEW m \in r.plan.inbounds
          PROVE  \E j \in target.inbounds :
                   /\ As(j) = m /\ j.key = m.key
                   /\ \A i \in Match(r.seen, m) : i.id = j.id
      <4>1. Made(r, m, target)
        BY <1>2, <3>1 DEF Ready
      <4>2. PICK j \in target.inbounds :
              /\ j.key = m.key /\ j.port = m.port /\ j.conf = m.conf /\ j.enable = m.enable
              /\ IF Match(r.seen, m) = {} THEN ~HasInbound(r.seen, j.id)
                 ELSE \E i \in Match(r.seen, m) : i.id = j.id
        BY <1>2, <4>1 DEF Made
      <4>3. \A i \in Match(r.seen, m) : i.id = j.id
        BY <1>1, <4>2, MatchOne DEF Tidy
      <4> QED BY <3>2, <4>2, <4>3
    <3>4. ASSUME NEW j \in target.inbounds PROVE As(j) \in r.plan.inbounds
      <4>1. CASE HasInbound(r.seen, j.id)
        <5>1. PICK i \in r.seen.inbounds : i.id = j.id
          BY <4>1 DEF HasInbound
        <5>2. PICK m \in r.plan.inbounds : i \in Match(r.seen, m)
          BY <1>2, <3>1, <5>1 DEF Ready
        <5> QED BY <1>1, <3>3, <5>1, <5>2 DEF Distinct
      <4>2. CASE ~HasInbound(r.seen, j.id)
        <5>1. PICK m \in r.plan.inbounds : j.key = m.key
          BY <3>1, <4>2 DEF Ready
        <5> QED BY <1>1, <3>3, <5>1 DEF Distinct
      <4> QED BY <4>1, <4>2
    <3>5. {As(i) : i \in target.inbounds} = r.plan.inbounds
      BY <3>3, <3>4
    <3> QED BY <2>1, <2>2, <3>5 DEF InboundsMirror
  <2>5. SameEntries(target, seen) /\ SameEntries(seen, target)
    BY <2>2 DEF SameEntries
  <2>6. ASSUME r.alone, r.calm PROVE Calm(next, target)
    <3>1. Coherent(target)
      BY <1>1, <1>2, <2>6 DEF Told, Calm
    <3> QED BY <1>1, <2>1, <2>2, <3>1 DEF Calm, Coherent, Registered
  <2>7. r.alone => Told(next, target)
    BY <2>1, <2>4, <2>5, <2>6 DEF Told, Knows
  <2>8. RowsKept(target, target)
    BY <1>1, FewerRows
  <2> QED BY <1>1, <1>2, <1>3, <2>1, <2>3, <2>7, <2>8, MoveMirrors
<1>4. CASE ReadFails(s, target.inbounds = {})
  BY <1>2, <1>4, ReadFailsMirrors
<1> QED BY <1>3, <1>4 DEF Refetch

\* What a run knows after its second listing stays true while it only goes on to the
\* client phase with that listing.
LEMMA ListingTold ==
  ASSUME NEW r, NEW next, NEW p, Told(r, p), Tidy(r),
         r.pc \in {"fetched", "stored"}, next.pc \in {"stored", "rows"},
         next.plan = r.plan, next.seen = r.seen, next.clear = r.clear, next.calm = r.calm,
         next.write = r.write, next.created = r.created
  PROVE  Told(next, p) /\ Tidy(next)
<1>1. Tidy(next)
  BY DEF Tidy
<1>2. Knows(r, p) => Knows(next, p)
  BY DEF Knows, InboundsMirror
<1>3. Calm(r, p) => Calm(next, p)
  BY DEF Calm
<1> QED BY <1>1, <1>2, <1>3 DEF Told

\* EnsureServerInbounds stores the listing the run has in hand.
LEMMA EnsureServerInboundsMirrors ==
  ASSUME Inv, MirrorInv, NEW s \in Syncers, EnsureServerInbounds(s) PROVE Advanced(s)
<1> DEFINE r == run[s]
           next == [r EXCEPT !.pc = "stored"]
<1>1. /\ r \in RunState /\ Tidy(r) /\ WellFormed(target)
      /\ Active(r) /\ r.alone => Told(r, target)
  BY RunFacts
<1>2. r.pc = "fetched" /\ Active(r)
  BY DEF EnsureServerInbounds, Active
<1>3. CASE /\ cache' = r.seen /\ run' = [run EXCEPT ![s] = next] /\ target' = target
  <2>1. /\ next.pc = "stored" /\ next.plan = r.plan /\ next.seen = r.seen
        /\ next.clear = r.clear /\ next.alone = r.alone /\ next.calm = r.calm
        /\ next.write = r.write /\ next.created = r.created
    BY <1>1 DEF RunState
  <2> HIDE DEF next
  <2>2. Tidy(next) /\ Distinct(cache')
    BY <1>1, <1>2, <1>3, <2>1 DEF Tidy
  <2>3. r.alone => Told(next, target)
    BY <1>1, <1>2, <2>1, ListingTold
  <2>4. RowsKept(target, target)
    BY <1>1, FewerRows
  <2> QED BY <1>1, <1>2, <1>3, <2>1, <2>2, <2>3, <2>4, MoveStoresMirrors
<1>4. CASE ReadFails(s, FALSE)
  BY <1>2, <1>4, ReadFailsMirrors
<1>5. CASE /\ cache' = r.seen /\ run' = [run EXCEPT ![s].pc = "stored"]
           /\ UNCHANGED <<main, target, left>>
  BY <1>3, <1>5
<1> QED BY <1>4, <1>5 DEF EnsureServerInbounds

\* ListInboundsByServer: a run alone reads back its own listing.
LEMMA ListInboundsByServerMirrors ==
  ASSUME Inv, MirrorInv, NEW s \in Syncers, ListInboundsByServer(s) PROVE Advanced(s)
<1> DEFINE r == run[s]
           next == [r EXCEPT !.pc = "rows", !.seen = cache]
<1>1. /\ r \in RunState /\ Tidy(r) /\ WellFormed(target)
      /\ Active(r) /\ r.alone => Told(r, target)
  BY RunFacts
<1>2. r.pc = "stored" /\ Active(r)
  BY DEF ListInboundsByServer, Active
<1>3. CASE run' = [run EXCEPT ![s] = next] /\ UNCHANGED <<main, cache, target, left>>
  <2>1. /\ next.pc = "rows" /\ next.plan = r.plan /\ next.seen = cache
        /\ next.clear = r.clear /\ next.alone = r.alone /\ next.calm = r.calm
        /\ next.write = r.write /\ next.created = r.created
    BY <1>1 DEF RunState
  <2> HIDE DEF next
  <2>2. Tidy(next)
    BY <1>1, <1>2, <2>1 DEF Tidy, MirrorInv
  <2>3. r.alone => cache = r.seen
    BY <1>2 DEF Inv, OwnStored
  <2>4. r.alone => Told(next, target)
    BY <1>1, <1>2, <2>1, <2>3, ListingTold
  <2>5. RowsKept(target, target)
    BY <1>1, FewerRows
  <2> QED BY <1>1, <1>2, <1>3, <2>1, <2>2, <2>4, <2>5, MoveMirrors
<1>4. CASE ReadFails(s, FALSE)
  BY <1>2, <1>4, ReadFailsMirrors
<1> QED BY <1>3, <1>4 DEF ListInboundsByServer

\* ListClients: what is neither there as wanted nor pushed, nobody wants; what is wanted
\* nowhere is pruned.
LEMMA ListClientsMirrors ==
  ASSUME Inv, MirrorInv, NEW s \in Syncers, ListClients(s) PROVE Advanced(s)
<1> DEFINE r == run[s]
           next == [r EXCEPT !.pc = "clients", !.rows = target.rows,
                             !.push = PushList(r.plan, r.seen),
                             !.prune = PruneList(r.plan, r.seen)]
<1>1. /\ r \in RunState /\ target \in PanelState /\ LocalInv(r) /\ Tidy(r)
      /\ WellFormed(target) /\ Registered(target)
      /\ Active(r) /\ r.alone => Told(r, target)
  BY RunFacts
<1>2. r.pc = "rows" /\ Active(r)
  BY DEF ListClients, Active
<1>3. CASE run' = [run EXCEPT ![s] = next] /\ UNCHANGED <<main, cache, target, left>>
  <2>1. /\ next.pc = "clients" /\ next.plan = r.plan /\ next.seen = r.seen
        /\ next.clear = r.clear /\ next.alone = r.alone /\ next.calm = r.calm
        /\ next.rows = target.rows /\ next.push = PushList(r.plan, r.seen)
        /\ next.prune = PruneList(r.plan, r.seen)
        /\ next.write = r.write /\ next.created = r.created
    BY <1>1 DEF RunState
  <2>2. r.write = {} /\ r.created = {}
    BY <1>1, <1>2 DEF Tidy
  <2> HIDE DEF next
  <2>3. Tidy(next)
    BY <1>1, <2>1, <2>2 DEF Tidy
  <2>4. ASSUME r.alone, r.clear PROVE InboundsMirror(next, target) /\ Underway(next, target)
    <3>1. /\ InboundsMirror(r, target)
          /\ SameEntries(target, r.seen) /\ SameEntries(r.seen, target)
      BY <1>1, <1>2, <2>4 DEF Told, Knows
    <3>2. ASSUME NEW w \in r.plan.clients, NEW i \in r.seen.inbounds, i.key = w.key
          PROVE  There(target, i.id, w) \/ \E x \in next.push : x.id = i.id /\ x.want = w
      <4>1. CASE \E a \in Entries(r.seen, i.id, w.email) : a.cred = w.cred
        BY <3>1, <4>1 DEF Entries, SameEntries, There
      <4>2. CASE \A a \in Entries(r.seen, i.id, w.email) : a.cred # w.cred
        <5> DEFINE x == [id |-> i.id, want |-> w]
        <5>1. i.id \in Ids /\ w \in Wanted
          BY <1>1 DEF RunState, Plan, Listing, Inbound
        <5>2. x \in Push /\ x.id = i.id /\ x.want = w
          BY <5>1 DEF Push
        <5>3. KeyOf(r.seen, i.id) = w.key
          BY <1>1, <3>2, KeyOfListed DEF LocalInv, WellListed
        <5>4. x \in PushList(r.plan, r.seen)
          BY <4>2, <5>2, <5>3 DEF PushList
        <5> QED BY <2>1, <5>2, <5>4
      <4> QED BY <4>1, <4>2
    <3>3. ASSUME NEW a \in target.clients
          PROVE  \/ \E w \in r.plan.clients : w.key = KeyOf(r.seen, a.id) /\ w.email = a.email
                 \/ \E b \in next.prune : b.id = a.id /\ b.email = a.email
      <4>1. PICK b \in r.seen.clients : b.id = a.id /\ b.email = a.email
        BY <3>1 DEF SameEntries
      <4> QED BY <2>1, <4>1 DEF PruneList, DesiredAt
    <3> QED BY <2>1, <3>1, <3>2, <3>3 DEF InboundsMirror, Underway
  <2>5. ASSUME r.alone, r.calm PROVE Calm(next, target)
    <3>1. /\ Coherent(target)
          /\ \A a \in r.seen.clients, x \in target.rows :
               a.email = x.email => a.enable = x.enable
          /\ \A a \in r.seen.clients : HasRow(target, a.email)
      BY <1>1, <1>2, <2>5 DEF Told, Calm
    <3>2. next.rows \cup next.created = target.rows
      BY <2>1, <2>2
    <3>3. RowsAgree(target.rows, target) /\ RowsAgree({y.client : y \in {}}, target)
      BY <1>1 DEF RowsAgree, Registered
    <3> QED BY <2>1, <2>2, <3>1, <3>2, <3>3 DEF Calm, HasRow
  <2>6. r.alone => Told(next, target)
    BY <2>1, <2>4, <2>5 DEF Told, Knows
  <2>7. RowsKept(target, target)
    BY <1>1, FewerRows
  <2> QED BY <1>1, <1>2, <1>3, <2>1, <2>3, <2>6, <2>7, MoveMirrors
<1>4. CASE ReadFails(s, FALSE)
  BY <1>2, <1>4, ReadFailsMirrors
<1> QED BY <1>3, <1>4 DEF ListClients

\* A client that is pushed is of the plan, under a listed inbound.
LEMMA PushWanted ==
  ASSUME NEW r \in RunState, LocalInv(r), Tidy(r), r.pc = "clients", NEW x \in r.push
  PROVE  /\ x \in Push /\ x.id \in Ids /\ x.want \in r.plan.clients
         /\ x.want.email \in Emails /\ Payload(r, x) \in Row
         /\ KeyOf(r.seen, x.id) = x.want.key
         /\ \E i \in r.seen.inbounds : i.id = x.id /\ i.key = x.want.key
<1>1. x \in PushList(r.plan, r.seen) /\ x \in Push
  BY DEF Tidy, RunState
<1>2. PICK i \in r.seen.inbounds, w \in r.plan.clients : x = [id |-> i.id, want |-> w]
  BY <1>1 DEF PushList
<1>3. x.id \in Ids /\ x.want.email \in Emails
  BY <1>1 DEF Push, Wanted
<1>4. KeyOf(r.seen, x.id) = x.want.key
  BY <1>1 DEF PushList
<1>5. KeyOf(r.seen, i.id) = i.key
  BY KeyOfListed DEF LocalInv, WellListed
<1> QED BY <1>1, <1>2, <1>3, <1>4, <1>5, PayloadType

\* Where the parts of a payload come from.
LEMMA PayloadParts ==
  ASSUME NEW r, NEW x
  PROVE  LET c == Payload(r, x)
             w == x.want
         IN /\ c.email = w.email /\ c.cred = w.cred
            /\ \/ \E a \in Entries(r.seen, x.id, w.email) : c.enable = a.enable
               \/ /\ Entries(r.seen, x.id, w.email) = {}
                  /\ \E y \in r.rows \cup r.created : y.email = w.email /\ c.enable = y.enable
               \/ Entries(r.seen, x.id, w.email) = {} /\ ~Known(r, w.email)
            /\ \/ \E y \in r.rows : y.email = w.email /\ c.own = y.own
               \/ (~\E y \in r.rows : y.email = w.email) /\ c.own = w.own
<1> DEFINE c == Payload(r, x)
           w == x.want
           entries == Entries(r.seen, x.id, w.email)
           rows == {y \in r.rows : y.email = w.email}
           known == {y \in r.rows \cup r.created : y.email = w.email}
<1>1. /\ c.email = w.email /\ c.cred = w.cred
      /\ c.enable = IF entries # {} THEN (CHOOSE a \in entries : TRUE).enable
                    ELSE IF known # {} THEN (CHOOSE y \in known : TRUE).enable
                    ELSE w.enable
      /\ c.own = IF rows # {} THEN (CHOOSE y \in rows : TRUE).own ELSE w.own
  BY DEF Payload
<1>2. /\ entries # {} => (CHOOSE a \in entries : TRUE) \in entries
      /\ known # {} => (CHOOSE y \in known : TRUE) \in known
      /\ rows # {} => (CHOOSE y \in rows : TRUE) \in rows
  OBVIOUS
<1>3. known = {} <=> ~Known(r, w.email)
  BY DEF Known
<1> HIDE DEF c, entries
<1>4. \/ \E a \in entries : c.enable = a.enable
      \/ entries = {} /\ \E y \in r.rows \cup r.created : y.email = w.email /\ c.enable = y.enable
      \/ entries = {} /\ ~Known(r, w.email)
  BY <1>1, <1>2, <1>3
<1>5. \/ \E y \in r.rows : y.email = w.email /\ c.own = y.own
      \/ (~\E y \in r.rows : y.email = w.email) /\ c.own = w.own
  BY <1>1, <1>2
<1> QED BY <1>1, <1>4, <1>5 DEF c, entries

\* What is written over a client the run knows of is what the panel has.
LEMMA PayloadAgrees ==
  ASSUME NEW r \in RunState, LocalInv(r), Tidy(r), r.pc = "clients", NEW p, Calm(r, p),
         NEW x \in r.push,
         Entries(r.seen, x.id, x.want.email) # {} \/ Known(r, x.want.email)
  PROVE  RowsAgree({Payload(r, x)}, p)
<1> DEFINE c == Payload(r, x)
           w == x.want
<1> SUFFICES ASSUME NEW y \in p.rows, c.email = y.email
             PROVE  c.enable = y.enable /\ c.own = y.own
  BY DEF RowsAgree
<1>1. w.email = y.email /\ w \in r.plan.clients
  BY PayloadParts, PushWanted
<1>2. /\ \A a \in r.seen.clients : a.email = y.email => a.enable = y.enable
      /\ \A a \in r.seen.clients : \E z \in r.rows : z.email = a.email
      /\ \A z \in r.rows \cup r.created : z.email = y.email => z.enable = y.enable /\ z.own = y.own
  BY DEF Calm, RowsAgree
<1>3. \/ \E a \in Entries(r.seen, x.id, w.email) : c.enable = a.enable
      \/ \E z \in r.rows \cup r.created : z.email = w.email /\ c.enable = z.enable
  BY PayloadParts
<1>4. c.enable = y.enable
  BY <1>1, <1>2, <1>3 DEF Entries
<1>5. Known(r, w.email)
  BY <1>2 DEF Entries, Known
<1>6. CASE \E z \in r.rows : z.email = w.email /\ c.own = z.own
  BY <1>1, <1>2, <1>4, <1>6
<1>7. CASE (~\E z \in r.rows : z.email = w.email) /\ c.own = w.own
  <2>1. PICK z \in r.created : z.email = w.email
    BY <1>5, <1>7 DEF Known
  <2>2. PICK v \in r.plan.clients : v.email = z.email /\ v.own = z.own
    BY <2>1 DEF Tidy
  <2>3. v.own = w.own
    BY <1>1, <2>1, <2>2 DEF LocalInv, WellFormedPlan
  <2> QED BY <1>1, <1>2, <1>4, <1>7, <2>1, <2>2, <2>3
<1> QED BY <1>6, <1>7, PayloadParts

\* Rows of q are rows of p, but perhaps for their credentials.
Settings(p, q) ==
  \A y \in q.rows : \E x \in p.rows : x.email = y.email /\ x.enable = y.enable /\ x.own = y.own

\* A calm run stays calm when the panel keeps its settings.
LEMMA CalmStays ==
  ASSUME NEW r, NEW p, Calm(r, p), NEW next, NEW q, Settings(p, q), Coherent(q),
         r.pc = "clients", next.pc = "clients", next.seen = r.seen, next.rows = r.rows,
         next.created = r.created, RowsAgree({y.client : y \in next.write}, q)
  PROVE  Calm(next, q)
<1>1. \A a \in r.seen.clients, y \in q.rows : a.email = y.email => a.enable = y.enable
  BY DEF Calm, Settings
<1>2. RowsAgree(r.rows \cup r.created, p)
  BY DEF Calm
<1>3. RowsAgree(r.rows \cup r.created, q)
  BY <1>2 DEF RowsAgree, Settings
<1>4. \A a \in r.seen.clients : \E x \in r.rows : x.email = a.email
  BY DEF Calm
<1> QED BY <1>1, <1>3, <1>4 DEF Calm

\* Settings that the panel keeps.
LEMMA SettingsKeepRows ==
  ASSUME NEW p, NEW q, WellFormed(p), Settings(p, q) PROVE RowsKept(p, q)
BY DEF WellFormed, Settings, RowsKept, RowsAgree

\* A panel that loses entries and rows keeps the settings of the rest.
LEMMA FewerSettings ==
  ASSUME NEW p, NEW q, q.rows \subseteq p.rows PROVE Settings(p, q)
BY DEF Settings

\* clients/update with the settings that the panel has.
LEMMA UpdateSettings ==
  ASSUME NEW p \in PanelState, WellFormed(p), NEW c \in Row, NEW id \in Ids,
         NEW q \in UpdateClient(p, c, id), RowsAgree({c}, p)
  PROVE  Settings(p, q) /\ (Coherent(p) => Coherent(q))
<1>1. /\ EntryIn(p, id, c.email)
      /\ \A b \in q.clients : \E a \in p.clients :
              /\ b.id = a.id /\ b.email = a.email
              /\ IF a.id = id /\ a.email = c.email
                 THEN b.cred = c.cred /\ b.enable = c.enable ELSE b = a
      /\ \A y \in q.rows : y = c \/ (y.email # c.email /\ y \in p.rows)
  BY UpdateClientMakes
<1>2. \A a \in p.clients : HasRow(p, a.email)
  BY WellFormedParts DEF Registered
<1>3. PICK z \in p.rows : z.email = c.email
  BY <1>1, <1>2 DEF EntryIn, HasRow
<1>4. z.enable = c.enable /\ z.own = c.own
  BY <1>3 DEF RowsAgree
<1>5. Settings(p, q)
  BY <1>1, <1>3, <1>4 DEF Settings
<1>6. ASSUME Coherent(p), NEW b \in q.clients, NEW y \in q.rows, b.email = y.email
      PROVE  b.enable = y.enable
  <2>1. PICK a \in p.clients :
              /\ b.email = a.email
              /\ (b.enable = c.enable /\ a.email = c.email) \/ b = a
    BY <1>1
  <2>2. CASE y = c
    BY <1>3, <1>4, <1>6, <2>1, <2>2 DEF Coherent
  <2>3. CASE y.email # c.email /\ y \in p.rows
    BY <1>6, <2>1, <2>3 DEF Coherent
  <2> QED BY <1>1, <2>2, <2>3
<1> QED BY <1>5, <1>6 DEF Coherent

\* clients/update with a client of the plan: it is there, and so is who was.
LEMMA UpdateThere ==
  ASSUME NEW p \in PanelState, WellFormed(p), NEW c \in Row, NEW id \in Ids,
         NEW q \in UpdateClient(p, c, id),
         NEW r, Distinct(r.seen), WellFormedPlan(r.plan),
         NEW w \in r.plan.clients, NEW i \in r.seen.inbounds,
         i.id = id, i.key = w.key, w.email = c.email, w.cred = c.cred
  PROVE  /\ There(q, id, w)
         /\ \A v \in r.plan.clients, j \in r.seen.inbounds :
              j.key = v.key /\ There(p, j.id, v) => There(q, j.id, v)
         /\ \A b \in q.clients : \E a \in p.clients : a.id = b.id /\ a.email = b.email
<1>1. /\ EntryIn(p, id, c.email)
      /\ \A a \in p.clients : \E b \in q.clients :
              /\ b.id = a.id /\ b.email = a.email
              /\ IF a.id = id /\ a.email = c.email
                 THEN b.cred = c.cred /\ b.enable = c.enable ELSE b = a
      /\ \A b \in q.clients : \E a \in p.clients : b.id = a.id /\ b.email = a.email
  BY UpdateClientMakes
<1>2. There(q, id, w)
  BY <1>1 DEF EntryIn, There
<1>3. ASSUME NEW v \in r.plan.clients, NEW j \in r.seen.inbounds, j.key = v.key,
             There(p, j.id, v)
      PROVE  There(q, j.id, v)
  <2>1. PICK a \in p.clients : a.id = j.id /\ a.email = v.email /\ a.cred = v.cred
    BY <1>3 DEF There
  <2>2. CASE a.id = id /\ a.email = c.email
    <3>1. i = j
      BY <2>1, <2>2 DEF Distinct
    <3>2. v = w
      BY <1>3, <2>1, <2>2, <3>1 DEF WellFormedPlan
    <3> QED BY <1>2, <3>1, <3>2
  <2>3. CASE ~(a.id = id /\ a.email = c.email)
    BY <1>1, <2>1, <2>3 DEF There
  <2> QED BY <2>2, <2>3
<1> QED BY <1>1, <1>2, <1>3

\* CreateMissing: the new client has what is then written to it.
LEMMA CreateMissingMirrors ==
  ASSUME Inv, MirrorInv, NEW s \in Syncers, CreateMissing(s) PROVE Advanced(s)
<1> DEFINE r == run[s]
           after(x) == [r EXCEPT !.push = @ \ {x}, !.created = @ \cup {Payload(r, x)},
                                 !.write = {[id |-> x.id, client |-> Payload(r, x)]}]
<1>1. /\ r \in RunState /\ target \in PanelState /\ LocalInv(r) /\ Tidy(r)
      /\ WellFormed(target) /\ Registered(target)
      /\ Active(r) /\ r.alone => Told(r, target)
  BY RunFacts
<1>2. PICK x \in r.push :
        /\ r.pc = "clients" /\ r.write = {}
        /\ Entries(r.seen, x.id, x.want.email) = {} /\ ~Known(r, x.want.email)
        /\ Call(s, CreateClient(target, Payload(r, x), x.id), after(x))
  BY DEF CreateMissing
<1> DEFINE c == Payload(r, x)
           w == x.want
           new == [id |-> x.id, client |-> c]
           next == after(x)
<1>3. /\ x.id \in Ids /\ w \in r.plan.clients /\ c \in Row
      /\ KeyOf(r.seen, x.id) = w.key
      /\ \E i \in r.seen.inbounds : i.id = x.id /\ i.key = w.key
  BY <1>1, <1>2, PushWanted
<1>4. c.email = w.email /\ c.cred = w.cred /\ c.own = w.own
  BY <1>2, PayloadParts DEF Known
<1>5. new.id = x.id /\ new.client = c
  OBVIOUS
<1>6. /\ next.pc = "clients" /\ next.plan = r.plan /\ next.seen = r.seen
      /\ next.clear = r.clear /\ next.alone = r.alone /\ next.calm = r.calm
      /\ next.rows = r.rows /\ next.prune = r.prune /\ next.push = r.push \ {x}
      /\ next.created = r.created \cup {c} /\ next.write = {new}
  BY <1>1, <1>2 DEF RunState
<1>7. Call(s, CreateClient(target, c, x.id), next) /\ Active(r)
  BY <1>2 DEF Active
<1> HIDE DEF next, new, c
<1>8. Tidy(next)
  <2>1. \A y \in next.write : \E v \in r.plan.clients, i \in r.seen.inbounds :
            /\ v.key = i.key /\ i.id = y.id
            /\ v.email = y.client.email /\ v.cred = y.client.cred
    BY <1>3, <1>4, <1>5, <1>6
  <2>2. \A d \in next.created : \E v \in r.plan.clients : v.email = d.email /\ v.own = d.own
    BY <1>1, <1>2, <1>3, <1>4, <1>6 DEF Tidy
  <2> QED BY <1>1, <1>2, <1>6, <2>1, <2>2 DEF Tidy
<1>9. ASSUME NEW q \in CreateClient(target, c, x.id)
      PROVE  /\ WellFormed(q)
             /\ r.alone => Told(next, q) /\ (r.calm => RowsKept(target, q))
  <2>1. /\ WellFormed(q) /\ q.inbounds = target.inbounds
        /\ ~HasRow(target, c.email) /\ q.rows = target.rows \cup {c}
    BY <1>1, <1>3, CreateClientMakes
  <2>2. PICK a \in Attachment :
              /\ q.clients = target.clients \cup {a}
              /\ a.id = x.id /\ a.email = c.email /\ a.cred = c.cred /\ a.enable = c.enable
    BY <1>1, <1>3, CreateClientMakes
  <2>3. ASSUME r.alone, r.clear PROVE InboundsMirror(next, q) /\ Underway(next, q)
    <3>1. InboundsMirror(r, target) /\ Underway(r, target)
      BY <1>1, <1>2, <1>7, <2>3 DEF Told, Knows
    <3>2. InboundsMirror(next, q)
      BY <1>6, <2>1, <3>1 DEF InboundsMirror
    <3>3. ASSUME NEW v \in r.plan.clients, NEW i \in r.seen.inbounds, i.key = v.key
          PROVE  \/ There(q, i.id, v)
                 \/ \E y \in next.push : y.id = i.id /\ y.want = v
                 \/ \E y \in next.write : /\ y.id = i.id /\ y.client.email = v.email
                                          /\ y.client.cred = v.cred
      <4>1. CASE There(target, i.id, v)
        BY <2>2, <4>1 DEF There
      <4>2. CASE \E y \in r.push : y.id = i.id /\ y.want = v
        BY <1>4, <1>5, <1>6, <4>2
      <4> QED BY <1>2, <3>1, <3>3, <4>1, <4>2 DEF Underway
    <3>4. ASSUME NEW b \in q.clients
          PROVE  \/ \E v \in r.plan.clients : v.key = KeyOf(r.seen, b.id) /\ v.email = b.email
                 \/ \E d \in r.prune : d.id = b.id /\ d.email = b.email
      <4>1. CASE b = a
        BY <1>3, <1>4, <2>2, <4>1
      <4>2. CASE b \in target.clients
        BY <3>1, <4>2 DEF Underway
      <4> QED BY <2>2, <4>1, <4>2
    <3> QED BY <1>6, <3>2, <3>3, <3>4 DEF Underway
  <2>4. \A b \in target.clients : b.email # c.email
    BY <1>1, <2>1 DEF Registered, HasRow
  <2>5. \A y \in target.rows : y.email # c.email
    BY <2>1 DEF HasRow
  <2>6. ASSUME r.alone, r.calm PROVE Calm(next, q)
    <3>1. Calm(r, target)
      BY <1>1, <1>2, <1>7, <2>6 DEF Told
    <3>2. Coherent(q)
      BY <1>2, <2>1, <2>2, <2>4, <2>5, <3>1 DEF Calm, Coherent
    <3>3. \A y \in r.rows \cup r.created : y.email # c.email
      BY <1>2, <1>4 DEF Known
    <3>4. \A b \in r.seen.clients : \E y \in r.rows : y.email = b.email
      BY <1>2, <3>1 DEF Calm
    <3>5. \A b \in r.seen.clients, y \in q.rows : b.email = y.email => b.enable = y.enable
      BY <1>2, <2>1, <3>1, <3>3, <3>4 DEF Calm
    <3>6. RowsAgree(r.rows \cup (r.created \cup {c}), q)
      BY <1>2, <2>1, <2>5, <3>1, <3>3 DEF Calm, RowsAgree
    <3>7. RowsAgree({y.client : y \in next.write}, q)
      BY <1>5, <1>6, <2>1, <2>5 DEF RowsAgree
    <3> QED BY <1>6, <3>2, <3>4, <3>5, <3>6, <3>7 DEF Calm
  <2>7. r.alone => Told(next, q)
    BY <1>6, <2>3, <2>6 DEF Told, Knows
  <2>8. RowsKept(target, q)
    BY <1>1, <2>1, <2>5 DEF RowsKept, RowsAgree, Registered
  <2> QED BY <2>1, <2>7, <2>8
<1> QED BY <1>6, <1>7, <1>8, <1>9, CallMirrors

\* AttachMissing: what the row had is there, and what the plan wants is then written.
LEMMA AttachMissingMirrors ==
  ASSUME Inv, MirrorInv, NEW s \in Syncers, AttachMissing(s) PROVE Advanced(s)
<1> DEFINE r == run[s]
           after(x) == [r EXCEPT !.push = @ \ {x},
                                 !.write = {[id |-> x.id, client |-> Payload(r, x)]}]
<1>1. /\ r \in RunState /\ target \in PanelState /\ LocalInv(r) /\ Tidy(r)
      /\ WellFormed(target) /\ Registered(target)
      /\ Active(r) /\ r.alone => Told(r, target)
  BY RunFacts
<1>2. PICK x \in r.push :
        /\ r.pc = "clients" /\ r.write = {} /\ Known(r, x.want.email)
        /\ Call(s, AttachClient(target, x.want.email, x.id), after(x))
  BY DEF AttachMissing
<1> DEFINE c == Payload(r, x)
           w == x.want
           new == [id |-> x.id, client |-> c]
           next == after(x)
<1>3. /\ x.id \in Ids /\ w \in r.plan.clients /\ w.email \in Emails
      /\ KeyOf(r.seen, x.id) = w.key
      /\ \E i \in r.seen.inbounds : i.id = x.id /\ i.key = w.key
  BY <1>1, <1>2, PushWanted
<1>4. c.email = w.email /\ c.cred = w.cred
  BY PayloadParts
<1>5. new.id = x.id /\ new.client = c
  OBVIOUS
<1>6. /\ next.pc = "clients" /\ next.plan = r.plan /\ next.seen = r.seen
      /\ next.clear = r.clear /\ next.alone = r.alone /\ next.calm = r.calm
      /\ next.rows = r.rows /\ next.prune = r.prune /\ next.push = r.push \ {x}
      /\ next.created = r.created /\ next.write = {new}
  BY <1>1, <1>2 DEF RunState
<1>7. Call(s, AttachClient(target, w.email, x.id), next) /\ Active(r)
  BY <1>2 DEF Active
<1> HIDE DEF next, new
<1>8. Tidy(next)
  <2>1. \A y \in next.write : \E v \in r.plan.clients, i \in r.seen.inbounds :
            /\ v.key = i.key /\ i.id = y.id
            /\ v.email = y.client.email /\ v.cred = y.client.cred
    BY <1>3, <1>4, <1>5, <1>6
  <2> QED BY <1>1, <1>2, <1>6, <2>1 DEF Tidy
<1>9. ASSUME NEW q \in AttachClient(target, w.email, x.id)
      PROVE  /\ WellFormed(q)
             /\ r.alone => Told(next, q) /\ (r.calm => RowsKept(target, q))
  <2>1. WellFormed(q) /\ q.inbounds = target.inbounds /\ q.rows = target.rows
    BY <1>1, <1>3, AttachClientMakes
  <2>2. /\ target.clients \subseteq q.clients
        /\ \A b \in q.clients : b \in target.clients \/
             /\ b.id = x.id /\ b.email = w.email
             /\ \E y \in target.rows : y.email = w.email /\ b.enable = y.enable
    BY <1>1, <1>3, AttachClientMakes
  <2>3. ASSUME r.alone, r.clear PROVE InboundsMirror(next, q) /\ Underway(next, q)
    <3>1. InboundsMirror(r, target) /\ Underway(r, target)
      BY <1>1, <1>2, <1>7, <2>3 DEF Told, Knows
    <3>2. InboundsMirror(next, q)
      BY <1>6, <2>1, <3>1 DEF InboundsMirror
    <3>3. ASSUME NEW v \in r.plan.clients, NEW i \in r.seen.inbounds, i.key = v.key
          PROVE  \/ There(q, i.id, v)
                 \/ \E y \in next.push : y.id = i.id /\ y.want = v
                 \/ \E y \in next.write : /\ y.id = i.id /\ y.client.email = v.email
                                          /\ y.client.cred = v.cred
      <4>1. CASE There(target, i.id, v)
        BY <2>2, <4>1 DEF There
      <4>2. CASE \E y \in r.push : y.id = i.id /\ y.want = v
        BY <1>4, <1>5, <1>6, <4>2
      <4> QED BY <1>2, <3>1, <3>3, <4>1, <4>2 DEF Underway
    <3>4. ASSUME NEW b \in q.clients
          PROVE  \/ \E v \in r.plan.clients : v.key = KeyOf(r.seen, b.id) /\ v.email = b.email
                 \/ \E d \in r.prune : d.id = b.id /\ d.email = b.email
      <4>1. CASE b.id = x.id /\ b.email = w.email
        BY <1>3, <4>1
      <4>2. CASE b \in target.clients
        BY <3>1, <4>2 DEF Underway
      <4> QED BY <2>2, <4>1, <4>2
    <3> QED BY <1>6, <3>2, <3>3, <3>4 DEF Underway
  <2>4. Settings(target, q) /\ RowsKept(target, q)
    BY <1>1, <2>1, FewerSettings, SettingsKeepRows
  <2>5. ASSUME r.alone, r.calm PROVE Calm(next, q)
    <3>1. Calm(r, target)
      BY <1>1, <1>2, <1>7, <2>5 DEF Told
    <3>2. Coherent(q)
      BY <1>1, <1>2, <2>1, <2>2, <3>1 DEF Calm, Coherent, Registered
    <3>3. RowsAgree({c}, target)
      BY <1>1, <1>2, <3>1, PayloadAgrees
    <3>4. RowsAgree({y.client : y \in next.write}, q)
      BY <1>5, <1>6, <2>1, <3>3 DEF RowsAgree
    <3> QED BY <1>2, <1>6, <2>4, <3>1, <3>2, <3>4, CalmStays
  <2>6. r.alone => Told(next, q)
    BY <1>6, <2>3, <2>5 DEF Told, Knows
  <2> QED BY <2>1, <2>4, <2>6
<1> QED BY <1>6, <1>7, <1>8, <1>9, CallMirrors

\* UpdateChanged: the entry has the plan's credential and keeps its settings.
LEMMA UpdateChangedMirrors ==
  ASSUME Inv, MirrorInv, NEW s \in Syncers, UpdateChanged(s) PROVE Advanced(s)
<1> DEFINE r == run[s]
           after(x) == [r EXCEPT !.push = @ \ {x}]
<1>1. /\ r \in RunState /\ target \in PanelState /\ LocalInv(r) /\ Tidy(r)
      /\ WellFormed(target)
      /\ Active(r) /\ r.alone => Told(r, target)
  BY RunFacts
<1>2. PICK x \in r.push :
        /\ r.pc = "clients" /\ r.write = {} /\ Entries(r.seen, x.id, x.want.email) # {}
        /\ Call(s, UpdateClient(target, Payload(r, x), x.id), after(x))
  BY DEF UpdateChanged
<1> DEFINE c == Payload(r, x)
           w == x.want
           next == after(x)
<1>3. x.id \in Ids /\ w \in r.plan.clients /\ c \in Row
  BY <1>1, <1>2, PushWanted
<1>4. PICK i \in r.seen.inbounds : i.id = x.id /\ i.key = w.key
  BY <1>1, <1>2, PushWanted
<1>5. c.email = w.email /\ c.cred = w.cred
  BY PayloadParts
<1>6. /\ next.pc = "clients" /\ next.plan = r.plan /\ next.seen = r.seen
      /\ next.clear = r.clear /\ next.alone = r.alone /\ next.calm = r.calm
      /\ next.rows = r.rows /\ next.prune = r.prune /\ next.push = r.push \ {x}
      /\ next.created = r.created /\ next.write = {}
  BY <1>1, <1>2 DEF RunState
<1>7. Call(s, UpdateClient(target, c, x.id), next) /\ Active(r)
  BY <1>2 DEF Active
<1> HIDE DEF next
<1>8. Tidy(next)
  BY <1>1, <1>2, <1>6 DEF Tidy
<1>9. ASSUME NEW q \in UpdateClient(target, c, x.id)
      PROVE  /\ WellFormed(q)
             /\ r.alone => Told(next, q) /\ (r.calm => RowsKept(target, q))
  <2>1. WellFormed(q) /\ q.inbounds = target.inbounds
    BY <1>1, <1>3, UpdateClientMakes
  <2>2. Distinct(r.seen) /\ WellFormedPlan(r.plan)
    BY <1>1 DEF Tidy, LocalInv
  <2>3. /\ There(q, x.id, w)
        /\ \A v \in r.plan.clients, j \in r.seen.inbounds :
             j.key = v.key /\ There(target, j.id, v) => There(q, j.id, v)
        /\ \A b \in q.clients : \E a \in target.clients : a.id = b.id /\ a.email = b.email
    BY <1>1, <1>3, <1>4, <1>5, <2>2, UpdateThere
  <2>4. ASSUME r.alone, r.clear PROVE InboundsMirror(next, q) /\ Underway(next, q)
    <3>1. InboundsMirror(r, target) /\ Underway(r, target)
      BY <1>1, <1>2, <1>7, <2>4 DEF Told, Knows
    <3>2. InboundsMirror(next, q)
      BY <1>6, <2>1, <3>1 DEF InboundsMirror
    <3>3. ASSUME NEW v \in r.plan.clients, NEW j \in r.seen.inbounds, j.key = v.key
          PROVE  There(q, j.id, v) \/ \E y \in next.push : y.id = j.id /\ y.want = v
      <4>1. There(target, j.id, v) \/ \E y \in r.push : y.id = j.id /\ y.want = v
        BY <1>2, <3>1, <3>3 DEF Underway
      <4> QED BY <1>6, <2>3, <3>3, <4>1
    <3>4. \A b \in q.clients :
            \/ \E v \in r.plan.clients : v.key = KeyOf(r.seen, b.id) /\ v.email = b.email
            \/ \E d \in r.prune : d.id = b.id /\ d.email = b.email
      BY <2>3, <3>1 DEF Underway
    <3> QED BY <1>6, <3>2, <3>3, <3>4 DEF Underway
  <2>5. ASSUME r.alone, r.calm PROVE Calm(next, q) /\ RowsKept(target, q)
    <3>1. Calm(r, target) /\ Coherent(target)
      BY <1>1, <1>2, <1>7, <2>5 DEF Told, Calm
    <3>2. RowsAgree({c}, target)
      BY <1>1, <1>2, <3>1, PayloadAgrees
    <3>3. Settings(target, q) /\ Coherent(q)
      BY <1>1, <1>3, <3>1, <3>2, UpdateSettings
    <3>4. RowsAgree({y.client : y \in next.write}, q)
      BY <1>6 DEF RowsAgree
    <3> QED BY <1>1, <1>2, <1>6, <3>1, <3>3, <3>4, CalmStays, SettingsKeepRows
  <2> QED BY <1>6, <2>1, <2>4, <2>5 DEF Told, Knows
<1> QED BY <1>6, <1>7, <1>8, <1>9, CallMirrors

\* WriteNew: the client that was just added or attached is there as the plan has it.
LEMMA WriteNewMirrors ==
  ASSUME Inv, MirrorInv, NEW s \in Syncers, WriteNew(s) PROVE Advanced(s)
<1> DEFINE r == run[s]
           next == [r EXCEPT !.write = {}]
<1>1. /\ r \in RunState /\ target \in PanelState /\ LocalInv(r) /\ Tidy(r)
      /\ WellFormed(target)
      /\ Active(r) /\ r.alone => Told(r, target)
  BY RunFacts
<1>2. PICK x \in r.write : /\ r.pc = "clients"
                           /\ Call(s, UpdateClient(target, x.client, x.id), next)
  BY DEF WriteNew
<1>3. x.id \in Ids /\ x.client \in Row
  BY <1>1 DEF RunState, Write
<1>4. PICK w \in r.plan.clients, i \in r.seen.inbounds :
        /\ w.key = i.key /\ i.id = x.id
        /\ w.email = x.client.email /\ w.cred = x.client.cred
  BY <1>1, <1>2 DEF Tidy
<1>5. \A y \in r.write : y = x
  BY <1>1 DEF Tidy
<1>6. /\ next.pc = "clients" /\ next.plan = r.plan /\ next.seen = r.seen
      /\ next.clear = r.clear /\ next.alone = r.alone /\ next.calm = r.calm
      /\ next.rows = r.rows /\ next.prune = r.prune /\ next.push = r.push
      /\ next.created = r.created /\ next.write = {}
  BY <1>1, <1>2 DEF RunState
<1>7. Active(r)
  BY <1>2 DEF Active
<1> HIDE DEF next
<1>8. Tidy(next)
  BY <1>1, <1>2, <1>6 DEF Tidy
<1>9. ASSUME NEW q \in UpdateClient(target, x.client, x.id)
      PROVE  /\ WellFormed(q)
             /\ r.alone => Told(next, q) /\ (r.calm => RowsKept(target, q))
  <2>1. WellFormed(q) /\ q.inbounds = target.inbounds
    BY <1>1, <1>3, UpdateClientMakes
  <2>2. Distinct(r.seen) /\ WellFormedPlan(r.plan)
    BY <1>1 DEF Tidy, LocalInv
  <2>3. /\ There(q, x.id, w)
        /\ \A v \in r.plan.clients, j \in r.seen.inbounds :
             j.key = v.key /\ There(target, j.id, v) => There(q, j.id, v)
        /\ \A b \in q.clients : \E a \in target.clients : a.id = b.id /\ a.email = b.email
    BY <1>1, <1>3, <1>4, <2>2, UpdateThere
  <2>4. ASSUME r.alone, r.clear PROVE InboundsMirror(next, q) /\ Underway(next, q)
    <3>1. InboundsMirror(r, target) /\ Underway(r, target)
      BY <1>1, <1>2, <1>7, <2>4 DEF Told, Knows
    <3>2. InboundsMirror(next, q)
      BY <1>6, <2>1, <3>1 DEF InboundsMirror
    <3>3. ASSUME NEW v \in r.plan.clients, NEW j \in r.seen.inbounds, j.key = v.key
          PROVE  There(q, j.id, v) \/ \E y \in next.push : y.id = j.id /\ y.want = v
      <4>1. CASE x.id = j.id /\ x.client.email = v.email
        <5>1. i = j
          BY <1>4, <2>2, <4>1 DEF Distinct
        <5>2. v = w
          BY <1>4, <2>2, <3>3, <4>1, <5>1 DEF WellFormedPlan
        <5> QED BY <2>3, <4>1, <5>2
      <4>2. CASE ~(x.id = j.id /\ x.client.email = v.email)
        <5>1. There(target, j.id, v) \/ \E y \in r.push : y.id = j.id /\ y.want = v
          BY <1>5, <3>1, <3>3, <4>2 DEF Underway
        <5> QED BY <1>6, <2>3, <3>3, <5>1
      <4> QED BY <4>1, <4>2
    <3>4. \A b \in q.clients :
            \/ \E v \in r.plan.clients : v.key = KeyOf(r.seen, b.id) /\ v.email = b.email
            \/ \E d \in r.prune : d.id = b.id /\ d.email = b.email
      BY <2>3, <3>1 DEF Underway
    <3> QED BY <1>6, <3>2, <3>3, <3>4 DEF Underway
  <2>5. ASSUME r.alone, r.calm PROVE Calm(next, q) /\ RowsKept(target, q)
    <3>1. Calm(r, target) /\ Coherent(target)
      BY <1>1, <1>2, <1>7, <2>5 DEF Told, Calm
    <3>2. RowsAgree({x.client}, target)
      BY <1>2, <3>1 DEF Calm, RowsAgree
    <3>3. Settings(target, q) /\ Coherent(q)
      BY <1>1, <1>3, <3>1, <3>2, UpdateSettings
    <3>4. RowsAgree({y.client : y \in next.write}, q)
      BY <1>6 DEF RowsAgree
    <3> QED BY <1>1, <1>2, <1>6, <3>1, <3>3, <3>4, CalmStays, SettingsKeepRows
  <2> QED BY <1>6, <2>1, <2>4, <2>5 DEF Told, Knows
<1> QED BY <1>2, <1>6, <1>7, <1>8, <1>9, CallMirrors

\* What a run knows in the client loops survives a removal of entries that are to be
\* pruned: those that are gone need no pruning any more.
LEMMA RemovalTold ==
  ASSUME NEW r, NEW p, Told(r, p), r.pc = "clients", r.push = {}, r.write = {},
         NEW next, next.pc = "clients", next.plan = r.plan, next.seen = r.seen,
         next.clear = r.clear, next.calm = r.calm, next.rows = r.rows,
         next.created = r.created, next.push = {}, next.write = {},
         NEW q, q.inbounds = p.inbounds, q.rows \subseteq p.rows, q.clients \subseteq p.clients,
         r.clear => \A w \in r.plan.clients, i \in r.seen.inbounds :
                      i.key = w.key /\ There(p, i.id, w) => There(q, i.id, w),
         \A a \in q.clients : \A b \in r.prune :
           b.id = a.id /\ b.email = a.email => b \in next.prune
  PROVE  Told(next, q)
<1>1. ASSUME r.clear PROVE InboundsMirror(next, q) /\ Underway(next, q)
  <2>1. InboundsMirror(r, p) /\ Underway(r, p)
    BY <1>1 DEF Told, Knows
  <2>2. \A w \in r.plan.clients, i \in r.seen.inbounds : i.key = w.key => There(q, i.id, w)
    BY <1>1, <2>1 DEF Underway
  <2>3. \A a \in q.clients :
          \/ \E w \in r.plan.clients : w.key = KeyOf(r.seen, a.id) /\ w.email = a.email
          \/ \E b \in next.prune : b.id = a.id /\ b.email = a.email
    BY <2>1 DEF Underway
  <2> QED BY <2>1, <2>2, <2>3 DEF InboundsMirror, Underway
<1>2. ASSUME r.calm PROVE Calm(next, q)
  <2>1. Calm(r, p) /\ Coherent(q)
    BY <1>2, CoherentLess DEF Told, Calm
  <2>2. RowsAgree({y.client : y \in next.write}, q)
    BY DEF RowsAgree
  <2> QED BY <2>1, <2>2, FewerSettings, CalmStays
<1> QED BY <1>1, <1>2 DEF Told, Knows

\* DeleteUnwanted: the plan wants no entry of the client.
LEMMA DeleteUnwantedMirrors ==
  ASSUME Inv, MirrorInv, NEW s \in Syncers, DeleteUnwanted(s) PROVE Advanced(s)
<1> DEFINE r == run[s]
           after(a) == [r EXCEPT !.prune = {b \in @ : b.email # a.email}]
<1>1. /\ r \in RunState /\ target \in PanelState /\ Tidy(r) /\ WellFormed(target)
      /\ Active(r) /\ r.alone => Told(r, target)
  BY RunFacts
<1>2. PICK a \in r.prune :
        /\ r.pc = "clients" /\ r.push = {} /\ r.write = {}
        /\ ~WantedAnywhere(r.plan, a.email)
        /\ Call(s, DeleteClient(target, a.email), after(a))
  BY DEF DeleteUnwanted
<1> DEFINE next == after(a)
<1>3. /\ next.pc = "clients" /\ next.plan = r.plan /\ next.seen = r.seen
      /\ next.clear = r.clear /\ next.alone = r.alone /\ next.calm = r.calm
      /\ next.rows = r.rows /\ next.prune = {b \in r.prune : b.email # a.email}
      /\ next.push = {} /\ next.created = r.created /\ next.write = {}
  BY <1>1, <1>2 DEF RunState
<1>4. Call(s, DeleteClient(target, a.email), next) /\ Active(r) /\ a.email \in Emails
  BY <1>1, <1>2 DEF Active, RunState, Attachment
<1> HIDE DEF next
<1>5. Tidy(next)
  BY <1>1, <1>2, <1>3 DEF Tidy
<1>6. ASSUME NEW q \in DeleteClient(target, a.email)
      PROVE  /\ WellFormed(q)
             /\ r.alone => Told(next, q) /\ (r.calm => RowsKept(target, q))
  <2>1. /\ WellFormed(q) /\ q.inbounds = target.inbounds /\ q.rows \subseteq target.rows
        /\ q.clients = {b \in target.clients : b.email # a.email}
    BY <1>1, <1>4, DeleteClientMakes
  <2>2. \A w \in r.plan.clients, i \in r.seen.inbounds :
          There(target, i.id, w) => There(q, i.id, w)
    BY <1>2, <2>1 DEF There, WantedAnywhere
  <2>3. \A b \in q.clients : \A d \in r.prune :
          d.id = b.id /\ d.email = b.email => d \in next.prune
    BY <1>3, <2>1
  <2>4. q.clients \subseteq target.clients
    BY <2>1
  <2>5. r.alone => Told(next, q)
    BY <1>1, <1>2, <1>3, <1>4, <2>1, <2>2, <2>3, <2>4, RemovalTold
  <2> QED BY <1>1, <2>1, <2>5, FewerRows
<1> QED BY <1>3, <1>4, <1>5, <1>6, CallMirrors

\* DetachMoved: the plan wants the client, but not here.
LEMMA DetachMovedMirrors ==
  ASSUME Inv, MirrorInv, NEW s \in Syncers, DetachMoved(s) PROVE Advanced(s)
<1> DEFINE r == run[s]
           after(a) == [r EXCEPT !.prune = @ \ {a}]
<1>1. /\ r \in RunState /\ target \in PanelState /\ LocalInv(r) /\ Tidy(r)
      /\ WellFormed(target)
      /\ Active(r) /\ r.alone => Told(r, target)
  BY RunFacts
<1>2. PICK a \in r.prune :
        /\ r.pc = "clients" /\ r.push = {} /\ r.write = {}
        /\ Call(s, DetachClient(target, a.email, a.id), after(a))
  BY DEF DetachMoved
<1> DEFINE next == after(a)
<1>3. /\ next.pc = "clients" /\ next.plan = r.plan /\ next.seen = r.seen
      /\ next.clear = r.clear /\ next.alone = r.alone /\ next.calm = r.calm
      /\ next.rows = r.rows /\ next.prune = r.prune \ {a}
      /\ next.push = {} /\ next.created = r.created /\ next.write = {}
  BY <1>1, <1>2 DEF RunState
<1>4. /\ Call(s, DetachClient(target, a.email, a.id), next) /\ Active(r)
      /\ a.email \in Emails /\ a.id \in Ids
  BY <1>1, <1>2 DEF Active, RunState, Attachment
<1> HIDE DEF next
<1>5. Tidy(next)
  BY <1>1, <1>2, <1>3 DEF Tidy
<1>6. ASSUME NEW w \in r.plan.clients, NEW i \in r.seen.inbounds, i.key = w.key
      PROVE  ~(i.id = a.id /\ w.email = a.email)
  <2>1. a \in PruneList(r.plan, r.seen)
    BY <1>1, <1>2 DEF LocalInv, WellListed
  <2>2. KeyOf(r.seen, i.id) = w.key
    BY <1>1, <1>6, KeyOfListed DEF LocalInv, WellListed
  <2> QED BY <2>1, <2>2 DEF PruneList, DesiredAt
<1>7. ASSUME NEW q \in DetachClient(target, a.email, a.id)
      PROVE  /\ WellFormed(q)
             /\ r.alone => Told(next, q) /\ (r.calm => RowsKept(target, q))
  <2>1. /\ WellFormed(q) /\ q.inbounds = target.inbounds /\ q.rows \subseteq target.rows
        /\ q.clients = {b \in target.clients : ~(b.id = a.id /\ b.email = a.email)}
    BY <1>1, <1>4, DetachClientMakes
  <2>2. \A w \in r.plan.clients, i \in r.seen.inbounds :
          i.key = w.key /\ There(target, i.id, w) => There(q, i.id, w)
    BY <1>6, <2>1 DEF There
  <2>3. \A b \in q.clients : \A d \in r.prune :
          d.id = b.id /\ d.email = b.email => d \in next.prune
    BY <1>3, <2>1
  <2>4. q.clients \subseteq target.clients
    BY <2>1
  <2>5. r.alone => Told(next, q)
    BY <1>1, <1>2, <1>3, <1>4, <2>1, <2>2, <2>3, <2>4, RemovalTold
  <2> QED BY <1>1, <2>1, <2>5, FewerRows
<1> QED BY <1>3, <1>4, <1>5, <1>7, CallMirrors

\* A run that is past its loops, or has nothing in hand.
Past(r) == r.pc \in {"synced", "refresh", "rebuild", "done", "idle"}

\* Such a run knows nothing of the target.
LEMMA TailMirrors ==
  ASSUME Inv, MirrorInv, NEW s \in Syncers, Active(run[s]), NEW next, Past(next),
         Active(next) => next.alone = run[s].alone,
         Tidy(next), Distinct(cache'), run' = [run EXCEPT ![s] = next], target' = target
  PROVE  Advanced(s)
<1>2. Active(next) => Told(next, target)
  BY DEF Told, Knows, Calm, Active, Past
<1>3. WellFormed(target) /\ RowsKept(target, target)
  BY FewerRows DEF MirrorInv
<1> QED BY <1>2, <1>3, MoveStoresMirrors

\* Nothing is listed and nothing is to be written in a run that ends.
LEMMA EndedEmpty ==
  ASSUME NEW r \in {Ended("synced"), Ended("done"), Idle}
  PROVE  /\ r \in RunState /\ Distinct(r.seen) /\ r.write = {} /\ Tidy(r)
         /\ r.pc \in {"synced", "done", "idle"} /\ (r.pc = "synced" \/ ~Active(r))
<1>1. r \in RunState /\ r.seen = [inbounds |-> {}, clients |-> {}]
  BY EndedParts, IdleParts
<1>2. r.write = {} /\ r.pc \in {"synced", "done", "idle"}
  BY DEF Ended, Idle
<1> QED BY <1>1, <1>2 DEF Distinct, Active, Tidy

\* Finish: the run knows nothing any more.
LEMMA FinishMirrors ==
  ASSUME Inv, MirrorInv, NEW s \in Syncers, Finish(s) PROVE Advanced(s)
<1> DEFINE last == Ended("synced")
           next == [last EXCEPT !.alone = run[s].alone]
<1>1. /\ Active(run[s]) /\ run' = [run EXCEPT ![s] = next] /\ target' = target
      /\ cache' = cache
  BY DEF Finish, Active
<1>2. last \in RunState /\ Distinct(last.seen) /\ last.write = {} /\ last.pc = "synced"
  BY EndedEmpty, EndedParts
<1> HIDE DEF last
<1>3. /\ next.pc = "synced" /\ next.alone = run[s].alone /\ next.seen = last.seen
      /\ next.write = {}
  BY <1>2 DEF RunState
<1> HIDE DEF next
<1>4. Distinct(cache') /\ Tidy(next)
  BY <1>1, <1>2, <1>3 DEF MirrorInv, Tidy
<1>5. Past(next)
  BY <1>3 DEF Past
<1> QED BY <1>1, <1>3, <1>4, <1>5, TailMirrors

\* ListAgain.
LEMMA ListAgainMirrors ==
  ASSUME Inv, MirrorInv, NEW s \in Syncers, ListAgain(s) PROVE Advanced(s)
<1> DEFINE r == run[s]
           seen == [inbounds |-> target.inbounds, clients |-> target.clients]
           next == [r EXCEPT !.pc = "refresh", !.seen = seen]
           last == Ended("done")
<1>1. r \in RunState /\ Distinct(target) /\ Tidy(r)
  BY RunFacts
<1>2. /\ Active(r) /\ target' = target /\ cache' = cache
      /\ run' = [run EXCEPT ![s] = next] \/ run' = [run EXCEPT ![s] = last]
  BY DEF ListAgain, Active
<1>3. Distinct(cache')
  BY <1>2 DEF MirrorInv
<1>4. CASE run' = [run EXCEPT ![s] = next]
  <2>1. /\ next.pc = "refresh" /\ next.alone = r.alone /\ next.seen = seen
        /\ next.write = r.write
    BY <1>1 DEF RunState
  <2>2. Distinct(seen)
    BY <1>1 DEF Distinct
  <2> HIDE DEF next, seen
  <2>3. Tidy(next) /\ Past(next)
    BY <1>1, <2>1, <2>2 DEF Tidy, Past
  <2> QED BY <1>2, <1>3, <1>4, <2>1, <2>2, <2>3, TailMirrors
<1>5. CASE run' = [run EXCEPT ![s] = last]
  <2>1. Tidy(last) /\ Past(last) /\ ~Active(last)
    BY EndedEmpty, EndedParts, EndedKeeps DEF Past
  <2> HIDE DEF last
  <2> QED BY <1>2, <1>3, <1>5, <2>1, TailMirrors
<1> QED BY <1>2, <1>4, <1>5

\* Recache, Rebuild and ImportCaches store the listing in hand, or not.
LEMMA StoredMirrors ==
  ASSUME Inv, MirrorInv, NEW s \in Syncers, Recache(s) \/ Rebuild(s) \/ ImportCaches(s)
  PROVE  Advanced(s)
<1> DEFINE r == run[s]
           next == [r EXCEPT !.pc = "rebuild"]
<1>1. r \in RunState /\ Tidy(r)
  BY RunFacts
<1>2. PICK x \in {next, Ended("done"), Idle} : Stored(s, x)
  BY DEF Recache, Rebuild, ImportCaches
<1>3. Active(r)
  BY DEF Recache, Rebuild, ImportCaches, Active
<1>4. /\ cache' = r.seen \/ cache' = cache
      /\ run' = [run EXCEPT ![s] = x] /\ target' = target
  BY <1>2 DEF Stored
<1>5. Distinct(cache')
  BY <1>1, <1>4 DEF MirrorInv, Tidy
<1>6. CASE x = next
  <2>1. /\ next.pc = "rebuild" /\ next.alone = r.alone /\ next.seen = r.seen
        /\ next.write = r.write
    BY <1>1 DEF RunState
  <2> HIDE DEF next
  <2>2. Tidy(next) /\ Past(next)
    BY <1>1, <2>1 DEF Tidy, Past
  <2> QED BY <1>3, <1>4, <1>5, <1>6, <2>1, <2>2, TailMirrors
<1>7. CASE x \in {Ended("done"), Idle}
  <2>1. Tidy(x) /\ x.pc \in {"done", "idle"}
    BY <1>7, EndedEmpty, EndedParts, IdleParts
  <2>2. ~Active(x) /\ Past(x)
    BY <2>1 DEF Active, Past
  <2> QED BY <1>3, <1>4, <1>5, <2>1, <2>2, TailMirrors
<1> QED BY <1>2, <1>6, <1>7

\* Every step of a run advances it.
LEMMA StepMirrors ==
  ASSUME Inv, MirrorInv, NEW s \in Syncers, Step(s) PROVE Advanced(s)
BY ListInboundsMirrors, AddMissingMirrors, UpdateOutdatedMirrors, FlipEnableMirrors,
   DeleteStaleMirrors, RefetchMirrors, EnsureServerInboundsMirrors,
   ListInboundsByServerMirrors, ListClientsMirrors, CreateMissingMirrors,
   AttachMissingMirrors, UpdateChangedMirrors, WriteNewMirrors, DeleteUnwantedMirrors,
   DetachMovedMirrors, FinishMirrors, ListAgainMirrors, StoredMirrors
   DEF Step, InboundPhase, ReadBack, ClientPhase, Refresh

\* What is in hand does not depend on the history, and what a run knows not on whether
\* it is alone.
LEMMA HistoryTells ==
  ASSUME NEW r \in RunState, Tidy(r)
  PROVE  /\ Tidy([r EXCEPT !.alone = FALSE]) /\ Tidy([r EXCEPT !.calm = FALSE])
         /\ [r EXCEPT !.alone = FALSE].alone = FALSE
         /\ [r EXCEPT !.calm = FALSE].calm = FALSE
         /\ [r EXCEPT !.calm = FALSE].alone = r.alone
         /\ [r EXCEPT !.calm = FALSE].clear = r.clear
         /\ \A p : Knows(r, p) => Knows([r EXCEPT !.calm = FALSE], p)
<1> DEFINE a == [r EXCEPT !.alone = FALSE]
           c == [r EXCEPT !.calm = FALSE]
<1>1. /\ a.seen = r.seen /\ a.pc = r.pc /\ a.write = r.write /\ a.created = r.created
      /\ a.flip = r.flip /\ a.push = r.push /\ a.plan = r.plan /\ a.alone = FALSE
  BY DEF RunState
<1>2. /\ c.seen = r.seen /\ c.pc = r.pc /\ c.write = r.write /\ c.created = r.created
      /\ c.flip = r.flip /\ c.push = r.push /\ c.plan = r.plan /\ c.calm = FALSE
      /\ c.todo = r.todo /\ c.stale = r.stale /\ c.prune = r.prune
      /\ c.alone = r.alone /\ c.clear = r.clear
  BY DEF RunState
<1> HIDE DEF a, c
<1>3. Tidy(a) /\ Tidy(c)
  BY <1>1, <1>2 DEF Tidy
<1>4. ASSUME NEW p, Knows(r, p) PROVE Knows(c, p)
  <2>1. Ready(r, p) => Ready(c, p)
    <3>1. \A m : Made(r, m, p) => Made(c, m, p)
      BY <1>2 DEF Made
    <3> QED BY <1>2, <3>1 DEF Ready
  <2>2. /\ InboundsMirror(r, p) => InboundsMirror(c, p)
        /\ Underway(r, p) => Underway(c, p)
    BY <1>2 DEF InboundsMirror, Underway
  <2> QED BY <1>2, <1>4, <2>1, <2>2 DEF Knows
<1> QED BY <1>1, <1>2, <1>3, <1>4 DEF a, c

\* Begin: the others are not alone any more.
LEMMA BeginMirrors ==
  ASSUME Inv, MirrorInv, NEW s \in Syncers, NEW r, Begin(s, r),
         \A b \in BOOLEAN : /\ Tidy([r EXCEPT !.alone = b])
                            /\ Told([r EXCEPT !.alone = b], target),
         cache' = cache, target' = target
  PROVE  MirrorInv'
<1> DEFINE solo == \A u \in Syncers \ {s} : ~Active(run[u])
           first == [r EXCEPT !.alone = solo]
<1>1. run \in [Syncers -> RunState]
  BY DEF Inv, TypeOK
<1>2. run' = [t \in Syncers |->
                IF t = s THEN first
                ELSE IF Active(run[t]) THEN [run[t] EXCEPT !.alone = FALSE] ELSE run[t]]
  BY DEF Begin
<1>3. solo \in BOOLEAN
  OBVIOUS
<1> HIDE DEF solo
<1>4. Tidy(first) /\ Told(first, target)
  BY <1>3
<1> HIDE DEF first
<1>5. run'[s] = first
  BY <1>2
<1>6. ASSUME NEW t \in Syncers, t # s
      PROVE  Tidy(run'[t]) /\ ~(Active(run'[t]) /\ run'[t].alone)
  <2>1. Tidy(run[t]) /\ run[t] \in RunState
    BY <1>1 DEF MirrorInv
  <2>2. CASE Active(run[t])
    BY <1>2, <1>6, <2>1, <2>2, HistoryTells
  <2>3. CASE ~Active(run[t])
    BY <1>2, <1>6, <2>1, <2>3
  <2> QED BY <2>2, <2>3
<1> QED BY <1>4, <1>5, <1>6 DEF MirrorInv

\* Start: the new run knows whether the panel is coherent.
LEMMA StartMirrors ==
  ASSUME Inv, MirrorInv, NEW s \in Syncers, Start(s) PROVE MirrorInv'
<1> DEFINE r == [Idle EXCEPT !.pc = "list", !.plan = main, !.calm = Coherent(target)]
<1>1. Begin(s, r) /\ cache' = cache /\ target' = target
  BY DEF Start
<1>2. ASSUME NEW b \in BOOLEAN
      PROVE  Tidy([r EXCEPT !.alone = b]) /\ Told([r EXCEPT !.alone = b], target)
  <2> DEFINE x == [r EXCEPT !.alone = b]
  <2>1. /\ x.pc = "list" /\ x.seen = [inbounds |-> {}, clients |-> {}]
        /\ x.flip = {} /\ x.write = {} /\ x.created = {} /\ x.calm = Coherent(target)
    BY DEF Idle
  <2> HIDE DEF x
  <2>2. Tidy(x) /\ Told(x, target)
    BY <2>1 DEF Tidy, Distinct, Told, Knows, Calm
  <2> QED BY <2>2 DEF x
<1> HIDE DEF r
<1> QED BY <1>1, <1>2, BeginMirrors

\* Import holds a listing and knows nothing of the panel.
LEMMA ImportMirrors ==
  ASSUME Inv, MirrorInv, NEW s \in Syncers, Import(s) PROVE MirrorInv'
<1> DEFINE seen == [inbounds |-> target.inbounds, clients |-> target.clients]
           r == [Idle EXCEPT !.pc = "import", !.seen = seen]
<1>1. Begin(s, r) /\ cache' = cache /\ target' = target
  BY DEF Import
<1>2. Distinct(seen)
  BY RunFacts DEF Distinct
<1> HIDE DEF seen
<1>3. ASSUME NEW b \in BOOLEAN
      PROVE  Tidy([r EXCEPT !.alone = b]) /\ Told([r EXCEPT !.alone = b], target)
  <2> DEFINE x == [r EXCEPT !.alone = b]
  <2>1. x.pc = "import" /\ x.seen = seen /\ x.write = {}
    BY DEF Idle
  <2> HIDE DEF x
  <2>2. Tidy(x) /\ Told(x, target)
    BY <1>2, <2>1 DEF Tidy, Told, Knows, Calm
  <2> QED BY <2>2 DEF x
<1> HIDE DEF r
<1> QED BY <1>1, <1>3, BeginMirrors

\* What a run knows holds on every panel with the same inbounds and the same entries, but
\* for their switches.
LEMMA FrameTells ==
  ASSUME NEW r, NEW p, NEW q, q.inbounds = p.inbounds,
         SameEntries(p, q), SameEntries(q, p), Knows(r, p)
  PROVE  Knows(r, q)
<1>1. Ready(r, p) => Ready(r, q)
  <2>1. \A m : Made(r, m, p) => Made(r, m, q)
    BY DEF Made
  <2> QED BY <2>1 DEF Ready
<1>2. InboundsMirror(r, p) => InboundsMirror(r, q)
  BY DEF InboundsMirror
<1>3. SameEntries(p, r.seen) /\ SameEntries(r.seen, p)
      => SameEntries(q, r.seen) /\ SameEntries(r.seen, q)
  <2>1. \A x, y, z : SameEntries(x, y) /\ SameEntries(y, z) => SameEntries(x, z)
    <3> SUFFICES ASSUME NEW x, NEW y, NEW z, SameEntries(x, y), SameEntries(y, z),
                        NEW a \in x.clients
                 PROVE  \E c \in z.clients : c.id = a.id /\ c.email = a.email /\ c.cred = a.cred
      BY DEF SameEntries
    <3>1. PICK b \in y.clients : b.id = a.id /\ b.email = a.email /\ b.cred = a.cred
      BY DEF SameEntries
    <3> QED BY <3>1 DEF SameEntries
  <2> QED BY <2>1
<1>4. Underway(r, p) => Underway(r, q)
  <2>1. \A id, w : There(p, id, w) => There(q, id, w)
    <3> SUFFICES ASSUME NEW id, NEW w, There(p, id, w) PROVE There(q, id, w)
      OBVIOUS
    <3>1. PICK a \in p.clients : a.id = id /\ a.email = w.email /\ a.cred = w.cred
      BY DEF There
    <3> QED BY <3>1 DEF There, SameEntries
  <2>2. ASSUME Underway(r, p), NEW b \in q.clients
        PROVE  \/ \E w \in r.plan.clients : w.key = KeyOf(r.seen, b.id) /\ w.email = b.email
               \/ \E d \in r.prune : d.id = b.id /\ d.email = b.email
    <3>1. PICK a \in p.clients : a.id = b.id /\ a.email = b.email
      BY DEF SameEntries
    <3> QED BY <2>2, <3>1 DEF Underway
  <2> QED BY <2>1, <2>2 DEF Underway
<1> QED BY <1>1, <1>2, <1>3, <1>4 DEF Knows

\* TargetSwitches: no run is calm after it, and nothing else changes.
LEMMA TargetSwitchesMirrors ==
  ASSUME Inv, MirrorInv, TargetSwitches PROVE MirrorInv'
<1>1. PICK row \in target.rows : target' = SwitchClient(target, row.email)
  BY DEF TargetSwitches
<1>2. /\ run \in [Syncers -> RunState] /\ target \in PanelState /\ WellFormed(target)
      /\ row.email \in Emails /\ Distinct(cache')
  BY DEF Inv, TypeOK, PanelState, Row, MirrorInv, TargetSwitches
<1>3. /\ WellFormed(target') /\ target'.inbounds = target.inbounds
      /\ SameEntries(target, target') /\ SameEntries(target', target)
  BY <1>1, <1>2, SwitchClientMakes DEF SameEntries
<1>4. run' = [s \in Syncers |-> IF Active(run[s]) THEN [run[s] EXCEPT !.calm = FALSE]
                                ELSE run[s]]
  BY DEF TargetSwitches
<1>5. ASSUME NEW t \in Syncers
      PROVE  Tidy(run'[t]) /\ (Active(run'[t]) /\ run'[t].alone => Told(run'[t], target'))
  <2>1. Tidy(run[t]) /\ run[t] \in RunState
    BY <1>2 DEF MirrorInv
  <2>2. CASE Active(run[t])
    <3>1. run'[t] = [run[t] EXCEPT !.calm = FALSE]
      BY <1>4, <2>2
    <3>2. /\ Tidy(run'[t]) /\ run'[t].calm = FALSE
          /\ run'[t].alone = run[t].alone /\ run'[t].clear = run[t].clear
          /\ \A p : Knows(run[t], p) => Knows(run'[t], p)
      BY <2>1, <3>1, HistoryTells
    <3>3. run[t].alone /\ run[t].clear => Knows(run[t], target)
      BY <2>2 DEF MirrorInv, Told
    <3>4. run[t].alone /\ run[t].clear => Knows(run'[t], target')
      BY <1>3, <3>2, <3>3, FrameTells
    <3> QED BY <3>2, <3>4 DEF Told
  <2>3. CASE ~Active(run[t])
    BY <1>4, <2>1, <2>3
  <2> QED BY <2>2, <2>3
<1> QED BY <1>2, <1>3, <1>5 DEF MirrorInv

\* At the start the target is well-formed and no run knows anything.
LEMMA InitMirrors == Init => MirrorInv
<1> SUFFICES ASSUME Init PROVE MirrorInv
  OBVIOUS
<1>1. /\ WellFormed(target) /\ Distinct(cache)
      /\ \A s \in Syncers : run[s] = Idle
  BY ChoicesAssumption DEF Init, Distinct
<1>2. Idle.pc = "idle" /\ Idle.seen = [inbounds |-> {}, clients |-> {}] /\ Idle.write = {}
  BY DEF Idle
<1>3. Tidy(Idle) /\ ~Active(Idle)
  BY <1>2 DEF Tidy, Distinct, Active
<1> QED BY <1>1, <1>3 DEF MirrorInv

\* Every step keeps what the runs know.
LEMMA NextMirrors == Inv /\ MirrorInv /\ [Next]_vars => MirrorInv'
<1> SUFFICES ASSUME Inv, MirrorInv, [Next]_vars PROVE MirrorInv'
  OBVIOUS
<1>1. ASSUME NEW s \in Syncers, Start(s) \/ Import(s) PROVE MirrorInv'
  BY <1>1, StartMirrors, ImportMirrors
<1>2. ASSUME NEW s \in Syncers, Step(s) PROVE MirrorInv'
  BY <1>2, StepMirrors DEF Advanced
<1>3. CASE TargetSwitches
  BY <1>3, TargetSwitchesMirrors
<1>4. CASE MainChanges \/ UNCHANGED vars
  BY <1>4 DEF vars, MainChanges, MirrorInv
<1> QED BY <1>1, <1>2, <1>3, <1>4 DEF Next

\* What a run knows of the target holds in every behaviour.
THEOREM RunsKnowTarget == Spec => []MirrorInv
<1> QED BY Invariant, InitMirrors, NextMirrors, PTL DEF Spec

\* A step of one run leaves the others alone.
LEMMA OthersStand ==
  ASSUME Inv, NEW s \in Syncers, NEW u \in Syncers, u # s, Step(u)
  PROVE  run'[s] = run[s]
BY DEF Step, InboundPhase, ReadBack, ClientPhase, Refresh, ListInbounds, AddMissing,
   UpdateOutdated, FlipEnable, DeleteStale, Refetch, EnsureServerInbounds,
   ListInboundsByServer, ListClients, CreateMissing, AttachMissing, UpdateChanged,
   WriteNew, DeleteUnwanted, DetachMoved, Finish, ListAgain, Recache, Rebuild,
   ImportCaches, Stored, Call, ReadFails, Inv, TypeOK

\* When nothing is left to push, to write or to prune, the panel mirrors the plan.
LEMMA UnderwayMirrors ==
  ASSUME NEW r, WellFormedPlan(r.plan), NEW p, WellFormed(p),
         InboundsMirror(r, p), Underway(r, p), r.push = {}, r.write = {}, r.prune = {}
  PROVE  Mirrors(r.plan, p)
<1>1. r.seen.inbounds = p.inbounds /\ UniqueIds(p) /\ Registered(p) /\ Sound(p)
  BY WellFormedParts DEF InboundsMirror, Sound
<1>2. \A i \in p.inbounds : KeyOf(r.seen, i.id) = i.key /\ KeyOf(p, i.id) = i.key
  BY <1>1, KeyOfListed DEF UniqueIds
<1>3. {[key |-> i.key, port |-> i.port, conf |-> i.conf, enable |-> i.enable] :
         i \in p.inbounds} = r.plan.inbounds
  BY DEF InboundsMirror, As
<1>4. ASSUME NEW w \in r.plan.clients
      PROVE  \E a \in p.clients :
               KeyOf(p, a.id) = w.key /\ a.email = w.email /\ a.cred = w.cred
  <2>1. PICK m \in r.plan.inbounds : m.key = w.key
    BY DEF WellFormedPlan, MainKeys
  <2>2. PICK i \in p.inbounds : i.key = w.key
    BY <1>3, <2>1
  <2>3. There(p, i.id, w)
    BY <1>1, <2>2 DEF Underway
  <2> QED BY <1>2, <2>2, <2>3 DEF There
<1>5. ASSUME NEW a \in p.clients
      PROVE  \E w \in r.plan.clients :
               KeyOf(p, a.id) = w.key /\ a.email = w.email /\ a.cred = w.cred
  <2>1. PICK i \in p.inbounds : i.id = a.id
    BY <1>1 DEF Sound, HasInbound
  <2>2. PICK w \in r.plan.clients : w.key = i.key /\ w.email = a.email
    BY <1>2, <2>1 DEF Underway
  <2>3. PICK b \in p.clients : b.id = a.id /\ b.email = a.email /\ b.cred = w.cred
    BY <1>1, <2>1, <2>2 DEF Underway, There
  <2>4. a = b
    BY <1>1, <2>3 DEF Registered
  <2> QED BY <1>2, <2>1, <2>2, <2>3, <2>4
<1>6. {<<KeyOf(p, a.id), a.email, a.cred>> : a \in p.clients} =
      {<<w.key, w.email, w.cred>> : w \in r.plan.clients}
  BY <1>4, <1>5
<1> QED BY <1>3, <1>6 DEF Mirrors

\* Only Finish reports success.
LEMMA OnlyFinishSucceeds ==
  ASSUME Inv, NEW s \in Syncers, Next, run[s].pc = "clients", run'[s].pc = "synced"
  PROVE  Finish(s)
<1> DEFINE r == run[s]
<1>1. run \in [Syncers -> RunState] /\ run[s] \in RunState
  BY DEF Inv, TypeOK
<1>2. Ended("failed").pc = "failed"
  BY EndedParts
<1>3. CASE Step(s)
  <2>1. \A results, next : Call(s, results, next) /\ next.pc = "clients" => FALSE
    BY <1>1, <1>2 DEF Call
  <2>2. ~CreateMissing(s)
    <3> SUFFICES ASSUME CreateMissing(s) PROVE FALSE
      OBVIOUS
    <3> DEFINE next(x) == [r EXCEPT !.push = @ \ {x}, !.created = @ \cup {Payload(r, x)},
                                  !.write = {[id |-> x.id, client |-> Payload(r, x)]}]
    <3>1. PICK x \in r.push : Call(s, CreateClient(target, Payload(r, x), x.id), next(x))
      BY DEF CreateMissing
    <3>2. next(x).pc = "clients"
      BY <1>1 DEF RunState
    <3> HIDE DEF next
    <3> QED BY <2>1, <3>1, <3>2
  <2>3. ~AttachMissing(s)
    <3> SUFFICES ASSUME AttachMissing(s) PROVE FALSE
      OBVIOUS
    <3> DEFINE next(x) == [r EXCEPT !.push = @ \ {x},
                                  !.write = {[id |-> x.id, client |-> Payload(r, x)]}]
    <3>1. PICK x \in r.push : Call(s, AttachClient(target, x.want.email, x.id), next(x))
      BY DEF AttachMissing
    <3>2. next(x).pc = "clients"
      BY <1>1 DEF RunState
    <3> HIDE DEF next
    <3> QED BY <2>1, <3>1, <3>2
  <2>4. ~UpdateChanged(s)
    <3> SUFFICES ASSUME UpdateChanged(s) PROVE FALSE
      OBVIOUS
    <3> DEFINE next(x) == [r EXCEPT !.push = @ \ {x}]
    <3>1. PICK x \in r.push : Call(s, UpdateClient(target, Payload(r, x), x.id), next(x))
      BY DEF UpdateChanged
    <3>2. next(x).pc = "clients"
      BY <1>1 DEF RunState
    <3> HIDE DEF next
    <3> QED BY <2>1, <3>1, <3>2
  <2>5. ~WriteNew(s)
    <3> SUFFICES ASSUME WriteNew(s) PROVE FALSE
      OBVIOUS
    <3> DEFINE next(x) == [r EXCEPT !.write = {}]
    <3>1. PICK x \in r.write : Call(s, UpdateClient(target, x.client, x.id), next(x))
      BY DEF WriteNew
    <3>2. next(x).pc = "clients"
      BY <1>1 DEF RunState
    <3> HIDE DEF next
    <3> QED BY <2>1, <3>1, <3>2
  <2>6. ~DeleteUnwanted(s)
    <3> SUFFICES ASSUME DeleteUnwanted(s) PROVE FALSE
      OBVIOUS
    <3> DEFINE next(x) == [r EXCEPT !.prune = {b \in @ : b.email # x.email}]
    <3>1. PICK x \in r.prune : Call(s, DeleteClient(target, x.email), next(x))
      BY DEF DeleteUnwanted
    <3>2. next(x).pc = "clients"
      BY <1>1 DEF RunState
    <3> HIDE DEF next
    <3> QED BY <2>1, <3>1, <3>2
  <2>7. ~DetachMoved(s)
    <3> SUFFICES ASSUME DetachMoved(s) PROVE FALSE
      OBVIOUS
    <3> DEFINE next(x) == [r EXCEPT !.prune = @ \ {x}]
    <3>1. PICK x \in r.prune : Call(s, DetachClient(target, x.email, x.id), next(x))
      BY DEF DetachMoved
    <3>2. next(x).pc = "clients"
      BY <1>1 DEF RunState
    <3> HIDE DEF next
    <3> QED BY <2>1, <3>1, <3>2
  <2> QED BY <1>3, <2>2, <2>3, <2>4, <2>5, <2>6, <2>7 DEF Step, InboundPhase, ReadBack,
             ClientPhase, Refresh, ListInbounds, AddMissing, UpdateOutdated, FlipEnable,
             DeleteStale, Refetch, EnsureServerInbounds, ListInboundsByServer, ListClients,
             ListAgain, Recache, Rebuild, ImportCaches
<1>4. ASSUME NEW u \in Syncers, Start(u) \/ Import(u) PROVE FALSE
  <2>1. run'[s] = [run[s] EXCEPT !.alone = FALSE] /\ u # s
    BY <1>4 DEF Start, Import, Begin, Active
  <2> QED BY <1>1, <2>1 DEF RunState
<1>5. ASSUME NEW u \in Syncers, u # s, Step(u) PROVE FALSE
  BY <1>5, OthersStand
<1>6. CASE TargetSwitches
  <2>1. run'[s] = [run[s] EXCEPT !.calm = FALSE]
    BY <1>6 DEF TargetSwitches, Active
  <2> QED BY <1>1, <2>1 DEF RunState
<1> QED BY <1>3, <1>4, <1>5, <1>6 DEF Next, MainChanges

\* A run that reports success, that no other run overlapped and whose matching was
\* unambiguous leaves the target as its plan wants it, whatever the target switched
\* meanwhile and however often the main panel changed.
THEOREM SuccessIsMirror == Spec => SuccessMirrors
<1>1. Inv /\ MirrorInv /\ [Next]_vars =>
        [\A s \in Syncers :
           run[s].pc = "clients" /\ run'[s].pc = "synced" /\ run[s].clear /\ run[s].alone
             => Mirrors(run[s].plan, target)]_vars
  <2> SUFFICES ASSUME Inv, MirrorInv, Next, NEW s \in Syncers, run[s].pc = "clients",
                      run'[s].pc = "synced", run[s].clear, run[s].alone
               PROVE  Mirrors(run[s].plan, target)
    OBVIOUS
  <2>1. run[s].push = {} /\ run[s].write = {} /\ run[s].prune = {} /\ Active(run[s])
    BY OnlyFinishSucceeds DEF Finish, Active
  <2>2. /\ InboundsMirror(run[s], target) /\ Underway(run[s], target)
        /\ WellFormed(target) /\ WellFormedPlan(run[s].plan)
    BY <2>1 DEF MirrorInv, Told, Knows, Inv, LocalInv
  <2> QED BY <2>1, <2>2, UnderwayMirrors
<1> QED BY <1>1, Invariant, RunsKnowTarget, PTL DEF Spec, SuccessMirrors

\* No step of a run that nobody disturbs changes the enable of a client that has a row or
\* the settings that the target keeps for itself.
THEOREM SettingsStay == Spec => TargetSettingsKept
<1>1. Inv /\ MirrorInv /\ [Next]_vars =>
        [\A s \in Syncers : StepOf(s) /\ run[s].calm /\ run[s].alone =>
           \A r \in target.rows, q \in target'.rows :
             q.email = r.email => q.enable = r.enable /\ q.own = r.own]_vars
  <2> SUFFICES ASSUME Inv, MirrorInv, Next, NEW s \in Syncers,
                      StepOf(s), run[s].calm, run[s].alone
               PROVE  RowsKept(target, target')
    BY DEF RowsKept, RowsAgree
  <2>1. CASE Step(s)
    BY <2>1, StepMirrors DEF Advanced
  <2>2. CASE target' = target
    BY <2>2, FewerRows DEF MirrorInv
  <2>3. CASE TargetSwitches
    <3>1. left.switches \in Nat /\ left'.switches = left.switches - 1
      BY <2>3 DEF Inv, TypeOK, TargetSwitches
    <3> QED BY <3>1 DEF StepOf
  <2>4. ASSUME NEW u \in Syncers, u # s, Step(u) PROVE FALSE
    BY <2>4, OthersStand DEF StepOf
  <2> QED BY <2>1, <2>2, <2>3, <2>4 DEF Next, Start, Import, MainChanges
<1> QED BY <1>1, Invariant, RunsKnowTarget, PTL DEF Spec, TargetSettingsKept

(***************************************************************************)
(* What every successful run makes of the target, while the plan stays.    *)
(***************************************************************************)

\* No inbound of panel p has the key of one main inbound and the port of another, and
\* no two main inbounds are on one port.
Uncrossed(plan, p) ==
  /\ \A m, n \in plan.inbounds : m.port = n.port => m = n
  /\ \A i \in p.inbounds : \A m, n \in plan.inbounds :
       i.key = m.key /\ i.port = n.port => m = n

\* A well-formed panel and a well-formed plan that are uncrossed.
Plain(plan, p) ==
  /\ p \in PanelState /\ WellFormed(p)
  /\ plan \in Plan /\ WellFormedPlan(plan)
  /\ Uncrossed(plan, p)

\* Inbound i has the key, port and configuration of j.
SameBody(i, j) == i.key = j.key /\ i.port = j.port /\ i.conf = j.conf

\* From p to q a matched inbound stays matched, and an inbound changes only to what its
\* main inbound has or is added for a main inbound that had no match.
Forward(plan, p, q) ==
  /\ p.next <= q.next
  /\ \A m \in plan.inbounds : \A i \in Match(p, m) :
       \E k \in q.inbounds : k.id = i.id /\ k \in Match(q, m)
  /\ \A k \in q.inbounds :
       \/ k \in p.inbounds
       \/ \E i \in p.inbounds, m \in plan.inbounds :
            /\ i.id = k.id /\ i \in Match(p, m)
            /\ SameBody(k, i) \/ SameBody(k, m)
            /\ k.enable = i.enable \/ k.enable = m.enable
       \/ k.id = p.next /\ \E m \in plan.inbounds : As(k) = m /\ Match(p, m) = {}

\* The inbounds of panel p are the plan's.
Level(plan, p) == {As(i) : i \in p.inbounds} = plan.inbounds

\* Client entry a of panel p is where the plan wants it.
InPlace(plan, p, a) == \E w \in plan.clients : w.key = KeyOf(p, a.id) /\ w.email = a.email

\* From p to q a client that is there as wanted stays, and entries are added only where
\* the plan wants them.
ClientsForward(plan, p, q) ==
  /\ \A w \in plan.clients, i \in p.inbounds :
       i.key = w.key /\ There(p, i.id, w) => There(q, i.id, w)
  /\ \A b \in q.clients :
       InPlace(plan, p, b) \/ \E a \in p.clients : a.id = b.id /\ a.email = b.email

\* What any step does to the target while the plan stays.
Settles(plan, p, q) ==
  Forward(plan, p, q) /\ (Level(plan, p) => ClientsForward(plan, p, q))

\* The parts of Plain that the arguments below use.
LEMMA PlainParts ==
  ASSUME NEW plan, NEW p, Plain(plan, p)
  PROVE  /\ Distinct(p) /\ Sound(p) /\ Registered(p)
         /\ p.next \in Nat /\ \A i \in p.inbounds : i.id \in Nat /\ i.id < p.next
         /\ \A m, n \in plan.inbounds : m.key = n.key \/ m.port = n.port => m = n
<1>1. Distinct(p) /\ Sound(p) /\ Registered(p) /\ p \in PanelState
  BY WellFormedParts DEF Plain
<1>2. p.next \in Nat /\ \A i \in p.inbounds : i.id \in Nat /\ i.id < p.next
  BY <1>1, IdsAssumption DEF PanelState, Inbound, Sound
<1>3. \A m, n \in plan.inbounds : m.key = n.key \/ m.port = n.port => m = n
  BY DEF Plain, Uncrossed, WellFormedPlan
<1> QED BY <1>1, <1>2, <1>3

\* An inbound matches at most one main inbound.
LEMMA MatchesOne ==
  ASSUME NEW plan, NEW x, Uncrossed(plan, x), WellFormedPlan(plan),
         NEW m \in plan.inbounds, NEW n \in plan.inbounds,
         NEW i \in Match(x, m), i \in Match(x, n)
  PROVE  m = n
<1>1. /\ i \in x.inbounds /\ (i.key = m.key \/ i.port = m.port)
      /\ (i.key = n.key \/ i.port = n.port)
  BY DEF Match, ByKey, ByPort
<1> QED BY <1>1 DEF Uncrossed, WellFormedPlan

\* An inbound with the key of a main inbound matches it.
LEMMA KeyMatches ==
  ASSUME NEW x, NEW m, NEW i \in x.inbounds, i.key = m.key PROVE i \in Match(x, m)
BY DEF Match, ByKey

\* The same inbounds, the same matches.
LEMMA SameMatches ==
  ASSUME NEW x, NEW y, x.inbounds = y.inbounds, NEW m PROVE Match(x, m) = Match(y, m)
BY DEF Match, ByKey, ByPort

\* What becomes of an inbound that stays.
LEMMA ForwardOld ==
  ASSUME NEW plan, NEW p, NEW q, Plain(plan, p), Forward(plan, p, q),
         NEW j \in p.inbounds, NEW k \in q.inbounds, k.id = j.id
  PROVE  \/ k = j
         \/ \E m \in plan.inbounds :
              /\ j \in Match(p, m)
              /\ SameBody(k, j) \/ SameBody(k, m)
              /\ k.enable = j.enable \/ k.enable = m.enable
<1>1. Distinct(p) /\ j.id # p.next
  <2>1. p.next \in Nat /\ j.id \in Nat /\ j.id < p.next /\ Distinct(p)
    BY PlainParts
  <2> QED BY <2>1
<1>2. CASE k \in p.inbounds
  BY <1>1, <1>2 DEF Distinct
<1>3. CASE \E i \in p.inbounds, m \in plan.inbounds :
             /\ i.id = k.id /\ i \in Match(p, m)
             /\ SameBody(k, i) \/ SameBody(k, m)
             /\ k.enable = i.enable \/ k.enable = m.enable
  <2>1. PICK i \in p.inbounds, m \in plan.inbounds :
             /\ i.id = k.id /\ i \in Match(p, m)
             /\ SameBody(k, i) \/ SameBody(k, m)
             /\ k.enable = i.enable \/ k.enable = m.enable
    BY <1>3
  <2>2. i = j
    BY <1>1, <2>1 DEF Distinct
  <2> QED BY <2>1, <2>2
<1> QED BY <1>1, <1>2, <1>3 DEF Forward

\* An inbound that matches m moves only towards m.
LEMMA ForwardMatched ==
  ASSUME NEW plan, NEW p, NEW q, Plain(plan, p), Forward(plan, p, q),
         NEW j \in p.inbounds, NEW k \in q.inbounds, k.id = j.id,
         NEW m \in plan.inbounds, j \in Match(p, m)
  PROVE  /\ SameBody(k, j) \/ SameBody(k, m)
         /\ k.enable = j.enable \/ k.enable = m.enable
<1>1. CASE k = j
  BY <1>1 DEF SameBody
<1>2. ASSUME NEW n \in plan.inbounds, j \in Match(p, n),
             SameBody(k, j) \/ SameBody(k, n), k.enable = j.enable \/ k.enable = n.enable
      PROVE  /\ SameBody(k, j) \/ SameBody(k, m)
             /\ k.enable = j.enable \/ k.enable = m.enable
  <2>1. n = m
    BY <1>2, MatchesOne DEF Plain
  <2> QED BY <1>2, <2>1
<1> QED BY <1>1, <1>2, ForwardOld

\* An inbound made as the main panel has it stays so.
LEMMA ForwardMade ==
  ASSUME NEW plan, NEW p, NEW q, Plain(plan, p), Forward(plan, p, q),
         NEW j \in p.inbounds, NEW m \in plan.inbounds, SameBody(j, m)
  PROVE  \E k \in q.inbounds :
           k.id = j.id /\ SameBody(k, m) /\ (k.enable = j.enable \/ k.enable = m.enable)
<1>1. j \in Match(p, m)
  BY KeyMatches DEF SameBody
<1>2. PICK k \in q.inbounds : k.id = j.id
  BY <1>1 DEF Forward
<1>3. (SameBody(k, j) \/ SameBody(k, m)) /\ (k.enable = j.enable \/ k.enable = m.enable)
  BY <1>1, <1>2, ForwardMatched
<1> QED BY <1>2, <1>3 DEF SameBody

\* The inbound of a main inbound that is as it should be does not change any more.
LEMMA ForwardEqual ==
  ASSUME NEW plan, NEW p, NEW q, Plain(plan, p), Forward(plan, p, q), q \in PanelState,
         NEW j \in p.inbounds, As(j) \in plan.inbounds
  PROVE  /\ \E k \in q.inbounds : k.id = j.id
         /\ \A k \in q.inbounds : k.id = j.id => k = j
<1>1. /\ SameBody(j, As(j)) /\ As(j).enable = j.enable /\ As(j).key = j.key
      /\ As(j).port = j.port /\ As(j).conf = j.conf
  BY DEF SameBody, As
<1>2. j \in Match(p, As(j))
  BY <1>1, KeyMatches
<1>3. \E k \in q.inbounds : k.id = j.id
  BY <1>2 DEF Forward
<1>4. ASSUME NEW k \in q.inbounds, k.id = j.id PROVE k = j
  <2>1. /\ SameBody(k, j) \/ SameBody(k, As(j))
        /\ k.enable = j.enable \/ k.enable = As(j).enable
    BY <1>2, <1>4, ForwardMatched
  <2>2. j \in Inbound /\ k \in Inbound
    BY DEF Plain, PanelState
  <2> QED BY <1>1, <1>4, <2>1, <2>2 DEF SameBody, Inbound
<1> QED BY <1>3, <1>4

\* An inbound that nothing matches stays as it is, and nothing matches it.
LEMMA ForwardUnmatched ==
  ASSUME NEW plan, NEW p, NEW q, Plain(plan, p), Forward(plan, p, q), Distinct(q),
         NEW j \in p.inbounds, \A m \in plan.inbounds : j \notin Match(p, m),
         NEW k \in q.inbounds, k.id = j.id
  PROVE  k = j /\ \A m \in plan.inbounds : k \notin Match(q, m)
<1>1. k = j
  BY ForwardOld
<1>2. ASSUME NEW m \in plan.inbounds, k \in Match(q, m) PROVE FALSE
  <2>1. j.key # m.key
    BY KeyMatches
  <2>2. j.port = m.port /\ ByKey(q, m) = {}
    BY <1>1, <1>2, <2>1 DEF Match, ByKey, ByPort
  <2>3. ByKey(p, m) # {}
    BY <2>2 DEF Match, ByPort
  <2>4. PICK x \in p.inbounds : x \in Match(p, m)
    BY <2>3 DEF Match, ByKey
  <2>5. PICK y \in q.inbounds : y.id = x.id /\ y \in Match(q, m)
    BY <2>4 DEF Forward
  <2>6. y.port = m.port
    BY <2>2, <2>5 DEF Match, ByPort
  <2>7. y = k
    BY <1>1, <2>2, <2>6 DEF Distinct
  <2>8. x = j
    BY <2>5, <2>7, PlainParts DEF Distinct
  <2> QED BY <2>4, <2>8
<1> QED BY <1>1, <1>2

\* The panel stays uncrossed.
LEMMA ForwardPlain ==
  ASSUME NEW plan, NEW p, NEW q, Plain(plan, p), Forward(plan, p, q),
         q \in PanelState, WellFormed(q)
  PROVE  Plain(plan, q)
<1>1. \A m, n \in plan.inbounds : m.key = n.key \/ m.port = n.port => m = n
  BY PlainParts
<1>2. ASSUME NEW k \in q.inbounds, NEW m \in plan.inbounds, NEW n \in plan.inbounds,
             k.key = m.key, k.port = n.port
      PROVE  m = n
  <2>1. ASSUME NEW i \in p.inbounds, k.key = i.key, k.port = i.port PROVE m = n
    BY <1>2, <2>1 DEF Plain, Uncrossed
  <2>2. ASSUME NEW l \in plan.inbounds, k.key = l.key, k.port = l.port PROVE m = n
    BY <1>1, <1>2, <2>2
  <2>3. ASSUME NEW l \in plan.inbounds, As(k) = l PROVE k.key = l.key /\ k.port = l.port
    BY <2>3 DEF As
  <2> QED BY <2>1, <2>2, <2>3 DEF Forward, SameBody
<1> QED BY <1>1, <1>2 DEF Plain, Uncrossed

\* A level panel has its inbounds for good.
LEMMA ForwardLevel ==
  ASSUME NEW plan, NEW p, NEW q, Plain(plan, p), Forward(plan, p, q),
         q \in PanelState, Level(plan, p)
  PROVE  q.inbounds = p.inbounds
<1>1. \A j \in p.inbounds : As(j) \in plan.inbounds
  BY DEF Level
<1>2. p.inbounds \subseteq q.inbounds
  BY <1>1, ForwardEqual
<1>3. ASSUME NEW k \in q.inbounds PROVE k \in p.inbounds
  <2>1. ASSUME NEW i \in p.inbounds, i.id = k.id PROVE k \in p.inbounds
    BY <1>1, <2>1, ForwardEqual
  <2>2. ASSUME NEW m \in plan.inbounds, Match(p, m) = {} PROVE FALSE
    <3>1. PICK j \in p.inbounds : As(j) = m
      BY DEF Level
    <3>2. j.key = m.key
      BY <3>1 DEF As
    <3> QED BY <2>2, <3>2, KeyMatches
  <2> QED BY <2>1, <2>2 DEF Forward
<1> QED BY <1>2, <1>3

(***************************************************************************)
(* The panel's operations settle the target.                               *)
(***************************************************************************)

\* Where keys and ports stay, matches stay.
LEMMA BodiesMatch ==
  ASSUME NEW p, NEW q, NEW m,
         \A y \in q.inbounds : \E x \in p.inbounds : x.key = y.key,
         NEW i \in Match(p, m), NEW k \in q.inbounds, k.key = i.key, k.port = i.port
  PROVE  k \in Match(q, m)
<1>1. CASE i.key = m.key
  BY <1>1, KeyMatches
<1>2. CASE i.key # m.key
  <2>1. ByKey(p, m) = {} /\ i.port = m.port
    BY <1>2 DEF Match, ByKey, ByPort
  <2>2. ByKey(q, m) = {}
    BY <2>1 DEF ByKey
  <2> QED BY <2>1, <2>2 DEF Match, ByPort
<1> QED BY <1>1, <1>2

\* A panel that keeps its inbounds.
LEMMA SameForward ==
  ASSUME NEW plan, NEW p, NEW q, q.inbounds = p.inbounds, p.next <= q.next
  PROVE  Forward(plan, p, q)
<1>1. \A m : Match(q, m) = Match(p, m)
  BY SameMatches
<1> QED BY <1>1, MatchListed DEF Forward

\* A panel that keeps its entries.
LEMMA SameClientsForward ==
  ASSUME NEW plan, NEW p, NEW q, q.clients = p.clients
  PROVE  ClientsForward(plan, p, q)
BY DEF ClientsForward, There

\* Nothing settles what nothing changes.
LEMMA SameSettles ==
  ASSUME NEW plan, NEW p \in PanelState PROVE Settles(plan, p, p)
<1>1. p.next <= p.next
  BY DEF PanelState
<1> QED BY <1>1, SameForward, SameClientsForward DEF Settles

\* inbounds/add is accepted only for a main inbound without a match.
LEMMA AddSettles ==
  ASSUME NEW plan, NEW p, Plain(plan, p), NEW m \in plan.inbounds,
         NEW q \in AddInbound(p, m)
  PROVE  /\ Settles(plan, p, q)
         /\ \E j \in q.inbounds : SameBody(j, m) /\ j.enable = m.enable
<1>1. /\ p \in PanelState /\ WellFormed(p) /\ m \in MainInbound /\ Sound(p)
      /\ \A i \in p.inbounds : i.id # p.next
      /\ \A n, l \in plan.inbounds : n.key = l.key => n = l
  BY PlainParts DEF Plain, Plan
<1>2. q.clients = p.clients /\ p.next <= q.next
  <2>1. q \in PanelState /\ q.clients = p.clients /\ p.next < q.next
    BY <1>1, AddInboundKeeps DEF MainInbound
  <2> QED BY <1>1, <2>1 DEF PanelState
<1>3. PICK j \in Inbound :
        /\ q.inbounds = p.inbounds \cup {j}
        /\ j.id = p.next /\ j.key = m.key /\ j.port = m.port
        /\ j.conf = m.conf /\ j.enable = m.enable
  BY <1>1, AddInboundMakes DEF MainInbound
<1>4. Match(p, m) = {}
  <2>1. \A i \in p.inbounds : i.key # m.key /\ i.port # m.port
    BY <1>1 DEF AddInbound, Fits
  <2> QED BY <2>1 DEF Match, ByKey, ByPort
<1>5. ASSUME NEW n \in plan.inbounds, NEW i \in Match(p, n)
      PROVE  i \in q.inbounds /\ i \in Match(q, n)
  <2>1. i \in p.inbounds /\ i \in q.inbounds
    BY <1>3, MatchListed
  <2>2. j.key # n.key
    BY <1>1, <1>3, <1>4, <1>5
  <2>3. ByKey(q, n) = ByKey(p, n) /\ ByPort(p, n) \subseteq ByPort(q, n)
    BY <1>3, <2>2 DEF ByKey, ByPort
  <2> QED BY <1>5, <2>1, <2>3 DEF Match
<1>6. As(j) = m
  BY <1>1, <1>3 DEF As, MainInbound
<1>7. Forward(plan, p, q)
  BY <1>2, <1>3, <1>4, <1>5, <1>6 DEF Forward
<1> QED BY <1>2, <1>3, <1>7, SameClientsForward DEF Settles, SameBody

\* inbounds/update of a matched inbound with its main inbound.
LEMMA UpdateSettles ==
  ASSUME NEW plan, NEW p, Plain(plan, p), NEW m \in plan.inbounds,
         NEW i \in Match(p, m), NEW q \in UpdateInbound(p, i.id, m)
  PROVE  /\ Settles(plan, p, q)
         /\ \E j \in q.inbounds : j.id = i.id /\ SameBody(j, m) /\ j.enable = i.enable
<1>1. /\ p \in PanelState /\ WellFormed(p) /\ m \in MainInbound /\ Sound(p) /\ Distinct(p)
      /\ i \in p.inbounds /\ i.id \in Ids /\ p.next \in Nat
      /\ \A n, l \in plan.inbounds : n.key = l.key => n = l
  BY PlainParts, MatchListed DEF Plain, Plan, PanelState, Inbound
<1>2. /\ q.clients = p.clients /\ q.next = p.next
      /\ \A x \in p.inbounds : x.id # i.id => x \in q.inbounds
  BY <1>1, UpdateInboundKeeps DEF MainInbound
<1>3. /\ WellFormed(q)
      /\ \A k \in q.inbounds : k.id # i.id => k \in p.inbounds
      /\ \E x \in p.inbounds, j \in q.inbounds :
           /\ x.id = i.id /\ j.id = i.id /\ j.enable = x.enable
           /\ j.key = m.key /\ j.port = m.port /\ j.conf = m.conf
  BY <1>1, UpdateInboundMakes DEF MainInbound
<1>4. PICK j \in q.inbounds :
        j.id = i.id /\ SameBody(j, m) /\ j.enable = i.enable
  BY <1>1, <1>3 DEF Distinct, SameBody
<1>5. \A k \in q.inbounds : k.id = i.id => k = j
  BY <1>3, <1>4, WellFormedParts DEF Distinct
<1>6. ASSUME NEW n \in plan.inbounds, NEW x \in Match(p, n)
      PROVE  \E k \in q.inbounds : k.id = x.id /\ k \in Match(q, n)
  <2>1. x \in p.inbounds
    BY MatchListed
  <2>2. CASE x.id = i.id
    <3>1. x = i
      BY <1>1, <2>1, <2>2 DEF Distinct
    <3>2. n = m
      BY <1>6, <3>1, MatchesOne DEF Plain
    <3> QED BY <1>4, <3>1, <3>2, KeyMatches DEF SameBody
  <2>3. CASE x.id # i.id
    <3>1. x \in q.inbounds
      BY <1>2, <2>1, <2>3
    <3>2. n # m
      BY <1>1, <1>6, <2>3, MatchOne
    <3>3. j.key # n.key
      BY <1>1, <1>4, <3>2 DEF SameBody
    <3>4. CASE x.key = n.key
      BY <3>1, <3>4, KeyMatches
    <3>5. CASE x.key # n.key
      <4>1. ByKey(p, n) = {} /\ x.port = n.port
        BY <1>6, <3>5 DEF Match, ByKey, ByPort
      <4>2. \A k \in q.inbounds : k = j \/ k \in p.inbounds
        BY <1>3, <1>5
      <4>3. ByKey(q, n) = {}
        BY <3>3, <4>1, <4>2 DEF ByKey
      <4> QED BY <3>1, <4>1, <4>3 DEF Match, ByPort
    <3> QED BY <3>1, <3>4, <3>5
  <2> QED BY <2>2, <2>3
<1>7. ASSUME NEW k \in q.inbounds
      PROVE  \/ k \in p.inbounds
             \/ /\ i.id = k.id /\ SameBody(k, m) /\ k.enable = i.enable
  BY <1>3, <1>4, <1>5
<1>8. Forward(plan, p, q)
  BY <1>1, <1>2, <1>6, <1>7 DEF Forward
<1> QED BY <1>2, <1>4, <1>8, SameClientsForward DEF Settles

\* inbounds/setEnable of an inbound that has its main inbound's configuration.
LEMMA FlipSettles ==
  ASSUME NEW plan, NEW p, Plain(plan, p), NEW m \in plan.inbounds,
         NEW i \in p.inbounds, SameBody(i, m), NEW q \in SetInboundEnable(p, i.id, m.enable)
  PROVE  /\ Settles(plan, p, q)
         /\ \A k \in q.inbounds : k.id = i.id => k.enable = m.enable
<1>1. /\ p \in PanelState /\ WellFormed(p) /\ m.enable \in BOOLEAN
      /\ Sound(p) /\ Distinct(p) /\ i.id \in Ids /\ p.next \in Nat
  BY PlainParts DEF Plain, Plan, MainInbound, PanelState, Inbound
<1>2. q.clients = p.clients /\ q.next = p.next /\ q \in PanelState
  BY <1>1, SetInboundEnableKeeps
<1>3. /\ WellFormed(q)
      /\ \A x \in p.inbounds : \E y \in q.inbounds :
           /\ y.id = x.id /\ y.key = x.key /\ y.port = x.port /\ y.conf = x.conf
           /\ y.enable = IF x.id = i.id THEN m.enable ELSE x.enable
      /\ \A y \in q.inbounds : \E x \in p.inbounds : x.id = y.id /\ x.key = y.key
  BY <1>1, SetInboundEnableMakes
<1>4. \A k \in q.inbounds : \E x \in p.inbounds :
        /\ k.id = x.id /\ k.key = x.key /\ k.port = x.port /\ k.conf = x.conf
        /\ k.enable = IF x.id = i.id THEN m.enable ELSE x.enable
  BY <1>3, WellFormedParts DEF Distinct
<1>5. ASSUME NEW n \in plan.inbounds, NEW x \in Match(p, n)
      PROVE  \E k \in q.inbounds : k.id = x.id /\ k \in Match(q, n)
  <2>1. PICK k \in q.inbounds : k.id = x.id /\ k.key = x.key /\ k.port = x.port
    BY <1>3, MatchListed
  <2>2. k \in Match(q, n)
    BY <1>3, <2>1, BodiesMatch
  <2> QED BY <2>1, <2>2
<1>6. i \in Match(p, m)
  BY KeyMatches DEF SameBody
<1>7. ASSUME NEW k \in q.inbounds
      PROVE  \/ k \in p.inbounds
             \/ i.id = k.id /\ SameBody(k, i) /\ k.enable = m.enable
  <2>1. PICK x \in p.inbounds :
        /\ k.id = x.id /\ k.key = x.key /\ k.port = x.port /\ k.conf = x.conf
        /\ k.enable = IF x.id = i.id THEN m.enable ELSE x.enable
    BY <1>4
  <2>2. CASE x.id = i.id
    BY <1>1, <2>1, <2>2 DEF Distinct, SameBody
  <2>3. CASE x.id # i.id
    <3>1. k \in Inbound /\ x \in Inbound
      BY <1>1, <1>2 DEF PanelState
    <3>2. k = x
      BY <2>1, <2>3, <3>1 DEF Inbound
    <3> QED BY <3>2
  <2> QED BY <2>2, <2>3
<1>8. Forward(plan, p, q)
  BY <1>1, <1>2, <1>5, <1>6, <1>7 DEF Forward
<1>9. \A k \in q.inbounds : k.id = i.id => k.enable = m.enable
  BY <1>4
<1> QED BY <1>2, <1>8, <1>9, SameClientsForward DEF Settles

\* inbounds/del of an inbound that nothing matches: a level panel has none.
LEMMA DeleteSettles ==
  ASSUME NEW plan, NEW p, Plain(plan, p), NEW id \in Ids,
         \A j \in p.inbounds : j.id = id => \A m \in plan.inbounds : j \notin Match(p, m),
         NEW q \in DeleteInbound(p, id)
  PROVE  Settles(plan, p, q) /\ \A k \in q.inbounds : k.id # id
<1>1. p \in PanelState /\ WellFormed(p) /\ Sound(p) /\ p.next \in Nat
  BY PlainParts DEF Plain
<1>2. q.next = p.next /\ q.inbounds = {i \in p.inbounds : i.id # id}
  BY <1>1, DeleteInboundMakes, DeleteInboundKeeps
<1>3. ASSUME NEW n \in plan.inbounds, NEW x \in Match(p, n)
      PROVE  x \in q.inbounds /\ x \in Match(q, n)
  <2>1. x \in q.inbounds
    BY <1>2, <1>3, MatchListed
  <2> QED BY <1>2, <1>3, <2>1, BodiesMatch
<1>4. Forward(plan, p, q)
  BY <1>1, <1>2, <1>3 DEF Forward
<1>5. ASSUME Level(plan, p) PROVE FALSE
  <2>1. PICK j \in p.inbounds : j.id = id
    BY DEF DeleteInbound, HasInbound
  <2>2. As(j) \in plan.inbounds /\ j.key = As(j).key
    BY <1>5 DEF Level, As
  <2> QED BY <2>1, <2>2, KeyMatches
<1> QED BY <1>2, <1>4, <1>5 DEF Settles

\* The key of an inbound of the panel.
LEMMA KeyPlaced ==
  ASSUME NEW plan, NEW p, Plain(plan, p), NEW i \in p.inbounds PROVE KeyOf(p, i.id) = i.key
BY PlainParts, KeyOfListed DEF Sound

\* Clients act on a panel without touching its inbounds.
LEMMA ClientSettles ==
  ASSUME NEW plan, NEW p \in PanelState, NEW q, q.inbounds = p.inbounds, q.next = p.next,
         ClientsForward(plan, p, q)
  PROVE  Settles(plan, p, q)
<1>1. p.next <= q.next
  BY DEF PanelState
<1> QED BY <1>1, SameForward DEF Settles

\* clients/add of a client where the plan wants it.
LEMMA CreateSettles ==
  ASSUME NEW plan, NEW p, Plain(plan, p), NEW c \in Row, NEW i \in p.inbounds,
         NEW w \in plan.clients, w.key = i.key, w.email = c.email, w.cred = c.cred,
         NEW q \in CreateClient(p, c, i.id)
  PROVE  /\ Settles(plan, p, q) /\ ClientsForward(plan, p, q) /\ q.inbounds = p.inbounds
         /\ There(q, i.id, w)
<1>1. p \in PanelState /\ WellFormed(p) /\ Sound(p) /\ i.id \in Ids
  BY PlainParts DEF Plain, PanelState, Inbound
<1>2. q.inbounds = p.inbounds /\ q.next = p.next
  BY <1>1, CreateClientKeeps
<1>3. PICK a \in Attachment :
        /\ q.clients = p.clients \cup {a}
        /\ a.id = i.id /\ a.email = c.email /\ a.cred = c.cred
  BY <1>1, CreateClientMakes
<1>4. InPlace(plan, p, a)
  BY <1>3, KeyPlaced DEF InPlace
<1>5. ClientsForward(plan, p, q)
  BY <1>3, <1>4 DEF ClientsForward, There
<1> QED BY <1>1, <1>2, <1>3, <1>5, ClientSettles DEF There

\* clients/attach of a client where the plan wants it.
LEMMA AttachSettles ==
  ASSUME NEW plan, NEW p, Plain(plan, p), NEW i \in p.inbounds,
         NEW w \in plan.clients, w.key = i.key, NEW q \in AttachClient(p, w.email, i.id)
  PROVE  Settles(plan, p, q) /\ ClientsForward(plan, p, q) /\ q.inbounds = p.inbounds
<1>1. /\ p \in PanelState /\ WellFormed(p) /\ Sound(p) /\ i.id \in Ids
      /\ w.email \in Emails
  BY PlainParts DEF Plain, PanelState, Inbound, Plan, Wanted
<1>2. q.inbounds = p.inbounds /\ q.next = p.next
  BY <1>1, AttachClientKeeps
<1>3. CASE q.clients = p.clients
  BY <1>1, <1>2, <1>3, SameClientsForward, ClientSettles
<1>4. CASE \E a \in Attachment :
             q.clients = p.clients \cup {a} /\ a.id = i.id /\ a.email = w.email
  <2>1. PICK a \in Attachment :
          q.clients = p.clients \cup {a} /\ a.id = i.id /\ a.email = w.email
    BY <1>4
  <2>2. InPlace(plan, p, a)
    BY <2>1, KeyPlaced DEF InPlace
  <2>3. ClientsForward(plan, p, q)
    BY <2>1, <2>2 DEF ClientsForward, There
  <2> QED BY <1>1, <1>2, <2>3, ClientSettles
<1> QED BY <1>1, <1>3, <1>4, AttachClientMakes

\* clients/update with what the plan wants there.
LEMMA UpdateClientSettles ==
  ASSUME NEW plan, NEW p, Plain(plan, p), NEW c \in Row, NEW i \in p.inbounds,
         NEW w \in plan.clients, w.key = i.key, w.email = c.email, w.cred = c.cred,
         NEW q \in UpdateClient(p, c, i.id)
  PROVE  /\ Settles(plan, p, q) /\ ClientsForward(plan, p, q) /\ q.inbounds = p.inbounds
         /\ There(q, i.id, w)
<1>1. p \in PanelState /\ WellFormed(p) /\ Sound(p) /\ Distinct(p) /\ i.id \in Ids
  BY PlainParts DEF Plain, PanelState, Inbound
<1>2. q.inbounds = p.inbounds /\ q.next = p.next
  BY <1>1, UpdateClientKeeps
<1>3. /\ EntryIn(p, i.id, c.email)
      /\ \A a \in p.clients : \E b \in q.clients :
              /\ b.id = a.id /\ b.email = a.email
              /\ IF a.id = i.id /\ a.email = c.email
                 THEN b.cred = c.cred /\ b.enable = c.enable ELSE b = a
      /\ \A b \in q.clients : \E a \in p.clients : b.id = a.id /\ b.email = a.email
  BY <1>1, UpdateClientMakes
<1>4. There(q, i.id, w)
  BY <1>3 DEF EntryIn, There
<1>5. ASSUME NEW v \in plan.clients, NEW j \in p.inbounds, j.key = v.key, There(p, j.id, v)
      PROVE  There(q, j.id, v)
  <2>1. PICK a \in p.clients : a.id = j.id /\ a.email = v.email /\ a.cred = v.cred
    BY <1>5 DEF There
  <2>2. CASE a.id = i.id /\ a.email = c.email
    <3>1. i = j
      BY <1>1, <2>1, <2>2 DEF Distinct
    <3>2. v = w
      BY <1>5, <2>1, <2>2, <3>1 DEF Plain, WellFormedPlan
    <3> QED BY <1>4, <3>1, <3>2
  <2>3. CASE ~(a.id = i.id /\ a.email = c.email)
    BY <1>3, <2>1, <2>3 DEF There
  <2> QED BY <2>2, <2>3
<1>6. ClientsForward(plan, p, q)
  BY <1>3, <1>5 DEF ClientsForward
<1> QED BY <1>1, <1>2, <1>4, <1>6, ClientSettles

\* clients/del of a client that the plan wants nowhere.
LEMMA DeleteClientSettles ==
  ASSUME NEW plan, NEW p, Plain(plan, p), NEW e \in Emails, ~WantedAnywhere(plan, e),
         NEW q \in DeleteClient(p, e)
  PROVE  /\ Settles(plan, p, q) /\ ClientsForward(plan, p, q) /\ q.inbounds = p.inbounds
         /\ q.clients = {a \in p.clients : a.email # e}
<1>1. p \in PanelState /\ WellFormed(p) /\ Sound(p)
  BY PlainParts DEF Plain
<1>2. /\ q.inbounds = p.inbounds /\ q.next = p.next
      /\ q.clients = {a \in p.clients : a.email # e}
  BY <1>1, DeleteClientKeeps, DeleteClientMakes
<1>3. \A w \in plan.clients : w.email # e
  BY DEF WantedAnywhere
<1>4. ClientsForward(plan, p, q)
  BY <1>2, <1>3 DEF ClientsForward, There
<1> QED BY <1>1, <1>2, <1>4, ClientSettles

\* clients/detach of a client where the plan does not want it.
LEMMA DetachSettles ==
  ASSUME NEW plan, NEW p, Plain(plan, p), NEW e \in Emails, NEW id \in Ids,
         \A w \in plan.clients : w.key = KeyOf(p, id) => w.email # e,
         NEW q \in DetachClient(p, e, id)
  PROVE  /\ Settles(plan, p, q) /\ ClientsForward(plan, p, q) /\ q.inbounds = p.inbounds
         /\ q.clients = {a \in p.clients : ~(a.id = id /\ a.email = e)}
<1>1. p \in PanelState /\ WellFormed(p) /\ Sound(p)
  BY PlainParts DEF Plain
<1>2. /\ q.inbounds = p.inbounds /\ q.next = p.next
      /\ q.clients = {a \in p.clients : ~(a.id = id /\ a.email = e)}
  BY <1>1, DetachClientKeeps, DetachClientMakes
<1>3. ASSUME NEW w \in plan.clients, NEW i \in p.inbounds, i.key = w.key,
             There(p, i.id, w)
      PROVE  There(q, i.id, w)
  <2>1. ~(i.id = id /\ w.email = e)
    BY <1>3, KeyPlaced
  <2> QED BY <1>2, <1>3, <2>1 DEF There
<1>4. ClientsForward(plan, p, q)
  BY <1>2, <1>3 DEF ClientsForward
<1> QED BY <1>1, <1>2, <1>4, ClientSettles

\* The panel's own switches change nothing that the plan has a say in.
LEMMA SwitchSettles ==
  ASSUME NEW plan, NEW p, Plain(plan, p), NEW e \in Emails, NEW q, q = SwitchClient(p, e)
  PROVE  Settles(plan, p, q)
<1>1. p \in PanelState /\ WellFormed(p) /\ Sound(p)
  BY PlainParts DEF Plain
<1>2. q.inbounds = p.inbounds /\ q.next = p.next
  BY <1>1, SwitchClientKeeps
<1>3. /\ \A a \in p.clients : \E b \in q.clients :
              b.id = a.id /\ b.email = a.email /\ b.cred = a.cred
      /\ \A b \in q.clients : \E a \in p.clients :
              b.id = a.id /\ b.email = a.email /\ b.cred = a.cred
  BY <1>1, SwitchClientMakes
<1>4. ClientsForward(plan, p, q)
  BY <1>3 DEF ClientsForward, There
<1> QED BY <1>1, <1>2, <1>4, ClientSettles

(***************************************************************************)
(* What a run knows of the target, whoever else is at work on it.          *)
(***************************************************************************)

\* Panel p has main inbound m, but perhaps for a switch that run r is about to flip.
DoneWith(r, m, p) ==
  \E j \in p.inbounds :
    /\ SameBody(j, m)
    /\ j.enable = m.enable \/ [id |-> j.id, enable |-> m.enable] \in r.flip

\* In the inbound loops: what was matched is still matched, what is done stays done, an
\* inbound to be updated has the switch it was listed with or already the right one; what
\* is to be deleted nobody matches; what was listed is stale or matched, and the rest is
\* as the plan has it.
InboundsDue(r, plan, p) ==
  /\ \A i \in r.seen.inbounds : i.id < p.next
  /\ \A m \in plan.inbounds : \A i \in Match(r.seen, m) :
       \E j \in p.inbounds : j.id = i.id /\ j \in Match(p, m)
  /\ \A m \in plan.inbounds \ r.todo : DoneWith(r, m, p)
  /\ \A m \in r.todo : \A i \in Match(r.seen, m), j \in p.inbounds :
       j.id = i.id => j.enable = i.enable \/ j.enable = m.enable
  /\ \A f, g \in r.flip : f = g
  /\ \A f \in r.flip : \E m \in plan.inbounds, j \in p.inbounds :
       j.id = f.id /\ SameBody(j, m) /\ m.enable = f.enable
  /\ \A i \in r.stale, j \in p.inbounds : j.id = i.id =>
       \A m \in plan.inbounds : j \notin Match(p, m)
  /\ \A i \in r.seen.inbounds, j \in p.inbounds : j.id = i.id =>
       i \in r.stale \/ \E m \in plan.inbounds : i \in Match(r.seen, m)
  /\ \A j \in p.inbounds : ~HasInbound(r.seen, j.id) => As(j) \in plan.inbounds

\* In listing l, whoever made it: a wanted client that is listed as wanted is there, and an
\* entry that is not where the plan wants it is listed.
ListedDue(l, plan, p) ==
  /\ \A w \in plan.clients, i \in p.inbounds : i.key = w.key =>
       \A a \in Entries(l, i.id, w.email) : a.cred = w.cred => There(p, i.id, w)
  /\ \A a \in p.clients :
       InPlace(plan, p, a) \/ \E b \in l.clients : b.id = a.id /\ b.email = a.email

\* Listing l will do for the client phase: the inbounds are the plan's, and it lists them.
Current(l, plan, p) == Level(plan, p) /\ l.inbounds = p.inbounds /\ ListedDue(l, plan, p)

\* In the client loops: a client of the plan is there, to be pushed or to be written, an
\* entry is where the plan wants it or to be pruned.
ClientsDue(r, plan, p) ==
  /\ \A w \in plan.clients, i \in p.inbounds : i.key = w.key =>
       \/ There(p, i.id, w)
       \/ \E x \in r.push : x.id = i.id /\ x.want = w
       \/ \E y \in r.write : /\ y.id = i.id /\ y.client.email = w.email
                             /\ y.client.cred = w.cred
  /\ \A a \in p.clients :
       InPlace(plan, p, a) \/ \E b \in r.prune : b.id = a.id /\ b.email = a.email

\* A synchronised panel.
Whole(plan, p) ==
  /\ Level(plan, p)
  /\ \A w \in plan.clients, i \in p.inbounds : i.key = w.key => There(p, i.id, w)
  /\ \A a \in p.clients : InPlace(plan, p, a)

\* What a run knows of the only plan there is.
Converges(r, plan, p) ==
  /\ r.pc \in {"list", "inbounds", "fetched", "stored", "rows", "clients"} => r.plan = plan
  /\ r.pc = "inbounds" => InboundsDue(r, plan, p)
  /\ r.pc \in {"fetched", "rows", "refresh", "rebuild"} => Current(r.seen, plan, p)
  /\ r.pc = "clients" =>
       Level(plan, p) /\ r.seen.inbounds = p.inbounds /\ ClientsDue(r, plan, p)
  /\ Succeeded(r) => Whole(plan, p)
  /\ r.pc # "import"

\* No request has seen another plan than the present one, the target is uncrossed, and what
\* a request that has stored its listing will read back will do, whoever stored it last.
QuietRuns ==
  /\ Uncrossed(main, target)
  /\ \A s \in Syncers : Converges(run[s], main, target)
  /\ \A s \in Syncers : run[s].pc = "stored" => Current(cache, main, target)

\* left.changes is MaxChanges until the main panel changes, left.imports is MaxImports
\* until somebody imports the target.
QuietInv ==
  /\ left.changes <= MaxChanges /\ left.imports <= MaxImports
  /\ left.changes = MaxChanges /\ left.imports = MaxImports => QuietRuns

\* An inbound of the later panel was there or is as the plan has it.
LEMMA ForwardBack ==
  ASSUME NEW plan, NEW p, NEW q, Forward(plan, p, q), NEW k \in q.inbounds
  PROVE  (\E j \in p.inbounds : j.id = k.id) \/ (k.id = p.next /\ As(k) \in plan.inbounds)
BY DEF Forward

\* What a run in the inbound loops knows, no step of another run takes away.
LEMMA InboundsDueStays ==
  ASSUME NEW plan, NEW p, NEW q, Plain(plan, p), Forward(plan, p, q),
         q \in PanelState, WellFormed(q),
         NEW r \in RunState, r.stale \subseteq r.seen.inbounds, r.todo \subseteq plan.inbounds,
         InboundsDue(r, plan, p)
  PROVE  InboundsDue(r, plan, q)
<1>1. /\ Distinct(p) /\ Distinct(q) /\ p.next \in Nat /\ q.next \in Nat /\ p.next <= q.next
      /\ \A i \in r.seen.inbounds : i.id \in Nat /\ i.id < p.next
  BY PlainParts, WellFormedParts, IdsAssumption
     DEF InboundsDue, Forward, PanelState, RunState, Listing, Inbound
<1>2. \A i \in r.seen.inbounds : i.id < q.next /\ i.id # p.next
  BY <1>1
<1>3. ASSUME NEW i \in r.seen.inbounds, NEW k \in q.inbounds, k.id = i.id
      PROVE  \E j \in p.inbounds : j.id = i.id
  BY <1>2, <1>3, ForwardBack
<1>4. \A m \in plan.inbounds : \A i \in Match(r.seen, m) :
        \E k \in q.inbounds : k.id = i.id /\ k \in Match(q, m)
  <2> SUFFICES ASSUME NEW m \in plan.inbounds, NEW i \in Match(r.seen, m)
               PROVE  \E k \in q.inbounds : k.id = i.id /\ k \in Match(q, m)
    OBVIOUS
  <2>1. PICK j \in p.inbounds : j.id = i.id /\ j \in Match(p, m)
    BY DEF InboundsDue
  <2> QED BY <2>1 DEF Forward
<1>5. ASSUME NEW m \in plan.inbounds \ r.todo PROVE DoneWith(r, m, q)
  <2>1. PICK j \in p.inbounds :
          /\ SameBody(j, m)
          /\ j.enable = m.enable \/ [id |-> j.id, enable |-> m.enable] \in r.flip
    BY DEF InboundsDue, DoneWith
  <2>2. PICK k \in q.inbounds :
          k.id = j.id /\ SameBody(k, m) /\ (k.enable = j.enable \/ k.enable = m.enable)
    BY <2>1, ForwardMade
  <2> QED BY <2>1, <2>2 DEF DoneWith
<1>6. ASSUME NEW m \in r.todo, NEW i \in Match(r.seen, m), NEW k \in q.inbounds, k.id = i.id
      PROVE  k.enable = i.enable \/ k.enable = m.enable
  <2>1. PICK j \in p.inbounds : j.id = i.id /\ j \in Match(p, m)
    BY DEF InboundsDue
  <2>2. j.enable = i.enable \/ j.enable = m.enable
    BY <2>1 DEF InboundsDue
  <2>3. k.enable = j.enable \/ k.enable = m.enable
    BY <1>6, <2>1, ForwardMatched
  <2> QED BY <2>2, <2>3
<1>7. ASSUME NEW f \in r.flip
      PROVE  \E m \in plan.inbounds, k \in q.inbounds :
               k.id = f.id /\ SameBody(k, m) /\ m.enable = f.enable
  <2>1. PICK m \in plan.inbounds, j \in p.inbounds :
          j.id = f.id /\ SameBody(j, m) /\ m.enable = f.enable
    BY DEF InboundsDue
  <2> QED BY <2>1, ForwardMade
<1>8. ASSUME NEW i \in r.stale, NEW k \in q.inbounds, k.id = i.id, NEW m \in plan.inbounds
      PROVE  k \notin Match(q, m)
  <2>1. PICK j \in p.inbounds : j.id = i.id
    BY <1>3, <1>8
  <2>2. \A n \in plan.inbounds : j \notin Match(p, n)
    BY <2>1 DEF InboundsDue
  <2> QED BY <1>1, <1>8, <2>1, <2>2, ForwardUnmatched
<1>9. ASSUME NEW i \in r.seen.inbounds, NEW k \in q.inbounds, k.id = i.id
      PROVE  i \in r.stale \/ \E m \in plan.inbounds : i \in Match(r.seen, m)
  BY <1>3, <1>9 DEF InboundsDue
<1>10. ASSUME NEW k \in q.inbounds, ~HasInbound(r.seen, k.id) PROVE As(k) \in plan.inbounds
  <2>1. ASSUME NEW j \in p.inbounds, j.id = k.id PROVE As(k) \in plan.inbounds
    <3>1. As(j) \in plan.inbounds
      BY <1>10, <2>1 DEF InboundsDue
    <3> QED BY <2>1, <3>1, ForwardEqual
  <2> QED BY <2>1, ForwardBack
<1>11. \A f, g \in r.flip : f = g
  BY DEF InboundsDue
<1> QED BY <1>2, <1>4, <1>5, <1>6, <1>7, <1>8, <1>9, <1>10, <1>11 DEF InboundsDue

\* A step on a level panel leaves what is there as wanted and adds only what is wanted.
LEMMA LevelStays ==
  ASSUME NEW plan, NEW p, NEW q, Plain(plan, p), Settles(plan, p, q), q \in PanelState,
         Level(plan, p)
  PROVE  /\ Level(plan, q) /\ q.inbounds = p.inbounds
         /\ \A w \in plan.clients, i \in p.inbounds :
              i.key = w.key /\ There(p, i.id, w) => There(q, i.id, w)
         /\ \A b \in q.clients :
              InPlace(plan, q, b) \/ \E a \in p.clients : a.id = b.id /\ a.email = b.email
         /\ \A a, b : a.id = b.id /\ a.email = b.email /\ InPlace(plan, p, a)
                        => InPlace(plan, q, b)
<1>1. q.inbounds = p.inbounds
  BY ForwardLevel DEF Settles
<1>2. \A a : InPlace(plan, q, a) <=> InPlace(plan, p, a)
  BY <1>1 DEF InPlace, KeyOf
<1>3. Level(plan, q)
  BY <1>1 DEF Level
<1> QED BY <1>1, <1>2, <1>3 DEF Settles, ClientsForward, InPlace

\* What a run in the client loops knows, no step of another run takes away.
LEMMA ClientsDueStay ==
  ASSUME NEW plan, NEW p, NEW q, Plain(plan, p), Settles(plan, p, q), q \in PanelState,
         Level(plan, p), NEW r, ClientsDue(r, plan, p)
  PROVE  ClientsDue(r, plan, q)
<1>1. /\ q.inbounds = p.inbounds
      /\ \A w \in plan.clients, i \in p.inbounds :
              i.key = w.key /\ There(p, i.id, w) => There(q, i.id, w)
      /\ \A b \in q.clients :
              InPlace(plan, q, b) \/ \E a \in p.clients : a.id = b.id /\ a.email = b.email
      /\ \A a, b : a.id = b.id /\ a.email = b.email /\ InPlace(plan, p, a)
                        => InPlace(plan, q, b)
  BY LevelStays
<1>2. ASSUME NEW w \in plan.clients, NEW i \in q.inbounds, i.key = w.key
      PROVE  \/ There(q, i.id, w)
             \/ \E x \in r.push : x.id = i.id /\ x.want = w
             \/ \E y \in r.write : /\ y.id = i.id /\ y.client.email = w.email
                                   /\ y.client.cred = w.cred
  BY <1>1, <1>2 DEF ClientsDue
<1>3. ASSUME NEW b \in q.clients
      PROVE  InPlace(plan, q, b) \/ \E d \in r.prune : d.id = b.id /\ d.email = b.email
  <2>1. ASSUME NEW a \in p.clients, a.id = b.id, a.email = b.email
        PROVE  InPlace(plan, q, b) \/ \E d \in r.prune : d.id = b.id /\ d.email = b.email
    <3>1. InPlace(plan, p, a) \/ \E d \in r.prune : d.id = a.id /\ d.email = a.email
      BY DEF ClientsDue
    <3> QED BY <1>1, <2>1, <3>1
  <2> QED BY <1>1, <2>1
<1> QED BY <1>2, <1>3 DEF ClientsDue

\* What a listing tells, no step of a run takes away.
LEMMA ListedDueStays ==
  ASSUME NEW plan, NEW p, NEW q, Plain(plan, p), Settles(plan, p, q), q \in PanelState,
         Level(plan, p), NEW l, ListedDue(l, plan, p)
  PROVE  ListedDue(l, plan, q)
<1>1. /\ q.inbounds = p.inbounds
      /\ \A w \in plan.clients, i \in p.inbounds :
              i.key = w.key /\ There(p, i.id, w) => There(q, i.id, w)
      /\ \A b \in q.clients :
              InPlace(plan, q, b) \/ \E a \in p.clients : a.id = b.id /\ a.email = b.email
      /\ \A a, b : a.id = b.id /\ a.email = b.email /\ InPlace(plan, p, a)
                        => InPlace(plan, q, b)
  BY LevelStays
<1>2. ASSUME NEW w \in plan.clients, NEW i \in q.inbounds, i.key = w.key,
             NEW a \in Entries(l, i.id, w.email), a.cred = w.cred
      PROVE  There(q, i.id, w)
  BY <1>1, <1>2 DEF ListedDue
<1>3. ASSUME NEW b \in q.clients
      PROVE  \/ InPlace(plan, q, b)
             \/ \E d \in l.clients : d.id = b.id /\ d.email = b.email
  <2>1. ASSUME NEW a \in p.clients, a.id = b.id, a.email = b.email
        PROVE  \/ InPlace(plan, q, b)
               \/ \E d \in l.clients : d.id = b.id /\ d.email = b.email
    <3>1. InPlace(plan, p, a) \/ \E d \in l.clients : d.id = a.id /\ d.email = a.email
      BY DEF ListedDue
    <3> QED BY <1>1, <2>1, <3>1
  <2> QED BY <1>1, <2>1
<1> QED BY <1>2, <1>3 DEF ListedDue

\* A listing that would do will do after any step.
LEMMA CurrentStays ==
  ASSUME NEW plan, NEW p, NEW q, Plain(plan, p), Settles(plan, p, q), q \in PanelState,
         NEW l, Current(l, plan, p)
  PROVE  Current(l, plan, q)
<1>1. Level(plan, p) /\ l.inbounds = p.inbounds /\ ListedDue(l, plan, p)
  BY DEF Current
<1>2. Level(plan, q) /\ q.inbounds = p.inbounds
  BY <1>1, LevelStays
<1>3. ListedDue(l, plan, q)
  BY <1>1, ListedDueStays
<1> QED BY <1>1, <1>2, <1>3 DEF Current

\* A listing just made of a level panel will do.
LEMMA CurrentFresh ==
  ASSUME NEW plan, NEW p, NEW l, l.inbounds = p.inbounds, l.clients = p.clients,
         Level(plan, p)
  PROVE  Current(l, plan, p)
<1>1. ListedDue(l, plan, p)
  BY DEF ListedDue, Entries, There
<1> QED BY <1>1 DEF Current

\* A synchronised panel stays synchronised.
LEMMA WholeStays ==
  ASSUME NEW plan, NEW p, NEW q, Plain(plan, p), Settles(plan, p, q), q \in PanelState,
         Whole(plan, p)
  PROVE  Whole(plan, q)
<1>1. Level(plan, p)
  BY DEF Whole
<1>2. /\ Level(plan, q) /\ q.inbounds = p.inbounds
      /\ \A w \in plan.clients, i \in p.inbounds :
              i.key = w.key /\ There(p, i.id, w) => There(q, i.id, w)
      /\ \A b \in q.clients :
              InPlace(plan, q, b) \/ \E a \in p.clients : a.id = b.id /\ a.email = b.email
      /\ \A a, b : a.id = b.id /\ a.email = b.email /\ InPlace(plan, p, a)
                        => InPlace(plan, q, b)
  BY <1>1, LevelStays
<1>3. \A w \in plan.clients, i \in q.inbounds : i.key = w.key => There(q, i.id, w)
  BY <1>2 DEF Whole
<1>4. \A b \in q.clients : InPlace(plan, q, b)
  BY <1>2 DEF Whole
<1> QED BY <1>2, <1>3, <1>4 DEF Whole

\* What a run knows, no step of another run takes away.
LEMMA ConvergesOn ==
  ASSUME NEW plan, NEW p, NEW q, Plain(plan, p), Settles(plan, p, q),
         q \in PanelState, WellFormed(q),
         NEW r \in RunState, LocalInv(r), Converges(r, plan, p)
  PROVE  Converges(r, plan, q)
<1>1. Forward(plan, p, q)
  BY DEF Settles
<1>2. CASE r.pc = "inbounds"
  <2>1. r.plan = plan /\ InboundsDue(r, plan, p)
    BY <1>2 DEF Converges
  <2>2. r.stale \subseteq r.seen.inbounds /\ r.todo \subseteq plan.inbounds
    BY <1>2, <2>1 DEF LocalInv, StaleInbounds
  <2>3. InboundsDue(r, plan, q)
    BY <1>1, <2>1, <2>2, InboundsDueStays
  <2> QED BY <1>2, <2>1, <2>3 DEF Converges, Succeeded
<1>3. CASE r.pc = "clients"
  <2>1. /\ Level(plan, p) /\ r.seen.inbounds = p.inbounds /\ ClientsDue(r, plan, p)
        /\ r.plan = plan
    BY <1>3 DEF Converges
  <2>2. Level(plan, q) /\ q.inbounds = p.inbounds
    BY <2>1, LevelStays
  <2>3. ClientsDue(r, plan, q)
    BY <2>1, ClientsDueStay
  <2> QED BY <1>3, <2>1, <2>2, <2>3 DEF Converges, Succeeded
<1>4. CASE r.pc \notin {"inbounds", "clients"}
  <2>1. Succeeded(r) => Whole(plan, q)
    BY WholeStays DEF Converges
  <2>2. r.pc \in {"fetched", "rows", "refresh", "rebuild"} => Current(r.seen, plan, q)
    BY CurrentStays DEF Converges
  <2> QED BY <1>4, <2>1, <2>2 DEF Converges
<1> QED BY <1>2, <1>3, <1>4

\* The invariants so far, of a state and of the next one.
Ground == Inv /\ MirrorInv /\ QuietRuns /\ Inv' /\ MirrorInv'

\* What a step of a run does while the plan stays.
Onward == Settles(main, target, target') /\ QuietRuns'

\* The target before and after a step.
LEMMA GroundPanel ==
  ASSUME Ground
  PROVE  Plain(main, target) /\ target' \in PanelState /\ WellFormed(target')
<1>1. main \in Plan /\ WellFormedPlan(main)
  BY ChoicesAssumption DEF Ground, Inv, TypeOK
<1>2. Plain(main, target)
  BY <1>1 DEF Ground, Inv, TypeOK, MirrorInv, QuietRuns, Plain
<1>3. target' \in PanelState /\ WellFormed(target')
  BY DEF Ground, Inv, TypeOK, MirrorInv
<1> QED BY <1>2, <1>3

\* The types and the knowledge that the steps below start from.
LEMMA GroundFacts ==
  ASSUME Ground, NEW s \in Syncers
  PROVE  /\ run[s] \in RunState /\ LocalInv(run[s]) /\ Tidy(run[s])
         /\ Plain(main, target) /\ Converges(run[s], main, target)
         /\ run[s].pc \in {"list", "inbounds", "fetched", "stored", "rows", "clients"}
              => run[s].plan = main
BY GroundPanel DEF Ground, Inv, TypeOK, MirrorInv, QuietRuns, Converges

\* When the panel settles, the runs that move know enough and what is stored will do, the
\* others know it still.
LEMMA SettledOn ==
  ASSUME Ground, main' = main, Settles(main, target, target'),
         \A u \in Syncers : run'[u] = run[u] \/ Converges(run'[u], main, target'),
         \/ /\ cache' = cache
            /\ \A u \in Syncers : run'[u].pc = "stored" => run[u].pc = "stored"
         \/ Current(cache', main, target')
  PROVE  Onward
<1>1. Plain(main, target) /\ target' \in PanelState /\ WellFormed(target')
  BY GroundPanel
<1>2. Uncrossed(main, target')
  BY <1>1, ForwardPlain DEF Settles, Plain
<1>3. ASSUME NEW u \in Syncers PROVE Converges(run'[u], main, target')
  <2>1. Converges(run[u], main, target')
    BY <1>1, GroundFacts, ConvergesOn
  <2> QED BY <2>1
<1>4. ASSUME NEW u \in Syncers, run'[u].pc = "stored" PROVE Current(cache', main, target')
  <2>1. CASE cache' = cache /\ run[u].pc = "stored"
    <3>1. Current(cache, main, target)
      BY <2>1 DEF Ground, QuietRuns
    <3> QED BY <1>1, <2>1, <3>1, CurrentStays
  <2> QED BY <1>4, <2>1
<1> QED BY <1>2, <1>3, <1>4 DEF Onward, QuietRuns

\* Run s goes on to next, and nothing is stored.
LEMMA MoveOn ==
  ASSUME Ground, NEW s \in Syncers, NEW next, run' = [run EXCEPT ![s] = next], main' = main,
         Settles(main, target, target'), Converges(next, main, target'),
         cache' = cache, next.pc # "stored"
  PROVE  Onward
<1>1. run'[s] = next /\ \A u \in Syncers \ {s} : run'[u] = run[u]
  BY DEF Ground, Inv, TypeOK
<1> QED BY <1>1, SettledOn

\* A run that failed knows nothing.
LEMMA FailedConverges ==
  ASSUME NEW plan, NEW p
  PROVE  Converges(Ended("failed"), plan, p) /\ Ended("failed").pc # "stored"
<1>1. Ended("failed").pc = "failed"
  BY EndedParts
<1> QED BY <1>1 DEF Converges, Succeeded

\* A step that changes nothing but run s.
LEMMA StayOn ==
  ASSUME Ground, NEW s \in Syncers, NEW next, run' = [run EXCEPT ![s] = next], main' = main,
         target' = target, Converges(next, main, target), cache' = cache, next.pc # "stored"
  PROVE  Onward
<1>1. Settles(main, target, target')
  BY SameSettles DEF Ground, Inv, TypeOK
<1> QED BY <1>1, MoveOn

\* A step that stores a listing which will do.
LEMMA StoreOn ==
  ASSUME Ground, NEW s \in Syncers, NEW next, run' = [run EXCEPT ![s] = next], main' = main,
         target' = target, Converges(next, main, target), Current(cache', main, target)
  PROVE  Onward
<1>1. Settles(main, target, target')
  BY SameSettles DEF Ground, Inv, TypeOK
<1>2. run'[s] = next /\ \A u \in Syncers \ {s} : run'[u] = run[u]
  BY DEF Ground, Inv, TypeOK
<1> QED BY <1>1, <1>2, SettledOn

\* A read or a statement that fails.
LEMMA ReadFailsOn ==
  ASSUME Ground, NEW s \in Syncers, NEW empty, ReadFails(s, empty) PROVE Onward
<1>1. /\ run' = [run EXCEPT ![s] = Ended("failed")] /\ main' = main
      /\ target' = target /\ cache' = cache
  BY DEF ReadFails
<1> QED BY <1>1, FailedConverges, StayOn

\* An HTTP write settles the target if every panel it can leave behind does.
LEMMA CallOn ==
  ASSUME Ground, NEW s \in Syncers, NEW results, NEW next, next.pc # "stored",
         \A q \in results : Settles(main, target, q) /\ Converges(next, main, q),
         Call(s, results, next)
  PROVE  Onward
<1>1. main' = main /\ cache' = cache
  BY DEF Call
<1>2. CASE target' \in results /\ run' = [run EXCEPT ![s] = next]
  BY <1>1, <1>2, MoveOn
<1>3. CASE /\ target' \in results \cup {target}
           /\ run' = [run EXCEPT ![s] = Ended("failed")]
  <2>1. Settles(main, target, target')
    BY <1>3, SameSettles DEF Ground, Inv, TypeOK
  <2> QED BY <1>1, <1>3, <2>1, FailedConverges, MoveOn
<1> QED BY <1>2, <1>3 DEF Call

\* ListInbounds: what was just listed is so.
LEMMA ListInboundsOn ==
  ASSUME Ground, NEW s \in Syncers, ListInbounds(s) PROVE Onward
<1> DEFINE r == run[s]
           seen == [inbounds |-> target.inbounds, clients |-> {}]
           next == [r EXCEPT !.pc = "inbounds", !.seen = seen,
                             !.todo = Outdated(r.plan, seen),
                             !.stale = StaleInbounds(r.plan, seen),
                             !.clear = Unambiguous(r.plan, seen)]
<1>1. r \in RunState /\ Tidy(r) /\ Plain(main, target)
  BY GroundFacts
<1>2. r.pc = "list" /\ r.plan = main
  <2>1. r.pc = "list"
    BY DEF ListInbounds
  <2> QED BY <2>1, GroundFacts
<1>3. CASE run' = [run EXCEPT ![s] = next] /\ UNCHANGED <<main, cache, target, left>>
  <2>1. /\ next.pc = "inbounds" /\ next.plan = r.plan /\ next.seen = seen
        /\ next.todo = Outdated(r.plan, seen)
        /\ next.stale = StaleInbounds(r.plan, seen) /\ next.flip = r.flip
    BY <1>1 DEF RunState
  <2>2. seen.inbounds = target.inbounds
    OBVIOUS
  <2> HIDE DEF seen, next
  <2>3. r.flip = {}
    BY <1>1, <1>2 DEF Tidy
  <2>4. \A m : Match(seen, m) = Match(target, m)
    BY <2>2, SameMatches
  <2>5. Distinct(target) /\ \A i \in target.inbounds : i.id < target.next
    BY <1>1, PlainParts
  <2>6. ASSUME NEW m \in main.inbounds \ Outdated(main, seen) PROVE DoneWith(next, m, target)
    <3>1. PICK i \in Match(seen, m) : Equivalent(m, i)
      BY <2>6 DEF Outdated
    <3>2. i \in target.inbounds
      BY <2>2, <3>1, MatchListed
    <3> QED BY <3>1, <3>2 DEF DoneWith, SameBody, Equivalent
  <2>7. ASSUME NEW i \in StaleInbounds(main, seen), NEW j \in target.inbounds, j.id = i.id,
               NEW m \in main.inbounds, j \in Match(target, m)
        PROVE  FALSE
    <3>1. j \in seen.inbounds /\ j \in Match(seen, m)
      BY <2>2, <2>4, <2>7
    <3>2. j.id \in UsedIds(main, seen)
      BY <3>1 DEF UsedIds
    <3> QED BY <2>7, <3>2 DEF StaleInbounds
  <2>8. ASSUME NEW i \in target.inbounds
        PROVE  \/ i \in StaleInbounds(main, seen)
               \/ \E m \in main.inbounds : i \in Match(target, m)
    <3>1. CASE i.key \in MainKeys(main)
      BY <3>1, KeyMatches DEF MainKeys
    <3>2. CASE i.id \in UsedIds(main, seen)
      <4>1. PICK j \in seen.inbounds :
              j.id = i.id /\ \E m \in main.inbounds : j \in Match(seen, m)
        BY <3>2 DEF UsedIds
      <4> QED BY <2>2, <2>4, <2>5, <4>1 DEF Distinct
    <3> QED BY <2>2, <3>1, <3>2 DEF StaleInbounds
  <2>9. InboundsDue(next, main, target)
    <3>1. \A m \in next.todo : \A i \in Match(seen, m), j \in target.inbounds :
            j.id = i.id => j.enable = i.enable \/ j.enable = m.enable
      BY <2>4, <2>5, MatchListed DEF Distinct
    <3>2. \A m \in main.inbounds : \A i \in Match(seen, m) :
            \E j \in target.inbounds : j.id = i.id /\ j \in Match(target, m)
      BY <2>4, MatchListed
    <3>3. \A i \in seen.inbounds, j \in target.inbounds : j.id = i.id =>
            i \in next.stale \/ \E m \in main.inbounds : i \in Match(seen, m)
      BY <1>2, <2>1, <2>2, <2>4, <2>8
    <3>4. \A j \in target.inbounds : HasInbound(seen, j.id)
      BY <2>2 DEF HasInbound
    <3>5. \A i \in next.stale, j \in target.inbounds : j.id = i.id =>
            \A m \in main.inbounds : j \notin Match(target, m)
      BY <1>2, <2>1, <2>7
    <3>6. \A m \in main.inbounds \ next.todo : DoneWith(next, m, target)
      BY <1>2, <2>1, <2>6
    <3> QED BY <2>1, <2>2, <2>3, <2>5, <3>1, <3>2, <3>3, <3>4, <3>5, <3>6 DEF InboundsDue
  <2>10. Converges(next, main, target)
    BY <1>2, <2>1, <2>9 DEF Converges, Succeeded
  <2> QED BY <1>3, <2>1, <2>10, StayOn
<1>4. CASE ReadFails(s, target.inbounds = {})
  BY <1>4, ReadFailsOn
<1> QED BY <1>3, <1>4 DEF ListInbounds

\* What the steps in the inbound loops start from.
LEMMA InboundsFacts ==
  ASSUME Ground, NEW s \in Syncers, run[s].pc = "inbounds"
  PROVE  /\ run[s] \in RunState /\ Plain(main, target) /\ run[s].plan = main
         /\ run[s].todo \subseteq main.inbounds /\ run[s].stale \subseteq run[s].seen.inbounds
         /\ Distinct(run[s].seen) /\ InboundsDue(run[s], main, target)
         /\ \A q : Settles(main, target, q) /\ q \in PanelState /\ WellFormed(q)
                     => InboundsDue(run[s], main, q)
<1> DEFINE r == run[s]
<1>2. /\ r \in RunState /\ LocalInv(r) /\ Tidy(r) /\ Plain(main, target)
      /\ Converges(r, main, target) /\ r.plan = main
  BY GroundFacts
<1>3. /\ r.todo \subseteq main.inbounds /\ r.stale \subseteq r.seen.inbounds
      /\ Distinct(r.seen) /\ InboundsDue(r, main, target)
  BY <1>2 DEF LocalInv, StaleInbounds, Tidy, Converges
<1>4. ASSUME NEW q, Settles(main, target, q), q \in PanelState, WellFormed(q)
      PROVE  InboundsDue(r, main, q)
  BY <1>2, <1>3, <1>4, InboundsDueStays DEF Settles
<1> QED BY <1>2, <1>3, <1>4

\* AddMissing: a main inbound more is done with.
LEMMA AddMissingOn ==
  ASSUME Ground, NEW s \in Syncers, AddMissing(s) PROVE Onward
<1> DEFINE r == run[s]
<1>1. PICK m \in r.todo : /\ r.pc = "inbounds"
                          /\ Call(s, AddInbound(target, m), [r EXCEPT !.todo = @ \ {m}])
  BY DEF AddMissing
<1>2. /\ r \in RunState /\ Plain(main, target) /\ r.plan = main /\ m \in main.inbounds
      /\ \A q : Settles(main, target, q) /\ q \in PanelState /\ WellFormed(q)
                  => InboundsDue(r, main, q)
  BY <1>1, InboundsFacts
<1> DEFINE next == [r EXCEPT !.todo = @ \ {m}]
<1>3. /\ next.pc = "inbounds" /\ next.plan = r.plan /\ next.seen = r.seen
      /\ next.stale = r.stale /\ next.todo = r.todo \ {m} /\ next.flip = r.flip
  BY <1>1, <1>2 DEF RunState
<1>4. Call(s, AddInbound(target, m), next)
  BY <1>1
<1> HIDE DEF next
<1>5. ASSUME NEW q \in AddInbound(target, m)
      PROVE  Settles(main, target, q) /\ Converges(next, main, q)
  <2>1. /\ Settles(main, target, q)
        /\ \E j \in q.inbounds : SameBody(j, m) /\ j.enable = m.enable
    BY <1>2, AddSettles
  <2>2. q \in PanelState /\ WellFormed(q)
    BY <1>2, PlainParts, AddInboundKeeps, AddInboundMakes DEF Plain, Plan, MainInbound
  <2>3. InboundsDue(r, main, q)
    BY <1>2, <2>1, <2>2
  <2>4. DoneWith(next, m, q)
    BY <2>1 DEF DoneWith
  <2>5. \A n \in main.inbounds \ next.todo : DoneWith(next, n, q)
    BY <1>3, <2>3, <2>4 DEF InboundsDue, DoneWith
  <2>6. InboundsDue(next, main, q)
    BY <1>3, <2>3, <2>5 DEF InboundsDue
  <2> QED BY <1>2, <1>3, <2>1, <2>6 DEF Converges, Succeeded
<1> QED BY <1>3, <1>4, <1>5, CallOn

\* UpdateOutdated: another one, but for a switch that is about to be flipped.
LEMMA UpdateOutdatedOn ==
  ASSUME Ground, NEW s \in Syncers, UpdateOutdated(s) PROVE Onward
<1> DEFINE r == run[s]
           flips(m, i) == IF m.enable # i.enable
                          THEN {[id |-> i.id, enable |-> m.enable]} ELSE {}
           after(m, i) == [r EXCEPT !.todo = @ \ {m}, !.flip = flips(m, i)]
<1>1. PICK m \in r.todo : \E i \in Match(r.seen, m) :
        /\ r.pc = "inbounds" /\ r.flip = {}
        /\ Call(s, UpdateInbound(target, i.id, m), after(m, i))
  BY DEF UpdateOutdated
<1>2. PICK i \in Match(r.seen, m) :
        /\ r.pc = "inbounds" /\ r.flip = {}
        /\ Call(s, UpdateInbound(target, i.id, m), after(m, i))
  BY <1>1
<1> DEFINE next == after(m, i)
<1> HIDE DEF flips
<1>3. /\ r \in RunState /\ Plain(main, target) /\ r.plan = main /\ m \in main.inbounds
      /\ InboundsDue(r, main, target)
      /\ \A q : Settles(main, target, q) /\ q \in PanelState /\ WellFormed(q)
                  => InboundsDue(r, main, q)
  BY <1>2, InboundsFacts
<1>4. /\ next.pc = "inbounds" /\ next.plan = r.plan /\ next.seen = r.seen
      /\ next.stale = r.stale /\ next.todo = r.todo \ {m} /\ next.flip = flips(m, i)
  BY <1>2, <1>3 DEF RunState
<1>5. Call(s, UpdateInbound(target, i.id, m), next)
  BY <1>2
<1> HIDE DEF next
<1>6. PICK k \in Match(target, m) : k \in target.inbounds /\ k.id = i.id
  BY <1>3, MatchListed DEF InboundsDue
<1>7. k.enable = i.enable \/ k.enable = m.enable
  BY <1>3, <1>6 DEF InboundsDue
<1>8. ASSUME NEW q \in UpdateInbound(target, i.id, m)
      PROVE  Settles(main, target, q) /\ Converges(next, main, q)
  <2>1. /\ Settles(main, target, q)
        /\ \E j \in q.inbounds : j.id = k.id /\ SameBody(j, m) /\ j.enable = k.enable
    BY <1>3, <1>6, UpdateSettles
  <2>2. q \in PanelState /\ WellFormed(q)
    <3>1. /\ target \in PanelState /\ WellFormed(target) /\ Sound(target)
          /\ m \in MainInbound /\ i.id \in Ids
      BY <1>3, <1>6, PlainParts DEF Plain, Plan, PanelState, Inbound
    <3> QED BY <3>1, UpdateInboundKeeps, UpdateInboundMakes DEF MainInbound
  <2>3. InboundsDue(r, main, q)
    BY <1>3, <2>1, <2>2
  <2>4. PICK j \in q.inbounds : j.id = i.id /\ SameBody(j, m) /\ j.enable = k.enable
    BY <1>6, <2>1
  <2>5. DoneWith(next, m, q)
    <3>1. j.enable = m.enable \/ [id |-> j.id, enable |-> m.enable] \in next.flip
      BY <1>4, <1>7, <2>4 DEF flips
    <3> QED BY <2>4, <3>1 DEF DoneWith
  <2>6. ASSUME NEW n \in main.inbounds \ r.todo PROVE DoneWith(next, n, q)
    BY <1>2, <2>3, <2>6 DEF InboundsDue, DoneWith
  <2>7. \A n \in main.inbounds \ next.todo : DoneWith(next, n, q)
    BY <1>4, <2>5, <2>6
  <2>8. \A f \in next.flip : f.id = i.id /\ f.enable = m.enable
    BY <1>4 DEF flips
  <2>9. \A f, g \in next.flip : f = g
    BY <1>4 DEF flips
  <2>10. \A f \in next.flip : \E n \in main.inbounds, x \in q.inbounds :
           x.id = f.id /\ SameBody(x, n) /\ n.enable = f.enable
    BY <1>3, <2>4, <2>8
  <2>11. InboundsDue(next, main, q)
    BY <1>4, <2>3, <2>7, <2>9, <2>10 DEF InboundsDue
  <2> QED BY <1>3, <1>4, <2>1, <2>11 DEF Converges, Succeeded
<1> QED BY <1>4, <1>5, <1>8, CallOn

\* FlipEnable: nothing is about to be flipped any more.
LEMMA FlipEnableOn ==
  ASSUME Ground, NEW s \in Syncers, FlipEnable(s) PROVE Onward
<1> DEFINE r == run[s]
           next == [r EXCEPT !.flip = {}]
<1>1. PICK f \in r.flip : /\ r.pc = "inbounds"
                          /\ Call(s, SetInboundEnable(target, f.id, f.enable), next)
  BY DEF FlipEnable
<1>2. /\ r \in RunState /\ Plain(main, target) /\ r.plan = main
      /\ InboundsDue(r, main, target)
      /\ \A q : Settles(main, target, q) /\ q \in PanelState /\ WellFormed(q)
                  => InboundsDue(r, main, q)
  BY <1>1, InboundsFacts
<1>3. /\ next.pc = "inbounds" /\ next.plan = r.plan /\ next.seen = r.seen
      /\ next.stale = r.stale /\ next.todo = r.todo /\ next.flip = {}
  BY <1>1, <1>2 DEF RunState
<1> HIDE DEF next
<1>4. PICK m \in main.inbounds, i \in target.inbounds :
        i.id = f.id /\ SameBody(i, m) /\ m.enable = f.enable
  BY <1>1, <1>2 DEF InboundsDue
<1>5. ASSUME NEW q \in SetInboundEnable(target, f.id, f.enable)
      PROVE  Settles(main, target, q) /\ Converges(next, main, q)
  <2>1. /\ Settles(main, target, q)
        /\ \A k \in q.inbounds : k.id = f.id => k.enable = f.enable
    BY <1>2, <1>4, FlipSettles
  <2>2. q \in PanelState /\ WellFormed(q)
    <3>1. /\ target \in PanelState /\ WellFormed(target) /\ Sound(target)
          /\ f.id \in Ids /\ f.enable \in BOOLEAN
      BY <1>1, <1>2, PlainParts DEF Plain, RunState, Flip
    <3> QED BY <3>1, SetInboundEnableKeeps, SetInboundEnableMakes
  <2>3. InboundsDue(r, main, q)
    BY <1>2, <2>1, <2>2
  <2>4. ASSUME NEW n \in main.inbounds \ r.todo PROVE DoneWith(next, n, q)
    <3>1. PICK j \in q.inbounds :
            /\ SameBody(j, n)
            /\ j.enable = n.enable \/ [id |-> j.id, enable |-> n.enable] \in r.flip
      BY <2>3 DEF InboundsDue, DoneWith
    <3>2. CASE [id |-> j.id, enable |-> n.enable] \in r.flip
      <4>1. f = [id |-> j.id, enable |-> n.enable]
        BY <1>1, <1>2, <3>2 DEF InboundsDue
      <4>2. f.id = j.id /\ f.enable = n.enable
        BY <4>1
      <4> QED BY <2>1, <3>1, <4>2 DEF DoneWith
    <3> QED BY <3>1, <3>2 DEF DoneWith
  <2>5. InboundsDue(next, main, q)
    BY <1>3, <2>3, <2>4 DEF InboundsDue
  <2> QED BY <1>2, <1>3, <2>1, <2>5 DEF Converges, Succeeded
<1> QED BY <1>1, <1>3, <1>5, CallOn

\* DeleteStale: what is deleted never comes back.
LEMMA DeleteStaleOn ==
  ASSUME Ground, NEW s \in Syncers, DeleteStale(s) PROVE Onward
<1> DEFINE r == run[s]
<1>1. PICK i \in r.stale :
        /\ r.pc = "inbounds"
        /\ Call(s, DeleteInbound(target, i.id), [r EXCEPT !.stale = @ \ {i}])
  BY DEF DeleteStale
<1> DEFINE next == [r EXCEPT !.stale = @ \ {i}]
<1>2. /\ r \in RunState /\ Plain(main, target) /\ r.plan = main
      /\ i \in r.seen.inbounds /\ InboundsDue(r, main, target)
      /\ \A q : Settles(main, target, q) /\ q \in PanelState /\ WellFormed(q)
                  => InboundsDue(r, main, q)
  BY <1>1, InboundsFacts
<1>3. /\ next.pc = "inbounds" /\ next.plan = r.plan /\ next.seen = r.seen
      /\ next.stale = r.stale \ {i} /\ next.todo = r.todo /\ next.flip = r.flip
  BY <1>1, <1>2 DEF RunState
<1>4. Call(s, DeleteInbound(target, i.id), next)
  BY <1>1
<1> HIDE DEF next
<1>5. i.id \in Ids
  BY <1>2 DEF RunState, Listing, Inbound
<1>6. ASSUME NEW q \in DeleteInbound(target, i.id)
      PROVE  Settles(main, target, q) /\ Converges(next, main, q)
  <2>1. Settles(main, target, q) /\ \A k \in q.inbounds : k.id # i.id
    BY <1>1, <1>2, <1>5, DeleteSettles DEF InboundsDue
  <2>2. q \in PanelState /\ WellFormed(q)
    BY <1>2, <1>5, PlainParts, DeleteInboundKeeps, DeleteInboundMakes DEF Plain
  <2>3. InboundsDue(r, main, q)
    BY <1>2, <2>1, <2>2
  <2>4. \A x \in r.seen.inbounds, y \in q.inbounds : y.id = x.id =>
          x \in next.stale \/ \E n \in main.inbounds : x \in Match(r.seen, n)
    BY <1>3, <2>1, <2>3 DEF InboundsDue
  <2>5. \A n \in main.inbounds \ next.todo : DoneWith(next, n, q)
    BY <1>3, <2>3 DEF InboundsDue, DoneWith
  <2>6. InboundsDue(next, main, q)
    BY <1>3, <2>3, <2>4, <2>5 DEF InboundsDue
  <2> QED BY <1>2, <1>3, <2>1, <2>6 DEF Converges, Succeeded
<1> QED BY <1>3, <1>4, <1>6, CallOn

\* Refetch: the panel has the plan's inbounds now.
LEMMA RefetchOn ==
  ASSUME Ground, NEW s \in Syncers, Refetch(s) PROVE Onward
<1> DEFINE r == run[s]
           seen == [inbounds |-> target.inbounds, clients |-> target.clients]
           next == [r EXCEPT !.pc = "fetched", !.seen = seen]
<1>1. r.pc = "inbounds" /\ r.todo = {} /\ r.flip = {} /\ r.stale = {}
  BY DEF Refetch
<1>2. /\ r \in RunState /\ Plain(main, target) /\ r.plan = main
      /\ InboundsDue(r, main, target)
  BY <1>1, InboundsFacts
<1>3. CASE run' = [run EXCEPT ![s] = next] /\ UNCHANGED <<main, cache, target, left>>
  <2>1. /\ next.pc = "fetched" /\ next.plan = main /\ next.seen = seen
        /\ seen.inbounds = target.inbounds /\ seen.clients = target.clients
    BY <1>2 DEF RunState
  <2> HIDE DEF seen, next
  <2>2. Distinct(target)
    BY <1>2, PlainParts
  <2>3. ASSUME NEW m \in main.inbounds
        PROVE  \E j \in target.inbounds : As(j) = m /\ j \in Match(target, m)
    <3>1. PICK j \in target.inbounds : SameBody(j, m) /\ j.enable = m.enable
      BY <1>1, <1>2 DEF InboundsDue, DoneWith
    <3>2. As(j) = m
      BY <1>2, <3>1 DEF As, SameBody, Plain, Plan, MainInbound
    <3> QED BY <3>1, <3>2, KeyMatches DEF SameBody
  <2>4. ASSUME NEW j \in target.inbounds PROVE As(j) \in main.inbounds
    <3>1. CASE ~HasInbound(r.seen, j.id)
      BY <1>2, <3>1 DEF InboundsDue
    <3>2. CASE HasInbound(r.seen, j.id)
      <4>1. PICK i \in r.seen.inbounds : i.id = j.id
        BY <3>2 DEF HasInbound
      <4>2. PICK m \in main.inbounds : i \in Match(r.seen, m)
        BY <1>1, <1>2, <4>1 DEF InboundsDue
      <4>3. j \in Match(target, m)
        BY <1>2, <2>2, <4>1, <4>2 DEF InboundsDue, Distinct
      <4>4. PICK k \in target.inbounds : As(k) = m /\ k \in Match(target, m)
        BY <2>3
      <4>5. k = j
        BY <2>2, <4>3, <4>4, MatchOne
      <4> QED BY <4>4, <4>5
    <3> QED BY <3>1, <3>2
  <2>5. Level(main, target)
    BY <2>3, <2>4 DEF Level
  <2>6. Current(seen, main, target)
    BY <2>1, <2>5, CurrentFresh
  <2>7. Converges(next, main, target)
    BY <2>1, <2>6 DEF Converges, Succeeded
  <2> QED BY <1>3, <2>1, <2>7, StayOn
<1>4. CASE ReadFails(s, target.inbounds = {})
  BY <1>4, ReadFailsOn
<1> QED BY <1>3, <1>4 DEF Refetch

\* EnsureServerInbounds: the stored listing will do, for whoever reads it back.
LEMMA EnsureServerInboundsOn ==
  ASSUME Ground, NEW s \in Syncers, EnsureServerInbounds(s) PROVE Onward
<1> DEFINE r == run[s]
           next == [r EXCEPT !.pc = "stored"]
<1>1. r.pc = "fetched"
  BY DEF EnsureServerInbounds
<1>2. r \in RunState /\ r.plan = main /\ Current(r.seen, main, target)
  BY <1>1, GroundFacts DEF Converges
<1>3. CASE /\ cache' = r.seen /\ run' = [run EXCEPT ![s].pc = "stored"]
           /\ UNCHANGED <<main, target, left>>
  <2>1. next.pc = "stored" /\ next.plan = main /\ run' = [run EXCEPT ![s] = next]
    BY <1>2, <1>3 DEF RunState
  <2> HIDE DEF next
  <2>2. Converges(next, main, target)
    BY <2>1 DEF Converges, Succeeded
  <2>3. Current(cache', main, target)
    BY <1>2, <1>3
  <2> QED BY <1>3, <2>1, <2>2, <2>3, StoreOn
<1>4. CASE ReadFails(s, FALSE)
  BY <1>4, ReadFailsOn
<1> QED BY <1>3, <1>4 DEF EnsureServerInbounds

\* ListInboundsByServer: what is read back will do, whoever stored it.
LEMMA ListInboundsByServerOn ==
  ASSUME Ground, NEW s \in Syncers, ListInboundsByServer(s) PROVE Onward
<1> DEFINE r == run[s]
           next == [r EXCEPT !.pc = "rows", !.seen = cache]
<1>1. r.pc = "stored"
  BY DEF ListInboundsByServer
<1>2. r \in RunState /\ r.plan = main /\ Current(cache, main, target)
  BY <1>1, GroundFacts DEF Ground, QuietRuns
<1>3. CASE run' = [run EXCEPT ![s] = next] /\ UNCHANGED <<main, cache, target, left>>
  <2>1. next.pc = "rows" /\ next.plan = main /\ next.seen = cache
    BY <1>2 DEF RunState
  <2> HIDE DEF next
  <2>2. Converges(next, main, target)
    BY <1>2, <2>1 DEF Converges, Succeeded
  <2> QED BY <1>3, <2>1, <2>2, StayOn
<1>4. CASE ReadFails(s, FALSE)
  BY <1>4, ReadFailsOn
<1> QED BY <1>3, <1>4 DEF ListInboundsByServer

\* ListClients: what is due is in hand.
LEMMA ListClientsOn ==
  ASSUME Ground, NEW s \in Syncers, ListClients(s) PROVE Onward
<1> DEFINE r == run[s]
           next == [r EXCEPT !.pc = "clients", !.rows = target.rows,
                             !.push = PushList(r.plan, r.seen),
                             !.prune = PruneList(r.plan, r.seen)]
<1>1. r.pc = "rows"
  BY DEF ListClients
<1>2. /\ r \in RunState /\ LocalInv(r) /\ Plain(main, target)
      /\ r.plan = main /\ Level(main, target) /\ r.seen.inbounds = target.inbounds
      /\ ListedDue(r.seen, main, target)
  BY <1>1, GroundFacts DEF Converges, Current
<1>3. CASE run' = [run EXCEPT ![s] = next] /\ UNCHANGED <<main, cache, target, left>>
  <2>1. /\ next.pc = "clients" /\ next.plan = r.plan /\ next.seen = r.seen
        /\ next.push = PushList(main, r.seen) /\ next.prune = PruneList(main, r.seen)
    BY <1>2 DEF RunState
  <2> HIDE DEF next
  <2>2. ASSUME NEW w \in main.clients, NEW i \in target.inbounds, i.key = w.key
        PROVE  There(target, i.id, w) \/ \E x \in next.push : x.id = i.id /\ x.want = w
    <3>1. CASE \E a \in Entries(r.seen, i.id, w.email) : a.cred = w.cred
      BY <1>2, <2>2, <3>1 DEF ListedDue
    <3>2. CASE \A a \in Entries(r.seen, i.id, w.email) : a.cred # w.cred
      <4> DEFINE x == [id |-> i.id, want |-> w]
      <4>1. i.id \in Ids /\ w \in Wanted
        BY <1>2 DEF Plain, Plan, PanelState, Inbound
      <4>2. x \in Push /\ x.id = i.id /\ x.want = w
        BY <4>1 DEF Push
      <4>3. KeyOf(r.seen, i.id) = w.key
        BY <1>2, <2>2, KeyOfListed DEF LocalInv, WellListed
      <4>4. x \in PushList(main, r.seen)
        BY <1>2, <3>2, <4>2, <4>3 DEF PushList
      <4> QED BY <2>1, <4>2, <4>4
    <3> QED BY <3>1, <3>2
  <2>3. ASSUME NEW a \in target.clients
        PROVE  InPlace(main, target, a) \/ \E b \in next.prune : b.id = a.id /\ b.email = a.email
    <3>1. ASSUME NEW b \in r.seen.clients, b.id = a.id, b.email = a.email,
                 ~InPlace(main, target, a)
          PROVE  b \in PruneList(main, r.seen)
      <4>1. KeyOf(r.seen, b.id) = KeyOf(target, a.id)
        BY <1>2, <3>1 DEF KeyOf
      <4> QED BY <3>1, <4>1 DEF PruneList, DesiredAt, InPlace
    <3> QED BY <1>2, <2>1, <3>1 DEF ListedDue
  <2>4. ClientsDue(next, main, target)
    BY <2>2, <2>3 DEF ClientsDue
  <2>5. Converges(next, main, target)
    BY <1>2, <2>1, <2>4 DEF Converges, Succeeded
  <2> QED BY <1>3, <2>1, <2>5, StayOn
<1>4. CASE ReadFails(s, FALSE)
  BY <1>4, ReadFailsOn
<1> QED BY <1>3, <1>4 DEF ListClients

\* What the steps in the client loops start from.
LEMMA ClientsFacts ==
  ASSUME Ground, NEW s \in Syncers, run[s].pc = "clients"
  PROVE  /\ run[s] \in RunState /\ LocalInv(run[s]) /\ Tidy(run[s])
         /\ Plain(main, target) /\ run[s].plan = main
         /\ Level(main, target) /\ run[s].seen.inbounds = target.inbounds
         /\ ClientsDue(run[s], main, target)
         /\ \A id : KeyOf(run[s].seen, id) = KeyOf(target, id)
BY GroundFacts DEF Converges, KeyOf

\* A call in the client loops: what is taken off the run's lists is done, the rest stays.
LEMMA ClientsOn ==
  ASSUME NEW plan, NEW p, NEW q, q.inbounds = p.inbounds, ClientsForward(plan, p, q),
         NEW r, Level(plan, p), r.seen.inbounds = p.inbounds, ClientsDue(r, plan, p),
         NEW next, next.pc = "clients", next.plan = plan, next.seen = r.seen,
         \A x \in r.push \ next.push :
           \/ There(q, x.id, x.want)
           \/ \E y \in next.write : /\ y.id = x.id /\ y.client.email = x.want.email
                                    /\ y.client.cred = x.want.cred,
         \A y \in r.write \ next.write : There(q, y.id, y.client),
         \A b \in q.clients, d \in r.prune : d.id = b.id /\ d.email = b.email => d \in next.prune
  PROVE  Converges(next, plan, q)
<1>1. Level(plan, q) /\ next.seen.inbounds = q.inbounds
  BY DEF Level
<1>2. \A a, b : a.id = b.id /\ a.email = b.email /\ InPlace(plan, p, a) => InPlace(plan, q, b)
  <2>1. \A a : InPlace(plan, q, a) <=> InPlace(plan, p, a)
    BY DEF InPlace, KeyOf
  <2> QED BY <2>1 DEF InPlace
<1>3. ASSUME NEW w \in plan.clients, NEW i \in q.inbounds, i.key = w.key
      PROVE  \/ There(q, i.id, w)
             \/ \E x \in next.push : x.id = i.id /\ x.want = w
             \/ \E y \in next.write : /\ y.id = i.id /\ y.client.email = w.email
                                      /\ y.client.cred = w.cred
  <2>1. CASE There(p, i.id, w)
    BY <1>3, <2>1 DEF ClientsForward
  <2>2. CASE \E x \in r.push : x.id = i.id /\ x.want = w
    BY <2>2
  <2>3. ASSUME NEW y \in r.write, y.id = i.id, y.client.email = w.email, y.client.cred = w.cred,
               y \notin next.write
        PROVE  There(q, i.id, w)
    BY <2>3 DEF There
  <2> QED BY <1>3, <2>1, <2>2, <2>3 DEF ClientsDue
<1>4. ASSUME NEW b \in q.clients
      PROVE  InPlace(plan, q, b) \/ \E d \in next.prune : d.id = b.id /\ d.email = b.email
  <2>1. ASSUME NEW a \in p.clients, a.id = b.id, a.email = b.email
        PROVE  InPlace(plan, q, b) \/ \E d \in next.prune : d.id = b.id /\ d.email = b.email
    <3>1. InPlace(plan, p, a) \/ \E d \in r.prune : d.id = a.id /\ d.email = a.email
      BY DEF ClientsDue
    <3> QED BY <1>2, <2>1, <3>1
  <2> QED BY <1>2, <2>1 DEF ClientsForward
<1>5. ClientsDue(next, plan, q)
  BY <1>3, <1>4 DEF ClientsDue
<1> QED BY <1>1, <1>5 DEF Converges, Succeeded

\* CreateMissing: the client is there.
LEMMA CreateMissingOn ==
  ASSUME Ground, NEW s \in Syncers, CreateMissing(s) PROVE Onward
<1> DEFINE r == run[s]
           after(x) == [r EXCEPT !.push = @ \ {x}, !.created = @ \cup {Payload(r, x)},
                                 !.write = {[id |-> x.id, client |-> Payload(r, x)]}]
<1>1. PICK x \in r.push :
        /\ r.pc = "clients" /\ r.write = {}
        /\ Call(s, CreateClient(target, Payload(r, x), x.id), after(x))
  BY DEF CreateMissing
<1> DEFINE c == Payload(r, x)
           w == x.want
           next == after(x)
<1>2. /\ r \in RunState /\ LocalInv(r) /\ Tidy(r) /\ Plain(main, target) /\ r.plan = main
      /\ Level(main, target) /\ r.seen.inbounds = target.inbounds
      /\ ClientsDue(r, main, target)
  BY <1>1, ClientsFacts
<1>3. /\ w \in main.clients /\ c \in Row
      /\ \E i \in target.inbounds : i.id = x.id /\ i.key = w.key
  BY <1>1, <1>2, PushWanted
<1>4. PICK i \in target.inbounds : i.id = x.id /\ i.key = w.key
  BY <1>3
<1>5. c.email = w.email /\ c.cred = w.cred
  BY PayloadParts
<1>6. /\ next.pc = "clients" /\ next.plan = main /\ next.seen = r.seen
      /\ next.prune = r.prune /\ next.push = r.push \ {x}
  BY <1>1, <1>2 DEF RunState
<1>7. Call(s, CreateClient(target, c, x.id), next)
  BY <1>1
<1> HIDE DEF next, c
<1>8. ASSUME NEW q \in CreateClient(target, c, x.id)
      PROVE  Settles(main, target, q) /\ Converges(next, main, q)
  <2>1. /\ Settles(main, target, q) /\ ClientsForward(main, target, q)
        /\ q.inbounds = target.inbounds /\ There(q, x.id, w)
    BY <1>2, <1>3, <1>4, <1>5, CreateSettles
  <2> QED BY <1>1, <1>2, <1>6, <2>1, ClientsOn
<1> QED BY <1>6, <1>7, <1>8, CallOn

\* AttachMissing: the entry is there, what it carries is about to be written.
LEMMA AttachMissingOn ==
  ASSUME Ground, NEW s \in Syncers, AttachMissing(s) PROVE Onward
<1> DEFINE r == run[s]
           after(x) == [r EXCEPT !.push = @ \ {x},
                                 !.write = {[id |-> x.id, client |-> Payload(r, x)]}]
<1>1. PICK x \in r.push :
        /\ r.pc = "clients" /\ r.write = {}
        /\ Call(s, AttachClient(target, x.want.email, x.id), after(x))
  BY DEF AttachMissing
<1> DEFINE c == Payload(r, x)
           w == x.want
           new == [id |-> x.id, client |-> c]
           next == after(x)
<1>2. /\ r \in RunState /\ LocalInv(r) /\ Tidy(r) /\ Plain(main, target) /\ r.plan = main
      /\ Level(main, target) /\ r.seen.inbounds = target.inbounds
      /\ ClientsDue(r, main, target)
  BY <1>1, ClientsFacts
<1>3. w \in main.clients /\ \E i \in target.inbounds : i.id = x.id /\ i.key = w.key
  BY <1>1, <1>2, PushWanted
<1>4. PICK i \in target.inbounds : i.id = x.id /\ i.key = w.key
  BY <1>3
<1>5. c.email = w.email /\ c.cred = w.cred
  BY PayloadParts
<1>6. new.id = x.id /\ new.client = c
  OBVIOUS
<1>7. /\ next.pc = "clients" /\ next.plan = main /\ next.seen = r.seen
      /\ next.prune = r.prune /\ next.push = r.push \ {x} /\ next.write = {new}
  BY <1>1, <1>2 DEF RunState
<1>8. Call(s, AttachClient(target, w.email, x.id), next)
  BY <1>1
<1> HIDE DEF next, c, new
<1>9. ASSUME NEW q \in AttachClient(target, w.email, x.id)
      PROVE  Settles(main, target, q) /\ Converges(next, main, q)
  <2>1. /\ Settles(main, target, q) /\ ClientsForward(main, target, q)
        /\ q.inbounds = target.inbounds
    BY <1>2, <1>3, <1>4, AttachSettles
  <2>2. \A z \in r.push \ next.push :
          \E y \in next.write : /\ y.id = z.id /\ y.client.email = z.want.email
                                /\ y.client.cred = z.want.cred
    BY <1>5, <1>6, <1>7
  <2> QED BY <1>1, <1>2, <1>7, <2>1, <2>2, ClientsOn
<1> QED BY <1>7, <1>8, <1>9, CallOn

\* UpdateChanged: the client is there as wanted.
LEMMA UpdateChangedOn ==
  ASSUME Ground, NEW s \in Syncers, UpdateChanged(s) PROVE Onward
<1> DEFINE r == run[s]
           after(x) == [r EXCEPT !.push = @ \ {x}]
<1>1. PICK x \in r.push :
        /\ r.pc = "clients" /\ r.write = {}
        /\ Call(s, UpdateClient(target, Payload(r, x), x.id), after(x))
  BY DEF UpdateChanged
<1> DEFINE c == Payload(r, x)
           w == x.want
           next == after(x)
<1>2. /\ r \in RunState /\ LocalInv(r) /\ Tidy(r) /\ Plain(main, target) /\ r.plan = main
      /\ Level(main, target) /\ r.seen.inbounds = target.inbounds
      /\ ClientsDue(r, main, target)
  BY <1>1, ClientsFacts
<1>3. /\ w \in main.clients /\ c \in Row
      /\ \E i \in target.inbounds : i.id = x.id /\ i.key = w.key
  BY <1>1, <1>2, PushWanted
<1>4. PICK i \in target.inbounds : i.id = x.id /\ i.key = w.key
  BY <1>3
<1>5. c.email = w.email /\ c.cred = w.cred
  BY PayloadParts
<1>6. /\ next.pc = "clients" /\ next.plan = main /\ next.seen = r.seen
      /\ next.prune = r.prune /\ next.push = r.push \ {x}
  BY <1>1, <1>2 DEF RunState
<1>7. Call(s, UpdateClient(target, c, x.id), next)
  BY <1>1
<1> HIDE DEF next, c
<1>8. ASSUME NEW q \in UpdateClient(target, c, x.id)
      PROVE  Settles(main, target, q) /\ Converges(next, main, q)
  <2>1. /\ Settles(main, target, q) /\ ClientsForward(main, target, q)
        /\ q.inbounds = target.inbounds /\ There(q, x.id, w)
    BY <1>2, <1>3, <1>4, <1>5, UpdateClientSettles
  <2> QED BY <1>1, <1>2, <1>6, <2>1, ClientsOn
<1> QED BY <1>6, <1>7, <1>8, CallOn

\* WriteNew: the same for a client that was just created or attached.
LEMMA WriteNewOn ==
  ASSUME Ground, NEW s \in Syncers, WriteNew(s) PROVE Onward
<1> DEFINE r == run[s]
           next == [r EXCEPT !.write = {}]
<1>1. PICK x \in r.write : /\ r.pc = "clients"
                           /\ Call(s, UpdateClient(target, x.client, x.id), next)
  BY DEF WriteNew
<1>2. /\ r \in RunState /\ LocalInv(r) /\ Tidy(r) /\ Plain(main, target) /\ r.plan = main
      /\ Level(main, target) /\ r.seen.inbounds = target.inbounds
      /\ ClientsDue(r, main, target)
  BY <1>1, ClientsFacts
<1>3. x.client \in Row /\ \A y \in r.write : y = x
  BY <1>2 DEF RunState, Write, Tidy
<1>4. PICK w \in main.clients, i \in target.inbounds :
        /\ w.key = i.key /\ i.id = x.id
        /\ w.email = x.client.email /\ w.cred = x.client.cred
  BY <1>1, <1>2 DEF Tidy
<1>5. /\ next.pc = "clients" /\ next.plan = main /\ next.seen = r.seen
      /\ next.prune = r.prune /\ next.push = r.push /\ next.write = {}
  BY <1>1, <1>2 DEF RunState
<1> HIDE DEF next
<1>6. ASSUME NEW q \in UpdateClient(target, x.client, x.id)
      PROVE  Settles(main, target, q) /\ Converges(next, main, q)
  <2>1. /\ Settles(main, target, q) /\ ClientsForward(main, target, q)
        /\ q.inbounds = target.inbounds /\ There(q, x.id, w)
    BY <1>2, <1>3, <1>4, UpdateClientSettles
  <2>2. There(q, x.id, x.client)
    BY <1>4, <2>1 DEF There
  <2> QED BY <1>2, <1>3, <1>5, <2>1, <2>2, ClientsOn
<1> QED BY <1>1, <1>5, <1>6, CallOn

\* DeleteUnwanted: no entry of the client is left.
LEMMA DeleteUnwantedOn ==
  ASSUME Ground, NEW s \in Syncers, DeleteUnwanted(s) PROVE Onward
<1> DEFINE r == run[s]
           after(a) == [r EXCEPT !.prune = {b \in @ : b.email # a.email}]
<1>1. PICK a \in r.prune :
        /\ r.pc = "clients" /\ r.push = {} /\ r.write = {}
        /\ ~WantedAnywhere(r.plan, a.email)
        /\ Call(s, DeleteClient(target, a.email), after(a))
  BY DEF DeleteUnwanted
<1> DEFINE next == after(a)
<1>2. /\ r \in RunState /\ Plain(main, target) /\ r.plan = main
      /\ Level(main, target) /\ r.seen.inbounds = target.inbounds
      /\ ClientsDue(r, main, target)
  BY <1>1, ClientsFacts
<1>3. /\ next.pc = "clients" /\ next.plan = main /\ next.seen = r.seen
      /\ next.prune = {b \in r.prune : b.email # a.email}
  BY <1>1, <1>2 DEF RunState
<1>4. Call(s, DeleteClient(target, a.email), next) /\ a.email \in Emails
  BY <1>1, <1>2 DEF RunState, Attachment
<1> HIDE DEF next
<1>5. ASSUME NEW q \in DeleteClient(target, a.email)
      PROVE  Settles(main, target, q) /\ Converges(next, main, q)
  <2>1. /\ Settles(main, target, q) /\ ClientsForward(main, target, q)
        /\ q.inbounds = target.inbounds
        /\ q.clients = {b \in target.clients : b.email # a.email}
    BY <1>1, <1>2, <1>4, DeleteClientSettles
  <2>2. \A b \in q.clients, d \in r.prune :
          d.id = b.id /\ d.email = b.email => d \in next.prune
    BY <1>3, <2>1
  <2> QED BY <1>1, <1>2, <1>3, <2>1, <2>2, ClientsOn
<1> QED BY <1>3, <1>4, <1>5, CallOn

\* DetachMoved: the entry is gone from where the plan does not want it.
LEMMA DetachMovedOn ==
  ASSUME Ground, NEW s \in Syncers, DetachMoved(s) PROVE Onward
<1> DEFINE r == run[s]
           after(a) == [r EXCEPT !.prune = @ \ {a}]
<1>1. PICK a \in r.prune :
        /\ r.pc = "clients" /\ r.push = {} /\ r.write = {}
        /\ Call(s, DetachClient(target, a.email, a.id), after(a))
  BY DEF DetachMoved
<1> DEFINE next == after(a)
<1>2. /\ r \in RunState /\ LocalInv(r) /\ Plain(main, target) /\ r.plan = main
      /\ Level(main, target) /\ r.seen.inbounds = target.inbounds
      /\ ClientsDue(r, main, target)
      /\ \A id : KeyOf(r.seen, id) = KeyOf(target, id)
  BY <1>1, ClientsFacts
<1>3. /\ next.pc = "clients" /\ next.plan = main /\ next.seen = r.seen
      /\ next.prune = r.prune \ {a}
  BY <1>1, <1>2 DEF RunState
<1>4. /\ Call(s, DetachClient(target, a.email, a.id), next)
      /\ a \in Attachment /\ a.email \in Emails /\ a.id \in Ids
      /\ r.prune \subseteq Attachment
  BY <1>1, <1>2 DEF RunState, Attachment
<1> HIDE DEF next
<1>5. \A w \in main.clients : w.key = KeyOf(target, a.id) => w.email # a.email
  BY <1>1, <1>2 DEF LocalInv, PruneList, DesiredAt
<1>6. ASSUME NEW q \in DetachClient(target, a.email, a.id)
      PROVE  Settles(main, target, q) /\ Converges(next, main, q)
  <2>1. /\ Settles(main, target, q) /\ ClientsForward(main, target, q)
        /\ q.inbounds = target.inbounds
        /\ q.clients = {b \in target.clients : ~(b.id = a.id /\ b.email = a.email)}
    BY <1>2, <1>4, <1>5, DetachSettles
  <2>2. \A b \in q.clients, d \in r.prune :
          d.id = b.id /\ d.email = b.email => d \in next.prune
    BY <1>3, <2>1
  <2> QED BY <1>1, <1>2, <1>3, <2>1, <2>2, ClientsOn
<1> QED BY <1>3, <1>4, <1>6, CallOn

\* Finish: nothing is due any more.
LEMMA FinishOn ==
  ASSUME Ground, NEW s \in Syncers, Finish(s) PROVE Onward
<1> DEFINE next == [Ended("synced") EXCEPT !.alone = run[s].alone]
<1>1. /\ run[s].pc = "clients" /\ run[s].push = {} /\ run[s].write = {} /\ run[s].prune = {}
      /\ run' = [run EXCEPT ![s] = next] /\ UNCHANGED <<main, cache, target>>
  BY DEF Finish
<1>2. Level(main, target) /\ ClientsDue(run[s], main, target)
  BY <1>1, ClientsFacts
<1>3. Whole(main, target)
  BY <1>1, <1>2 DEF Whole, ClientsDue
<1>4. next.pc = "synced"
  BY EndedParts DEF RunState
<1> HIDE DEF next
<1>5. Converges(next, main, target)
  BY <1>3, <1>4 DEF Converges
<1> QED BY <1>1, <1>4, <1>5, StayOn

\* A run that is through has left a synchronised panel.
LEMMA DoneConverges ==
  ASSUME NEW plan, NEW p, Whole(plan, p)
  PROVE  Converges(Ended("done"), plan, p) /\ Ended("done").pc # "stored"
<1>1. Ended("done").pc = "done"
  BY EndedParts
<1> QED BY <1>1 DEF Converges

\* ListAgain: the panel is synchronised, so a listing of it will do.
LEMMA ListAgainOn ==
  ASSUME Ground, NEW s \in Syncers, ListAgain(s) PROVE Onward
<1> DEFINE r == run[s]
           seen == [inbounds |-> target.inbounds, clients |-> target.clients]
           next == [r EXCEPT !.pc = "refresh", !.seen = seen]
<1>1. /\ r.pc = "synced" /\ UNCHANGED <<main, cache, target>>
      /\ run' = [run EXCEPT ![s] = next] \/ run' = [run EXCEPT ![s] = Ended("done")]
  BY DEF ListAgain
<1>2. r \in RunState /\ Whole(main, target)
  BY <1>1, GroundFacts DEF Converges, Succeeded
<1>3. CASE run' = [run EXCEPT ![s] = next]
  <2>1. /\ next.pc = "refresh" /\ next.seen = seen
        /\ seen.inbounds = target.inbounds /\ seen.clients = target.clients
    BY <1>2 DEF RunState
  <2> HIDE DEF next, seen
  <2>2. Current(seen, main, target)
    BY <1>2, <2>1, CurrentFresh DEF Whole
  <2>3. Converges(next, main, target)
    BY <1>2, <2>1, <2>2 DEF Converges
  <2> QED BY <1>1, <1>3, <2>1, <2>3, StayOn
<1>4. CASE run' = [run EXCEPT ![s] = Ended("done")]
  BY <1>1, <1>2, <1>4, DoneConverges, StayOn
<1> QED BY <1>1, <1>3, <1>4

\* Stored: a listing that will do is stored, or the run goes on without.
LEMMA StoredOn ==
  ASSUME Ground, NEW s \in Syncers, NEW next, Converges(next, main, target),
         next.pc # "stored", Current(run[s].seen, main, target), Stored(s, next)
  PROVE  Onward
<1>1. /\ cache' = run[s].seen \/ cache' = cache
      /\ run' = [run EXCEPT ![s] = next] /\ main' = main /\ target' = target
  BY DEF Stored
<1>2. CASE cache' = run[s].seen
  BY <1>1, <1>2, StoreOn
<1>3. CASE cache' = cache
  BY <1>1, <1>3, StayOn
<1> QED BY <1>1, <1>2, <1>3

\* Recache and Rebuild; nobody imports the target.
LEMMA RefreshOn ==
  ASSUME Ground, NEW s \in Syncers, Recache(s) \/ Rebuild(s) \/ ImportCaches(s) PROVE Onward
<1> DEFINE r == run[s]
           next == [r EXCEPT !.pc = "rebuild"]
<1>1. r \in RunState /\ Converges(r, main, target)
  BY GroundFacts
<1>2. CASE Recache(s)
  <2>1. r.pc = "refresh" /\ Stored(s, next)
    BY <1>2 DEF Recache
  <2>2. Whole(main, target) /\ Current(r.seen, main, target)
    BY <1>1, <2>1 DEF Converges, Succeeded
  <2>3. next.pc = "rebuild" /\ next.seen = r.seen
    BY <1>1 DEF RunState
  <2> HIDE DEF next
  <2>4. Converges(next, main, target)
    BY <2>2, <2>3 DEF Converges
  <2> QED BY <2>1, <2>2, <2>3, <2>4, StoredOn
<1>3. CASE Rebuild(s)
  <2>1. r.pc = "rebuild" /\ Stored(s, Ended("done"))
    BY <1>3 DEF Rebuild
  <2>2. Whole(main, target) /\ Current(r.seen, main, target)
    BY <1>1, <2>1 DEF Converges, Succeeded
  <2> QED BY <2>1, <2>2, DoneConverges, StoredOn
<1>4. CASE ImportCaches(s)
  BY <1>1, <1>4 DEF ImportCaches, Converges
<1> QED BY <1>2, <1>3, <1>4

\* Every step of a run.
LEMMA StepOn ==
  ASSUME Ground, NEW s \in Syncers, Step(s) PROVE Onward
BY ListInboundsOn, AddMissingOn, UpdateOutdatedOn, FlipEnableOn, DeleteStaleOn, RefetchOn,
   EnsureServerInboundsOn, ListInboundsByServerOn, ListClientsOn, CreateMissingOn,
   AttachMissingOn, UpdateChangedOn, WriteNewOn, DeleteUnwantedOn, DetachMovedOn, FinishOn,
   ListAgainOn, RefreshOn DEF Step, InboundPhase, ReadBack, ClientPhase, Refresh

\* What a run knows does not depend on its history.
LEMMA HistoryConverges ==
  ASSUME NEW r \in RunState, NEW plan, NEW p, Converges(r, plan, p)
  PROVE  /\ Converges([r EXCEPT !.alone = FALSE], plan, p)
         /\ Converges([r EXCEPT !.calm = FALSE], plan, p)
         /\ [r EXCEPT !.alone = FALSE].pc = r.pc /\ [r EXCEPT !.calm = FALSE].pc = r.pc
<1>1. ASSUME NEW x, x.pc = r.pc, x.plan = r.plan, x.seen = r.seen, x.todo = r.todo,
             x.flip = r.flip, x.stale = r.stale, x.push = r.push, x.write = r.write,
             x.prune = r.prune
      PROVE  Converges(x, plan, p)
  <2>1. \A m : DoneWith(r, m, p) => DoneWith(x, m, p)
    BY <1>1 DEF DoneWith
  <2>2. InboundsDue(r, plan, p) => InboundsDue(x, plan, p)
    BY <1>1, <2>1 DEF InboundsDue
  <2>3. ClientsDue(r, plan, p) => ClientsDue(x, plan, p)
    BY <1>1 DEF ClientsDue
  <2> QED BY <1>1, <2>2, <2>3 DEF Converges, Succeeded
<1>2. Converges([r EXCEPT !.alone = FALSE], plan, p)
  <2> DEFINE x == [r EXCEPT !.alone = FALSE]
  <2>1. /\ x.pc = r.pc /\ x.plan = r.plan /\ x.seen = r.seen /\ x.todo = r.todo
        /\ x.flip = r.flip /\ x.stale = r.stale /\ x.push = r.push /\ x.write = r.write
        /\ x.prune = r.prune
    BY DEF RunState
  <2> HIDE DEF x
  <2>2. Converges(x, plan, p)
    BY <1>1, <2>1
  <2> QED BY <2>2 DEF x
<1>3. Converges([r EXCEPT !.calm = FALSE], plan, p)
  <2> DEFINE x == [r EXCEPT !.calm = FALSE]
  <2>1. /\ x.pc = r.pc /\ x.plan = r.plan /\ x.seen = r.seen /\ x.todo = r.todo
        /\ x.flip = r.flip /\ x.stale = r.stale /\ x.push = r.push /\ x.write = r.write
        /\ x.prune = r.prune
    BY DEF RunState
  <2> HIDE DEF x
  <2>2. Converges(x, plan, p)
    BY <1>1, <2>1
  <2> QED BY <2>2 DEF x
<1>4. [r EXCEPT !.alone = FALSE].pc = r.pc /\ [r EXCEPT !.calm = FALSE].pc = r.pc
  BY DEF RunState
<1> QED BY <1>2, <1>3, <1>4

\* Start: a new run has the present plan.
LEMMA StartOn ==
  ASSUME Ground, NEW s \in Syncers, Start(s) PROVE Onward
<1> DEFINE first == [Idle EXCEPT !.pc = "list", !.plan = main, !.calm = Coherent(target)]
           new == [first EXCEPT !.alone = \A u \in Syncers \ {s} : ~Active(run[u])]
<1>1. main' = main /\ target' = target /\ cache' = cache
  BY DEF Start
<1>2. run' = [t \in Syncers |->
                IF t = s THEN new
                ELSE IF Active(run[t]) THEN [run[t] EXCEPT !.alone = FALSE] ELSE run[t]]
  BY DEF Start, Begin
<1>3. new.pc = "list" /\ new.plan = main
  BY DEF Idle
<1> HIDE DEF new
<1>4. Converges(new, main, target)
  BY <1>3 DEF Converges, Succeeded
<1>5. ASSUME NEW u \in Syncers
      PROVE  /\ run'[u] = run[u] \/ Converges(run'[u], main, target')
             /\ run'[u].pc = "stored" => run[u].pc = "stored"
  <2>1. run[u] \in RunState /\ Converges(run[u], main, target)
    BY GroundFacts
  <2> DEFINE x == [run[u] EXCEPT !.alone = FALSE]
  <2>2. Converges(x, main, target) /\ x.pc = run[u].pc
    BY <2>1, HistoryConverges
  <2> HIDE DEF x
  <2>3. run'[u] = new \/ run'[u] = x \/ run'[u] = run[u]
    BY <1>2 DEF x
  <2> QED BY <1>1, <1>3, <1>4, <2>2, <2>3
<1>6. Settles(main, target, target')
  BY <1>1, SameSettles DEF Ground, Inv, TypeOK
<1> QED BY <1>1, <1>5, <1>6, SettledOn

\* TargetSwitches: no run depends on the target's switches.
LEMMA TargetSwitchesOn ==
  ASSUME Ground, TargetSwitches PROVE Onward
<1>1. PICK row \in target.rows : target' = SwitchClient(target, row.email)
  BY DEF TargetSwitches
<1>2. Plain(main, target) /\ target' \in PanelState /\ WellFormed(target')
  BY GroundPanel
<1>3. row.email \in Emails /\ main' = main /\ cache' = cache
  BY <1>2 DEF Plain, PanelState, Row, TargetSwitches
<1>4. Settles(main, target, target')
  BY <1>1, <1>2, <1>3, SwitchSettles
<1>5. ASSUME NEW u \in Syncers
      PROVE  /\ run'[u] = run[u] \/ Converges(run'[u], main, target')
             /\ run'[u].pc = run[u].pc
  <2>1. run[u] \in RunState /\ Converges(run[u], main, target')
    BY <1>2, <1>4, GroundFacts, ConvergesOn
  <2> DEFINE x == [run[u] EXCEPT !.calm = FALSE]
  <2>2. run'[u] = x \/ run'[u] = run[u]
    BY DEF TargetSwitches
  <2>3. Converges(x, main, target') /\ x.pc = run[u].pc
    BY <2>1, HistoryConverges
  <2> HIDE DEF x
  <2> QED BY <2>1, <2>2, <2>3
<1> QED BY <1>3, <1>4, <1>5, SettledOn

\* Every step but a change of the main panel and an import of the target.
LEMMA NextOn ==
  ASSUME Ground, [Next]_vars, left'.changes = left.changes, left'.imports = left.imports
  PROVE  Onward
<1>1. ASSUME NEW s \in Syncers, Start(s) PROVE Onward
  BY <1>1, StartOn
<1>2. ASSUME NEW s \in Syncers, Step(s) PROVE Onward
  BY <1>2, StepOn
<1>3. CASE TargetSwitches
  BY <1>3, TargetSwitchesOn
<1>4. CASE MainChanges
  <2>1. left.changes \in Nat /\ left'.changes = left.changes - 1
    BY <1>4 DEF MainChanges, Ground, Inv, TypeOK
  <2> QED BY <2>1
<1>5. ASSUME NEW s \in Syncers, Import(s) PROVE Onward
  <2>1. left.imports \in Nat /\ left'.imports = left.imports - 1
    BY <1>5 DEF Import, Ground, Inv, TypeOK
  <2> QED BY <2>1
<1>6. CASE UNCHANGED vars
  <2>1. Settles(main, target, target')
    BY <1>6, SameSettles DEF vars, Ground, Inv, TypeOK
  <2> QED BY <1>6, <2>1, SettledOn DEF vars
<1> QED BY <1>1, <1>2, <1>3, <1>4, <1>5, <1>6 DEF Next

\* The bounds count the changes of the main panel and the imports of the target.
LEMMA ChangesCounted ==
  ASSUME Inv, [Next]_vars
  PROVE  /\ left'.changes <= left.changes /\ left'.imports <= left.imports
         /\ left'.changes = left.changes => main' = main
<1> DEFINE Same == /\ left'.changes = left.changes /\ left'.imports = left.imports
                   /\ main' = main
<1>1. /\ left \in [faults: Nat, switches: Nat, changes: Nat, imports: Nat]
      /\ left.changes \in Nat /\ left.imports \in Nat
  BY DEF Inv, TypeOK
<1>2. \A s, results, next : Call(s, results, next) => Same
  BY <1>1 DEF Call
<1>3. \A s, empty : ReadFails(s, empty) => Same
  BY <1>1 DEF ReadFails
<1>4. \A s, r : Stored(s, r) => Same
  BY <1>1 DEF Stored
<1>5. ASSUME NEW s \in Syncers, Start(s) PROVE Same
  BY <1>5 DEF Start
<1>6. CASE TargetSwitches \/ UNCHANGED vars
  BY <1>1, <1>6 DEF TargetSwitches, vars
<1>7. CASE MainChanges
  <2>1. left'.changes = left.changes - 1 /\ left'.imports = left.imports
    BY <1>1, <1>7 DEF MainChanges
  <2> QED BY <1>1, <2>1
<1>8. ASSUME NEW s \in Syncers, Import(s)
      PROVE  /\ left'.changes = left.changes /\ left'.imports = left.imports - 1
             /\ main' = main
  BY <1>1, <1>8 DEF Import
<1>9. ASSUME NEW s \in Syncers, Step(s) PROVE Same
  <2>1. CASE ListInbounds(s) \/ Refetch(s) \/ ListClients(s) \/ Finish(s)
    BY <1>3, <2>1 DEF ListInbounds, Refetch, ListClients, Finish
  <2>2. CASE EnsureServerInbounds(s) \/ ListInboundsByServer(s) \/ ListAgain(s)
    BY <1>1, <1>3, <2>2 DEF EnsureServerInbounds, ListInboundsByServer, ListAgain
  <2> HIDE DEF Same
  <2>3. CASE \/ AddMissing(s) \/ UpdateOutdated(s) \/ FlipEnable(s) \/ DeleteStale(s)
             \/ CreateMissing(s) \/ AttachMissing(s) \/ UpdateChanged(s) \/ WriteNew(s)
             \/ DeleteUnwanted(s) \/ DetachMoved(s)
    BY <1>2, <2>3 DEF AddMissing, UpdateOutdated, FlipEnable, DeleteStale, CreateMissing,
       AttachMissing, UpdateChanged, WriteNew, DeleteUnwanted, DetachMoved
  <2>4. CASE Recache(s) \/ Rebuild(s) \/ ImportCaches(s)
    BY <1>4, <2>4 DEF Recache, Rebuild, ImportCaches
  <2> QED BY <1>9, <2>1, <2>2, <2>3, <2>4
          DEF Step, InboundPhase, ReadBack, ClientPhase, Refresh
<1>10. ASSUME NEW s \in Syncers, Start(s) \/ Import(s) \/ Step(s)
       PROVE  /\ left'.changes <= left.changes /\ left'.imports <= left.imports
              /\ left'.changes = left.changes => main' = main
  BY <1>1, <1>5, <1>8, <1>9, <1>10
<1> QED BY <1>1, <1>6, <1>7, <1>10 DEF Next

\* At the start no run knows anything.
LEMMA InitQuiet == Init /\ Uncrossed(main, target) => QuietInv
<1> SUFFICES ASSUME Init, Uncrossed(main, target) PROVE QuietInv
  OBVIOUS
<1>1. /\ \A s \in Syncers : run[s] = Idle
      /\ left.changes = MaxChanges /\ left.imports = MaxImports
  BY DEF Init
<1>2. Idle.pc = "idle"
  BY DEF Idle
<1>3. Converges(Idle, main, target)
  BY <1>2 DEF Converges, Succeeded
<1> QED BY <1>1, <1>2, <1>3, BoundsAssumption DEF QuietInv, QuietRuns

\* Until the main panel changes or the target is imported, what the runs know stays.
LEMMA NextQuiet ==
  Inv /\ MirrorInv /\ Inv' /\ MirrorInv' /\ QuietInv /\ [Next]_vars => QuietInv'
<1> SUFFICES ASSUME Inv, MirrorInv, Inv', MirrorInv', QuietInv, [Next]_vars PROVE QuietInv'
  OBVIOUS
<1>1. /\ left.changes \in Nat /\ left'.changes \in Nat /\ MaxChanges \in Nat
      /\ left.imports \in Nat /\ left'.imports \in Nat /\ MaxImports \in Nat
      /\ left'.changes <= left.changes /\ left.changes <= MaxChanges
      /\ left'.imports <= left.imports /\ left.imports <= MaxImports
  BY ChangesCounted, BoundsAssumption DEF Inv, TypeOK, QuietInv
<1>2. left'.changes <= MaxChanges /\ left'.imports <= MaxImports
  BY <1>1
<1>3. ASSUME left'.changes = MaxChanges, left'.imports = MaxImports PROVE QuietRuns'
  <2>1. /\ left.changes = MaxChanges /\ left'.changes = left.changes
        /\ left.imports = MaxImports /\ left'.imports = left.imports
    BY <1>1, <1>3
  <2>2. Ground
    BY <2>1 DEF Ground, QuietInv
  <2> QED BY <2>1, <2>2, NextOn DEF Onward
<1> QED BY <1>2, <1>3 DEF QuietInv

\* The invariant holds in every behaviour that starts with an uncrossed target.
THEOREM QuietRunsConverge == Spec /\ Uncrossed(main, target) => []QuietInv
<1> QED BY Invariant, RunsKnowTarget, InitQuiet, NextQuiet, PTL DEF Spec

\* A synchronised panel is one that mirrors the plan.
LEMMA WholeMirrors ==
  ASSUME NEW plan, NEW p, Plain(plan, p) PROVE Whole(plan, p) <=> Mirrors(plan, p)
<1>1. UniqueIds(p) /\ Registered(p) /\ Sound(p) /\ WellFormedPlan(plan)
  BY PlainParts DEF Sound, Plain
<1>2. \A i \in p.inbounds : KeyOf(p, i.id) = i.key
  BY KeyPlaced
<1>3. Level(plan, p) <=>
        {[key |-> i.key, port |-> i.port, conf |-> i.conf, enable |-> i.enable] :
           i \in p.inbounds} = plan.inbounds
  BY DEF Level, As
<1>4. ASSUME Whole(plan, p), NEW w \in plan.clients
      PROVE  \E a \in p.clients :
               KeyOf(p, a.id) = w.key /\ a.email = w.email /\ a.cred = w.cred
  <2>1. PICK m \in plan.inbounds : m.key = w.key
    BY <1>1 DEF WellFormedPlan, MainKeys
  <2>2. PICK i \in p.inbounds : i.key = w.key
    BY <1>4, <2>1 DEF Whole, Level, As
  <2>3. There(p, i.id, w)
    BY <1>4, <2>2 DEF Whole
  <2> QED BY <1>2, <2>2, <2>3 DEF There
<1>5. ASSUME Whole(plan, p), NEW a \in p.clients
      PROVE  \E w \in plan.clients :
               KeyOf(p, a.id) = w.key /\ a.email = w.email /\ a.cred = w.cred
  <2>1. PICK i \in p.inbounds : i.id = a.id
    BY <1>1 DEF Sound, HasInbound
  <2>2. PICK w \in plan.clients : w.key = i.key /\ w.email = a.email
    BY <1>2, <1>5, <2>1 DEF Whole, InPlace
  <2>3. PICK b \in p.clients : b.id = a.id /\ b.email = a.email /\ b.cred = w.cred
    BY <1>5, <2>1, <2>2 DEF Whole, There
  <2>4. a = b
    BY <1>1, <2>3 DEF Registered
  <2> QED BY <1>2, <2>1, <2>2, <2>3, <2>4
<1>6. ASSUME Mirrors(plan, p), NEW w \in plan.clients, NEW i \in p.inbounds, i.key = w.key
      PROVE  There(p, i.id, w)
  <2>1. <<w.key, w.email, w.cred>> \in {<<KeyOf(p, a.id), a.email, a.cred>> : a \in p.clients}
    BY <1>6 DEF Mirrors
  <2>2. PICK a \in p.clients : KeyOf(p, a.id) = w.key /\ a.email = w.email /\ a.cred = w.cred
    BY <2>1
  <2>3. PICK j \in p.inbounds : j.id = a.id
    BY <1>1 DEF Sound, HasInbound
  <2>4. j.key = i.key
    BY <1>2, <1>6, <2>2, <2>3
  <2>5. j = i
    BY <2>4, PlainParts DEF Distinct
  <2> QED BY <2>2, <2>3, <2>5 DEF There
<1>7. ASSUME Mirrors(plan, p), NEW a \in p.clients PROVE InPlace(plan, p, a)
  <2>1. <<KeyOf(p, a.id), a.email, a.cred>> \in {<<w.key, w.email, w.cred>> : w \in plan.clients}
    BY <1>7 DEF Mirrors
  <2> QED BY <2>1 DEF InPlace
<1>8. Whole(plan, p) => Mirrors(plan, p)
  <2> SUFFICES ASSUME Whole(plan, p) PROVE Mirrors(plan, p)
    OBVIOUS
  <2>1. {<<KeyOf(p, a.id), a.email, a.cred>> : a \in p.clients} =
        {<<w.key, w.email, w.cred>> : w \in plan.clients}
    BY <1>4, <1>5
  <2> QED BY <1>3, <2>1 DEF Whole, Mirrors
<1>9. Mirrors(plan, p) => Whole(plan, p)
  <2> SUFFICES ASSUME Mirrors(plan, p) PROVE Whole(plan, p)
    OBVIOUS
  <2>1. Level(plan, p)
    BY <1>3 DEF Mirrors
  <2> QED BY <1>6, <1>7, <2>1 DEF Whole
<1> QED BY <1>8, <1>9

\* One successful run is enough: as long as the main panel does not change and nobody
\* imports the target, a target that was uncrossed at the start mirrors the plan from the
\* first success on, whatever other requests overlapped it, stored their own listings in
\* the rows it read back, failed half-way or are still at work.
THEOREM QuietIsMirror == Spec /\ Uncrossed(main, target) => []QuietMirrors
<1>1. Inv /\ MirrorInv /\ QuietInv => QuietMirrors
  <2> SUFFICES ASSUME Inv, MirrorInv, QuietInv, left.changes = MaxChanges,
                      left.imports = MaxImports, NEW s \in Syncers, Succeeded(run[s])
               PROVE  Mirrors(main, target)
    BY DEF QuietMirrors
  <2>1. Whole(main, target)
    BY DEF QuietInv, QuietRuns, Converges
  <2>2. Plain(main, target)
    BY ChoicesAssumption DEF Inv, TypeOK, MirrorInv, QuietInv, QuietRuns, Plain
  <2> QED BY <2>1, <2>2, WholeMirrors
<1> QED BY <1>1, Invariant, RunsKnowTarget, QuietRunsConverge, PTL

\* A target that mirrors a plan which never changed is left as it is, by requests that
\* listed it before it did, by those that read back what another stored and by those that
\* are repeated, as long as nobody imports the target.
MirrorStays ==
  [][left.changes = MaxChanges /\ left'.changes = left.changes
       /\ left.imports = MaxImports /\ left'.imports = left.imports
       /\ Mirrors(main, target)
     => Mirrors(main, target)']_vars

\* And nothing disturbs it: while the main panel does not change and nobody imports the
\* target, no step of any request, nor of the target, takes a target that mirrors the plan
\* away from it.
THEOREM MirrorsStay == Spec /\ Uncrossed(main, target) => MirrorStays
<1>1. Inv /\ MirrorInv /\ QuietInv /\ Inv' /\ MirrorInv' /\ [Next]_vars =>
        [left.changes = MaxChanges /\ left'.changes = left.changes
           /\ left.imports = MaxImports /\ left'.imports = left.imports
           /\ Mirrors(main, target)
         => Mirrors(main, target)']_vars
  <2> SUFFICES ASSUME Inv, MirrorInv, QuietInv, Inv', MirrorInv', Next,
                      left.changes = MaxChanges, left'.changes = left.changes,
                      left.imports = MaxImports, left'.imports = left.imports,
                      Mirrors(main, target)
               PROVE  Mirrors(main, target)'
    OBVIOUS
  <2>1. Ground
    BY DEF Ground, QuietInv
  <2>2. Settles(main, target, target') /\ QuietRuns'
    BY <2>1, NextOn DEF Onward
  <2>3. Plain(main, target) /\ target' \in PanelState /\ WellFormed(target')
    BY <2>1, GroundPanel
  <2>4. main' = main
    BY ChangesCounted
  <2>5. Whole(main, target')
    BY <2>2, <2>3, WholeMirrors, WholeStays
  <2>6. Plain(main, target')
    BY <2>2, <2>3, ForwardPlain DEF Settles
  <2>7. Mirrors(main, target')
    BY <2>5, <2>6, WholeMirrors
  <2> QED BY <2>4, <2>7
<1> QED BY <1>1, Invariant, RunsKnowTarget, QuietRunsConverge, PTL DEF Spec, MirrorStays
=============================================================================
