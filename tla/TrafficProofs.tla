--------------------------- MODULE TrafficProofs ---------------------------
(***************************************************************************)
(* Proofs about Traffic, for any calendar, interval, clients and number of *)
(* concurrent requests: type correctness; that the scheduled reset is      *)
(* single in a month without trouble; that no month goes without one; and  *)
(* that what is stored is what the panel showed not long ago.              *)
(***************************************************************************)
EXTENDS Traffic, TLAPS

States  == Busy \cup {Idle}
History == [auto: Nat, reset: BOOLEAN, excused: BOOLEAN, troubled: BOOLEAN, carried: BOOLEAN]
Rest    == [troubles: Nat, uses: Nat, asks: Nat]
ResetPhases == {"zero", "stamp", "key"}   \* between the panel's reset and its marker

(* The loop resets only by a row that schedules a reset, *)
Scheduled == run[Loop].at \in {"reset"} \cup ResetPhases => run[Loop].copy.auto
(* it is about to only in a month without one, *)
Ready == run[Loop].at = "reset" => seen.auto = 0 \/ seen.excused
(* and after one the key names the month, or is still to be written. *)
Keyed ==
  seen.auto > 0 => \/ seen.excused
                   \/ sv.key = now.month
                   \/ run[Loop].at \in ResetPhases

Inv == TypeOK /\ SingleReset /\ Scheduled /\ Ready /\ Keyed

---------------------------------------------------------------------------
(* Counters. *)

LEMMA NoneIsCounters == [e \in {} |-> 0] \in Counters
  <1>1. [e \in {} |-> 0] \in [{} -> 0..MaxUse]
    OBVIOUS
  <1>2. {} \in SUBSET Emails
    OBVIOUS
  <1> QED BY <1>1, <1>2 DEF Counters

LEMMA CountersAre ==
  ASSUME NEW c \in Counters
  PROVE  DOMAIN c \subseteq Emails /\ c \in [DOMAIN c -> 0..MaxUse]
  <1>1. PICK S \in SUBSET Emails : c \in [S -> 0..MaxUse]
    BY DEF Counters
  <1> QED BY <1>1

LEMMA AreCounters ==
  ASSUME NEW S \in SUBSET Emails, NEW c \in [S -> 0..MaxUse]
  PROVE  c \in Counters
  BY DEF Counters

LEMMA ZeroedCounters ==
  ASSUME NEW c \in Counters
  PROVE  Zeroed(c) \in Counters
  <1>1. DOMAIN c \in SUBSET Emails
    BY CountersAre
  <1>2. Zeroed(c) \in [DOMAIN c -> 0..MaxUse]
    BY BoundsAssumption DEF Zeroed
  <1> QED BY <1>1, <1>2, AreCounters

---------------------------------------------------------------------------
(* What the parts of an action do to a run. *)

LEMMA NotIdle ==
  ASSUME TypeOK, NEW p \in Runs, run[p].at # "idle"
  PROVE  run[p] \in Busy
  BY DEF TypeOK, Idle

LEMMA GoesType ==
  ASSUME TypeOK, NEW p \in Runs, run[p] \in Busy,
         NEW phase \in Phase, NEW list \in Counters, Goes(p, phase, list)
  PROVE  run' \in [Runs -> States] /\ passed' \in BOOLEAN
  <1>1. run \in [Runs -> States] /\ passed \in BOOLEAN
    BY DEF TypeOK, States, History, Rest
  <1>2. CASE phase = "idle"
    <2>1. run' = [run EXCEPT ![p] = Idle]
      BY <1>2 DEF Goes
    <2>2. passed' = (passed \/ (p = Loop /\ run[p].begun.t = now.t))
      BY <1>2 DEF Goes
    <2>3. run' \in [Runs -> States]
      BY <1>1, <2>1 DEF States
    <2>4. passed' \in BOOLEAN
      BY <2>2
    <2> QED BY <2>3, <2>4
  <1>3. CASE phase # "idle"
    <2> DEFINE moved == [at |-> phase, copy |-> run[p].copy, begun |-> run[p].begun,
                         list |-> list]
    <2>1. run' = [run EXCEPT ![p] = moved]
      BY <1>3, <1>1 DEF Goes
    <2>2. moved \in Busy
      BY <1>3 DEF Busy
    <2> HIDE DEF moved
    <2>3. run' \in [Runs -> States]
      BY <1>1, <2>1, <2>2 DEF States
    <2>4. passed' = passed
      BY <1>3 DEF Goes
    <2> QED BY <1>1, <2>3, <2>4
  <1> QED BY <1>2, <1>3

\* A step of p leaves the others alone, and moves p with the row it read.
LEMMA GoesRun ==
  ASSUME TypeOK, NEW p \in Runs, run[p] \in Busy,
         NEW phase \in Phase, NEW list, Goes(p, phase, list)
  PROVE  /\ \A q \in Runs : q # p => run'[q] = run[q]
         /\ run'[p].at = phase
         /\ phase # "idle" => run'[p].copy = run[p].copy
  <1>1. run \in [Runs -> States]
    BY DEF TypeOK, States, History, Rest
  <1>2. CASE phase = "idle"
    BY <1>1, <1>2 DEF Goes, Idle
  <1>3. CASE phase # "idle"
    BY <1>1, <1>3 DEF Goes, Busy
  <1> QED BY <1>2, <1>3

LEMMA AfterResetPhase ==
  ASSUME NEW p \in Runs
  PROVE  AfterReset(p) \in {"list", "idle"} /\ AfterFailure(p) \in {"list", "idle"}
  BY DEF AfterReset, AfterFailure

LEMMA LoopIsRun == Loop \in Runs
  BY DEF Runs

\* Steps that do not reset the panel: the three conjuncts about the loop stay.
LEMMA Orderly ==
  ASSUME Inv, NEW p \in Runs, run[p] \in Busy,
         NEW phase \in Phase \ {"reset"}, NEW list, Goes(p, phase, list),
         phase \in ResetPhases => run[p].at \in ResetPhases,
         seen'.auto = seen.auto, seen.excused => seen'.excused, now' = now,
         sv'.key = sv.key \/ sv'.key = now.month,
         p = Loop /\ run[p].at \in ResetPhases /\ phase \notin ResetPhases
           => seen'.excused \/ sv'.key = now.month
  PROVE  (SingleReset /\ Scheduled /\ Ready /\ Keyed)'
  <1>1. /\ \A q \in Runs : q # p => run'[q] = run[q]
        /\ run'[p].at = phase
        /\ phase # "idle" => run'[p].copy = run[p].copy
    <2>1. phase \in Phase /\ TypeOK
      BY DEF Inv
    <2> QED BY <2>1, GoesRun
  <1>2. SingleReset'
    BY DEF Inv, SingleReset
  <1>3. Scheduled'
    <2>1. CASE p = Loop
      BY <2>1, <1>1 DEF Inv, Scheduled, ResetPhases
    <2>2. CASE p # Loop
      BY <2>2, <1>1, LoopIsRun DEF Inv, Scheduled
    <2> QED BY <2>1, <2>2
  <1>4. Ready'
    <2>1. CASE p = Loop
      BY <2>1, <1>1 DEF Ready
    <2>2. CASE p # Loop
      BY <2>2, <1>1, LoopIsRun DEF Inv, Ready
    <2> QED BY <2>1, <2>2
  <1>5. Keyed'
    <2>1. CASE p = Loop
      BY <2>1, <1>1 DEF Inv, Keyed
    <2>2. CASE p # Loop
      BY <2>2, <1>1, LoopIsRun DEF Inv, Keyed
    <2> QED BY <2>1, <2>2
  <1> QED BY <1>2, <1>3, <1>4, <1>5

LEMMA Typed == TypeOK => seen \in History /\ left \in Rest
  BY DEF TypeOK, History, Rest

LEMMA ExcusedHistory ==
  ASSUME NEW h \in History
  PROVE  Excused(h) \in History /\ Excused(h).auto = h.auto /\ Excused(h).excused = TRUE
  BY DEF History, Excused

LEMMA TroubleRest ==
  ASSUME left \in Rest, NEW kind, Trouble(kind)
  PROVE  left' \in Rest
  BY DEF Rest, Trouble

LEMMA FaultSeen ==
  ASSUME TypeOK, NEW p \in Runs, NEW h \in History, Fault(p, h)
  PROVE  /\ seen' \in History
         /\ seen'.auto = h.auto /\ (h.excused => seen'.excused)
         /\ p = Loop => seen'.excused
         /\ left' \in Rest
  <1>1. left' \in Rest
    BY TroubleRest, Typed DEF Fault
  <1>2. CASE p = Loop
    BY <1>1, <1>2, ExcusedHistory DEF Fault
  <1>3. CASE p # Loop
    BY <1>1, <1>3 DEF Fault
  <1> QED BY <1>2, <1>3

---------------------------------------------------------------------------
(* The steps of a run keep the invariant. *)

LEMMA WithResetHistory ==
  ASSUME seen \in History, NEW p \in Runs
  PROVE  /\ WithReset(p) \in History /\ WithReset(p).excused = seen.excused
         /\ WithReset(p).auto = IF p = Loop THEN seen.auto + 1 ELSE seen.auto
  <1>1. CASE p = Loop
    <2> DEFINE counted == [seen EXCEPT !.auto = @ + 1]
    <2>1. counted \in History /\ counted.auto = seen.auto + 1 /\ counted.excused = seen.excused
      BY DEF History
    <2>2. WithReset(p) = [counted EXCEPT !.reset = TRUE]
      BY <1>1 DEF WithReset, History
    <2> HIDE DEF counted
    <2> QED BY <1>1, <2>1, <2>2 DEF History
  <1>2. CASE p # Loop
    BY <1>2 DEF WithReset, History
  <1> QED BY <1>1, <1>2

LEMMA ResetKeeps ==
  ASSUME Inv, NEW p \in Runs, ResetAllClientTraffics(p)
  PROVE  Inv'
  <1>1. TypeOK /\ run[p] \in Busy /\ run[p].at = "reset" /\ run[p].list \in Counters
    BY NotIdle DEF Inv, ResetAllClientTraffics, Busy
  <1>2. PICK phase \in Phase \ {"reset"} :
          /\ Goes(p, phase, run[p].list)
          /\ phase \in ResetPhases \/ (p = Loop => seen'.excused)
          /\ phase \in ResetPhases => phase = "zero"
    <2>1. CASE Goes(p, "zero", run[p].list)
      BY <2>1 DEF Phase, ResetPhases
    <2>2. CASE Goes(p, AfterReset(p), run[p].list) /\ Fault(p, WithReset(p))
      <3>1. WithReset(p) \in History
        BY <1>1, Typed, WithResetHistory
      <3>2. p = Loop => seen'.excused
        BY <2>2, <3>1, <1>1, FaultSeen
      <3> QED BY <2>2, <3>2, AfterResetPhase DEF Phase, ResetPhases
    <2> QED BY <2>1, <2>2 DEF ResetAllClientTraffics
  <1>3. /\ seen' \in History
        /\ seen'.auto = (IF p = Loop THEN seen.auto + 1 ELSE seen.auto)
        /\ seen.excused => seen'.excused
        /\ left' \in Rest
    <2>1. /\ WithReset(p) \in History /\ WithReset(p).excused = seen.excused
          /\ WithReset(p).auto = (IF p = Loop THEN seen.auto + 1 ELSE seen.auto)
      BY <1>1, Typed, WithResetHistory
    <2>2. CASE seen' = WithReset(p) /\ UNCHANGED left
      BY <1>1, <2>1, <2>2, Typed
    <2>3. CASE Fault(p, WithReset(p))
      BY <1>1, <2>1, <2>3, FaultSeen
    <2> QED BY <2>2, <2>3 DEF ResetAllClientTraffics
  <1>4. UNCHANGED <<sv, cached, page, now>> /\ panel' = Zeroed(panel)
    BY DEF ResetAllClientTraffics
  <1>5. TypeOK'
    <2>1. run' \in [Runs -> States] /\ passed' \in BOOLEAN
      BY <1>1, <1>2, GoesType
    <2>2. panel' \in Counters
      BY <1>1, <1>4, ZeroedCounters DEF TypeOK
    <2> QED BY <1>1, <1>3, <1>4, <2>1, <2>2 DEF TypeOK, States, History, Rest
  <1>6. /\ \A q \in Runs : q # p => run'[q] = run[q]
        /\ run'[p].at = phase
        /\ phase # "idle" => run'[p].copy = run[p].copy
    BY <1>1, <1>2, GoesRun
  <1>7. CASE p = Loop
    <2>1. seen.auto = 0 \/ seen.excused
      BY <1>1, <1>7 DEF Inv, Ready
    <2>2. SingleReset'
      BY <2>1, <1>3, <1>7 DEF SingleReset, Inv
    <2>3. Scheduled'
      BY <1>1, <1>2, <1>6, <1>7 DEF Inv, Scheduled, ResetPhases
    <2>4. Ready'
      BY <1>2, <1>6, <1>7 DEF Ready
    <2>5. Keyed'
      BY <1>2, <1>6, <1>7 DEF Keyed
    <2> QED BY <1>5, <2>2, <2>3, <2>4, <2>5 DEF Inv
  <1>8. CASE p # Loop
    <2>1. run'[Loop] = run[Loop] /\ seen'.auto = seen.auto
      BY <1>3, <1>6, <1>8, LoopIsRun
    <2> QED BY <1>3, <1>4, <1>5, <2>1 DEF Inv, SingleReset, Scheduled, Ready, Keyed
  <1> QED BY <1>7, <1>8

LEMMA ZeroKeeps ==
  ASSUME Inv, NEW p \in Runs, ZeroAllUserTraffic(p)
  PROVE  Inv'
  <1>1. /\ TypeOK /\ run[p] \in Busy /\ run[p].at = "zero" /\ run[p].list \in Counters
        /\ Goes(p, "stamp", run[p].list) /\ cached' = Zeroed(cached)
        /\ UNCHANGED <<panel, sv, page, now, seen, recent, left>>
    BY NotIdle DEF Inv, ZeroAllUserTraffic, Busy
  <1>2. "stamp" \in Phase \ {"reset"} /\ "stamp" \in ResetPhases /\ "zero" \in ResetPhases
    BY DEF Phase, ResetPhases
  <1>3. run' \in [Runs -> States] /\ passed' \in BOOLEAN
    BY <1>1, <1>2, GoesType
  <1>4. cached' \in Counters
    BY <1>1, ZeroedCounters DEF TypeOK
  <1>5. TypeOK'
    BY <1>1, <1>3, <1>4 DEF TypeOK, States, History, Rest
  <1>6. (SingleReset /\ Scheduled /\ Ready /\ Keyed)'
    BY <1>1, <1>2, Orderly
  <1> QED BY <1>5, <1>6 DEF Inv

LEMMA StampKeeps ==
  ASSUME Inv, NEW p \in Runs, StampSync(p)
  PROVE  Inv'
  <1> DEFINE phase == IF run[p].copy.auto THEN "key" ELSE AfterReset(p)
  <1>1. /\ TypeOK /\ run[p] \in Busy /\ run[p].at = "stamp" /\ run[p].list \in Counters
        /\ Goes(p, phase, run[p].list)
        /\ UNCHANGED <<panel, cached, page, now, recent>>
    BY NotIdle DEF Inv, StampSync, Busy
  <1>2. /\ phase \in Phase \ {"reset"}
        /\ phase \in ResetPhases => run[p].at \in ResetPhases
        /\ p = Loop => phase \in ResetPhases
    BY <1>1, AfterResetPhase DEF Phase, ResetPhases, Inv, Scheduled
  <1>3. /\ sv' \in Server /\ sv'.key = sv.key /\ sv'.syncAt <= now.t
        /\ seen' \in History
        /\ seen'.auto = seen.auto /\ (seen.excused => seen'.excused)
        /\ left' \in Rest
    <2>1. CASE sv' = [sv EXCEPT !.syncAt = now.t] /\ UNCHANGED <<seen, left>>
      BY <1>1, <2>1, Typed DEF TypeOK, Server, Moment
    <2>2. CASE Fault(p, seen) /\ UNCHANGED sv
      BY <1>1, <2>2, FaultSeen, Typed DEF TypeOK
    <2> QED BY <2>1, <2>2 DEF StampSync
  <1> HIDE DEF phase
  <1>4. run' \in [Runs -> States] /\ passed' \in BOOLEAN
    BY <1>1, <1>2, GoesType
  <1>5. TypeOK'
    BY <1>1, <1>3, <1>4 DEF TypeOK, States, History, Rest
  <1>6. (SingleReset /\ Scheduled /\ Ready /\ Keyed)'
    BY <1>1, <1>2, <1>3, Orderly
  <1> QED BY <1>5, <1>6 DEF Inv

LEMMA MarkResetKeeps ==
  ASSUME Inv, NEW p \in Runs, MarkReset(p)
  PROVE  Inv'
  <1>1. /\ TypeOK /\ run[p] \in Busy /\ run[p].at = "key" /\ run[p].list \in Counters
        /\ Goes(p, AfterReset(p), run[p].list)
        /\ UNCHANGED <<panel, cached, page, now, recent>>
    BY NotIdle DEF Inv, MarkReset, Busy
  <1>2. AfterReset(p) \in Phase \ {"reset"} /\ AfterReset(p) \notin ResetPhases
    BY AfterResetPhase DEF Phase, ResetPhases
  <1>3. /\ sv' \in Server /\ sv'.syncAt = sv.syncAt /\ sv'.key <= now.month
        /\ sv'.key = sv.key \/ sv'.key = now.month
        /\ seen' \in History
        /\ seen'.auto = seen.auto /\ (seen.excused => seen'.excused)
        /\ p = Loop => seen'.excused \/ sv'.key = now.month
        /\ left' \in Rest
    <2>1. CASE sv' = [sv EXCEPT !.key = ResetKey(now)] /\ UNCHANGED <<seen, left>>
      <3>1. now.month \in Months /\ now.month \in Int /\ sv \in Server /\ sv.syncAt <= now.t
        BY <1>1, CalendarAssumption DEF TypeOK, Moment, Months
      <3>2. sv' \in Server /\ sv'.key = now.month /\ sv'.syncAt = sv.syncAt
        BY <2>1, <3>1 DEF Server, ResetKey
      <3> QED BY <1>1, <2>1, <3>1, <3>2, Typed
    <2>2. CASE Fault(p, seen) /\ UNCHANGED sv
      BY <1>1, <2>2, FaultSeen, Typed DEF TypeOK
    <2> QED BY <2>1, <2>2 DEF MarkReset
  <1>4. run' \in [Runs -> States] /\ passed' \in BOOLEAN
    BY <1>1, <1>2, GoesType
  <1>5. TypeOK'
    BY <1>1, <1>3, <1>4 DEF TypeOK, States, History, Rest
  <1>6. (SingleReset /\ Scheduled /\ Ready /\ Keyed)'
    BY <1>1, <1>2, <1>3, Orderly
  <1> QED BY <1>5, <1>6 DEF Inv

LEMMA ListKeeps ==
  ASSUME Inv, NEW p \in Runs, ListClients(p)
  PROVE  Inv'
  <1>1. /\ TypeOK /\ run[p] \in Busy /\ run[p].at = "list" /\ panel \in Counters
        /\ Goes(p, "store", panel)
        /\ UNCHANGED <<panel, sv, cached, page, now, seen, recent, left>>
    BY NotIdle DEF Inv, ListClients, TypeOK
  <1>2. "store" \in Phase \ {"reset"} /\ "store" \notin ResetPhases /\ "list" \notin ResetPhases
    BY DEF Phase, ResetPhases
  <1>3. run' \in [Runs -> States] /\ passed' \in BOOLEAN
    BY <1>1, <1>2, GoesType
  <1>4. TypeOK'
    BY <1>1, <1>3 DEF TypeOK, States
  <1>5. (SingleReset /\ Scheduled /\ Ready /\ Keyed)'
    BY <1>1, <1>2, Orderly
  <1> QED BY <1>4, <1>5 DEF Inv

LEMMA StoreKeeps ==
  ASSUME Inv, NEW p \in Runs, ReplaceUserTraffic(p)
  PROVE  Inv'
  <1>1. /\ TypeOK /\ run[p] \in Busy /\ run[p].at = "store" /\ run[p].list \in Counters
        /\ Goes(p, "mark", [e \in {} |-> 0]) /\ cached' = run[p].list
        /\ UNCHANGED <<panel, sv, page, now, seen, recent, left>>
    BY NotIdle DEF Inv, ReplaceUserTraffic, Replaced, Busy
  <1>2. "mark" \in Phase \ {"reset"} /\ "mark" \notin ResetPhases /\ "store" \notin ResetPhases
    BY DEF Phase, ResetPhases
  <1>3. run' \in [Runs -> States] /\ passed' \in BOOLEAN
    BY <1>1, <1>2, GoesType, NoneIsCounters
  <1>4. TypeOK'
    BY <1>1, <1>3 DEF TypeOK, States
  <1>5. (SingleReset /\ Scheduled /\ Ready /\ Keyed)'
    BY <1>1, <1>2, Orderly
  <1> QED BY <1>4, <1>5 DEF Inv

LEMMA MarkSyncKeeps ==
  ASSUME Inv, NEW p \in Runs, MarkSync(p)
  PROVE  Inv'
  <1>1. /\ TypeOK /\ run[p] \in Busy /\ run[p].at = "mark" /\ run[p].list \in Counters
        /\ Goes(p, "idle", run[p].list)
        /\ UNCHANGED <<panel, cached, page, now, recent>>
    BY NotIdle DEF Inv, MarkSync, Busy
  <1>2. "idle" \in Phase \ {"reset"} /\ "idle" \notin ResetPhases /\ "mark" \notin ResetPhases
    BY DEF Phase, ResetPhases
  <1>3. /\ sv' \in Server /\ sv'.key = sv.key /\ sv'.syncAt <= now.t
        /\ seen' \in History
        /\ seen'.auto = seen.auto /\ (seen.excused => seen'.excused)
        /\ left' \in Rest
    <2>1. CASE sv' = [sv EXCEPT !.syncAt = now.t] /\ UNCHANGED <<seen, left>>
      BY <1>1, <2>1, Typed DEF TypeOK, Server, Moment
    <2>2. CASE Fault(p, seen) /\ UNCHANGED sv
      BY <1>1, <2>2, FaultSeen, Typed DEF TypeOK
    <2> QED BY <2>1, <2>2 DEF MarkSync
  <1>4. run' \in [Runs -> States] /\ passed' \in BOOLEAN
    BY <1>1, <1>2, GoesType
  <1>5. TypeOK'
    BY <1>1, <1>3, <1>4 DEF TypeOK, States, History, Rest
  <1>6. (SingleReset /\ Scheduled /\ Ready /\ Keyed)'
    BY <1>1, <1>2, <1>3, Orderly
  <1> QED BY <1>5, <1>6 DEF Inv

LEMMA FailsKeeps ==
  ASSUME Inv, NEW p \in Runs, Fails(p)
  PROVE  Inv'
  <1>1. /\ TypeOK /\ run[p] \in Busy
        /\ Goes(p, AfterFailure(p), [e \in {} |-> 0]) /\ Fault(p, seen)
        /\ UNCHANGED <<panel, sv, cached, page, now, recent>>
    BY NotIdle DEF Inv, Fails
  <1>2. AfterFailure(p) \in Phase \ {"reset"} /\ AfterFailure(p) \notin ResetPhases
    BY AfterResetPhase DEF Phase, ResetPhases
  <1>3. /\ seen' \in History
        /\ seen'.auto = seen.auto /\ (seen.excused => seen'.excused)
        /\ p = Loop => seen'.excused
        /\ left' \in Rest
    BY <1>1, FaultSeen, Typed
  <1>4. run' \in [Runs -> States] /\ passed' \in BOOLEAN
    BY <1>1, <1>2, GoesType, NoneIsCounters
  <1>5. TypeOK'
    BY <1>1, <1>3, <1>4 DEF TypeOK, States, History, Rest
  <1>6. (SingleReset /\ Scheduled /\ Ready /\ Keyed)'
    BY <1>1, <1>2, <1>3, Orderly
  <1> QED BY <1>5, <1>6 DEF Inv

---------------------------------------------------------------------------
(* Starting a run. *)

LEMMA StartsType ==
  ASSUME TypeOK, NEW p \in Runs, NEW phase \in Phase \ {"idle"}, Starts(p, phase)
  PROVE  /\ run' \in [Runs -> States]
         /\ \A q \in Runs : q # p => run'[q] = run[q]
         /\ run'[p].at = phase /\ run'[p].copy = sv
  <1> DEFINE fresh == [at |-> phase, copy |-> sv, begun |-> now, list |-> [e \in {} |-> 0]]
  <1>1. fresh \in Busy
    BY NoneIsCounters DEF TypeOK, Busy
  <1>2. run' = [run EXCEPT ![p] = fresh] /\ run \in [Runs -> States]
    BY DEF Starts, TypeOK, States
  <1>3. fresh.at = phase /\ fresh.copy = sv
    OBVIOUS
  <1> HIDE DEF fresh
  <1> QED BY <1>1, <1>2, <1>3 DEF States

LEMMA WakeKeeps ==
  ASSUME Inv, Wake
  PROVE  Inv'
  <1>1. TypeOK /\ run[Loop] = Idle /\ UNCHANGED <<panel, sv, cached, page, now, seen, recent, left>>
    BY DEF Inv, Wake
  <1>2. CASE UNCHANGED run /\ passed' = TRUE
    <2>1. TypeOK'
      BY <1>1, <1>2 DEF TypeOK
    <2> QED BY <1>1, <1>2, <2>1 DEF Inv, SingleReset, Scheduled, Ready, Keyed
  <1>3. CASE \E phase \in {"reset", "list"} :
               /\ Starts(Loop, phase) /\ UNCHANGED passed
               /\ phase = "reset" => ShouldReset(now, sv)
    <2>1. PICK phase \in {"reset", "list"} :
             /\ Starts(Loop, phase) /\ UNCHANGED passed
             /\ phase = "reset" => ShouldReset(now, sv)
      BY <1>3
    <2>2. phase \in Phase \ {"idle"} /\ phase \notin ResetPhases
      BY DEF Phase, ResetPhases
    <2>3. /\ run' \in [Runs -> States]
          /\ run'[Loop].at = phase /\ run'[Loop].copy = sv
      BY <1>1, <2>1, <2>2, StartsType, LoopIsRun
    <2>4. TypeOK'
      BY <1>1, <2>1, <2>3 DEF TypeOK, States
    <2>5. run[Loop].at \notin ResetPhases
      BY <1>1 DEF Idle, ResetPhases
    <2>6. Scheduled'
      BY <2>1, <2>2, <2>3 DEF Scheduled, ShouldReset
    <2>7. Keyed' /\ SingleReset'
      BY <1>1, <2>5 DEF Inv, Keyed, SingleReset
    <2>8. Ready'
      <3>1. SUFFICES ASSUME phase = "reset" PROVE seen.auto = 0 \/ seen.excused
        BY <1>1, <2>3 DEF Ready
      <3>2. sv.key # now.month
        BY <2>1, <3>1 DEF ShouldReset
      <3>3. seen.auto \in Nat
        BY <1>1 DEF TypeOK
      <3> QED BY <2>5, <3>2, <3>3 DEF Inv, Keyed
    <2> QED BY <2>4, <2>6, <2>7, <2>8 DEF Inv
  <1> QED BY <1>2, <1>3 DEF Wake

LEMMA WakeFailsKeeps ==
  ASSUME Inv, WakeFails
  PROVE  Inv'
  <1>1. /\ TypeOK /\ passed' = TRUE /\ UNCHANGED <<panel, sv, cached, page, now, run>>
    BY DEF Inv, WakeFails
  <1>2. seen' \in History /\ seen'.auto = seen.auto /\ seen'.excused /\ left' \in Rest
    BY <1>1, FaultSeen, Typed, LoopIsRun DEF WakeFails
  <1>3. TypeOK'
    BY <1>1, <1>2 DEF TypeOK, History, Rest
  <1> QED BY <1>1, <1>2, <1>3 DEF Inv, SingleReset, Scheduled, Ready, Keyed

LEMMA AskKeeps ==
  ASSUME Inv, NEW p \in Requests, AskRefresh(p) \/ AskReset(p)
  PROVE  Inv'
  <1>1. /\ TypeOK /\ p \in Runs /\ p # Loop
        /\ UNCHANGED <<panel, sv, cached, page, now, passed, seen, recent>>
        /\ left.asks > 0 /\ left' = [left EXCEPT !.asks = @ - 1]
    BY RunsAssumption DEF Inv, AskRefresh, AskReset, Runs
  <1>2. PICK phase \in {"reset", "list"} : Starts(p, phase)
    BY DEF AskRefresh, AskReset
  <1>3. phase \in Phase \ {"idle"}
    BY DEF Phase
  <1>4. run' \in [Runs -> States] /\ run'[Loop] = run[Loop]
    BY <1>1, <1>2, <1>3, StartsType, LoopIsRun
  <1>5. left' \in Rest
    BY <1>1, Typed DEF Rest
  <1>6. TypeOK'
    BY <1>1, <1>4, <1>5 DEF TypeOK, States, Rest
  <1> QED BY <1>1, <1>4, <1>6 DEF Inv, SingleReset, Scheduled, Ready, Keyed

---------------------------------------------------------------------------
(* What happens around the runs. *)

LEMMA PanelKeeps ==
  ASSUME Inv, PanelChanges
  PROVE  Inv'
  <1>1. TypeOK /\ UNCHANGED <<sv, cached, page, now, run, passed, seen>>
    BY DEF Inv, PanelChanges
  <1>2. left' \in Rest
    BY <1>1, Typed DEF PanelChanges, Rest
  <1>3. panel' \in Counters
    <2>1. DOMAIN panel \subseteq Emails /\ panel \in [DOMAIN panel -> 0..MaxUse]
      BY <1>1, CountersAre DEF TypeOK
    <2>2. PICK e \in Emails :
            \/ panel' = [f \in DOMAIN panel \cup {e} |->
                           IF f \notin DOMAIN panel THEN 0
                           ELSE IF f = e /\ panel[f] < MaxUse THEN panel[f] + 1 ELSE panel[f]]
            \/ panel' = [f \in DOMAIN panel \ {e} |-> panel[f]]
      BY DEF PanelChanges
    <2>3. ASSUME NEW f \in DOMAIN panel, panel[f] < MaxUse
          PROVE  panel[f] + 1 \in 0..MaxUse
      BY <2>1, <2>3, BoundsAssumption
    <2>4. 0 \in 0..MaxUse
      BY BoundsAssumption
    <2>5. CASE panel' = [f \in DOMAIN panel \ {e} |-> panel[f]]
      <3>1. panel' \in [DOMAIN panel \ {e} -> 0..MaxUse]
        BY <2>1, <2>5
      <3>2. DOMAIN panel \ {e} \in SUBSET Emails
        BY <2>1
      <3> QED BY <3>1, <3>2, AreCounters
    <2>6. CASE panel' = [f \in DOMAIN panel \cup {e} |->
                           IF f \notin DOMAIN panel THEN 0
                           ELSE IF f = e /\ panel[f] < MaxUse THEN panel[f] + 1 ELSE panel[f]]
      <3>1. ASSUME NEW f \in DOMAIN panel \cup {e}
            PROVE  (IF f \notin DOMAIN panel THEN 0
                    ELSE IF f = e /\ panel[f] < MaxUse THEN panel[f] + 1 ELSE panel[f])
                     \in 0..MaxUse
        BY <2>1, <2>3, <2>4
      <3>2. panel' \in [DOMAIN panel \cup {e} -> 0..MaxUse]
        BY <2>6, <3>1
      <3>3. DOMAIN panel \cup {e} \in SUBSET Emails
        BY <2>1
      <3> QED BY <3>2, <3>3, AreCounters
    <2> QED BY <2>2, <2>5, <2>6
  <1>4. TypeOK'
    BY <1>1, <1>2, <1>3 DEF TypeOK, Rest
  <1> QED BY <1>1, <1>4 DEF Inv, SingleReset, Scheduled, Ready, Keyed

LEMMA PageKeeps ==
  ASSUME Inv, LoadPage
  PROVE  Inv'
  <1>1. TypeOK /\ page' = {sv} /\ UNCHANGED <<panel, sv, cached, now, run, passed, seen, left>>
    BY DEF Inv, LoadPage
  <1>2. TypeOK'
    BY <1>1 DEF TypeOK
  <1> QED BY <1>1, <1>2 DEF Inv, SingleReset, Scheduled, Ready, Keyed

\* The saved row may have lost its key: the month is excused.
LEMMA SaveKeeps ==
  ASSUME Inv, SavePage
  PROVE  Inv'
  <1>1. /\ TypeOK /\ page' = {} /\ Trouble("save") /\ seen' = Excused(seen)
        /\ UNCHANGED <<panel, cached, now, run, passed>>
    BY DEF Inv, SavePage
  <1>2. seen' \in History /\ seen'.excused /\ left' \in Rest
    BY <1>1, Typed, ExcusedHistory, TroubleRest
  <1>3. sv' \in Server /\ sv'.syncAt <= now.t /\ sv'.key <= now.month
    <2>1. PICK row \in page, enabled \in BOOLEAN, auto \in BOOLEAN, day \in Days :
            sv' = [row EXCEPT !.enabled = enabled, !.auto = auto, !.day = day]
      BY DEF SavePage
    <2>2. row \in Server /\ row.syncAt <= now.t /\ row.key <= now.month
      BY <1>1 DEF TypeOK
    <2>3. sv' \in Server /\ sv'.syncAt = row.syncAt /\ sv'.key = row.key
      BY <2>1, <2>2 DEF Server
    <2> QED BY <2>2, <2>3
  <1>4. TypeOK'
    BY <1>1, <1>2, <1>3 DEF TypeOK, History, Rest
  <1> QED BY <1>1, <1>2, <1>4, <1>3, LoopIsRun
             DEF Inv, SingleReset, Scheduled, Ready, Keyed

LEMMA RestartKeeps ==
  ASSUME Inv, Restart
  PROVE  Inv'
  <1>1. /\ TypeOK /\ Trouble("restart") /\ seen' = Excused(seen)
        /\ run' = [p \in Runs |-> Idle] /\ passed' = FALSE
        /\ UNCHANGED <<panel, sv, cached, page, now>>
    BY DEF Inv, Restart
  <1>2. seen' \in History /\ seen'.excused /\ left' \in Rest
    BY <1>1, Typed, ExcusedHistory, TroubleRest
  <1>3. TypeOK'
    BY <1>1, <1>2 DEF TypeOK, History, Rest
  <1>4. run'[Loop].at = "idle"
    BY <1>1, LoopIsRun DEF Idle
  <1> QED BY <1>2, <1>3, <1>4
             DEF Inv, SingleReset, Scheduled, Ready, Keyed, ResetPhases

LEMMA TimeKeeps ==
  ASSUME Inv, TimePasses
  PROVE  Inv'
  <1>1. /\ TypeOK /\ passed' = FALSE /\ now' = NextMoment(now) /\ now'.month \in Months
        /\ UNCHANGED <<panel, sv, cached, page, run, left>>
    BY DEF Inv, TimePasses
  <1>2. /\ now' \in Moment /\ now'.day \in 1..Length[now'.month]
        /\ now.t <= now'.t /\ now.month <= now'.month
    <2>1. /\ now.t \in Nat /\ now.month \in Int /\ now.month \in Months /\ now.day \in Nat
          /\ now.day \in 1..Length[now.month]
      BY <1>1, CalendarAssumption DEF TypeOK, Moment, Months
    <2>2. \A m \in Months : Length[m] \in Nat \ {0}
      BY CalendarAssumption
    <2>3. CASE now.day < Length[now.month]
      BY <1>1, <2>1, <2>2, <2>3 DEF NextMoment, Moment
    <2>4. CASE ~ now.day < Length[now.month]
      BY <1>1, <2>1, <2>2, <2>4 DEF NextMoment, Moment
    <2> QED BY <2>3, <2>4
  <1>3. \A row \in page \cup {sv} : row.syncAt <= now'.t /\ row.key <= now'.month
    <2>1. \A row \in page \cup {sv} : row.syncAt \in Int /\ row.key \in Int
      <3>1. Months \cup {Never} \subseteq Int
        BY CalendarAssumption DEF Months, Never
      <3>2. \A row \in Server : row.syncAt \in Int /\ row.key \in Int
        BY <3>1 DEF Server
      <3> QED BY <1>1, <3>2 DEF TypeOK
    <2>2. now.t \in Int /\ now'.t \in Int /\ now.month \in Int /\ now'.month \in Int
      BY <1>1, <1>2, CalendarAssumption DEF TypeOK, Moment, Months
    <2> QED BY <1>1, <1>2, <2>1, <2>2 DEF TypeOK
  <1>4. CASE now'.month = now.month
    <2>1. seen' = [seen EXCEPT !.troubled = FALSE]
      BY <1>4 DEF TimePasses
    <2>2. seen' \in History /\ seen'.auto = seen.auto /\ seen'.excused = seen.excused
      BY <1>1, <2>1, Typed DEF History
    <2>3. TypeOK'
      BY <1>1, <1>2, <1>3, <2>2 DEF TypeOK, History
    <2> QED BY <1>1, <1>4, <2>2, <2>3 DEF Inv, SingleReset, Scheduled, Ready, Keyed
  <1>5. CASE now'.month # now.month
    <2>1. seen' \in History /\ seen'.auto = 0
      BY <1>5 DEF TimePasses, History
    <2>2. TypeOK'
      BY <1>1, <1>2, <1>3, <2>1 DEF TypeOK, History
    <2> QED BY <1>1, <2>1, <2>2 DEF Inv, SingleReset, Scheduled, Ready, Keyed
  <1> QED BY <1>4, <1>5

---------------------------------------------------------------------------
(* The theorems. *)

LEMMA InitInv == Init => Inv
  <1> SUFFICES ASSUME Init PROVE Inv
    OBVIOUS
  <1>1. now.month = 0 /\ 0 \in Months /\ Length[0] \in Nat \ {0} /\ now.t = 1 /\ now.day = 1
    BY CalendarAssumption DEF Init, Months
  <1>2. sv \in Server /\ page \in SUBSET Server
    <2>1. {TRUE} \subseteq BOOLEAN /\ {0} \subseteq Nat /\ {Never} \subseteq Months \cup {Never}
      OBVIOUS
    <2>2. [enabled: {TRUE}, auto: BOOLEAN, day: Days, syncAt: {0}, key: {Never}] \subseteq Server
      BY <2>1 DEF Server
    <2> QED BY <2>2 DEF Init
  <1>3. now \in Moment /\ now.day \in 1..Length[now.month]
    BY <1>1 DEF Init, Moment
  <1>4. run \in [Runs -> States] /\ run[Loop].at = "idle"
    BY LoopIsRun DEF Init, States, Idle
  <1>5. \A row \in page \cup {sv} : row.syncAt <= now.t /\ row.key <= now.month
    BY <1>1 DEF Init, Never
  <1>6. seen \in History /\ seen.auto = 0 /\ left \in Rest
    BY BoundsAssumption DEF Init, History, Rest
  <1>7. TypeOK
    BY <1>2, <1>3, <1>4, <1>5, <1>6, NoneIsCounters DEF Init, TypeOK, States, History, Rest
  <1> QED BY <1>4, <1>6, <1>7 DEF Inv, SingleReset, Scheduled, Ready, Keyed, ResetPhases

LEMMA NextInv == Inv /\ [Next]_vars => Inv'
  <1> SUFFICES ASSUME Inv, [Next]_vars PROVE Inv'
    OBVIOUS
  <1>1. CASE \E p \in Runs : Step(p)
    BY <1>1, ResetKeeps, ZeroKeeps, StampKeeps, MarkResetKeeps, ListKeeps, StoreKeeps,
       MarkSyncKeeps, FailsKeeps DEF Step
  <1>2. CASE \E p \in Requests : AskRefresh(p) \/ AskReset(p)
    BY <1>2, AskKeeps
  <1>3. CASE Wake \/ WakeFails
    BY <1>3, WakeKeeps, WakeFailsKeeps
  <1>4. CASE PanelChanges \/ LoadPage
    BY <1>4, PanelKeeps, PageKeeps
  <1>5. CASE SavePage \/ Restart \/ TimePasses
    BY <1>5, SaveKeeps, RestartKeeps, TimeKeeps
  <1>6. CASE UNCHANGED vars
    BY <1>6 DEF vars, Inv, TypeOK, SingleReset, Scheduled, Ready, Keyed
  <1> QED BY <1>1, <1>2, <1>3, <1>4, <1>5, <1>6 DEF Next

(* The inductive invariant: the loop is about to reset only in a month it *)
(* has not reset in, and after a reset the key names the month or is      *)
(* still to be written, unless the month had trouble.                     *)
THEOREM Invariant == Spec => []Inv
  BY InitInv, NextInv, PTL DEF Spec

(* The row, the page, the counters and every run keep their types, and no *)
(* marker names a time to come, for any number of concurrent requests.    *)
THEOREM TypeCorrect == Spec => []TypeOK
  <1>1. Inv => TypeOK
    BY DEF Inv
  <1> QED BY <1>1, Invariant, PTL

(* The loop resets a panel at most once in a month without trouble,       *)
(* whatever refreshes and resets by request overlap it and whenever       *)
(* months end.                                                            *)
THEOREM ResetIsSingle == Spec => []SingleReset
  <1>1. Inv => SingleReset
    BY DEF Inv
  <1> QED BY <1>1, Invariant, PTL
---------------------------------------------------------------------------
(* A month does not end without its reset. *)

(* Unless a run crossed the month's beginning, a key that names the month *)
(* and a run past the panel's reset both tell of a reset in it, *)
Marked ==
  ~seen.carried =>
    /\ \A row \in page \cup {sv} : row.key = now.month => seen.reset
    /\ \A p \in Runs : run[p].at \in ResetPhases => seen.reset

(* and in the last tick a loop that is not about to reset has seen one.   *)
LastTick ==
  now.day = Length[now.month] /\ sv.enabled /\ sv.auto /\ ~seen.troubled /\ ~seen.carried
Decided ==
  LastTick =>
    /\ passed => seen.reset
    /\ run[Loop].at # "idle" /\ run[Loop].begun.t = now.t
         => run[Loop].at = "reset" \/ seen.reset

MInv == Marked /\ Decided

\* What a step of p tells of the pass it belongs to.
LEMMA GoesPass ==
  ASSUME TypeOK, NEW p \in Runs, run[p] \in Busy,
         NEW phase \in Phase, NEW list, Goes(p, phase, list)
  PROVE  /\ phase # "idle" => run'[p].begun = run[p].begun /\ run'[p].list = list
         /\ passed' => passed \/ (p = Loop /\ phase = "idle" /\ run[p].begun.t = now.t)
  <1>1. run \in [Runs -> States] /\ passed \in BOOLEAN
    BY DEF TypeOK, States
  <1>2. CASE phase = "idle"
    BY <1>2 DEF Goes
  <1>3. CASE phase # "idle"
    BY <1>1, <1>3 DEF Goes, Busy
  <1> QED BY <1>2, <1>3

\* Trouble forgets nothing; that of the loop is noted.
LEMMA FaultHistory ==
  ASSUME NEW p \in Runs, NEW h \in History, Fault(p, h)
  PROVE  /\ seen'.reset = h.reset /\ seen'.carried = h.carried
         /\ h.troubled \/ p = Loop => seen'.troubled
  <1>1. CASE p = Loop
    BY <1>1 DEF Fault, Excused, History
  <1>2. CASE p # Loop
    BY <1>2 DEF Fault
  <1> QED BY <1>1, <1>2

LEMMA StepDecides ==
  ASSUME Inv, MInv, NEW p \in Runs, run[p] \in Busy,
         NEW phase \in Phase \ {"reset"}, NEW list, Goes(p, phase, list),
         phase \in ResetPhases => run[p].at \in ResetPhases \/ seen'.reset,
         seen.reset => seen'.reset, seen'.carried = seen.carried,
         seen.troubled => seen'.troubled,
         p = Loop /\ run[p].at = "reset" => seen'.reset \/ seen'.troubled,
         sv'.enabled = sv.enabled, sv'.auto = sv.auto,
         sv'.key = sv.key \/ run[p].at \in ResetPhases,
         page' = page, now' = now
  PROVE  MInv'
  <1>1. /\ \A q \in Runs : q # p => run'[q] = run[q]
        /\ run'[p].at = phase
        /\ phase # "idle" => run'[p].begun = run[p].begun
        /\ passed' => passed \/ (p = Loop /\ phase = "idle" /\ run[p].begun.t = now.t)
    <2>1. phase \in Phase /\ TypeOK
      BY DEF Inv
    <2> QED BY <2>1, GoesRun, GoesPass
  <1>2. Marked'
    <2>1. SUFFICES ASSUME ~seen'.carried
          PROVE  /\ \A row \in page \cup {sv'} : row.key = now.month => seen'.reset
                 /\ \A q \in Runs : run'[q].at \in ResetPhases => seen'.reset
      BY DEF Marked
    <2>2. /\ \A row \in page \cup {sv} : row.key = now.month => seen.reset
          /\ \A q \in Runs : run[q].at \in ResetPhases => seen.reset
      BY <2>1 DEF MInv, Marked
    <2>3. sv'.key = now.month => seen'.reset
      BY <2>2
    <2>4. ASSUME NEW q \in Runs, run'[q].at \in ResetPhases PROVE seen'.reset
      <3>1. CASE q = p
        BY <3>1, <2>4, <2>2, <1>1
      <3>2. CASE q # p
        BY <3>2, <2>4, <2>2, <1>1
      <3> QED BY <3>1, <3>2
    <2> QED BY <2>2, <2>3, <2>4
  <1>3. Decided'
    <2>1. SUFFICES ASSUME LastTick'
          PROVE  /\ passed' => seen'.reset
                 /\ run'[Loop].at # "idle" /\ run'[Loop].begun.t = now.t
                      => run'[Loop].at = "reset" \/ seen'.reset
      BY DEF Decided
    <2>2. LastTick /\ ~seen'.troubled
      BY <2>1 DEF LastTick
    <2>3. /\ passed => seen.reset
          /\ run[Loop].at # "idle" /\ run[Loop].begun.t = now.t
               => run[Loop].at = "reset" \/ seen.reset
      BY <2>2 DEF MInv, Decided
    <2>4. CASE p = Loop
      <3>1. run[Loop].at # "idle"
        BY <2>4 DEF Busy
      <3>2. run[Loop].begun.t = now.t => seen'.reset
        BY <2>2, <2>3, <2>4, <3>1
      <3> QED BY <1>1, <2>3, <2>4, <3>2
    <2>5. CASE p # Loop
      BY <1>1, <2>3, <2>5, LoopIsRun
    <2> QED BY <2>4, <2>5
  <1> QED BY <1>2, <1>3 DEF MInv

LEMMA WithResetKeeps ==
  ASSUME seen \in History, NEW p \in Runs
  PROVE  /\ WithReset(p).reset = TRUE /\ WithReset(p).carried = seen.carried
         /\ WithReset(p).troubled = seen.troubled
  BY DEF WithReset, History

LEMMA RunsDecide ==
  ASSUME Inv, MInv, NEW p \in Runs, Step(p)
  PROVE  MInv'
  <1>1. TypeOK /\ seen \in History
    BY Typed DEF Inv
  <1>2. \A phase \in {"zero", "stamp", "key", "list", "store", "mark", "idle"} :
          phase \in Phase \ {"reset"}
    BY DEF Phase
  <1>3. CASE ResetAllClientTraffics(p)
    <2>1. run[p] \in Busy /\ UNCHANGED <<sv, page, now>>
      BY <1>1, <1>3, NotIdle DEF ResetAllClientTraffics
    <2>2. PICK phase \in {"zero", "list", "idle"} : Goes(p, phase, run[p].list)
      BY <1>3, AfterResetPhase DEF ResetAllClientTraffics
    <2>3. seen' = WithReset(p) \/ Fault(p, WithReset(p))
      BY <1>3 DEF ResetAllClientTraffics
    <2>4. /\ seen'.reset /\ seen'.carried = seen.carried
          /\ seen.troubled => seen'.troubled
      BY <1>1, <2>3, WithResetHistory, WithResetKeeps, FaultHistory
    <2> QED BY <1>2, <2>1, <2>2, <2>4, StepDecides
  <1>4. CASE ZeroAllUserTraffic(p)
    <2>1. /\ run[p] \in Busy /\ run[p].at = "zero" /\ UNCHANGED <<sv, page, now, seen>>
          /\ Goes(p, "stamp", run[p].list)
      BY <1>1, <1>4, NotIdle DEF ZeroAllUserTraffic
    <2>2. run[p].at \in ResetPhases
      BY <2>1 DEF ResetPhases
    <2> QED BY <1>2, <2>1, <2>2, StepDecides
  <1>5. CASE StampSync(p) \/ MarkReset(p)
    <2>1. /\ run[p] \in Busy /\ run[p].at \in {"stamp", "key"} /\ UNCHANGED <<page, now>>
      BY <1>1, <1>5, NotIdle DEF StampSync, MarkReset
    <2>2. PICK phase \in {"key", "list", "idle"} : Goes(p, phase, run[p].list)
      BY <1>5, AfterResetPhase DEF StampSync, MarkReset
    <2>3. /\ seen'.reset = seen.reset /\ seen'.carried = seen.carried
          /\ seen.troubled => seen'.troubled
      BY <1>1, <1>5, FaultHistory DEF StampSync, MarkReset
    <2>4. sv'.enabled = sv.enabled /\ sv'.auto = sv.auto
      <3>1. sv \in Server
        BY <1>1 DEF TypeOK
      <3> QED BY <1>5, <3>1 DEF StampSync, MarkReset, Server
    <2>5. run[p].at \in ResetPhases /\ run[p].at # "reset"
      BY <2>1 DEF ResetPhases
    <2> QED BY <1>2, <2>1, <2>2, <2>3, <2>4, <2>5, StepDecides
  <1>6. CASE ListClients(p) \/ ReplaceUserTraffic(p)
    <2>1. /\ run[p] \in Busy /\ run[p].at # "reset" /\ UNCHANGED <<sv, page, now, seen>>
      BY <1>1, <1>6, NotIdle DEF ListClients, ReplaceUserTraffic
    <2>2. PICK phase \in {"store", "mark"} : \E list : Goes(p, phase, list)
      BY <1>6 DEF ListClients, ReplaceUserTraffic
    <2>3. phase \notin ResetPhases
      BY DEF ResetPhases
    <2> QED BY <1>2, <2>1, <2>2, <2>3, StepDecides
  <1>7. CASE MarkSync(p)
    <2>1. /\ run[p] \in Busy /\ run[p].at = "mark" /\ UNCHANGED <<page, now>>
          /\ Goes(p, "idle", run[p].list)
      BY <1>1, <1>7, NotIdle DEF MarkSync
    <2>2. /\ seen'.reset = seen.reset /\ seen'.carried = seen.carried
          /\ seen.troubled => seen'.troubled
      BY <1>1, <1>7, FaultHistory DEF MarkSync
    <2>3. sv'.enabled = sv.enabled /\ sv'.auto = sv.auto /\ sv'.key = sv.key
      <3>1. sv \in Server
        BY <1>1 DEF TypeOK
      <3> QED BY <1>7, <3>1 DEF MarkSync, Server
    <2>4. "idle" \notin ResetPhases
      BY DEF ResetPhases
    <2> QED BY <1>2, <2>1, <2>2, <2>3, <2>4, StepDecides
  <1>8. CASE Fails(p)
    <2>1. /\ run[p] \in Busy /\ UNCHANGED <<sv, page, now>> /\ Fault(p, seen)
          /\ Goes(p, AfterFailure(p), [e \in {} |-> 0])
      BY <1>1, <1>8, NotIdle DEF Fails
    <2>2. /\ seen'.reset = seen.reset /\ seen'.carried = seen.carried
          /\ seen.troubled \/ p = Loop => seen'.troubled
      BY <1>1, <2>1, FaultHistory
    <2>3. /\ AfterFailure(p) \in Phase \ {"reset"} /\ AfterFailure(p) \notin ResetPhases
      BY <1>2, AfterResetPhase DEF ResetPhases
    <2> QED BY <2>1, <2>2, <2>3, StepDecides
  <1> QED BY <1>3, <1>4, <1>5, <1>6, <1>7, <1>8 DEF Step

\* In the month's last tick every day is reached, however late it was set.
LEMMA LastTickResets ==
  ASSUME TypeOK, MInv, LastTick, ~ShouldReset(now, sv)
  PROVE  seen.reset
  <1>1. sv.day \in Nat /\ now.month \in Months /\ Length[now.month] \in Nat \ {0}
    BY CalendarAssumption DEF TypeOK, Server, Moment
  <1>2. now.day >= ScheduledDay(now.month, sv.day)
    BY <1>1 DEF LastTick, ScheduledDay
  <1>3. sv.key = now.month
    BY <1>2 DEF ShouldReset, LastTick
  <1> QED BY <1>3 DEF MInv, Marked, LastTick

LEMMA WakeDecides ==
  ASSUME Inv, MInv, Wake
  PROVE  MInv'
  <1>1. TypeOK /\ run[Loop] = Idle /\ UNCHANGED <<sv, page, now, seen>>
    BY DEF Inv, Wake
  <1>2. LastTick' = LastTick /\ (LastTick /\ ~ShouldReset(now, sv) => seen.reset)
    BY <1>1, LastTickResets DEF LastTick
  <1>3. CASE UNCHANGED run /\ passed' = TRUE /\ (sv.enabled => ~ShouldReset(now, sv))
    <2>1. Marked'
      BY <1>1, <1>3 DEF MInv, Marked
    <2>2. Decided'
      BY <1>1, <1>2, <1>3 DEF Decided, LastTick, Idle
    <2> QED BY <2>1, <2>2 DEF MInv
  <1>4. CASE \E phase \in {"reset", "list"} :
               /\ Starts(Loop, phase) /\ UNCHANGED passed
               /\ phase = "list" => ~ShouldReset(now, sv)
    <2>1. PICK phase \in {"reset", "list"} :
             /\ Starts(Loop, phase) /\ UNCHANGED passed
             /\ phase = "list" => ~ShouldReset(now, sv)
      BY <1>4
    <2>2. phase \in Phase \ {"idle"} /\ phase \notin ResetPhases
      BY DEF Phase, ResetPhases
    <2>3. /\ \A q \in Runs : q # Loop => run'[q] = run[q]
          /\ run'[Loop].at = phase
      BY <1>1, <2>1, <2>2, StartsType, LoopIsRun
    <2>4. Marked'
      <3>1. \A q \in Runs : run'[q].at \in ResetPhases => run[q].at \in ResetPhases
        BY <2>2, <2>3
      <3> QED BY <1>1, <3>1 DEF MInv, Marked
    <2>5. Decided'
      BY <1>1, <1>2, <2>1, <2>3 DEF MInv, Decided
    <2> QED BY <2>4, <2>5 DEF MInv
  <1>5. \/ UNCHANGED run /\ passed' = TRUE /\ (sv.enabled => ~ShouldReset(now, sv))
        \/ \E phase \in {"reset", "list"} :
               /\ Starts(Loop, phase) /\ UNCHANGED passed
               /\ phase = "list" => ~ShouldReset(now, sv)
    BY DEF Wake
  <1> QED BY <1>3, <1>4, <1>5

LEMMA AskDecides ==
  ASSUME Inv, MInv, NEW p \in Requests, AskRefresh(p) \/ AskReset(p)
  PROVE  MInv'
  <1>1. /\ TypeOK /\ p \in Runs /\ p # Loop /\ UNCHANGED <<sv, page, now, passed, seen>>
    BY RunsAssumption DEF Inv, AskRefresh, AskReset, Runs
  <1>2. PICK phase \in {"reset", "list"} : Starts(p, phase)
    BY DEF AskRefresh, AskReset
  <1>3. phase \in Phase \ {"idle"} /\ phase \notin ResetPhases
    BY DEF Phase, ResetPhases
  <1>4. (\A q \in Runs : q # p => run'[q] = run[q]) /\ run'[p].at = phase
    BY <1>1, <1>2, <1>3, StartsType
  <1>5. Marked'
    <2>1. \A q \in Runs : run'[q].at \in ResetPhases => run[q].at \in ResetPhases
      BY <1>3, <1>4
    <2> QED BY <1>1, <2>1 DEF MInv, Marked
  <1>6. Decided'
    BY <1>1, <1>4, LoopIsRun DEF MInv, Decided, LastTick
  <1> QED BY <1>5, <1>6 DEF MInv

\* Where there was trouble nothing is promised of the tick.
LEMMA TroubleDecides ==
  ASSUME Inv, MInv, WakeFails \/ SavePage \/ Restart
  PROVE  MInv'
  <1>1. TypeOK /\ seen \in History /\ now' = now
    BY Typed DEF Inv, WakeFails, SavePage, Restart
  <1>2. seen'.reset = seen.reset /\ seen'.carried = seen.carried /\ seen'.troubled
    <2>1. CASE WakeFails
      BY <1>1, <2>1, FaultHistory, LoopIsRun DEF WakeFails
    <2>2. CASE SavePage \/ Restart
      BY <1>1, <2>2 DEF SavePage, Restart, Excused, History
    <2> QED BY <2>1, <2>2
  <1>3. \A row \in page' \cup {sv'} : \E old \in page \cup {sv} : row.key = old.key
    <2>1. CASE SavePage
      <3>1. PICK row \in page, enabled \in BOOLEAN, auto \in BOOLEAN, day \in Days :
              sv' = [row EXCEPT !.enabled = enabled, !.auto = auto, !.day = day]
        BY <2>1 DEF SavePage
      <3>2. sv'.key = row.key
        BY <1>1, <3>1 DEF TypeOK, Server
      <3> QED BY <2>1, <3>2 DEF SavePage
    <2>2. CASE WakeFails \/ Restart
      BY <2>2 DEF WakeFails, Restart
    <2> QED BY <2>1, <2>2
  <1>4. \A q \in Runs : run'[q].at \in ResetPhases => run[q].at \in ResetPhases
    <2>1. CASE Restart
      BY <2>1 DEF Restart, Idle, ResetPhases
    <2>2. CASE WakeFails \/ SavePage
      BY <2>2 DEF WakeFails, SavePage
    <2> QED BY <2>1, <2>2
  <1>5. Marked'
    BY <1>1, <1>2, <1>3, <1>4 DEF MInv, Marked
  <1>6. Decided'
    BY <1>2 DEF Decided, LastTick
  <1> QED BY <1>5, <1>6 DEF MInv

LEMMA AroundDecides ==
  ASSUME Inv, MInv, PanelChanges \/ LoadPage
  PROVE  MInv'
  <1>1. UNCHANGED <<sv, now, run, passed, seen>> /\ page' \subseteq page \cup {sv}
    BY DEF PanelChanges, LoadPage
  <1> QED BY <1>1 DEF MInv, Marked, Decided, LastTick

LEMMA TimeDecides ==
  ASSUME Inv, MInv, TimePasses
  PROVE  MInv'
  <1>1. /\ TypeOK /\ passed' = FALSE /\ now' = NextMoment(now)
        /\ UNCHANGED <<sv, page, run>>
        /\ \A p \in Runs : run[p] # Idle => run[p].begun.t = now.t
    BY DEF Inv, TimePasses
  <1>2. now.t \in Nat /\ now'.t = now.t + 1
    BY <1>1 DEF TypeOK, Moment, NextMoment
  <1>3. Decided'
    <2>1. run[Loop] # Idle => run[Loop].begun.t # now'.t
      BY <1>1, <1>2, LoopIsRun
    <2> QED BY <1>1, <2>1 DEF Decided, Idle
  <1>4. CASE now'.month = now.month
    <2>1. seen'.reset = seen.reset /\ seen'.carried = seen.carried
      BY <1>1, <1>4, Typed DEF TimePasses, History
    <2>2. Marked'
      BY <1>1, <1>4, <2>1 DEF MInv, Marked
    <2> QED BY <1>3, <2>2 DEF MInv
  <1>5. CASE now'.month # now.month
    <2>1. seen'.carried = (\E p \in Runs : run[p] # Idle)
      BY <1>5 DEF TimePasses
    <2>2. now'.month = now.month + 1
      BY <1>1, <1>5 DEF NextMoment
    <2>3. \A row \in page \cup {sv} : row.key # now'.month
      <3>1. Months \cup {Never} \subseteq Int /\ now.month \in Int
        BY <1>1, CalendarAssumption DEF Months, Never, TypeOK, Moment
      <3>2. \A row \in page \cup {sv} : row.key \in Int /\ row.key <= now.month
        BY <1>1, <3>1 DEF TypeOK, Server
      <3> QED BY <2>2, <3>1, <3>2
    <2>4. Marked'
      BY <1>1, <2>1, <2>3 DEF Marked, Idle, ResetPhases
    <2> QED BY <1>3, <2>4 DEF MInv
  <1> QED BY <1>4, <1>5

LEMMA NextDecides == Inv /\ MInv /\ [Next]_vars => MInv'
  <1> SUFFICES ASSUME Inv, MInv, [Next]_vars PROVE MInv'
    OBVIOUS
  <1>1. CASE \E p \in Runs : Step(p)
    BY <1>1, RunsDecide
  <1>2. CASE \E p \in Requests : AskRefresh(p) \/ AskReset(p)
    BY <1>2, AskDecides
  <1>3. CASE Wake \/ PanelChanges \/ LoadPage \/ TimePasses
    BY <1>3, WakeDecides, AroundDecides, TimeDecides
  <1>4. CASE WakeFails \/ SavePage \/ Restart
    BY <1>4, TroubleDecides
  <1>5. CASE UNCHANGED vars
    BY <1>5 DEF vars, MInv, Marked, Decided, LastTick
  <1> QED BY <1>1, <1>2, <1>3, <1>4, <1>5 DEF Next

LEMMA InitDecides == Init => MInv
  <1> SUFFICES ASSUME Init PROVE MInv
    OBVIOUS
  <1>1. page = {} /\ sv.key = Never /\ now.month = 0 /\ ~passed
    BY DEF Init
  <1>2. \A p \in Runs : run[p].at = "idle"
    BY DEF Init, Idle
  <1> QED BY <1>1, <1>2, LoopIsRun DEF MInv, Marked, Decided, Never, ResetPhases

(* A month in whose last tick the loop passed without trouble has had a   *)
(* reset of an enabled, scheduled server: for every calendar, also one    *)
(* with months shorter than the scheduled day, and however requests, the  *)
(* page and earlier failures interleave.                                  *)
THEOREM MonthsAreReset == Spec => MonthlyReset
  <1>1. Inv /\ MInv /\ [Next]_vars
        => [ /\ now'.month # now.month
             /\ sv.enabled /\ sv.auto
             /\ passed /\ run[Loop] = Idle
             /\ ~seen.troubled /\ ~seen.carried
             => seen.reset ]_vars
    <2>1. SUFFICES ASSUME Inv, MInv, [Next]_vars,
                          now'.month # now.month, sv.enabled, sv.auto, passed,
                          ~seen.troubled, ~seen.carried
                   PROVE  seen.reset
      OBVIOUS
    <2>2. TimePasses
      BY <2>1 DEF Next, vars, Step, ResetAllClientTraffics, ZeroAllUserTraffic, StampSync,
         MarkReset, ListClients, ReplaceUserTraffic, MarkSync, Fails, AskRefresh, AskReset,
         Wake, WakeFails, PanelChanges, LoadPage, SavePage, Restart
    <2>3. now.day = Length[now.month]
      <3>1. /\ now \in Moment /\ now.month \in Months /\ now.day \in Nat
            /\ now.day \in 1..Length[now.month]
        BY <2>1 DEF Inv, TypeOK, Moment
      <3>2. Length[now.month] \in Nat
        BY <3>1, CalendarAssumption
      <3>3. ~ now.day < Length[now.month]
        BY <2>1, <2>2 DEF TimePasses, NextMoment
      <3> QED BY <3>1, <3>2, <3>3
    <2> QED BY <2>1, <2>3 DEF MInv, Decided, LastTick
  <1> QED BY <1>1, Invariant, InitDecides, InitInv, NextDecides, NextInv, PTL
          DEF Spec, MonthlyReset
---------------------------------------------------------------------------
(* The stored traffic is what the panel showed not long ago. *)

\* views hold, from tick x or later, what counters amount to.
Has(views, x, counters) == \E r \in views : r[1] >= x /\ r[2] = ShownBy(counters)
Zeros == [e \in {} |-> 0]

(* What the panel shows is viewed in every tick. *)
Viewed ==
  /\ \A r \in recent : r[1] \in Nat /\ r[1] <= now.t
  /\ Has(recent, now.t, panel)

(* A run that began in this tick or the one before has in hand, or has    *)
(* stored, what the panel showed since; another run may store behind it,  *)
(* but only what was shown one tick earlier at most.                      *)
InHand(p) ==
  run[p].at # "idle" =>
    /\ run[p].begun.t <= now.t /\ now.t <= run[p].begun.t + 1
    /\ run[p].at = "store" => Has(recent, run[p].begun.t, run[p].list)
    /\ run[p].at = "zero" => Has(recent, run[p].begun.t, Zeros)
    /\ run[p].at \in {"stamp", "mark"} => Has(recent, run[p].begun.t - 1, cached)

(* A marker younger than the interval vouches for what is stored. *)
Vouched ==
  \A row \in page \cup {sv} :
    row.syncAt # 0 /\ now.t < row.syncAt + Interval => Has(recent, row.syncAt - 2, cached)

(* The loop, once it has passed, or once it decided not to list, leaves   *)
(* nothing older than FreshEnough allows.                                 *)
Fresh == Has(recent, now.t - Interval - 1, cached)
Kept ==
  ~seen.troubled /\ sv.enabled =>
    /\ passed => Fresh
    /\ /\ run[Loop].at # "idle" /\ run[Loop].begun.t = now.t
       /\ ~ShouldSync(run[Loop].begun, run[Loop].copy)
       => Fresh

FInv == Viewed /\ (\A p \in Runs : InHand(p)) /\ Vouched /\ Kept

LEMMA HasEarlier ==
  ASSUME NEW views, \A r \in views : r[1] \in Nat,
         NEW x \in Int, NEW y \in Int, y <= x, NEW c, Has(views, x, c)
  PROVE  Has(views, y, c)
  BY DEF Has

\* A view is replaced only by a later one of the same.
LEMMA ShowsHas ==
  ASSUME NEW views, NEW t \in Int, NEW x \in Int, x <= t, NEW c, NEW d, Has(views, x, c)
  PROVE  Has(Shows(views, t, d), x, c)
  <1>1. PICK r \in views : r[1] >= x /\ r[2] = ShownBy(c)
    BY DEF Has
  <1>2. CASE r[2] = ShownBy(d)
    <2>1. <<t, ShownBy(d)>> \in Shows(views, t, d)
      BY DEF Shows
    <2> QED BY <1>1, <1>2, <2>1 DEF Has
  <1>3. CASE r[2] # ShownBy(d)
    <2>1. r \in Shows(views, t, d)
      BY <1>3 DEF Shows
    <2> QED BY <1>1, <2>1 DEF Has
  <1> QED BY <1>2, <1>3

LEMMA ShowsNow ==
  ASSUME NEW views, NEW t \in Int, NEW d
  PROVE  Has(Shows(views, t, d), t, d)
  <1>1. <<t, ShownBy(d)>> \in Shows(views, t, d)
    BY DEF Shows
  <1> QED BY <1>1 DEF Has

LEMMA ShowsTicks ==
  ASSUME NEW views, NEW t \in Nat, NEW d, \A r \in views : r[1] \in Nat /\ r[1] <= t
  PROVE  \A r \in Shows(views, t, d) : r[1] \in Nat /\ r[1] <= t
  BY DEF Shows

LEMMA HasSame ==
  ASSUME NEW views, NEW x, NEW c, NEW d, ShownBy(c) = ShownBy(d), Has(views, x, c)
  PROVE  Has(views, x, d)
  BY DEF Has

\* What is set to zero shows what nothing stored shows.
LEMMA ZeroedShown ==
  ASSUME NEW c
  PROVE  ShownBy(Zeroed(c)) = ShownBy(Zeros)
  BY DEF ShownBy, Zeroed, Zeros

\* The steps within a tick that change what the panel shows.
LEMMA ViewsKept ==
  ASSUME Inv, FInv, now' = now, recent' = Shows(recent, now.t, panel')
  PROVE  /\ Viewed'
         /\ \A c : \A x \in Int : x <= now.t /\ Has(recent, x, c) => Has(recent', x, c)
  <1>1. now.t \in Nat
    BY DEF Inv, TypeOK, Moment
  <1>2. \A r \in recent' : r[1] \in Nat /\ r[1] <= now.t
    BY <1>1, ShowsTicks DEF FInv, Viewed
  <1>3. Has(recent', now.t, panel')
    BY <1>1, ShowsNow
  <1>4. Viewed'
    BY <1>2, <1>3 DEF Viewed
  <1>5. ASSUME NEW c, NEW x \in Int, x <= now.t, Has(recent, x, c)
        PROVE  Has(recent', x, c)
    BY <1>1, <1>5, ShowsHas
  <1> QED BY <1>4, <1>5

\* The ticks the conjuncts compare.
LEMMA Ticks ==
  ASSUME Inv
  PROVE  /\ now.t \in Nat /\ Interval \in Nat /\ Interval >= 1
         /\ \A row \in page \cup {sv} : row.syncAt \in Nat /\ row.syncAt <= now.t
         /\ \A q \in Runs : run[q].at # "idle" => run[q] \in Busy /\ run[q].begun.t \in Nat
  <1>1. TypeOK
    BY DEF Inv
  <1>2. now.t \in Nat /\ Interval \in Nat /\ Interval >= 1
    BY <1>1, BoundsAssumption DEF TypeOK, Moment
  <1>3. \A row \in page \cup {sv} : row.syncAt \in Nat /\ row.syncAt <= now.t
    BY <1>1 DEF TypeOK, Server
  <1>4. \A q \in Runs : run[q].at # "idle" => run[q] \in Busy /\ run[q].begun.t \in Nat
    BY <1>1, NotIdle DEF Busy, Moment
  <1> QED BY <1>2, <1>3, <1>4

LEMMA StepFresh ==
  ASSUME Inv, FInv, NEW p \in Runs, run[p] \in Busy,
         NEW phase \in Phase \ {"reset"}, NEW list, Goes(p, phase, list),
         Viewed',
         \A c : \A x \in Int : x <= now.t /\ Has(recent, x, c) => Has(recent', x, c),
         cached' = cached \/ Has(recent', run[p].begun.t, cached'),
         sv'.enabled = sv.enabled,
         \/ sv'.syncAt = sv.syncAt
         \/ sv'.syncAt = now.t /\ Has(recent', run[p].begun.t - 1, cached'),
         page' = page, now' = now, seen.troubled => seen'.troubled,
         phase = "store" => Has(recent', run[p].begun.t, list),
         phase = "zero" => Has(recent', run[p].begun.t, Zeros),
         phase \in {"stamp", "mark"} => Has(recent', run[p].begun.t - 1, cached'),
         p = Loop /\ phase = "idle" => \/ seen'.troubled
                                       \/ Has(recent', run[p].begun.t - 1, cached')
                                       \/ ~ShouldSync(run[p].begun, run[p].copy)
  PROVE  FInv'
  <1>1. /\ \A q \in Runs : q # p => run'[q] = run[q]
        /\ run'[p].at = phase
        /\ phase # "idle" => /\ run'[p].begun = run[p].begun /\ run'[p].list = list
                             /\ run'[p].copy = run[p].copy
        /\ passed' => passed \/ (p = Loop /\ phase = "idle" /\ run[p].begun.t = now.t)
    <2>1. phase \in Phase /\ TypeOK
      BY DEF Inv
    <2> QED BY <2>1, GoesRun, GoesPass
  <1>2. /\ now.t \in Nat /\ Interval \in Nat /\ Interval >= 1
        /\ \A row \in page \cup {sv} : row.syncAt \in Nat /\ row.syncAt <= now.t
        /\ \A q \in Runs : run[q].at # "idle" => run[q] \in Busy /\ run[q].begun.t \in Nat
    BY Ticks
  <1>3. /\ run[p].at # "idle" /\ run[p].begun.t \in Nat
        /\ run[p].begun.t <= now.t /\ now.t <= run[p].begun.t + 1
    BY <1>2 DEF FInv, InHand, Busy
  <1>4. \A r \in recent' : r[1] \in Nat
    BY DEF Viewed
  <1>5. ASSUME NEW x \in Int, x <= run[p].begun.t, Has(recent, x, cached)
        PROVE  Has(recent', x, cached')
    <2>1. CASE cached' = cached
      BY <1>2, <1>3, <1>5, <2>1
    <2>2. CASE Has(recent', run[p].begun.t, cached')
      BY <1>3, <1>4, <1>5, <2>2, HasEarlier
    <2> QED BY <2>1, <2>2
  <1>6. ASSUME NEW q \in Runs PROVE InHand(q)'
    <2>1. CASE q = p
      BY <1>1, <1>3, <2>1 DEF InHand
    <2>2. CASE q # p
      <3>1. SUFFICES ASSUME run[q].at # "idle"
            PROVE  /\ run[q].begun.t <= now.t /\ now.t <= run[q].begun.t + 1
                   /\ run[q].at = "store" => Has(recent', run[q].begun.t, run[q].list)
                   /\ run[q].at = "zero" => Has(recent', run[q].begun.t, Zeros)
                   /\ run[q].at \in {"stamp", "mark"} => Has(recent', run[q].begun.t - 1, cached')
        BY <1>1, <2>2 DEF InHand
      <3>2. /\ run[q].begun.t <= now.t /\ now.t <= run[q].begun.t + 1
            /\ run[q].at = "store" => Has(recent, run[q].begun.t, run[q].list)
            /\ run[q].at = "zero" => Has(recent, run[q].begun.t, Zeros)
            /\ run[q].at \in {"stamp", "mark"} => Has(recent, run[q].begun.t - 1, cached)
        BY <3>1 DEF FInv, InHand
      <3>3. run[q].begun.t \in Int /\ run[q].begun.t - 1 \in Int
            /\ run[q].begun.t - 1 <= run[p].begun.t
        BY <1>2, <1>3, <3>1, <3>2
      <3>4. run[q].at \in {"stamp", "mark"} => Has(recent', run[q].begun.t - 1, cached')
        BY <1>5, <3>2, <3>3
      <3> QED BY <3>2, <3>3, <3>4
    <2> QED BY <2>1, <2>2
  <1>7. Vouched'
    <2>1. SUFFICES ASSUME NEW row \in page \cup {sv'}, row.syncAt # 0, now.t < row.syncAt + Interval
                   PROVE  Has(recent', row.syncAt - 2, cached')
      BY DEF Vouched
    <2>2. CASE \E old \in page \cup {sv} : old.syncAt = row.syncAt
      <3>1. row.syncAt \in Nat /\ row.syncAt <= now.t /\ Has(recent, row.syncAt - 2, cached)
        BY <1>2, <2>1, <2>2 DEF FInv, Vouched
      <3>2. row.syncAt - 2 \in Int /\ row.syncAt - 2 <= run[p].begun.t
        BY <1>2, <1>3, <3>1
      <3> QED BY <1>5, <3>1, <3>2
    <2>3. CASE row.syncAt = now.t /\ Has(recent', run[p].begun.t - 1, cached')
      <3>1. /\ row.syncAt - 2 \in Int /\ run[p].begun.t - 1 \in Int
            /\ row.syncAt - 2 <= run[p].begun.t - 1
        BY <1>2, <1>3, <2>3
      <3> QED BY <1>4, <2>3, <3>1, HasEarlier
    <2> QED BY <2>1, <2>2, <2>3
  <1>8. Kept'
    <2>1. SUFFICES ASSUME ~seen'.troubled, sv.enabled
          PROVE  /\ passed' => Has(recent', now.t - Interval - 1, cached')
                 /\ /\ run'[Loop].at # "idle" /\ run'[Loop].begun.t = now.t
                    /\ ~ShouldSync(run'[Loop].begun, run'[Loop].copy)
                    => Has(recent', now.t - Interval - 1, cached')
      BY DEF Kept, Fresh
    <2>2. /\ passed => Fresh
          /\ /\ run[Loop].at # "idle" /\ run[Loop].begun.t = now.t
             /\ ~ShouldSync(run[Loop].begun, run[Loop].copy)
             => Fresh
      BY <2>1 DEF FInv, Kept
    <2>3. /\ now.t - Interval - 1 \in Int /\ run[p].begun.t - 1 \in Int
          /\ now.t - Interval - 1 <= run[p].begun.t - 1
          /\ now.t - Interval - 1 <= run[p].begun.t
      BY <1>2, <1>3
    <2>4. Fresh => Has(recent', now.t - Interval - 1, cached')
      BY <1>5, <2>3 DEF Fresh
    <2>5. CASE p = Loop
      <3>1. CASE phase = "idle"
        <4>1. Has(recent', run[p].begun.t - 1, cached') => Has(recent', now.t - Interval - 1, cached')
          BY <1>4, <2>3, HasEarlier
        <4> QED BY <1>1, <1>3, <2>1, <2>2, <2>4, <2>5, <3>1, <4>1
      <3>2. CASE phase # "idle"
        BY <1>1, <1>3, <2>2, <2>4, <2>5, <3>2
      <3> QED BY <3>1, <3>2
    <2>6. CASE p # Loop
      BY <1>1, <2>2, <2>4, <2>6, LoopIsRun
    <2> QED BY <2>5, <2>6
  <1> QED BY <1>6, <1>7, <1>8 DEF FInv
LEMMA RunsStayFresh ==
  ASSUME Inv, FInv, NEW p \in Runs, Step(p)
  PROVE  FInv'
  <1>1. TypeOK /\ seen \in History /\ sv \in Server /\ now.t \in Nat
    BY Typed DEF Inv, TypeOK, Moment
  <1>2. \A phase \in {"zero", "stamp", "key", "list", "store", "mark", "idle"} :
          phase \in Phase \ {"reset"}
    BY DEF Phase
  <1>3. /\ run[p].at # "idle" => InHand(p)
        /\ run[p].at # "idle" => run[p].begun.t \in Nat /\ run[p].begun.t - 1 \in Int
        /\ \A r \in recent : r[1] \in Nat
    BY Ticks DEF FInv, Viewed
  <1>4. recent' = recent /\ panel' = panel /\ now' = now
        => /\ Viewed'
           /\ \A c : \A x \in Int : x <= now.t /\ Has(recent, x, c) => Has(recent', x, c)
    BY DEF FInv, Viewed
  <1>5. CASE ResetAllClientTraffics(p)
    <2>1. /\ run[p] \in Busy /\ run[p].at = "reset" /\ UNCHANGED <<sv, cached, page, now>>
          /\ recent' = Shows(recent, now.t, panel') /\ panel' = Zeroed(panel)
      BY <1>1, <1>5, NotIdle DEF ResetAllClientTraffics
    <2>2. PICK phase \in {"zero", "list", "idle"} :
            /\ Goes(p, phase, run[p].list)
            /\ phase = "idle" => phase = AfterReset(p)
      BY <1>5, AfterResetPhase DEF ResetAllClientTraffics
    <2>3. seen.troubled => seen'.troubled
      <3>1. seen' = WithReset(p) \/ Fault(p, WithReset(p))
        BY <1>5 DEF ResetAllClientTraffics
      <3> QED BY <1>1, <3>1, WithResetHistory, WithResetKeeps, FaultHistory
    <2>4. /\ Viewed'
          /\ \A c : \A x \in Int : x <= now.t /\ Has(recent, x, c) => Has(recent', x, c)
      BY <2>1, ViewsKept
    <2>5. Has(recent', run[p].begun.t, Zeros)
      <3>1. Has(recent', now.t, panel')
        BY <1>1, <2>1, ShowsNow
      <3>2. Has(recent', now.t, Zeros)
        BY <2>1, <3>1, ZeroedShown, HasSame
      <3>3. \A r \in recent' : r[1] \in Nat
        BY <2>4 DEF Viewed
      <3> QED BY <1>1, <1>3, <2>1, <3>2, <3>3, HasEarlier DEF InHand
    <2>6. p = Loop /\ phase = "idle" => ~ShouldSync(run[p].begun, run[p].copy)
      BY <2>2 DEF AfterReset
    <2> QED BY <1>2, <2>1, <2>2, <2>3, <2>4, <2>5, <2>6, StepFresh
  <1>6. CASE ZeroAllUserTraffic(p)
    <2>1. /\ run[p] \in Busy /\ run[p].at = "zero" /\ Goes(p, "stamp", run[p].list)
          /\ cached' = Zeroed(cached) /\ UNCHANGED <<panel, sv, page, now, seen, recent>>
      BY <1>1, <1>6, NotIdle DEF ZeroAllUserTraffic
    <2>2. Has(recent, run[p].begun.t, Zeros)
      BY <1>3, <2>1 DEF InHand
    <2>3. Has(recent', run[p].begun.t, cached')
      BY <2>1, <2>2, ZeroedShown, HasSame
    <2>4. Has(recent', run[p].begun.t - 1, cached')
      BY <1>3, <2>1, <2>3, HasEarlier
    <2> QED BY <1>2, <1>4, <2>1, <2>3, <2>4, StepFresh
  <1>7. CASE StampSync(p)
    <2>1. /\ run[p] \in Busy /\ run[p].at = "stamp"
          /\ UNCHANGED <<panel, cached, page, now, recent>>
      BY <1>1, <1>7, NotIdle DEF StampSync
    <2>2. PICK phase \in {"key", "list", "idle"} : Goes(p, phase, run[p].list)
      BY <1>7, AfterResetPhase DEF StampSync
    <2>3. seen.troubled => seen'.troubled
      BY <1>1, <1>7, FaultHistory DEF StampSync
    <2>4. sv'.enabled = sv.enabled /\ (sv'.syncAt = sv.syncAt \/ sv'.syncAt = now.t)
      BY <1>1, <1>7 DEF StampSync, Server
    <2>5. Has(recent', run[p].begun.t - 1, cached')
      BY <1>3, <2>1 DEF InHand
    <2> QED BY <1>2, <1>4, <2>1, <2>2, <2>3, <2>4, <2>5, StepFresh
  <1>8. CASE MarkReset(p)
    <2>1. /\ run[p] \in Busy /\ UNCHANGED <<panel, cached, page, now, recent>>
          /\ Goes(p, AfterReset(p), run[p].list)
      BY <1>1, <1>8, NotIdle DEF MarkReset
    <2>2. seen.troubled => seen'.troubled
      BY <1>1, <1>8, FaultHistory DEF MarkReset
    <2>3. sv'.enabled = sv.enabled /\ sv'.syncAt = sv.syncAt
      BY <1>1, <1>8 DEF MarkReset, Server
    <2>4. /\ AfterReset(p) \in {"list", "idle"}
          /\ p = Loop /\ AfterReset(p) = "idle" => ~ShouldSync(run[p].begun, run[p].copy)
      BY DEF AfterReset
    <2> QED BY <1>2, <1>4, <2>1, <2>2, <2>3, <2>4, StepFresh
  <1>9. CASE ListClients(p)
    <2>1. /\ run[p] \in Busy /\ run[p].at = "list" /\ Goes(p, "store", panel)
          /\ UNCHANGED <<panel, sv, cached, page, now, seen, recent>>
      BY <1>1, <1>9, NotIdle DEF ListClients
    <2>2. Has(recent', run[p].begun.t, panel)
      BY <1>1, <1>3, <2>1, HasEarlier DEF InHand, FInv, Viewed
    <2> QED BY <1>2, <1>4, <2>1, <2>2, StepFresh
  <1>10. CASE ReplaceUserTraffic(p)
    <2>1. /\ run[p] \in Busy /\ run[p].at = "store" /\ Goes(p, "mark", [e \in {} |-> 0])
          /\ cached' = run[p].list /\ UNCHANGED <<panel, sv, page, now, seen, recent>>
      BY <1>1, <1>10, NotIdle DEF ReplaceUserTraffic, Replaced
    <2>2. Has(recent', run[p].begun.t, cached')
      BY <1>3, <2>1 DEF InHand
    <2>3. Has(recent', run[p].begun.t - 1, cached')
      BY <1>3, <2>1, <2>2, HasEarlier
    <2> QED BY <1>2, <1>4, <2>1, <2>2, <2>3, StepFresh
  <1>11. CASE MarkSync(p)
    <2>1. /\ run[p] \in Busy /\ run[p].at = "mark" /\ Goes(p, "idle", run[p].list)
          /\ UNCHANGED <<panel, cached, page, now, recent>>
      BY <1>1, <1>11, NotIdle DEF MarkSync
    <2>2. seen.troubled => seen'.troubled
      BY <1>1, <1>11, FaultHistory DEF MarkSync
    <2>3. sv'.enabled = sv.enabled /\ (sv'.syncAt = sv.syncAt \/ sv'.syncAt = now.t)
      BY <1>1, <1>11 DEF MarkSync, Server
    <2>4. Has(recent', run[p].begun.t - 1, cached')
      BY <1>3, <2>1 DEF InHand
    <2> QED BY <1>2, <1>4, <2>1, <2>2, <2>3, <2>4, StepFresh
  <1>12. CASE Fails(p)
    <2>1. /\ run[p] \in Busy /\ Fault(p, seen)
          /\ Goes(p, AfterFailure(p), [e \in {} |-> 0])
          /\ UNCHANGED <<panel, sv, cached, page, now, recent>>
      BY <1>1, <1>12, NotIdle DEF Fails
    <2>2. seen.troubled \/ p = Loop => seen'.troubled
      BY <1>1, <2>1, FaultHistory
    <2> QED BY <1>2, <1>4, <2>1, <2>2, AfterResetPhase, StepFresh
  <1> QED BY <1>5, <1>6, <1>7, <1>8, <1>9, <1>10, <1>11, <1>12 DEF Step

\* A row that need not be synchronised has a marker that vouches.
LEMMA VouchedIsFresh ==
  ASSUME Inv, FInv, ~ShouldSync(now, sv)
  PROVE  Fresh
  <1>1. /\ now.t \in Nat /\ Interval \in Nat /\ sv.syncAt \in Nat
    BY Ticks
  <1>2. sv.syncAt # 0 /\ now.t - sv.syncAt < Interval
    BY <1>1 DEF ShouldSync
  <1>3. Has(recent, sv.syncAt - 2, cached)
    BY <1>1, <1>2 DEF FInv, Vouched
  <1>4. /\ sv.syncAt - 2 \in Int /\ now.t - Interval - 1 \in Int
        /\ now.t - Interval - 1 <= sv.syncAt - 2
    BY <1>1, <1>2
  <1> QED BY <1>3, <1>4, HasEarlier DEF FInv, Viewed, Fresh

LEMMA StartsFresh ==
  ASSUME TypeOK, NEW p \in Runs, NEW phase \in Phase \ {"idle"}, Starts(p, phase)
  PROVE  run'[p].begun = now /\ run'[p].copy = sv
  BY DEF Starts, TypeOK

LEMMA WakeStaysFresh ==
  ASSUME Inv, FInv, Wake
  PROVE  FInv'
  <1>1. TypeOK /\ run[Loop] = Idle /\ UNCHANGED <<panel, sv, cached, page, now, seen, recent>>
    BY DEF Inv, Wake
  <1>2. Viewed' /\ Vouched' /\ Fresh' = Fresh
    BY <1>1 DEF FInv, Viewed, Vouched, Fresh
  <1>3. CASE UNCHANGED run /\ passed' = TRUE /\ (sv.enabled => ~ShouldSync(now, sv))
    <2>1. \A q \in Runs : InHand(q)'
      BY <1>1, <1>3 DEF FInv, InHand
    <2>2. Kept'
      BY <1>1, <1>2, <1>3, VouchedIsFresh DEF Kept, Idle
    <2> QED BY <1>2, <2>1, <2>2 DEF FInv
  <1>4. CASE \E phase \in {"reset", "list"} : Starts(Loop, phase) /\ UNCHANGED passed
    <2>1. PICK phase \in {"reset", "list"} : Starts(Loop, phase) /\ UNCHANGED passed
      BY <1>4
    <2>2. phase \in Phase \ {"idle"}
      BY DEF Phase
    <2>3. /\ \A q \in Runs : q # Loop => run'[q] = run[q]
          /\ run'[Loop].at = phase /\ run'[Loop].begun = now /\ run'[Loop].copy = sv
      BY <1>1, <2>1, <2>2, StartsType, StartsFresh, LoopIsRun
    <2>4. ASSUME NEW q \in Runs PROVE InHand(q)'
      <3>1. CASE q = Loop
        BY <1>1, <2>3, <3>1, Ticks DEF InHand
      <3>2. CASE q # Loop
        BY <1>1, <2>3, <3>2 DEF FInv, InHand
      <3> QED BY <3>1, <3>2
    <2>5. Kept'
      BY <1>1, <1>2, <2>1, <2>3, VouchedIsFresh DEF FInv, Kept
    <2> QED BY <1>2, <2>4, <2>5 DEF FInv
  <1>5. \/ UNCHANGED run /\ passed' = TRUE /\ (sv.enabled => ~ShouldSync(now, sv))
        \/ \E phase \in {"reset", "list"} : Starts(Loop, phase) /\ UNCHANGED passed
    BY DEF Wake
  <1> QED BY <1>3, <1>4, <1>5

LEMMA AskStaysFresh ==
  ASSUME Inv, FInv, NEW p \in Requests, AskRefresh(p) \/ AskReset(p)
  PROVE  FInv'
  <1>1. /\ TypeOK /\ p \in Runs /\ p # Loop
        /\ UNCHANGED <<panel, sv, cached, page, now, passed, seen, recent>>
    BY RunsAssumption DEF Inv, AskRefresh, AskReset, Runs
  <1>2. PICK phase \in {"reset", "list"} : Starts(p, phase)
    BY DEF AskRefresh, AskReset
  <1>3. phase \in Phase \ {"idle"}
    BY DEF Phase
  <1>4. /\ \A q \in Runs : q # p => run'[q] = run[q]
        /\ run'[p].at = phase /\ run'[p].begun = now
    BY <1>1, <1>2, <1>3, StartsType, StartsFresh
  <1>5. ASSUME NEW q \in Runs PROVE InHand(q)'
    <2>1. CASE q = p
      BY <1>1, <1>4, <2>1, Ticks DEF InHand
    <2>2. CASE q # p
      BY <1>1, <1>4, <2>2 DEF FInv, InHand
    <2> QED BY <2>1, <2>2
  <1>6. Viewed' /\ Vouched' /\ Kept'
    BY <1>1, <1>4, LoopIsRun DEF FInv, Viewed, Vouched, Kept, Fresh
  <1> QED BY <1>5, <1>6 DEF FInv

LEMMA TroubleStaysFresh ==
  ASSUME Inv, FInv, WakeFails \/ SavePage \/ Restart
  PROVE  FInv'
  <1>1. /\ TypeOK /\ seen \in History /\ UNCHANGED <<panel, cached, now, recent>>
    BY Typed DEF Inv, WakeFails, SavePage, Restart
  <1>2. seen'.troubled
    <2>1. CASE WakeFails
      BY <1>1, <2>1, FaultHistory, LoopIsRun DEF WakeFails
    <2>2. CASE SavePage \/ Restart
      BY <1>1, <2>2 DEF SavePage, Restart, Excused, History
    <2> QED BY <2>1, <2>2
  <1>3. \A row \in page' \cup {sv'} : \E old \in page \cup {sv} : row.syncAt = old.syncAt
    <2>1. CASE SavePage
      <3>1. PICK row \in page, enabled \in BOOLEAN, auto \in BOOLEAN, day \in Days :
              sv' = [row EXCEPT !.enabled = enabled, !.auto = auto, !.day = day]
        BY <2>1 DEF SavePage
      <3>2. sv'.syncAt = row.syncAt
        BY <1>1, <3>1 DEF TypeOK, Server
      <3> QED BY <2>1, <3>2 DEF SavePage
    <2>2. CASE WakeFails \/ Restart
      BY <2>2 DEF WakeFails, Restart
    <2> QED BY <2>1, <2>2
  <1>4. ASSUME NEW q \in Runs PROVE InHand(q)'
    <2>1. CASE Restart
      BY <2>1 DEF Restart, Idle, InHand
    <2>2. CASE WakeFails \/ SavePage
      BY <1>1, <2>2 DEF WakeFails, SavePage, FInv, InHand
    <2> QED BY <2>1, <2>2
  <1>5. Viewed' /\ Kept'
    BY <1>1, <1>2 DEF FInv, Viewed, Kept
  <1>6. Vouched'
    BY <1>1, <1>3 DEF FInv, Vouched
  <1> QED BY <1>4, <1>5, <1>6 DEF FInv

LEMMA PanelStaysFresh ==
  ASSUME Inv, FInv, PanelChanges
  PROVE  FInv'
  <1>1. /\ recent' = Shows(recent, now.t, panel')
        /\ UNCHANGED <<sv, cached, page, now, run, passed, seen>>
    BY DEF PanelChanges
  <1>2. /\ Viewed'
        /\ \A c : \A x \in Int : x <= now.t /\ Has(recent, x, c) => Has(recent', x, c)
    BY <1>1, ViewsKept
  <1>3. /\ now.t \in Nat /\ Interval \in Nat /\ Interval >= 1
        /\ \A row \in page \cup {sv} : row.syncAt \in Nat /\ row.syncAt <= now.t
        /\ \A q \in Runs : run[q].at # "idle" => run[q].begun.t \in Nat
    BY Ticks
  <1>4. ASSUME NEW q \in Runs PROVE InHand(q)'
    BY <1>1, <1>2, <1>3 DEF FInv, InHand
  <1>5. Vouched'
    BY <1>1, <1>2, <1>3 DEF FInv, Vouched
  <1>6. Fresh => Fresh'
    BY <1>1, <1>2, <1>3 DEF Fresh
  <1>7. Kept'
    BY <1>1, <1>6 DEF FInv, Kept
  <1> QED BY <1>2, <1>4, <1>5, <1>7 DEF FInv

LEMMA PageStaysFresh ==
  ASSUME FInv, LoadPage
  PROVE  FInv'
  <1>1. /\ UNCHANGED <<panel, sv, cached, now, run, passed, seen, recent>>
        /\ page' \subseteq page \cup {sv}
    BY DEF LoadPage
  <1> QED BY <1>1 DEF FInv, Viewed, InHand, Vouched, Kept, Fresh

\* What is forgotten is older than any run or marker speaks of.
LEMMA TimeStaysFresh ==
  ASSUME Inv, FInv, TimePasses
  PROVE  FInv'
  <1> DEFINE young == {r \in recent : r[1] + Interval + 1 >= now'.t}
  <1>1. /\ TypeOK /\ passed' = FALSE /\ now' = NextMoment(now)
        /\ UNCHANGED <<panel, sv, cached, page, run>>
        /\ \A p \in Runs : run[p] # Idle => run[p].begun.t = now.t
        /\ recent' = Shows(young, now'.t, panel)
    BY DEF Inv, TimePasses
  <1>2. /\ now.t \in Nat /\ now'.t = now.t + 1 /\ now'.t \in Nat
        /\ Interval \in Nat /\ Interval >= 1
        /\ \A row \in page \cup {sv} : row.syncAt \in Nat /\ row.syncAt <= now.t
    BY <1>1, Ticks DEF NextMoment
  <1>3. Viewed'
    <2>1. \A r \in young : r[1] \in Nat /\ r[1] <= now'.t
      BY <1>2 DEF FInv, Viewed
    <2>2. \A r \in recent' : r[1] \in Nat /\ r[1] <= now'.t
      BY <1>1, <1>2, <2>1, ShowsTicks
    <2>3. Has(recent', now'.t, panel')
      BY <1>1, <1>2, ShowsNow
    <2> QED BY <2>2, <2>3 DEF Viewed
  <1>4. ASSUME NEW c, NEW x \in Int, x <= now'.t, x + Interval + 1 >= now'.t, Has(recent, x, c)
        PROVE  Has(recent', x, c)
    <2>1. PICK r \in recent : r[1] >= x /\ r[2] = ShownBy(c)
      BY <1>4 DEF Has
    <2>2. r \in young
      BY <1>2, <1>4, <2>1 DEF FInv, Viewed
    <2>3. Has(young, x, c)
      BY <2>1, <2>2 DEF Has
    <2> QED BY <1>1, <1>2, <1>4, <2>3, ShowsHas
  <1> HIDE DEF young
  <1>5. ASSUME NEW q \in Runs PROVE InHand(q)'
    <2>1. CASE run[q].at = "idle"
      BY <1>1, <2>1 DEF InHand
    <2>2. CASE run[q].at # "idle"
      <3>1. run[q].begun.t = now.t
        BY <1>1, <2>2 DEF Idle
      <3>2. /\ now.t <= now'.t /\ now.t - 1 <= now'.t /\ now.t \in Int /\ now.t - 1 \in Int
            /\ now.t + Interval + 1 >= now'.t /\ (now.t - 1) + Interval + 1 >= now'.t
        BY <1>2
      <3>3. /\ run[q].at = "store" => Has(recent', now.t, run[q].list)
            /\ run[q].at = "zero" => Has(recent', now.t, Zeros)
            /\ run[q].at \in {"stamp", "mark"} => Has(recent', now.t - 1, cached)
        BY <1>4, <2>2, <3>1, <3>2 DEF FInv, InHand
      <3> QED BY <1>1, <1>2, <3>1, <3>3 DEF InHand
    <2> QED BY <2>1, <2>2
  <1>6. Vouched'
    <2>1. SUFFICES ASSUME NEW row \in page \cup {sv}, row.syncAt # 0, now'.t < row.syncAt + Interval
                   PROVE  Has(recent', row.syncAt - 2, cached)
      BY <1>1 DEF Vouched
    <2>2. row.syncAt - 2 \in Int /\ row.syncAt - 2 <= now'.t
          /\ (row.syncAt - 2) + Interval + 1 >= now'.t /\ now.t < row.syncAt + Interval
      BY <1>2, <2>1
    <2>3. Has(recent, row.syncAt - 2, cached)
      BY <2>1, <2>2 DEF FInv, Vouched
    <2> QED BY <1>4, <2>2, <2>3
  <1>7. Kept'
    <2>1. run[Loop] # Idle => run[Loop].begun.t # now'.t
      BY <1>1, <1>2, LoopIsRun
    <2> QED BY <1>1, <2>1 DEF Kept, Idle
  <1> QED BY <1>3, <1>5, <1>6, <1>7 DEF FInv

LEMMA NextStaysFresh == Inv /\ FInv /\ [Next]_vars => FInv'
  <1> SUFFICES ASSUME Inv, FInv, [Next]_vars PROVE FInv'
    OBVIOUS
  <1>1. CASE \E p \in Runs : Step(p)
    BY <1>1, RunsStayFresh
  <1>2. CASE \E p \in Requests : AskRefresh(p) \/ AskReset(p)
    BY <1>2, AskStaysFresh
  <1>3. CASE Wake \/ PanelChanges \/ LoadPage \/ TimePasses
    BY <1>3, WakeStaysFresh, PanelStaysFresh, PageStaysFresh, TimeStaysFresh
  <1>4. CASE WakeFails \/ SavePage \/ Restart
    BY <1>4, TroubleStaysFresh
  <1>5. CASE UNCHANGED vars
    BY <1>5 DEF vars, FInv, Viewed, InHand, Vouched, Kept, Fresh
  <1> QED BY <1>1, <1>2, <1>3, <1>4, <1>5 DEF Next

LEMMA InitIsFresh == Init => FInv
  <1> SUFFICES ASSUME Init PROVE FInv
    OBVIOUS
  <1>1. /\ page = {} /\ sv.syncAt = 0 /\ now.t = 1 /\ ~passed
        /\ recent = {<<now.t, ShownBy(panel)>>}
    BY DEF Init
  <1>2. \A p \in Runs : run[p].at = "idle"
    BY DEF Init, Idle
  <1>3. Viewed
    BY <1>1 DEF Viewed, Has
  <1> QED BY <1>1, <1>2, <1>3, LoopIsRun DEF FInv, InHand, Vouched, Kept

(* At the end of a tick in which the loop passed without trouble the      *)
(* stored traffic of an enabled server is what the panel showed at one    *)
(* moment of the last Interval + 1 ticks, for every interval and any      *)
(* number of refreshes and resets by request that overlap the loop.       *)
THEOREM StoredIsFresh == Spec => FreshEnough
  <1>1. Inv /\ FInv /\ [Next]_vars
        => [ /\ now'.t # now.t
             /\ sv.enabled
             /\ passed /\ run[Loop] = Idle
             /\ ~seen.troubled
             => \E r \in recent : r[1] + Interval + 1 >= now.t /\ r[2] = ShownBy(cached) ]_vars
    <2>1. SUFFICES ASSUME Inv, FInv, sv.enabled, passed, ~seen.troubled
                   PROVE  \E r \in recent : r[1] + Interval + 1 >= now.t /\ r[2] = ShownBy(cached)
      OBVIOUS
    <2>2. PICK r \in recent : r[1] >= now.t - Interval - 1 /\ r[2] = ShownBy(cached)
      BY <2>1 DEF FInv, Kept, Fresh, Has
    <2>3. r[1] \in Nat /\ now.t \in Nat /\ Interval \in Nat
      BY <2>1, Ticks DEF FInv, Viewed
    <2>4. r[1] + Interval + 1 >= now.t
      BY <2>2, <2>3
    <2> QED BY <2>2, <2>4
  <1> QED BY <1>1, Invariant, InitIsFresh, InitInv, NextStaysFresh, NextInv, PTL
          DEF Spec, FreshEnough
=============================================================================
