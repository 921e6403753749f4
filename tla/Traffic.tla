------------------------------ MODULE Traffic ------------------------------
(***************************************************************************)
(* Traffic of one server: the maintenance loop that refreshes the stored   *)
(* counters every interval and resets the panel's once a month, together   *)
(* with the refreshes and resets an administrator asks for, and the        *)
(* server page that writes the whole row back                              *)
(* (backend/internal/app/service.go, db/traffic.go, db/servers.go).        *)
(*                                                                         *)
(* Every panel call and every statement is one step. Time is counted in    *)
(* ticks, each long enough for a whole pass of the loop: a pass, or a      *)
(* request, may reach over the end of one tick but not of two, and time    *)
(* does not pass a tick in which the loop never woke.                      *)
(***************************************************************************)
EXTENDS Integers

CONSTANTS
  Loop,         \* the goroutine of StartTrafficRefresher
  Requests,     \* concurrent POST /api/traffic/refresh, /reset-server, logins
  Emails,
  LastMonth,    \* bound: the months are 0..LastMonth
  Length,       \* ticks of each month
  Days,         \* auto_reset_day, in ticks; may lie beyond a month's end
  Interval,     \* traffic_sync_interval_minutes, in ticks
  MaxUse,       \* bound: what a client's counter reaches
  Troubles,     \* the kinds of trouble there are
  MaxTroubles,  \* bound: how often there is trouble
  MaxUses,      \* bound: changes of the panel's counters and clients
  MaxAsks       \* bound: refreshes and resets by request

Runs   == Requests \cup {Loop}
Months == 0..LastMonth
Never  == -1                                \* last_traffic_reset_key is empty

ASSUME RunsAssumption == Loop \notin Requests
\* A failed call or statement, a restart, a save of the server page.
ASSUME TroublesAssumption == Troubles \subseteq {"fault", "restart", "save"}
ASSUME CalendarAssumption ==
  LastMonth \in Nat /\ Length \in [Months -> Nat \ {0}] /\ Days \subseteq Nat
ASSUME BoundsAssumption ==
  /\ Interval \in Nat \ {0} /\ MaxUse \in Nat
  /\ MaxTroubles \in Nat /\ MaxUses \in Nat /\ MaxAsks \in Nat

Moment   == [t: Nat, month: Months, day: Nat]
\* up + down per client; an address without a row counts as nothing used.
Counters == UNION {[S -> 0..MaxUse] : S \in SUBSET Emails}
Server   == [enabled: BOOLEAN, auto: BOOLEAN, day: Days,
             syncAt: Nat, key: Months \cup {Never}]

VARIABLES
  panel,   \* the panel's clients and their counters
  sv,      \* the server's row
  cached,  \* user_traffic
  page,    \* the row as an open server page shows it, or nothing
  now,     \* the clock
  run,     \* run[p]: the step p is at and what it has in hand
  passed,  \* history: the loop finished a pass begun in this tick
  seen,    \* history: what happened in this month and tick
  recent,  \* history: what the panel showed, at which tick
  left     \* what is left of the three bounds

vars == <<panel, sv, cached, page, now, run, passed, seen, recent, left>>

\* step; the row and the time read at the start; what ListClients returned.
Phase == {"idle", "reset", "zero", "stamp", "key", "list", "store", "mark"}
Idle == [at |-> "idle"]
Busy == [at: Phase \ {"idle"}, copy: Server, begun: Moment, list: Counters]

\* Mutant: without the clamp, a short month has no day 31.
UnclampedDay(m, day) == IF day = 0 THEN 1 ELSE day

\* clampDay
ScheduledDay(m, day) ==
  IF day = 0 THEN 1 ELSE IF day > Length[m] THEN Length[m] ELSE day

\* shouldResetServerTraffic
ShouldReset(n, row) ==
  row.auto /\ n.day >= ScheduledDay(n.month, row.day) /\ row.key # n.month

\* Mutant: more than the interval instead of at least the interval.
SyncsLate(n, row) == row.syncAt = 0 \/ n.t - row.syncAt > Interval

\* shouldSyncServerTraffic
ShouldSync(n, row) == row.syncAt = 0 \/ n.t - row.syncAt >= Interval

ShownBy(counters) ==
  [e \in Emails |-> IF e \in DOMAIN counters THEN counters[e] ELSE 0]

\* The history with what the panel shows at t; a view is kept with its latest tick.
Shows(history, t, counters) ==
  {r \in history : r[2] # ShownBy(counters)} \cup {<<t, ShownBy(counters)>>}

TypeOK ==
  /\ panel \in Counters /\ cached \in Counters
  /\ sv \in Server /\ page \in SUBSET Server
  /\ now \in Moment /\ now.day \in 1..Length[now.month]
  /\ run \in [Runs -> Busy \cup {Idle}]
  /\ passed \in BOOLEAN
  /\ seen \in [auto: Nat, reset: BOOLEAN, excused: BOOLEAN,
               troubled: BOOLEAN, carried: BOOLEAN]
  /\ left \in [troubles: Nat, uses: Nat, asks: Nat]
  /\ \A row \in page \cup {sv} : row.syncAt <= now.t /\ row.key <= now.month

\* A server that was just added; the form has it enabled.
Init ==
  /\ panel \in Counters
  /\ sv \in [enabled: {TRUE}, auto: BOOLEAN, day: Days, syncAt: {0}, key: {Never}]
  /\ cached = [e \in {} |-> 0]
  /\ page = {}
  /\ now = [t |-> 1, month |-> 0, day |-> 1]
  /\ run = [p \in Runs |-> Idle]
  /\ passed = FALSE
  /\ seen = [auto |-> 0, reset |-> FALSE, excused |-> FALSE,
             troubled |-> FALSE, carried |-> FALSE]
  /\ recent = {<<now.t, ShownBy(panel)>>}
  /\ left = [troubles |-> MaxTroubles, uses |-> MaxUses, asks |-> MaxAsks]

---------------------------------------------------------------------------
(* Steps of a pass of the loop, or of a request. *)

\* p goes on at phase, with the listing in hand.
Goes(p, phase, list) ==
  IF phase = "idle"
  THEN /\ run' = [run EXCEPT ![p] = Idle]
       /\ passed' = (passed \/ (p = Loop /\ run[p].begun.t = now.t))
  ELSE /\ run' = [run EXCEPT ![p] = [at |-> phase, copy |-> @.copy, begun |-> @.begun,
                                      list |-> list]]
       /\ UNCHANGED passed

\* Where p goes from a reset, done or failed: only the loop looks further,
\* and it decides by the row it read before.
AfterReset(p) ==
  IF p = Loop /\ ShouldSync(run[p].begun, run[p].copy) THEN "list" ELSE "idle"
AfterFailure(p) == IF run[p].at \in {"list", "store"} THEN "idle" ELSE AfterReset(p)

Trouble(kind) ==
  /\ kind \in Troubles /\ left.troubles > 0
  /\ left' = [left EXCEPT !.troubles = @ - 1]
Excused(history) == [history EXCEPT !.excused = TRUE, !.troubled = TRUE]

\* A request's failures are no excuse for the loop.
Fault(p, history) ==
  /\ Trouble("fault")
  /\ seen' = IF p = Loop THEN Excused(history) ELSE history

Starts(p, phase) ==
  run' = [run EXCEPT ![p] =
            [at |-> phase, copy |-> sv, begun |-> now, list |-> [e \in {} |-> 0]]]

\* RunTrafficMaintenance: one turn of the ticker.
Wake ==
  /\ run[Loop] = Idle
  /\ LET first == IF ShouldReset(now, sv) THEN "reset"
                  ELSE IF ShouldSync(now, sv) THEN "list" ELSE "idle"
     IN IF sv.enabled /\ first # "idle"
        THEN Starts(Loop, first) /\ UNCHANGED passed
        ELSE passed' = TRUE /\ UNCHANGED run
  /\ UNCHANGED <<panel, sv, cached, page, now, seen, recent, left>>

\* ListServers fails: the turn is lost.
WakeFails ==
  /\ run[Loop] = Idle
  /\ Fault(Loop, seen)
  /\ passed' = TRUE
  /\ UNCHANGED <<panel, sv, cached, page, now, run, recent>>

\* RefreshTraffic, by request or after a login.
AskRefresh(p) ==
  /\ run[p] = Idle /\ sv.enabled
  /\ left.asks > 0 /\ left' = [left EXCEPT !.asks = @ - 1]
  /\ Starts(p, "list")
  /\ UNCHANGED <<panel, sv, cached, page, now, passed, seen, recent>>

\* ResetServerUserTraffic
AskReset(p) ==
  /\ run[p] = Idle
  /\ left.asks > 0 /\ left' = [left EXCEPT !.asks = @ - 1]
  /\ Starts(p, "reset")
  /\ UNCHANGED <<panel, sv, cached, page, now, passed, seen, recent>>

Zeroed(counters) == [e \in DOMAIN counters |-> 0]

\* The history of the month with a reset by p; the loop's are counted.
WithReset(p) ==
  IF p = Loop THEN [seen EXCEPT !.reset = TRUE, !.auto = @ + 1] ELSE [seen EXCEPT !.reset = TRUE]

\* resetAllServerTraffic, after a listing that only counts the clients: the
\* panel zeroes every counter; its answer may be lost.
ResetAllClientTraffics(p) ==
  /\ run[p].at = "reset"
  /\ panel' = Zeroed(panel)
  /\ recent' = Shows(recent, now.t, panel')
  /\ \/ /\ Goes(p, "zero", run[p].list)
        /\ seen' = WithReset(p) /\ UNCHANGED left
     \/ Goes(p, AfterReset(p), run[p].list) /\ Fault(p, WithReset(p))
  /\ UNCHANGED <<sv, cached, page, now>>

ZeroAllUserTraffic(p) ==
  /\ run[p].at = "zero"
  /\ cached' = Zeroed(cached)
  /\ Goes(p, "stamp", run[p].list)
  /\ UNCHANGED <<panel, sv, page, now, seen, recent, left>>

\* UpdateServerTrafficSyncAt after a reset; its error is only logged.
StampSync(p) ==
  /\ run[p].at = "stamp"
  /\ \/ sv' = [sv EXCEPT !.syncAt = now.t] /\ UNCHANGED <<seen, left>>
     \/ Fault(p, seen) /\ UNCHANGED sv
  /\ Goes(p, IF run[p].copy.auto THEN "key" ELSE AfterReset(p), run[p].list)
  /\ UNCHANGED <<panel, cached, page, now, recent>>

\* Mutant: a month counted from zero on one side and from one on the other.
NextKey(n) == n.month + 1

\* scheduledResetKey: the month in which the key is written.
ResetKey(n) == n.month

\* UpdateServerTrafficResetKey; its error is only logged.
MarkReset(p) ==
  /\ run[p].at = "key"
  /\ \/ sv' = [sv EXCEPT !.key = ResetKey(now)] /\ UNCHANGED <<seen, left>>
     \/ Fault(p, seen) /\ UNCHANGED sv
  /\ Goes(p, AfterReset(p), run[p].list)
  /\ UNCHANGED <<panel, cached, page, now, recent>>

\* refreshTrafficForServer
ListClients(p) ==
  /\ run[p].at = "list"
  /\ Goes(p, "store", panel)
  /\ UNCHANGED <<panel, sv, cached, page, now, seen, recent, left>>

\* What is stored of a listing: rows of clients that are gone go too.
Replaced(stored, list) == list

ReplaceUserTraffic(p) ==
  /\ run[p].at = "store"
  /\ cached' = Replaced(cached, run[p].list)
  /\ Goes(p, "mark", [e \in {} |-> 0])
  /\ UNCHANGED <<panel, sv, page, now, seen, recent, left>>

\* Mutant: the marker is stored by writing back the row read at the start.
MarkWithWholeRow(p) ==
  /\ run[p].at = "mark"
  /\ sv' = [run[p].copy EXCEPT !.syncAt = now.t]
  /\ Goes(p, "idle", run[p].list)
  /\ UNCHANGED <<panel, cached, page, now, seen, recent, left>>

MarkSync(p) ==
  /\ run[p].at = "mark"
  /\ \/ sv' = [sv EXCEPT !.syncAt = now.t] /\ UNCHANGED <<seen, left>>
     \/ Fault(p, seen) /\ UNCHANGED sv
  /\ Goes(p, "idle", run[p].list)
  /\ UNCHANGED <<panel, cached, page, now, recent>>

\* A call the panel did not act on, or a statement that failed, ends its part.
Fails(p) ==
  /\ run[p].at \in {"reset", "zero", "list", "store"}
  /\ Fault(p, seen)
  /\ Goes(p, AfterFailure(p), [e \in {} |-> 0])
  /\ UNCHANGED <<panel, sv, cached, page, now, recent>>

---------------------------------------------------------------------------
(* What happens around them. *)

\* Clients use their traffic, come and go; the counter saturates at MaxUse.
PanelChanges ==
  /\ left.uses > 0
  /\ left' = [left EXCEPT !.uses = @ - 1]
  /\ \E e \in Emails :
       \/ panel' = [f \in DOMAIN panel \cup {e} |->
                      IF f \notin DOMAIN panel THEN 0
                      ELSE IF f = e /\ panel[f] < MaxUse THEN panel[f] + 1 ELSE panel[f]]
       \/ panel' = [f \in DOMAIN panel \ {e} |-> panel[f]]
  /\ recent' = Shows(recent, now.t, panel')
  /\ UNCHANGED <<sv, cached, page, now, run, passed, seen>>

\* ServersPage loads the rows.
LoadPage ==
  /\ page # {sv} /\ "save" \in Troubles /\ left.troubles > 0
  /\ page' = {sv}
  /\ UNCHANGED <<panel, sv, cached, now, run, passed, seen, recent, left>>

\* handleServerUpdate: the page posts the whole row, markers included, and
\* closes its form.
SavePage ==
  /\ Trouble("save")
  /\ \E row \in page, enabled, auto \in BOOLEAN, day \in Days :
       sv' = [row EXCEPT !.enabled = enabled, !.auto = auto, !.day = day]
  /\ page' = {}
  /\ seen' = Excused(seen)
  /\ UNCHANGED <<panel, cached, now, run, passed, recent>>

\* The program restarts; the loop's first pass is due at once.
Restart ==
  /\ Trouble("restart")
  /\ run' = [p \in Runs |-> Idle]
  /\ passed' = FALSE
  /\ seen' = Excused(seen)
  /\ UNCHANGED <<panel, sv, cached, page, now, recent>>

NextMoment(n) ==
  IF n.day < Length[n.month]
  THEN [t |-> n.t + 1, month |-> n.month, day |-> n.day + 1]
  ELSE [t |-> n.t + 1, month |-> n.month + 1, day |-> 1]

\* The loop wakes in every tick, and nothing takes longer than one.
TimePasses ==
  /\ passed \/ run[Loop] # Idle
  /\ \A p \in Runs : run[p] # Idle => run[p].begun.t = now.t
  /\ now' = NextMoment(now) /\ now'.month \in Months
  /\ passed' = FALSE
  /\ seen' = IF now'.month = now.month THEN [seen EXCEPT !.troubled = FALSE]
             ELSE [auto |-> 0, reset |-> FALSE, excused |-> FALSE, troubled |-> FALSE,
                   carried |-> \E p \in Runs : run[p] # Idle]
  /\ recent' = Shows({r \in recent : r[1] + Interval + 1 >= now'.t}, now'.t, panel)
  /\ UNCHANGED <<panel, sv, cached, page, run, left>>

Step(p) ==
  \/ ResetAllClientTraffics(p) \/ ZeroAllUserTraffic(p)
  \/ StampSync(p) \/ MarkReset(p)
  \/ ListClients(p) \/ ReplaceUserTraffic(p) \/ MarkSync(p)
  \/ Fails(p)

Next ==
  \/ \E p \in Runs : Step(p)
  \/ \E p \in Requests : AskRefresh(p) \/ AskReset(p)
  \/ Wake \/ WakeFails
  \/ PanelChanges \/ LoadPage \/ SavePage \/ Restart \/ TimePasses

Spec == Init /\ [][Next]_vars

---------------------------------------------------------------------------
(* Properties. *)

(* The scheduled reset comes once a month: however passes of the loop,    *)
(* manual resets and refreshes interleave, the loop does not reset the    *)
(* panel's counters twice in a month, unless in that month the program    *)
(* restarted, a call or marker of the loop failed or the row was saved.   *)
SingleReset == seen.auto <= 1 \/ seen.excused

(* Release note 157: counters are cleared monthly. No month has two       *)
(* scheduled resets.                                                      *)
AtMostOneReset == seen.auto <= 1

(* A month does not end without a reset of an enabled server that is      *)
(* scheduled, even if its day is beyond the month's end, the loop was     *)
(* down or failed earlier in the month, or settings changed: the last     *)
(* tick needs a pass without failures. Not for a month that began while   *)
(* a run was under way: such a run may write the new month's key.         *)
MonthlyReset ==
  [][ /\ now'.month # now.month
      /\ sv.enabled /\ sv.auto
      /\ passed /\ run[Loop] = Idle
      /\ ~seen.troubled /\ ~seen.carried
      => seen.reset ]_vars

(* Bounded staleness: whatever overlapped and failed before, at the end   *)
(* of a tick in which the loop ran without failures the stored traffic of *)
(* an enabled server is what the panel showed at one moment at most       *)
(* Interval + 1 ticks ago, never a mixture of moments and never older.    *)
(* (The 1: a refresh that is late with its marker vouches for the older   *)
(* listing another one stored behind it.)                                 *)
FreshEnough ==
  [][ /\ now'.t # now.t
      /\ sv.enabled
      /\ passed /\ run[Loop] = Idle
      /\ ~seen.troubled
      => \E r \in recent : r[1] + Interval + 1 >= now.t /\ r[2] = ShownBy(cached) ]_vars
=============================================================================
