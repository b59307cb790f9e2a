-------------------------------- MODULE History --------------------------------
(***************************************************************************)
(* The listening history of one user: plays, totals and the marks of what  *)
(* was cleared or forgotten (play.add, play.baseline, history.clear,       *)
(* history.forget), and the retention job that deletes behind them.        *)
(*                                                                         *)
(* A request holds the user's head while it applies its ops one by one;    *)
(* the job takes no lock and on PostgreSQL its batches come between the    *)
(* ops.  Which rows a device is told of is SyncPull's subject, so no seq   *)
(* is kept here; a request that fails is one that did not happen.          *)
(***************************************************************************)
EXTENDS Integers, FiniteSets, FiniteSetsExt

CONSTANTS
  Videos, All,    \* tracks, and the key of the mark of all of them
  Pools,          \* sets of ops: those of one behaviour are sent, and sent again
  MaxHistory,     \* HISTORY_MAX_EVENTS, until it is lowered
  MaxPlays,       \* maxPlayEvents
  MaxStats,       \* maxPlayStats
  PerHour,        \* playAddPerHour
  MaxOps,         \* maxOpsPerRequest
  MaxTotal,       \* 2^53 - 1
  Hour, History,  \* an hour, HISTORY_RETENTION_DAYS
  Idempotency, Journal, \* IDEMPOTENCY_RETENTION_DAYS, SYNC_OPS_RETENTION_DAYS
  Batch,          \* rows of a batch of the job
  MaxTime         \* bound: the clock

\* The ops of this stream.
Kinds == {"add", "baseline", "clear", "forget"}

ASSUME HistoryAssumption ==
  /\ All \notin Videos
  /\ \A o \in UNION Pools :
       /\ o.kind \in Kinds /\ o.at \in Nat
       /\ o.kind \in {"add", "forget"} => o.video \in Videos
  /\ {MaxHistory, MaxPlays, Batch} \subseteq Nat \ {0}
  /\ {MaxStats, PerHour, MaxOps, MaxTotal, Hour, History, Idempotency, Journal, MaxTime} \subseteq Nat

VARIABLES
  ops,      \* what the devices of this behaviour send
  now,      \* the clock
  limit,    \* HISTORY_MAX_EVENTS
  plays,    \* play_events: the op, the effective time, in_history and received_at
  stats,    \* play_stats
  forgets,  \* play_forgets
  journal,  \* sync_ops
  request,  \* the request that holds the head
  job,      \* the run of the retention job
  counted,  \* history variable: when an op last changed a total
  credit    \* history variable: the times of what a total is made of

vars == <<ops, now, limit, plays, stats, forgets, journal, request, job, counted, credit>>
clock == <<ops, now, limit>>
Ops == UNION Pools
tables == <<plays, stats, forgets, journal>>
ghosts == <<counted, credit>>

\* No row, or NULL.
None == -1
NoStat == [total |-> None, last |-> None]
Unread == None
Counters == [plays |-> Unread, history |-> Unread, hour |-> Unread, stats |-> Unread]
NoRequest == [open |-> FALSE, known |-> {}, done |-> {}, counters |-> Counters]
NoRun == [phase |-> "idle", started |-> 0, excess |-> FALSE]
PlayRow(o, eff, in) == [op |-> o, at |-> eff, in |-> in, received |-> now]

Later(a, b) == IF a > b THEN a ELSE b
Sooner(a, b) == IF a < b THEN a ELSE b
InHistory == {p \in plays : p.in}
ThisHour == {p \in plays : p.received > now - Hour}
HasStat == {v \in Videos : stats[v] # NoStat}

TypeOK ==
  /\ now \in 0 .. MaxTime /\ limit \in 1 .. MaxHistory
  /\ \A p \in plays : p.op \in Ops /\ p.at <= p.received /\ p.received <= now
  /\ \A p, q \in plays : p.op = q.op => p = q
  /\ stats \in [Videos -> [total : None .. MaxTotal, last : None .. MaxTime]]
  /\ forgets \in [Videos \cup {All} -> [events : None .. MaxTime, total : None .. MaxTime]]
  /\ \A j \in journal : j.op \in Ops /\ j.at <= now

Init ==
  /\ ops \in Pools
  /\ now = 0 /\ limit = MaxHistory
  /\ plays = {}
  /\ stats = [v \in Videos |-> NoStat]
  /\ forgets = [k \in Videos \cup {All} |-> [events |-> None, total |-> None]]
  /\ journal = {}
  /\ request = NoRequest
  /\ job = NoRun
  /\ counted = [o \in Ops |-> None]
  /\ credit = [v \in Videos |-> {}]

-----------------------------------------------------------------------------
(* The request.  Its counters are read once, at their first use, and kept.  *)

\* lockUser and findPrevious: what is answered as a replay is known before the first op.
StartRequest ==
  /\ ~request.open
  /\ request' = [NoRequest EXCEPT !.open = TRUE,
                                  !.known = {p.op : p \in plays} \cup {j.op : j \in journal}]
  /\ UNCHANGED <<clock, tables, job, ghosts>>

EndRequest ==
  /\ request.open
  /\ request' = NoRequest
  /\ UNCHANGED <<clock, tables, job, ghosts>>

\* oc.counters.get
Count(n, actual) == IF n = Unread THEN actual ELSE n
\* oc.counters.add: a counter that was not read stays so.
Added(n, k) == IF n = Unread THEN Unread ELSE n + k

\* deleteHistoryEvents tells the counters.
Deleted(c, n) == [c EXCEPT !.plays = Added(@, -n), !.history = Added(@, -n)]

Finish(o, c) == request' = [request EXCEPT !.done = @ \cup {o}, !.counters = c]

\* One of the at most MaxOps of the request, and no replay: that one only gets its old answer.
Fresh(o) == request.open /\ o \notin request.known \cup request.done /\ Cardinality(request.done) < MaxOps

\* A deferred op leaves nothing.
Deferred(o, c) == Finish(o, c) /\ UNCHANGED <<clock, tables, job, ghosts>>

Journaled(o) == journal \cup {[op |-> o, at |-> now]}

-----------------------------------------------------------------------------
(* play.add *)

EvictionBatch(cap) == Sooner(MaxOps, cap \div 100)

Older(p, q) == p.at < q.at
\* The n oldest of some plays; ids break the tie, in an order of their own.
Oldest(ps, n) ==
  {vs \in SUBSET ps :
     /\ Cardinality(vs) = Sooner(n, Cardinality(ps))
     /\ \A p \in ps \ vs, v \in vs : ~Older(p, v)}

\* Variant: the mark of all tracks is not asked.
PlanOwnMark(o, eff) ==
  [in |-> o.history /\ eff > forgets[o.video].events /\ eff > now - History,
   counts |-> o.playtime /\ eff > forgets[o.video].total]
\* Variant: the history takes plays of any age.
PlanAnyAge(o, eff) ==
  [in |-> o.history /\ eff > Later(forgets[All].events, forgets[o.video].events),
   counts |-> o.playtime /\ eff > forgets[o.video].total]

PlanPlayAdd(o, eff) ==
  [in |-> o.history /\ eff > Later(forgets[All].events, forgets[o.video].events) /\ eff > now - History,
   counts |-> o.playtime /\ eff > forgets[o.video].total]

\* makeRoomForEvent: what goes, for a play in the history first (1), then for any (0 and 1).
RoomInHistory(c) == IF c < limit THEN 0 ELSE c - limit + 1 + EvictionBatch(limit)
\* Variant: room is made when the limit was passed.
RoomInAllLate(c) == IF c <= MaxPlays THEN 0 ELSE c - MaxPlays + 1 + EvictionBatch(MaxPlays)
RoomInAll(c) == IF c < MaxPlays THEN 0 ELSE c - MaxPlays + 1 + EvictionBatch(MaxPlays)

\* The plays that go and the counters after them: first of the history, then of the idle ones, then of the history again.
Eviction(first, idle, more, cHistory, cPlays) ==
  [gone |-> first \cup idle \cup more,
   history |-> cHistory - Cardinality(first) - Cardinality(more),
   plays |-> cPlays - Cardinality(first) - Cardinality(idle) - Cardinality(more)]
Evicted(in, cHistory, cPlays) ==
  UNION {UNION {{Eviction(first, idle, more, cHistory, cPlays) :
                   more \in Oldest(InHistory \ first, RoomInAll(cPlays - Cardinality(first)) - Cardinality(idle))} :
                  idle \in Oldest(plays \ InHistory, RoomInAll(cPlays - Cardinality(first)))} :
           first \in Oldest(InHistory, IF in THEN RoomInHistory(cHistory) ELSE 0)}

NextPlayStat(stat, ms, at) ==
  [total |-> Sooner(Later(stat.total, 0) + ms, MaxTotal), last |-> Later(stat.last, at)]

\* Whole rows, computed under lockUser.
WritePlayStats(rows) == [v \in Videos |-> IF v \in DOMAIN rows THEN rows[v] ELSE stats[v]]

\* addPlayToStats: the row, unless it is new and the quota is used up.
AddPlay(o, eff, plan, room) ==
  LET ms == IF plan.counts THEN o.ms ELSE 0
      next == NextPlayStat(stats[o.video], ms, IF plan.in THEN eff ELSE None)
  IN IF (ms = 0 /\ ~plan.in) \/ (stats[o.video] = NoStat /\ ~room) THEN stats
     ELSE WritePlayStats([v \in {o.video} |-> next])

\* The two counters after the evictions and the insert; the one of the history is read only for a play that enters it.
CountedPlay(c, e, in) ==
  [c EXCEPT !.plays = e.plays + 1,
            !.history = IF in THEN e.history + 1 ELSE Added(@, e.history - Count(@, Cardinality(InHistory)))]

InsertPlay(o, eff, plan, counters, room) ==
  \E e \in Evicted(plan.in, Count(counters.history, Cardinality(InHistory)), Count(counters.plays, Cardinality(plays))) :
    /\ plays' = (plays \ e.gone) \cup {PlayRow(o, eff, plan.in)}
    /\ stats' = AddPlay(o, eff, plan, room)
    /\ counted' = [counted EXCEPT ![o] = IF stats'[o.video].total # stats[o.video].total THEN now ELSE @]
    /\ credit' = [credit EXCEPT ![o.video] = IF plan.counts THEN @ \cup {eff} ELSE @]
    /\ Finish(o, [CountedPlay(counters, e, plan.in) EXCEPT
         !.hour = Count(@, Cardinality(ThisHour)) + 1,
         !.stats = Added(@, Cardinality({v \in Videos : stats'[v] # NoStat}) - Cardinality(HasStat))])

\* playAddRetryAfter: the hour is full.
Limited(c) == Count(c.hour, Cardinality(ThisHour)) >= PerHour

Add(o) ==
  LET c == request.counters
      room == Count(c.stats, Cardinality(HasStat)) < MaxStats
      eff == Sooner(o.at, now)
  IN /\ o.kind = "add" /\ Fresh(o)
     /\ \/ /\ Limited(c)
           /\ Deferred(o, [c EXCEPT !.hour = Count(@, Cardinality(ThisHour))])
        \/ /\ ~Limited(c)
           /\ InsertPlay(o, eff, PlanPlayAdd(o, eff), c, room)
           /\ UNCHANGED <<clock, forgets, journal, job>>

-----------------------------------------------------------------------------
(* play.baseline *)

\* Variant: a total that was reset at the very time counts again.
SkipsStrictly(v, eff) == forgets[v].total > eff
BaselineSkips(v, eff) == forgets[v].total # None /\ forgets[v].total >= eff

BaselineTotal(mode, current, ms) ==
  IF mode = "add" THEN Sooner(current + ms, MaxTotal) ELSE Later(current, ms)

\* The entries that change a row, in the order of the op: [v |-> ms], which the MC module keeps to one new row.
Planned(o, eff) ==
  {v \in DOMAIN o.entries :
     /\ ~BaselineSkips(v, eff)
     /\ stats[v].total # BaselineTotal(o.mode, Later(stats[v].total, 0), o.entries[v])}
\* newPlayStatsAllowed: some of the new rows, as many as the quota leaves.
Created(o, eff, room) ==
  LET new == Planned(o, eff) \ HasStat
  IN {vs \in SUBSET new : Cardinality(vs) = Sooner(Cardinality(new), Later(room, 0))}

Baseline(o) ==
  LET eff == Sooner(o.at, now)
      c == request.counters
      used == Count(c.stats, Cardinality(HasStat))
  IN /\ o.kind = "baseline" /\ Fresh(o)
     /\ \E new \in Created(o, eff, MaxStats - used) :
          LET changed == (Planned(o, eff) \cap HasStat) \cup new
          IN /\ stats' = WritePlayStats([v \in changed |->
                            [stats[v] EXCEPT !.total = BaselineTotal(o.mode, Later(@, 0), o.entries[v])]])
             /\ journal' = IF changed = {} THEN journal ELSE Journaled(o)
             /\ counted' = [counted EXCEPT ![o] = IF changed = {} THEN @ ELSE now]
             /\ credit' = [v \in Videos |-> IF v \in changed THEN credit[v] \cup {eff} ELSE credit[v]]
             /\ Finish(o, IF Planned(o, eff) \subseteq HasStat THEN c ELSE [c EXCEPT !.stats = used + Cardinality(new)])
     /\ UNCHANGED <<clock, plays, forgets, job>>

-----------------------------------------------------------------------------
(* history.clear and history.forget: marks only grow. *)

\* The marks of one key, which the caller computed.
WritePlayForget(key, forget) == [forgets EXCEPT ![key] = forget]

\* The plays that a mark takes from the history; the others stay for the sake of their op ids.
Taken(mark, videos) == {p \in InHistory : p.at <= mark /\ p.op.video \in videos}

Clear(o) ==
  LET mark == Sooner(o.at, now)
  IN /\ o.kind = "clear" /\ Fresh(o)
     /\ \/ mark <= forgets[All].events /\ Finish(o, request.counters) /\ UNCHANGED tables
        \/ /\ mark > forgets[All].events
           /\ forgets' = WritePlayForget(All, [forgets[All] EXCEPT !.events = mark])
           /\ plays' = plays \ Taken(mark, Videos)
           /\ journal' = Journaled(o)
           /\ Finish(o, Deleted(request.counters, Cardinality(Taken(mark, Videos))))
           /\ UNCHANGED stats
     /\ UNCHANGED <<clock, job, ghosts>>

\* raiseForget
Raised(forget, mark, reset) ==
  [events |-> Later(forget.events, mark), total |-> IF reset THEN Later(forget.total, mark) ELSE forget.total]

Forget(o) ==
  LET mark == Sooner(o.at, now)
      next == Raised(forgets[o.video], mark, o.reset)
      gone == IF next.events > forgets[o.video].events THEN Taken(mark, {o.video}) ELSE {}
      reset == next.total > forgets[o.video].total
  IN /\ o.kind = "forget" /\ Fresh(o)
     /\ forgets' = WritePlayForget(o.video, next)
     /\ plays' = plays \ gone
     /\ stats' = [stats EXCEPT ![o.video].total = IF reset /\ @ # None THEN 0 ELSE @]
     /\ journal' = IF next = forgets[o.video] THEN journal ELSE Journaled(o)
     /\ credit' = [credit EXCEPT ![o.video] = IF reset THEN {} ELSE @]
     /\ Finish(o, Deleted(request.counters, Cardinality(gone)))
     /\ UNCHANGED <<clock, job, counted>>

-----------------------------------------------------------------------------
(* The retention job: each batch is a transaction of its own.  A batch that *)
(* was not full is the last of its step.                                    *)

\* Variant: the journal is kept as long as the rows without history.
CutoffsAlike(started) == [idem |-> started - Idempotency, ops |-> started - Idempotency, history |-> started - History]
Cutoffs(started) == [idem |-> started - Idempotency, ops |-> started - Journal, history |-> started - History]

RunStarts ==
  /\ job.phase = "idle"
  /\ job' = [NoRun EXCEPT !.phase = "idem", !.started = now]
  /\ UNCHANGED <<clock, tables, request, ghosts>>

\* Up to Batch rows, in no order.
BatchOf(rows) == {b \in SUBSET rows : Cardinality(b) = Sooner(Batch, Cardinality(rows))}
After(b, phase) == job' = IF Cardinality(b) < Batch THEN [job EXCEPT !.phase = phase] ELSE job

DeleteIdempotencyRows ==
  /\ job.phase = "idem"
  /\ \E b \in BatchOf({p \in plays : ~p.in /\ p.received <= Cutoffs(job.started).idem}) :
       plays' = plays \ b /\ After(b, "ops")
  /\ UNCHANGED <<clock, stats, forgets, journal, request, ghosts>>

DeleteOldSyncOps ==
  /\ job.phase = "ops"
  /\ \E b \in BatchOf({j \in journal : j.at <= Cutoffs(job.started).ops}) :
       journal' = journal \ b /\ After(b, "page")
  /\ UNCHANGED <<clock, plays, stats, forgets, request, ghosts>>

Expired == {p \in InHistory : p.at <= Cutoffs(job.started).history}
Excess == Later(Cardinality(InHistory) - limit, 0)

\* readUserPage: one look decides for both of the steps that follow.
ReadUserPage ==
  /\ job.phase = "page"
  /\ job' = [job EXCEPT !.phase = IF Expired # {} THEN "expired" ELSE IF Excess > 0 THEN "excess" ELSE "done",
                        !.excess = Excess > 0]
  /\ UNCHANGED <<clock, tables, request, ghosts>>

DeleteExpiredHistory ==
  /\ job.phase = "expired"
  /\ \E b \in BatchOf(Expired) : plays' = plays \ b /\ After(b, IF job.excess THEN "excess" ELSE "done")
  /\ UNCHANGED <<clock, stats, forgets, journal, request, ghosts>>

DeleteExcessHistory ==
  /\ job.phase = "excess"
  /\ \E b \in Oldest(InHistory, Sooner(Excess, Batch)) : plays' = plays \ b /\ After(b, "done")
  /\ UNCHANGED <<clock, stats, forgets, journal, request, ghosts>>

\* A whole run, or one that the shutdown stopped.
RunEnds ==
  /\ job.phase # "idle"
  /\ job' = NoRun
  /\ UNCHANGED <<clock, tables, request, ghosts>>

JobStep ==
  \/ RunStarts \/ DeleteIdempotencyRows \/ DeleteOldSyncOps \/ ReadUserPage
  \/ DeleteExpiredHistory \/ DeleteExcessHistory \/ RunEnds

\* The server is started again with a lower limit.
Lower ==
  /\ limit > 1 /\ limit' = limit - 1
  /\ ~request.open /\ job' = NoRun
  /\ UNCHANGED <<ops, now, tables, request, ghosts>>

\* A request takes an instant, a run as long as it takes.
Tick ==
  /\ ~request.open /\ now < MaxTime
  /\ now' = now + 1
  /\ UNCHANGED <<ops, limit, tables, request, job, ghosts>>

Apply(o) == Add(o) \/ Baseline(o) \/ Clear(o) \/ Forget(o)
Next == StartRequest \/ EndRequest \/ (\E o \in ops : Apply(o)) \/ JobStep \/ Lower \/ Tick

Spec == Init /\ [][Next]_vars

-----------------------------------------------------------------------------
(* Properties. *)

\* What was cleared or forgotten is not in the history, in whichever order plays and marks arrive and however often
\* they are repeated (planPlayAdd, deleteHistoryEvents).
ForgottenStays ==
  \A p \in InHistory : p.at > Later(forgets[All].events, forgets[p.op.video].events)

\* A total has nothing in it from before its last reset, be it a late play or a baseline taken before (total_before).
ResetHolds == \A v \in Videos : \A t \in credit[v] : t > forgets[v].total

\* A user has no more plays than the two caps allow, although a request counts once and the job deletes meanwhile.
Capped == Cardinality(InHistory) <= MaxHistory /\ Cardinality(plays) <= MaxPlays

\* A whole run leaves no play older than the history and no more than the limit, whatever arrived while it ran.
NothingOld == job.phase = "done" => Expired = {} /\ Excess = 0

\* A baseline that is repeated changes no total again before the journal may have dropped it (sync_ops, retention).
BaselinesOnce ==
  [][\A o \in Ops : o.kind = "baseline" /\ counted[o] # None /\ counted'[o] # counted[o]
                      => now >= counted[o] + Journal]_vars

\* DESIGN.md: an answer that was lost and a request that is repeated are applied exactly once.
PlaysCountOnce ==
  [][\A o \in Ops : o.kind = "add" /\ counted[o] # None
                      => counted'[o] = counted[o] \/ now >= counted[o] + Idempotency]_vars
=============================================================================
