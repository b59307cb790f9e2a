---------------------------- MODULE HistoryProofs ----------------------------
(***************************************************************************)
(* Proofs about History for any ops, limits and retentions.  What was      *)
(* cleared or forgotten stays so, and a total holds its reset (Marked).    *)
(* The caps hold although a request counts once, a run of the job leaves   *)
(* nothing old although plays arrive, and a repeated baseline counts once  *)
(* although the job deletes what it is known by (Kept).                    *)
(***************************************************************************)
EXTENDS History, FiniteSetTheorems, TLAPS

(***************************************************************************)
(* The invariant needs little of the types: times are numbers, and a play  *)
(* is of a video.                                                          *)
(***************************************************************************)

Marks == [events : Int, total : Int]

Times ==
  /\ now \in Nat
  /\ ops \in Pools
  /\ \A p \in plays : p.at \in Nat /\ p.op \in Ops /\ p.op.kind = "add"
  /\ forgets \in [Videos \cup {All} -> Marks]
  /\ \A v \in Videos : forgets[v].total >= None

\* credit is a history variable: what it holds are times of plays and baselines.
Credits == credit \in [Videos -> SUBSET Nat]

Marked == Times /\ Credits /\ ForgottenStays /\ ResetHolds

\* A request and its counters are records, whatever was read.
Shaped ==
  request = [open |-> request.open, known |-> request.known, done |-> request.done,
             counters |-> [plays |-> request.counters.plays, history |-> request.counters.history,
                           hour |-> request.counters.hour, stats |-> request.counters.stats]]

\* A counter that was read is no less than what it counts: the job deletes without telling it.
Bounds(n, k) == n = Unread \/ (n \in Nat /\ k <= n)
Counts ==
  /\ IsFiniteSet(plays) /\ limit \in 1 .. MaxHistory
  /\ Bounds(request.counters.history, Cardinality(InHistory))
  /\ Bounds(request.counters.plays, Cardinality(plays))

\* What a run has found and deleted stays done: late plays enter neither the rows before its cutoff nor those beyond the limit.
Swept ==
  /\ job \in [phase : {"idle", "idem", "ops", "page", "expired", "excess", "done"}, started : Nat, excess : BOOLEAN]
  /\ job.started <= now
  /\ job.phase \in {"excess", "done"} => Expired = {}
  /\ job.phase = "done" \/ (job.phase = "expired" /\ ~job.excess) => Cardinality(InHistory) <= limit

\* A baseline that counted is in the journal while the journal must keep it, and a request that is open knows it.
Remembered ==
  /\ counted \in [Ops -> Int]
  /\ \A o \in Ops : o.kind = "baseline" /\ counted[o] # None /\ now < counted[o] + Journal =>
       /\ [op |-> o, at |-> counted[o]] \in journal
       /\ request.open => o \in request.known \cup request.done

Kept == Shaped /\ Counts /\ Capped /\ Swept /\ Remembered

IInv == Marked /\ Kept

\* The mark of an op is a time, of its device or of the server.
LEMMA EffectiveTime ==
  ASSUME NEW o \in Ops, now \in Nat
  PROVE  Sooner(o.at, now) \in Nat
BY HistoryAssumption DEF Sooner, Ops

\* A mark is raised or stays.
LEMMA RaisedMarks ==
  ASSUME NEW forget, forget.events \in Int, forget.total \in Int, NEW mark \in Nat, NEW reset
  PROVE  /\ Raised(forget, mark, reset) \in Marks
         /\ Raised(forget, mark, reset).events >= forget.events
         /\ Raised(forget, mark, reset).events \in {forget.events, mark}
         /\ Raised(forget, mark, reset).total >= forget.total
<1>. DEFINE events == Later(forget.events, mark)
            total == IF reset THEN Later(forget.total, mark) ELSE forget.total
<1>1. events \in Int /\ events >= forget.events /\ events \in {forget.events, mark}
  BY DEF Later
<1>2. total \in Int /\ total >= forget.total
  BY DEF Later
<1>3. Raised(forget, mark, reset) = [events |-> events, total |-> total]
  BY DEF Raised
<1>. HIDE DEF events, total
<1>. QED
  BY <1>1, <1>2, <1>3 DEF Marks

LEMMA MarkedInit == Init => Marked
<1>. SUFFICES ASSUME Init PROVE Marked
  OBVIOUS
<1>. QED
  BY HistoryAssumption DEF Init, Marked, Times, Credits, ForgottenStays, ResetHolds, InHistory, Marks, None

\* A step that only takes plays away leaves the marks and the totals as they are.
LEMMA FewerPlays ==
  ASSUME Marked, plays' \subseteq plays, UNCHANGED <<forgets, credit, ops>>, now' \in Nat
  PROVE  Marked'
BY DEF Marked, Times, Credits, ForgottenStays, ResetHolds, InHistory, Later, Marks

-----------------------------------------------------------------------------
(* play.add *)

\* What is planned into the history lies after both marks, what counts after the reset.
LEMMA PlanAfterMarks ==
  ASSUME NEW o, NEW eff, PlanPlayAdd(o, eff).in
  PROVE  eff > Later(forgets[All].events, forgets[o.video].events)
BY DEF PlanPlayAdd

LEMMA AddStep == 
  ASSUME Marked, NEW o \in ops, Add(o)
  PROVE  Marked'
<1>. DEFINE eff == Sooner(o.at, now)
            plan == PlanPlayAdd(o, eff)
            new == PlayRow(o, eff, plan.in)
<1>1. /\ o \in Ops /\ o.kind = "add" /\ o.video \in Videos
      /\ eff \in Nat /\ now \in Nat
  BY EffectiveTime, HistoryAssumption DEF Marked, Times, Ops, Add
<1>2. UNCHANGED <<ops, now, forgets>>
  BY DEF Add, clock, Deferred, tables
<1>3. CASE UNCHANGED <<plays, credit>>
  BY <1>1, <1>2, <1>3, FewerPlays
<1>4. CASE \E c, room : InsertPlay(o, eff, plan, c, room)
  <2>1. PICK c, room : InsertPlay(o, eff, plan, c, room)
    BY <1>4
  <2>2. /\ plays' \subseteq plays \cup {new}
        /\ credit' = [credit EXCEPT ![o.video] = IF plan.counts THEN @ \cup {eff} ELSE @]
    BY <2>1 DEF InsertPlay
  <2>3. new.at = eff /\ new.op = o /\ new.in = plan.in
    BY DEF PlayRow
  <2>4. Times'
    BY <1>1, <1>2, <2>2, <2>3 DEF Marked, Times
  <2>5. Credits'
    BY <1>1, <2>2 DEF Marked, Credits
  <2>6. ForgottenStays'
    <3>. SUFFICES ASSUME NEW p \in plays', p.in
                  PROVE  p.at > Later(forgets[All].events, forgets[p.op.video].events)
      BY <1>2 DEF ForgottenStays, InHistory, Later
    <3>1. CASE p \in plays
      BY <3>1 DEF Marked, ForgottenStays, InHistory
    <3>2. CASE p = new
      BY <2>3, <3>2, PlanAfterMarks
    <3>. QED
      BY <2>2, <3>1, <3>2
  <2>7. ResetHolds'
    <3>. SUFFICES ASSUME NEW v \in Videos, NEW t \in credit'[v] PROVE t > forgets[v].total
      BY <1>2 DEF ResetHolds
    <3>1. CASE t \in credit[v]
      BY <3>1 DEF Marked, ResetHolds
    <3>2. CASE t \notin credit[v]
      <4>1. v = o.video /\ plan.counts /\ t = eff
        BY <1>1, <2>2, <3>2 DEF Marked, Credits
      <4>. QED
        BY <4>1 DEF PlanPlayAdd
    <3>. QED
      BY <3>1, <3>2
  <2>. QED
    BY <2>4, <2>5, <2>6, <2>7 DEF Marked
<1>. QED
  BY <1>3, <1>4 DEF Add, Deferred, tables, ghosts

-----------------------------------------------------------------------------
(* play.baseline *)

LEMMA BaselineStep ==
  ASSUME Marked, NEW o \in ops, Baseline(o)
  PROVE  Marked'
<1>. DEFINE eff == Sooner(o.at, now)
<1>1. o \in Ops /\ eff \in Nat /\ now \in Nat
  BY EffectiveTime DEF Marked, Times, Ops
<1>2. UNCHANGED <<ops, now, plays, forgets>>
  BY DEF Baseline, clock
<1>3. PICK changed :
        /\ changed \subseteq Planned(o, eff)
        /\ credit' = [v \in Videos |-> IF v \in changed THEN credit[v] \cup {eff} ELSE credit[v]]
  <2>1. PICK room : \E new \in Created(o, eff, room) :
          credit' = [v \in Videos |-> IF v \in (Planned(o, eff) \cap HasStat) \cup new
                                        THEN credit[v] \cup {eff} ELSE credit[v]]
    BY DEF Baseline
  <2>2. \A new \in Created(o, eff, room) : new \subseteq Planned(o, eff)
    BY DEF Created
  <2>. QED
    BY <2>1, <2>2
<1>4. Times' /\ ForgottenStays'
  BY <1>2 DEF Marked, Times, ForgottenStays, InHistory, Later
<1>5. Credits'
  BY <1>1, <1>3 DEF Marked, Credits
<1>6. ResetHolds'
  <2>. SUFFICES ASSUME NEW v \in Videos, NEW t \in credit'[v] PROVE t > forgets[v].total
    BY <1>2 DEF ResetHolds
  <2>1. CASE t \in credit[v]
    BY <2>1 DEF Marked, ResetHolds
  <2>2. CASE t \notin credit[v]
    <3>1. v \in Planned(o, eff) /\ t = eff
      BY <1>3, <2>2
    <3>2. ~BaselineSkips(v, eff)
      BY <3>1 DEF Planned
    <3>3. forgets[v].total \in Int
      BY DEF Marked, Times, Marks
    <3>. QED
      BY <1>1, <3>1, <3>2, <3>3 DEF BaselineSkips, None
  <2>. QED
    BY <2>1, <2>2
<1>. QED
  BY <1>4, <1>5, <1>6 DEF Marked

-----------------------------------------------------------------------------
(* history.clear and history.forget *)

LEMMA ClearStep ==
  ASSUME Marked, NEW o \in ops, Clear(o)
  PROVE  Marked'
<1>. DEFINE mark == Sooner(o.at, now)
<1>1. o \in Ops /\ mark \in Nat /\ now \in Nat
  BY EffectiveTime DEF Marked, Times, Ops
<1>2. UNCHANGED <<ops, now, credit>>
  BY DEF Clear, clock, ghosts
<1>3. CASE UNCHANGED tables
  BY <1>1, <1>2, <1>3, FewerPlays DEF tables
<1>4. CASE /\ mark > forgets[All].events
           /\ forgets' = WritePlayForget(All, [forgets[All] EXCEPT !.events = mark])
           /\ plays' = plays \ Taken(mark, Videos)
  <2>1. forgets \in [Videos \cup {All} -> Marks] /\ forgets[All] \in Marks
    BY DEF Marked, Times
  <2>2. [forgets[All] EXCEPT !.events = mark] \in Marks
    BY <1>1, <2>1 DEF Marks
  <2>3. /\ forgets' \in [Videos \cup {All} -> Marks]
        /\ forgets'[All].events = mark
        /\ \A v \in Videos : forgets'[v] = forgets[v]
    BY <1>4, <2>1, <2>2, HistoryAssumption DEF WritePlayForget, Marks
  <2>4. Times' /\ Credits' /\ ResetHolds'
    BY <1>2, <1>4, <2>3 DEF Marked, Times, Credits, ResetHolds
  <2>5. ForgottenStays'
    <3>. SUFFICES ASSUME NEW p \in plays', p.in
                  PROVE  p.at > Later(forgets'[All].events, forgets'[p.op.video].events)
      BY DEF ForgottenStays, InHistory, Later
    <3>1. p \in plays /\ p \notin Taken(mark, Videos)
      BY <1>4
    <3>2. p.at \in Nat /\ p.op.video \in Videos
      BY <3>1, HistoryAssumption DEF Marked, Times, Ops
    <3>3. p.at > mark
      BY <1>1, <3>1, <3>2 DEF Taken, InHistory
    <3>4. forgets[All].events \in Int /\ forgets[p.op.video].events \in Int
      BY <2>1, <3>2 DEF Marks
    <3>5. p.at > Later(forgets[All].events, forgets[p.op.video].events)
      BY <3>1 DEF Marked, ForgottenStays, InHistory
    <3>6. p.at > forgets[p.op.video].events
      BY <3>2, <3>4, <3>5 DEF Later
    <3>7. forgets'[All].events = mark /\ forgets'[p.op.video].events = forgets[p.op.video].events
      BY <2>3, <3>2
    <3>. QED
      BY <3>3, <3>6, <3>7 DEF Later
  <2>. QED
    BY <2>4, <2>5 DEF Marked
<1>. QED
  BY <1>3, <1>4 DEF Clear

LEMMA ForgetStep ==
  ASSUME Marked, NEW o \in ops, Forget(o)
  PROVE  Marked'
<1>. DEFINE mark == Sooner(o.at, now)
            v == o.video
            next == Raised(forgets[v], mark, o.reset)
            reset == next.total > forgets[v].total
<1>1. o \in Ops /\ o.kind = "forget" /\ v \in Videos /\ mark \in Nat /\ now \in Nat
  BY EffectiveTime, HistoryAssumption DEF Marked, Times, Ops, Forget
<1>2. UNCHANGED <<ops, now>>
  BY DEF Forget, clock
<1>3. /\ forgets' = WritePlayForget(v, next)
      /\ plays' = plays \ IF next.events > forgets[v].events THEN Taken(mark, {v}) ELSE {}
      /\ credit' = [credit EXCEPT ![v] = IF reset THEN {} ELSE @]
  BY DEF Forget
<1>4. forgets \in [Videos \cup {All} -> Marks] /\ \A k \in Videos \cup {All} : forgets[k] \in Marks
  BY DEF Marked, Times
<1>5. forgets[v].events \in Int /\ forgets[v].total \in Int
  BY <1>1, <1>4 DEF Marks
<1>6. /\ next \in Marks
      /\ next.events >= forgets[v].events /\ next.events \in {forgets[v].events, mark}
      /\ next.total >= forgets[v].total
  BY <1>1, <1>5, RaisedMarks
<1>7. /\ forgets' \in [Videos \cup {All} -> Marks]
      /\ forgets'[v] = next
      /\ \A k \in (Videos \cup {All}) \ {v} : forgets'[k] = forgets[k]
  <2>. HIDE DEF next
  <2>. QED
    BY <1>1, <1>3, <1>4, <1>6 DEF WritePlayForget
<1>8. Times'
  <2>1. \A k \in Videos : forgets'[k].total >= None
    <3>. SUFFICES ASSUME NEW k \in Videos PROVE forgets'[k].total >= None
      OBVIOUS
    <3>1. CASE k = v
      <4>1. next.total \in Int /\ forgets[v].total >= None
        BY <1>1, <1>6 DEF Marked, Times, Marks
      <4>. QED
        BY <1>5, <1>6, <1>7, <3>1, <4>1 DEF None
    <3>2. CASE k # v
      BY <1>7, <3>2 DEF Marked, Times
    <3>. QED
      BY <3>1, <3>2
  <2>2. plays' \subseteq plays
    BY <1>3
  <2>. QED
    BY <1>2, <1>7, <2>1, <2>2 DEF Marked, Times
<1>9. Credits'
  BY <1>1, <1>3 DEF Marked, Credits
<1>10. ForgottenStays'
  <2>. SUFFICES ASSUME NEW p \in plays', p.in
                PROVE  p.at > Later(forgets'[All].events, forgets'[p.op.video].events)
    BY DEF ForgottenStays, InHistory, Later
  <2>1. p \in plays /\ p.at \in Nat /\ p.op.video \in Videos
    BY <1>3, HistoryAssumption DEF Marked, Times, Ops
  <2>2. p.at > Later(forgets[All].events, forgets[p.op.video].events)
    BY <2>1 DEF Marked, ForgottenStays, InHistory
  <2>3. forgets[All].events \in Int /\ forgets[p.op.video].events \in Int
    BY <1>4, <2>1 DEF Marks
  <2>4. p.at > forgets[All].events /\ p.at > forgets[p.op.video].events
    BY <2>1, <2>2, <2>3 DEF Later
  <2>5. forgets'[All].events = forgets[All].events
    BY <1>1, <1>7, HistoryAssumption
  <2>6. p.at > forgets'[p.op.video].events
    <3>1. CASE p.op.video # v
      BY <1>7, <2>1, <2>4, <3>1
    <3>2. CASE p.op.video = v /\ next.events = forgets[v].events
      BY <1>7, <2>4, <3>2
    <3>3. CASE p.op.video = v /\ next.events # forgets[v].events
      <4>1. next.events = mark /\ next.events > forgets[v].events
        BY <1>1, <1>5, <1>6, <3>3
      <4>2. p \notin Taken(mark, {v})
        BY <1>3, <4>1
      <4>3. p.at > mark
        BY <1>1, <2>1, <3>3, <4>2 DEF Taken, InHistory
      <4>. QED
        BY <1>7, <3>3, <4>1, <4>3
    <3>. QED
      BY <3>1, <3>2, <3>3
  <2>. QED
    BY <2>4, <2>5, <2>6 DEF Later
<1>11. ResetHolds'
  <2>. SUFFICES ASSUME NEW k \in Videos, NEW t \in credit'[k] PROVE t > forgets'[k].total
    BY DEF ResetHolds
  <2>1. CASE k # v
    BY <1>1, <1>3, <1>7, <2>1 DEF Marked, Credits, ResetHolds
  <2>2. CASE k = v /\ reset
    BY <1>1, <1>3, <2>2 DEF Marked, Credits
  <2>3. CASE k = v /\ ~reset
    <3>1. t \in credit[v]
      BY <1>1, <1>3, <2>3 DEF Marked, Credits
    <3>2. next.total = forgets[v].total
      BY <1>5, <1>6, <2>3 DEF Marks
    <3>. QED
      BY <1>1, <1>7, <2>3, <3>1, <3>2 DEF Marked, ResetHolds
  <2>. QED
    BY <2>1, <2>2, <2>3
<1>. QED
  BY <1>8, <1>9, <1>10, <1>11 DEF Marked

-----------------------------------------------------------------------------
(* The retention job only takes plays away, whatever it finds. *)

LEMMA JobKeeps ==
  ASSUME JobStep
  PROVE  plays' \subseteq plays /\ UNCHANGED <<forgets, credit, ops, now>>
<1>1. CASE DeleteIdempotencyRows
  BY <1>1 DEF DeleteIdempotencyRows, clock, ghosts
<1>2. CASE DeleteExpiredHistory
  BY <1>2 DEF DeleteExpiredHistory, clock, ghosts
<1>3. CASE DeleteExcessHistory
  BY <1>3 DEF DeleteExcessHistory, clock, ghosts
<1>4. CASE RunStarts \/ DeleteOldSyncOps \/ ReadUserPage \/ RunEnds
  BY <1>4 DEF RunStarts, DeleteOldSyncOps, ReadUserPage, RunEnds, clock, tables, ghosts
<1>. QED
  BY <1>1, <1>2, <1>3, <1>4 DEF JobStep

LEMMA MarkedStep == Marked /\ [Next]_vars => Marked'
<1>. SUFFICES ASSUME Marked, [Next]_vars PROVE Marked'
  OBVIOUS
<1>n. now \in Nat
  BY DEF Marked, Times
<1>1. CASE StartRequest
  BY <1>1, <1>n, FewerPlays DEF StartRequest, clock, tables, ghosts
<1>2. CASE EndRequest
  BY <1>2, <1>n, FewerPlays DEF EndRequest, clock, tables, ghosts
<1>3. ASSUME NEW o \in ops, Apply(o) PROVE Marked'
  BY <1>3, AddStep, BaselineStep, ClearStep, ForgetStep DEF Apply
<1>4. CASE JobStep
  BY <1>4, <1>n, JobKeeps, FewerPlays
<1>5. CASE Lower
  BY <1>5, <1>n, FewerPlays DEF Lower, tables, ghosts
<1>6. CASE Tick
  BY <1>6, <1>n, FewerPlays DEF Tick, tables, ghosts
<1>7. CASE UNCHANGED vars
  BY <1>7, <1>n, FewerPlays DEF vars
<1>. QED
  BY <1>1, <1>2, <1>3, <1>4, <1>5, <1>6, <1>7 DEF Next

-----------------------------------------------------------------------------
(* Counting. *)

LEMMA Bounded ==
  /\ MaxHistory \in Nat /\ MaxHistory > 0 /\ MaxPlays \in Nat /\ MaxPlays > 0 /\ Batch \in Nat /\ Batch > 0 /\ MaxOps \in Nat
  /\ MaxStats \in Nat /\ PerHour \in Nat /\ Hour \in Nat /\ History \in Nat /\ Idempotency \in Nat /\ Journal \in Nat
BY HistoryAssumption

LEMMA PartIs ==
  ASSUME NEW S, IsFiniteSet(S), NEW T, T \subseteq S
  PROVE  /\ IsFiniteSet(T) /\ IsFiniteSet(S \ T)
         /\ Cardinality(S) \in Nat /\ Cardinality(T) \in Nat /\ Cardinality(T) <= Cardinality(S)
         /\ Cardinality(S \ T) = Cardinality(S) - Cardinality(T)
<1>1. IsFiniteSet(T) /\ Cardinality(T) <= Cardinality(S)
  BY FS_Subset
<1>2. S \cap T = T
  OBVIOUS
<1>3. IsFiniteSet(S \ T) /\ Cardinality(S \ T) = Cardinality(S) - Cardinality(T)
  BY <1>2, FS_Difference
<1>. QED
  BY <1>1, <1>3, FS_CardinalityType

LEMMA SplitIs ==
  ASSUME NEW S, IsFiniteSet(S), NEW T, IsFiniteSet(T), S \cap T = {}
  PROVE  IsFiniteSet(S \cup T) /\ Cardinality(S \cup T) = Cardinality(S) + Cardinality(T)
<1>1. Cardinality(S \cap T) = 0
  BY FS_EmptySet
<1>. QED
  BY <1>1, FS_Union, FS_CardinalityType

LEMMA OldestIs ==
  ASSUME NEW ps, IsFiniteSet(ps), NEW n, NEW vs \in Oldest(ps, n)
  PROVE  vs \subseteq ps /\ Cardinality(vs) = Sooner(n, Cardinality(ps))
BY DEF Oldest

LEMMA EvictionBatchIs ==
  ASSUME NEW cap \in Nat
  PROVE  EvictionBatch(cap) \in Nat
<1>1. cap \div 100 \in Nat
  OBVIOUS
<1>. QED
  BY <1>1, Bounded DEF EvictionBatch, Sooner

\* What is left after the evictions, and that the counters bound it.
LEMMA EvictedIs ==
  ASSUME IsFiniteSet(plays), limit \in Nat, limit > 0, NEW in \in BOOLEAN, NEW cH \in Nat, NEW cP \in Nat,
         Cardinality(InHistory) <= cH, Cardinality(plays) <= cP, NEW e \in Evicted(in, cH, cP)
  PROVE  /\ IsFiniteSet(plays \ e.gone) /\ IsFiniteSet(InHistory \ e.gone)
         /\ Cardinality(InHistory \ e.gone) \in Nat /\ Cardinality(plays \ e.gone) \in Nat
         /\ e.history \in Nat /\ Cardinality(InHistory \ e.gone) <= e.history
         /\ e.plays \in Nat /\ Cardinality(plays \ e.gone) <= e.plays
         /\ Cardinality(plays \ e.gone) < MaxPlays
         /\ in => Cardinality(InHistory \ e.gone) < limit
<1>. DEFINE idles == plays \ InHistory
<1>1. PICK first \in Oldest(InHistory, IF in THEN RoomInHistory(cH) ELSE 0) :
        e \in UNION {{Eviction(first, idle, more, cH, cP) :
                        more \in Oldest(InHistory \ first, RoomInAll(cP - Cardinality(first)) - Cardinality(idle))} :
                     idle \in Oldest(plays \ InHistory, RoomInAll(cP - Cardinality(first)))}
  BY Zenon DEF Evicted
<1>2. PICK idle \in Oldest(idles, RoomInAll(cP - Cardinality(first))) :
        e \in {Eviction(first, idle, more, cH, cP) :
                 more \in Oldest(InHistory \ first, RoomInAll(cP - Cardinality(first)) - Cardinality(idle))}
  BY <1>1, Zenon
<1>3. PICK more \in Oldest(InHistory \ first, RoomInAll(cP - Cardinality(first)) - Cardinality(idle)) :
        e = Eviction(first, idle, more, cH, cP)
  BY <1>2, Zenon
<1>4. InHistory \subseteq plays
  BY DEF InHistory
<1>5. /\ IsFiniteSet(InHistory) /\ IsFiniteSet(idles) /\ Cardinality(InHistory) \in Nat /\ Cardinality(idles) \in Nat
      /\ Cardinality(plays) = Cardinality(InHistory) + Cardinality(idles)
  BY <1>4, PartIs
<1>6. first \subseteq InHistory /\ Cardinality(first) = Sooner(IF in THEN RoomInHistory(cH) ELSE 0, Cardinality(InHistory))
  BY <1>1, <1>5, OldestIs
<1>7. /\ Cardinality(first) \in Nat /\ IsFiniteSet(InHistory \ first) /\ Cardinality(first) <= Cardinality(InHistory)
      /\ Cardinality(InHistory \ first) = Cardinality(InHistory) - Cardinality(first)
  BY <1>5, <1>6, PartIs
<1>8. idle \subseteq idles /\ Cardinality(idle) = Sooner(RoomInAll(cP - Cardinality(first)), Cardinality(idles))
  <2>. HIDE DEF idles
  <2>. QED
    BY <1>2, <1>5, OldestIs
<1>9. /\ Cardinality(idle) \in Nat /\ IsFiniteSet(idles \ idle) /\ Cardinality(idle) <= Cardinality(idles)
      /\ Cardinality(idles \ idle) = Cardinality(idles) - Cardinality(idle)
  <2>. HIDE DEF idles
  <2>. QED
    BY <1>5, <1>8, PartIs
<1>10. /\ more \subseteq InHistory \ first
       /\ Cardinality(more) = Sooner(RoomInAll(cP - Cardinality(first)) - Cardinality(idle), Cardinality(InHistory \ first))
  BY <1>3, <1>7, OldestIs
<1>11. PICK left : left = (InHistory \ first) \ more
  OBVIOUS
<1>12. /\ Cardinality(more) \in Nat /\ IsFiniteSet(left) /\ Cardinality(more) <= Cardinality(InHistory \ first)
       /\ Cardinality(left) = Cardinality(InHistory) - Cardinality(first) - Cardinality(more)
  BY <1>7, <1>10, <1>11, PartIs
<1>13. e.gone = first \cup idle \cup more
  BY <1>3 DEF Eviction
<1>14. InHistory \ e.gone = left /\ plays \ e.gone = (idles \ idle) \cup left /\ (idles \ idle) \cap left = {}
  BY <1>4, <1>6, <1>8, <1>10, <1>11, <1>13
<1>15. /\ IsFiniteSet(plays \ e.gone)
       /\ Cardinality(plays \ e.gone) = Cardinality(idles) - Cardinality(idle) + Cardinality(left)
  <2>1. PICK A : A = idles \ idle
    OBVIOUS
  <2>2. IsFiniteSet(A) /\ A \cap left = {} /\ plays \ e.gone = A \cup left /\ Cardinality(A) = Cardinality(idles) - Cardinality(idle)
    BY <1>9, <1>14, <2>1
  <2>. HIDE DEF idles
  <2>. QED
    <3>1. IsFiniteSet(left)
      BY <1>12
    <3>. QED
      BY <2>2, <3>1, SplitIs
<1>16. /\ e.history = cH - Cardinality(first) - Cardinality(more)
       /\ e.plays = cP - Cardinality(first) - Cardinality(idle) - Cardinality(more)
  BY <1>3 DEF Eviction
<1>17. PICK h \in Nat, i \in Nat, f \in Nat, d \in Nat, m \in Nat :
         /\ h = Cardinality(InHistory) /\ i = Cardinality(idles)
         /\ f = Cardinality(first) /\ d = Cardinality(idle) /\ m = Cardinality(more)
  BY <1>5, <1>7, <1>9, <1>12
<1>18. /\ h <= cH /\ h + i <= cP /\ f <= h /\ d <= i /\ m <= h - f /\ Cardinality(InHistory \ first) = h - f
  BY <1>5, <1>7, <1>9, <1>12, <1>17
<1>19a. f = Sooner(IF in THEN RoomInHistory(cH) ELSE 0, h)
  BY <1>6, <1>17
<1>19b. d = Sooner(RoomInAll(cP - f), i)
  BY <1>8, <1>17
<1>19c. m = Sooner(RoomInAll(cP - f) - d, h - f)
  BY <1>10, <1>17, <1>18
<1>19. /\ in => h - f < limit
       /\ h + i - f - d - m < MaxPlays
  <2>1. EvictionBatch(limit) \in Nat /\ EvictionBatch(MaxPlays) \in Nat
    BY EvictionBatchIs, Bounded
  <2>2. ASSUME in PROVE h - f < limit
    <3>1. CASE cH < limit
      BY <1>18, <3>1
    <3>2. CASE ~(cH < limit)
      <4>1. PICK n \in Int : n = RoomInHistory(cH) /\ n >= cH - limit + 1
        BY <2>1, <3>2 DEF RoomInHistory
      <4>2. f = Sooner(n, h)
        BY <1>19a, <2>2, <4>1
      <4>. QED
        BY <1>18, <4>1, <4>2 DEF Sooner
    <3>. QED
      BY <3>1, <3>2
  <2>3. CASE cP - f < MaxPlays
    BY <1>18, <2>2, <2>3, Bounded
  <2>4. CASE ~(cP - f < MaxPlays)
    <3>1. PICK n \in Nat : n = RoomInAll(cP - f) /\ n >= cP - f - MaxPlays + 1
      BY <1>18, <2>1, <2>4, Bounded DEF RoomInAll
    <3>2. d = Sooner(n, i) /\ m = Sooner(n - d, h - f)
      BY <1>19b, <1>19c, <3>1
    <3>3. h + i - f - d - m < MaxPlays
      BY <1>18, <3>1, <3>2, Bounded DEF Sooner
    <3>. QED
      BY <2>2, <3>3
  <2>. QED
    BY <2>3, <2>4
<1>20. /\ Cardinality(InHistory \ e.gone) = h - f - m /\ Cardinality(plays \ e.gone) = h + i - f - d - m
       /\ e.history = cH - f - m /\ e.plays = cP - f - d - m
  <2>1. Cardinality(InHistory \ e.gone) = h - f - m
    BY <1>12, <1>14, <1>17
  <2>2. Cardinality(plays \ e.gone) = h + i - f - d - m
    BY <1>12, <1>15, <1>17
  <2>. QED
    BY <1>16, <1>17, <2>1, <2>2
<1>21. IsFiniteSet(plays \ e.gone) /\ IsFiniteSet(InHistory \ e.gone)
  BY <1>12, <1>14, <1>15
<1>22. in => h - f - m < limit
  BY <1>18, <1>19
<1>. QED
  BY <1>18, <1>19, <1>20, <1>21, <1>22, Bounded

-----------------------------------------------------------------------------
(* What a step leaves alone. *)

\* A counters record in full.
Whole(c) == c = [plays |-> c.plays, history |-> c.history, hour |-> c.hour, stats |-> c.stats]

LEMMA WholeIs == ASSUME Shaped PROVE Whole(request.counters)
BY DEF Shaped, Whole

LEMMA FinishIs ==
  ASSUME Shaped, NEW o, NEW c, Whole(c), Finish(o, c)
  PROVE  /\ Shaped' /\ request'.counters = c
         /\ request'.done = request.done \cup {o} /\ request'.known = request.known /\ request'.open = request.open
BY DEF Shaped, Whole, Finish

LEMMA InHistoryIs ==
  ASSUME Counts
  PROVE  /\ InHistory \subseteq plays /\ IsFiniteSet(InHistory)
         /\ Cardinality(InHistory) \in Nat /\ Cardinality(plays) \in Nat /\ limit \in Nat /\ limit > 0 /\ limit <= MaxHistory
<1>1. InHistory \subseteq plays
  BY DEF InHistory
<1>2. limit \in Nat /\ limit > 0 /\ limit <= MaxHistory
  BY Bounded DEF Counts
<1>. QED
  BY <1>1, <1>2, PartIs DEF Counts

\* Plays go and no counter is told.
LEMMA FewerCounts ==
  ASSUME Counts, Capped, plays' \subseteq plays, limit' \in 1 .. MaxHistory,
         request'.counters = request.counters \/ request'.counters = Counters
  PROVE  Counts' /\ Capped' /\ InHistory' \subseteq InHistory /\ Cardinality(InHistory') <= Cardinality(InHistory)
<1>1. InHistory' \subseteq InHistory
  BY DEF InHistory
<1>2. /\ IsFiniteSet(plays') /\ Cardinality(plays') \in Nat /\ Cardinality(plays') <= Cardinality(plays)
      /\ Cardinality(InHistory') \in Nat /\ Cardinality(InHistory') <= Cardinality(InHistory)
      /\ Cardinality(InHistory) \in Nat /\ Cardinality(plays) \in Nat
  BY <1>1, InHistoryIs, PartIs DEF Counts
<1>3. Capped'
  BY <1>2, Bounded DEF Capped
<1>4. Bounds(request'.counters.history, Cardinality(InHistory'))
  BY <1>2 DEF Counts, Bounds, Counters
<1>5. Bounds(request'.counters.plays, Cardinality(plays'))
  BY <1>2 DEF Counts, Bounds, Counters
<1>. QED
  BY <1>1, <1>2, <1>3, <1>4, <1>5 DEF Counts

\* A clear or a forget tells them.
LEMMA DeletedKeeps ==
  ASSUME Shaped, Counts, Capped, NEW T, T \subseteq InHistory, plays' = plays \ T, UNCHANGED limit,
         request'.counters = Deleted(request.counters, Cardinality(T))
  PROVE  Counts' /\ Capped' /\ InHistory' \subseteq InHistory /\ Cardinality(InHistory') <= Cardinality(InHistory)
<1>1. InHistory' = InHistory \ T
  BY DEF InHistory
<1>2. InHistory \subseteq plays /\ IsFiniteSet(InHistory) /\ IsFiniteSet(plays) /\ T \subseteq plays
  BY InHistoryIs DEF Counts
<1>3. /\ IsFiniteSet(plays') /\ Cardinality(T) \in Nat /\ Cardinality(plays') = Cardinality(plays) - Cardinality(T)
      /\ Cardinality(plays) \in Nat /\ Cardinality(T) <= Cardinality(plays)
  BY <1>2, PartIs
<1>4. /\ Cardinality(InHistory') = Cardinality(InHistory) - Cardinality(T)
      /\ Cardinality(InHistory) \in Nat /\ Cardinality(T) <= Cardinality(InHistory)
  BY <1>1, <1>2, PartIs
<1>5. Capped'
  BY <1>3, <1>4, Bounded DEF Capped
<1>6. PICK k : k = Cardinality(T)
  OBVIOUS
<1>7. /\ request'.counters.plays = Added(request.counters.plays, -k)
      /\ request'.counters.history = Added(request.counters.history, -k)
  BY <1>6, WholeIs DEF Deleted, Whole
<1>8. Bounds(request'.counters.history, Cardinality(InHistory'))
  BY <1>3, <1>4, <1>6, <1>7 DEF Counts, Bounds, Added
<1>9. Bounds(request'.counters.plays, Cardinality(plays'))
  BY <1>3, <1>6, <1>7 DEF Counts, Bounds, Added
<1>. QED
  BY <1>1, <1>3, <1>4, <1>5, <1>8, <1>9 DEF Counts

\* A run finds nothing anew among plays that are younger than its cutoff.
LEMMA SweptKept ==
  ASSUME Times, Swept, UNCHANGED job, now' \in Nat, now <= now',
         \A p \in InHistory' : p \in InHistory \/ (p.at \in Nat /\ p.at > now - History),
         Cardinality(InHistory) <= limit => Cardinality(InHistory') <= limit'
  PROVE  Swept'
<1>1. now \in Nat /\ job.started \in Nat /\ job.started <= now
  BY DEF Times, Swept
<1>2. job.phase \in {"excess", "done"} => Expired' = {}
  <2>. SUFFICES ASSUME job.phase \in {"excess", "done"}, NEW p \in InHistory', p.at <= job.started - History
                PROVE  FALSE
    BY DEF Expired, Cutoffs
  <2>1. CASE p \in InHistory
    BY <2>1 DEF Swept, Expired, Cutoffs
  <2>2. CASE p.at \in Nat /\ p.at > now - History
    BY <1>1, <2>2, Bounded
  <2>. QED
    BY <2>1, <2>2
<1>. QED
  BY <1>1, <1>2 DEF Swept

\* No baseline counts.
LEMMA RememberedKept ==
  ASSUME Remembered, \A o \in Ops : o.kind = "baseline" => counted'[o] = counted[o], counted' \in [Ops -> Int],
         journal \subseteq journal', UNCHANGED now, request'.open => request.open,
         request.known \cup request.done \subseteq request'.known \cup request'.done
  PROVE  Remembered'
BY DEF Remembered

-----------------------------------------------------------------------------
(* Requests begin and end, time passes, the limit is lowered. *)

LEMMA StartRequestKeeps ==
  ASSUME Marked, Kept, StartRequest
  PROVE  Kept'
<1>1. /\ UNCHANGED <<ops, now, limit, plays, stats, forgets, journal, job, counted, credit>>
      /\ request' = [NoRequest EXCEPT !.open = TRUE, !.known = {p.op : p \in plays} \cup {j.op : j \in journal}]
  BY DEF StartRequest, clock, tables, ghosts
<1>2. PICK known : known = {p.op : p \in plays} \cup {j.op : j \in journal}
  OBVIOUS
<1>3. request' = [open |-> TRUE, known |-> known, done |-> {}, counters |-> Counters]
  BY <1>1, <1>2 DEF NoRequest
<1>4. Shaped'
  BY <1>3 DEF Shaped, Counters
<1>5. Counts' /\ Capped' /\ InHistory' \subseteq InHistory /\ Cardinality(InHistory') <= Cardinality(InHistory)
  <2>1. request'.counters = Counters
    BY <1>3
  <2>2. Counts /\ Capped /\ limit \in 1 .. MaxHistory
    BY DEF Kept, Counts
  <2>. QED
    BY <1>1, <2>1, <2>2, FewerCounts
<1>6. Swept'
  <2>1. InHistory' = InHistory
    BY <1>1 DEF InHistory
  <2>. QED
    BY <1>1, <2>1 DEF Kept, Swept, Expired
<1>7. Remembered'
  <2>1. \A o \in Ops : \A at : [op |-> o, at |-> at] \in journal => o \in known
    BY <1>2
  <2>. QED
    <3>1. request'.known \cup request'.done = known
      BY <1>3
    <3>2. Remembered
      BY DEF Kept
    <3>3. \A o \in Ops : [op |-> o, at |-> counted[o]] \in journal => o \in request'.known \cup request'.done
      BY <2>1, <3>1
    <3>4. UNCHANGED <<now, journal, counted>>
      BY <1>1
    <3>. QED
      BY <3>2, <3>3, <3>4 DEF Remembered
<1>. QED
  BY <1>4, <1>5, <1>6, <1>7 DEF Kept

LEMMA EndRequestKeeps ==
  ASSUME Marked, Kept, EndRequest
  PROVE  Kept'
<1>1. /\ UNCHANGED <<ops, now, limit, plays, stats, forgets, journal, job, counted, credit>>
      /\ request' = [open |-> FALSE, known |-> {}, done |-> {}, counters |-> Counters]
  BY DEF EndRequest, clock, tables, ghosts, NoRequest
<1>2. Shaped'
  BY <1>1 DEF Shaped, Counters
<1>3. Counts' /\ Capped'
  BY <1>1, FewerCounts DEF Kept, Counts
<1>4. InHistory' = InHistory
  BY <1>1 DEF InHistory
<1>5. Swept'
  BY <1>1, <1>4 DEF Kept, Swept, Expired
<1>6. Remembered'
  BY <1>1 DEF Kept, Remembered
<1>. QED
  BY <1>2, <1>3, <1>5, <1>6 DEF Kept

LEMMA TickKeeps ==
  ASSUME Marked, Kept, Tick
  PROVE  Kept'
<1>1. UNCHANGED <<ops, limit, plays, stats, forgets, journal, request, job, counted, credit>> /\ ~request.open /\ now' = now + 1
  BY DEF Tick, tables, ghosts
<1>2. now \in Nat /\ job.started \in Nat
  BY DEF Marked, Times, Kept, Swept
<1>3. InHistory' = InHistory
  BY <1>1 DEF InHistory
<1>4. Shaped' /\ Counts' /\ Capped'
  BY <1>1, <1>3 DEF Kept, Shaped, Counts, Capped
<1>5. Swept'
  BY <1>1, <1>2, <1>3 DEF Kept, Swept, Expired
<1>6. Remembered'
  <2>1. \A o \in Ops : counted[o] \in Int
    BY DEF Kept, Remembered
  <2>. QED
    BY <1>1, <1>2, <2>1, Bounded DEF Kept, Remembered
<1>. QED
  BY <1>4, <1>5, <1>6 DEF Kept

LEMMA LowerKeeps ==
  ASSUME Marked, Kept, Lower
  PROVE  Kept'
<1>1. /\ UNCHANGED <<ops, now, plays, stats, forgets, journal, request, counted, credit>>
      /\ limit > 1 /\ limit' = limit - 1 /\ job' = [phase |-> "idle", started |-> 0, excess |-> FALSE]
  BY DEF Lower, tables, ghosts, NoRun
<1>2. limit \in 1 .. MaxHistory /\ now \in Nat
  BY DEF Marked, Times, Kept, Counts
<1>3. InHistory' = InHistory /\ limit' \in 1 .. MaxHistory
  BY <1>1, <1>2, Bounded DEF InHistory
<1>4. Shaped' /\ Counts' /\ Capped'
  BY <1>1, <1>3 DEF Kept, Shaped, Counts, Capped
<1>5. Swept'
  BY <1>1, <1>2 DEF Swept
<1>6. Remembered'
  BY <1>1 DEF Kept, Remembered
<1>. QED
  BY <1>4, <1>5, <1>6 DEF Kept

-----------------------------------------------------------------------------
(* The job. *)

LEMMA JobStepKeeps ==
  ASSUME Marked, Kept, JobStep
  PROVE  Kept'
<1>1. plays' \subseteq plays /\ UNCHANGED <<ops, now, forgets, credit>>
  BY JobKeeps
<1>2. UNCHANGED <<limit, request, counted>>
  BY DEF JobStep, RunStarts, DeleteIdempotencyRows, DeleteOldSyncOps, ReadUserPage, DeleteExpiredHistory,
    DeleteExcessHistory, RunEnds, clock, tables, ghosts
<1>3. Shaped'
  BY <1>2 DEF Kept, Shaped
<1>4. Counts' /\ Capped' /\ InHistory' \subseteq InHistory /\ Cardinality(InHistory') <= Cardinality(InHistory)
  BY <1>1, <1>2, FewerCounts DEF Kept, Counts
<1>5. /\ now \in Nat /\ job \in [phase : {"idle", "idem", "ops", "page", "expired", "excess", "done"}, started : Nat, excess : BOOLEAN]
      /\ job.started <= now /\ Batch \in Nat /\ Batch > 0
      /\ Cardinality(InHistory) \in Nat /\ Cardinality(InHistory') \in Nat /\ limit \in Nat
  <2>1. IsFiniteSet(InHistory) /\ Cardinality(InHistory) \in Nat /\ limit \in Nat
    BY InHistoryIs DEF Kept
  <2>2. Cardinality(InHistory') \in Nat
    BY <1>4, <2>1, PartIs
  <2>. QED
    BY <2>1, <2>2, Bounded DEF Marked, Times, Kept, Swept
<1>6. Remembered'
  <2>1. CASE DeleteOldSyncOps
    <3>1. PICK b : b \subseteq {j \in journal : j.at <= job.started - Journal} /\ journal' = journal \ b
      BY <2>1 DEF DeleteOldSyncOps, BatchOf, Cutoffs
    <3>2. ASSUME NEW o \in Ops, now < counted[o] + Journal, counted[o] \in Int
          PROVE  [op |-> o, at |-> counted[o]] \notin b
      BY <1>5, <3>1, <3>2, Bounded
    <3>. QED
      BY <1>1, <1>2, <3>1, <3>2 DEF Kept, Remembered
  <2>2. CASE UNCHANGED journal
    BY <1>1, <1>2, <2>2, RememberedKept DEF Kept, Remembered
  <2>. QED
    BY <2>1, <2>2 DEF JobStep, RunStarts, DeleteIdempotencyRows, ReadUserPage, DeleteExpiredHistory,
      DeleteExcessHistory, RunEnds, clock, tables, ghosts
<1>7. Swept'
  <2>1. ASSUME job' = job
        PROVE  Swept'
    <3>1. now' \in Nat /\ now <= now' /\ Times /\ Swept
      BY <1>1, <1>5 DEF Marked, Kept
    <3>2. \A p \in InHistory' : p \in InHistory \/ (p.at \in Nat /\ p.at > now - History)
      BY <1>4
    <3>3. Cardinality(InHistory) <= limit => Cardinality(InHistory') <= limit'
      BY <1>2, <1>4, <1>5
    <3>. QED
      BY <2>1, <3>1, <3>2, <3>3, SweptKept
  <2>2. CASE RunStarts
    <3>1. job' = [phase |-> "idem", started |-> now, excess |-> FALSE]
      BY <2>2 DEF RunStarts, NoRun
    <3>. QED
      BY <1>1, <1>5, <3>1 DEF Swept
  <2>3. CASE DeleteIdempotencyRows \/ DeleteOldSyncOps
    <3>1. job' = job \/ job' = [job EXCEPT !.phase = "ops"] \/ job' = [job EXCEPT !.phase = "page"]
      BY <2>3 DEF DeleteIdempotencyRows, DeleteOldSyncOps, After
    <3>. QED
      BY <1>1, <1>5, <2>1, <3>1 DEF Swept
  <2>4. CASE ReadUserPage
    <3>1. /\ job' = [job EXCEPT !.phase = IF Expired # {} THEN "expired" ELSE IF Excess > 0 THEN "excess" ELSE "done",
                                !.excess = Excess > 0]
          /\ UNCHANGED plays
      BY <2>4 DEF ReadUserPage, tables
    <3>2. InHistory' = InHistory
      BY <3>1 DEF InHistory
    <3>3. PICK phase : phase = IF Expired # {} THEN "expired" ELSE IF Excess > 0 THEN "excess" ELSE "done"
      OBVIOUS
    <3>4. PICK excess : excess = (Excess > 0)
      OBVIOUS
    <3>5. job' = [job EXCEPT !.phase = phase, !.excess = excess]
      BY <3>1, <3>3, <3>4
    <3>6. excess \in BOOLEAN
      BY <3>4
    <3>7. job' \in [phase : {"idle", "idem", "ops", "page", "expired", "excess", "done"}, started : Nat, excess : BOOLEAN]
          /\ job'.phase = phase /\ job'.started = job.started /\ job'.excess = excess
      BY <1>5, <3>3, <3>5, <3>6
    <3>8. Expired' = Expired
      BY <3>2, <3>7 DEF Expired
    <3>9. ~(Excess > 0) => Cardinality(InHistory) <= limit
      BY <1>5 DEF Excess, Later
    <3>. QED
      BY <1>1, <1>2, <1>5, <3>2, <3>3, <3>4, <3>7, <3>8, <3>9 DEF Swept
  <2>5. CASE DeleteExpiredHistory
    <3>1. PICK b : b \in BatchOf(Expired) /\ plays' = plays \ b /\ After(b, IF job.excess THEN "excess" ELSE "done")
      BY <2>5 DEF DeleteExpiredHistory
    <3>2. job.phase = "expired"
      BY <2>5 DEF DeleteExpiredHistory
    <3>3. CASE Cardinality(b) < Batch
      <4>1. PICK phase : phase = IF job.excess THEN "excess" ELSE "done"
        OBVIOUS
      <4>2. job' = [job EXCEPT !.phase = phase]
        BY <3>1, <3>3, <4>1 DEF After
      <4>3. b = Expired
        <5>1. Expired \subseteq InHistory /\ IsFiniteSet(InHistory)
          BY InHistoryIs DEF Kept, Expired
        <5>2. IsFiniteSet(Expired) /\ Cardinality(Expired) \in Nat
          BY <5>1, PartIs
        <5>3. b \subseteq Expired /\ Cardinality(b) = Cardinality(Expired)
          BY <1>5, <3>1, <3>3, <5>2 DEF BatchOf, Sooner
        <5>. QED
          BY <5>2, <5>3, FS_Subset
      <4>4. /\ job'.started = job.started /\ job'.phase = phase /\ job'.excess = job.excess
            /\ job' \in [phase : {"idle", "idem", "ops", "page", "expired", "excess", "done"}, started : Nat, excess : BOOLEAN]
        BY <1>5, <4>1, <4>2
      <4>5. Expired' = {}
        BY <3>1, <4>3, <4>4 DEF Expired, InHistory
      <4>6. job'.phase = "done" => Cardinality(InHistory') <= limit
        BY <1>4, <1>5, <3>2, <4>1, <4>4 DEF Kept, Swept
      <4>. QED
        BY <1>1, <1>2, <1>5, <4>1, <4>4, <4>5, <4>6 DEF Swept
    <3>. QED
      BY <2>1, <3>1, <3>3 DEF After
  <2>6. CASE DeleteExcessHistory
    <3>1. PICK b : b \in Oldest(InHistory, Sooner(Excess, Batch)) /\ plays' = plays \ b /\ After(b, "done")
      BY <2>6 DEF DeleteExcessHistory
    <3>2. job.phase = "excess"
      BY <2>6 DEF DeleteExcessHistory
    <3>3. CASE Cardinality(b) < Batch
      <4>1. job' = [job EXCEPT !.phase = "done"]
        BY <3>1, <3>3 DEF After
      <4>2. IsFiniteSet(InHistory)
        BY InHistoryIs DEF Kept
      <4>3. b \subseteq InHistory /\ Cardinality(b) = Sooner(Sooner(Excess, Batch), Cardinality(InHistory))
        BY <3>1, <4>2, OldestIs
      <4>4. InHistory' = InHistory \ b
        BY <3>1 DEF InHistory
      <4>5. Cardinality(InHistory') = Cardinality(InHistory) - Cardinality(b)
        BY <4>2, <4>3, <4>4, PartIs
      <4>6. Cardinality(InHistory') <= limit
        BY <1>5, <3>3, <4>3, <4>5 DEF Sooner, Excess, Later
      <4>7. /\ job'.started = job.started /\ job'.phase = "done"
            /\ job' \in [phase : {"idle", "idem", "ops", "page", "expired", "excess", "done"}, started : Nat, excess : BOOLEAN]
        BY <1>5, <4>1
      <4>8. Expired' = {}
        BY <3>2, <4>4, <4>7 DEF Expired, Kept, Swept
      <4>. QED
        BY <1>1, <1>2, <1>5, <4>6, <4>7, <4>8 DEF Swept
    <3>. QED
      BY <2>1, <3>1, <3>3 DEF After
  <2>7. CASE RunEnds
    BY <1>1, <1>5, <2>7 DEF RunEnds, NoRun, Swept
  <2>. QED
    BY <2>2, <2>3, <2>4, <2>5, <2>6, <2>7 DEF JobStep
<1>. QED
  BY <1>3, <1>4, <1>6, <1>7 DEF Kept

-----------------------------------------------------------------------------
(* The ops. *)

\* What an op that is applied is.
LEMMA FreshIs ==
  ASSUME Marked, Kept, NEW o \in ops, Fresh(o)
  PROVE  /\ o \in Ops /\ request.open /\ o \notin request.known \cup request.done
         /\ now \in Nat /\ Sooner(o.at, now) \in Nat
<1>1. o \in Ops /\ now \in Nat
  BY DEF Marked, Times, Ops
<1>. QED
  BY <1>1, EffectiveTime DEF Fresh

\* An op that leaves the plays alone, and their two counters.
LEMMA PlaysAloneKeep ==
  ASSUME Marked, Kept, NEW o, NEW c, Whole(c), Finish(o, c),
         c.plays = request.counters.plays, c.history = request.counters.history,
         UNCHANGED <<now, limit, plays, job>>, Remembered'
  PROVE  Kept'
<1>1. Shaped' /\ request'.counters = c
  BY FinishIs DEF Kept
<1>2. InHistory' = InHistory
  BY DEF InHistory
<1>3. Counts' /\ Capped'
  BY <1>1, <1>2 DEF Kept, Counts, Capped
<1>4. Swept'
  BY <1>2 DEF Kept, Swept, Expired
<1>. QED
  BY <1>1, <1>3, <1>4 DEF Kept

\* An op that counts nothing.
LEMMA NothingCountedKeeps ==
  ASSUME Marked, Kept, NEW o, NEW c, Whole(c), Finish(o, c),
         c.plays = request.counters.plays, c.history = request.counters.history,
         UNCHANGED <<now, limit, plays, job, journal, counted>>
  PROVE  Kept'
<1>1. Shaped /\ Remembered
  BY DEF Kept
<1>2. /\ request'.done = request.done \cup {o} /\ request'.known = request.known /\ request'.open = request.open
  BY <1>1, FinishIs
<1>3. Remembered'
  BY <1>1, <1>2, RememberedKept DEF Remembered
<1>. QED
  BY <1>3, PlaysAloneKeep

\* The counter of the history after a play that was stored.
HistoryAfter(c, e, in) ==
  IF in THEN e.history + 1 ELSE Added(c.history, e.history - Count(c.history, Cardinality(InHistory)))

LEMMA CountedPlayIs ==
  ASSUME NEW c, Whole(c), NEW e, NEW in
  PROVE  CountedPlay(c, e, in) =
           [plays |-> e.plays + 1, history |-> HistoryAfter(c, e, in), hour |-> c.hour, stats |-> c.stats]
<1>1. PICK history : history = HistoryAfter(c, e, in)
  OBVIOUS
<1>2. PICK n : n = e.plays + 1
  OBVIOUS
<1>3. PICK d : d = CountedPlay(c, e, in)
  OBVIOUS
<1>4. d = [c EXCEPT !.plays = n, !.history = history]
  BY <1>1, <1>2, <1>3 DEF CountedPlay, HistoryAfter
<1>5. d = [plays |-> n, history |-> history, hour |-> c.hour, stats |-> c.stats]
  BY <1>4 DEF Whole
<1>. QED
  BY <1>1, <1>2, <1>3, <1>5

LEMMA InsertPlayKeeps ==
  ASSUME Marked, Kept, NEW o \in ops, o.kind = "add", Fresh(o), NEW room,
         InsertPlay(o, Sooner(o.at, now), PlanPlayAdd(o, Sooner(o.at, now)), request.counters, room),
         UNCHANGED <<clock, forgets, journal, job>>
  PROVE  Kept'
<1>1. PICK eff, plan, c : eff = Sooner(o.at, now) /\ plan = PlanPlayAdd(o, eff) /\ c = request.counters
  OBVIOUS
<1>2. InsertPlay(o, eff, plan, c, room)
  BY <1>1
<1>3. PICK e \in Evicted(plan.in, Count(c.history, Cardinality(InHistory)), Count(c.plays, Cardinality(plays))) :
        /\ plays' = (plays \ e.gone) \cup {PlayRow(o, eff, plan.in)}
        /\ counted' = [counted EXCEPT ![o] = IF stats'[o.video].total # stats[o.video].total THEN now ELSE @]
        /\ Finish(o, [CountedPlay(c, e, plan.in) EXCEPT
             !.hour = Count(@, Cardinality(ThisHour)) + 1,
             !.stats = Added(@, Cardinality({v \in Videos : stats'[v] # NoStat}) - Cardinality(HasStat))])
  BY <1>2 DEF InsertPlay
<1>4. /\ o \in Ops /\ now \in Nat /\ eff \in Nat /\ UNCHANGED <<now, limit, journal, job>>
      /\ request.open /\ o \notin request.known \cup request.done
  BY <1>1, FreshIs DEF clock
<1>5. Shaped /\ Counts /\ Capped /\ Swept /\ Remembered /\ Whole(c)
  BY <1>1, WholeIs DEF Kept
<1>6. plan.in \in BOOLEAN /\ (plan.in => eff > now - History)
  BY <1>1 DEF PlanPlayAdd
<1>7. /\ Cardinality(InHistory) \in Nat /\ Cardinality(plays) \in Nat /\ limit \in Nat /\ limit > 0 /\ limit <= MaxHistory
      /\ IsFiniteSet(plays)
  BY <1>5, InHistoryIs DEF Counts
<1>8. PICK cH, cP : cH = Count(c.history, Cardinality(InHistory)) /\ cP = Count(c.plays, Cardinality(plays))
  OBVIOUS
<1>9. /\ cH \in Nat /\ cP \in Nat /\ Cardinality(InHistory) <= cH /\ Cardinality(plays) <= cP
      /\ c.history = Unread \/ c.history = cH
  BY <1>1, <1>5, <1>7, <1>8 DEF Counts, Bounds, Count
<1>10. /\ IsFiniteSet(plays \ e.gone) /\ IsFiniteSet(InHistory \ e.gone)
       /\ Cardinality(InHistory \ e.gone) \in Nat /\ Cardinality(plays \ e.gone) \in Nat
       /\ e.history \in Nat /\ Cardinality(InHistory \ e.gone) <= e.history
       /\ e.plays \in Nat /\ Cardinality(plays \ e.gone) <= e.plays
       /\ Cardinality(plays \ e.gone) < MaxPlays
       /\ plan.in => Cardinality(InHistory \ e.gone) < limit
  <2>1. e \in Evicted(plan.in, cH, cP)
    BY <1>3, <1>8
  <2>. QED
    BY <1>6, <1>7, <1>9, <2>1, EvictedIs
<1>11. Cardinality(InHistory \ e.gone) <= Cardinality(InHistory)
  <2>1. IsFiniteSet(InHistory)
    BY <1>5, InHistoryIs
  <2>. QED
    BY <2>1, FS_Subset
<1>12. PICK row : row = PlayRow(o, eff, plan.in)
  OBVIOUS
<1>13. row.at = eff /\ row.in = plan.in
  BY <1>12 DEF PlayRow
<1>14. InHistory' = IF plan.in THEN (InHistory \ e.gone) \cup {row} ELSE InHistory \ e.gone
  BY <1>3, <1>12, <1>13 DEF InHistory
<1>15. /\ IsFiniteSet(plays') /\ Cardinality(plays') \in Nat /\ Cardinality(plays') <= Cardinality(plays \ e.gone) + 1
  <2>1. plays' = (plays \ e.gone) \cup {row}
    BY <1>3, <1>12
  <2>2. IsFiniteSet(plays') /\ (Cardinality(plays') = Cardinality(plays \ e.gone) \/ Cardinality(plays') = Cardinality(plays \ e.gone) + 1)
    BY <1>10, <2>1, FS_AddElement
  <2>. QED
    BY <1>10, <2>2
<1>16. /\ Cardinality(InHistory') \in Nat
       /\ plan.in => Cardinality(InHistory') <= Cardinality(InHistory \ e.gone) + 1
       /\ ~plan.in => Cardinality(InHistory') = Cardinality(InHistory \ e.gone)
  <2>1. CASE plan.in
    <3>1. InHistory' = (InHistory \ e.gone) \cup {row}
      BY <1>14, <2>1
    <3>2. Cardinality(InHistory') = Cardinality(InHistory \ e.gone) \/ Cardinality(InHistory') = Cardinality(InHistory \ e.gone) + 1
      BY <1>10, <3>1, FS_AddElement
    <3>. QED
      BY <1>10, <2>1, <3>2
  <2>2. CASE ~plan.in
    BY <1>10, <1>14, <2>2
  <2>. QED
    BY <2>1, <2>2
<1>17. Capped'
  BY <1>5, <1>7, <1>10, <1>11, <1>15, <1>16, Bounded DEF Capped
<1>18. PICK next :
         /\ next = [CountedPlay(c, e, plan.in) EXCEPT
              !.hour = Count(@, Cardinality(ThisHour)) + 1,
              !.stats = Added(@, Cardinality({v \in Videos : stats'[v] # NoStat}) - Cardinality(HasStat))]
         /\ Finish(o, next)
  BY <1>3
<1>19. Whole(next) /\ next.plays = e.plays + 1 /\ next.history = HistoryAfter(c, e, plan.in)
  <2>1. PICK d : d = CountedPlay(c, e, plan.in)
    OBVIOUS
  <2>2. PICK hour, stat : next = [d EXCEPT !.hour = hour, !.stats = stat]
    BY <1>18, <2>1
  <2>3. PICK n, history : n = e.plays + 1 /\ history = HistoryAfter(c, e, plan.in)
    OBVIOUS
  <2>4. d = [plays |-> n, history |-> history, hour |-> c.hour, stats |-> c.stats]
    BY <1>5, <2>1, <2>3, CountedPlayIs
  <2>5. Whole(next) /\ next.plays = n /\ next.history = history
    <3>1. next = [plays |-> n, history |-> history, hour |-> hour, stats |-> stat]
      BY <2>2, <2>4
    <3>2. next.plays = n /\ next.history = history /\ next.hour = hour /\ next.stats = stat
      BY <3>1
    <3>. QED
      BY <3>1, <3>2 DEF Whole
  <2>. QED
    BY <2>3, <2>5
<1>20. /\ Shaped' /\ request'.counters = next
       /\ request'.done = request.done \cup {o} /\ request'.known = request.known /\ request'.open = request.open
  BY <1>5, <1>18, <1>19, FinishIs
<1>21. Bounds(next.plays, Cardinality(plays'))
  BY <1>10, <1>15, <1>19 DEF Bounds
<1>22. Bounds(next.history, Cardinality(InHistory'))
  <2>1. CASE plan.in
    BY <1>10, <1>16, <1>19, <2>1 DEF Bounds, HistoryAfter
  <2>2. CASE ~plan.in
    <3>1. next.history = Unread \/ next.history = cH + (e.history - cH)
      BY <1>8, <1>9, <1>19, <2>2 DEF Added, HistoryAfter
    <3>2. next.history = Unread \/ next.history = e.history
      BY <1>9, <1>10, <3>1
    <3>. QED
      BY <1>10, <1>16, <2>2, <3>2 DEF Bounds
  <2>. QED
    BY <2>1, <2>2
<1>23. Counts'
  BY <1>4, <1>5, <1>15, <1>20, <1>21, <1>22 DEF Counts
<1>24. Swept'
  <2>1. \A p \in InHistory' : p \in InHistory \/ (p.at \in Nat /\ p.at > now - History)
    BY <1>4, <1>6, <1>13, <1>14
  <2>2. Cardinality(InHistory) <= limit => Cardinality(InHistory') <= limit'
    BY <1>4, <1>7, <1>10, <1>11, <1>16
  <2>3. Times /\ now' \in Nat /\ now <= now' /\ UNCHANGED job
    BY <1>4 DEF Marked
  <2>. QED
    BY <1>5, <2>1, <2>2, <2>3, SweptKept
<1>25. Remembered'
  <2>1. counted' \in [Ops -> Int] /\ \A x \in Ops : x.kind = "baseline" => counted'[x] = counted[x]
    BY <1>3, <1>4, <1>5 DEF Remembered
  <2>. QED
    BY <1>4, <1>5, <1>20, <2>1, RememberedKept
<1>. QED
  BY <1>17, <1>20, <1>23, <1>24, <1>25 DEF Kept

LEMMA AddKeeps ==
  ASSUME Marked, Kept, NEW o \in ops, Add(o)
  PROVE  Kept'
<1>1. o.kind = "add" /\ Fresh(o)
  BY DEF Add
<1>2. CASE Deferred(o, [request.counters EXCEPT !.hour = Count(@, Cardinality(ThisHour))])
  <2>1. PICK c : c = [request.counters EXCEPT !.hour = Count(@, Cardinality(ThisHour))] /\ Deferred(o, c)
    BY <1>2
  <2>2. Whole(request.counters)
    BY WholeIs DEF Kept
  <2>3. Whole(c) /\ c.plays = request.counters.plays /\ c.history = request.counters.history
    <3>1. PICK n : c = [request.counters EXCEPT !.hour = n]
      BY <2>1
    <3>. QED
      BY <2>2, <3>1 DEF Whole
  <2>4. Finish(o, c) /\ UNCHANGED <<now, limit, plays, job, journal, counted>>
    BY <2>1 DEF Deferred, clock, tables, ghosts
  <2>. QED
    BY <2>3, <2>4, NothingCountedKeeps
<1>3. CASE \E room : /\ InsertPlay(o, Sooner(o.at, now), PlanPlayAdd(o, Sooner(o.at, now)), request.counters, room)
                     /\ UNCHANGED <<clock, forgets, journal, job>>
  BY <1>1, <1>3, InsertPlayKeeps
<1>. QED
  BY <1>2, <1>3 DEF Add

LEMMA BaselineKeeps ==
  ASSUME Marked, Kept, NEW o \in ops, Baseline(o)
  PROVE  Kept'
<1>1. /\ o \in Ops /\ now \in Nat /\ request.open /\ Fresh(o)
      /\ UNCHANGED <<now, limit, plays, job>>
  BY FreshIs DEF Baseline, clock
<1>2. PICK changed, c :
        /\ journal' = IF changed = {} THEN journal ELSE Journaled(o)
        /\ counted' = [counted EXCEPT ![o] = IF changed = {} THEN @ ELSE now]
        /\ Finish(o, c)
        /\ c = request.counters \/ \E n : c = [request.counters EXCEPT !.stats = n]
  BY DEF Baseline
<1>3. Shaped /\ Remembered /\ Whole(request.counters)
  BY WholeIs DEF Kept
<1>4. Whole(c) /\ c.plays = request.counters.plays /\ c.history = request.counters.history
  BY <1>2, <1>3 DEF Whole
<1>5. request'.done = request.done \cup {o} /\ request'.known = request.known /\ request'.open = request.open
  BY <1>2, <1>3, <1>4, FinishIs
<1>6. Remembered'
  <2>1. journal \subseteq journal' /\ (changed # {} => [op |-> o, at |-> now] \in journal')
    BY <1>2 DEF Journaled
  <2>2. counted' \in [Ops -> Int]
    BY <1>1, <1>2, <1>3 DEF Remembered
  <2>3. ASSUME NEW x \in Ops, x.kind = "baseline", counted'[x] # None, now < counted'[x] + Journal
        PROVE  [op |-> x, at |-> counted'[x]] \in journal' /\ x \in request'.known \cup request'.done
    <3>1. CASE x = o /\ changed # {}
      <4>1. counted'[x] = now
        BY <1>1, <1>2, <1>3, <3>1 DEF Remembered
      <4>. QED
        BY <1>5, <2>1, <3>1, <4>1
    <3>2. CASE x # o \/ changed = {}
      <4>1. counted'[x] = counted[x]
        BY <1>1, <1>2, <1>3, <3>2 DEF Remembered
      <4>. QED
        BY <1>1, <1>3, <1>5, <2>1, <2>3, <4>1 DEF Remembered
    <3>. QED
      BY <3>1, <3>2
  <2>. QED
    BY <1>1, <2>2, <2>3 DEF Remembered
<1>. QED
  BY <1>1, <1>2, <1>4, <1>6, PlaysAloneKeep

\* Plays go for a mark, and the counters are told.
LEMMA TakenKeeps ==
  ASSUME Marked, Kept, NEW o, NEW T, T \subseteq InHistory, plays' = plays \ T,
         Finish(o, Deleted(request.counters, Cardinality(T))),
         UNCHANGED <<now, limit, job, counted>>, journal \subseteq journal'
  PROVE  Kept'
<1>1. Shaped /\ Counts /\ Capped /\ Swept /\ Remembered /\ Times /\ now \in Nat /\ Whole(request.counters)
  BY WholeIs DEF Kept, Marked, Times
<1>2. PICK c : c = Deleted(request.counters, Cardinality(T))
  OBVIOUS
<1>3. Whole(c)
  <2>1. PICK n, h : c = [request.counters EXCEPT !.plays = n, !.history = h]
    BY <1>2 DEF Deleted
  <2>. QED
    BY <1>1, <2>1 DEF Whole
<1>4. /\ Shaped' /\ request'.counters = c
      /\ request'.done = request.done \cup {o} /\ request'.known = request.known /\ request'.open = request.open
  BY <1>1, <1>2, <1>3, FinishIs
<1>5. Counts' /\ Capped' /\ InHistory' \subseteq InHistory /\ Cardinality(InHistory') <= Cardinality(InHistory)
  BY <1>1, <1>2, <1>4, DeletedKeeps
<1>6. Cardinality(InHistory) <= limit => Cardinality(InHistory') <= limit'
  <2>1. /\ IsFiniteSet(InHistory) /\ Cardinality(InHistory) \in Nat /\ limit \in Nat
    BY <1>1, InHistoryIs
  <2>2. Cardinality(InHistory') \in Nat
    BY <1>5, <2>1, PartIs
  <2>. QED
    BY <1>5, <2>1, <2>2
<1>7. Swept'
  <2>1. \A p \in InHistory' : p \in InHistory \/ (p.at \in Nat /\ p.at > now - History)
    BY <1>5
  <2>. QED
    BY <1>1, <1>6, <2>1, SweptKept
<1>8. Remembered'
  <2>1. counted' \in [Ops -> Int] /\ \A x \in Ops : x.kind = "baseline" => counted'[x] = counted[x]
    BY <1>1 DEF Remembered
  <2>. QED
    BY <1>1, <1>4, <2>1, RememberedKept
<1>. QED
  BY <1>4, <1>5, <1>7, <1>8 DEF Kept

LEMMA ClearKeeps ==
  ASSUME Marked, Kept, NEW o \in ops, Clear(o)
  PROVE  Kept'
<1>1. UNCHANGED <<now, limit, job, counted>>
  BY DEF Clear, clock, ghosts
<1>2. CASE Finish(o, request.counters) /\ UNCHANGED tables
  <2>1. Whole(request.counters)
    BY WholeIs DEF Kept
  <2>. QED
    BY <1>1, <1>2, <2>1, NothingCountedKeeps DEF tables
<1>3. CASE /\ plays' = plays \ Taken(Sooner(o.at, now), Videos)
           /\ journal' = Journaled(o)
           /\ Finish(o, Deleted(request.counters, Cardinality(Taken(Sooner(o.at, now), Videos))))
  <2>1. Taken(Sooner(o.at, now), Videos) \subseteq InHistory /\ journal \subseteq journal'
    BY <1>3 DEF Taken, Journaled
  <2>. QED
    BY <1>1, <1>3, <2>1, TakenKeeps
<1>. QED
  BY <1>2, <1>3 DEF Clear

LEMMA ForgetKeeps ==
  ASSUME Marked, Kept, NEW o \in ops, Forget(o)
  PROVE  Kept'
<1>1. UNCHANGED <<now, limit, job, counted>>
  BY DEF Forget, clock
<1>2. PICK gone :
        /\ plays' = plays \ gone
        /\ Finish(o, Deleted(request.counters, Cardinality(gone)))
        /\ gone = {} \/ gone = Taken(Sooner(o.at, now), {o.video})
  BY DEF Forget
<1>3. gone \subseteq InHistory
  BY <1>2 DEF Taken
<1>4. journal \subseteq journal'
  BY DEF Forget, Journaled
<1>. QED
  BY <1>1, <1>2, <1>3, <1>4, TakenKeeps

-----------------------------------------------------------------------------
(* The invariant. *)

LEMMA IInvInit == Init => IInv
<1>. SUFFICES ASSUME Init PROVE IInv
  OBVIOUS
<1>1. Marked
  BY MarkedInit
<1>2. InHistory = {} /\ plays = {} /\ Cardinality({}) = 0 /\ IsFiniteSet({})
  BY FS_EmptySet DEF Init, InHistory
<1>3. Shaped
  BY DEF Init, Shaped, NoRequest, Counters
<1>4. Counts /\ Capped
  BY <1>2, Bounded DEF Init, Counts, Capped, Bounds, NoRequest, Counters
<1>5. Swept
  BY DEF Init, Swept, NoRun
<1>6. Remembered
  BY DEF Init, Remembered, None
<1>. QED
  BY <1>1, <1>3, <1>4, <1>5, <1>6 DEF IInv, Kept

LEMMA KeptStep == ASSUME Marked, Kept, [Next]_vars PROVE Kept'
<1>1. CASE StartRequest
  BY <1>1, StartRequestKeeps
<1>2. CASE EndRequest
  BY <1>2, EndRequestKeeps
<1>3. ASSUME NEW o \in ops, Apply(o) PROVE Kept'
  BY <1>3, AddKeeps, BaselineKeeps, ClearKeeps, ForgetKeeps DEF Apply
<1>4. CASE JobStep
  BY <1>4, JobStepKeeps
<1>5. CASE Lower
  BY <1>5, LowerKeeps
<1>6. CASE Tick
  BY <1>6, TickKeeps
<1>7. CASE UNCHANGED vars
  <2>1. InHistory' = InHistory
    BY <1>7 DEF vars, InHistory
  <2>2. Expired' = Expired
    BY <1>7, <2>1 DEF vars, Expired
  <2>. QED
    BY <1>7, <2>1, <2>2 DEF vars, Kept, Shaped, Counts, Capped, Swept, Remembered
<1>. QED
  BY <1>1, <1>2, <1>3, <1>4, <1>5, <1>6, <1>7 DEF Next

LEMMA IInvStep == IInv /\ [Next]_vars => IInv'
BY MarkedStep, KeptStep DEF IInv

\* The inductive invariant: the marks, and what the counters, the run and the journal keep.
THEOREM Invariance == Spec => []IInv
BY IInvInit, IInvStep, PTL DEF Spec

\* What was cleared or forgotten is not in the history, for any order, repeat and lateness of plays and marks and any
\* work of the retention job between them.
THEOREM ForgottenForGood == Spec => []ForgottenStays
<1>1. IInv => ForgottenStays
  BY DEF IInv, Marked
<1>. QED
  BY <1>1, Invariance, PTL

\* A total has nothing in it from before its last reset, be it a late play or an old baseline.
THEOREM ResetsHold == Spec => []ResetHolds
<1>1. IInv => ResetHolds
  BY DEF IInv, Marked
<1>. QED
  BY <1>1, Invariance, PTL

\* A user has no more plays than the two caps allow, although a request counts once, keeps its counters itself, and
\* the job deletes meanwhile.
THEOREM CapsHold == Spec => []Capped
<1>1. IInv => Capped
  BY DEF IInv, Kept
<1>. QED
  BY <1>1, Invariance, PTL

\* A whole run of the job leaves no play older than the history and no more than the limit, whatever plays arrived
\* between its batches.
THEOREM NothingOldStays == Spec => []NothingOld
<1>1. IInv => NothingOld
  <2>. SUFFICES ASSUME IInv, job.phase = "done" PROVE Expired = {} /\ Excess = 0
    BY DEF NothingOld
  <2>1. Expired = {} /\ Cardinality(InHistory) <= limit
    BY DEF IInv, Kept, Swept
  <2>2. Cardinality(InHistory) \in Nat /\ limit \in Nat
    BY InHistoryIs DEF IInv, Kept
  <2>. QED
    BY <2>1, <2>2 DEF Excess, Later
<1>. QED
  BY <1>1, Invariance, PTL

\* A baseline that is repeated changes no total again before the journal may have dropped it, for any order of
\* requests and batches.
THEOREM BaselinesCountOnce == Spec => BaselinesOnce
<1>. DEFINE Once == \A o \in Ops : o.kind = "baseline" /\ counted[o] # None /\ counted'[o] # counted[o]
                                   => now >= counted[o] + Journal
<1>1. IInv /\ [Next]_vars => [Once]_vars
  <2>. SUFFICES ASSUME IInv, [Next]_vars,
                       NEW o \in Ops, o.kind = "baseline", counted[o] # None, counted'[o] # counted[o]
                PROVE  now >= counted[o] + Journal
    OBVIOUS
  <2>1. counted \in [Ops -> Int] /\ counted[o] \in Int /\ now \in Nat /\ Journal \in Nat
    BY Bounded DEF IInv, Marked, Times, Kept, Remembered
  <2>2. \E x \in ops : Add(x) \/ Baseline(x)
    <3>1. UNCHANGED counted \/ \E x \in ops : Add(x) \/ Baseline(x)
      BY DEF Next, Apply, JobStep, vars, ghosts, StartRequest, EndRequest, Clear, Forget, RunStarts,
        DeleteIdempotencyRows, DeleteOldSyncOps, ReadUserPage, DeleteExpiredHistory, DeleteExcessHistory, RunEnds,
        Lower, Tick
    <3>. QED
      BY <3>1
  <2>3. PICK x \in ops : Add(x) \/ Baseline(x)
    BY <2>2
  <2>4. x = o
    <3>1. \E n : counted' = [counted EXCEPT ![x] = n]
      BY <2>3 DEF Add, Deferred, ghosts, InsertPlay, Baseline
    <3>. QED
      BY <2>1, <3>1
  <2>5. Fresh(o)
    BY <2>3, <2>4 DEF Add, Baseline
  <2>6. CASE now < counted[o] + Journal
    BY <2>5, <2>6 DEF IInv, Kept, Remembered, Fresh
  <2>. QED
    BY <2>1, <2>6
<1>. QED
  BY <1>1, Invariance, PTL DEF Spec, BaselinesOnce
=============================================================================
