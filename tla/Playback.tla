------------------------------- MODULE Playback -------------------------------
(***************************************************************************)
(* Continue on another device (src/modules/playback): the one state row of *)
(* a user, written by compare-and-set on its rev, the rules that refuse a  *)
(* write, the tombstone of DELETE, retention, and playback.updated, which  *)
(* reaches the other devices through the coalescing window of the hub.     *)
(*                                                                         *)
(* Position and volume appear only as one bit of a write: whether it moves *)
(* them far enough to be told.  In PostgreSQL transactions overlap and     *)
(* their events may be published in another order than they committed.     *)
(***************************************************************************)
EXTENDS Integers, FiniteSets, FiniteSetsExt

CONSTANTS
  Devices,
  Ats,         \* what the clocks of the devices say
  Inputs,      \* bodies of PUT: session, queueVersion, queue, index, playing, handoff, far
  Nothing,     \* null
  Attempts,    \* MAX_CAS_ATTEMPTS
  Retention,   \* PLAYBACK_RETENTION_DAYS
  Burst,       \* how far the rev runs ahead of the clock: writes come slower than one per tick
  MaxTime      \* bound of the clock

ASSUME ClockAssumption ==
  /\ Attempts \in Nat \ {0} /\ Retention \in Nat /\ MaxTime \in Nat \ {0}
  \* Over a month writes never average one per millisecond.
  /\ Burst \in 0 .. Retention - 1

VARIABLES
  overlap,     \* the database: PostgreSQL (TRUE) or SQLite
  clock,
  row,         \* playback_state of the user, or Nothing
  top,         \* the highest rev ever written
  reqs,        \* one PUT or DELETE per device under way
  windowOpen,  \* the coalescing window of the hub is open
  pending,     \* the trailing event of the window, or Nothing
  view         \* what a device that only watches shows

playbackVars == <<overlap, clock, row, top, reqs, windowOpen, pending, view>>
events == <<windowOpen, pending, view>>

\* The player whose state a device has taken over, if any.
Handoffs == {Nothing} \cup [device : Devices, session : Nat]

\* PlaybackPut: at is the clock of the client.
Input ==
  [session : Nat, version : Nat, queue : Nat, index : Nat, playing : BOOLEAN, far : BOOLEAN,
   handoff : Handoffs]

ASSUME InputAssumption ==
  /\ Ats \subseteq Int
  /\ Inputs \subseteq Input
  \* The contract refuses an index outside the queue it comes with.
  /\ \A i \in Inputs : i.queue # 0 => i.index < i.queue

\* The columns of playback_state; the queue is its length.
Row ==
  [rev : Nat, cleared : BOOLEAN, device : Devices, session : Nat, version : Nat, queue : Nat,
   index : Nat, playing : BOOLEAN, at : Int, updated : Nat, handoff : Handoffs]

\* What the other devices show of a state, and playback.updated that tells it.
Shown(s) == <<s.cleared, s.device, s.session, s.version, s.index, s.playing, s.handoff>>
Summary(s) == [rev |-> s.rev, cleared |-> s.cleared, state |-> IF s.cleared THEN Nothing ELSE Shown(s)]
Event ==
  [rev : Nat, cleared : BOOLEAN,
   state : {Nothing} \cup ({FALSE} \X Devices \X Nat \X Nat \X Nat \X BOOLEAN \X Handoffs)]

ASSUME NothingAssumption == Nothing \notin Nat /\ Nothing \notin Row /\ Nothing \notin Event

AtRest == [phase |-> "idle"]
Request ==
  {AtRest} \cup [phase : {"again"}, body : Inputs \cup {Nothing}, at : Ats, tries : 2 .. Attempts]
         \cup [phase : {"decided"}, body : Inputs \cup {Nothing}, at : Ats, tries : 1 .. Attempts,
               seen : {Nothing} \cup Nat, row : Row, tell : BOOLEAN]
         \cup [phase : {"committed"}, row : Row, tell : BOOLEAN]

PlaybackTypeOK ==
  /\ overlap \in BOOLEAN
  /\ clock \in 1 .. MaxTime
  /\ row \in {Nothing} \cup Row
  /\ top \in 0 .. MaxTime + Burst
  /\ reqs \in [Devices -> Request]
  /\ windowOpen \in BOOLEAN
  /\ pending \in {Nothing} \cup Event
  /\ view \in {Nothing} \cup Event

PlaybackInit ==
  /\ overlap \in BOOLEAN
  /\ clock = 1
  /\ row = Nothing
  /\ top = 0
  /\ reqs = [d \in Devices |-> AtRest]
  /\ windowOpen = FALSE
  /\ pending = Nothing
  /\ view = Nothing

-----------------------------------------------------------------------------
(* The rules of PUT and DELETE: pure decisions on the row that was read. *)

Active(s) == IF s = Nothing \/ s.cleared THEN Nothing ELSE s
Eff(at) == IF at < clock THEN at ELSE clock

\* Variant: the rev starts from the clock, whatever was stored.
RevByClock(s) == clock

\* rev only grows, also over a tombstone.
NextRev(s) == Max({IF s = Nothing THEN 1 ELSE s.rev + 1, clock})

\* Variant: rule 1 only for a write that is older as well.
HandedOffIfOlder(s, d, i) ==
  Active(s) # Nothing /\ s.handoff = [device |-> d, session |-> i.session] /\ clock < s.at

HandedOff(s, d, i) ==
  Active(s) # Nothing /\ s.handoff = [device |-> d, session |-> i.session]
NewerState(s, d, at) ==
  Active(s) # Nothing /\ s.device # d /\ Eff(at) < s.at

\* The stored queue is reused when the same player wrote it in the same version.
Reusable(s, d, i) ==
  Active(s) # Nothing /\ s.device = d /\ s.session = i.session /\ s.version = i.version
BadQueue(s, d, i) == i.queue = 0 /\ (~Reusable(s, d, i) \/ i.index >= s.queue)

Refused(s, d, i, at) == HandedOff(s, d, i) \/ NewerState(s, d, at) \/ BadQueue(s, d, i)

\* A device keeps the handoff of its own state until it names another.
ResolveHandoff(s, d, i) ==
  IF i.handoff # Nothing THEN i.handoff
  ELSE IF Active(s) # Nothing /\ s.device = d THEN s.handoff ELSE Nothing

PutRow(s, d, i, at) ==
  [rev |-> NextRev(s), cleared |-> FALSE, device |-> d, session |-> i.session,
   version |-> i.version, queue |-> IF i.queue = 0 THEN s.queue ELSE i.queue, index |-> i.index,
   playing |-> i.playing, at |-> Eff(at), updated |-> clock, handoff |-> ResolveHandoff(s, d, i)]

DeleteRow(s, d) ==
  [rev |-> NextRev(s), cleared |-> TRUE, queue |-> 0, index |-> 0, playing |-> FALSE,
   device |-> IF s = Nothing THEN d ELSE s.device,
   session |-> IF s = Nothing THEN 0 ELSE s.session,
   version |-> IF s = Nothing THEN 0 ELSE s.version,
   at |-> IF s = Nothing THEN clock ELSE s.at, updated |-> clock, handoff |-> Nothing]

\* Variant: a heartbeat after play or pause is silent.
QuietPlay(s, r, far) ==
  \/ Active(s) = Nothing \/ far
  \/ <<s.device, s.session, s.index, s.version>> # <<r.device, r.session, r.index, r.version>>

\* A heartbeat that changes nothing of this updates the row silently.
Significant(s, r, far) == Active(s) = Nothing \/ far \/ Shown(s) # Shown(r)

-----------------------------------------------------------------------------
(* PUT and DELETE /playback/state: read, decide, compare-and-set. *)

\* SQLite: one write at a time, and its event is out before the next.
Serial(d) == overlap \/ \A o \in Devices \ {d} : reqs[o].phase \notin {"decided", "committed"}

\* A transaction reads the row and the rules decide on it; body is Nothing for DELETE.
Decided(d, body, at, tries) ==
  LET new == IF body = Nothing THEN DeleteRow(row, d) ELSE PutRow(row, d, body, at)
  IN /\ Serial(d)
     /\ reqs' = [reqs EXCEPT ![d] =
          IF body # Nothing /\ Refused(row, d, body, at) THEN AtRest
          ELSE [phase |-> "decided", body |-> body, at |-> at, tries |-> tries,
                seen |-> IF row = Nothing THEN Nothing ELSE row.rev, row |-> new,
                tell |-> body = Nothing \/ Significant(row, new, body.far)]]
     /\ UNCHANGED <<overlap, clock, row, top, events>>

Put(d, i, at) == reqs[d] = AtRest /\ Decided(d, i, at, 1)
Delete(d) == \E at \in Ats : reqs[d] = AtRest /\ at = Min(Ats) /\ Decided(d, Nothing, at, 1)

\* The next attempt decides on the row as it is then.
TryAgain(d) ==
  /\ reqs[d].phase = "again"
  /\ Decided(d, reqs[d].body, reqs[d].at, reqs[d].tries)

\* UPDATE ... WHERE rev = ?, or INSERT ... ON CONFLICT DO NOTHING.
Wins(seen) == seen = IF row = Nothing THEN Nothing ELSE row.rev

\* The write, or another attempt on the fresh row, or server_busy.
Cas(d) ==
  LET r == reqs[d]
  IN /\ r.phase = "decided"
     /\ IF Wins(r.seen)
          THEN /\ r.row.rev <= r.row.updated + Burst
               /\ row' = r.row
               /\ top' = Max({top, r.row.rev})
               /\ reqs' = [reqs EXCEPT ![d] = [phase |-> "committed", row |-> r.row, tell |-> r.tell]]
          ELSE /\ reqs' = [reqs EXCEPT ![d] =
                    IF r.tries = Attempts THEN AtRest
                    ELSE [phase |-> "again", body |-> r.body, at |-> r.at, tries |-> r.tries + 1]]
               /\ UNCHANGED <<row, top>>
     /\ UNCHANGED <<overlap, clock, events>>

\* A device ignores an event that is not newer, unless it clears.
Shows(e) == IF e.cleared \/ view = Nothing \/ e.rev > view.rev THEN e ELSE view

\* playback.updated after the commit: at once, or as the trailing event of the window.
PublishState(d) ==
  LET r == reqs[d]
  IN /\ r.phase = "committed"
     /\ reqs' = [reqs EXCEPT ![d] = AtRest]
     /\ IF ~r.tell THEN UNCHANGED events
        ELSE IF windowOpen THEN pending' = Summary(r.row) /\ UNCHANGED <<windowOpen, view>>
        ELSE windowOpen' = TRUE /\ view' = Shows(Summary(r.row)) /\ UNCHANGED pending
     /\ UNCHANGED <<overlap, clock, row, top>>

\* The window ends; what it held back opens the next one.
FlushPending ==
  /\ windowOpen
  /\ windowOpen' = (pending # Nothing)
  /\ view' = IF pending = Nothing THEN view ELSE Shows(pending)
  /\ pending' = Nothing
  /\ UNCHANGED <<overlap, clock, row, top, reqs>>

Expired == row # Nothing /\ row.updated < clock - Retention

\* The daily job deletes a row nobody touched; nobody is told.
Retain ==
  /\ Expired
  /\ row' = Nothing
  /\ UNCHANGED <<overlap, clock, top, reqs, events>>

\* No transaction is open for as long as the retention.
Tick ==
  /\ clock < MaxTime
  /\ \A d \in Devices : reqs[d].phase = "decided" => reqs[d].row.updated = clock
  /\ clock' = clock + 1
  /\ UNCHANGED <<overlap, row, top, reqs, events>>

PlaybackNext ==
  \/ \E d \in Devices :
       \/ \E i \in Inputs, at \in Ats : Put(d, i, at)
       \/ Delete(d) \/ TryAgain(d) \/ Cas(d) \/ PublishState(d)
  \/ FlushPending \/ Retain \/ Tick

PlaybackSpec == PlaybackInit /\ [][PlaybackNext]_playbackVars

-----------------------------------------------------------------------------
(* Properties. *)

\* Every write has a rev above all the revs there ever were: over lost races, tombstones and rows that
\* retention deleted, so a client never takes a new state for an old one (decidePlaybackPut, DESIGN 3.12.3 m18).
RevGrows == [][row' # row /\ row' # Nothing => row'.rev > top]_playbackVars

\* A player never takes the state from a newer one of another device, nor back from the device that took it
\* over, also when its write lost a race and was decided again (rules 1 and 2, MAX_CAS_ATTEMPTS).
NoStaleTakeover ==
  [][row' # row /\ Active(row) # Nothing /\ row' # Nothing /\ ~row'.cleared =>
       /\ row'.device # row.device => row'.at >= row.at
       /\ [device |-> row'.device, session |-> row'.session] # row.handoff]_playbackVars

\* SQLite: when no write and no event is under way, a watching device shows who plays what, however the
\* window merged the events and whatever heartbeats went by in silence (isSignificant, publishCoalesced).
Quiet == ~windowOpen /\ \A d \in Devices : reqs[d].phase # "committed"
WatcherAgrees ==
  ~overlap /\ Quiet /\ row # Nothing =>
    view # Nothing /\ view.state = Summary(row).state
=============================================================================
