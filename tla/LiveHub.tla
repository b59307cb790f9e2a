-------------------------------- MODULE LiveHub --------------------------------
(***************************************************************************)
(* The event streams of one user (src/modules/live): the hub with its      *)
(* limits and its coalesced events, the route that opens a stream, and the *)
(* heartbeat that rechecks the streams in the database.                    *)
(*                                                                         *)
(* What SyncPull calls Publish and Lyrics PublishLyrics is here the work   *)
(* of the hub: the first event of a quiet period goes out at once, later   *)
(* ones merge into a trailing event.  A device that hears an event reads   *)
(* everything there is.                                                    *)
(***************************************************************************)
EXTENDS Integers, FiniteSets

CONSTANTS
  Device,        \* devices of the user (a removed device never returns under its id)
  MaxPerDevice,  \* SSE_MAX_STREAMS_PER_DEVICE
  MaxPerUser,    \* SSE_MAX_STREAMS_PER_USER
  MaxOpened,     \* bound: streams ever opened
  MaxChanges,    \* bound: writes, removals and password changes together
  MaxLoad        \* bound: streams opened and changes together

ASSUME LimitsAssumption == MaxPerDevice \in Nat \ {0} /\ MaxPerUser \in Nat \ {0}
ASSUME BoundsAssumption ==
  /\ IsFiniteSet(Device)
  /\ MaxOpened \in Nat /\ MaxChanges \in Nat /\ MaxLoad \in Nat

VARIABLES
  present,   \* the device rows
  version,   \* users.auth_version
  commits,   \* writes of the user so far
  writing,   \* devices whose write committed and is not announced yet
  reading,   \* devices whose write is announced and whose page is not read yet
  seen,      \* the writes a device knows of or was told to read
  admitted,  \* requests for a stream that have passed the guard
  opened,    \* streams ever opened: ids grow in opening order
  streams,   \* the open streams
  window,    \* the coalescing window is open
  authors,   \* authors of the events merged in it
  effects,   \* removals and password changes whose effects on the hub are to come
  timer,     \* the next heartbeat is scheduled
  recheck    \* the recheck under way: the streams listed, then what the rows say of them

rows == <<present, version>>
news == <<commits, writing, reading, seen, window, authors>>
beats == <<timer, recheck>>
vars == <<present, version, commits, writing, reading, seen, admitted, opened, streams, window,
          authors, effects, timer, recheck>>

Idle == [phase |-> "idle"]

Changes == commits + (version - 1) + Cardinality(Device \ present)
\* A removal or a changed password counts for two.
HasRoom == opened + Cardinality(admitted) + commits + 2 * (Changes - commits) < MaxLoad

Init ==
  /\ present = Device
  /\ version = 1
  /\ commits = 0
  /\ writing = {}
  /\ reading = {}
  /\ seen = [d \in Device |-> 0]
  /\ admitted = {}
  /\ opened = 0
  /\ streams = {}
  /\ window = FALSE
  /\ authors = {}
  /\ effects = {}
  /\ timer = FALSE
  /\ recheck = Idle

-----------------------------------------------------------------------------
(***************************************************************************)
(* Opening and closing streams.                                            *)
(***************************************************************************)

\* The guard: the device row exists and the token carries the user's auth_version.
Admit(d) ==
  /\ d \in present
  /\ HasRoom /\ opened + Cardinality(admitted) < MaxOpened
  /\ admitted' = admitted \cup {[dev |-> d, version |-> version]}
  /\ UNCHANGED <<rows, news, opened, streams, effects, beats>>

Of(open, dev) == {s \in open : s.dev = dev}
NewerOf(open, s) == {n \in open : n.id > s.id}
Beyond(open, limit) == {s \in open : Cardinality(NewerOf(open, s)) >= limit}

\* register: the oldest streams of the device beyond its limit go, then of the rest the
\* oldest beyond the limit of the user.
Evicted(open, dev) ==
  LET ofDevice == Beyond(Of(open, dev), MaxPerDevice)
  IN ofDevice \cup Beyond(open \ ofDevice, MaxPerUser)

\* openStream: the hub registers the stream, system.connected makes the device read, the
\* heartbeat loop runs.
Open(r) ==
  /\ r \in admitted
  /\ admitted' = admitted \ {r}
  /\ opened' = opened + 1
  /\ LET open == streams \cup {[id |-> opened + 1, dev |-> r.dev, version |-> r.version]}
     IN streams' = open \ Evicted(open, r.dev)
  /\ seen' = [seen EXCEPT ![r.dev] = commits]
  /\ timer' = TRUE
  /\ UNCHANGED <<rows, commits, writing, reading, window, authors, effects, recheck>>

\* The client goes away, a write fails, or the timer of the token's exp fires.
Leave(s) ==
  /\ s \in streams
  /\ streams' = streams \ {s}
  /\ UNCHANGED <<rows, news, admitted, opened, effects, beats>>

-----------------------------------------------------------------------------
(***************************************************************************)
(* Events.                                                                 *)
(***************************************************************************)

\* A write transaction of a device, for example of POST /sync.
Commit(d) ==
  /\ d \in present
  /\ d \notin writing \cup reading
  /\ HasRoom /\ Changes < MaxChanges
  /\ commits' = commits + 1
  /\ writing' = writing \cup {d}
  /\ UNCHANGED <<rows, reading, seen, admitted, opened, streams, window, authors, effects, beats>>

\* publish: every stream but those of `except` gets the event, or fails and is closed.
Deliver(except) ==
  \E broken \in SUBSET {s \in streams : s.dev \notin except} :
    /\ streams' = streams \ broken
    /\ seen' = [d \in Device |->
         IF d \notin except /\ \E s \in streams \ broken : s.dev = d THEN commits ELSE seen[d]]

\* Variant: the slot remembers the author it was opened with.
MergeFirst(d) == authors' = IF authors = {} THEN {d} ELSE authors

\* A later event of the window joins the trailing one.
Merge(d) == authors' = authors \cup {d}

\* publishCoalesced, after the commit.
Publish(d) ==
  /\ d \in writing
  /\ writing' = writing \ {d}
  /\ reading' = reading \cup {d}
  /\ window' = TRUE
  /\ IF window
       THEN Merge(d) /\ UNCHANGED <<streams, seen>>
       ELSE Deliver({d}) /\ UNCHANGED authors
  /\ UNCHANGED <<rows, commits, admitted, opened, effects, beats>>

\* The author's own answer: its page is read after the event was published.
ReadPage(d) ==
  /\ d \in reading
  /\ reading' = reading \ {d}
  /\ seen' = [seen EXCEPT ![d] = commits]
  /\ UNCHANGED <<rows, commits, writing, admitted, opened, streams, window, authors, effects, beats>>

\* The trailing event skips its author only when all the merged events were of that author.
Flush ==
  /\ window
  /\ window' = (authors # {})
  /\ authors' = {}
  /\ IF authors = {}
       THEN UNCHANGED <<streams, seen>>
       ELSE Deliver(IF Cardinality(authors) = 1 THEN authors ELSE {})
  /\ UNCHANGED <<rows, commits, writing, reading, admitted, opened, effects, beats>>

-----------------------------------------------------------------------------
(***************************************************************************)
(* Removed devices and changed passwords.                                  *)
(***************************************************************************)

\* A removal commits; its effects follow in this process, or never when the CLI made it.
Remove(d) ==
  /\ d \in present
  /\ HasRoom /\ Changes < MaxChanges
  /\ present' = present \ {d}
  /\ effects' \in {effects, effects \cup {{d}}}
  /\ UNCHANGED <<version, news, admitted, opened, streams, beats>>

\* changePassword without signing out the others: auth_version moves on.
ChangePassword ==
  /\ HasRoom /\ Changes < MaxChanges
  /\ version' = version + 1
  /\ effects' \in {effects, effects \cup {Device}}
  /\ UNCHANGED <<present, news, admitted, opened, streams, beats>>

\* afterRemove or closeUser, after the commit.
Close(devices) ==
  /\ devices \in effects
  /\ effects' = effects \ {devices}
  /\ streams' = {s \in streams : s.dev \notin devices}
  /\ UNCHANGED <<rows, news, admitted, opened, beats>>

-----------------------------------------------------------------------------
(***************************************************************************)
(* The heartbeat and its recheck.                                          *)
(***************************************************************************)

Listed == [phase |-> "listed", streams |-> streams]

\* A beat writes to every stream; while there are any it schedules the next and starts a
\* recheck, unless one is running.
Beat ==
  /\ timer
  /\ timer' = (streams # {})
  /\ recheck' = IF streams # {} /\ recheck = Idle THEN Listed ELSE recheck
  /\ UNCHANGED <<rows, news, admitted, opened, streams, effects>>

Gone == {s.dev : s \in recheck.streams} \ present

\* Variant: only a token ahead of the user counts.
OutdatedAhead == {s \in recheck.streams : s.dev \in present /\ s.version > version}

Outdated == {s \in recheck.streams : s.dev \in present /\ s.version # version}

\* One statement reads the devices with their user; planRevalidation compares the rows with
\* the listed streams.
RecheckRead ==
  /\ recheck.phase = "listed"
  /\ recheck' = [phase |-> "planned", gone |-> Gone, outdated |-> Outdated]
  /\ UNCHANGED <<rows, news, admitted, opened, streams, effects, timer>>

\* Variant: an outdated stream closes all the streams of its device.
RecheckApplyDevices ==
  /\ recheck.phase = "planned"
  /\ streams' = {s \in streams : s.dev \notin recheck.gone \cup {o.dev : o \in recheck.outdated}}
  /\ recheck' = Idle
  /\ UNCHANGED <<rows, news, admitted, opened, effects, timer>>

\* applyRevalidation, after the query: every stream a removed device has by now closes, and
\* those of the listed streams whose token is of another auth_version.
RecheckApply ==
  /\ recheck.phase = "planned"
  /\ streams' = {s \in streams : s.dev \notin recheck.gone} \ recheck.outdated
  /\ recheck' = Idle
  /\ UNCHANGED <<rows, news, admitted, opened, effects, timer>>

\* The database fails: the next beat tries again.
RecheckFails ==
  /\ recheck.phase = "listed"
  /\ recheck' = Idle
  /\ UNCHANGED <<rows, news, admitted, opened, streams, effects, timer>>

\* closeAll, or the process dies: streams, windows and what was still to be done are gone.
Restart ==
  /\ writing' = {}
  /\ reading' = {}
  /\ admitted' = {}
  /\ streams' = {}
  /\ window' = FALSE
  /\ authors' = {}
  /\ effects' = {}
  /\ timer' = FALSE
  /\ recheck' = Idle
  /\ UNCHANGED <<rows, commits, seen, opened>>

-----------------------------------------------------------------------------
Next ==
  \/ \E d \in Device : Admit(d) \/ Commit(d) \/ Publish(d) \/ ReadPage(d) \/ Remove(d)
  \/ \E r \in admitted : Open(r)
  \/ \E s \in streams : Leave(s)
  \/ \E devices \in effects : Close(devices)
  \/ Flush
  \/ ChangePassword
  \/ Beat
  \/ RecheckRead
  \/ RecheckApply
  \/ RecheckFails
  \/ Restart

Spec == Init /\ [][Next]_vars

\* Timers fire and statements return; the database does not fail every recheck.
FairSpec ==
  Spec /\ WF_vars(Beat) /\ SF_vars(RecheckRead) /\ WF_vars(RecheckApply)

-----------------------------------------------------------------------------
(***************************************************************************)
(* Properties                                                              *)
(***************************************************************************)

Version == 1 .. MaxChanges + 1
Stream == [id : 1 .. MaxOpened, dev : Device, version : Version]

\* A recheck holds what its phase needs, and an id names one opened stream.
TypeOK ==
  /\ present \subseteq Device
  /\ version \in Version
  /\ commits \in 0 .. MaxChanges
  /\ writing \subseteq Device /\ reading \subseteq Device
  /\ seen \in [Device -> 0 .. MaxChanges]
  /\ admitted \subseteq [dev : Device, version : Version]
  /\ opened \in 0 .. MaxOpened
  /\ streams \subseteq Stream
  /\ \A s \in streams : s.id <= opened /\ \A n \in streams : n.id = s.id => n = s
  /\ window \in BOOLEAN
  /\ authors \subseteq Device
  /\ effects \subseteq SUBSET Device
  /\ timer \in BOOLEAN
  /\ \/ recheck = Idle
     \/ recheck \in [phase : {"listed"}, streams : SUBSET Stream]
     \/ recheck \in [phase : {"planned"}, gone : SUBSET Device, outdated : SUBSET Stream]

\* However streams open and evict each other, no device and no user has more than its
\* limit, and (API 6) it is always the older streams of a device that went.
WithinLimits ==
  /\ Cardinality(streams) <= MaxPerUser
  /\ \A d \in Device : Cardinality(Of(streams, d)) <= MaxPerDevice

\* Opening a stream never closes it or a newer one while an older one of its device stays.
OldestGoFirst ==
  [][opened' # opened =>
       /\ \E s \in streams' : s.id = opened'
       /\ \A s \in streams \ streams', kept \in streams' : kept.dev = s.dev => kept.id > s.id]_vars

\* No lost wake-up: when no write is on its way to the hub, nothing waits in the window and
\* the authors have their answers, every device with a stream was told of every write,
\* whichever events merged and whoever was skipped as an author.
NobodyMissesNews ==
  writing = {} /\ reading = {} /\ authors = {} =>
    \A s \in streams : seen[s.dev] = commits

\* The heartbeat never stops while a stream is open, whatever opens and closes between beats.
HeartbeatRuns == streams # {} => timer

Stale(s) == s.dev \notin present \/ s.version # version

\* A recheck that acts on rows read a while ago closes no stream that is good now, also none
\* that its device opened in the meantime.
RecheckSparesGood ==
  [][recheck.phase = "planned" /\ recheck'.phase = "idle" /\ streams' # {} =>
       \A s \in streams \ streams' : Stale(s)]_vars

\* A stream of a removed device, or with a token of an older auth_version, does not stay:
\* not when its request passed the guard before the change and opened after its effects, and
\* not when another process made the change.
StaleStreamsClose ==
  \A i \in 1 .. MaxOpened :
    (\E s \in streams : s.id = i /\ Stale(s)) ~> (\A s \in streams : s.id # i)
=============================================================================
