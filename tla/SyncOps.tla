------------------------------- MODULE SyncOps -------------------------------
(***************************************************************************)
(* POST /sync with ops: the op runner of sync.service.ts, the registers of *)
(* likes, bookmarks, overrides and lyrics pins (ops/*-set.ts, wins.ts,     *)
(* quotas.ts), the track metadata (tracks.ts), the journal sync_ops, and   *)
(* the devices that keep an outbox and repeat a request whose answer they  *)
(* missed.                                                                 *)
(*                                                                         *)
(* What a request reads is SyncPull's, over the rows of this module;       *)
(* Pull!Spec is the property that the op runner implements SyncPull.       *)
(***************************************************************************)
EXTENDS Integers, Sequences, FiniteSets, Functions

CONSTANTS
  Device,      \* device ids; the code compares them as strings, here they are numbers
  Register,    \* what the user sets: a like of a track, a bookmark, an override or a pin
  KindOf,      \* the kind of a register
  Meta,        \* contents of an op that differ
  Stub,        \* no content: a track nobody described, a field left out, a removed override
  Quota,       \* the limit of rows of a kind
  TracksQuota, \* TRACKS_QUOTA.limit
  MaxOps,      \* bound: ops the user makes
  MaxTime,     \* bound: the clocks
  Ahead,       \* bound: how far a device's clock runs ahead of the server's
  MaxLimit,    \* bound: the largest page size a device asks for
  MaxEpoch,    \* bound: epochs a behaviour uses
  MaxStray     \* bound: abandoned requests the server is still to run at a time

ASSUME DeviceAssumption == Device \subseteq Nat \ {0} /\ IsFiniteSet(Device)
ASSUME MetaAssumption == Stub \notin Meta
ASSUME KindAssumption == KindOf \in [Register -> {"like", "bookmark", "override", "pin"}]
ASSUME FiniteAssumption == IsFiniteSet(Register)
ASSUME BoundAssumption ==
  /\ MaxOps \in Nat /\ MaxTime \in Nat \ {0} /\ Ahead \in Nat
  /\ MaxLimit \in Nat /\ MaxEpoch \in Nat /\ MaxStray \in Nat
ASSUME QuotaAssumption == Quota \in [Range(KindOf) -> Nat] /\ TracksQuota \in Nat

VARIABLES
  epoch, seq,  \* sync_heads
  registers,   \* the rows of all kinds: seq 0 stands for no row; at and dev are clk_at and clk_dev
  tracks,      \* sync_tracks
  journal,     \* sync_ops
  backup,      \* the last copy of the database; epoch 0: none was made
  clock,       \* the server's clock
  ops,         \* every op the user made; an opId is its position
  outbox,      \* the ops a device has yet to see answered
  sent,        \* the ops in the request a device waits for
  settled,     \* the ops its response takes out of the outbox
  stray,       \* abandoned requests the server is still to run
  unpublished, req, resp, cur, copy, want, late  \* as in SyncPull

pull == <<unpublished, req, resp, cur, copy, want, late>>
state == <<seq, registers, tracks, journal>>
box == <<clock, ops, outbox>>
vars == <<epoch, state, backup, box, sent, settled, stray, pull>>

OpId == 1 .. MaxOps
\* The tracks of the liked videos.
Video == {r \in Register : KindOf[r] = "like"}
Kinds == Range(KindOf)
Key == {<<KindOf[r], r>> : r \in Register} \cup ({"track"} \X Video)
NoRow == [seq |-> 0, on |-> FALSE, meta |-> Stub, at |-> 0, dev |-> 0]
NoTrack == [seq |-> 0, meta |-> Stub]
NoEntry == [seq |-> 0, status |-> "none"]

\* SyncPull over the registers and tracks of this module.
RowSeq(rs, ts) == [k \in Key |-> IF k[1] = "track" THEN ts[k[2]].seq ELSE rs[k[2]].seq]
Pull == INSTANCE SyncPull WITH
  Client <- Device,
  Table <- Kinds \cup {"track"},
  TableOf <- [k \in Key |-> k[1]],
  Library <- Kinds \cup {"track"},
  Removable <- {},
  Streams <- {{"library", "history"}},
  MaxSeq <- 3 * MaxOps,
  MaxBatch <- 3 * MaxOps,
  row <- RowSeq(registers, tracks),
  backup <- [epoch |-> backup.epoch, seq |-> backup.seq, row |-> RowSeq(backup.registers, backup.tracks)],
  orphans <- {s.dev : s \in stray}

Init ==
  /\ registers = [r \in Register |-> NoRow]
  /\ tracks = [v \in Video |-> NoTrack]
  /\ journal = [o \in OpId |-> NoEntry]
  /\ backup = [epoch |-> 0, seq |-> 0, registers |-> registers, tracks |-> tracks, journal |-> journal]
  /\ clock = 1
  /\ ops = <<>>
  /\ outbox = [d \in Device |-> {}]
  /\ sent = [d \in Device |-> {}]
  /\ settled = [d \in Device |-> {}]
  /\ stray = {}
  /\ epoch = 1
  /\ seq = 0
  /\ unpublished = {}
  /\ req = [d \in Device |-> Pull!Idle]
  /\ resp = [d \in Device |-> Pull!NoResponse]
  /\ cur = [d \in Device |-> Pull!Start]
  /\ copy = [d \in Device |-> Pull!Nothing]
  /\ want = [d \in Device |-> TRUE]
  /\ late = {}

-----------------------------------------------------------------------------
(***************************************************************************)
(* One op: applyOne, with the handlers of like.set, bookmark.set,          *)
(* track.override.set and lyrics.pin.set.  `s` is what the write           *)
(* transaction has written so far.                                         *)
(***************************************************************************)

NoBase == -1
Smaller(a, b) == IF a < b THEN a ELSE b
EffectiveAt(at) == Smaller(at, clock)

\* baseSeq: "" is 0; another epoch or a cursor beyond the head says nothing.
BaseSeq(base) ==
  IF base = Pull!Start THEN 0
  ELSE IF base.epoch # epoch \/ base.lib > seq THEN NoBase ELSE base.lib

\* wins.ts: the author had seen the stored value, or the edits are concurrent and this is the later one.
Wins(reg, base, effAt, dev) ==
  \/ reg.seq = 0
  \/ base # NoBase /\ reg.seq <= base
  \/ effAt > reg.at
  \/ effAt = reg.at /\ dev >= reg.dev

Used(rows) == Cardinality({r \in DOMAIN rows : rows[r].seq # 0})
UsedOf(rows, kind) == Used([r \in {q \in DOMAIN rows : KindOf[q] = kind} |-> rows[r]])

\* like.set keeps no fields.
LikeImage(op) == [on |-> op.on, meta |-> Stub]

\* bookmark.set keeps the stored fields the op leaves out.
BookmarkImage(reg, op) == [on |-> op.on, meta |-> IF op.meta = Stub THEN reg.meta ELSE op.meta]

\* track.override.set and lyrics.pin.set replace the whole row; without content it is removed.
DescribedImage(op) == [on |-> op.meta # Stub, meta |-> op.meta]

\* What the row would say.
Image(reg, op) ==
  CASE KindOf[op.key] = "like" -> LikeImage(op)
    [] KindOf[op.key] = "bookmark" -> BookmarkImage(reg, op)
    [] OTHER -> DescribedImage(op)

\* Without a row everything is off already.
Unchanged(reg, op) ==
  IF reg.seq = 0 THEN ~op.on ELSE Image(reg, op) = [on |-> reg.on, meta |-> reg.meta]

SetRegister(s, op) ==
  LET reg == s.registers[op.key]
      at == EffectiveAt(op.at)
      image == Image(reg, op)
      written == [seq |-> s.seq + 1, on |-> image.on, meta |-> image.meta, at |-> at, dev |-> op.dev]
  IN IF Unchanged(reg, op)
       THEN [s EXCEPT !.status = "applied"]
     ELSE IF ~Wins(reg, BaseSeq(op.base), at, op.dev)
       THEN [s EXCEPT !.status = "superseded"]
     ELSE IF reg.seq = 0 /\ UsedOf(s.registers, KindOf[op.key]) >= Quota[KindOf[op.key]]
       THEN [s EXCEPT !.status = "deferred"]
     ELSE [s EXCEPT !.status = "applied", !.seq = s.seq + 1, !.registers[op.key] = written]

\* Metadata rewrites a stored row that differs.
MetadataReplaces(stored, meta) == meta # Stub /\ meta # stored.meta

\* upsertTracks: a like names its track.  A missing row is created while there is room, as a
\* stub when no metadata came; metadata that differs replaces a stored row.
UpsertTrack(s, op) ==
  LET stored == s.tracks[op.key]
      room == Used(s.tracks) < TracksQuota
  IN IF /\ op.key \in Video /\ op.on
        /\ IF stored.seq = 0 THEN room ELSE MetadataReplaces(stored, op.meta)
       THEN [s EXCEPT !.seq = s.seq + 1,
                      !.tracks[op.key] = [seq |-> s.seq + 1, meta |-> op.meta]]
       ELSE s

\* Only an op that wrote something is journaled, under a seq of its own.
Journal(before, s, o) ==
  IF s.seq = before
    THEN s
    ELSE [s EXCEPT !.seq = s.seq + 1,
                   !.journal[o] = [seq |-> s.seq + 1, status |-> s.status]]

\* Variant: a deferred op counts as settled.
AnsweredAlways(s, o) == [s EXCEPT !.results[o] = "applied"]

\* results.push(...): the status of every op of the request.
Answered(s, o) == [s EXCEPT !.results[o] = s.status]

Fresh(s, o) ==
  LET set == SetRegister(s, ops[o])
  IN IF set.status = "deferred" THEN set ELSE Journal(s.seq, UpsertTrack(set, ops[o]), o)

\* Variant: findPrevious finds nothing.
RunOpNoReplay(s, o) == Answered(Fresh(s, o), o)

\* Variant: a replayed op gets no result of its own.
RunOpReplayUnanswered(s, o) ==
  IF s.journal[o].seq # 0 THEN s ELSE Answered(Fresh(s, o), o)

\* An op of the journal is replayed: its earlier result, no effect.
RunOp(s, o) ==
  Answered(IF s.journal[o].seq # 0 THEN [s EXCEPT !.status = s.journal[o].status] ELSE Fresh(s, o), o)

\* What the transaction has written before its first op.
Begin ==
  [registers |-> registers, tracks |-> tracks, journal |-> journal, seq |-> seq,
   results |-> [o \in OpId |-> "none"], status |-> "none"]

\* applyOps: every op of the request in order, in one write transaction.  A device sends ops in the
\* order they were made, so a request is the set of its ops.
Run(request) ==
  LET run[o \in 0 .. MaxOps] ==
        IF o = 0 THEN Begin
        ELSE IF o \in request THEN RunOp(run[o - 1], o) ELSE run[o - 1]
  IN run[MaxOps]

-----------------------------------------------------------------------------
(***************************************************************************)
(* The server.                                                             *)
(***************************************************************************)

\* Variant: the head moves by one per op.
WriteHeadPerOp(d, request) ==
  LET run == Run(request)
  IN /\ registers' = run.registers
     /\ tracks' = run.tracks
     /\ journal' = run.journal
     /\ seq' = IF run.seq = seq THEN seq ELSE seq + Cardinality(request)
     /\ unpublished' = IF run.seq = seq THEN unpublished ELSE unpublished \cup {d}

\* The write transaction under lockUser, bumpHead, and the event it owes.
Write(d, request) ==
  LET run == Run(request)
  IN /\ registers' = run.registers
     /\ tracks' = run.tracks
     /\ journal' = run.journal
     /\ seq' = run.seq
     /\ unpublished' = IF run.seq = seq THEN unpublished ELSE unpublished \cup {d}

\* Every answer but `deferred` takes the op out of the device's outbox.
Settled(results) == {o \in OpId : results[o] \notin {"none", "deferred"}}

DeviceCommit(d) ==
  /\ req[d].phase = "sent"
  /\ sent[d] # {}
  /\ ~Pull!Invalid(cur[d])
  /\ Write(d, sent[d])
  /\ req' = [req EXCEPT ![d].phase = "written"]
  /\ settled' = [settled EXCEPT ![d] = Settled(Run(sent[d]).results)]
  /\ UNCHANGED <<epoch, backup, box, sent, stray, resp, cur, copy, want, late>>

\* The server runs a request nobody waits for; its cursor is checked as any other.
StrayCommit(s) ==
  /\ s \in stray
  /\ stray' = stray \ {s}
  /\ IF Pull!Invalid(s.cursor)
       THEN UNCHANGED <<state, unpublished, late>>
       ELSE /\ Write(s.dev, s.ops)
            /\ late' = IF seq' = seq THEN late ELSE late \cup {s.dev}
  /\ UNCHANGED <<epoch, backup, box, sent, settled, req, resp, cur, copy, want>>

\* Forced rows: what the ops touched, whatever their status.
Touched(d) == {<<KindOf[ops[o].key], ops[o].key>> : o \in sent[d]}

\* Variant: the response carries no satellites.
SatellitesNone(keys) == {}

\* readSatellites: the tracks of the liked likes in the response.
Satellites(keys) == {<<"track", v>> : v \in {u \in Video : <<"like", u>> \in keys /\ registers[u].on}}

\* The read transaction, after the ops if there were any.
Read(d) ==
  /\ req[d].phase = "written" \/ sent[d] = {}
  /\ UNCHANGED <<epoch, state, backup, box, sent, settled, stray>>
  /\ \E lib \in Pull!LibraryReads(d) : \E hist \in Pull!HistoryReads(d, lib) :
       Pull!Answer(d, lib, hist, Touched(d) \cup Satellites(lib.taken \cup Touched(d)))

Refuse(d) ==
  /\ UNCHANGED <<epoch, state, backup, box, sent, settled, stray>>
  /\ Pull!Refuse(d)

Publish(d) ==
  /\ UNCHANGED <<epoch, state, backup, box, sent, settled, stray>>
  /\ Pull!Publish(d)

Tick ==
  /\ clock < MaxTime
  /\ clock' = clock + 1
  /\ UNCHANGED <<epoch, state, backup, ops, outbox, sent, settled, stray, pull>>

-----------------------------------------------------------------------------
(***************************************************************************)
(* A device.                                                               *)
(***************************************************************************)

\* The last time a device stamped on an op; its clock only moves forward.
LastAt(d) ==
  LET stamps == {ops[o].at : o \in {p \in DOMAIN ops : ops[p].dev = d}}
  IN IF stamps = {} THEN 0 ELSE CHOOSE t \in stamps : \A u \in stamps : u <= t

\* An unlike names no track; overrides and pins are set by what they say.
Makes(key, on, meta) ==
  /\ key \in Video => on \/ meta = Stub
  /\ KindOf[key] \in {"override", "pin"} => on = (meta # Stub)

\* The user sets a register: one row of the outbox, based on the device's cursor.
Act(d, key, on, at, meta) ==
  /\ Len(ops) < MaxOps /\ Makes(key, on, meta)
  /\ LastAt(d) < at /\ at <= clock + Ahead
  /\ ops' = Append(ops, [dev |-> d, key |-> key, on |-> on, at |-> at,
                        base |-> cur[d], meta |-> meta])
  /\ outbox' = [outbox EXCEPT ![d] = outbox[d] \cup {Len(ops) + 1}]
  /\ want' = [want EXCEPT ![d] = TRUE]
  /\ UNCHANGED <<epoch, state, backup, clock, sent, settled, stray, unpublished, req, resp, cur, copy, late>>

\* Any reason to pull; the loop goes on while the outbox holds ops.
Wake(d) ==
  /\ UNCHANGED <<epoch, state, backup, box, sent, settled, stray>>
  /\ Pull!Wake(d)

\* One request at a time, with the ops of the outbox up to the last one (fewer after a failure, down
\* to a pull without ops).
Send(d, last, limit) ==
  /\ UNCHANGED <<epoch, state, backup, box, settled, stray>>
  /\ sent' = [sent EXCEPT ![d] = {o \in outbox[d] : o <= last}]
  /\ Pull!Send(d, limit, Pull!Both)

\* The results and the rows are stored in one local transaction.
Deliver(d) ==
  /\ UNCHANGED <<epoch, state, backup, clock, ops, stray>>
  /\ outbox' = [outbox EXCEPT ![d] = outbox[d] \ settled[d]]
  /\ sent' = [sent EXCEPT ![d] = {}]
  /\ settled' = [settled EXCEPT ![d] = {}]
  /\ Pull!Deliver(d)

\* 410: the client merges without a dialog (DESIGN 3.14): it offers its intents again, their
\* base of an old epoch counting for nothing.  The upload of the rest of its state is left out.
StartOver(d) ==
  /\ UNCHANGED <<epoch, state, backup, box, stray>>
  /\ sent' = [sent EXCEPT ![d] = {}]
  /\ settled' = [settled EXCEPT ![d] = {}]
  /\ Pull!StartOver(d)

\* The answer is lost or late; the server may still run the request.
Abandon(d) ==
  /\ UNCHANGED <<epoch, state, backup, box>>
  /\ stray' \in IF req[d].phase = "sent" /\ sent[d] # {} /\ Cardinality(stray) < MaxStray
                  THEN {stray, stray \cup {[dev |-> d, ops |-> sent[d], cursor |-> cur[d]]}}
                  ELSE {stray}
  /\ sent' = [sent EXCEPT ![d] = {}]
  /\ settled' = [settled EXCEPT ![d] = {}]
  /\ Pull!Abandon(d)

-----------------------------------------------------------------------------
\* The server forgets its requests; a device notices when no answer comes.
Crashed ==
  /\ stray' = {}
  /\ sent' = [d \in Device |-> IF req[d].phase \in {"sent", "written"} THEN {} ELSE sent[d]]
  /\ settled' = [d \in Device |-> IF req[d].phase = "written" THEN {} ELSE settled[d]]
  /\ UNCHANGED box

Crash ==
  /\ Crashed
  /\ UNCHANGED <<epoch, state, backup>>
  /\ Pull!Crash

TakeBackup ==
  /\ backup' = [epoch |-> epoch, seq |-> seq, registers |-> registers, tracks |-> tracks, journal |-> journal]
  /\ UNCHANGED <<epoch, state, box, sent, settled, stray>>
  /\ Pull!TakeBackup

\* Registers, tracks and journal go back together; the devices keep their outboxes.
Restore ==
  /\ Crashed
  /\ registers' = backup.registers
  /\ tracks' = backup.tracks
  /\ journal' = backup.journal
  /\ seq' = backup.seq
  /\ epoch' = epoch + 1
  /\ UNCHANGED backup
  /\ Pull!Restore

RotateEpoch ==
  /\ epoch' = epoch + 1
  /\ UNCHANGED <<state, backup, box, sent, settled, stray>>
  /\ Pull!RotateEpoch

Writes ==
  \/ \E d \in Device : DeviceCommit(d)
  \/ \E s \in stray : StrayCommit(s)

Others ==
  \/ \E d \in Device :
       \/ Read(d)
       \/ Refuse(d)
       \/ Publish(d)
       \/ \E key \in Register, on \in BOOLEAN, at \in 1 .. MaxTime + Ahead, meta \in Meta \cup {Stub} :
            Act(d, key, on, at, meta)
       \/ Wake(d)
       \/ \E last \in {0} \cup outbox[d], limit \in 1 .. MaxLimit :
            Send(d, last, limit)
       \/ Deliver(d)
       \/ StartOver(d)
       \/ Abandon(d)
  \/ Tick
  \/ Crash
  \/ TakeBackup
  \/ Restore
  \/ RotateEpoch

Next == Writes \/ Others

Spec == Init /\ [][Next]_vars

\* The loop of a device does not stop while its outbox holds ops, and offers the whole of it
\* again and again (pulls without ops come in between).  Of these requests some reach the
\* server, some are then read, and some answers arrive.
Loop(d) ==
  \/ (outbox[d] # {} /\ Wake(d))
  \/ Send(d, Len(ops), 1)
  \/ DeviceCommit(d) \/ Read(d) \/ Refuse(d)
  \/ Deliver(d) \/ StartOver(d)

Fairness ==
  \A d \in Device :
    /\ WF_vars(Loop(d))
    /\ SF_vars(Send(d, Len(ops), 1))
    /\ SF_vars(DeviceCommit(d) \/ Refuse(d))
    /\ SF_vars(sent[d] # {} /\ Read(d))
    /\ SF_vars((sent[d] # {} /\ Deliver(d)) \/ StartOver(d))

FairSpec == Spec /\ Fairness

-----------------------------------------------------------------------------
(***************************************************************************)
(* Properties                                                              *)
(***************************************************************************)

Entry == {NoEntry} \cup [seq : Nat \ {0}, status : {"applied", "superseded"}]
Op == [dev : Device, key : Register, on : BOOLEAN, at : Nat, base : Pull!Cursor, meta : Meta \cup {Stub}]

\* The registers, tracks, journal, outboxes and requests have their types.
TypeOK ==
  /\ Pull!TypeOK
  /\ registers \in [Register -> [seq : Nat, on : BOOLEAN, meta : Meta \cup {Stub}, at : Nat, dev : Device \cup {0}]]
  /\ tracks \in [Video -> [seq : Nat, meta : Meta \cup {Stub}]]
  /\ journal \in [OpId -> Entry]
  /\ backup.journal \in [OpId -> Entry]
  /\ clock \in 1 .. MaxTime
  /\ ops \in Seq(Op)
  /\ outbox \in [Device -> SUBSET OpId]
  /\ sent \in [Device -> SUBSET OpId]
  /\ settled \in [Device -> SUBSET OpId]
  /\ stray \subseteq [dev : Device, ops : SUBSET OpId, cursor : Pull!Cursor]

\* A stored like has its track row, unless the tracks are full (upsertTracks runs after every op that
\* names the track, whatever register it won or lost); and a device never shows a like whose
\* track it does not have, even when the page budget or the touched keys split the two
\* rows (readSatellites).
LikesHaveTracks ==
  \A v \in Video : registers[v].on =>
    /\ tracks[v].seq # 0 \/ Used(tracks) >= TracksQuota
    /\ \A d \in Device :
         /\ cur[d].epoch = epoch
         /\ copy[d][<<"like", v>>] = registers[v].seq
         /\ tracks[v].seq # 0
         => copy[d][<<"track", v>>] # 0

\* The user's last word on a register, once its op has left the outbox, is what the server
\* holds, unless another device spoke or a copy was restored: no lost answer, repeat, deferral
\* or abandoned request that runs late takes it back.
LastWordKept ==
  \A o \in DOMAIN ops :
    LET d == ops[o].dev
        r == ops[o].key
    IN /\ \A p \in DOMAIN ops : ops[p].key = r => ops[p].dev = d /\ p <= o
       /\ o \notin outbox[d]
       /\ backup.epoch = 0
       => /\ registers[r].on = ops[o].on
          /\ r \notin Video /\ ops[o].on /\ ops[o].meta # Stub => registers[r].meta = ops[o].meta

\* An effect is applied once: an op of the journal keeps its entry and its result however
\* often and however late the request is repeated (findPrevious).
EffectOnce ==
  [][epoch' = epoch =>
       \A o \in OpId : journal[o].seq # 0 => journal'[o] = journal[o]]_vars

\* The op runner implements SyncPull: its transactions are writes of fresh, unique seqs,
\* announced to the other devices, and what devices read is complete.
Implements == Pull!Spec

\* Once the user stops, every outbox drains, unless a kind is full: no lost answer, repeat,
\* crash, 410 or rotated epoch leaves an op in it.
OutboxDrains ==
  <>[](\/ \A d \in Device : outbox[d] = {}
       \/ \E kind \in Kinds : UsedOf(registers, kind) >= Quota[kind])
=============================================================================
