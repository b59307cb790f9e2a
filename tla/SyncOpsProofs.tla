--------------------------- MODULE SyncOpsProofs ----------------------------
(***************************************************************************)
(* Proofs about SyncOps for every value of its constants: the op runner    *)
(* implements SyncPull, a journaled op has its effect once, no device      *)
(* shows a like without its track, and the user's last word stays.         *)
(***************************************************************************)
EXTENDS SyncOps, FiniteSetTheorems, TLAPS

-----------------------------------------------------------------------------
(***************************************************************************)
(* What is proved of SyncPull, for the rows of this module.                *)
(***************************************************************************)

PP == INSTANCE SyncPullProofs WITH
  Client <- Device,
  Table <- Kinds \cup {"track"},
  TableOf <- [k \in Key |-> k[1]],
  Library <- Kinds \cup {"track"},
  Removable <- {},
  Streams <- {{"library", "history"}},
  MaxSeq <- 3 * MaxOps,
  MaxBatch <- 3 * MaxOps,
  row <- RowSeq(registers, tracks),
  backup <- [epoch |-> backup.epoch, seq |-> backup.seq, row |-> RowSeq(backup.registers, backup.tracks)],
  orphans <- {s.dev : s \in stray}

\* The keys: a row of each register, and a track of each liked video.
LEMMA KeyFacts ==
  /\ \A r \in Register : KindOf[r] \in {"like", "bookmark", "override", "pin"} /\ <<KindOf[r], r>> \in Key
  /\ \A v \in Video : <<"track", v>> \in Key /\ v \in Register /\ KindOf[v] = "like"
  /\ \A k \in Key : \/ \E r \in Register : k = <<KindOf[r], r>>
                     \/ \E v \in Video : k = <<"track", v>>
<1>1. \A r \in Register : KindOf[r] \in {"like", "bookmark", "override", "pin"} /\ <<KindOf[r], r>> \in Key
  BY KindAssumption DEF Key
<1>2. \A v \in Video : <<"track", v>> \in Key /\ v \in Register /\ KindOf[v] = "like"
  BY DEF Key, Video
<1>3. ASSUME NEW k \in Key
      PROVE  \/ \E r \in Register : k = <<KindOf[r], r>>
             \/ \E v \in Video : k = <<"track", v>>
  BY DEF Key
<1> QED
  BY <1>1, <1>2, <1>3

LEMMA RowFacts ==
  ASSUME NEW rs, NEW ts
  PROVE  /\ RowSeq(rs, ts) = [k \in Key |-> RowSeq(rs, ts)[k]]
         /\ \A r \in Register : RowSeq(rs, ts)[<<KindOf[r], r>>] = rs[r].seq
         /\ \A v \in Video : RowSeq(rs, ts)[<<"track", v>>] = ts[v].seq
<1>1. RowSeq(rs, ts) = [k \in Key |-> RowSeq(rs, ts)[k]]
  BY DEF RowSeq
<1>2. \A r \in Register : RowSeq(rs, ts)[<<KindOf[r], r>>] = rs[r].seq
  BY KeyFacts DEF RowSeq
<1>3. \A v \in Video : RowSeq(rs, ts)[<<"track", v>>] = ts[v].seq
  BY KeyFacts DEF RowSeq
<1> QED
  BY <1>1, <1>2, <1>3

\* The assumptions of SyncPull.
LEMMA PullAssumptions == PP!KeyAssumption /\ PP!BoundAssumption /\ PP!StreamAssumption
<1>1. IsFiniteSet(Key)
  <2>1. IsFiniteSet(Register) /\ IsFiniteSet(Video)
    BY FiniteAssumption, FS_Subset DEF Video
  <2>2. IsFiniteSet({"like", "bookmark", "override", "pin", "track"})
    <3>1. IsFiniteSet({})
      BY FS_EmptySet
    <3>2. IsFiniteSet({} \cup {"like"} \cup {"bookmark"} \cup {"override"} \cup {"pin"} \cup {"track"})
      BY <3>1, FS_AddElement
    <3>3. {} \cup {"like"} \cup {"bookmark"} \cup {"override"} \cup {"pin"} \cup {"track"}
            = {"like", "bookmark", "override", "pin", "track"}
      OBVIOUS
    <3> QED
      BY <3>2, <3>3
  <2>3. IsFiniteSet({"like", "bookmark", "override", "pin", "track"} \X Register)
    BY <2>1, <2>2, FS_Product
  <2>4. Key \subseteq {"like", "bookmark", "override", "pin", "track"} \X Register
    BY KindAssumption DEF Key, Video
  <2> QED
    BY <2>3, <2>4, FS_Subset
<1>2. PP!KeyAssumption
  <2>1. [k \in Key |-> k[1]] \in [Key -> Kinds \cup {"track"}]
    <3> SUFFICES ASSUME NEW k \in Key PROVE k[1] \in Kinds \cup {"track"}
      OBVIOUS
    <3>1. CASE \E r \in Register : k = <<KindOf[r], r>>
      BY <3>1, KindAssumption DEF Kinds, Range
    <3>2. CASE \E v \in Video : k = <<"track", v>>
      BY <3>2
    <3> QED
      BY <3>1, <3>2, KeyFacts
  <2>2. PP!IsFiniteSet(Key)
    BY <1>1 DEF PP!IsFiniteSet, IsFiniteSet
  <2> QED
    BY <2>1, <2>2 DEF PP!KeyAssumption
<1>3. PP!BoundAssumption
  BY BoundAssumption DEF PP!BoundAssumption
<1>4. PP!StreamAssumption
  BY DEF PP!StreamAssumption
<1> QED
  BY <1>2, <1>3, <1>4

LEMMA SamePull ==
  /\ Pull!Init => PP!Init
  /\ [Pull!Next]_Pull!vars => [PP!Next]_PP!vars
<1>1. Pull!Init => PP!Init
  BY DEF Pull!Init, PP!Init, Pull!Nothing, PP!Nothing, Pull!Idle, PP!Idle, Pull!NoResponse, PP!NoResponse, Pull!Start, PP!Start, Pull!Both, PP!Both
<1>2. UNCHANGED Pull!vars => UNCHANGED PP!vars
  BY DEF Pull!vars, PP!vars
<1>3. ASSUME NEW c, Pull!DeviceCommit(c) PROVE PP!DeviceCommit(c)
  BY <1>3 DEF Pull!DeviceCommit, PP!DeviceCommit, Pull!Commit, PP!Commit, Pull!Rows, PP!Rows, Pull!Invalid, PP!Invalid, Pull!Start, PP!Start
<1>4. ASSUME NEW c, Pull!LateCommit(c) PROVE PP!LateCommit(c)
  BY <1>4 DEF Pull!LateCommit, PP!LateCommit, Pull!Commit, PP!Commit, Pull!Rows, PP!Rows, Pull!device, PP!device
<1>5. ASSUME NEW c, NEW extra, Pull!Read(c, extra) PROVE PP!Read(c, extra)
  BY <1>5 DEF Pull!Read, PP!Read, Pull!LibraryReads, PP!LibraryReads, Pull!HistoryReads, PP!HistoryReads,
   Pull!Answer, PP!Answer, Pull!Invalid, PP!Invalid, Pull!Start, PP!Start, Pull!ResponseRows, PP!ResponseRows, Pull!db, PP!db,
   Pull!StreamReads, PP!StreamReads, Pull!Skipped, PP!Skipped, Pull!StreamPage, PP!StreamPage, Pull!Cut, PP!Cut, Pull!Ends, PP!Ends,
   Pull!TableReads, PP!TableReads, Pull!IsFirst, PP!IsFirst, Pull!Unseen, PP!Unseen, Pull!Keys, PP!Keys, Pull!History, PP!History,
   Pull!Cardinality, PP!Cardinality
<1>6. ASSUME NEW c, NEW limit, NEW streams, Pull!Send(c, limit, streams) PROVE PP!Send(c, limit, streams)
  BY <1>6 DEF Pull!Send, PP!Send, Pull!Both, PP!Both, Pull!db, PP!db
<1>7. ASSUME NEW c, Pull!Publish(c) PROVE PP!Publish(c)
  BY <1>7 DEF Pull!Publish, PP!Publish, Pull!db, PP!db
<1>8. ASSUME NEW c, Pull!Wake(c) PROVE PP!Wake(c)
  BY <1>8 DEF Pull!Wake, PP!Wake, Pull!db, PP!db
<1>9. ASSUME NEW c, Pull!Refuse(c) PROVE PP!Refuse(c)
  BY <1>9 DEF Pull!Refuse, PP!Refuse, Pull!Invalid, PP!Invalid, Pull!Start, PP!Start, Pull!db, PP!db
<1>10. ASSUME NEW c, Pull!Deliver(c) PROVE PP!Deliver(c)
  BY <1>10 DEF Pull!Deliver, PP!Deliver, Pull!Idle, PP!Idle, Pull!NoResponse, PP!NoResponse, Pull!Nothing, PP!Nothing, Pull!Both, PP!Both, Pull!Start, PP!Start, Pull!db, PP!db
<1>11. ASSUME NEW c, Pull!StartOver(c) PROVE PP!StartOver(c)
  BY <1>11 DEF Pull!StartOver, PP!StartOver, Pull!Idle, PP!Idle, Pull!Nothing, PP!Nothing, Pull!Both, PP!Both, Pull!Start, PP!Start, Pull!db, PP!db
<1>12. ASSUME NEW c, Pull!Abandon(c) PROVE PP!Abandon(c)
  BY <1>12 DEF Pull!Abandon, PP!Abandon, Pull!Idle, PP!Idle, Pull!NoResponse, PP!NoResponse, Pull!Nothing, PP!Nothing, Pull!Both, PP!Both, Pull!Start, PP!Start, Pull!db, PP!db
<1>13. Pull!Crash => PP!Crash
  BY DEF Pull!Crash, PP!Crash, Pull!Crashed, PP!Crashed, Pull!Idle, PP!Idle, Pull!Both, PP!Both, Pull!db, PP!db
<1>14. Pull!TakeBackup => PP!TakeBackup
  BY DEF Pull!TakeBackup, PP!TakeBackup, Pull!db, PP!db, Pull!device, PP!device
<1>15. Pull!Restore => PP!Restore
  BY DEF Pull!Restore, PP!Restore, Pull!Crashed, PP!Crashed, Pull!Idle, PP!Idle, Pull!Both, PP!Both
<1>16. Pull!RotateEpoch => PP!RotateEpoch
  BY DEF Pull!RotateEpoch, PP!RotateEpoch, Pull!device, PP!device
<1>17. ASSUME NEW gone, Pull!Retain(gone) PROVE PP!Retain(gone)
  BY <1>17 DEF Pull!Retain, PP!Retain, Pull!device, PP!device
<1>18. Pull!Next => PP!Next
  BY <1>3, <1>4, <1>5, <1>6, <1>7, <1>8, <1>9, <1>10, <1>11, <1>12, <1>13, <1>14, <1>15, <1>16, <1>17 DEF Pull!Next, PP!Next
<1> QED
  BY <1>1, <1>2, <1>18

(***************************************************************************)
(* Runs: a fold over the ops of a request.                                 *)
(***************************************************************************)

\* A set of numbers has a least one.
LEMMA LeastExists ==
  ASSUME NEW S, S \subseteq Nat, S # {}
  PROVE  \E n \in S : \A m \in S : n <= m
<1>1. PICK n \in S : \A m \in S : ~(<<m, n>> \in OpToRel(<, Nat))
  BY NatLessThanWellFounded, WFMin
<1>2. \A m \in S : ~(m < n)
  BY <1>1 DEF OpToRel
<1> QED
  BY <1>2, SMT

\* A run goes through the ops one by one: states[o] is what it has written after the ops up to o.
LEMMA RunIsSteps ==
  ASSUME NEW request
  PROVE  \E states :
           /\ states[0] = Begin
           /\ \A o \in OpId : states[o] = IF o \in request THEN RunOp(states[o - 1], o) ELSE states[o - 1]
           /\ states[MaxOps] = Run(request)
<1> DEFINE Next1(f, o) == IF o = 0 THEN Begin
                          ELSE IF o \in request THEN RunOp(f[o - 1], o) ELSE f[o - 1]
           Is(f) == f = [o \in 0 .. MaxOps |-> Next1(f, o)]
           Upto(f, k) == \A o \in 0 .. MaxOps : o <= k => f[o] = Next1(f, o)
           Bad == {k \in Nat : ~\E f : Upto(f, k)}
<1>1. MaxOps \in Nat
  BY BoundAssumption
<1>2. \A k \in Nat : \E f : Upto(f, k)
  <2>1. SUFFICES ASSUME Bad # {} PROVE FALSE
    OBVIOUS
  <2>2. PICK k \in Bad : \A m \in Bad : k <= m
    <3>1. Bad \subseteq Nat
      OBVIOUS
    <3> HIDE DEF Bad
    <3> QED
      BY <2>1, <3>1, LeastExists
  <2>3. k \in Nat /\ ~\E f : Upto(f, k)
    OBVIOUS
  <2>4. k # 0
    <3>1. Upto([o \in 0 .. MaxOps |-> Begin], 0)
      OBVIOUS
    <3> QED
      BY <2>3, <3>1
  <2>5. PICK f : Upto(f, k - 1)
    <3>1. k - 1 \in Nat /\ ~(k <= k - 1)
      BY <2>3, <2>4
    <3>2. k - 1 \notin Bad
      <4> HIDE DEF Bad
      <4> QED
        BY <2>2, <3>1
    <3> QED
      BY <3>1, <3>2
  <2>6. PICK g : g = [o \in 0 .. MaxOps |-> Next1(f, o)]
    OBVIOUS
  <2>7. \A o \in 0 .. MaxOps : o <= k - 1 => g[o] = f[o]
    BY <2>5, <2>6
  <2>8. ASSUME NEW o \in 0 .. MaxOps, o <= k PROVE g[o] = Next1(g, o)
    <3>1. CASE o = 0
      BY <2>6, <3>1
    <3>2. CASE o # 0
      <4>1. o - 1 \in 0 .. MaxOps /\ o - 1 <= k - 1
        BY <1>1, <2>3, <2>8, <3>2
      <4>2. g[o - 1] = f[o - 1]
        BY <2>7, <4>1
      <4> QED
        BY <2>6, <3>2, <4>2
    <3> QED
      BY <3>1, <3>2
  <2> QED
    BY <2>3, <2>8
<1>3. \E f : Is(f)
  <2>1. PICK f : Upto(f, MaxOps)
    BY <1>1, <1>2
  <2>2. PICK g : g = [o \in 0 .. MaxOps |-> f[o]]
    OBVIOUS
  <2>3. ASSUME NEW o \in 0 .. MaxOps PROVE g[o] = Next1(g, o)
    <3>1. f[o] = Next1(f, o)
      BY <1>1, <2>1
    <3>2. o # 0 => o - 1 \in 0 .. MaxOps
      BY <1>1
    <3> QED
      BY <2>2, <3>1, <3>2
  <2>4. g = [o \in 0 .. MaxOps |-> Next1(g, o)]
    <3>1. [o \in 0 .. MaxOps |-> Next1(g, o)] = [o \in 0 .. MaxOps |-> g[o]]
      BY <2>3
    <3> QED
      BY <2>2, <3>1
  <2> QED
    BY <2>4
<1>4. PICK states : states = CHOOSE f : Is(f)
  OBVIOUS
<1>5. Is(states)
  BY <1>3, <1>4
<1>6. Run(request) = states[MaxOps]
  BY <1>4 DEF Run
<1>7. states[0] = Begin /\ \A o \in OpId : states[o] = Next1(states, o)
  BY <1>1, <1>5 DEF OpId
<1>8. \A o \in OpId : o # 0
  BY DEF OpId
<1> QED
  BY <1>6, <1>7, <1>8

\* What holds of the start, and is kept by every op, holds of the run.
LEMMA RunStays ==
  ASSUME NEW request, NEW G, Begin \in G[0],
         \A o \in OpId : \A s \in G[o - 1] : IF o \in request THEN RunOp(s, o) \in G[o] ELSE s \in G[o]
  PROVE  Run(request) \in G[MaxOps]
<1>1. PICK states :
        /\ states[0] = Begin
        /\ \A o \in OpId : states[o] = IF o \in request THEN RunOp(states[o - 1], o) ELSE states[o - 1]
        /\ states[MaxOps] = Run(request)
  BY RunIsSteps
<1> DEFINE Bad == {o \in 0 .. MaxOps : states[o] \notin G[o]}
<1>2. Bad = {}
  <2>1. SUFFICES ASSUME Bad # {} PROVE FALSE
    OBVIOUS
  <2>2. PICK k \in Bad : \A m \in Bad : k <= m
    <3>1. Bad \subseteq Nat
      OBVIOUS
    <3> HIDE DEF Bad
    <3> QED
      BY <2>1, <3>1, LeastExists
  <2>3. k \in 0 .. MaxOps /\ states[k] \notin G[k]
    OBVIOUS
  <2>4. k # 0
    BY <1>1, <2>3
  <2>5. k \in OpId /\ k - 1 \in 0 .. MaxOps /\ ~(k <= k - 1)
    BY <2>3, <2>4, BoundAssumption DEF OpId
  <2>6. k - 1 \notin Bad
    <3> HIDE DEF Bad
    <3> QED
      BY <2>2, <2>5
  <2>7. states[k - 1] \in G[k - 1]
    BY <2>5, <2>6
  <2> QED
    BY <1>1, <2>3, <2>5, <2>7
<1> QED
  BY <1>1, <1>2, BoundAssumption

-----------------------------------------------------------------------------
(***************************************************************************)
(* One op.                                                                 *)
(***************************************************************************)

Statuses == {"none", "applied", "superseded", "deferred"}
RegisterRow == [seq : Nat, on : BOOLEAN, meta : Meta \cup {Stub}, at : Nat, dev : Device \cup {0}]
TrackRow == [seq : Nat, meta : Meta \cup {Stub}]

\* What an op says, but for its base.
Made(op) ==
  /\ op.dev \in Device /\ op.key \in Register /\ op.on \in BOOLEAN
  /\ op.at \in Nat /\ op.meta \in Meta \cup {Stub}

\* What a run has written so far.
Written ==
  [registers : [Register -> RegisterRow], tracks : [Video -> TrackRow], journal : [OpId -> Entry],
   seq : Nat, results : [OpId -> Statuses], status : Statuses]

\* No room for a row of the register's kind.
Full(rows, r) == UsedOf(rows, KindOf[r]) >= Quota[KindOf[r]]

\* The op writes its register.
Sets(s, t, o) ==
  LET op == ops[o]
      reg == s.registers[op.key]
      image == Image(reg, op)
  IN /\ t.registers = [s.registers EXCEPT ![op.key] =
          [seq |-> s.seq + 1, on |-> image.on, meta |-> image.meta, at |-> EffectiveAt(op.at), dev |-> op.dev]]
     /\ t.status = "applied"
     /\ ~Unchanged(reg, op)
     /\ Wins(reg, BaseSeq(op.base), EffectiveAt(op.at), op.dev)
     /\ ~(reg.seq = 0 /\ Full(s.registers, op.key))

\* It does not.
Leaves(s, t, o) ==
  LET op == ops[o]
      reg == s.registers[op.key]
  IN /\ t.registers = s.registers
     /\ \/ t.status = "applied" /\ Unchanged(reg, op)
        \/ t.status = "superseded" /\ ~Unchanged(reg, op) /\ ~Wins(reg, BaseSeq(op.base), EffectiveAt(op.at), op.dev)
        \/ t.status = "deferred" /\ ~Unchanged(reg, op) /\ reg.seq = 0 /\ Full(s.registers, op.key)

\* A like names its track: the track gets a row, or a new one, or there is no need or no room.
NamesTrack(s, t, o) ==
  LET v == ops[o].key
  IN \/ t.tracks = s.tracks /\ (v \in Video /\ ops[o].on => s.tracks[v].seq # 0 \/ Used(s.tracks) >= TracksQuota)
     \/ /\ v \in Video /\ ops[o].on
        /\ s.tracks[v].seq # 0 \/ Used(s.tracks) < TracksQuota
        /\ \E row \in TrackRow :
             /\ t.tracks = [s.tracks EXCEPT ![v] = row]
             /\ s.seq < row.seq /\ row.seq < t.seq
             /\ t.registers # s.registers => s.seq + 1 < row.seq

\* What an op makes of s.
Step(s, t, o) ==
  /\ t.results = [s.results EXCEPT ![o] = t.status]
  /\ \/ \* replayed
        /\ s.journal[o].seq # 0
        /\ t.status = s.journal[o].status
        /\ t.registers = s.registers /\ t.tracks = s.tracks /\ t.journal = s.journal /\ t.seq = s.seq
     \/ \* deferred
        /\ s.journal[o].seq = 0
        /\ Leaves(s, t, o) /\ t.status = "deferred"
        /\ t.tracks = s.tracks /\ t.journal = s.journal /\ t.seq = s.seq
     \/ \* nothing to write
        /\ s.journal[o].seq = 0
        /\ Leaves(s, t, o) /\ t.status # "deferred"
        /\ NamesTrack(s, t, o)
        /\ t.tracks = s.tracks /\ t.journal = s.journal /\ t.seq = s.seq
     \/ \* written and journaled
        /\ s.journal[o].seq = 0
        /\ Sets(s, t, o) \/ (Leaves(s, t, o) /\ t.status # "deferred")
        /\ NamesTrack(s, t, o)
        /\ t.journal = [s.journal EXCEPT ![o] = [seq |-> t.seq, status |-> t.status]]
        /\ t.seq \in {s.seq + 2, s.seq + 3}

LEMMA ImageTyped ==
  ASSUME NEW reg \in RegisterRow, NEW op, Made(op)
  PROVE  /\ Image(reg, op).on \in BOOLEAN
         /\ Image(reg, op).meta \in Meta \cup {Stub}
BY DEF Image, LikeImage, BookmarkImage, DescribedImage, RegisterRow, Made

\* SetRegister.
LEMMA SetFacts ==
  ASSUME NEW s \in Written, NEW o \in OpId, Made(ops[o]), clock \in Nat,
         NEW a, a = SetRegister(s, ops[o])
  PROVE  /\ a \in Written
         /\ a.tracks = s.tracks /\ a.journal = s.journal /\ a.results = s.results
         /\ \/ Sets(s, a, o) /\ a.seq = s.seq + 1
            \/ Leaves(s, a, o) /\ a.seq = s.seq
<1> DEFINE op == ops[o]
           reg == s.registers[op.key]
           at == EffectiveAt(op.at)
<1>1. op.key \in Register /\ op.dev \in Device /\ op.at \in Nat /\ reg \in RegisterRow
  BY DEF Made, Written
<1>2. at \in Nat
  BY <1>1 DEF EffectiveAt, Smaller
<1>3. PICK w : w = [seq |-> s.seq + 1, on |-> Image(reg, op).on, meta |-> Image(reg, op).meta,
                    at |-> at, dev |-> op.dev]
  OBVIOUS
<1>4. w \in RegisterRow
  <2>1. Image(reg, op).on \in BOOLEAN /\ Image(reg, op).meta \in Meta \cup {Stub}
    BY <1>1, ImageTyped
  <2>2. s.seq + 1 \in Nat
    BY DEF Written
  <2> QED
    BY <1>1, <1>2, <1>3, <2>1, <2>2 DEF RegisterRow
<1>5. PICK new : new = [s.registers EXCEPT ![op.key] = w]
  OBVIOUS
<1>6. new \in [Register -> RegisterRow]
  BY <1>4, <1>5 DEF Written
<1>7. CASE Unchanged(reg, op)
  <2>1. a = [s EXCEPT !.status = "applied"]
    BY <1>7 DEF SetRegister
  <2> QED
    BY <1>7, <2>1 DEF Written, Statuses, Leaves
<1>8. CASE ~Unchanged(reg, op) /\ ~Wins(reg, BaseSeq(op.base), at, op.dev)
  <2>1. a = [s EXCEPT !.status = "superseded"]
    BY <1>8 DEF SetRegister
  <2> QED
    BY <1>8, <2>1 DEF Written, Statuses, Leaves
<1>9. CASE /\ ~Unchanged(reg, op) /\ Wins(reg, BaseSeq(op.base), at, op.dev)
           /\ reg.seq = 0 /\ Full(s.registers, op.key)
  <2>1. a = [s EXCEPT !.status = "deferred"]
    BY <1>9 DEF SetRegister, Full
  <2> QED
    BY <1>9, <2>1 DEF Written, Statuses, Leaves
<1>10. CASE /\ ~Unchanged(reg, op) /\ Wins(reg, BaseSeq(op.base), at, op.dev)
            /\ ~(reg.seq = 0 /\ Full(s.registers, op.key))
  <2>1. a = [s EXCEPT !.status = "applied", !.seq = s.seq + 1, !.registers[op.key] = w]
    BY <1>3, <1>10 DEF SetRegister, Full
  <2>2. a = [registers |-> new, tracks |-> s.tracks, journal |-> s.journal, seq |-> s.seq + 1,
             results |-> s.results, status |-> "applied"]
    BY <1>5, <2>1 DEF Written
  <2>3. s.seq + 1 \in Nat
    BY DEF Written
  <2>4. a \in Written
    BY <1>6, <2>2, <2>3 DEF Written, Statuses
  <2>5. Sets(s, a, o)
    BY <1>3, <1>5, <1>10, <2>2 DEF Sets
  <2> QED
    BY <2>2, <2>4, <2>5
<1> QED
  BY <1>7, <1>8, <1>9, <1>10

\* Rows can be counted.
LEMMA Countable ==
  /\ IsFiniteSet(Video)
  /\ \A rows : DOMAIN rows \subseteq Register \/ DOMAIN rows \subseteq OpId =>
       /\ IsFiniteSet({r \in DOMAIN rows : rows[r].seq # 0})
       /\ Used(rows) \in Nat
<1>1. IsFiniteSet(Video)
  BY FiniteAssumption, FS_Subset DEF Video
<1>2. IsFiniteSet(OpId)
  BY FS_Interval, BoundAssumption DEF OpId
<1>3. ASSUME NEW rows, DOMAIN rows \subseteq Register \/ DOMAIN rows \subseteq OpId
      PROVE  IsFiniteSet({r \in DOMAIN rows : rows[r].seq # 0}) /\ Used(rows) \in Nat
  <2>1. IsFiniteSet(DOMAIN rows)
    BY <1>2, <1>3, FiniteAssumption, FS_Subset
  <2>2. IsFiniteSet({r \in DOMAIN rows : rows[r].seq # 0})
    BY <2>1, FS_Subset
  <2> QED
    BY <2>2, FS_CardinalityType DEF Used
<1> QED
  BY <1>1, <1>3

\* RunOp.
LEMMA StepFacts ==
  ASSUME NEW s \in Written, NEW o \in OpId, Made(ops[o]), clock \in Nat
  PROVE  RunOp(s, o) \in Written /\ Step(s, RunOp(s, o), o)
<1> DEFINE op == ops[o]
<1>0. /\ s.registers \in [Register -> RegisterRow] /\ s.tracks \in [Video -> TrackRow]
      /\ s.journal \in [OpId -> Entry] /\ s.seq \in Nat /\ s.results \in [OpId -> Statuses]
      /\ s.status \in Statuses
      /\ op.key \in Register /\ op.on \in BOOLEAN /\ op.meta \in Meta \cup {Stub}
  BY DEF Written, Made
<1>a. Used(s.tracks) \in Nat /\ TracksQuota \in Nat
  <2>1. DOMAIN s.tracks \subseteq Register
    BY <1>0 DEF Video
  <2> QED
    BY <2>1, Countable, QuotaAssumption
<1>1. PICK t : t = RunOp(s, o)
  OBVIOUS
<1>2. CASE s.journal[o].seq # 0
  <2>1. PICK st : st = s.journal[o].status
    OBVIOUS
  <2>2. s.journal[o] \in Entry /\ st \in Statuses
    BY <1>0, <1>2, <2>1 DEF Entry, NoEntry, Statuses
  <2>3. PICK new : new = [s.results EXCEPT ![o] = st]
    OBVIOUS
  <2>4. t = [registers |-> s.registers, tracks |-> s.tracks, journal |-> s.journal, seq |-> s.seq,
             results |-> new, status |-> st]
    BY <1>1, <1>2, <2>1, <2>3 DEF RunOp, Answered, Written
  <2>5. new \in [OpId -> Statuses]
    BY <1>0, <2>2, <2>3
  <2> QED
    BY <1>0, <1>1, <1>2, <2>1, <2>2, <2>3, <2>4, <2>5 DEF Written, Step
<1>3. CASE s.journal[o].seq = 0
  <2>1. PICK a : a = SetRegister(s, op)
    OBVIOUS
  <2>2. /\ a \in Written
        /\ a.tracks = s.tracks /\ a.journal = s.journal /\ a.results = s.results
        /\ \/ Sets(s, a, o) /\ a.seq = s.seq + 1
           \/ Leaves(s, a, o) /\ a.seq = s.seq
    BY <2>1, SetFacts
  <2>3. /\ a.registers \in [Register -> RegisterRow] /\ a.seq \in Nat /\ a.status \in Statuses
    BY <2>2 DEF Written
  <2>4. a.status # "none"
    BY <2>2 DEF Sets, Leaves
  <2>5. CASE a.status = "deferred"
    <3>1. PICK new : new = [s.results EXCEPT ![o] = a.status]
      OBVIOUS
    <3>2. t = [registers |-> a.registers, tracks |-> s.tracks, journal |-> s.journal, seq |-> a.seq,
               results |-> new, status |-> a.status]
      BY <1>1, <1>3, <2>1, <2>2, <2>5, <3>1 DEF RunOp, Fresh, Answered, Written
    <3>3. new \in [OpId -> Statuses]
      BY <1>0, <2>3, <3>1
    <3>4. Leaves(s, a, o) /\ a.seq = s.seq
      BY <2>2, <2>5 DEF Sets
    <3>5. Leaves(s, t, o)
      BY <3>2, <3>4 DEF Leaves
    <3>6. t \in Written
      BY <1>0, <2>3, <3>2, <3>3 DEF Written
    <3> QED
      BY <1>1, <1>3, <2>5, <3>1, <3>2, <3>4, <3>5, <3>6 DEF Step
  <2>6. CASE a.status # "deferred"
    <3>1. PICK b : b = UpsertTrack(a, op)
      OBVIOUS
    <3> DEFINE named == /\ op.key \in Video /\ op.on
                        /\ IF s.tracks[op.key].seq = 0 THEN Used(s.tracks) < TracksQuota
                           ELSE MetadataReplaces(s.tracks[op.key], op.meta)
    <3>2. PICK row : row = [seq |-> a.seq + 1, meta |-> op.meta]
      OBVIOUS
    <3>3. row \in TrackRow
      BY <1>0, <2>3, <3>2 DEF TrackRow
    <3>4. PICK trs : trs = IF named THEN [s.tracks EXCEPT ![op.key] = row] ELSE s.tracks
      OBVIOUS
    <3>5. trs \in [Video -> TrackRow]
      BY <1>0, <3>3, <3>4
    <3>6. PICK top : top = IF named THEN a.seq + 1 ELSE a.seq
      OBVIOUS
    <3>7. b = [registers |-> a.registers, tracks |-> trs, journal |-> s.journal, seq |-> top,
               results |-> s.results, status |-> a.status]
      BY <2>2, <3>1, <3>2, <3>4, <3>6 DEF UpsertTrack, Written
    <3>8. PICK results : results = [s.results EXCEPT ![o] = a.status]
      OBVIOUS
    <3>9. results \in [OpId -> Statuses]
      BY <1>0, <2>3, <3>8
    <3>10. PICK entry : entry = [seq |-> top + 1, status |-> a.status]
      OBVIOUS
    <3>11. PICK journal1 : journal1 = [s.journal EXCEPT ![o] = entry]
      OBVIOUS
    <3>12. top \in Nat /\ journal1 \in [OpId -> Entry]
      <4>1. top \in Nat /\ top + 1 \in Nat \ {0}
        BY <2>3, <3>6
      <4>2. a.status \in {"applied", "superseded"}
        BY <2>3, <2>4, <2>6 DEF Statuses
      <4> QED
        BY <1>0, <3>10, <3>11, <4>1, <4>2 DEF Entry
    <3>13. CASE top = s.seq
      <4>1. t = [registers |-> a.registers, tracks |-> trs, journal |-> s.journal, seq |-> s.seq,
                 results |-> results, status |-> a.status]
        BY <1>1, <1>3, <2>1, <2>6, <3>1, <3>7, <3>8, <3>13 DEF RunOp, Fresh, Journal, Answered
      <4>2. ~named /\ a.seq = s.seq
        BY <1>0, <2>2, <2>3, <3>6, <3>13
      <4>3. trs = s.tracks
        BY <3>4, <4>2
      <4>4. Leaves(s, a, o)
        BY <1>0, <2>2, <4>2
      <4>5. Leaves(s, t, o)
        BY <4>1, <4>4 DEF Leaves
      <4>6. NamesTrack(s, t, o)
        <5>1. op.key \in Video /\ op.on => s.tracks[op.key].seq # 0 \/ Used(s.tracks) >= TracksQuota
          BY <1>0, <1>a, <4>2
        <5> QED
          BY <4>1, <4>3, <5>1 DEF NamesTrack
      <4>7. t \in Written
        BY <1>0, <2>3, <3>5, <3>9, <4>1 DEF Written
      <4> QED
        BY <1>1, <1>3, <2>6, <3>8, <4>1, <4>3, <4>5, <4>6, <4>7 DEF Step
    <3>14. CASE top # s.seq
      <4>1. t = [registers |-> a.registers, tracks |-> trs, journal |-> journal1, seq |-> top + 1,
                 results |-> results, status |-> a.status]
        <5>1. PICK c : c = Journal(s.seq, b, o)
          OBVIOUS
        <5>2. b.seq = top /\ b.status = a.status /\ b.journal = s.journal
          BY <3>7
        <5>3. c = [b EXCEPT !.seq = top + 1, !.journal[o] = entry]
          BY <3>10, <3>14, <5>1, <5>2 DEF Journal
        <5>4. c = [registers |-> a.registers, tracks |-> trs, journal |-> journal1, seq |-> top + 1,
                   results |-> s.results, status |-> a.status]
          BY <3>7, <3>11, <5>3
        <5>5. t = Answered(c, o)
          BY <1>1, <1>3, <2>1, <2>6, <3>1, <5>1 DEF RunOp, Fresh
        <5> QED
          BY <3>8, <5>4, <5>5 DEF Answered
      <4>2. Sets(s, t, o) \/ (Leaves(s, t, o) /\ t.status # "deferred")
        BY <2>2, <2>6, <4>1 DEF Sets, Leaves
      <4>3. NamesTrack(s, t, o)
        <5>1. CASE named
          <6>1. s.seq < row.seq /\ row.seq < t.seq
            BY <1>0, <2>2, <2>3, <3>2, <3>6, <4>1, <5>1
          <6>2. t.registers # s.registers => s.seq + 1 < row.seq
            BY <1>0, <2>2, <2>3, <3>2, <4>1 DEF Leaves
          <6>3. s.tracks[op.key].seq # 0 \/ Used(s.tracks) < TracksQuota
            BY <5>1
          <6>4. t.tracks = [s.tracks EXCEPT ![op.key] = row]
            BY <3>4, <4>1, <5>1
          <6> QED
            BY <3>3, <5>1, <6>1, <6>2, <6>3, <6>4 DEF NamesTrack
        <5>2. CASE ~named
          <6>1. op.key \in Video /\ op.on => s.tracks[op.key].seq # 0 \/ Used(s.tracks) >= TracksQuota
            BY <1>0, <1>a, <5>2
          <6> QED
            BY <3>4, <4>1, <5>2, <6>1 DEF NamesTrack
        <5> QED
          BY <5>1, <5>2
      <4>4. t.seq \in {s.seq + 2, s.seq + 3}
        BY <1>0, <2>2, <2>3, <3>6, <3>14, <4>1
      <4>5. t \in Written
        <5>1. top + 1 \in Nat
          BY <3>12
        <5> QED
          BY <2>3, <3>5, <3>9, <3>12, <4>1, <5>1 DEF Written
      <4> QED
        BY <1>1, <1>3, <3>8, <3>10, <3>11, <4>1, <4>2, <4>3, <4>4, <4>5 DEF Step
    <3> QED
      BY <3>13, <3>14
  <2> QED
    BY <2>5, <2>6
<1> QED
  BY <1>2, <1>3

-----------------------------------------------------------------------------
(***************************************************************************)
(* What a run makes of the database.                                       *)
(***************************************************************************)

\* Tables, journal and head of the database, or of its copy.
Typed(rs, ts, js, head) ==
  /\ rs \in [Register -> RegisterRow] /\ ts \in [Video -> TrackRow]
  /\ js \in [OpId -> Entry] /\ head \in Nat

\* No row is beyond the head, and every op of the journal has taken three seqs at most.
Within(rs, ts, js, head) ==
  /\ \A r \in Register : rs[r].seq <= head
  /\ \A v \in Video : ts[v].seq <= head
  /\ head <= 3 * Used(js)

\* Without a row there is nothing; a like has its track, or the tracks are full.
Kept(rs, ts) ==
  /\ \A r \in Register : rs[r].seq = 0 => rs[r] = NoRow
  /\ \A v \in Video : rs[v].on => ts[v].seq # 0 \/ Used(ts) >= TracksQuota

Stored(rs, ts, js, head) == Typed(rs, ts, js, head) /\ Within(rs, ts, js, head) /\ Kept(rs, ts)

\* What it was before: rows are kept or written anew, none goes, full tracks take no more.
Grown(b, s) ==
  /\ b.seq <= s.seq
  /\ \A r \in Register : s.registers[r] = b.registers[r] \/ b.seq < s.registers[r].seq
  /\ \A v \in Video : s.tracks[v] = b.tracks[v] \/ b.seq < s.tracks[v].seq
  /\ \A v \in Video : b.tracks[v].seq = 0 /\ s.tracks[v].seq # 0 => Used(b.tracks) < TracksQuota
  /\ Used(b.tracks) <= Used(s.tracks)
  /\ \A o \in OpId : b.journal[o].seq # 0 => s.journal[o] = b.journal[o]

\* The new rows have seqs of their own.
Anew(b, s) ==
  /\ \A q, r \in Register : b.seq < s.registers[q].seq /\ s.registers[q].seq = s.registers[r].seq => q = r
  /\ \A u, v \in Video : b.seq < s.tracks[u].seq /\ s.tracks[u].seq = s.tracks[v].seq => u = v
  /\ \A r \in Register, v \in Video : b.seq < s.registers[r].seq => s.registers[r].seq # s.tracks[v].seq

StoredIn(s) == Stored(s.registers, s.tracks, s.journal, s.seq)

\* More rows, more of them in use.
LEMMA UsedGrows ==
  ASSUME NEW rows, NEW more, DOMAIN rows = DOMAIN more,
         DOMAIN rows \subseteq Register \/ DOMAIN rows \subseteq OpId,
         \A r \in DOMAIN rows : rows[r].seq # 0 => more[r].seq # 0
  PROVE  /\ Used(rows) \in Nat /\ Used(more) \in Nat
         /\ Used(rows) <= Used(more)
         /\ (\E r \in DOMAIN rows : rows[r].seq = 0 /\ more[r].seq # 0) => Used(rows) + 1 <= Used(more)
<1> DEFINE A == {r \in DOMAIN rows : rows[r].seq # 0}
           B == {r \in DOMAIN more : more[r].seq # 0}
<1>1. IsFiniteSet(A) /\ IsFiniteSet(B) /\ Cardinality(A) = Used(rows) /\ Cardinality(B) = Used(more)
      /\ Used(rows) \in Nat /\ Used(more) \in Nat
  BY Countable DEF Used
<1>2. A \subseteq B
  OBVIOUS
<1>3. Cardinality(A) <= Cardinality(B) /\ (A # B => Cardinality(A) < Cardinality(B))
  <2> HIDE DEF A, B
  <2> QED
    BY <1>1, <1>2, FS_Subset
<1>4. (\E r \in DOMAIN rows : rows[r].seq = 0 /\ more[r].seq # 0) => A # B
  OBVIOUS
<1>5. Cardinality(A) \in Nat /\ Cardinality(B) \in Nat
  BY <1>1
<1> HIDE DEF A, B
<1> QED
  BY <1>1, <1>3, <1>4, <1>5

\* No more ops are journaled than the user makes.
LEMMA JournalBounded ==
  ASSUME NEW js \in [OpId -> Entry]
  PROVE  Used(js) \in Nat /\ Used(js) <= MaxOps
<1>1. IsFiniteSet(OpId) /\ Cardinality(OpId) = MaxOps
  BY FS_Interval, BoundAssumption DEF OpId
<1>2. {o \in DOMAIN js : js[o].seq # 0} \subseteq OpId
  OBVIOUS
<1>3. Used(js) <= Cardinality(OpId)
  BY <1>1, <1>2, FS_Subset DEF Used
<1> QED
  BY <1>1, <1>3, Countable

\* An op adds to what the run has written.
LEMMA StepGrows ==
  ASSUME NEW b \in Written, NEW s \in Written, NEW t \in Written, NEW o \in OpId, Made(ops[o]), Step(s, t, o),
         StoredIn(s), Grown(b, s), Anew(b, s)
  PROVE  StoredIn(t) /\ Grown(b, t) /\ Anew(b, t)
<1> DEFINE op == ops[o]
<1>0. /\ b.registers \in [Register -> RegisterRow] /\ b.tracks \in [Video -> TrackRow] /\ b.journal \in [OpId -> Entry] /\ b.seq \in Nat
      /\ s.registers \in [Register -> RegisterRow] /\ s.tracks \in [Video -> TrackRow] /\ s.journal \in [OpId -> Entry] /\ s.seq \in Nat
      /\ t.registers \in [Register -> RegisterRow] /\ t.tracks \in [Video -> TrackRow] /\ t.journal \in [OpId -> Entry] /\ t.seq \in Nat
      /\ op.key \in Register /\ op.on \in BOOLEAN /\ op.dev \in Device
  BY DEF Written, Made
<1>t. /\ \A r \in Register : s.registers[r].seq \in Nat /\ t.registers[r].seq \in Nat /\ b.registers[r].seq \in Nat
      /\ \A v \in Video : s.tracks[v].seq \in Nat /\ t.tracks[v].seq \in Nat /\ b.tracks[v].seq \in Nat
      /\ \A p \in OpId : s.journal[p].seq \in Nat /\ t.journal[p].seq \in Nat /\ b.journal[p].seq \in Nat
  <2>1. \A w \in RegisterRow : w.seq \in Nat
    BY DEF RegisterRow
  <2>2. \A w \in TrackRow : w.seq \in Nat
    BY DEF TrackRow
  <2>3. \A e \in Entry : e.seq \in Nat
    BY DEF Entry, NoEntry
  <2> QED
    BY <1>0, <2>1, <2>2, <2>3
<1>q. TracksQuota \in Nat
  BY QuotaAssumption
<1>1. CASE t.registers = s.registers /\ t.tracks = s.tracks /\ t.journal = s.journal /\ t.seq = s.seq
  BY <1>1 DEF StoredIn, Stored, Typed, Within, Kept, Grown, Anew
<1>2. CASE /\ s.journal[o].seq = 0
           /\ Sets(s, t, o) \/ (Leaves(s, t, o) /\ t.status # "deferred")
           /\ NamesTrack(s, t, o)
           /\ t.journal = [s.journal EXCEPT ![o] = [seq |-> t.seq, status |-> t.status]]
           /\ t.seq \in {s.seq + 2, s.seq + 3}
  \* registers
  <2>1. /\ \A r \in Register : t.registers[r] = s.registers[r] \/ (r = op.key /\ t.registers[r].seq = s.seq + 1)
        /\ \A r \in Register : t.registers[r] # s.registers[r] /\ t.registers[r].on /\ r \in Video => op.on
    <3>1. CASE Sets(s, t, o)
      <4>1. PICK w : w = [seq |-> s.seq + 1, on |-> Image(s.registers[op.key], op).on, meta |-> Image(s.registers[op.key], op).meta,
                          at |-> EffectiveAt(op.at), dev |-> op.dev]
        OBVIOUS
      <4>2. t.registers = [s.registers EXCEPT ![op.key] = w]
        BY <3>1, <4>1 DEF Sets
      <4>3. op.key \in Video => w.on = op.on
        BY <4>1 DEF Image, LikeImage, Video
      <4>4. w.seq = s.seq + 1
        BY <4>1
      <4> QED
        BY <1>0, <4>2, <4>3, <4>4
    <3>2. CASE Leaves(s, t, o)
      BY <3>2 DEF Leaves
    <3> QED
      BY <1>2, <3>1, <3>2
  <2>2. t.registers # s.registers => t.registers[op.key].seq = s.seq + 1
    BY <1>0, <2>1
  \* tracks
  <2>3. /\ \A v \in Video : t.tracks[v] = s.tracks[v] \/
             /\ v = op.key /\ s.seq < t.tracks[v].seq /\ t.tracks[v].seq < t.seq
             /\ t.registers # s.registers => s.seq + 1 < t.tracks[v].seq
             /\ s.tracks[v].seq # 0 \/ Used(s.tracks) < TracksQuota
        /\ op.key \in Video /\ op.on => t.tracks[op.key].seq # 0 \/ Used(t.tracks) >= TracksQuota
    <3>1. CASE t.tracks = s.tracks /\ (op.key \in Video /\ op.on => s.tracks[op.key].seq # 0 \/ Used(s.tracks) >= TracksQuota)
      BY <3>1
    <3>2. CASE /\ op.key \in Video /\ op.on
               /\ s.tracks[op.key].seq # 0 \/ Used(s.tracks) < TracksQuota
               /\ \E row \in TrackRow :
                    /\ t.tracks = [s.tracks EXCEPT ![op.key] = row]
                    /\ s.seq < row.seq /\ row.seq < t.seq
                    /\ t.registers # s.registers => s.seq + 1 < row.seq
      <4>1. PICK row \in TrackRow :
                    /\ t.tracks = [s.tracks EXCEPT ![op.key] = row]
                    /\ s.seq < row.seq /\ row.seq < t.seq
                    /\ t.registers # s.registers => s.seq + 1 < row.seq
        BY <3>2
      <4>2. row.seq \in Nat
        BY DEF TrackRow
      <4> QED
        BY <1>0, <3>2, <4>1, <4>2
    <3> QED
      BY <1>2, <3>1, <3>2 DEF NamesTrack
  <2>4. s.seq < t.seq /\ t.seq <= s.seq + 3
    BY <1>0, <1>2
  <2>5. /\ t.journal[o].seq = t.seq
        /\ \A p \in OpId : p # o => t.journal[p] = s.journal[p]
    BY <1>0, <1>2
  <2>6. Used(s.journal) \in Nat /\ Used(t.journal) \in Nat /\ Used(s.journal) + 1 <= Used(t.journal)
    <3>1. \A p \in OpId : s.journal[p].seq # 0 => t.journal[p].seq # 0
      BY <1>0, <1>t, <2>4, <2>5
    <3>2. \E p \in OpId : s.journal[p].seq = 0 /\ t.journal[p].seq # 0
      BY <1>0, <1>2, <1>t, <2>4, <2>5
    <3>3. DOMAIN s.journal = OpId /\ DOMAIN t.journal = OpId
      BY <1>0
    <3> QED
      BY <3>1, <3>2, <3>3, UsedGrows
  <2>7. /\ Used(s.tracks) \in Nat /\ Used(t.tracks) \in Nat /\ Used(s.tracks) <= Used(t.tracks)
    <3>1. \A v \in Video : s.tracks[v].seq # 0 => t.tracks[v].seq # 0
      BY <1>0, <1>t, <2>3
    <3>2. DOMAIN s.tracks = Video /\ DOMAIN t.tracks = Video /\ Video \subseteq Register
      BY <1>0 DEF Video
    <3> QED
      BY <3>1, <3>2, UsedGrows
  <2>8. Typed(t.registers, t.tracks, t.journal, t.seq)
    BY <1>0 DEF Typed
  <2>9. Within(t.registers, t.tracks, t.journal, t.seq)
    <3>1. /\ \A r \in Register : s.registers[r].seq <= s.seq
          /\ \A v \in Video : s.tracks[v].seq <= s.seq
          /\ s.seq <= 3 * Used(s.journal)
      BY DEF StoredIn, Stored, Within
    <3>2. \A r \in Register : t.registers[r].seq <= t.seq
      BY <1>0, <1>t, <2>1, <2>4, <3>1
    <3>3. \A v \in Video : t.tracks[v].seq <= t.seq
      BY <1>0, <1>t, <2>3, <2>4, <3>1
    <3>4. t.seq <= 3 * Used(t.journal)
      BY <1>0, <2>4, <2>6, <3>1
    <3> QED
      BY <3>2, <3>3, <3>4 DEF Within
  <2>10. Kept(t.registers, t.tracks)
    <3>1. /\ \A r \in Register : s.registers[r].seq = 0 => s.registers[r] = NoRow
          /\ \A v \in Video : s.registers[v].on => s.tracks[v].seq # 0 \/ Used(s.tracks) >= TracksQuota
      BY DEF StoredIn, Stored, Kept
    <3>2. \A r \in Register : t.registers[r].seq = 0 => t.registers[r] = NoRow
      BY <1>0, <2>1, <3>1
    <3>3. ASSUME NEW v \in Video, t.registers[v].on PROVE t.tracks[v].seq # 0 \/ Used(t.tracks) >= TracksQuota
      <4>1. v \in Register
        BY DEF Video
      <4>2. CASE t.registers[v] = s.registers[v]
        <5>1. s.tracks[v].seq # 0 \/ Used(s.tracks) >= TracksQuota
          BY <3>1, <3>3, <4>2
        <5>2. s.tracks[v].seq # 0 => t.tracks[v].seq # 0
          BY <1>0, <1>t, <2>3
        <5> QED
          BY <1>q, <2>7, <5>1, <5>2
      <4>3. CASE t.registers[v] # s.registers[v]
        BY <2>1, <2>3, <3>3, <4>1, <4>3
      <4> QED
        BY <4>2, <4>3
    <3> QED
      BY <3>2, <3>3 DEF Kept
  <2>11. Grown(b, t)
    <3>1. /\ b.seq <= s.seq
          /\ \A r \in Register : s.registers[r] = b.registers[r] \/ b.seq < s.registers[r].seq
          /\ \A v \in Video : s.tracks[v] = b.tracks[v] \/ b.seq < s.tracks[v].seq
          /\ \A v \in Video : b.tracks[v].seq = 0 /\ s.tracks[v].seq # 0 => Used(b.tracks) < TracksQuota
          /\ Used(b.tracks) <= Used(s.tracks)
          /\ \A p \in OpId : b.journal[p].seq # 0 => s.journal[p] = b.journal[p]
      BY DEF Grown
    <3>2. \A r \in Register : t.registers[r] = b.registers[r] \/ b.seq < t.registers[r].seq
      BY <1>0, <1>t, <2>1, <3>1
    <3>3. \A v \in Video : t.tracks[v] = b.tracks[v] \/ b.seq < t.tracks[v].seq
      BY <1>0, <1>t, <2>3, <3>1
    <3>4. Used(b.tracks) \in Nat
      <4>1. DOMAIN b.tracks \subseteq Register
        BY <1>0 DEF Video
      <4> QED
        BY <4>1, Countable
    <3>5. \A v \in Video : b.tracks[v].seq = 0 /\ t.tracks[v].seq # 0 => Used(b.tracks) < TracksQuota
      BY <1>q, <2>3, <2>7, <3>1, <3>4
    <3>6. \A p \in OpId : b.journal[p].seq # 0 => t.journal[p] = b.journal[p]
      BY <1>2, <2>5, <3>1
    <3>7. b.seq <= t.seq /\ Used(b.tracks) <= Used(t.tracks)
      BY <1>0, <2>4, <2>7, <3>1, <3>4
    <3> QED
      BY <3>2, <3>3, <3>5, <3>6, <3>7 DEF Grown
  <2>12. Anew(b, t)
    <3>1. /\ \A r \in Register : s.registers[r].seq <= s.seq
          /\ \A v \in Video : s.tracks[v].seq <= s.seq
          /\ b.seq <= s.seq
      BY DEF StoredIn, Stored, Within, Grown
    <3>2. \A q, r \in Register : b.seq < t.registers[q].seq /\ t.registers[q].seq = t.registers[r].seq => q = r
      <4>1. \A q, r \in Register : b.seq < s.registers[q].seq /\ s.registers[q].seq = s.registers[r].seq => q = r
        BY DEF Anew
      <4> QED
        BY <1>0, <1>t, <2>1, <3>1, <4>1
    <3>3. \A u, v \in Video : b.seq < t.tracks[u].seq /\ t.tracks[u].seq = t.tracks[v].seq => u = v
      <4>1. \A u, v \in Video : b.seq < s.tracks[u].seq /\ s.tracks[u].seq = s.tracks[v].seq => u = v
        BY DEF Anew
      <4> QED
        BY <1>0, <1>t, <2>3, <3>1, <4>1
    <3>4. ASSUME NEW r \in Register, NEW v \in Video, b.seq < t.registers[r].seq
          PROVE  t.registers[r].seq # t.tracks[v].seq
      <4>1. b.seq < s.registers[r].seq => s.registers[r].seq # s.tracks[v].seq
        BY DEF Anew
      <4>2. CASE t.registers[r] = s.registers[r] /\ t.tracks[v] = s.tracks[v]
        BY <3>4, <4>1, <4>2
      <4>3. CASE t.registers[r] # s.registers[r] /\ t.tracks[v] = s.tracks[v]
        <5>1. t.registers[r].seq = s.seq + 1 /\ s.tracks[v].seq <= s.seq
          BY <2>1, <3>1, <4>3
        <5> QED
          BY <1>0, <1>t, <4>3, <5>1
      <4>4. CASE t.tracks[v] # s.tracks[v]
        <5>1. /\ s.seq < t.tracks[v].seq
              /\ t.registers # s.registers => s.seq + 1 < t.tracks[v].seq
          BY <2>3, <4>4
        <5>2. t.registers[r] = s.registers[r] \/ t.registers[r].seq = s.seq + 1
          BY <2>1
        <5> QED
          BY <1>0, <1>t, <3>1, <5>1, <5>2
      <4> QED
        BY <4>2, <4>3, <4>4
    <3> QED
      BY <3>2, <3>3, <3>4 DEF Anew
  <2> QED
    BY <2>8, <2>9, <2>10, <2>11, <2>12 DEF StoredIn, Stored
<1> QED
  BY <1>1, <1>2 DEF Step, Leaves

\* A run adds to the database.
LEMMA RunGrows ==
  ASSUME NEW request, \A o \in request : o \in OpId => Made(ops[o]), clock \in Nat,
         Stored(registers, tracks, journal, seq)
  PROVE  /\ Run(request) \in Written /\ StoredIn(Run(request))
         /\ Grown(Begin, Run(request)) /\ Anew(Begin, Run(request))
<1> DEFINE G == [o \in 0 .. MaxOps |-> {s \in Written : StoredIn(s) /\ Grown(Begin, s) /\ Anew(Begin, s)}]
<1>1. MaxOps \in Nat
  BY BoundAssumption
<1>2. Begin \in Written
  BY DEF Begin, Written, Statuses, Stored, Typed
<1>3. Begin.registers = registers /\ Begin.tracks = tracks /\ Begin.journal = journal /\ Begin.seq = seq
  BY DEF Begin
<1>4. StoredIn(Begin)
  BY <1>3 DEF StoredIn
<1>5. Used(Begin.tracks) \in Nat
  <2>1. DOMAIN tracks \subseteq Register
    BY DEF Stored, Typed, Video
  <2> QED
    BY <1>3, <2>1, Countable
<1>6. /\ \A r \in Register : Begin.registers[r].seq \in Nat /\ Begin.registers[r].seq <= Begin.seq
      /\ \A v \in Video : Begin.tracks[v].seq \in Nat /\ Begin.tracks[v].seq <= Begin.seq
      /\ Begin.seq \in Nat
  BY <1>3 DEF Stored, Typed, Within, RegisterRow, TrackRow
<1>7. Grown(Begin, Begin)
  BY <1>5, <1>6 DEF Grown
<1>8. Anew(Begin, Begin)
  BY <1>6 DEF Anew
<1>9. Begin \in G[0]
  BY <1>1, <1>2, <1>4, <1>7, <1>8
<1>10. ASSUME NEW o \in OpId, NEW s \in G[o - 1]
       PROVE  IF o \in request THEN RunOp(s, o) \in G[o] ELSE s \in G[o]
  <2>0. o \in 0 .. MaxOps /\ o - 1 \in 0 .. MaxOps
    BY <1>1 DEF OpId
  <2>1. s \in Written /\ StoredIn(s) /\ Grown(Begin, s) /\ Anew(Begin, s)
    BY <2>0, <1>10
  <2>2. CASE o \notin request
    BY <2>0, <2>1, <2>2
  <2>3. CASE o \in request
    <3>1. PICK t : t = RunOp(s, o)
      OBVIOUS
    <3>2. t \in Written /\ Step(s, t, o)
      BY <2>1, <2>3, <3>1, StepFacts
    <3>3. StoredIn(t) /\ Grown(Begin, t) /\ Anew(Begin, t)
      BY <1>2, <2>1, <2>3, <3>2, StepGrows
    <3> QED
      BY <2>0, <2>3, <3>1, <3>2, <3>3
  <2> QED
    BY <2>2, <2>3
<1> HIDE DEF G
<1>11. Run(request) \in G[MaxOps]
  BY <1>9, <1>10, RunStays
<1> USE DEF G
<1> QED
  BY <1>1, <1>11

-----------------------------------------------------------------------------
(***************************************************************************)
(* The invariant of the op runner, and its steps as those of SyncPull.     *)
(***************************************************************************)

Sound ==
  /\ Stored(registers, tracks, journal, seq)
  /\ backup = [epoch |-> backup.epoch, seq |-> backup.seq, registers |-> backup.registers,
               tracks |-> backup.tracks, journal |-> backup.journal]
  /\ Stored(backup.registers, backup.tracks, backup.journal, backup.seq)
  /\ clock \in 1 .. MaxTime
  /\ ops \in Seq(Op) /\ Len(ops) <= MaxOps
  /\ outbox \in [Device -> SUBSET (1 .. Len(ops))]
  /\ sent \in [Device -> SUBSET (1 .. Len(ops))]
  /\ settled \in [Device -> SUBSET OpId]
  /\ stray \subseteq [dev : Device, ops : SUBSET (1 .. Len(ops)), cursor : Pull!Cursor]

\* The ops of a request.
LEMMA OpsMade ==
  ASSUME Sound
  PROVE  /\ clock \in Nat /\ Len(ops) \in Nat
         /\ \A o \in 1 .. Len(ops) : o \in OpId /\ ops[o] \in Op /\ Made(ops[o])
<1>1. ops \in Seq(Op) /\ Len(ops) <= MaxOps /\ clock \in 1 .. MaxTime
  BY DEF Sound
<1>2. ASSUME NEW o \in 1 .. Len(ops) PROVE o \in OpId /\ ops[o] \in Op /\ Made(ops[o])
  <2>1. ops[o] \in Op
    BY <1>1
  <2>2. o \in OpId
    BY <1>1, BoundAssumption DEF OpId
  <2> QED
    BY <2>1, <2>2 DEF Op, Made
<1> QED
  BY <1>1, <1>2

\* What a request writes.
LEMMA WriteFacts ==
  ASSUME Sound, NEW request \in SUBSET (1 .. Len(ops))
  PROVE  /\ Run(request) \in Written /\ StoredIn(Run(request))
         /\ Grown(Begin, Run(request)) /\ Anew(Begin, Run(request))
         /\ Run(request).seq \in seq .. 3 * MaxOps
<1>1. Stored(registers, tracks, journal, seq)
  BY DEF Sound
<1>2. \A o \in request : o \in OpId => Made(ops[o])
  BY OpsMade
<1>3. /\ Run(request) \in Written /\ StoredIn(Run(request))
      /\ Grown(Begin, Run(request)) /\ Anew(Begin, Run(request))
  BY <1>1, <1>2, OpsMade, RunGrows
<1>4. PICK run : run = Run(request)
  OBVIOUS
<1>5. run.journal \in [OpId -> Entry] /\ run.seq \in Nat /\ run.seq <= 3 * Used(run.journal)
  BY <1>3, <1>4 DEF Written, StoredIn, Stored, Within
<1>6. Used(run.journal) \in Nat /\ Used(run.journal) <= MaxOps
  BY <1>5, JournalBounded
<1>7. seq <= run.seq /\ seq \in Nat
  BY <1>1, <1>3, <1>4 DEF Grown, Begin, Stored, Typed
<1> QED
  BY <1>3, <1>4, <1>5, <1>6, <1>7, BoundAssumption

\* The write transaction is one of SyncPull: its rows have fresh seqs, each its own.
LEMMA WriteMaps ==
  ASSUME Sound, NEW request \in SUBSET (1 .. Len(ops)), NEW d, Write(d, request)
  PROVE  Pull!Commit(d)
<1>1. PICK run : run = Run(request)
  OBVIOUS
<1>2. /\ run \in Written /\ StoredIn(run) /\ Grown(Begin, run) /\ Anew(Begin, run)
      /\ run.seq \in seq .. 3 * MaxOps
  BY <1>1, WriteFacts
<1>3. /\ registers' = run.registers /\ tracks' = run.tracks /\ seq' = run.seq
      /\ unpublished' = IF run.seq = seq THEN unpublished ELSE unpublished \cup {d}
  BY <1>1 DEF Write
<1>4. seq \in Nat /\ MaxOps \in Nat
  BY BoundAssumption DEF Sound, Stored, Typed
<1>5. PICK row0, row1 : row0 = RowSeq(registers, tracks) /\ row1 = RowSeq(registers', tracks')
  OBVIOUS
<1>6. row1 = RowSeq(registers, tracks)'
  BY <1>5 DEF RowSeq
<1>7. ASSUME NEW r \in Register
      PROVE  /\ row1[<<KindOf[r], r>>] = run.registers[r].seq
             /\ row0[<<KindOf[r], r>>] = registers[r].seq
             /\ run.registers[r].seq \in 0 .. run.seq
             /\ run.registers[r] = registers[r] \/ seq < run.registers[r].seq
  <2>1. run.registers[r].seq \in Nat /\ run.registers[r].seq <= run.seq
    BY <1>2 DEF Written, RegisterRow, StoredIn, Stored, Within
  <2>2. run.registers[r] = registers[r] \/ seq < run.registers[r].seq
    BY <1>2 DEF Grown, Begin
  <2> QED
    BY <1>2, <1>3, <1>4, <1>5, <2>1, <2>2, RowFacts
<1>8. ASSUME NEW v \in Video
      PROVE  /\ row1[<<"track", v>>] = run.tracks[v].seq
             /\ row0[<<"track", v>>] = tracks[v].seq
             /\ run.tracks[v].seq \in 0 .. run.seq
             /\ run.tracks[v] = tracks[v] \/ seq < run.tracks[v].seq
  <2>1. run.tracks[v].seq \in Nat /\ run.tracks[v].seq <= run.seq
    BY <1>2 DEF Written, TrackRow, StoredIn, Stored, Within
  <2>2. run.tracks[v] = tracks[v] \/ seq < run.tracks[v].seq
    BY <1>2 DEF Grown, Begin
  <2> QED
    BY <1>2, <1>3, <1>4, <1>5, <2>1, <2>2, RowFacts
<1>9. row1 \in [Key -> 0 .. run.seq]
  <2>1. row1 = [k \in Key |-> row1[k]]
    BY <1>5, RowFacts
  <2>2. \A k \in Key : row1[k] \in 0 .. run.seq
    BY <1>7, <1>8, KeyFacts
  <2> QED
    BY <2>1, <2>2
<1>10. \A k \in Key : row1[k] = row0[k] \/ row1[k] > seq
  <2> SUFFICES ASSUME NEW k \in Key PROVE row1[k] = row0[k] \/ row1[k] > seq
    OBVIOUS
  <2>1. CASE \E r \in Register : k = <<KindOf[r], r>>
    BY <1>7, <2>1
  <2>2. CASE \E v \in Video : k = <<"track", v>>
    BY <1>8, <2>2
  <2> QED
    BY <2>1, <2>2, KeyFacts
<1>11. \A j, k \in Key : row1[j] = row1[k] /\ row1[j] > seq => j = k
  <2> SUFFICES ASSUME NEW j \in Key, NEW k \in Key, row1[j] = row1[k], row1[j] > seq PROVE j = k
    OBVIOUS
  <2>0. /\ \A q, r \in Register : seq < run.registers[q].seq /\ run.registers[q].seq = run.registers[r].seq => q = r
        /\ \A u, v \in Video : seq < run.tracks[u].seq /\ run.tracks[u].seq = run.tracks[v].seq => u = v
        /\ \A r \in Register, v \in Video : seq < run.registers[r].seq => run.registers[r].seq # run.tracks[v].seq
    BY <1>2 DEF Anew, Begin
  <2>1. CASE (\E r \in Register : j = <<KindOf[r], r>>) /\ (\E r \in Register : k = <<KindOf[r], r>>)
    BY <1>7, <2>0, <2>1
  <2>2. CASE (\E v \in Video : j = <<"track", v>>) /\ (\E v \in Video : k = <<"track", v>>)
    BY <1>8, <2>0, <2>2
  <2>3. CASE (\E r \in Register : j = <<KindOf[r], r>>) /\ (\E v \in Video : k = <<"track", v>>)
    BY <1>7, <1>8, <2>0, <2>3
  <2>4. CASE (\E v \in Video : j = <<"track", v>>) /\ (\E r \in Register : k = <<KindOf[r], r>>)
    BY <1>7, <1>8, <2>0, <2>4
  <2> QED
    BY <2>1, <2>2, <2>3, <2>4, KeyFacts
<1>12. row1 \in Pull!Rows(run.seq)
  BY <1>5, <1>9, <1>10 DEF Pull!Rows
<1>13. run.seq <= seq + 3 * MaxOps
  BY <1>2, <1>4
<1> QED
  BY <1>2, <1>3, <1>6, <1>11, <1>12, <1>13 DEF Pull!Commit

\* The rows of a database are those of SyncPull, and stay while the tables do.
LEMMA RowsStay == UNCHANGED <<registers, tracks>> => UNCHANGED RowSeq(registers, tracks)
BY DEF RowSeq

LEMMA BackupStays ==
  UNCHANGED backup =>
    UNCHANGED [epoch |-> backup.epoch, seq |-> backup.seq, row |-> RowSeq(backup.registers, backup.tracks)]
BY DEF RowSeq

LEMMA StrayStays == UNCHANGED stray => UNCHANGED {s.dev : s \in stray}
OBVIOUS

\* A request of a device, run while it waits.
LEMMA DeviceCommitMaps ==
  ASSUME Sound, NEW d \in Device, DeviceCommit(d)
  PROVE  Pull!DeviceCommit(d)
<1>1. sent[d] \in SUBSET (1 .. Len(ops))
  BY DEF Sound
<1>2. Write(d, sent[d])
  BY DEF DeviceCommit
<1>3. Pull!Commit(d)
  BY <1>1, <1>2, WriteMaps
<1> QED
  BY <1>3, BackupStays, StrayStays DEF DeviceCommit, Pull!DeviceCommit

\* A request nobody waits for.
LEMMA StrayCommitMaps ==
  ASSUME Sound, NEW s \in stray, StrayCommit(s)
  PROVE  s.dev \in Device /\ Pull!LateCommit(s.dev)
<1>1. s.dev \in Device /\ s.ops \in SUBSET (1 .. Len(ops))
  BY DEF Sound
<1>2. stray' = stray \ {s} /\ UNCHANGED <<epoch, backup, box, sent, settled, req, resp, cur, copy, want>>
  BY DEF StrayCommit
<1>3. {x.dev : x \in stray'} \in {{x.dev : x \in stray}, {x.dev : x \in stray} \ {s.dev}}
  BY <1>2
<1>4. Pull!Commit(s.dev) /\ late' = IF seq' = seq THEN late ELSE late \cup {s.dev}
  <2>1. CASE Pull!Invalid(s.cursor)
    <3>1. UNCHANGED <<seq, registers, tracks, journal, unpublished, late>>
      BY <2>1 DEF StrayCommit, state
    <3>2. UNCHANGED RowSeq(registers, tracks)
      BY <3>1, RowsStay
    <3>3. PICK row0 : row0 = RowSeq(registers, tracks)
      OBVIOUS
    <3>4. /\ seq \in Nat /\ seq \in seq .. 3 * MaxOps /\ seq <= seq + 3 * MaxOps
      <4>1. Used(journal) \in Nat /\ Used(journal) <= MaxOps
        BY JournalBounded DEF Sound, Stored, Typed
      <4>2. seq \in Nat /\ seq <= 3 * Used(journal)
        BY DEF Sound, Stored, Typed, Within
      <4> QED
        BY <4>1, <4>2, BoundAssumption
    <3>5. \A k \in Key : row0[k] \in 0 .. seq
      <4>1. \A r \in Register : registers[r].seq \in 0 .. seq
        BY DEF Sound, Stored, Typed, Within, RegisterRow
      <4>2. \A v \in Video : tracks[v].seq \in 0 .. seq
        BY DEF Sound, Stored, Typed, Within, TrackRow
      <4> QED
        BY <3>3, <4>1, <4>2, KeyFacts, RowFacts
    <3>6. row0 \in Pull!Rows(seq)
      <4>1. row0 = [k \in Key |-> row0[k]]
        BY <3>3, RowFacts
      <4>2. row0 \in [Key -> 0 .. seq]
        BY <3>5, <4>1
      <4> QED
        BY <3>3, <4>2 DEF Pull!Rows
    <3>7. \A j, k \in Key : row0[j] = row0[k] /\ row0[j] > seq => j = k
      BY <3>4, <3>5
    <3> QED
      BY <3>1, <3>2, <3>3, <3>4, <3>6, <3>7 DEF Pull!Commit
  <2>2. CASE ~Pull!Invalid(s.cursor)
    <3>1. Write(s.dev, s.ops) /\ late' = IF seq' = seq THEN late ELSE late \cup {s.dev}
      BY <2>2 DEF StrayCommit
    <3> QED
      BY <1>1, <3>1, WriteMaps
  <2> QED
    BY <2>1, <2>2
<1> QED
  BY <1>1, <1>2, <1>3, <1>4, BackupStays DEF Pull!LateCommit, Pull!device

\* The page of a request, its touched rows and its satellites.
LEMMA ReadMaps ==
  ASSUME Sound, NEW d \in Device, Read(d)
  PROVE  \E extra \in SUBSET Key : Pull!Read(d, extra)
<1>1. PICK lib \in Pull!LibraryReads(d) : \E hist \in Pull!HistoryReads(d, lib) :
        Pull!Answer(d, lib, hist, Touched(d) \cup Satellites(lib.taken \cup Touched(d)))
  BY DEF Read
<1>2. Satellites(lib.taken \cup Touched(d)) \subseteq Key
  BY KeyFacts DEF Satellites
<1>3. Touched(d) \subseteq Key
  <2> SUFFICES ASSUME NEW o \in sent[d] PROVE <<KindOf[ops[o].key], ops[o].key>> \in Key
    BY DEF Touched
  <2>1. o \in 1 .. Len(ops)
    BY DEF Sound
  <2>2. ops[o].key \in Register
    BY <2>1, OpsMade DEF Made
  <2> QED
    BY <2>2, KeyFacts
<1> QED
  BY <1>1, <1>2, <1>3 DEF Pull!Read

\* The initial state, and every step but those of the user and the clock, are of SyncPull.
LEMMA InitMaps == Init => Pull!Init
<1> SUFFICES ASSUME Init PROVE Pull!Init
  OBVIOUS
<1>1. RowSeq(registers, tracks) = Pull!Nothing
  <2>1. \A r \in Register : registers[r].seq = 0
    BY DEF Init, NoRow
  <2>2. \A v \in Video : tracks[v].seq = 0
    BY DEF Init, NoTrack
  <2>3. \A k \in Key : RowSeq(registers, tracks)[k] = 0
    BY <2>1, <2>2, KeyFacts, RowFacts
  <2> QED
    BY <2>3, RowFacts DEF Pull!Nothing
<1>2. backup.epoch = 0 /\ backup.seq = 0 /\ backup.registers = registers /\ backup.tracks = tracks
  BY DEF Init
<1>3. {s.dev : s \in stray} = {}
  BY DEF Init
<1> QED
  BY <1>1, <1>2, <1>3 DEF Init, Pull!Init

LEMMA StepMaps ==
  ASSUME Sound, PP!TypeOK, [Next]_vars
  PROVE  [Pull!Next]_Pull!vars
<1>1. ASSUME NEW d \in Device, DeviceCommit(d) PROVE Pull!Next
  BY <1>1, DeviceCommitMaps DEF Pull!Next
<1>2. ASSUME NEW s \in stray, StrayCommit(s) PROVE Pull!Next
  BY <1>2, StrayCommitMaps DEF Pull!Next
<1>3. ASSUME NEW d \in Device, Read(d) PROVE Pull!Next
  BY <1>3, ReadMaps DEF Pull!Next
<1>4. ASSUME NEW d \in Device, Refuse(d) PROVE Pull!Next
  BY <1>4 DEF Refuse, Pull!Next
<1>5. ASSUME NEW d \in Device, Publish(d) PROVE Pull!Next
  BY <1>5 DEF Publish, Pull!Next
<1>6. ASSUME NEW d \in Device, NEW key, NEW on, NEW at, NEW meta, Act(d, key, on, at, meta)
      PROVE  [Pull!Next]_Pull!vars
  <2>1. /\ want' = [want EXCEPT ![d] = TRUE] /\ want \in [Device -> BOOLEAN]
        /\ UNCHANGED <<epoch, seq, registers, tracks, backup, stray, unpublished, req, resp, cur, copy, late>>
    BY <1>6 DEF Act, state, PP!TypeOK
  <2>2. UNCHANGED <<RowSeq(registers, tracks), {s.dev : s \in stray},
           [epoch |-> backup.epoch, seq |-> backup.seq, row |-> RowSeq(backup.registers, backup.tracks)]>>
    BY <2>1, RowsStay, BackupStays, StrayStays
  <2>3. CASE want[d] = TRUE
    <3>1. want' = want
      BY <2>1, <2>3
    <3> QED
      BY <2>1, <2>2, <3>1 DEF Pull!vars
  <2>4. CASE ~want[d]
    <3>1. Pull!Wake(d)
      BY <2>1, <2>2, <2>4 DEF Pull!Wake, Pull!db
    <3> QED
      BY <3>1 DEF Pull!Next
  <2> QED
    BY <2>1, <2>3, <2>4
<1>7. ASSUME NEW d \in Device, Wake(d) PROVE Pull!Next
  BY <1>7 DEF Wake, Pull!Next
<1>8. ASSUME NEW d \in Device, NEW last, NEW limit \in 1 .. MaxLimit, Send(d, last, limit) PROVE Pull!Next
  <2>1. Pull!Send(d, limit, Pull!Both)
    BY <1>8 DEF Send
  <2>2. Pull!Both \in {{"library", "history"}}
    BY DEF Pull!Both
  <2> QED
    BY <2>1, <2>2 DEF Pull!Next
<1>9. ASSUME NEW d \in Device, Deliver(d) PROVE Pull!Next
  BY <1>9 DEF Deliver, Pull!Next
<1>10. ASSUME NEW d \in Device, StartOver(d) PROVE Pull!Next
  BY <1>10 DEF StartOver, Pull!Next
<1>11. ASSUME NEW d \in Device, Abandon(d) PROVE Pull!Next
  BY <1>11 DEF Abandon, Pull!Next
<1>12. CASE Tick \/ UNCHANGED vars
  <2>1. UNCHANGED <<epoch, seq, registers, tracks, backup, stray, unpublished, req, resp, cur, copy, want, late>>
    BY <1>12 DEF Tick, vars, state, pull
  <2>2. UNCHANGED <<RowSeq(registers, tracks), {s.dev : s \in stray},
           [epoch |-> backup.epoch, seq |-> backup.seq, row |-> RowSeq(backup.registers, backup.tracks)]>>
    BY <2>1, RowsStay, BackupStays, StrayStays
  <2> QED
    BY <2>1, <2>2 DEF Pull!vars
<1>13. CASE Crash \/ TakeBackup \/ Restore \/ RotateEpoch
  BY <1>13 DEF Crash, TakeBackup, Restore, RotateEpoch, Pull!Next
<1> QED
  BY <1>1, <1>2, <1>3, <1>4, <1>5, <1>6, <1>7, <1>8, <1>9, <1>10, <1>11, <1>12, <1>13 DEF Next, Writes, Others

\* The ops and the requests that carry them.
Requests ==
  /\ clock \in 1 .. MaxTime
  /\ ops \in Seq(Op) /\ Len(ops) <= MaxOps
  /\ outbox \in [Device -> SUBSET (1 .. Len(ops))]
  /\ sent \in [Device -> SUBSET (1 .. Len(ops))]
  /\ settled \in [Device -> SUBSET OpId]
  /\ stray \subseteq [dev : Device, ops : SUBSET (1 .. Len(ops)), cursor : Pull!Cursor]

\* The database and its copy.
Database ==
  /\ Stored(registers, tracks, journal, seq)
  /\ backup = [epoch |-> backup.epoch, seq |-> backup.seq, registers |-> backup.registers,
               tracks |-> backup.tracks, journal |-> backup.journal]
  /\ Stored(backup.registers, backup.tracks, backup.journal, backup.seq)

LEMMA SoundParts == Sound <=> Requests /\ Database
BY DEF Sound, Requests, Database

LEMMA InitSound == Init => Sound
<1> SUFFICES ASSUME Init PROVE Sound
  OBVIOUS
<1>1. Requests
  <2>1. ops = <<>> /\ Len(ops) = 0 /\ ops \in Seq(Op)
    BY DEF Init
  <2>2. /\ clock = 1
        /\ outbox = [d \in Device |-> {}] /\ sent = [d \in Device |-> {}]
        /\ settled = [d \in Device |-> {}] /\ stray = {}
    BY DEF Init
  <2> QED
    BY <2>1, <2>2, BoundAssumption DEF Requests
<1>2. PICK rs, ts, js : rs = registers /\ ts = tracks /\ js = journal
  OBVIOUS
<1>3. /\ rs = [r \in Register |-> NoRow] /\ ts = [v \in Video |-> NoTrack] /\ js = [o \in OpId |-> NoEntry] /\ seq = 0
      /\ backup = [epoch |-> 0, seq |-> 0, registers |-> rs, tracks |-> ts, journal |-> js]
  BY <1>2 DEF Init
<1>4. Stored(rs, ts, js, 0)
  <2>1. Typed(rs, ts, js, 0)
    BY <1>3 DEF Typed, RegisterRow, TrackRow, NoRow, NoTrack, Entry
  <2>2. Used(js) \in Nat
    BY <2>1, JournalBounded DEF Typed
  <2>3. Within(rs, ts, js, 0)
    BY <1>3, <2>2 DEF Within, NoRow, NoTrack
  <2>4. Kept(rs, ts)
    BY <1>3, KeyFacts DEF Kept, NoRow
  <2> QED
    BY <2>1, <2>3, <2>4 DEF Stored
<1> QED
  BY <1>1, <1>2, <1>3, <1>4, SoundParts DEF Database

\* The database after a step.
LEMMA DatabaseStep ==
  ASSUME Sound, [Next]_vars
  PROVE  Database'
<1>0. Requests /\ Database
  BY SoundParts
<1>1. ASSUME NEW d, NEW request \in SUBSET (1 .. Len(ops)), Write(d, request), UNCHANGED backup PROVE Database'
  <2>1. PICK run : run = Run(request)
    OBVIOUS
  <2>2. StoredIn(run)
    BY <2>1, WriteFacts
  <2>3. registers' = run.registers /\ tracks' = run.tracks /\ journal' = run.journal /\ seq' = run.seq
    BY <1>1, <2>1 DEF Write
  <2>4. Stored(registers', tracks', journal', seq')
    BY <2>2, <2>3 DEF StoredIn
  <2> QED
    BY <1>0, <1>1, <2>4 DEF Database
<1>2. CASE UNCHANGED <<registers, tracks, journal, seq, backup>>
  BY <1>0, <1>2 DEF Database
<1>3. ASSUME NEW d \in Device, DeviceCommit(d) PROVE Database'
  <2>1. sent[d] \in SUBSET (1 .. Len(ops))
    BY <1>0 DEF Requests
  <2> QED
    BY <1>1, <1>3, <2>1 DEF DeviceCommit
<1>4. ASSUME NEW s \in stray, StrayCommit(s) PROVE Database'
  <2>1. s.ops \in SUBSET (1 .. Len(ops))
    BY <1>0 DEF Requests
  <2>2. CASE Pull!Invalid(s.cursor)
    BY <1>2, <1>4, <2>2 DEF StrayCommit, state
  <2>3. CASE ~Pull!Invalid(s.cursor)
    BY <1>1, <1>4, <2>1, <2>3 DEF StrayCommit
  <2> QED
    BY <2>2, <2>3
<1>5. CASE TakeBackup
  <2>1. /\ backup' = [epoch |-> epoch, seq |-> seq, registers |-> registers, tracks |-> tracks, journal |-> journal]
        /\ UNCHANGED <<registers, tracks, journal, seq>>
    BY <1>5 DEF TakeBackup, state
  <2> QED
    BY <1>0, <2>1 DEF Database
<1>6. CASE Restore
  <2>1. /\ registers' = backup.registers /\ tracks' = backup.tracks /\ journal' = backup.journal /\ seq' = backup.seq
        /\ UNCHANGED backup
    BY <1>6 DEF Restore
  <2> QED
    BY <1>0, <2>1 DEF Database
<1>7. CASE UNCHANGED vars
  BY <1>2, <1>7 DEF vars, state
<1>8. ASSUME NEW d \in Device,
             \/ Read(d) \/ Refuse(d) \/ Publish(d) \/ Wake(d) \/ Deliver(d) \/ StartOver(d) \/ Abandon(d)
             \/ \E key \in Register, on \in BOOLEAN, at \in 1 .. MaxTime + Ahead, meta \in Meta \cup {Stub} :
                  Act(d, key, on, at, meta)
             \/ \E last \in {0} \cup outbox[d], limit \in 1 .. MaxLimit : Send(d, last, limit)
      PROVE  Database'
  <2>1. UNCHANGED <<registers, tracks, journal, seq, backup>>
    BY <1>8 DEF Read, Refuse, Publish, Act, Wake, Send, Deliver, StartOver, Abandon, state
  <2> QED
    BY <1>2, <2>1
<1>9. CASE Tick \/ Crash \/ RotateEpoch
  BY <1>2, <1>9 DEF Tick, Crash, RotateEpoch, state
<1> QED
  BY <1>3, <1>4, <1>5, <1>6, <1>7, <1>8, <1>9 DEF Next, Writes, Others

\* The ops and requests after a step.
LEMMA RequestsStep ==
  ASSUME Sound, PP!TypeOK, [Next]_vars
  PROVE  Requests'
<1>0. Requests
  BY SoundParts
<1>l. Len(ops) \in Nat
  BY <1>0 DEF Requests
<1>c. cur \in [Device -> Pull!Cursor]
  BY DEF PP!TypeOK, PP!Cursor, Pull!Cursor
<1>1. CASE UNCHANGED <<clock, ops, outbox, sent, settled, stray>>
  BY <1>0, <1>1 DEF Requests
<1>2. ASSUME NEW d \in Device, DeviceCommit(d) PROVE Requests'
  <2>1. settled' = [settled EXCEPT ![d] = Settled(Run(sent[d]).results)] /\ UNCHANGED <<clock, ops, outbox, sent, stray>>
    BY <1>2 DEF DeviceCommit, box
  <2>2. Settled(Run(sent[d]).results) \in SUBSET OpId
    BY DEF Settled
  <2> QED
    BY <1>0, <2>1, <2>2 DEF Requests
<1>3. ASSUME NEW s \in stray, StrayCommit(s) PROVE Requests'
  <2>1. stray' = stray \ {s} /\ UNCHANGED <<clock, ops, outbox, sent, settled>>
    BY <1>3 DEF StrayCommit, box
  <2> QED
    BY <1>0, <2>1 DEF Requests
<1>4. ASSUME NEW d \in Device, NEW key \in Register, NEW on \in BOOLEAN, NEW at \in 1 .. MaxTime + Ahead,
             NEW meta \in Meta \cup {Stub}, Act(d, key, on, at, meta)
      PROVE  Requests'
  <2>1. PICK op : op = [dev |-> d, key |-> key, on |-> on, at |-> at, base |-> cur[d], meta |-> meta]
    OBVIOUS
  <2>2. /\ Len(ops) < MaxOps /\ ops' = Append(ops, op)
        /\ outbox' = [outbox EXCEPT ![d] = outbox[d] \cup {Len(ops) + 1}]
        /\ UNCHANGED <<clock, sent, settled, stray>>
    BY <1>4, <2>1 DEF Act
  <2>3. op \in Op
    BY <1>c, <2>1 DEF Op
  <2>4. ops' \in Seq(Op) /\ Len(ops') = Len(ops) + 1 /\ Len(ops') <= MaxOps
    BY <1>0, <2>2, <2>3, BoundAssumption DEF Requests
  <2>5. SUBSET (1 .. Len(ops)) \subseteq SUBSET (1 .. Len(ops')) /\ Len(ops) + 1 \in 1 .. Len(ops')
    BY <1>l, <2>4
  <2>6. outbox' \in [Device -> SUBSET (1 .. Len(ops'))]
    BY <1>0, <2>2, <2>5 DEF Requests
  <2>7. sent' \in [Device -> SUBSET (1 .. Len(ops'))]
    BY <1>0, <2>2, <2>5 DEF Requests
  <2>8. stray' \subseteq [dev : Device, ops : SUBSET (1 .. Len(ops')), cursor : Pull!Cursor]
    BY <1>0, <2>2, <2>5 DEF Requests
  <2> QED
    BY <1>0, <2>2, <2>4, <2>6, <2>7, <2>8 DEF Requests
<1>5. ASSUME NEW d \in Device, NEW last, NEW limit, Send(d, last, limit) PROVE Requests'
  <2>1. sent' = [sent EXCEPT ![d] = {o \in outbox[d] : o <= last}] /\ UNCHANGED <<clock, ops, outbox, settled, stray>>
    BY <1>5 DEF Send, box
  <2> QED
    BY <1>0, <2>1 DEF Requests
<1>6. ASSUME NEW d \in Device, Deliver(d) PROVE Requests'
  <2>1. /\ outbox' = [outbox EXCEPT ![d] = outbox[d] \ settled[d]]
        /\ sent' = [sent EXCEPT ![d] = {}] /\ settled' = [settled EXCEPT ![d] = {}]
        /\ UNCHANGED <<clock, ops, stray>>
    BY <1>6 DEF Deliver
  <2> QED
    BY <1>0, <2>1 DEF Requests
<1>7. ASSUME NEW d \in Device, StartOver(d) PROVE Requests'
  <2>1. /\ sent' = [sent EXCEPT ![d] = {}] /\ settled' = [settled EXCEPT ![d] = {}]
        /\ UNCHANGED <<clock, ops, outbox, stray>>
    BY <1>7 DEF StartOver, box
  <2> QED
    BY <1>0, <2>1 DEF Requests
<1>8. ASSUME NEW d \in Device, Abandon(d) PROVE Requests'
  <2>1. /\ sent' = [sent EXCEPT ![d] = {}] /\ settled' = [settled EXCEPT ![d] = {}]
        /\ UNCHANGED <<clock, ops, outbox>>
        /\ stray' \in {stray, stray \cup {[dev |-> d, ops |-> sent[d], cursor |-> cur[d]]}}
    BY <1>8 DEF Abandon, box
  <2>2. [dev |-> d, ops |-> sent[d], cursor |-> cur[d]] \in [dev : Device, ops : SUBSET (1 .. Len(ops)), cursor : Pull!Cursor]
    BY <1>0, <1>c DEF Requests
  <2>3. stray' \subseteq [dev : Device, ops : SUBSET (1 .. Len(ops)), cursor : Pull!Cursor]
    BY <1>0, <2>1, <2>2 DEF Requests
  <2> QED
    BY <1>0, <2>1, <2>3 DEF Requests
<1>9. ASSUME Crashed PROVE Requests'
  <2>1. /\ sent' = [d \in Device |-> IF req[d].phase \in {"sent", "written"} THEN {} ELSE sent[d]]
        /\ settled' = [d \in Device |-> IF req[d].phase = "written" THEN {} ELSE settled[d]]
        /\ stray' = {} /\ UNCHANGED <<clock, ops, outbox>>
    BY <1>9 DEF Crashed, box
  <2>2. sent' \in [Device -> SUBSET (1 .. Len(ops))]
    BY <1>0, <2>1 DEF Requests
  <2>3. settled' \in [Device -> SUBSET OpId]
    BY <1>0, <2>1 DEF Requests
  <2> QED
    BY <1>0, <2>1, <2>2, <2>3 DEF Requests
<1>10. CASE Tick
  <2>1. clock' = clock + 1 /\ clock < MaxTime /\ UNCHANGED <<ops, outbox, sent, settled, stray>>
    BY <1>10 DEF Tick
  <2>2. clock' \in 1 .. MaxTime
    BY <1>0, <2>1, BoundAssumption DEF Requests
  <2> QED
    BY <1>0, <2>1, <2>2 DEF Requests
<1>11. ASSUME NEW d \in Device, Read(d) \/ Refuse(d) \/ Publish(d) \/ Wake(d) PROVE Requests'
  BY <1>1, <1>11 DEF Read, Refuse, Publish, Wake, box
<1>12. CASE TakeBackup \/ RotateEpoch \/ UNCHANGED vars
  BY <1>1, <1>12 DEF TakeBackup, RotateEpoch, vars, box
<1>13. CASE Crash \/ Restore
  BY <1>9, <1>13 DEF Crash, Restore
<1> QED
  BY <1>2, <1>3, <1>4, <1>5, <1>6, <1>7, <1>8, <1>10, <1>11, <1>12, <1>13 DEF Next, Writes, Others

-----------------------------------------------------------------------------
(***************************************************************************)
(* The op runner implements SyncPull, whose invariant it therefore has.    *)
(***************************************************************************)

LEMMA Both == Spec => [](Sound /\ PP!Passed)
<1>1. Init => Sound /\ PP!Passed
  BY InitSound, InitMaps, SamePull, PullAssumptions, PP!InitPassed
<1>2. Sound /\ PP!Passed /\ [Next]_vars => (Sound /\ PP!Passed)'
  <2> SUFFICES ASSUME Sound, PP!Passed, [Next]_vars PROVE Sound' /\ PP!Passed'
    OBVIOUS
  <2>1. PP!TypeOK
    BY DEF PP!Passed
  <2>2. [PP!Next]_PP!vars
    BY <2>1, StepMaps, SamePull
  <2>3. PP!Passed'
    BY <2>2, PullAssumptions, PP!NextPassed
  <2>4. Requests' /\ Database'
    BY <2>1, DatabaseStep, RequestsStep
  <2>5. Sound'
    BY <2>4 DEF Sound, Requests, Database
  <2> QED
    BY <2>3, <2>5
<1> QED
  BY <1>1, <1>2, PTL DEF Spec

\* The op runner implements SyncPull.
THEOREM RunnerImplements == Spec => Implements
<1>1. Init => Pull!Init
  BY InitMaps
<1>2. Sound /\ PP!Passed /\ [Next]_vars => [Pull!Next]_Pull!vars
  BY StepMaps DEF PP!Passed
<1> QED
  BY <1>1, <1>2, Both, PTL DEF Spec, Implements, Pull!Spec

\* An effect is applied once.
THEOREM EffectsOnce == Spec => EffectOnce
<1>1. ASSUME Sound, PP!TypeOK, [Next]_vars, epoch' = epoch, NEW o \in OpId, journal[o].seq # 0
      PROVE  journal'[o] = journal[o]
  <2>1. ASSUME NEW d, NEW request \in SUBSET (1 .. Len(ops)), Write(d, request) PROVE journal'[o] = journal[o]
    BY <1>1, <2>1, WriteFacts DEF Write, Grown, Begin
  <2>2. ASSUME NEW d \in Device, DeviceCommit(d) PROVE journal'[o] = journal[o]
    BY <1>1, <2>1, <2>2 DEF DeviceCommit, Sound
  <2>3. ASSUME NEW s \in stray, StrayCommit(s) PROVE journal'[o] = journal[o]
    <3>1. s.ops \in SUBSET (1 .. Len(ops))
      BY <1>1 DEF Sound
    <3> QED
      BY <2>1, <2>3, <3>1 DEF StrayCommit, state
  <2>4. ~Restore
    BY <1>1 DEF Restore, PP!TypeOK
  <2>5. ASSUME NEW d \in Device,
               \/ Read(d) \/ Refuse(d) \/ Publish(d) \/ Wake(d) \/ Deliver(d) \/ StartOver(d) \/ Abandon(d)
               \/ \E key \in Register, on \in BOOLEAN, at \in 1 .. MaxTime + Ahead, meta \in Meta \cup {Stub} :
                    Act(d, key, on, at, meta)
               \/ \E last \in {0} \cup outbox[d], limit \in 1 .. MaxLimit : Send(d, last, limit)
        PROVE  journal' = journal
    BY <2>5 DEF Read, Refuse, Publish, Act, Wake, Send, Deliver, StartOver, Abandon, state
  <2>6. ASSUME Tick \/ Crash \/ TakeBackup \/ RotateEpoch \/ UNCHANGED vars PROVE journal' = journal
    BY <2>6 DEF Tick, Crash, TakeBackup, RotateEpoch, vars, state
  <2> QED
    BY <1>1, <2>2, <2>3, <2>4, <2>5, <2>6 DEF Next, Writes, Others
<1>2. Sound /\ PP!Passed /\ [Next]_vars =>
        (epoch' = epoch => \A o \in OpId : journal[o].seq # 0 => journal'[o] = journal[o])
  BY <1>1 DEF PP!Passed
<1> QED
  BY <1>2, Both, PTL DEF Spec, EffectOnce

-----------------------------------------------------------------------------
(***************************************************************************)
(* A device never shows a like without its track.                          *)
(***************************************************************************)

\* What the device would hold with the response on its way.
HeldBy(d) == [k \in Key |-> IF resp[d].got[k] # 0 THEN resp[d].got[k] ELSE copy[d][k]]

\* Rows of the database: a like that is the stored one comes with its track.
Named(have) ==
  /\ \A k \in Key : have[k] <= seq
  /\ \A v \in Video : registers[v].on /\ have[<<"like", v>>] = registers[v].seq /\ tracks[v].seq # 0 =>
       have[<<"track", v>>] # 0

\* It is so for a device in the epoch, before and after its response; one without a cursor has nothing.
TrackedAt(d) ==
  /\ cur[d].epoch = epoch => Named(copy[d])
  /\ resp[d].cursor.epoch = epoch => Named(HeldBy(d))
  /\ cur[d].epoch = 0 => copy[d] = Pull!Nothing
  /\ req[d].phase = "answered" => resp[d].cursor.epoch # 0

Tracked == \A d \in Device : TrackedAt(d)

\* A write leaves the rows of a device named: a new like has a new seq, and full tracks stay full.
LEMMA WriteNames ==
  ASSUME Sound, NEW request \in SUBSET (1 .. Len(ops)), NEW d, Write(d, request),
         NEW have \in [Key -> Nat], Named(have)
  PROVE  Named(have)'
<1>1. PICK run : run = Run(request)
  OBVIOUS
<1>2. Grown(Begin, run) /\ run.seq \in seq .. 3 * MaxOps
  BY <1>1, WriteFacts
<1>3. registers' = run.registers /\ tracks' = run.tracks /\ seq' = run.seq
  BY <1>1 DEF Write
<1>4. seq \in Nat /\ MaxOps \in Nat
  BY BoundAssumption DEF Sound, Stored, Typed
<1>5. \A k \in Key : have[k] <= seq'
  BY <1>2, <1>3, <1>4 DEF Named
<1>6. ASSUME NEW v \in Video, registers'[v].on, have[<<"like", v>>] = registers'[v].seq, tracks'[v].seq # 0
      PROVE  have[<<"track", v>>] # 0
  <2>0. v \in Register /\ <<"like", v>> \in Key
    BY KeyFacts
  <2>1. have[<<"like", v>>] \in Nat /\ have[<<"like", v>>] <= seq
    BY <2>0 DEF Named
  <2>2. registers'[v] = registers[v]
    <3>1. registers'[v] = registers[v] \/ seq < registers'[v].seq
      BY <1>2, <1>3, <2>0 DEF Grown, Begin
    <3> QED
      BY <1>4, <1>6, <2>1, <3>1
  <2>3. tracks[v].seq # 0
    <3>1. tracks[v].seq = 0 => Used(tracks) < TracksQuota
      BY <1>2, <1>3, <1>6 DEF Grown, Begin
    <3>2. tracks[v].seq # 0 \/ Used(tracks) >= TracksQuota
      BY <1>6, <2>2 DEF Sound, Stored, Kept
    <3>3. Used(tracks) \in Nat /\ TracksQuota \in Nat
      <4>1. DOMAIN tracks \subseteq Register
        BY DEF Sound, Stored, Typed, Video
      <4> QED
        BY <4>1, Countable, QuotaAssumption
    <3> QED
      BY <3>1, <3>2, <3>3
  <2> QED
    BY <1>6, <2>2, <2>3 DEF Named
<1> QED
  BY <1>5, <1>6 DEF Named

\* The tables of the second stream are none.
LEMMA LibraryOnly ==
  ASSUME NEW d \in Device, NEW lib \in Pull!LibraryReads(d), NEW hist \in Pull!HistoryReads(d, lib)
  PROVE  hist.taken = {}
<1>1. Pull!Keys(Pull!History) = {}
  BY DEF Pull!Keys, Pull!History
<1>2. CASE "history" \notin req[d].streams
  BY <1>2 DEF Pull!HistoryReads, Pull!Skipped, Pull!StreamPage
<1>3. ASSUME NEW n, NEW after, NEW page \in Pull!StreamReads(Pull!History, after, n)
      PROVE  page.taken = {}
  <2>1. \A read \in Pull!TableReads(Pull!History, after, n + 1) : read = {}
    BY <1>1 DEF Pull!TableReads, Pull!Unseen
  <2>2. ASSUME NEW p \in Pull!Cut({}, n) PROVE p.taken = {}
    <3>1. PICK taken \in SUBSET {} : \E end, exhausted : p = Pull!StreamPage(taken, end, exhausted)
      BY <2>2 DEF Pull!Cut
    <3> QED
      BY <3>1 DEF Pull!StreamPage
  <2> QED
    BY <1>3, <2>1, <2>2 DEF Pull!StreamReads, Pull!StreamPage
<1> QED
  BY <1>2, <1>3 DEF Pull!HistoryReads

\* The response names what it brings, and the device what it had.
LEMMA ReadNames ==
  ASSUME Sound, PP!TypeOK, PP!EpochsKnown, Tracked, NEW d \in Device, Read(d)
  PROVE  resp'[d].cursor.epoch = epoch /\ Named(HeldBy(d))'
<1>1. PICK lib \in Pull!LibraryReads(d) : \E hist \in Pull!HistoryReads(d, lib) :
        Pull!Answer(d, lib, hist, Touched(d) \cup Satellites(lib.taken \cup Touched(d)))
  BY DEF Read
<1>2. PICK hist \in Pull!HistoryReads(d, lib) :
        Pull!Answer(d, lib, hist, Touched(d) \cup Satellites(lib.taken \cup Touched(d)))
  BY <1>1
<1>3. PICK keys : keys = lib.taken \cup Touched(d)
  OBVIOUS
<1>4. PICK all : all = keys \cup Satellites(keys)
  OBVIOUS
<1>5. lib.taken \cup hist.taken \cup (Touched(d) \cup Satellites(lib.taken \cup Touched(d))) = all
  BY <1>3, <1>4, LibraryOnly
<1>6. PICK rows : rows = RowSeq(registers, tracks)
  OBVIOUS
<1>7. PICK response :
        response = [cursor |-> [epoch |-> epoch, lib |-> lib.end, hist |-> hist.end],
                    got |-> [k \in Key |-> IF k \in all THEN rows[k] ELSE 0],
                    more |-> ~lib.exhausted \/ ~hist.exhausted]
  OBVIOUS
<1>8. resp' = [resp EXCEPT ![d] = response] /\ UNCHANGED <<copy, epoch, seq, registers, tracks>> /\ ~Pull!Invalid(cur[d])
  BY <1>2, <1>5, <1>6, <1>7 DEF Pull!Answer, Pull!ResponseRows, Read, state
<1>9. resp'[d] = response
  BY <1>8 DEF PP!TypeOK
<1>10. PICK have : have = HeldBy(d)'
  OBVIOUS
<1>11. have = [k \in Key |-> IF response.got[k] # 0 THEN response.got[k] ELSE copy[d][k]]
  BY <1>8, <1>9, <1>10 DEF HeldBy
<1>12. \A k \in Key : response.got[k] = IF k \in all THEN rows[k] ELSE 0
  BY <1>7
<1>13. \A k \in Key : rows[k] \in Nat /\ rows[k] <= seq
  <2>1. \A r \in Register : registers[r].seq \in Nat /\ registers[r].seq <= seq
    BY DEF Sound, Stored, Typed, Within, RegisterRow
  <2>2. \A v \in Video : tracks[v].seq \in Nat /\ tracks[v].seq <= seq
    BY DEF Sound, Stored, Typed, Within, TrackRow
  <2> SUFFICES ASSUME NEW k \in Key PROVE rows[k] \in Nat /\ rows[k] <= seq
    OBVIOUS
  <2>3. CASE \E r \in Register : k = <<KindOf[r], r>>
    BY <1>6, <2>1, <2>3, RowFacts
  <2>4. CASE \E v \in Video : k = <<"track", v>>
    BY <1>6, <2>2, <2>4, RowFacts
  <2> QED
    BY <2>3, <2>4, KeyFacts
<1>14. copy[d] \in [Key -> Nat] /\ seq \in Nat /\ epoch \in Nat
  BY DEF PP!TypeOK
<1>15. cur[d].epoch = epoch \/ copy[d] = Pull!Nothing
  <2>1. cur[d] # Pull!Start => cur[d].epoch = epoch
    BY <1>8 DEF Pull!Invalid
  <2>2. cur[d] = Pull!Start => copy[d] = Pull!Nothing
    BY DEF Tracked, TrackedAt, Pull!Start
  <2> QED
    BY <2>1, <2>2
<1>16. \A k \in Key : have[k] \in Nat /\ have[k] <= seq
  <2>1. \A k \in Key : copy[d][k] \in Nat /\ copy[d][k] <= seq
    BY <1>14, <1>15 DEF Tracked, TrackedAt, Named, Pull!Nothing
  <2> QED
    BY <1>11, <1>12, <1>13, <2>1
<1>17. ASSUME NEW v \in Video, registers[v].on, have[<<"like", v>>] = registers[v].seq, tracks[v].seq # 0
       PROVE  have[<<"track", v>>] # 0
  <2>0. <<"like", v>> \in Key /\ <<"track", v>> \in Key /\ v \in Register /\ KindOf[v] = "like"
    BY KeyFacts
  <2>1. registers[v].seq # 0
    BY <1>17, <2>0 DEF Sound, Stored, Kept, NoRow
  <2>2. rows[<<"track", v>>] = tracks[v].seq
    BY <1>6, RowFacts
  <2>3. CASE <<"like", v>> \in keys
    <3>1. <<"track", v>> \in all
      BY <1>4, <1>17, <2>3 DEF Satellites
    <3> QED
      BY <1>11, <1>12, <1>17, <2>0, <2>2, <3>1
  <2>4. CASE <<"like", v>> \notin keys
    <3>1. <<"like", v>> \notin all
      BY <1>4, <2>4 DEF Satellites
    <3>2. have[<<"like", v>>] = copy[d][<<"like", v>>]
      BY <1>11, <1>12, <2>0, <3>1
    <3>3. cur[d].epoch = epoch
      BY <1>15, <1>17, <2>0, <2>1, <3>2 DEF Pull!Nothing
    <3>4. copy[d][<<"track", v>>] # 0
      BY <1>17, <3>2, <3>3 DEF Tracked, TrackedAt, Named
    <3> QED
      BY <1>11, <2>0, <3>4
  <2> QED
    BY <2>3, <2>4
<1>18. Named(have)
  BY <1>16, <1>17 DEF Named
<1>19. Named(have)'
  BY <1>8, <1>18 DEF Named
<1> QED
  BY <1>7, <1>9, <1>10, <1>19 DEF Named

\* A device the step leaves alone.
LEMMA TrackedStays ==
  ASSUME NEW d, UNCHANGED <<epoch, seq, registers, tracks>>, TrackedAt(d),
         resp'[d] = resp[d], cur'[d] = cur[d], copy'[d] = copy[d],
         req'[d].phase = "answered" => req[d].phase = "answered"
  PROVE  TrackedAt(d)'
<1>1. PICK had, have : had = copy[d] /\ have = HeldBy(d)
  OBVIOUS
<1>2. copy'[d] = had /\ HeldBy(d)' = have
  BY <1>1 DEF HeldBy
<1>3. (Named(had) => Named(had)') /\ (Named(have) => Named(have)')
  BY DEF Named
<1> QED
  BY <1>1, <1>2, <1>3 DEF TrackedAt, Named

\* The write transactions.
LEMMA WritesTracked ==
  ASSUME Sound, PP!TypeOK, Tracked, NEW request \in SUBSET (1 .. Len(ops)), NEW d \in Device, Write(d, request),
         UNCHANGED <<epoch, resp, cur, copy>>,
         \A e \in Device : req'[e].phase = "answered" => req[e].phase = "answered"
  PROVE  Tracked'
<1> SUFFICES ASSUME NEW e \in Device PROVE TrackedAt(e)'
  BY DEF Tracked
<1>1. PICK had, have : had = copy[e] /\ have = HeldBy(e)
  OBVIOUS
<1>2. copy'[e] = had /\ HeldBy(e)' = have
  BY <1>1 DEF HeldBy
<1>3. had \in [Key -> Nat] /\ have \in [Key -> Nat]
  <2>1. copy[e] \in [Key -> Nat] /\ resp[e].got \in [Key -> Nat]
    BY DEF PP!TypeOK, PP!Response
  <2> QED
    BY <1>1, <2>1 DEF HeldBy
<1>4. Named(had) => Named(had)'
  BY <1>3, WriteNames
<1>5. Named(have) => Named(have)'
  BY <1>3, WriteNames
<1>6. TrackedAt(e)
  BY DEF Tracked
<1> QED
  BY <1>1, <1>2, <1>4, <1>5, <1>6 DEF TrackedAt, Named

\* A new epoch makes every cursor one of the past.
LEMMA EpochTracked ==
  ASSUME PP!TypeOK, PP!EpochsKnown, Tracked, epoch' = epoch + 1, UNCHANGED <<resp, cur, copy>>,
         \A d \in Device : req'[d].phase = "answered" => req[d].phase = "answered"
  PROVE  Tracked'
<1> SUFFICES ASSUME NEW d \in Device PROVE TrackedAt(d)'
  BY DEF Tracked
<1>1. cur[d].epoch <= epoch /\ resp[d].cursor.epoch <= epoch
  BY DEF PP!EpochsKnown
<1>2. cur[d].epoch \in Nat /\ resp[d].cursor.epoch \in Nat /\ epoch \in Nat
  BY DEF PP!TypeOK, PP!Cursor, PP!Response
<1>3. TrackedAt(d)
  BY DEF Tracked
<1>4. cur'[d].epoch # epoch' /\ resp'[d].cursor.epoch # epoch'
  BY <1>1, <1>2
<1> QED
  BY <1>3, <1>4 DEF TrackedAt

LEMMA InitTracked == Init => Tracked
<1> SUFFICES ASSUME Init, NEW d \in Device PROVE TrackedAt(d)
  BY DEF Tracked
<1>1. /\ cur[d].epoch = 0 /\ epoch = 1 /\ resp[d].cursor.epoch = 0
      /\ copy[d] = Pull!Nothing /\ req[d].phase # "answered"
  BY DEF Init, Pull!Start, Pull!NoResponse, Pull!Idle
<1> QED
  BY <1>1 DEF TrackedAt

LEMMA TrackedStep ==
  ASSUME Sound, PP!Passed, Tracked, [Next]_vars
  PROVE  Tracked'
<1>0. PP!TypeOK /\ PP!EpochsKnown /\ PP!ResponseOfAnswered
  BY DEF PP!Passed
<1>t. /\ epoch \in Nat /\ epoch >= 1 /\ req \in [Device -> PP!Request] /\ resp \in [Device -> PP!Response]
      /\ cur \in [Device -> PP!Cursor] /\ copy \in [Device -> [Key -> Nat]]
  BY <1>0 DEF PP!TypeOK, PP!EpochsKnown
<1>a. \A d \in Device : TrackedAt(d)
  BY DEF Tracked
<1>1. ASSUME UNCHANGED <<epoch, seq, registers, tracks, resp, cur, copy>>,
             \A d \in Device : req'[d].phase = "answered" => req[d].phase = "answered"
      PROVE  Tracked'
  BY <1>1, <1>a, TrackedStays DEF Tracked
<1>2. ASSUME NEW d \in Device, DeviceCommit(d) PROVE Tracked'
  <2>1. Write(d, sent[d]) /\ UNCHANGED <<epoch, resp, cur, copy>> /\ req' = [req EXCEPT ![d].phase = "written"]
    BY <1>2 DEF DeviceCommit
  <2>2. \A e \in Device : req'[e].phase = "answered" => req[e].phase = "answered"
    BY <1>t, <2>1 DEF PP!Request
  <2>3. sent[d] \in SUBSET (1 .. Len(ops))
    BY DEF Sound
  <2> QED
    BY <1>0, <2>1, <2>2, <2>3, WritesTracked
<1>3. ASSUME NEW s \in stray, StrayCommit(s) PROVE Tracked'
  <2>1. UNCHANGED <<epoch, resp, cur, copy, req>>
    BY <1>3 DEF StrayCommit
  <2>2. CASE Pull!Invalid(s.cursor)
    BY <1>1, <1>3, <2>1, <2>2 DEF StrayCommit, state
  <2>3. CASE ~Pull!Invalid(s.cursor)
    <3>1. s.ops \in SUBSET (1 .. Len(ops)) /\ s.dev \in Device
      BY DEF Sound
    <3>2. Write(s.dev, s.ops)
      BY <1>3, <2>3 DEF StrayCommit
    <3> QED
      BY <1>0, <2>1, <3>1, <3>2, WritesTracked
  <2> QED
    BY <2>2, <2>3
<1>4. ASSUME NEW d \in Device, Read(d) PROVE Tracked'
  <2>1. PICK lib, hist, extra : Pull!Answer(d, lib, hist, extra)
    BY <1>4 DEF Read
  <2>2. /\ UNCHANGED <<epoch, seq, registers, tracks, cur, copy>>
        /\ req' = [req EXCEPT ![d].phase = "answered"]
        /\ \A e \in Device : e # d => resp'[e] = resp[e] /\ req'[e] = req[e]
    BY <1>4, <2>1, <1>t DEF Read, Pull!Answer, state
  <2>3. resp'[d].cursor.epoch = epoch /\ Named(HeldBy(d))'
    BY <1>0, <1>4, ReadNames
  <2>4. ASSUME NEW e \in Device, e # d PROVE TrackedAt(e)'
    BY <1>a, <2>2, <2>4, TrackedStays
  <2>5. TrackedAt(d)'
    <3>1. PICK had : had = copy[d]
      OBVIOUS
    <3>2. Named(had) => Named(had)'
      BY <2>2 DEF Named
    <3>3. copy'[d] = had
      BY <2>2, <3>1
    <3> QED
      BY <1>t, <1>a, <2>2, <2>3, <3>1, <3>2, <3>3 DEF TrackedAt, Named
  <2> QED
    BY <2>4, <2>5 DEF Tracked
<1>5. ASSUME NEW d \in Device, Deliver(d) PROVE Tracked'
  <2>1. PICK have : have = HeldBy(d)
    OBVIOUS
  <2>2. /\ req[d].phase = "answered"
        /\ copy' = [copy EXCEPT ![d] = have] /\ cur' = [cur EXCEPT ![d] = resp[d].cursor]
        /\ req' = [req EXCEPT ![d] = Pull!Idle] /\ resp' = [resp EXCEPT ![d] = Pull!NoResponse]
        /\ UNCHANGED <<epoch, seq, registers, tracks>>
    BY <1>5, <2>1 DEF Deliver, Pull!Deliver, Pull!db, state, HeldBy
  <2>3. ASSUME NEW e \in Device, e # d PROVE TrackedAt(e)'
    BY <1>a, <1>t, <2>2, <2>3, TrackedStays
  <2>4. /\ copy'[d] = have /\ cur'[d] = resp[d].cursor /\ resp'[d].cursor.epoch = 0 /\ req'[d].phase # "answered"
    BY <1>t, <2>2 DEF Pull!NoResponse, Pull!Start, Pull!Idle
  <2>5. Named(have) => Named(have)'
    BY <2>2 DEF Named
  <2>6. (cur'[d].epoch = epoch => Named(have)) /\ cur'[d].epoch # 0
    BY <1>a, <2>1, <2>2, <2>4 DEF TrackedAt
  <2>7. TrackedAt(d)'
    BY <1>t, <2>2, <2>4, <2>5, <2>6 DEF TrackedAt, Named
  <2> QED
    BY <2>3, <2>7 DEF Tracked
<1>6. ASSUME NEW d \in Device, StartOver(d) PROVE Tracked'
  <2>1. /\ req[d].phase = "gone"
        /\ cur' = [cur EXCEPT ![d] = Pull!Start] /\ copy' = [copy EXCEPT ![d] = Pull!Nothing]
        /\ req' = [req EXCEPT ![d] = Pull!Idle]
        /\ UNCHANGED <<epoch, seq, registers, tracks, resp>>
    BY <1>6 DEF StartOver, Pull!StartOver, Pull!db, state
  <2>2. ASSUME NEW e \in Device, e # d PROVE TrackedAt(e)'
    BY <1>a, <1>t, <2>1, <2>2, TrackedStays
  <2>3. resp[d].cursor.epoch = 0
    BY <1>0, <2>1 DEF PP!ResponseOfAnswered, PP!NoResponse, PP!Start
  <2>4. /\ copy'[d] = Pull!Nothing /\ cur'[d].epoch = 0 /\ resp'[d].cursor.epoch = 0 /\ req'[d].phase # "answered"
    BY <1>t, <2>1, <2>3 DEF Pull!Start, Pull!Idle
  <2>5. TrackedAt(d)'
    BY <1>t, <2>1, <2>4 DEF TrackedAt
  <2> QED
    BY <2>2, <2>5 DEF Tracked
<1>7. ASSUME NEW d \in Device, Abandon(d) PROVE Tracked'
  <2>1. /\ resp' = [resp EXCEPT ![d] = Pull!NoResponse] /\ req' = [req EXCEPT ![d] = Pull!Idle]
        /\ UNCHANGED <<epoch, seq, registers, tracks, cur, copy>>
    BY <1>7 DEF Abandon, Pull!Abandon, Pull!db, state
  <2>2. ASSUME NEW e \in Device, e # d PROVE TrackedAt(e)'
    BY <1>a, <1>t, <2>1, <2>2, TrackedStays
  <2>3. resp'[d].cursor.epoch = 0 /\ req'[d].phase # "answered"
    BY <1>t, <2>1 DEF Pull!NoResponse, Pull!Start, Pull!Idle
  <2>4. PICK had : had = copy[d]
    OBVIOUS
  <2>5. (Named(had) => Named(had)') /\ copy'[d] = had
    BY <2>1, <2>4 DEF Named
  <2>6. TrackedAt(d)'
    BY <1>t, <1>a, <2>1, <2>3, <2>4, <2>5 DEF TrackedAt, Named
  <2> QED
    BY <2>2, <2>6 DEF Tracked
<1>8. ASSUME NEW d \in Device,
             \/ Refuse(d) \/ Publish(d) \/ Wake(d)
             \/ \E key \in Register, on \in BOOLEAN, at \in 1 .. MaxTime + Ahead, meta \in Meta \cup {Stub} :
                  Act(d, key, on, at, meta)
             \/ \E last \in {0} \cup outbox[d], limit \in 1 .. MaxLimit : Send(d, last, limit)
      PROVE  Tracked'
  <2>1. UNCHANGED <<epoch, seq, registers, tracks, resp, cur, copy>>
    BY <1>8 DEF Refuse, Pull!Refuse, Publish, Pull!Publish, Wake, Pull!Wake, Act, Send, Pull!Send, state, Pull!db
  <2>2. \A e \in Device : req'[e].phase = "answered" => req[e].phase = "answered"
    <3>1. CASE Refuse(d)
      <4>1. req' = [req EXCEPT ![d].phase = "gone"]
        BY <3>1 DEF Refuse, Pull!Refuse
      <4> QED
        BY <1>t, <4>1 DEF PP!Request
    <3>2. ASSUME NEW last, NEW limit, Send(d, last, limit)
          PROVE  \A e \in Device : req'[e].phase = "answered" => req[e].phase = "answered"
      <4>1. req' = [req EXCEPT ![d] = [phase |-> "sent", limit |-> limit, streams |-> Pull!Both]]
        BY <3>2 DEF Send, Pull!Send
      <4> QED
        BY <1>t, <4>1
    <3>3. UNCHANGED req \/ Refuse(d) \/ \E last, limit : Send(d, last, limit)
      BY <1>8 DEF Publish, Pull!Publish, Wake, Pull!Wake, Act
    <3> QED
      BY <3>1, <3>2, <3>3
  <2> QED
    BY <1>1, <2>1, <2>2
<1>9. CASE Restore \/ RotateEpoch
  <2>1. epoch' = epoch + 1 /\ UNCHANGED <<resp, cur, copy>>
    BY <1>9 DEF Restore, RotateEpoch, Pull!Restore, Pull!RotateEpoch, Pull!Crashed, Pull!device
  <2>2. \A e \in Device : req'[e].phase = "answered" => req[e].phase = "answered"
    BY <1>9, <1>t DEF Restore, RotateEpoch, Pull!Restore, Pull!RotateEpoch, Pull!Crashed, Pull!device, Pull!Idle
  <2> QED
    BY <1>0, <2>1, <2>2, EpochTracked
<1>10. CASE Crash
  <2>1. UNCHANGED <<epoch, seq, registers, tracks, resp, cur, copy>>
    BY <1>10 DEF Crash, Pull!Crash, Pull!Crashed, state
  <2>2. \A e \in Device : req'[e].phase = "answered" => req[e].phase = "answered"
    BY <1>10, <1>t DEF Crash, Pull!Crash, Pull!Crashed, Pull!Idle
  <2> QED
    BY <1>1, <2>1, <2>2
<1>11. CASE Tick \/ TakeBackup \/ UNCHANGED vars
  <2>1. UNCHANGED <<epoch, seq, registers, tracks, resp, cur, copy, req>>
    BY <1>11 DEF Tick, TakeBackup, Pull!TakeBackup, Pull!device, vars, state, pull
  <2> QED
    BY <1>1, <2>1
<1> QED
  BY <1>2, <1>3, <1>4, <1>5, <1>6, <1>7, <1>8, <1>9, <1>10, <1>11 DEF Next, Writes, Others

\* A like is never without its track, in the database and on every device.
THEOREM LikesAreNamed == Spec => []LikesHaveTracks
<1>1. Init => Tracked
  BY InitTracked
<1>2. Sound /\ PP!Passed /\ Tracked /\ [Next]_vars => Tracked'
  BY TrackedStep
<1>3. Sound /\ Tracked => LikesHaveTracks
  <2> SUFFICES ASSUME Sound, Tracked, NEW v \in Video, registers[v].on
               PROVE  /\ tracks[v].seq # 0 \/ Used(tracks) >= TracksQuota
                      /\ \A d \in Device :
                           /\ cur[d].epoch = epoch
                           /\ copy[d][<<"like", v>>] = registers[v].seq
                           /\ tracks[v].seq # 0
                           => copy[d][<<"track", v>>] # 0
    BY DEF LikesHaveTracks
  <2>1. tracks[v].seq # 0 \/ Used(tracks) >= TracksQuota
    BY DEF Sound, Stored, Kept
  <2> QED
    BY <2>1 DEF Tracked, TrackedAt, Named
<1> QED
  BY <1>1, <1>2, <1>3, Both, PTL DEF Spec

-----------------------------------------------------------------------------
(***************************************************************************)
(* The user's last word.                                                   *)
(***************************************************************************)

\* The ops on a register, all of one device.
On(r) == {o \in DOMAIN ops : ops[o].key = r}
Mine(r) == \A p, q \in On(r) : ops[p].dev = ops[q].dev

\* The row says what the op says, or a later op wrote it.
Heard(reg, p) == Unchanged(reg, ops[p]) \/ (reg.seq # 0 /\ ops[p].at < reg.at)

\* The op would write nothing.
Quiet(rows, p) ==
  LET r == ops[p].key IN Heard(rows[r], p) \/ (rows[r].seq = 0 /\ Full(rows, r))

\* The row is of an op of the register, and no earlier op had seen it.
Authored(reg, r) ==
  reg.seq # 0 =>
    /\ \E y \in On(r) : reg.at = ops[y].at /\ reg.dev = ops[y].dev
    /\ \A x \in On(r) : ops[x].at <= reg.at /\ ops[x].base.epoch = epoch => ops[x].base.lib < reg.seq

\* The server has spoken on the op.
Past(p) == p \notin outbox[ops[p].dev] \/ p \in settled[ops[p].dev] \/ journal[p].seq # 0

Stamped ==
  /\ \A o \in DOMAIN ops :
       /\ ops[o].at <= clock
       /\ Makes(ops[o].key, ops[o].on, ops[o].meta)
       /\ ops[o].base.epoch <= epoch
       /\ ops[o].base.epoch = epoch => ops[o].base.lib <= seq
  /\ \A p, q \in DOMAIN ops : p < q /\ ops[p].dev = ops[q].dev => ops[p].at < ops[q].at

\* A request has the earlier ops of its device but those the server has spoken on.
Ordered(request, d) ==
  /\ \A o \in request : ops[o].dev = d
  /\ \A p \in request, q \in DOMAIN ops : q < p /\ ops[q].dev = d => q \in request \/ q \notin outbox[d]

Carried ==
  /\ \A d \in Device : (\A o \in outbox[d] : ops[o].dev = d) /\ Ordered(sent[d], d)
  /\ \A d \in Device : settled[d] \subseteq DOMAIN ops
  /\ \A s \in stray : Ordered(s.ops, s.dev)
  /\ \A o \in OpId : journal[o].seq # 0 => o \in DOMAIN ops

SpokenOn(r) ==
  /\ Authored(registers[r], r)
  /\ \A p \in On(r) : Past(p) =>
       /\ Heard(registers[r], p)
       /\ \A q \in On(r) : q <= p => Quiet(registers, q)

Spoken == \A r \in Register : Mine(r) => SpokenOn(r)

\* Edits of one register by one device, whose clock is not ahead, in a database never copied back.
Word == Ahead = 0 /\ backup.epoch = 0 => Stamped /\ Carried /\ Spoken

\* A row an op wrote says what the op says.
LEMMA WrittenSays ==
  ASSUME NEW reg, NEW op, Made(op), NEW w, w.seq # 0,
         w.on = Image(reg, op).on, w.meta = Image(reg, op).meta
  PROVE  Unchanged(w, op)
<1>1. CASE KindOf[op.key] = "like"
  BY <1>1 DEF Image, LikeImage, Unchanged
<1>2. CASE KindOf[op.key] = "bookmark"
  BY <1>2 DEF Image, BookmarkImage, Unchanged
<1>3. CASE KindOf[op.key] # "like" /\ KindOf[op.key] # "bookmark"
  BY <1>3 DEF Image, DescribedImage, Unchanged
<1> QED
  BY <1>1, <1>2, <1>3

\* A kind that is full stays full while no row goes.
LEMMA StaysFull ==
  ASSUME NEW b \in [Register -> RegisterRow], NEW s \in [Register -> RegisterRow],
         \A q \in Register : b[q].seq # 0 => s[q].seq # 0,
         NEW r \in Register, Full(b, r)
  PROVE  Full(s, r)
<1> DEFINE kind == KindOf[r]
           B == [q \in {p \in DOMAIN b : KindOf[p] = kind} |-> b[q]]
           S == [q \in {p \in DOMAIN s : KindOf[p] = kind} |-> s[q]]
<1>1. DOMAIN B = DOMAIN S /\ DOMAIN B \subseteq Register /\ \A q \in DOMAIN B : B[q].seq # 0 => S[q].seq # 0
  OBVIOUS
<1>2. Used(B) \in Nat /\ Used(S) \in Nat /\ Used(B) <= Used(S)
  <2> HIDE DEF B, S
  <2> QED
    BY <1>1, UsedGrows
<1>3. Used(B) = UsedOf(b, kind) /\ Used(S) = UsedOf(s, kind)
  BY DEF UsedOf
<1>4. Quota[kind] \in Nat
  BY QuotaAssumption, KindAssumption DEF Range
<1> HIDE DEF B, S
<1> QED
  BY <1>2, <1>3, <1>4 DEF Full

-----------------------------------------------------------------------------
\* What holds of a register after the ops of the request up to o.
SpokenIn(request, r, s, o) ==
  /\ seq <= s.seq
  /\ Authored(s.registers[r], r)
  /\ \A p \in On(r) : Past(p) \/ (p \in request /\ p <= o) =>
       \A q \in On(r) : q <= p => Quiet(s.registers, q)
  /\ \A p \in On(r) : Past(p) \/ s.journal[p].seq # 0 \/ s.results[p] \notin {"none", "deferred"} =>
       /\ Past(p) \/ (p \in request /\ p <= o)
       /\ Heard(s.registers[r], p)

LEMMA OpsOn ==
  ASSUME Sound, Stamped, NEW r \in Register
  PROVE  /\ \A p \in On(r) : /\ p \in 1 .. Len(ops) /\ p \in OpId /\ p \in Nat /\ Made(ops[p]) /\ ops[p].key = r
                             /\ ops[p].at \in Nat /\ ops[p].dev \in Device /\ EffectiveAt(ops[p].at) = ops[p].at
         /\ Mine(r) => \A p, q \in On(r) : p < q => ops[p].at < ops[q].at
<1>1. ASSUME NEW p \in On(r)
      PROVE  /\ p \in 1 .. Len(ops) /\ p \in OpId /\ p \in Nat /\ Made(ops[p]) /\ ops[p].key = r
             /\ ops[p].at \in Nat /\ ops[p].dev \in Device /\ EffectiveAt(ops[p].at) = ops[p].at
  <2>1. p \in 1 .. Len(ops) /\ ops[p].key = r
    BY DEF On, Sound
  <2>2. Made(ops[p]) /\ p \in OpId
    BY <2>1, OpsMade
  <2>3. ops[p].at \in Nat /\ ops[p].dev \in Device
    BY <2>2 DEF Made
  <2>4. ops[p].at <= clock /\ clock \in Nat
    BY <2>1, OpsMade DEF Stamped, Sound
  <2> QED
    BY <2>1, <2>2, <2>3, <2>4, OpsMade DEF EffectiveAt, Smaller
<1>2. ASSUME Mine(r), NEW p \in On(r), NEW q \in On(r), p < q PROVE ops[p].at < ops[q].at
  BY <1>2 DEF Stamped, Mine, On
<1> QED
  BY <1>1, <1>2

\* An op of the register wins over a row unless a later op wrote it.
LEMMA WinsIffLater ==
  ASSUME Sound, Stamped, NEW r \in Register, Mine(r), NEW reg \in RegisterRow, Authored(reg, r),
         NEW x \in On(r), reg.seq # 0
  PROVE  Wins(reg, BaseSeq(ops[x].base), EffectiveAt(ops[x].at), ops[x].dev) <=> ~(ops[x].at < reg.at)
<1>1. PICK y \in On(r) : reg.at = ops[y].at /\ reg.dev = ops[y].dev
  BY DEF Authored
<1>2. ops[x].dev = reg.dev /\ ops[x].dev \in Device /\ Device \subseteq Nat
  BY <1>1, OpsOn, DeviceAssumption DEF Mine
<1>3. ops[x].at \in Nat /\ reg.at \in Nat /\ EffectiveAt(ops[x].at) = ops[x].at
  BY OpsOn DEF RegisterRow
<1>4. ASSUME ops[x].at < reg.at, BaseSeq(ops[x].base) # NoBase, reg.seq <= BaseSeq(ops[x].base) PROVE FALSE
  <2>1. ops[x].base # Pull!Start
    BY <1>4 DEF BaseSeq, RegisterRow
  <2>2. ops[x].base.epoch = epoch /\ BaseSeq(ops[x].base) = ops[x].base.lib
    BY <1>4, <2>1 DEF BaseSeq
  <2>3. ops[x].base.lib < reg.seq
    BY <1>3, <1>4, <2>2 DEF Authored
  <2>4. ops[x].base.lib \in Nat
    BY OpsOn, OpsMade DEF Op, Pull!Cursor
  <2> QED
    BY <1>4, <2>2, <2>3, <2>4 DEF RegisterRow
<1> QED
  BY <1>2, <1>3, <1>4 DEF Wins

\* An op of another register.
LEMMA OthersSpeak ==
  ASSUME Sound, Stamped, NEW request \in SUBSET (1 .. Len(ops)), NEW r \in Register, Mine(r),
         NEW s \in Written, NEW t \in Written, NEW o \in OpId, o \in request, Step(s, t, o),
         SpokenIn(request, r, s, o - 1), ops[o].key # r
  PROVE  SpokenIn(request, r, t, o)
<1>1. /\ t.registers[r] = s.registers[r] /\ s.seq <= t.seq
      /\ \A q \in Register : s.registers[q].seq # 0 => t.registers[q].seq # 0
  <2>0. s.registers \in [Register -> RegisterRow] /\ s.seq \in Nat /\ t.seq \in Nat
    BY DEF Written
  <2>1. CASE Sets(s, t, o)
    <3>1. PICK w : w = [seq |-> s.seq + 1, on |-> Image(s.registers[ops[o].key], ops[o]).on,
                        meta |-> Image(s.registers[ops[o].key], ops[o]).meta,
                        at |-> EffectiveAt(ops[o].at), dev |-> ops[o].dev]
      OBVIOUS
    <3>2. t.registers = [s.registers EXCEPT ![ops[o].key] = w] /\ w.seq = s.seq + 1
      BY <2>1, <3>1 DEF Sets
    <3>3. s.seq <= t.seq
      BY <2>0 DEF Step
    <3> QED
      BY <2>0, <3>2, <3>3
  <2>2. CASE ~Sets(s, t, o)
    BY <2>0, <2>2 DEF Step, Leaves
  <2> QED
    BY <2>1, <2>2
<1>2. s.registers \in [Register -> RegisterRow] /\ t.registers \in [Register -> RegisterRow]
      /\ seq \in Nat /\ s.seq \in Nat /\ t.seq \in Nat
  BY DEF Written, Sound, Stored, Typed
<1>3. \A q \in On(r) : Quiet(s.registers, q) => Quiet(t.registers, q)
  BY <1>1, <1>2, StaysFull, OpsOn DEF Quiet
<1>4. \A p \in On(r) : p # o /\ p \in Nat /\ p \in OpId
  BY OpsOn
<1>5. o \in Nat
  BY DEF OpId
<1>6. \A p \in On(r) : p <= o => p <= o - 1
  BY <1>4, <1>5
<1>7. \A p \in On(r) : t.journal[p] = s.journal[p] /\ t.results[p] = s.results[p]
  BY <1>4 DEF Step, Written
<1> QED
  BY <1>1, <1>2, <1>3, <1>5, <1>6, <1>7, <1>4 DEF SpokenIn

\* An op of the register that leaves the row as it is.
LEMMA LeavingSpeaks ==
  ASSUME Sound, Stamped, NEW request \in SUBSET (1 .. Len(ops)), NEW d \in Device, Ordered(request, d),
         NEW r \in Register, Mine(r),
         NEW s \in Written, NEW t \in Written, NEW o \in OpId, o \in request, Step(s, t, o),
         SpokenIn(request, r, s, o - 1), ops[o].key = r, ~Sets(s, t, o)
  PROVE  SpokenIn(request, r, t, o)
<1>0. /\ s.registers \in [Register -> RegisterRow] /\ s.seq \in Nat /\ t.seq \in Nat /\ seq \in Nat
      /\ s.journal \in [OpId -> Entry] /\ s.results \in [OpId -> Statuses]
  BY DEF Written, Sound, Stored, Typed
<1>1. t.registers = s.registers /\ s.seq <= t.seq
  BY <1>0 DEF Step, Leaves
<1>2. o \in On(r) /\ o \in Nat
  BY DEF On, OpId, Sound
<1>n. \A p \in On(r) : p \in Nat
  BY OpsOn
<1>3. /\ \A p \in On(r) : p # o => t.journal[p] = s.journal[p] /\ t.results[p] = s.results[p]
      /\ t.results[o] = t.status
  BY <1>0, OpsOn DEF Step
\* what the op finds
<1>4. \/ s.journal[o].seq # 0
      \/ t.status = "deferred" /\ t.journal[o].seq = 0 /\ s.registers[r].seq = 0 /\ Full(s.registers, r)
      \/ Heard(s.registers[r], o)
  <2>1. CASE Leaves(s, t, o) /\ s.journal[o].seq = 0
    <3>1. CASE t.status = "applied" /\ Unchanged(s.registers[r], ops[o])
      BY <3>1 DEF Heard
    <3>2. CASE t.status = "superseded" /\ ~Wins(s.registers[r], BaseSeq(ops[o].base), EffectiveAt(ops[o].at), ops[o].dev)
      <4>1. s.registers[r].seq # 0
        BY <3>2 DEF Wins
      <4>2. s.registers[r] \in RegisterRow /\ Authored(s.registers[r], r)
        BY <1>0 DEF SpokenIn
      <4>3. ops[o].at < s.registers[r].at
        BY <1>2, <3>2, <4>1, <4>2, WinsIffLater
      <4> QED
        BY <4>1, <4>3 DEF Heard
    <3>3. CASE t.status = "deferred" /\ s.registers[r].seq = 0 /\ Full(s.registers, r)
      <4>1. t.journal = s.journal
        BY <2>1, <3>3 DEF Step, Sets
      <4> QED
        BY <2>1, <3>3, <4>1
    <3> QED
      BY <2>1, <3>1, <3>2, <3>3 DEF Leaves
  <2>2. CASE s.journal[o].seq # 0
    BY <2>2
  <2> QED
    BY <2>1, <2>2 DEF Step
<1>5. s.journal[o].seq # 0 => Heard(s.registers[r], o)
  BY <1>2 DEF SpokenIn
<1>6. Quiet(s.registers, o)
  BY <1>4, <1>5 DEF Quiet
\* the earlier ops
<1>7. ASSUME NEW q \in On(r), q <= o PROVE Quiet(s.registers, q)
  <2>1. CASE q = o
    BY <1>6, <2>1
  <2>2. CASE q # o
    <3>1. q \in Nat /\ q < o /\ q <= o - 1
      BY <1>2, <1>n, <1>7, <2>2
    <3>2. ops[q].dev = d /\ q \in DOMAIN ops
      BY <1>2 DEF Mine, Ordered, On
    <3>3. q \in request \/ q \notin outbox[d]
      BY <3>1, <3>2 DEF Ordered
    <3>4. Past(q) \/ (q \in request /\ q <= o - 1)
      BY <3>1, <3>2, <3>3 DEF Past
    <3> QED
      BY <3>1, <3>4 DEF SpokenIn
  <2> QED
    BY <2>1, <2>2
<1>8. ASSUME NEW p \in On(r), Past(p) \/ (p \in request /\ p <= o), NEW q \in On(r), q <= p
      PROVE  Quiet(t.registers, q)
  <2>1. CASE p = o
    BY <1>1, <1>7, <1>8, <2>1
  <2>2. CASE p # o
    <3>1. p <= o => p <= o - 1
      BY <1>2, <1>n, <2>2
    <3> QED
      BY <1>1, <1>8, <3>1 DEF SpokenIn
  <2> QED
    BY <2>1, <2>2
<1>9. ASSUME NEW p \in On(r), Past(p) \/ t.journal[p].seq # 0 \/ t.results[p] \notin {"none", "deferred"}
      PROVE  (Past(p) \/ (p \in request /\ p <= o)) /\ Heard(t.registers[r], p)
  <2>1. CASE p = o
    <3>1. Past(o) => Heard(s.registers[r], o)
      BY <1>2 DEF SpokenIn
    <3> QED
      BY <1>1, <1>2, <1>3, <1>4, <1>5, <1>9, <2>1, <3>1
  <2>2. CASE p # o
    <3>1. p \in Nat
      BY OpsOn
    <3>2. (Past(p) \/ (p \in request /\ p <= o - 1)) /\ Heard(s.registers[r], p)
      BY <1>3, <1>9, <2>2 DEF SpokenIn
    <3> QED
      BY <1>1, <1>2, <3>1, <3>2
  <2> QED
    BY <2>1, <2>2
<1>10. seq <= t.seq /\ Authored(t.registers[r], r)
  BY <1>0, <1>1 DEF SpokenIn
<1> QED
  BY <1>8, <1>9, <1>10 DEF SpokenIn

\* An op of the register that writes it: no later one was spoken on, and the earlier ones have nothing to say.
LEMMA SettingSpeaks ==
  ASSUME Sound, Stamped, NEW request \in SUBSET (1 .. Len(ops)), NEW d \in Device, Ordered(request, d),
         NEW r \in Register, Mine(r),
         NEW s \in Written, NEW t \in Written, NEW o \in OpId, o \in request, Step(s, t, o),
         SpokenIn(request, r, s, o - 1), ops[o].key = r, Sets(s, t, o)
  PROVE  SpokenIn(request, r, t, o)
<1>0. /\ s.registers \in [Register -> RegisterRow] /\ s.seq \in Nat /\ t.seq \in Nat /\ seq \in Nat
      /\ s.journal \in [OpId -> Entry] /\ s.results \in [OpId -> Statuses]
      /\ s.registers[r] \in RegisterRow
  BY DEF Written, Sound, Stored, Typed
<1>1. o \in On(r) /\ o \in Nat
  BY DEF On, OpId, Sound
<1>n. \A p \in On(r) : p \in Nat
  BY OpsOn
<1>2. ops[o].at \in Nat /\ EffectiveAt(ops[o].at) = ops[o].at /\ Made(ops[o])
  BY <1>1, OpsOn
<1>3. PICK reg : reg = s.registers[r]
  OBVIOUS
<1>4. PICK w : w = [seq |-> s.seq + 1, on |-> Image(reg, ops[o]).on, meta |-> Image(reg, ops[o]).meta,
                    at |-> ops[o].at, dev |-> ops[o].dev]
  OBVIOUS
<1>5. /\ t.registers = [s.registers EXCEPT ![r] = w]
      /\ ~Unchanged(reg, ops[o])
      /\ Wins(reg, BaseSeq(ops[o].base), EffectiveAt(ops[o].at), ops[o].dev)
      /\ ~(reg.seq = 0 /\ Full(s.registers, r))
  BY <1>2, <1>3, <1>4 DEF Sets
<1>6. t.registers[r] = w /\ w.seq = s.seq + 1 /\ w.at = ops[o].at /\ w.dev = ops[o].dev
      /\ w.on = Image(reg, ops[o]).on /\ w.meta = Image(reg, ops[o]).meta
  BY <1>0, <1>4, <1>5
<1>7. w.seq # 0 /\ seq < w.seq
  BY <1>0, <1>6 DEF SpokenIn
<1>8. ~Quiet(s.registers, o)
  <2>1. reg.seq # 0 => ~(ops[o].at < reg.at)
    BY <1>0, <1>1, <1>3, <1>5, WinsIffLater DEF SpokenIn
  <2> QED
    BY <1>3, <1>5, <2>1 DEF Quiet, Heard
<1>9. ASSUME NEW p \in On(r), Past(p) \/ (p \in request /\ p <= o - 1) PROVE p < o
  <2>1. ~(o <= p)
    BY <1>1, <1>8, <1>9 DEF SpokenIn
  <2> QED
    BY <1>1, <2>1, OpsOn
<1>10. ASSUME NEW q \in On(r), q <= o PROVE Heard(w, q) /\ Quiet(t.registers, q)
  <2>1. CASE q = o
    BY <1>2, <1>6, <1>7, <2>1, WrittenSays DEF Heard, Quiet
  <2>2. CASE q # o
    <3>1. q < o
      BY <1>1, <1>10, <2>2, OpsOn
    <3>2. ops[q].at < ops[o].at /\ ops[q].key = r
      BY <1>1, <3>1, OpsOn
    <3> QED
      BY <1>6, <1>7, <3>2 DEF Heard, Quiet
  <2> QED
    BY <2>1, <2>2
<1>11. ASSUME NEW p \in On(r), Past(p) \/ (p \in request /\ p <= o) PROVE p <= o
  BY <1>1, <1>n, <1>9, <1>11
<1>12. ASSUME NEW p \in On(r), Past(p) \/ (p \in request /\ p <= o), NEW q \in On(r), q <= p
       PROVE  Quiet(t.registers, q)
  <2>1. q <= o
    BY <1>1, <1>n, <1>11, <1>12
  <2> QED
    BY <1>10, <2>1
<1>13. ASSUME NEW p \in On(r), Past(p) \/ t.journal[p].seq # 0 \/ t.results[p] \notin {"none", "deferred"}
       PROVE  (Past(p) \/ (p \in request /\ p <= o)) /\ Heard(t.registers[r], p)
  <2>1. Past(p) \/ (p \in request /\ p <= o)
    <3>1. CASE p = o
      BY <1>1, <3>1
    <3>2. CASE p # o
      <4>1. t.journal[p] = s.journal[p] /\ t.results[p] = s.results[p] /\ p \in Nat
        BY <1>0, <3>2, OpsOn DEF Step
      <4> QED
        BY <1>1, <1>13, <4>1 DEF SpokenIn
    <3> QED
      BY <3>1, <3>2
  <2> QED
    BY <1>6, <1>10, <1>11, <2>1
<1>14. seq <= t.seq
  BY <1>0 DEF SpokenIn, Step
<1>15. Authored(t.registers[r], r)
  <2>1. \A x \in On(r) : ops[x].base.epoch = epoch => ops[x].base.lib <= seq /\ ops[x].base.lib \in Nat
    <3> SUFFICES ASSUME NEW x \in On(r), ops[x].base.epoch = epoch
                 PROVE  ops[x].base.lib <= seq /\ ops[x].base.lib \in Nat
      OBVIOUS
    <3>1. x \in 1 .. Len(ops) /\ x \in DOMAIN ops
      BY OpsOn DEF On
    <3> QED
      BY <3>1, OpsMade DEF Stamped, Op, Pull!Cursor
  <2> QED
    BY <1>0, <1>1, <1>6, <1>7, <2>1 DEF Authored
<1> QED
  BY <1>12, <1>13, <1>14, <1>15 DEF SpokenIn

\* After the run the server has spoken on what it answered and journaled.
LEMMA RunSpeaks ==
  ASSUME Sound, Stamped, NEW request \in SUBSET (1 .. Len(ops)), NEW d \in Device, Ordered(request, d),
         NEW r \in Register, Mine(r), SpokenOn(r)
  PROVE  SpokenIn(request, r, Run(request), MaxOps)
<1> DEFINE G == [o \in 0 .. MaxOps |-> {s \in Written : SpokenIn(request, r, s, o)}]
<1>0. MaxOps \in Nat /\ \A p \in On(r) : p \in Nat /\ p \in OpId
  BY BoundAssumption, OpsOn
<1>1. Begin \in Written
  BY DEF Begin, Written, Statuses, Sound, Stored, Typed
<1>2. SpokenIn(request, r, Begin, 0)
  <2>1. /\ Begin.registers = registers /\ Begin.journal = journal /\ Begin.seq = seq
        /\ \A p \in OpId : Begin.results[p] = "none"
    BY DEF Begin
  <2>2. seq <= seq
    BY DEF Sound, Stored, Typed
  <2>3. \A p \in On(r) : ~(p \in request /\ p <= 0)
    BY <1>0
  <2>4. \A p \in On(r) : journal[p].seq # 0 => Past(p)
    BY DEF Past
  <2> QED
    BY <1>0, <2>1, <2>2, <2>3, <2>4 DEF SpokenIn, SpokenOn
<1>3. Begin \in G[0]
  BY <1>0, <1>1, <1>2
<1>4. ASSUME NEW o \in OpId, NEW s \in G[o - 1]
      PROVE  IF o \in request THEN RunOp(s, o) \in G[o] ELSE s \in G[o]
  <2>0. o \in 0 .. MaxOps /\ o - 1 \in 0 .. MaxOps
    BY <1>0 DEF OpId
  <2>1. s \in Written /\ SpokenIn(request, r, s, o - 1)
    BY <2>0, <1>4
  <2>2. CASE o \notin request
    <3>1. \A p \in On(r) : p \in request /\ p <= o => p <= o - 1
      BY <1>0, <2>0, <2>2
    <3>2. \A p \in On(r) : p <= o - 1 => p <= o
      BY <1>0, <2>0
    <3>3. SpokenIn(request, r, s, o)
      BY <2>1, <3>1, <3>2 DEF SpokenIn
    <3> QED
      BY <2>0, <2>1, <2>2, <3>3
  <2>3. CASE o \in request
    <3>1. Made(ops[o]) /\ clock \in Nat
      BY <2>3, OpsMade
    <3>2. PICK t : t = RunOp(s, o)
      OBVIOUS
    <3>3. t \in Written /\ Step(s, t, o)
      BY <2>1, <3>1, <3>2, StepFacts
    <3>4. SpokenIn(request, r, t, o)
      BY <2>1, <2>3, <3>3, OthersSpeak, LeavingSpeaks, SettingSpeaks
    <3> QED
      BY <2>0, <2>3, <3>2, <3>3, <3>4
  <2> QED
    BY <2>2, <2>3
<1>5. \A o \in OpId : \A s \in G[o - 1] : IF o \in request THEN RunOp(s, o) \in G[o] ELSE s \in G[o]
  BY <1>4
<1>6. Run(request) \in G[MaxOps]
  <2> HIDE DEF G
  <2> QED
    BY <1>3, <1>5, RunStays
<1> QED
  BY <1>0, <1>6

\* A run answers and journals its own ops only.
LEMMA RunMarks ==
  ASSUME Sound, NEW request \in SUBSET (1 .. Len(ops))
  PROVE  \A p \in OpId : p \notin request =>
           Run(request).results[p] = "none" /\ Run(request).journal[p] = journal[p]
<1> DEFINE Marked(s) == \A p \in OpId : p \notin request => s.results[p] = "none" /\ s.journal[p] = journal[p]
           G == [o \in 0 .. MaxOps |-> {s \in Written : Marked(s)}]
<1>0. MaxOps \in Nat
  BY BoundAssumption
<1>1. Begin \in Written /\ Marked(Begin)
  BY DEF Begin, Written, Statuses, Sound, Stored, Typed
<1>2. Begin \in G[0]
  BY <1>0, <1>1
<1>3. ASSUME NEW o \in OpId, NEW s \in G[o - 1]
      PROVE  IF o \in request THEN RunOp(s, o) \in G[o] ELSE s \in G[o]
  <2>0. o \in 0 .. MaxOps /\ o - 1 \in 0 .. MaxOps
    BY <1>0 DEF OpId
  <2>1. s \in Written /\ Marked(s)
    BY <2>0, <1>3
  <2>2. CASE o \notin request
    BY <2>0, <2>1, <2>2
  <2>3. CASE o \in request
    <3>1. Made(ops[o]) /\ clock \in Nat
      BY <2>3, OpsMade
    <3>2. PICK t : t = RunOp(s, o)
      OBVIOUS
    <3>3. t \in Written /\ Step(s, t, o)
      BY <2>1, <3>1, <3>2, StepFacts
    <3>4. \A p \in OpId : p # o => t.results[p] = s.results[p] /\ t.journal[p] = s.journal[p]
      BY <2>1, <3>3 DEF Step, Written
    <3>5. Marked(t)
      BY <2>1, <2>3, <3>4
    <3> QED
      BY <2>0, <2>3, <3>2, <3>3, <3>5
  <2> QED
    BY <2>2, <2>3
<1>4. \A o \in OpId : \A s \in G[o - 1] : IF o \in request THEN RunOp(s, o) \in G[o] ELSE s \in G[o]
  BY <1>3
<1>5. Run(request) \in G[MaxOps]
  <2> HIDE DEF G
  <2> QED
    BY <1>2, <1>4, RunStays
<1> QED
  BY <1>0, <1>5

\* The write transaction and what its answer settles.
LEMMA WriteSpeaks ==
  ASSUME Sound, Stamped, NEW request \in SUBSET (1 .. Len(ops)), NEW d \in Device, Ordered(request, d),
         Write(d, request), UNCHANGED <<ops, epoch, outbox>>,
         \A e \in Device : settled'[e] \subseteq settled[e] \cup Settled(Run(request).results),
         Spoken
  PROVE  Spoken'
<1> SUFFICES ASSUME NEW r \in Register, Mine(r)' PROVE SpokenOn(r)'
  BY DEF Spoken
<1>1. Mine(r) /\ On(r)' = On(r)
  BY DEF Mine, On
<1>2. PICK run : run = Run(request)
  OBVIOUS
<1>3. SpokenIn(request, r, run, MaxOps)
  BY <1>1, <1>2, RunSpeaks DEF Spoken
<1>4. registers' = run.registers /\ journal' = run.journal
  BY <1>2 DEF Write
<1>5. ASSUME NEW p \in On(r), Past(p)'
      PROVE  Past(p) \/ run.journal[p].seq # 0 \/ run.results[p] \notin {"none", "deferred"}
  <2>1. ops[p].dev \in Device
    BY OpsOn
  <2>2. settled'[ops[p].dev] \subseteq settled[ops[p].dev] \cup Settled(run.results)
    BY <1>2, <2>1
  <2> QED
    BY <1>4, <1>5, <2>2 DEF Past, Settled
<1>6. ASSUME NEW p \in On(r), Past(p)'
      PROVE  /\ Heard(run.registers[r], p)
             /\ \A q \in On(r) : q <= p => Quiet(run.registers, q)
  BY <1>3, <1>5, <1>6 DEF SpokenIn
<1>7. Authored(run.registers[r], r)
  BY <1>3 DEF SpokenIn
<1>8. \A reg : (Authored(reg, r) => Authored(reg, r)') /\ \A p \in On(r) : Heard(reg, p) => Heard(reg, p)'
  BY <1>1 DEF Authored, Heard
<1>9. \A rows : \A p \in On(r) : Quiet(rows, p) => Quiet(rows, p)'
  BY <1>1 DEF Quiet, Heard
<1> QED
  BY <1>1, <1>4, <1>6, <1>7, <1>8, <1>9 DEF SpokenOn

\* The last time of a device is not before any other.
LEMMA LastIsLast ==
  ASSUME Sound, Stamped, NEW o \in DOMAIN ops
  PROVE  LastAt(ops[o].dev) \in Nat /\ ops[o].at <= LastAt(ops[o].dev)
<1> DEFINE stamps == {ops[q].at : q \in {p \in DOMAIN ops : ops[p].dev = ops[o].dev}}
           Above == {n \in Nat : \A u \in stamps : u <= n}
<1>1. clock \in Nat /\ \A q \in DOMAIN ops : ops[q].at \in Nat /\ ops[q].at <= clock
  <2>1. \A q \in DOMAIN ops : q \in 1 .. Len(ops)
    BY DEF Sound
  <2> QED
    BY <2>1, OpsMade DEF Made, Stamped
<1>2. stamps \subseteq Nat /\ ops[o].at \in stamps /\ clock \in Above
  BY <1>1
<1>3. PICK n \in Above : \A m \in Above : n <= m
  <2>1. Above \subseteq Nat /\ Above # {}
    BY <1>2
  <2> HIDE DEF Above
  <2> QED
    BY <2>1, LeastExists
<1>4. n \in Nat /\ \A u \in stamps : u <= n
  BY <1>3
<1>5. n \in stamps
  <2>1. SUFFICES ASSUME n \notin stamps PROVE FALSE
    OBVIOUS
  <2> HIDE DEF stamps
  <2>2. \A u \in stamps : u \in Nat /\ u <= n /\ u # n
    BY <1>2, <1>4, <2>1
  <2>3. n - 1 \in Nat /\ \A u \in stamps : u <= n - 1
    <3>1. PICK u \in stamps : u \in Nat /\ u <= n /\ u # n
      BY <1>2, <2>2
    <3>2. n - 1 \in Nat
      BY <1>4, <3>1
    <3>3. ASSUME NEW v \in stamps PROVE v <= n - 1
      <4>1. v \in Nat /\ v <= n /\ v # n
        BY <2>2
      <4> QED
        BY <1>4, <4>1
    <3> QED
      BY <3>2, <3>3
  <2>4. n - 1 \in Above
    BY <2>3
  <2>5. n <= n - 1
    BY <1>3, <2>4
  <2> QED
    BY <1>4, <2>5
<1>6. LastAt(ops[o].dev) = CHOOSE t \in stamps : \A u \in stamps : u <= t
  <2>1. stamps # {}
    BY <1>2
  <2> QED
    BY <2>1 DEF LastAt
<1> QED
  <2> HIDE DEF stamps, Above
  <2> QED
    BY <1>2, <1>4, <1>5, <1>6

\* The op n of a device, made with a clock that is not ahead, from a cursor within the head.
Edited(op, n, d) ==
  /\ n = Len(ops) + 1 /\ n \in Nat /\ n \notin DOMAIN ops
  /\ op.dev = d /\ op.at \in Nat
  /\ DOMAIN ops' = DOMAIN ops \cup {n} /\ ops'[n] = op
  /\ \A p \in DOMAIN ops : ops'[p] = ops[p] /\ p \in Nat /\ p < n
  /\ outbox' = [outbox EXCEPT ![d] = outbox[d] \cup {n}]
  /\ UNCHANGED <<epoch, seq, registers, tracks, journal, backup, clock, sent, settled, stray>>
  /\ op.at <= clock /\ Makes(op.key, op.on, op.meta)
  /\ op.base.epoch <= epoch /\ (op.base.epoch = epoch => op.base.lib <= seq)
  /\ \A p \in DOMAIN ops : ops[p].dev = d => ops[p].at < op.at

\* What a user's edit adds.
LEMMA ActFacts ==
  ASSUME Sound, PP!Passed, Stamped, Ahead = 0, NEW d \in Device, NEW key \in Register, NEW on \in BOOLEAN,
         NEW at \in 1 .. MaxTime + Ahead, NEW meta \in Meta \cup {Stub}, Act(d, key, on, at, meta)
  PROVE  \E op, n : Edited(op, n, d) /\ op.key = key
<1>1. PICK op : op = [dev |-> d, key |-> key, on |-> on, at |-> at, base |-> cur[d], meta |-> meta]
  OBVIOUS
<1>2. PICK n : n = Len(ops) + 1
  OBVIOUS
<1>3. /\ ops' = Append(ops, op) /\ outbox' = [outbox EXCEPT ![d] = outbox[d] \cup {n}]
      /\ UNCHANGED <<epoch, seq, registers, tracks, journal, backup, clock, sent, settled, stray>>
      /\ Makes(key, on, meta) /\ LastAt(d) < at /\ at <= clock + Ahead
  BY <1>1, <1>2 DEF Act, state
<1>4. ops \in Seq(Op) /\ Len(ops) \in Nat /\ DOMAIN ops = 1 .. Len(ops)
  BY DEF Sound
<1>5. DOMAIN ops' = DOMAIN ops \cup {n} /\ ops'[n] = op /\ \A p \in DOMAIN ops : ops'[p] = ops[p]
  BY <1>2, <1>3, <1>4
<1>6. n \in Nat /\ n \notin DOMAIN ops /\ \A p \in DOMAIN ops : p \in Nat /\ p < n
  BY <1>2, <1>4
<1>7. op.at = at /\ op.base = cur[d] /\ op.key = key /\ op.on = on /\ op.meta = meta /\ op.dev = d
  BY <1>1
<1>n. at \in Nat
  BY BoundAssumption
<1>8. op.at <= clock
  BY <1>3, <1>7 DEF Sound
<1>9. cur[d].epoch <= epoch /\ (cur[d].epoch = epoch => cur[d].lib <= seq)
  BY DEF PP!Passed, PP!EpochsKnown, PP!CursorWithinHead
<1>10. ASSUME NEW p \in DOMAIN ops, ops[p].dev = d PROVE ops[p].at < op.at
  <2>1. ops[p].at <= LastAt(d) /\ LastAt(d) < op.at /\ LastAt(d) \in Nat
    BY <1>3, <1>7, <1>10, LastIsLast
  <2>2. \A q \in DOMAIN ops : ops[q].at \in Nat
    BY <1>4, OpsMade DEF Made
  <2> QED
    BY <1>7, <2>1, <2>2
<1> QED
  BY <1>2, <1>3, <1>5, <1>6, <1>7, <1>n, <1>8, <1>9, <1>10 DEF Edited

\* The edits so far keep their stamps while clock, head and epoch move on.
LEMMA StampsStay ==
  ASSUME Sound, PP!TypeOK, Stamped, UNCHANGED ops, clock' \in Nat, clock <= clock',
         (epoch' = epoch /\ seq' \in Nat /\ seq <= seq') \/ epoch' = epoch + 1
  PROVE  Stamped'
<1>1. DOMAIN ops = 1 .. Len(ops) /\ clock \in Nat /\ seq \in Nat /\ epoch \in Nat
  BY DEF Sound, Stored, Typed, PP!TypeOK
<1>2. ASSUME NEW o \in DOMAIN ops
      PROVE  /\ ops[o].at <= clock' /\ Makes(ops[o].key, ops[o].on, ops[o].meta)
             /\ ops[o].base.epoch <= epoch'
             /\ ops[o].base.epoch = epoch' => ops[o].base.lib <= seq'
  <2>1. /\ ops[o].at <= clock /\ Makes(ops[o].key, ops[o].on, ops[o].meta)
        /\ ops[o].base.epoch <= epoch
        /\ ops[o].base.epoch = epoch => ops[o].base.lib <= seq
    BY DEF Stamped
  <2>2. ops[o].at \in Nat /\ ops[o].base.epoch \in Nat /\ ops[o].base.lib \in Nat
    BY <1>1, OpsMade DEF Op, Pull!Cursor
  <2> QED
    BY <1>1, <2>1, <2>2
<1> QED
  BY <1>2 DEF Stamped

\* Requests keep their order while outboxes lose ops.
LEMMA OrderStays ==
  ASSUME NEW request, NEW d \in Device, Ordered(request, d), UNCHANGED ops, outbox'[d] \subseteq outbox[d]
  PROVE  Ordered(request, d)'
BY DEF Ordered

LEMMA CarriedStays ==
  ASSUME Sound, Carried, UNCHANGED ops,
         \A d \in Device : /\ outbox'[d] \subseteq outbox[d]
                           /\ sent'[d] \in {sent[d], {}}
                           /\ settled'[d] \subseteq DOMAIN ops,
         stray' \subseteq stray \cup {[dev |-> d, ops |-> sent[d], cursor |-> cur[d]] : d \in Device},
         \A o \in OpId : journal'[o].seq # 0 => o \in DOMAIN ops
  PROVE  Carried'
<1>1. ASSUME NEW d \in Device
      PROVE  \A o \in outbox'[d] : ops'[o].dev = d
  BY DEF Carried
<1>2. ASSUME NEW d \in Device PROVE Ordered(sent[d], d)'
  <2>1. PICK request : request = sent'[d]
    OBVIOUS
  <2>2. request = sent[d] \/ request = {}
    BY <2>1
  <2>3. Ordered(request, d)'
    <3>1. Ordered(request, d)
      BY <2>2 DEF Carried, Ordered
    <3> QED
      BY <3>1, OrderStays
  <2> QED
    BY <2>1, <2>3 DEF Ordered
<1>3. ASSUME NEW s \in stray' PROVE Ordered(s.ops, s.dev)'
  <2>1. s.dev \in Device /\ Ordered(s.ops, s.dev)
    BY <1>3 DEF Carried, Sound
  <2> QED
    BY <2>1, OrderStays DEF Ordered
<1> QED
  BY <1>1, <1>2, <1>3 DEF Carried

\* Nothing is written, and the server speaks on no other op.
LEMMA SilenceKeeps ==
  ASSUME Sound, PP!TypeOK, Stamped, UNCHANGED <<ops, registers>>, epoch' = epoch \/ epoch' = epoch + 1,
         \A p \in DOMAIN ops : Past(p)' => Past(p), Spoken
  PROVE  Spoken'
<1> SUFFICES ASSUME NEW r \in Register, Mine(r)' PROVE SpokenOn(r)'
  BY DEF Spoken
<1>1. Mine(r) /\ On(r)' = On(r) /\ On(r) \subseteq DOMAIN ops
  BY DEF Mine, On
<1>2. SpokenOn(r)
  BY <1>1 DEF Spoken
<1>3. \A x \in On(r) : ops[x].base.epoch = epoch' => ops[x].base.epoch = epoch
  <2> SUFFICES ASSUME NEW x \in On(r), ops[x].base.epoch = epoch' PROVE ops[x].base.epoch = epoch
    OBVIOUS
  <2>1. ops[x].base.epoch <= epoch
    BY <1>1 DEF Stamped
  <2>2. ops[x].base.epoch \in Nat /\ epoch \in Nat
    BY OpsOn, OpsMade DEF Op, Pull!Cursor, PP!TypeOK
  <2> QED
    BY <2>1, <2>2
<1>4. Authored(registers[r], r)'
  BY <1>1, <1>2, <1>3 DEF Authored, SpokenOn
<1>5. ASSUME NEW p \in On(r), Past(p)'
      PROVE  Heard(registers[r], p)' /\ \A q \in On(r) : q <= p => Quiet(registers, q)'
  BY <1>1, <1>2, <1>5 DEF SpokenOn, Heard, Quiet
<1> QED
  BY <1>1, <1>4, <1>5 DEF SpokenOn

\* An edit the server has not heard of.
LEMMA ActSpeaks ==
  ASSUME Sound, PP!Passed, Stamped, Carried, Spoken, Ahead = 0, NEW d \in Device, NEW key \in Register,
         NEW on \in BOOLEAN, NEW at \in 1 .. MaxTime + Ahead, NEW meta \in Meta \cup {Stub},
         Act(d, key, on, at, meta)
  PROVE  Stamped' /\ Carried' /\ Spoken'
<1>0. PICK op, n : Edited(op, n, d) /\ op.key = key
  BY ActFacts
<1>1. /\ n = Len(ops) + 1 /\ n \in Nat /\ n \notin DOMAIN ops
      /\ op.dev = d /\ op.key = key /\ op.at \in Nat
      /\ DOMAIN ops' = DOMAIN ops \cup {n} /\ ops'[n] = op
      /\ \A p \in DOMAIN ops : ops'[p] = ops[p] /\ p \in Nat /\ p < n
      /\ outbox' = [outbox EXCEPT ![d] = outbox[d] \cup {n}]
      /\ UNCHANGED <<epoch, seq, registers, tracks, journal, backup, clock, sent, settled, stray>>
      /\ op.at <= clock /\ Makes(op.key, op.on, op.meta)
      /\ op.base.epoch <= epoch /\ (op.base.epoch = epoch => op.base.lib <= seq)
      /\ \A p \in DOMAIN ops : ops[p].dev = d => ops[p].at < op.at
  BY <1>0 DEF Edited
<1>2. /\ DOMAIN ops = 1 .. Len(ops) /\ outbox \in [Device -> SUBSET DOMAIN ops]
      /\ sent \in [Device -> SUBSET DOMAIN ops] /\ \A s \in stray : s.ops \subseteq DOMAIN ops /\ s.dev \in Device
  BY <1>1 DEF Sound
<1>3. Stamped'
  <2>1. ASSUME NEW o \in DOMAIN ops'
        PROVE  /\ ops'[o].at <= clock' /\ Makes(ops'[o].key, ops'[o].on, ops'[o].meta)
               /\ ops'[o].base.epoch <= epoch'
               /\ ops'[o].base.epoch = epoch' => ops'[o].base.lib <= seq'
    <3>1. CASE o = n
      BY <1>1, <3>1
    <3>2. CASE o \in DOMAIN ops
      BY <1>1, <3>2 DEF Stamped
    <3> QED
      BY <1>1, <2>1, <3>1, <3>2
  <2>2. ASSUME NEW p \in DOMAIN ops', NEW q \in DOMAIN ops', p < q, ops'[p].dev = ops'[q].dev
        PROVE  ops'[p].at < ops'[q].at
    <3>1. p # n
      BY <1>1, <2>2
    <3>2. CASE q = n
      BY <1>1, <1>2, <2>2, <3>1, <3>2
    <3>3. CASE q # n
      BY <1>1, <2>2, <3>1, <3>3 DEF Stamped
    <3> QED
      BY <3>2, <3>3
  <2> QED
    BY <2>1, <2>2 DEF Stamped
<1>4. ASSUME NEW request \in SUBSET DOMAIN ops, NEW e \in Device, Ordered(request, e) PROVE Ordered(request, e)'
  <2>1. \A o \in request : ops'[o].dev = e
    BY <1>1, <1>4 DEF Ordered
  <2>2. ASSUME NEW p \in request, NEW q \in DOMAIN ops', q < p, ops'[q].dev = e
        PROVE  q \in request \/ q \notin outbox'[e]
    <3>1. q \in DOMAIN ops
      BY <1>1, <2>2
    <3>2. q \in request \/ q \notin outbox[e]
      BY <1>1, <1>4, <2>2, <3>1 DEF Ordered
    <3> QED
      BY <1>1, <1>2, <3>1, <3>2
  <2> QED
    BY <2>1, <2>2 DEF Ordered
<1>5. Carried'
  <2>1. \A e \in Device : \A o \in outbox'[e] : ops'[o].dev = e
    BY <1>1, <1>2 DEF Carried
  <2>2. ASSUME NEW e \in Device PROVE Ordered(sent[e], e)'
    <3>1. PICK request \in SUBSET DOMAIN ops : request = sent[e]
      BY <1>2
    <3>2. Ordered(request, e)'
      BY <1>4, <3>1 DEF Carried
    <3> QED
      BY <1>1, <3>1, <3>2 DEF Ordered
  <2>3. \A s \in stray : Ordered(s.ops, s.dev)'
    BY <1>2, <1>4 DEF Carried
  <2>4. /\ \A e \in Device : settled'[e] \subseteq DOMAIN ops'
        /\ \A o \in OpId : journal'[o].seq # 0 => o \in DOMAIN ops'
    BY <1>1 DEF Carried
  <2> QED
    BY <1>1, <2>1, <2>2, <2>3, <2>4 DEF Carried
<1>6. Spoken'
  <2> SUFFICES ASSUME NEW r \in Register, Mine(r)' PROVE SpokenOn(r)'
    BY DEF Spoken
  <2>1. On(r)' = On(r) \cup (IF key = r THEN {n} ELSE {}) /\ On(r) \subseteq DOMAIN ops
    BY <1>1, <1>2 DEF On
  <2>2. Mine(r)
    BY <1>1, <2>1 DEF Mine
  <2>3. SpokenOn(r)
    BY <2>2 DEF Spoken
  <2>4. ASSUME NEW p \in On(r)', Past(p)' PROVE p \in On(r) /\ Past(p)
    <3>1. CASE p = n
      <4>1. n \in outbox'[d] /\ n \notin settled[d]
        BY <1>1, <1>2 DEF Carried, Sound
      <4>2. n \in OpId
        BY <1>1, <1>2, BoundAssumption DEF OpId, Act
      <4>3. journal[n].seq = 0
        BY <1>1, <4>2 DEF Carried
      <4> QED
        BY <1>1, <1>2, <2>4, <3>1, <4>1, <4>3 DEF Past
    <3>2. CASE p # n
      <4>1. p \in On(r) /\ p \in DOMAIN ops /\ ops'[p] = ops[p]
        BY <1>1, <2>1, <2>4, <3>2
      <4>2. ops[p].dev \in Device
        BY <4>1, OpsOn
      <4>3. outbox[ops[p].dev] \subseteq outbox'[ops[p].dev]
        BY <1>1, <1>2, <4>2
      <4> QED
        BY <1>1, <2>4, <4>1, <4>3 DEF Past
    <3> QED
      BY <3>1, <3>2
  <2>5. Authored(registers[r], r)'
    <3>1. CASE registers[r].seq = 0
      BY <1>1, <3>1 DEF Authored
    <3>2. CASE registers[r].seq # 0
      <4>1. PICK y \in On(r) : registers[r].at = ops[y].at /\ registers[r].dev = ops[y].dev
        BY <2>3, <3>2 DEF SpokenOn, Authored
      <4>2. y \in DOMAIN ops /\ ops'[y] = ops[y] /\ y \in On(r)'
        BY <1>1, <2>1, <4>1
      <4>3. key = r => registers[r].at < op.at
        <5>1. key = r => ops'[y].dev = ops'[n].dev
          BY <2>1, <4>2 DEF Mine
        <5> QED
          BY <1>1, <1>2, <4>1, <4>2, <5>1
      <4>4. registers[r].at \in Nat
        <5>1. registers[r] \in RegisterRow
          BY DEF Sound, Stored, Typed
        <5> QED
          BY <5>1 DEF RegisterRow
      <4>5. ASSUME NEW x \in On(r)', ops'[x].at <= registers[r].at, ops'[x].base.epoch = epoch
            PROVE  ops'[x].base.lib < registers[r].seq
        <5>1. x # n
          BY <1>1, <1>2, <2>1, <4>3, <4>4, <4>5
        <5>2. x \in On(r) /\ ops'[x] = ops[x]
          BY <1>1, <2>1, <4>5, <5>1
        <5> QED
          BY <2>3, <3>2, <4>5, <5>2 DEF SpokenOn, Authored
      <4> QED
        BY <1>1, <4>1, <4>2, <4>5 DEF Authored
    <3> QED
      BY <3>1, <3>2
  <2>6. ASSUME NEW p \in On(r)', Past(p)'
        PROVE  Heard(registers[r], p)' /\ \A q \in On(r)' : q <= p => Quiet(registers, q)'
    <3>1. p \in On(r) /\ Past(p) /\ p \in DOMAIN ops /\ ops'[p] = ops[p]
      BY <1>1, <2>1, <2>4, <2>6
    <3>2. Heard(registers[r], p)'
      BY <1>1, <2>3, <3>1 DEF SpokenOn, Heard
    <3>3. ASSUME NEW q \in On(r)', q <= p PROVE Quiet(registers, q)'
      <4>1. q # n
        BY <1>1, <3>1, <3>3
      <4>2. q \in On(r) /\ ops'[q] = ops[q]
        BY <1>1, <2>1, <3>3, <4>1
      <4> QED
        BY <1>1, <2>3, <3>1, <3>3, <4>2 DEF SpokenOn, Heard, Quiet
    <3> QED
      BY <3>2, <3>3
  <2> QED
    BY <2>5, <2>6 DEF SpokenOn
<1> QED
  BY <1>3, <1>5, <1>6

\* A request that runs, the awaited one of a device or an abandoned one.
LEMMA RunKeepsWord ==
  ASSUME Sound, PP!TypeOK, Stamped, Carried, Spoken, NEW request \in SUBSET (1 .. Len(ops)), NEW d \in Device,
         Ordered(request, d), Write(d, request), UNCHANGED <<ops, epoch, outbox, clock, sent>>, stray' \subseteq stray,
         \A e \in Device : settled'[e] = settled[e] \/ settled'[e] = Settled(Run(request).results)
  PROVE  Stamped' /\ Carried' /\ Spoken'
<1>1. PICK run : run = Run(request)
  OBVIOUS
<1>2. run \in Written /\ Grown(Begin, run)
  BY <1>1, WriteFacts
<1>3. seq' = run.seq /\ journal' = run.journal
  BY <1>1 DEF Write
<1>4. \A p \in OpId : p \notin request => run.results[p] = "none" /\ run.journal[p] = journal[p]
  BY <1>1, RunMarks
<1>5. DOMAIN ops = 1 .. Len(ops) /\ clock \in Nat /\ \A e \in Device : settled[e] \subseteq DOMAIN ops
  BY DEF Sound, Carried
<1>6. seq' \in Nat /\ seq <= seq'
  BY <1>2, <1>3 DEF Written, Grown, Begin
<1>7. Stamped'
  BY <1>5, <1>6, StampsStay
<1>8. \A e \in Device : settled'[e] \subseteq settled[e] \cup Settled(run.results)
  BY <1>1
<1>9. Spoken'
  BY <1>1, <1>8, WriteSpeaks
<1>10. Settled(run.results) \subseteq DOMAIN ops
  BY <1>4, <1>5 DEF Settled
<1>11. \A o \in OpId : journal'[o].seq # 0 => o \in DOMAIN ops
  BY <1>3, <1>4, <1>5 DEF Carried
<1>12. Carried'
  BY <1>5, <1>8, <1>10, <1>11, CarriedStays
<1> QED
  BY <1>7, <1>9, <1>12

\* Steps that write nothing and add no op: no outbox grows, and what leaves one was settled.
LEMMA QuietKeepsWord ==
  ASSUME Sound, PP!TypeOK, Stamped, Carried, Spoken, UNCHANGED <<ops, registers, journal>>,
         clock' \in Nat, clock <= clock',
         (epoch' = epoch /\ seq' = seq) \/ epoch' = epoch + 1,
         \A d \in Device : /\ outbox'[d] = outbox[d] \/ outbox'[d] = outbox[d] \ settled[d]
                           /\ sent'[d] \in {sent[d], {}}
                           /\ settled'[d] \in {settled[d], {}},
         stray' \subseteq stray \cup {[dev |-> d, ops |-> sent[d], cursor |-> cur[d]] : d \in Device}
  PROVE  Stamped' /\ Carried' /\ Spoken'
<1>1. DOMAIN ops = 1 .. Len(ops) /\ seq \in Nat
  BY DEF Sound, Stored, Typed
<1>2. Stamped'
  BY <1>1, StampsStay
<1>3. Carried'
  <2>1. \A o \in OpId : journal'[o].seq # 0 => o \in DOMAIN ops
    BY DEF Carried
  <2>2. \A d \in Device : /\ outbox'[d] \subseteq outbox[d]
                          /\ sent'[d] \in {sent[d], {}}
                          /\ settled'[d] \subseteq DOMAIN ops
    BY DEF Carried
  <2> QED
    BY <2>1, <2>2, CarriedStays
<1>4. ASSUME NEW p \in DOMAIN ops, Past(p)' PROVE Past(p)
  <2>1. ops[p].dev \in Device
    BY <1>1, OpsMade DEF Made
  <2> QED
    BY <1>4, <2>1 DEF Past
<1>5. Spoken'
  BY <1>4, SilenceKeeps
<1> QED
  BY <1>2, <1>3, <1>5

LEMMA InitWord == Init => Word
<1> SUFFICES ASSUME Init, Ahead = 0 PROVE Stamped /\ Carried /\ Spoken
  BY DEF Word
<1>1. /\ DOMAIN ops = {} /\ outbox = [d \in Device |-> {}] /\ sent = [d \in Device |-> {}]
      /\ settled = [d \in Device |-> {}] /\ stray = {}
      /\ \A o \in OpId : journal[o].seq = 0
      /\ \A r \in Register : registers[r].seq = 0
  BY DEF Init, NoEntry, NoRow
<1>2. Stamped
  BY <1>1 DEF Stamped
<1>3. Carried
  BY <1>1 DEF Carried, Ordered
<1>4. Spoken
  BY <1>1 DEF Spoken, SpokenOn, Authored, On
<1> QED
  BY <1>2, <1>3, <1>4

LEMMA WordStep ==
  ASSUME Sound, PP!Passed, Word, [Next]_vars
  PROVE  Word'
<1>0. PP!TypeOK /\ PP!EpochsKnown
  BY DEF PP!Passed
<1>1. backup.epoch = 0 \/ backup'.epoch # 0
  <2>1. backup' # backup => TakeBackup
    BY DEF Next, Writes, Others, DeviceCommit, StrayCommit, Read, Refuse, Publish, Act, Wake, Send, Deliver, StartOver,
           Abandon, Tick, Crash, Restore, RotateEpoch, vars
  <2>2. TakeBackup => backup'.epoch = epoch
    BY DEF TakeBackup
  <2>3. epoch # 0
    BY <1>0 DEF PP!TypeOK, PP!EpochsKnown
  <2> QED
    BY <2>1, <2>2, <2>3
<1> SUFFICES ASSUME Ahead = 0, backup.epoch = 0, backup'.epoch = 0 PROVE Stamped' /\ Carried' /\ Spoken'
  BY <1>1 DEF Word
<1>2. Stamped /\ Carried /\ Spoken
  BY DEF Word
<1>t. clock \in Nat /\ clock <= clock /\ \A d \in Device : sent[d] \in SUBSET (1 .. Len(ops))
  BY DEF Sound
<1>3. ASSUME NEW d \in Device, DeviceCommit(d) PROVE Stamped' /\ Carried' /\ Spoken'
  <2>1. /\ Write(d, sent[d]) /\ UNCHANGED <<ops, epoch, outbox, clock, sent, stray>>
        /\ settled' = [settled EXCEPT ![d] = Settled(Run(sent[d]).results)]
    BY <1>3 DEF DeviceCommit, box
  <2>2. \A e \in Device : settled'[e] = settled[e] \/ settled'[e] = Settled(Run(sent[d]).results)
    BY <2>1 DEF Sound
  <2>3. Ordered(sent[d], d)
    BY <1>2 DEF Carried
  <2> QED
    BY <1>0, <1>2, <1>t, <2>1, <2>2, <2>3, RunKeepsWord
<1>4. ASSUME NEW s \in stray, StrayCommit(s) PROVE Stamped' /\ Carried' /\ Spoken'
  <2>1. stray' \subseteq stray /\ UNCHANGED <<ops, epoch, outbox, clock, sent, settled>>
    BY <1>4 DEF StrayCommit, box
  <2>2. CASE Pull!Invalid(s.cursor)
    <3>1. UNCHANGED <<registers, journal, seq>>
      BY <1>4, <2>2 DEF StrayCommit, state
    <3> QED
      BY <1>0, <1>2, <1>t, <2>1, <3>1, QuietKeepsWord
  <2>3. CASE ~Pull!Invalid(s.cursor)
    <3>1. Write(s.dev, s.ops)
      BY <1>4, <2>3 DEF StrayCommit
    <3>2. s.ops \in SUBSET (1 .. Len(ops)) /\ s.dev \in Device
      BY DEF Sound
    <3>3. Ordered(s.ops, s.dev)
      BY <1>2 DEF Carried
    <3> QED
      BY <1>0, <1>2, <2>1, <3>1, <3>2, <3>3, RunKeepsWord
  <2> QED
    BY <2>2, <2>3
<1>5. ASSUME NEW d \in Device, NEW key \in Register, NEW on \in BOOLEAN, NEW at \in 1 .. MaxTime + Ahead,
             NEW meta \in Meta \cup {Stub}, Act(d, key, on, at, meta)
      PROVE  Stamped' /\ Carried' /\ Spoken'
  BY <1>2, <1>5, ActSpeaks
<1>6. ASSUME NEW d \in Device, NEW last \in {0} \cup outbox[d], NEW limit, Send(d, last, limit)
      PROVE  Stamped' /\ Carried' /\ Spoken'
  <2>1. /\ sent' = [sent EXCEPT ![d] = {o \in outbox[d] : o <= last}]
        /\ UNCHANGED <<epoch, seq, registers, journal, clock, ops, outbox, settled, stray>>
    BY <1>6 DEF Send, box, state
  <2>2. Stamped' /\ Spoken'
    BY <1>0, <1>2, <1>t, <2>1, StampsStay, SilenceKeeps DEF Past, Sound, Stored, Typed
  <2>3. ASSUME NEW e \in Device PROVE Ordered(sent[e], e)'
    <3>1. CASE e = d
      <4>1. PICK request : request = {o \in outbox[d] : o <= last}
        OBVIOUS
      <4>2. outbox[d] \subseteq Nat /\ last \in Nat /\ \A q \in DOMAIN ops : q \in Nat
        BY <1>6 DEF Sound
      <4>3. \A o \in request : ops[o].dev = d
        BY <1>2, <4>1 DEF Carried
      <4>4. ASSUME NEW p \in request, NEW q \in DOMAIN ops, q < p PROVE q \in request \/ q \notin outbox[d]
        BY <4>1, <4>2, <4>4
      <4>5. Ordered(request, d)
        BY <4>3, <4>4 DEF Ordered
      <4>6. sent'[d] = request
        BY <2>1, <4>1 DEF Sound
      <4> QED
        BY <2>1, <3>1, <4>5, <4>6 DEF Ordered
    <3>2. CASE e # d
      <4>1. sent'[e] = sent[e] /\ Ordered(sent[e], e)
        BY <1>2, <2>1, <3>2 DEF Carried, Sound
      <4> QED
        BY <2>1, <4>1 DEF Ordered
    <3> QED
      BY <3>1, <3>2
  <2>4. Carried'
    <3>1. \A s \in stray : Ordered(s.ops, s.dev)'
      BY <1>2, <2>1 DEF Carried, Ordered
    <3> QED
      BY <1>2, <2>1, <2>3, <3>1 DEF Carried
  <2> QED
    BY <2>2, <2>4
<1>7. ASSUME NEW d \in Device, Deliver(d) \/ StartOver(d) \/ Abandon(d)
      PROVE  Stamped' /\ Carried' /\ Spoken'
  <2>1. /\ outbox' = outbox \/ outbox' = [outbox EXCEPT ![d] = outbox[d] \ settled[d]]
        /\ sent' = [sent EXCEPT ![d] = {}] /\ settled' = [settled EXCEPT ![d] = {}]
        /\ UNCHANGED <<epoch, seq, registers, journal, clock, ops>>
        /\ stray' \subseteq stray \cup {[dev |-> d, ops |-> sent[d], cursor |-> cur[d]]}
    BY <1>7 DEF Deliver, StartOver, Abandon, box, state
  <2>2. stray' \subseteq stray \cup {[dev |-> e, ops |-> sent[e], cursor |-> cur[e]] : e \in Device}
    BY <2>1
  <2>3. \A e \in Device : /\ outbox'[e] = outbox[e] \/ outbox'[e] = outbox[e] \ settled[e]
                          /\ sent'[e] \in {sent[e], {}}
                          /\ settled'[e] \in {settled[e], {}}
    BY <2>1 DEF Sound
  <2> QED
    BY <1>0, <1>2, <1>t, <2>1, <2>2, <2>3, QuietKeepsWord
<1>8. ASSUME NEW d \in Device, Read(d) \/ Refuse(d) \/ Publish(d) \/ Wake(d)
      PROVE  Stamped' /\ Carried' /\ Spoken'
  <2>1. UNCHANGED <<epoch, seq, registers, journal, clock, ops, outbox, sent, settled, stray>>
    BY <1>8 DEF Read, Refuse, Publish, Wake, box, state
  <2> QED
    BY <1>0, <1>2, <1>t, <2>1, QuietKeepsWord
<1>9. CASE Tick
  <2>1. clock' = clock + 1 /\ UNCHANGED <<epoch, seq, registers, journal, ops, outbox, sent, settled, stray>>
    BY <1>9 DEF Tick, state
  <2> QED
    BY <1>0, <1>2, <1>t, <2>1, QuietKeepsWord
<1>10. CASE Crash
  <2>1. /\ stray' = {} /\ UNCHANGED <<epoch, seq, registers, journal, clock, ops, outbox>>
        /\ sent' = [d \in Device |-> IF req[d].phase \in {"sent", "written"} THEN {} ELSE sent[d]]
        /\ settled' = [d \in Device |-> IF req[d].phase = "written" THEN {} ELSE settled[d]]
    BY <1>10 DEF Crash, Crashed, box, state
  <2> QED
    BY <1>0, <1>2, <1>t, <2>1, QuietKeepsWord
<1>11. CASE RotateEpoch
  <2>1. epoch' = epoch + 1 /\ UNCHANGED <<registers, journal, clock, ops, outbox, sent, settled, stray>>
    BY <1>11 DEF RotateEpoch, box, state
  <2> QED
    BY <1>0, <1>2, <1>t, <2>1, QuietKeepsWord
<1>12. CASE UNCHANGED vars
  <2>1. UNCHANGED <<epoch, seq, registers, journal, clock, ops, outbox, sent, settled, stray>>
    BY <1>12 DEF vars, box, state
  <2> QED
    BY <1>0, <1>2, <1>t, <2>1, QuietKeepsWord
<1>13. ~Restore /\ ~TakeBackup
  <2>1. ~Restore
    BY DEF Restore, Pull!Restore
  <2>2. ~TakeBackup
    BY <1>0 DEF TakeBackup, PP!TypeOK, PP!EpochsKnown
  <2> QED
    BY <2>1, <2>2
<1> QED
  BY <1>3, <1>4, <1>5, <1>6, <1>7, <1>8, <1>9, <1>10, <1>11, <1>12, <1>13 DEF Next, Writes, Others

\* The user's last word is what the server holds, once its op has left the outbox.
THEOREM LastWordsKept == Spec => [](Ahead = 0 => LastWordKept)
<1>1. Init => Word
  BY InitWord
<1>2. Sound /\ PP!Passed /\ Word /\ [Next]_vars => Word'
  BY WordStep
<1>3. Sound /\ Word => (Ahead = 0 => LastWordKept)
  <2> SUFFICES ASSUME Sound, Word, Ahead = 0, NEW o \in DOMAIN ops,
                      \A p \in DOMAIN ops : ops[p].key = ops[o].key => ops[p].dev = ops[o].dev /\ p <= o,
                      o \notin outbox[ops[o].dev], backup.epoch = 0
               PROVE  /\ registers[ops[o].key].on = ops[o].on
                      /\ ops[o].key \notin Video /\ ops[o].on /\ ops[o].meta # Stub
                           => registers[ops[o].key].meta = ops[o].meta
    BY DEF LastWordKept
  <2>1. Stamped /\ Carried /\ Spoken
    BY DEF Word
  <2>2. o \in 1 .. Len(ops) /\ o \in OpId /\ ops[o] \in Op /\ Made(ops[o])
    BY OpsMade DEF Sound
  <2>3. PICK r \in Register : r = ops[o].key
    BY <2>2 DEF Made
  <2>4. PICK reg : reg = registers[r]
    OBVIOUS
  <2>5. o \in On(r) /\ Mine(r) /\ Past(o)
    BY <2>3 DEF On, Mine, Past
  <2>6. Authored(reg, r) /\ Heard(reg, o)
    BY <2>1, <2>4, <2>5 DEF Spoken, SpokenOn
  <2>7. ~(reg.seq # 0 /\ ops[o].at < reg.at)
    <3>1. SUFFICES ASSUME reg.seq # 0, ops[o].at < reg.at PROVE FALSE
      OBVIOUS
    <3>2. PICK y \in On(r) : reg.at = ops[y].at
      BY <2>6, <3>1 DEF Authored
    <3>3. y \in Nat /\ o \in Nat /\ y <= o /\ ops[y].at \in Nat /\ ops[o].at \in Nat
      BY <2>1, <2>3, <2>5, OpsOn DEF On
    <3>4. y = o \/ ops[y].at < ops[o].at
      BY <2>1, <2>5, <3>3, OpsOn
    <3> QED
      BY <3>1, <3>2, <3>3, <3>4
  <2>8. Unchanged(reg, ops[o])
    BY <2>6, <2>7 DEF Heard
  <2>9. Makes(ops[o].key, ops[o].on, ops[o].meta)
    BY <2>1 DEF Stamped
  <2>10. CASE reg.seq = 0
    <3>1. reg = NoRow
      BY <2>4, <2>10 DEF Sound, Stored, Kept
    <3>2. ~ops[o].on
      BY <2>8, <2>10 DEF Unchanged
    <3>3. ops[o].on \in BOOLEAN
      BY <2>2 DEF Made
    <3>4. ops[o].on = FALSE
      BY <3>2, <3>3
    <3>5. reg.on = FALSE
      BY <3>1 DEF NoRow
    <3> QED
      BY <2>3, <2>4, <3>2, <3>4, <3>5
  <2>11. CASE reg.seq # 0
    <3>1. Image(reg, ops[o]) = [on |-> reg.on, meta |-> reg.meta]
      BY <2>8, <2>11 DEF Unchanged
    <3>2. CASE KindOf[r] = "like"
      <4>1. r \in Video
        BY <3>2 DEF Video
      <4> QED
        BY <2>3, <2>4, <3>1, <3>2, <4>1 DEF Image, LikeImage
    <3>3. CASE KindOf[r] = "bookmark"
      BY <2>3, <2>4, <3>1, <3>3 DEF Image, BookmarkImage
    <3>4. CASE KindOf[r] \in {"override", "pin"}
      BY <2>3, <2>4, <2>9, <3>1, <3>4 DEF Image, DescribedImage, Makes
    <3> QED
      BY <3>2, <3>3, <3>4, KeyFacts
  <2> QED
    BY <2>10, <2>11
<1> QED
  BY <1>1, <1>2, <1>3, Both, PTL DEF Spec

-----------------------------------------------------------------------------
(***************************************************************************)
(* The whole invariant, and what the devices have of it.                   *)
(***************************************************************************)

IInv == Sound /\ PP!Passed /\ Tracked /\ Word

\* The inductive invariant of the op runner and of its requests (applyOps, sync).
THEOREM Invariance == Spec => []IInv
<1>1. Init => Tracked /\ Word
  BY InitTracked, InitWord
<1>2. Sound /\ PP!Passed /\ Tracked /\ Word /\ [Next]_vars => (Tracked /\ Word)'
  BY TrackedStep, WordStep
<1> QED
  BY <1>1, <1>2, Both, PTL DEF Spec, IInv

\* Registers, tracks, journal, outboxes and requests keep their types for any registers and quotas.
THEOREM TypeCorrect == Spec => []TypeOK
<1>1. Sound /\ PP!Passed => TypeOK
  <2> SUFFICES ASSUME Sound, PP!TypeOK PROVE TypeOK
    BY DEF PP!Passed
  <2>1. Pull!TypeOK
    BY DEF PP!TypeOK, Pull!TypeOK, PP!Request, Pull!Request, PP!Response, Pull!Response, PP!Cursor, Pull!Cursor,
           PP!Both, Pull!Both
  <2>2. /\ registers \in [Register -> [seq : Nat, on : BOOLEAN, meta : Meta \cup {Stub}, at : Nat, dev : Device \cup {0}]]
        /\ tracks \in [Video -> [seq : Nat, meta : Meta \cup {Stub}]]
        /\ journal \in [OpId -> Entry] /\ backup.journal \in [OpId -> Entry]
    BY DEF Sound, Stored, Typed, RegisterRow, TrackRow
  <2>3. SUBSET (1 .. Len(ops)) \subseteq SUBSET OpId
    BY OpsMade
  <2>4. /\ clock \in 1 .. MaxTime /\ ops \in Seq(Op)
        /\ outbox \in [Device -> SUBSET OpId] /\ sent \in [Device -> SUBSET OpId]
        /\ settled \in [Device -> SUBSET OpId]
        /\ stray \subseteq [dev : Device, ops : SUBSET OpId, cursor : Pull!Cursor]
    BY <2>3 DEF Sound
  <2> QED
    BY <2>1, <2>2, <2>4 DEF TypeOK
<1> QED
  BY <1>1, Both, PTL

\* What SyncPull promises holds of the registers and tracks: no cursor passes a row its device
\* lacks, and no device sleeps through another's op (sync.service.ts, page.ts, live.hub.ts).
THEOREM DevicesSeeOps == Spec => [](PP!NoLostRow /\ PP!CursorWithinHead /\ PP!QuietMeansCurrent)
<1>1. Init => PP!Init
  BY InitMaps, SamePull
<1>2. Sound /\ PP!Passed /\ [Next]_vars => [PP!Next]_PP!vars
  BY StepMaps, SamePull DEF PP!Passed
<1>3. Spec => PP!Spec
  BY <1>1, <1>2, Both, PTL DEF Spec, PP!Spec
<1>4. PP!Spec => []PP!NoLostRow
  BY PullAssumptions, PP!NothingLost
<1>5. PP!Spec => []PP!CursorWithinHead
  BY PullAssumptions, PP!CursorsWithinHead
<1>6. PP!Spec => []PP!QuietMeansCurrent
  BY PullAssumptions, PP!QuietIsCurrent
<1> QED
  BY <1>3, <1>4, <1>5, <1>6, PTL
=============================================================================
