------------------------------- MODULE Playlists -------------------------------
(***************************************************************************)
(* The playlist.* ops of POST /sync (src/modules/sync/ops/playlist-*,      *)
(* src/modules/sync/playlists): headers and items as registers, order keys *)
(* and their rebalance, quotas, and the recovery copy of a playlist that   *)
(* another device deleted.                                                 *)
(*                                                                         *)
(* One user.  An op runs under lockUser, so it is one step.  A device's    *)
(* ops carry the seq it had pulled (base) and the time of its edit, which  *)
(* may be long ago; the journal and repeats are SyncOps'.  A base of null  *)
(* has seen nothing, as 0.  Item rows keep no added_at, headers no address *)
(* of a picture.                                                           *)
(***************************************************************************)
EXTENDS SortKeys, FiniteSets

CONSTANTS
  Devices,    \* numbers: the code compares device ids as strings
  Lists,      \* playlist ids
  Chain,      \* recoveryPlaylistId of a playlist, of that id, and so on, as far as the model goes
  Videos,     \* numbers: items of one key are ordered by videoId
  Names,
  RecoveryName, \* recoveryPlaylistName: the name with the suffix
  Norm,       \* normalizePlaylistName
  Browses,    \* browseId of a YouTube playlist
  Requests,   \* the lists of local playlists that POST /sync/merge-plan is asked about
  Ops,        \* the ops the devices make
  Times,      \* effAt of an op: min(at, now)
  MaxLists, MaxItems, MaxRows,  \* quotas: live playlists, items of one, item rows of the user
  MaxSeq      \* bound: no op begins beyond this head

INSTANCE MergePlan

ASSUME DeviceAssumption == Devices \subseteq Nat \ {0} /\ Times \subseteq Nat
ASSUME VideoAssumption == Videos \subseteq Nat /\ IsFiniteSet(Videos) /\ Open \notin Videos
\* An id is made from the one before it and from no other.
ASSUME ChainAssumption ==
  /\ Open \notin Lists \cup Browses
  /\ Chain \in [Lists -> Seq(Lists)]
  /\ \A p \in Lists : \A i \in DOMAIN Chain[p] : Chain[Chain[p][i]] = SubSeq(Chain[p], i + 1, Len(Chain[p]))
  /\ \A p, q \in Lists :
       Range(Chain[p]) \cap Range(Chain[q]) # {} => p = q \/ p \in Range(Chain[q]) \/ q \in Range(Chain[p])
ASSUME NameAssumption == RecoveryName \in [Names -> Names] /\ Norm \in [Names -> Names]
ASSUME RequestAssumption == Requests \subseteq Seq(MergePlanInput(Lists, Names, Browses))

Kinds == {"create", "update", "delete", "add", "remove", "move", "replace", "import"}
\* What parsePlaylistOp makes of an op; one it cannot read is refused and changes nothing.
Op ==
  [kind : Kinds, list : Lists, name : Names, browse : Browses \cup {Open}, ids : Seq(Videos),
   after : Videos \cup {Open}, before : Videos \cup {Open}]
\* dedupe: a list of ids has no repetitions; remove and move name one item.
ASSUME OpsAssumption ==
  /\ Ops \subseteq Op
  /\ \A o \in Ops : IsInjective(o.ids) /\ (o.kind \in {"remove", "move"} => Len(o.ids) = 1)

VARIABLES
  seq,     \* the head of the user
  lists,   \* sync_playlists
  items,   \* sync_playlist_items
  known    \* the libSeq each device has pulled

vars == <<seq, lists, items, known>>

Register == [seq : Nat, at : Nat, dev : Devices]
NoList == [row |-> FALSE]
PlaylistRecord ==
  [row : {TRUE}, name : Names, browse : Browses \cup {Open}, deleted : BOOLEAN, deletedSeq : Nat, count : Nat, header : Register]
NoItem == [row |-> FALSE, present |-> FALSE]
ItemRecord == [row : {TRUE}, present : BOOLEAN, key : Key, mem : Register, pos : Register]

TypeOK ==
  /\ seq \in Nat
  /\ lists \in [Lists -> PlaylistRecord \cup {NoList}]
  /\ items \in [Lists -> [Videos -> ItemRecord \cup {NoItem}]]
  /\ known \in [Devices -> 0 .. seq]

Init ==
  /\ seq = 0
  /\ lists = [p \in Lists |-> NoList]
  /\ items = [p \in Lists |-> [v \in Videos |-> NoItem]]
  /\ known = [d \in Devices |-> 0]

-----------------------------------------------------------------------------
(* Rows as a transaction sees them: s holds what it has written so far. *)

\* wins: the author saw the value, or its edit is the later one.
Wins(reg, w) == reg.seq <= w.base \/ w.at > reg.at \/ (w.at = reg.at /\ w.dev >= reg.dev)

\* The elements of a finite set in the order of a relation.
Sorted(S, R) ==
  [i \in 1 .. Cardinality(S) |-> CHOOSE v \in S : Cardinality({w \in S : <<w, v>> \in R}) = i - 1]

At(list, i) == IF i \in DOMAIN list THEN list[i] ELSE Open
Place(list, v) == IF v \in Range(list) THEN CHOOSE i \in DOMAIN list : list[i] = v ELSE 0
\* Those elements of a list without repetitions that are in S.
Among(list, S) == Sorted(Range(list) \cap S, {x \in S \X S : Place(list, x[1]) < Place(list, x[2])})
Without(list, v) == Among(list, Range(list) \ {v})

Present(rows) == {v \in Videos : rows[v].present}
ItemBefore(rows, v, w) ==
  KeyLess(rows[v].key, rows[w].key) \/ (rows[v].key = rows[w].key /\ v < w)
\* presentItems: in playlist order.
Order(rows) == Sorted(Present(rows), {x \in Present(rows) \X Present(rows) : ItemBefore(rows, x[1], x[2])})

\* anchorSlot: after, else before, else the end; of the present items without the excluded one.
AnchorSlot(list, after, before) ==
  IF Place(list, after) # 0 THEN [lower |-> after, upper |-> At(list, Place(list, after) + 1)]
  ELSE IF Place(list, before) # 0 THEN [lower |-> At(list, Place(list, before) - 1), upper |-> before]
  ELSE [lower |-> At(list, Len(list)), upper |-> Open]

LiveLists(s) == Cardinality({p \in Lists : s.lists[p].row /\ ~s.lists[p].deleted})
ItemRows(s) == Cardinality({x \in Lists \X Videos : s.items[x[1]][x[2]].row})

LivePlaylistQuotaAllows(s) == LiveLists(s) + 1 <= MaxLists
ItemQuotaAllows(s, count, delta, newRows) ==
  /\ delta > 0 => count + delta <= MaxItems
  /\ newRows > 0 => ItemRows(s) + newRows <= MaxRows

-----------------------------------------------------------------------------
(* commitItems: rows with one seq each, keys by placement or by rebalance. *)

\* PlannedItem: what becomes of a row, and the registers that are written at the time given.
Unchanged(row) == [present |-> row.present, mem |-> FALSE, pos |-> FALSE, at |-> 0]
Joins(at) == [present |-> TRUE, mem |-> TRUE, pos |-> TRUE, at |-> at]
Moved(row, at) == [Unchanged(row) EXCEPT !.pos = TRUE, !.at = at]
Removes(row, at) == [Unchanged(row) EXCEPT !.present = FALSE, !.mem = TRUE, !.at = at]

\* Variant: a row whose key changes keeps its seq.
QuietRow(old, i, key, d, n) ==
  LET written == [seq |-> n, at |-> i.at, dev |-> d]
  IN [row |-> TRUE, present |-> i.present, key |-> key,
      mem |-> IF i.mem \/ ~old.row THEN written ELSE old.mem,
      pos |-> IF i.pos \/ ~old.row THEN written ELSE old.pos]

\* plannedRow: a new key moves the seq of the position register, not its author.
PlannedRow(old, i, key, d, n) ==
  LET written == [seq |-> n, at |-> i.at, dev |-> d]
  IN [row |-> TRUE, present |-> i.present, key |-> key,
      mem |-> IF i.mem \/ ~old.row THEN written ELSE old.mem,
      pos |-> IF i.pos \/ ~old.row THEN written
              ELSE IF key # old.key THEN [old.pos EXCEPT !.seq = n] ELSE old.pos]

\* The rows ids are written in this order, with one seq each; rekeyedRow is one that plan does not name.
WriteRows(s, p, d, ids, plan, key) ==
  LET row(v) == PlannedRow(s.items[p][v], IF v \in DOMAIN plan THEN plan[v] ELSE Unchanged(s.items[p][v]),
                           key[v], d, s.seq + Place(ids, v))
  IN [s EXCEPT !.seq = @ + Len(ids),
               !.items[p] = [v \in Videos |-> IF v \in Range(ids) THEN row(v) ELSE s.items[p][v]]]

\* A run of placed ids goes behind the item it is filed under (Open: to the start), before upper.
RunAt(slot, ids) == [l \in {slot.lower} |-> [upper |-> slot.upper, ids |-> ids]]
Placed(runs) == UNION {Range(runs[l].ids) : l \in DOMAIN runs}
RunOf(runs, v) == CHOOSE l \in DOMAIN runs : v \in Range(runs[l].ids)

\* The present items that keep their place.
Stays(list, plan, runs) == Among(list, Range(list) \ (Placed(runs) \cup {v \in DOMAIN plan : ~plan[v].present}))

\* Variant: the runs come after all that stays.
FinalOrderAtEnd(list, plan, runs) ==
  LET stays == Stays(list, plan, runs)
      rank(v) == IF v \in Placed(runs) THEN <<Len(list) + Place(stays, RunOf(runs, v)), Place(runs[RunOf(runs, v)].ids, v)>>
                 ELSE <<Place(stays, v), 0>>
      all == Range(stays) \cup Placed(runs)
  IN Sorted(all, {x \in all \X all : \/ rank(x[1])[1] < rank(x[2])[1]
                                     \/ rank(x[1])[1] = rank(x[2])[1] /\ rank(x[1])[2] < rank(x[2])[2]})

\* Where an item comes: with what stays, at once behind it or later in the run that follows it.
Rank(stays, runs, v) ==
  IF v \in Placed(runs) THEN <<Place(stays, RunOf(runs, v)), Place(runs[RunOf(runs, v)].ids, v)>>
  ELSE <<Place(stays, v), 0>>
RankLess(a, b) == a[1] < b[1] \/ (a[1] = b[1] /\ a[2] < b[2])

\* What stays in its order, every run after its lower neighbour.
FinalOrder(list, plan, runs) ==
  LET stays == Stays(list, plan, runs)
      all == Range(stays) \cup Placed(runs)
  IN Sorted(all, {x \in all \X all : RankLess(Rank(stays, runs, x[1]), Rank(stays, runs, x[2]))})

\* Every present item gets a fresh key in the final order, the removed ones keep theirs.
Rekeyed(s, p, d, ids, plan, order, key) ==
  WriteRows(s, p, d, Among(order, {v \in Range(order) : v \in DOMAIN plan \/ key[v] # s.items[p][v].key})
                       \o Among(ids, Range(ids) \ Range(order)), plan, key)
FreshKeys(s, p, ids, order, fresh) ==
  [v \in Range(order) \cup Range(ids) |-> IF v \in Range(order) THEN fresh[Place(order, v)] ELSE s.items[p][v].key]
Rebalance(s, p, d, ids, plan, order) ==
  Rekeyed(s, p, d, ids, plan, order, FreshKeys(s, p, ids, order, KeysBetween(Open, Open, Len(order))))

\* The key of a planned row: the one its run was issued, or the one it has.
IssuedKeys(s, p, ids, runs, issued) ==
  [v \in Range(ids) |-> IF v \in Placed(runs) THEN issued[RunOf(runs, v)][Place(runs[RunOf(runs, v)].ids, v)]
                        ELSE s.items[p][v].key]
WriteItems(s, p, d, ids, plan, runs, issued) ==
  IF Open \in Range(issued) THEN Rebalance(s, p, d, ids, plan, FinalOrder(Order(s.items[p]), plan, runs))
  ELSE WriteRows(s, p, d, ids, plan, IssuedKeys(s, p, ids, runs, issued))

KeyOf(s, p, v) == IF v = Open THEN Open ELSE s.items[p][v].key
\* The edit plan of the items ids, written in this order; the runs say where the present ones come.
CommitItems(s, p, d, ids, plan, runs) ==
  WriteItems(s, p, d, ids, plan, runs,
    [l \in DOMAIN runs |-> TryKeysBetween(KeyOf(s, p, l), KeyOf(s, p, runs[l].upper), Len(runs[l].ids))])

\* Variant: only what an op adds is counted.
CountsAdds(s, p, delta) == [s EXCEPT !.lists[p].count = IF delta > 0 THEN @ + delta ELSE @]

SetItemCount(s, p, delta) == [s EXCEPT !.lists[p].count = @ + delta]

-----------------------------------------------------------------------------
(* The handlers: s with what they wrote, their status and the playlist they wrote to. *)

Result(s, status) == [s EXCEPT !.status = status]

InsertPlaylist(s, p, d, name, browse, count, at) ==
  [s EXCEPT !.seq = @ + 1,
            !.lists[p] = [row |-> TRUE, name |-> name, browse |-> browse, deleted |-> FALSE,
                          deletedSeq |-> 0, count |-> count, header |-> [seq |-> s.seq + 1, at |-> at, dev |-> d]]]

CreatePlaylistWithItems(s, p, d, name, browse, ids, at, status) ==
  LET n == Len(ids)
  IN IF ~LivePlaylistQuotaAllows(s) \/ ~ItemQuotaAllows(s, 0, n, n) THEN Result(s, "deferred")
     ELSE [CommitItems(InsertPlaylist(s, p, d, name, browse, n, at), p, d, ids, [v \in Range(ids) |-> Joins(at)],
                       RunAt([lower |-> Open, upper |-> Open], ids))
             EXCEPT !.status = status, !.target = p]

Create(s, o, w) ==
  IF s.lists[o.list].row THEN Result(s, IF s.lists[o.list].deleted THEN "rejected" ELSE "applied")
  ELSE CreatePlaylistWithItems(s, o.list, w.dev, o.name, o.browse, o.ids, w.at, "applied")

UpdateHeader(s, p, name, w) ==
  [s EXCEPT !.seq = @ + 1, !.lists[p].name = name,
            !.lists[p].header = [seq |-> s.seq + 1, at |-> w.at, dev |-> w.dev]]

Update(s, o, w) ==
  LET k == s.lists[o.list]
  IN IF ~k.row THEN Result(s, "deferred")
     ELSE IF k.deleted THEN Result(s, "rejected")
     ELSE IF k.name = o.name THEN Result(s, "applied")
     ELSE IF ~Wins(k.header, w) THEN Result(s, "superseded")
     ELSE Result(UpdateHeader(s, o.list, o.name, w), "applied")

\* Deletion is final, its item rows go.
DeletePlaylist(s, p) ==
  [s EXCEPT !.seq = @ + 1, !.lists[p].deleted = TRUE, !.lists[p].deletedSeq = s.seq + 1,
            !.lists[p].count = 0, !.lists[p].header.seq = s.seq + 1,
            !.items[p] = [v \in Videos |-> NoItem]]

Delete(s, o, w) ==
  IF ~s.lists[o.list].row \/ s.lists[o.list].deleted THEN Result(s, "applied")
  ELSE Result(DeletePlaylist(s, o.list), "applied")

Joined(s, p, d, joins, slot, at) ==
  SetItemCount(CommitItems(s, p, d, joins, [v \in Range(joins) |-> Joins(at)], RunAt(slot, joins)), p, Len(joins))
NewRows(rows, ids) == Cardinality({v \in Range(ids) : ~rows[v].row})
Absent(rows, ids) == Among(ids, Range(ids) \ Present(rows))
\* The absent ids whose tombstone, if any, lets the writer win.
Winning(rows, ids, w) == Among(ids, {v \in Range(ids) \ Present(rows) : rows[v].row => Wins(rows[v].mem, w)})

\* They become present, as one block.
JoinItems(s, p, o, w, at, joins) ==
  CASE joins = <<>> -> Result(s, IF Absent(s.items[p], o.ids) = <<>> THEN "applied" ELSE "superseded")
    [] joins # <<>> /\ ~ItemQuotaAllows(s, s.lists[p].count, Len(joins), NewRows(s.items[p], joins)) ->
         Result(s, "deferred")
    [] OTHER -> Result(Joined(s, p, w.dev, joins, AnchorSlot(Order(s.items[p]), o.after, o.before), at), "applied")
AddItems(s, p, o, w, at) == JoinItems(s, p, o, w, at, Winning(s.items[p], o.ids, w))

\* appendMissing: at the end, with the registers' time the caller gives.
AppendMissing(s, p, o, w, at) == AddItems(s, p, [o EXCEPT !.after = Open, !.before = Open], w, at)

\* The first id of the chain that is live or unused.
FindRecoveryTarget(s, p) == Chain[p][Min({i \in DOMAIN Chain[p] : ~Dead(s.lists, Chain[p][i])})]

Redirected(s, p) == IF s.status = "applied" THEN [s EXCEPT !.status = "redirected", !.target = p] ELSE s

Redirect(s, o, w) ==
  LET p == FindRecoveryTarget(s, o.list)
  IN IF s.lists[p].row THEN Redirected(AddItems(s, p, o, w, w.at), p)
     ELSE CreatePlaylistWithItems(s, p, w.dev, RecoveryName[s.lists[o.list].name], Open, o.ids, w.at, "redirected")

Add(s, o, w) ==
  LET k == s.lists[o.list]
  IN IF ~k.row THEN Result(s, "deferred")
     ELSE IF ~k.deleted THEN AddItems(s, o.list, o, w, w.at)
     ELSE IF w.base >= k.deletedSeq THEN Result(s, "rejected")
     ELSE Redirect(s, o, w)

\* Variant: an import counts as an edit of now.
ImportAsAdd(s, o, w) ==
  LET k == s.lists[o.list]
  IN IF ~k.row THEN CreatePlaylistWithItems(s, o.list, w.dev, o.name, o.browse, o.ids, w.at, "applied")
     ELSE IF k.deleted THEN Redirect(s, [o EXCEPT !.after = Open, !.before = Open], w)
     ELSE AppendMissing(s, o.list, o, w, w.at)

\* An import into a live playlist loses to every later edit.
Import(s, o, w) ==
  LET k == s.lists[o.list]
  IN IF ~k.row THEN CreatePlaylistWithItems(s, o.list, w.dev, o.name, o.browse, o.ids, w.at, "applied")
     ELSE IF k.deleted THEN Redirect(s, [o EXCEPT !.after = Open, !.before = Open], w)
     ELSE AppendMissing(s, o.list, o, [w EXCEPT !.at = 0], 0)

RemoveItem(s, o, w) ==
  LET v == o.ids[1]
      row == s.items[o.list][v]
  IN IF ~s.lists[o.list].row THEN Result(s, "deferred")
     ELSE IF s.lists[o.list].deleted \/ ~row.present THEN Result(s, "applied")
     ELSE IF ~Wins(row.mem, w) THEN Result(s, "superseded")
     ELSE Result(SetItemCount(CommitItems(s, o.list, w.dev, <<v>>, [x \in {v} |-> Removes(row, w.at)], <<>>), o.list, -1),
                 "applied")

MoveTo(s, p, v, w, list, slot) ==
  IF slot.lower = At(list, Place(list, v) - 1) THEN Result(s, "applied")
  ELSE IF ~Wins(s.items[p][v].pos, w) THEN Result(s, "superseded")
  ELSE Result(CommitItems(s, p, w.dev, <<v>>, [x \in {v} |-> Moved(s.items[p][v], w.at)], RunAt(slot, <<v>>)), "applied")
Move(s, o, w) ==
  LET v == o.ids[1]
      list == Order(s.items[o.list])
  IN IF ~s.lists[o.list].row THEN Result(s, "deferred")
     ELSE IF s.lists[o.list].deleted \/ ~s.items[o.list][v].present THEN Result(s, "applied")
     ELSE MoveTo(s, o.list, v, w, list, AnchorSlot(Without(list, v), o.after, o.before))

-----------------------------------------------------------------------------
(* playlist.items.replace: the mirror of a YouTube playlist. *)

Rising(list, kept, set) ==
  \A v, w \in set : Place(kept, v) < Place(kept, w) => Place(list, v) < Place(list, w)

Longest(sets) == CHOOSE set \in sets : \A other \in sets : Cardinality(other) <= Cardinality(set)
\* One longest increasing subsequence; which of several is the code's choice.
LongestIncreasing(list, kept) == Longest({set \in SUBSET Range(kept) : Rising(list, kept, set)})

\* The id of the LIS that an id comes behind.
LowerOf(ids, onLis, v) ==
  LET before == {u \in onLis : Place(ids, u) < Place(ids, v)}
  IN IF before = {} THEN Open ELSE CHOOSE u \in before : \A x \in before : Place(ids, x) <= Place(ids, u)

\* Runs of placed items, each between the LIS item before it and the next item that keeps its place.
Placements(ids, list, onLis, placed, moving) ==
  LET fixed == Among(list, Range(list) \ moving)
      run(l) == Among(ids, {v \in placed : LowerOf(ids, onLis, v) = l})
  IN [l \in {k \in onLis \cup {Open} : run(k) # <<>>} |-> [upper |-> At(fixed, Place(fixed, l) + 1), ids |-> run(l)]]

\* removed, moved and added are the edits that win, lost of them do not.
Mirrored(s, p, ids, w, list, onLis, removed, moved, added, lost) ==
  LET rows == s.items[p]
      delta == Len(added) - Len(removed)
      placed == Range(moved) \cup Range(added)
      planned == removed \o moved \o added
      plan == [v \in Range(planned) |-> IF v \in Range(removed) THEN Removes(rows[v], w.at)
                                        ELSE IF v \in Range(moved) THEN Moved(rows[v], w.at) ELSE Joins(w.at)]
  IN IF planned = <<>> THEN Result(s, IF lost > 0 THEN "superseded" ELSE "applied")
     ELSE IF ~ItemQuotaAllows(s, s.lists[p].count, delta, NewRows(rows, added)) THEN Result(s, "deferred")
     ELSE Result(SetItemCount(
            CommitItems(s, p, w.dev, planned, plan, Placements(ids, list, onLis, placed, Range(planned))),
            p, delta), "applied")

MirrorAll(s, p, ids, w, list, extra, kept, onLis) ==
  LET rows == s.items[p]
      off == Among(kept, Range(kept) \ onLis)
      removed == Among(extra, {v \in Range(extra) : Wins(rows[v].mem, w)})
      moved == Among(off, {v \in Range(off) : Wins(rows[v].pos, w)})
      added == Winning(rows, ids, w)
  IN Mirrored(s, p, ids, w, list, onLis, removed, moved, added,
              Len(extra) + Len(off) + Len(Absent(rows, ids)) - Len(removed \o moved \o added))
Mirror(s, p, ids, w, list, kept) ==
  MirrorAll(s, p, ids, w, list, Among(list, Range(list) \ Range(ids)), kept, LongestIncreasing(list, kept))

Replace(s, o, w) ==
  IF ~s.lists[o.list].row THEN Result(s, "deferred")
  ELSE IF s.lists[o.list].deleted THEN Result(s, "rejected")
  ELSE Mirror(s, o.list, o.ids, w, Order(s.items[o.list]), Among(o.ids, Present(s.items[o.list])))

-----------------------------------------------------------------------------
Apply(s, o, w) ==
  CASE o.kind = "create" -> Create(s, o, w)
    [] o.kind = "update" -> Update(s, o, w)
    [] o.kind = "delete" -> Delete(s, o, w)
    [] o.kind = "add" -> Add(s, o, w)
    [] o.kind = "remove" -> RemoveItem(s, o, w)
    [] o.kind = "move" -> Move(s, o, w)
    [] o.kind = "replace" -> Replace(s, o, w)
    [] OTHER -> Import(s, o, w)

\* What an op of a device comes to.
Outcome(d, o, at) ==
  Apply([seq |-> seq, lists |-> lists, items |-> items, status |-> "none", target |-> o.list],
        o, [base |-> known[d], at |-> at, dev |-> d])

\* The op runs in its write transaction.  A device gives no playlist of its own the id of a copy and imports into
\* a copy that it knows; bound: the chain of a deleted playlist is not used up.
Sent(o) ==
  /\ o.kind \in {"create", "import"} /\ (\E p \in Lists : o.list \in Range(Chain[p])) => lists[o.list].row
  /\ Dead(lists, o.list) => \E p \in Range(Chain[o.list]) : ~Dead(lists, p)
Commit(s) ==
  /\ seq' = s.seq
  /\ lists' = s.lists
  /\ items' = s.items
  /\ UNCHANGED known
Run(d, o, at) ==
  /\ seq < MaxSeq
  /\ Sent(o)
  /\ Commit(Outcome(d, o, at))

\* The device has pulled everything.
Pulled(d) ==
  /\ known[d] # seq
  /\ known' = [known EXCEPT ![d] = seq]
  /\ UNCHANGED <<seq, lists, items>>

Next ==
  \E d \in Devices :
    \/ \E o \in Ops, at \in Times : Run(d, o, at)
    \/ Pulled(d)

Spec == Init /\ [][Next]_vars

-----------------------------------------------------------------------------
(* The functions of playlists/anchors.ts, with which clients show an edit. *)

Insert(list, ids, after, before) ==
  LET lower == AnchorSlot(list, after, before).lower
      i == IF lower = Open THEN 0 ELSE Place(list, lower)
  IN SubSeq(list, 1, i) \o ids \o SubSeq(list, i + 1, Len(list))
ApplyAdd(list, ids, after, before) ==
  Insert(list, Among(ids, Range(ids) \ Range(list)), after, before)
ApplyMove(list, v, after, before) ==
  IF v \notin Range(list) THEN list ELSE Insert(Without(list, v), <<v>>, after, before)

-----------------------------------------------------------------------------
(* Properties. *)

\* The imports a device sends for a plan (DESIGN 3.14), in order; the ids that are not in Lists are fresh ones.
Merged(d, request, plan) ==
  FoldLeft(LAMBDA s, i :
             IF plan[i].action = "deleted" \/ plan[i].id \notin Lists THEN s
             ELSE Import(s, [list |-> plan[i].id, name |-> request[i].name, browse |-> request[i].browse,
                             ids |-> <<>>, after |-> Open, before |-> Open],
                         [base |-> 0, at |-> 0, dev |-> d]),
           [seq |-> seq, lists |-> lists, items |-> items, status |-> "none", target |-> Open],
           [i \in DOMAIN request |-> i])

\* No other local playlist is to create the same id.
Alone(plan, i) == plan[i].action = "create" => \A j \in DOMAIN plan : plan[j] = plan[i] => j = i

\* No two local playlists merge into one, and a device that comes again after its merge, because the answers were
\* lost or it started over, finds every playlist where the first plan put it (merge-plan.ts, syncId and claimed).
Repeats(request, plan, after) ==
  LET again == ComputeMergePlan(after, [i \in DOMAIN request |->
                 IF plan[i].id \in Lists THEN [request[i] EXCEPT !.syncId = plan[i].id] ELSE request[i]])
  IN \A i \in DOMAIN request :
       /\ \A j \in DOMAIN request :
            i # j /\ plan[i].action = "merge" /\ plan[j].action = "merge" => plan[i].id # plan[j].id
       /\ plan[i].id \in Lists /\ Alone(plan, i) =>
            again[i] = [plan[i] EXCEPT !.action = IF @ = "create" /\ after[plan[i].id].row THEN "merge" ELSE @]
Answered(d, request, plan) == Repeats(request, plan, Merged(d, request, plan).lists)
PlanRepeats ==
  \A request \in Requests :
    Answered(CHOOSE d \in Devices : TRUE, request, ComputeMergePlan(lists, request))

\* sync_playlist_items.seq.
RowSeq(row) == IF ~row.row THEN 0 ELSE IF row.mem.seq > row.pos.seq THEN row.mem.seq ELSE row.pos.seq

\* What an op did to a playlist's rows is what every client computes for it on the list alone, whatever keys
\* were issued, and also when the keys of the whole playlist were rebalanced in its course (commitItems).
Shown(o, old, new, rows) ==
  LET lost == {v \in Range(o.ids) \ Range(new) : rows[v].row}
      ids == Among(o.ids, Range(o.ids) \ lost)
  IN CASE o.kind \in {"add", "import"} ->
            new = ApplyAdd(old, ids, IF o.kind = "add" THEN o.after ELSE Open,
                                     IF o.kind = "add" THEN o.before ELSE Open)
       [] o.kind = "move" -> new = ApplyMove(old, o.ids[1], o.after, o.before)
       [] o.kind = "remove" -> new = Without(old, o.ids[1])
       [] o.kind = "delete" -> new = <<>>
       [] o.kind = "update" -> new = old
       [] OTHER -> TRUE
ShownAs(d, o, s) ==
  LET p == s.target
      rows == items[p]
      seen == \A v \in Videos : rows[v].row => RowSeq(rows[v]) <= known[d]
      new == Order(s.items[p])
  IN s.status \in {"applied", "redirected"} =>
       /\ Shown(o, Order(rows), new, rows)
       /\ (o.kind = "create" /\ ~lists[p].row) \/ (o.kind = "replace" /\ seen) => new = o.ids
PlacedAsShown == \A d \in Devices, o \in {x \in Ops : Sent(x)}, at \in Times : ShownAs(d, o, Outcome(d, o, at))

\* Every row an op changes gets a seq beyond the head a device may have pulled, one of its own, also the rows
\* that a rebalance only moved; a row that disappears is told by its playlist (seq = max(mem_seq, pos_seq)).
ChangesTold ==
  [][LET rows == {x \in Lists \X Videos : items'[x[1]][x[2]] # items[x[1]][x[2]]}
     IN \A x \in rows :
          /\ items'[x[1]][x[2]].row => RowSeq(items'[x[1]][x[2]]) > seq
          /\ ~items'[x[1]][x[2]].row => lists'[x[1]].header.seq > seq
          /\ \A y \in rows \ {x} : items'[x[1]][x[2]].row => RowSeq(items'[x[1]][x[2]]) # RowSeq(items'[y[1]][y[2]])]_vars

\* A playlist is in order: item_count is what it holds, its items have keys of their own, a deleted one holds
\* nothing, and of a chain of recovery copies at most one is live (setItemCount, deletePlaylist, findRecoveryTarget).
Tidy ==
  \A p \in Lists :
    /\ lists[p].row => lists[p].count = Len(Order(items[p]))
    /\ (~lists[p].row \/ lists[p].deleted) => \A v \in Videos : ~items[p][v].row
    /\ \A v, w \in Videos : v # w /\ items[p][v].present /\ items[p][w].present => items[p][v].key # items[p][w].key
    /\ \A q, r \in {p} \cup Range(Chain[p]) : Live(lists, q) /\ Live(lists, r) => q = r

\* A merge never brings back a track that was removed after its device last looked, nor pushes aside an edit
\* of another device (playlist.import, at 0).
ImportYields ==
  \A o \in {x \in Ops : x.kind = "import" /\ Sent(x)}, d \in Devices, at \in Times :
    lists[o.list].row =>
      \A v \in Videos :
        LET row == items[o.list][v]
        IN row.row /\ row.mem.seq > known[d] /\ row.mem.at > 0 =>
             Outcome(d, o, at).items[o.list][v].present = row.present
=============================================================================
