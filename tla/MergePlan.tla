------------------------------ MODULE MergePlan ------------------------------
(***************************************************************************)
(* POST /sync/merge-plan (src/modules/sync/playlists/merge-plan.ts): which *)
(* playlist of the server each local playlist of a device merges into, in  *)
(* five passes.  A pure function of the user's playlists and the request.  *)
(***************************************************************************)
EXTENDS Naturals, SequencesExt

CONSTANTS
  Norm,  \* normalizePlaylistName
  Open   \* null

\* An entry of the request: its place in the list stands for localKey.
MergePlanInput(ids, names, browses) ==
  [syncId : ids \cup {Open}, name : names, browse : browses \cup {Open}]

MergePlanEntry(action, id) == [action |-> action, id |-> id]
Unresolved == MergePlanEntry("none", Open)

Live(server, id) == id \in DOMAIN server /\ server[id].row /\ ~server[id].deleted
Dead(server, id) == id \in DOMAIN server /\ server[id].row /\ server[id].deleted
Known(server, id) == Live(server, id) \/ Dead(server, id)

\* The plan with the decision of every entry that is still open.
Resolve(plan, decided) ==
  FoldLeft(LAMBDA done, i : Append(done, IF plan[i] = Unresolved THEN decided[i] ELSE plan[i]),
           <<>>, [i \in DOMAIN plan |-> i])

\* Passes 1 and 2: the first entry with the id of a live playlist claims it, tombstones are not claimed.
BySyncId(server, locals) ==
  Resolve([i \in DOMAIN locals |-> Unresolved], [i \in DOMAIN locals |->
    LET id == locals[i].syncId
    IN IF Live(server, id) /\ \A j \in 1 .. i - 1 : locals[j].syncId # id THEN MergePlanEntry("merge", id)
       ELSE IF Dead(server, id) THEN MergePlanEntry("deleted", id)
       ELSE Unresolved])

Unclaimed(server, plan) ==
  {p \in DOMAIN server : Live(server, p) /\ \A i \in DOMAIN plan : plan[i] # MergePlanEntry("merge", p)}

\* Variant: a key that several entries have matches all of them.
MatchAny(server, plan, localKey, serverKey) ==
  LET free == Unclaimed(server, plan)
      having(k) == {p \in free : serverKey[p] = k}
  IN Resolve(plan, [i \in DOMAIN plan |->
       IF localKey[i] # Open /\ Cardinality(having(localKey[i])) = 1
       THEN MergePlanEntry("merge", CHOOSE p \in having(localKey[i]) : TRUE)
       ELSE Unresolved])

\* Passes 3 and 4: a key that exactly one open entry and one unclaimed playlist have.
MatchOneToOne(server, plan, localKey, serverKey) ==
  LET free == Unclaimed(server, plan)
      asking(k) == {i \in DOMAIN plan : plan[i] = Unresolved /\ localKey[i] = k}
      having(k) == {p \in free : serverKey[p] = k}
  IN Resolve(plan, [i \in DOMAIN plan |->
       IF localKey[i] # Open /\ asking(localKey[i]) = {i} /\ Cardinality(having(localKey[i])) = 1
       THEN MergePlanEntry("merge", CHOOSE p \in having(localKey[i]) : TRUE)
       ELSE Unresolved])

\* A random id that nobody has, one per entry.
FreshId(i) == <<i>>

\* Pass 5.
Creates(server, locals, plan) ==
  Resolve(plan, [i \in DOMAIN plan |->
    LET id == locals[i].syncId
    IN MergePlanEntry("create", IF id # Open /\ ~Known(server, id) THEN id ELSE FreshId(i))])

ComputeMergePlan(server, locals) ==
  LET rows == {p \in DOMAIN server : server[p].row}
      one == BySyncId(server, locals)
      two == MatchOneToOne(server, one, [i \in DOMAIN locals |-> locals[i].browse],
                           [p \in rows |-> server[p].browse])
      three == MatchOneToOne(server, two, [i \in DOMAIN locals |-> Norm[locals[i].name]],
                             [p \in rows |-> Norm[server[p].name]])
  IN Creates(server, locals, three)
=============================================================================
