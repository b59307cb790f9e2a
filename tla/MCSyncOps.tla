----------------------------- MODULE MCSyncOps ------------------------------
(* Instances of SyncOps. *)
EXTENDS SyncOps, TLC

CONSTANTS v1, v2, b1, t1, m1, m2
OneVideo == {v1}
LikesAndOverride == {v1, v2, t1}
LikeAndBookmark == {v1, b1}
OneMeta == {m1}
TwoMetas == {m1, m2}
NoMeta == {}
OneDevice == {1}
TwoDevices == {1, 2}
KindsHere == [r \in Register |-> CASE r \in {v1, v2} -> "like" [] r = b1 -> "bookmark" [] r = t1 -> "override"]
RoomForOne == [kind \in Range(KindsHere) |-> 1]
RoomForAll == [kind \in Range(KindsHere) |-> 9]
Symmetry == Permutations({v1, v2}) \cup Permutations({m1, m2})
=============================================================================
