----------------------------- MODULE MCSyncPull -----------------------------
(* Instances of SyncPull: rows are pairs <<table, number>>. *)
EXTENDS SyncPull

CONSTANTS likes, tracks, plays
MCTable == {likes, tracks, plays}
MCLibrary == {likes, tracks}
MCKey == {<<likes, 1>>, <<likes, 2>>, <<plays, 1>>}
MCPair == {<<likes, 1>>, <<plays, 1>>}
MCRemovable == {k \in Key : k[1] = plays}
MCTableOf == [k \in Key |-> k[1]]
BothStreams == {{"library", "history"}}
AnyStreams == {{"library"}, {"history"}, {"library", "history"}}
=============================================================================
