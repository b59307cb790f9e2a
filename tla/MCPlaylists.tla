----------------------------- MODULE MCPlaylists -----------------------------
(* Small instances of Playlists. *)
EXTENDS Playlists

CONSTANTS made, copy, copy2, name, other, recovered, browse

MCChain == [k \in {made, copy, copy2} |-> IF k = made THEN <<copy, copy2>> ELSE IF k = copy THEN <<copy2>> ELSE <<>>]
MCRecoveryName == [n \in {name, other, recovered} |-> recovered]
\* The two names differ only in case.
MCNorm == [n \in {name, other, recovered} |-> IF n = other THEN name ELSE n]

Local(id, n, b) == [syncId |-> id, name |-> n, browse |-> b]
MCRequests ==
  {<<Local(made, name, Open), Local(Open, other, Open)>>,
   <<Local(Open, name, browse), Local(copy, recovered, Open), Local(made, other, Open)>>,
   <<Local(Open, recovered, Open), Local(copy2, name, browse), Local(Open, name, Open)>>,
   <<Local(Open, name, Open), Local(Open, other, Open)>>,
   <<Local(made, name, Open), Local(made, recovered, Open)>>}

O(kind, list, ids, after, before) ==
  [kind |-> kind, list |-> list, name |-> name,
   browse |-> IF list = made THEN browse ELSE Open, ids |-> ids, after |-> after, before |-> before]

\* Edits that meet: inserts at one place until the keys are used up, a mirror, a merge, a deletion.
MCOps ==
  {O("create", made, <<1, 2>>, Open, Open),
   [O("update", made, <<>>, Open, Open) EXCEPT !.name = other],
   O("delete", made, <<>>, Open, Open), O("delete", copy, <<>>, Open, Open),
   O("add", made, <<3>>, 1, Open), O("add", made, <<3, 1>>, Open, 2),
   O("remove", made, <<1>>, Open, Open),
   O("move", made, <<2>>, 1, Open), O("move", made, <<1>>, Open, 3),
   O("replace", made, <<3, 2>>, Open, Open),
   O("import", made, <<1, 3>>, Open, Open)}

MCDevices == {1, 2}
MCVideos == {1, 2, 3}
MCTimes == {1, 2}
MCNames == {name, other, recovered}
MCBrowses == {browse}
MCSmallest == -4
MCLists == {made, copy, copy2}
=============================================================================
