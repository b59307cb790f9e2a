------------------------------- MODULE MCHistory -------------------------------
(* A small instance of History: one play in the history and one out of it, baselines, clears and forgets. *)
EXTENDS History

CONSTANTS v, w, all

MCVideos == {v, w}
Play(id, video, at, history, playtime) ==
  [kind |-> "add", id |-> id, video |-> video, at |-> at, ms |-> 1, history |-> history, playtime |-> playtime]
Heard == Play(1, v, 0, TRUE, TRUE)
Unheard == Play(2, v, 2, FALSE, TRUE)
Seen == Play(3, w, 2, TRUE, FALSE)
AddUp == [kind |-> "baseline", at |-> 1, mode |-> "add", entries |-> [x \in {v, w} |-> 1]]
AtLeast == [kind |-> "baseline", at |-> 2, mode |-> "atLeast", entries |-> [x \in {v} |-> 2]]
ClearAll == [kind |-> "clear", at |-> 1]
ClearEarly == [kind |-> "clear", at |-> 0]
Hide == [kind |-> "forget", video |-> v, at |-> 1, reset |-> TRUE]
Unpick == [kind |-> "forget", video |-> v, at |-> 2, reset |-> FALSE]

MCPools ==
  {{Heard, Unheard, Seen, ClearAll}, {Heard, Seen, ClearAll, Unpick}, {Heard, Unheard, AddUp, Hide},
   {Heard, Seen, AddUp, AtLeast}, {AtLeast, Hide, Unpick, ClearAll, ClearEarly}, {Heard, Seen, ClearAll, Hide}}
=============================================================================
