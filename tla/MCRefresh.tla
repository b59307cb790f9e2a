------------------------------ MODULE MCRefresh ------------------------------
(* Small instances of Refresh: a PostgreSQL server with late requests, one restored from a dump with and without *)
(* them, and a SQLite server that restores its own copies. *)
EXTENDS Refresh, TLC

CONSTANTS s1, s2
TwoSlots == {s1, s2}
MCDeployments ==
  {[overlap |-> TRUE, late |-> TRUE, restores |-> FALSE, tokens |-> 3, time |-> 3, copied |-> 0],
   [overlap |-> TRUE, late |-> TRUE, restores |-> TRUE, tokens |-> 4, time |-> 1, copied |-> 0],
   [overlap |-> TRUE, late |-> FALSE, restores |-> TRUE, tokens |-> 4, time |-> 3, copied |-> 0],
   [overlap |-> FALSE, late |-> FALSE, restores |-> TRUE, tokens |-> 4, time |-> 3, copied |-> 3]}
Alike == Permutations(TwoSlots)
=============================================================================
