------------------------------ MODULE MCLinking ------------------------------
(* Small instances of Linking. *)
EXTENDS Linking

CONSTANTS u1, u2, a1, a2, n1, n2, p1, p2

OneAccount == [x \in Approvers |-> u1]
TwoAccounts == [x \in Approvers |-> IF x = a1 THEN u1 ELSE u2]
OneNewcomer == [x \in Polls |-> n1]
=============================================================================
