------------------------------ MODULE MCLiveHub ------------------------------
(* Small instances of LiveHub. *)
EXTENDS LiveHub, TLC

CONSTANTS d1, d2
TwoDevices == {d1, d2}
DeviceSymmetry == Permutations(TwoDevices)
=============================================================================
