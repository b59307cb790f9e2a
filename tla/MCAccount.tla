------------------------------- MODULE MCAccount -------------------------------
(* A small instance of Account. *)
EXTENDS Account, TLC

CONSTANTS login, word, mine, other, third

MCLogins == {login}
MCWords == {word}
MCHwids == {mine, other, third}
MCModes == {"first"}
MCOverlaps == BOOLEAN
MachinesAlike == Permutations(MCHwids)
=============================================================================
