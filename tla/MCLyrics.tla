------------------------------- MODULE MCLyrics -------------------------------
(* Small instances of Lyrics. *)
EXTENDS Lyrics, TLC

CONSTANTS d1, d2, v1, v2, v3, t1, none

OneDevice == {d1}
TwoDevices == {d1, d2}
TwoVideos == {v1, v2}
ThreeVideos == {v1, v2, v3}
OneText == {t1}
MCNoText == none

Symmetry == Permutations(Video)
=============================================================================
