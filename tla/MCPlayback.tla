------------------------------ MODULE MCPlayback ------------------------------
(* Small instances of Playback. *)
EXTENDS Playback

CONSTANTS a, b

Body(session, queue, index, playing, from) ==
  [session |-> session, version |-> 0, queue |-> queue, index |-> index, playing |-> playing,
   far |-> FALSE, handoff |-> from]

\* A first state, its pause, a takeover, the device's next session.
MCInputs ==
  {Body(1, 1, 0, TRUE, Nothing), Body(1, 0, 0, FALSE, Nothing),
   Body(2, 1, 0, TRUE, [device |-> a, session |-> 1])}

\* A clock that is behind and one that is ahead.
MCAts == {1, 2}
=============================================================================
