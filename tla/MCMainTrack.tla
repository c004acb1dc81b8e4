---------------------------- MODULE MCMainTrack -----------------------------
(***************************************************************************)
(* Commands for MainTrack.                                                 *)
(***************************************************************************)
EXTENDS MainTrack

\* Coil 501 is pulsed by its linear address and by its port, 502 is set and reset;
\* the others are refused.
TypedAccs == {<<247, 1>>, <<62, 2, 1>>, <<62, 3, 0, 0>>, <<62, 3, 0, 1>>,
              <<512 + 62, 2, 1>>, <<62, 4, 1>>, <<62, 2, 2>>, <<62, 3, 0, 2>>}
=============================================================================
