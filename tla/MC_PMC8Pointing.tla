-------------------------- MODULE MC_PMC8Pointing --------------------------
(* Inputs for PMC8Pointing: every branch of the hour-angle limit and of   *)
(* the decoder's RA correction is reached.                                 *)
(*   LST 10 h: hour angles +10 h, 0 (the EAST tie), -1 s (WEST), and      *)
(*     -12 h, which the encoder's "<= -12" branch moves to +12 h.         *)
(*   LST 22 h: +22 h and +18 h, which the "> 12" branch moves to -2 h and *)
(*     -6 h (the decoder then finds RA 24 h and 28 h and corrects them);  *)
(*     and exactly +12 h, which is kept.                                   *)
(*   LST 0 h: -1 s, -10 h and -22 h (moved to +2 h); the decoder corrects  *)
(*     the negative RAs.                                                   *)
(* Declinations cover both hemispheres, values that truncate, and the     *)
(* poles.                                                                  *)
EXTENDS PMC8Pointing

MC_LSTs == {0, 36000, 79200}
MC_RAs  == {0, 1, 14400, 36000, 36001, 79200}

\* Declinations off the north pole.
MC_Decs     == {162001, -162000, -324000}
\* With the north pole.
MC_DecsPole == MC_Decs \cup {324000}
=============================================================================
