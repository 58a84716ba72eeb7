------------------------------ MODULE MC_PMC8Motion ------------------------------
(***************************************************************************)
(* Model values for PMC8Motion.  The custom RA rates are the arcsec/s of   *)
(* SetTrackRate times 1000: twice sidereal, which the driver               *)
(* clamps to the controller's largest precise rate, and a reversed         *)
(* sidereal rate, whose motor value is negative.                           *)
(***************************************************************************)
EXTENDS PMC8Motion

MC_CustomRates == {30000, -15000}

\* Move rates in arcsec/s: an East/South jog at 64x sidereal, and one just
\* over the setters' limit, which they refuse.
MC_MoveRates == {-960, 3841}
=============================================================================
