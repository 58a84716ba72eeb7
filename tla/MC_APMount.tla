---------------------------- MODULE MC_APMount ----------------------------
(* Model-checking instance of APMount: two positions (the power-up         *)
(* placeholder and the park position differ), two guide rates, and the     *)
(* :V# replies of real controllers of each class: "E" (GTOCP2), "G" and    *)
(* "V1" (GTOCP3 letters), "T" (status query) and a CP4's "VCP4-P01-01".    *)
EXTENDS APMount, TLC

CONSTANTS rate0, rate1

MC_GuideRates == {rate0, rate1}

Letter(c) == [vcp4 |-> FALSE, len |-> 1, first |-> c]
CP4Reply == [vcp4 |-> TRUE, len |-> 11, first |-> "V"]
TwoLetter(c) == [vcp4 |-> FALSE, len |-> 2, first |-> c]

\* Controllers per run.
FwAll == {Letter("E"), Letter("G"), Letter("T"), TwoLetter("V"), CP4Reply}
FwE == {Letter("E")}
FwT == {Letter("T")}

\* A failed :V# read whose buffer holds no recognisable reply (an empty
\* string): getFirmwareVersion keeps the previous value.
NoiseEmpty == {[vcp4 |-> FALSE, len |-> 0, first |-> "A"]}

\* ... or a stray letter past 'V', which decodes beyond MCV_UNKNOWN.
NoiseStray == NoiseEmpty \cup {Letter("Z")}

\* The guide rates are interchangeable labels.
MC_Symmetry == Permutations(MC_GuideRates)
=============================================================================
