--------------------------- MODULE MC_PMC8Codec ---------------------------
(* Counts for PMC8Codec: the edges of the 24-bit range and of each hex    *)
(* digit, and an even spread across the signed range.                     *)
EXTENDS PMC8Codec

Edges == {0, 1, -1, 15, 16, -15, -16, 255, 256, -256, -257, 65535, 65536, -65536,
          8388607, -8388607, 8388606, -8388606, 4194304, -4194304}

Spread == {k * 139809 : k \in -59..59}

\* The signed range the spec gives the field, bar its lowest value.
MC_CountsInterior == Edges \cup Spread

\* The full range [-2^23, 2^23 - 1] of the spec.
MC_CountsFull == MC_CountsInterior \cup {-8388608}
=============================================================================
