----------------------------- MODULE PMC8Codec -----------------------------
(***************************************************************************)
(* The 24-bit position field of the PMC8 wire protocol                     *)
(* (src/libindi/drivers/telescope/pmc8driver.cpp), on one axis.            *)
(*                                                                         *)
(* The driver sends a target count in ESPt<axis><6 hex>! , formatted by    *)
(* convert_motor_counts_to_hex; the controller keeps a 24-bit register;    *)
(* ESGp<axis>! returns the register as 6 hex digits, which the driver      *)
(* parses with strtol and sign-extends with convert_axispos_to_motor.      *)
(*                                                                         *)
(* A hex string is the sequence of its digit values, most significant     *)
(* first; letter case is formatting and not modelled.  The 32-bit          *)
(* unsigned arithmetic of the encoder is done on 8-digit sequences, so     *)
(* that no value beyond 2^31 is ever formed.                               *)
(***************************************************************************)
EXTENDS Integers, Sequences, SequencesExt

CONSTANTS
    Counts,     \* motor counts the coordinate engine may hand to the codec
    NoCount     \* no count sent or read yet

ASSUME NoCount \notin Int
ASSUME Counts \subseteq -2147483647..2147483647   \* int, bar INT_MIN (abs is undefined there)

\* The n least significant hex digits of v >= 0, as "%0nX" prints them.
RECURSIVE HexDigits(_, _)
HexDigits(v, n) ==
    IF n = 0 THEN <<>> ELSE HexDigits(v \div 16, n - 1) \o <<v % 16>>

\* ~tmp on a 32-bit unsigned: every bit, hence every hex digit, inverted.
Complement(ds) == [i \in DOMAIN ds |-> 15 - ds[i]]

\* tmp++ on a fixed-width unsigned; the carry out of the top digit is lost.
RECURSIVE Increment(_)
Increment(ds) ==
    IF ds = <<>> THEN <<>>
    ELSE IF Last(ds) = 15 THEN Increment(Front(ds)) \o <<0>>
    ELSE Front(ds) \o <<Last(ds) + 1>>

\* Mutant: the encoder without the tmp++ of the two's complement.
EncodeWithoutIncrement(val) ==
    LET h == IF val < 0 THEN Complement(HexDigits(-val, 8)) ELSE HexDigits(val, 8)
    IN  SubSeq(h, 3, 8)

\* convert_motor_counts_to_hex: negatives as ~abs(val)+1 in 32 bits,
\* sprintf "%08X", then the string from its third character.
convert_motor_counts_to_hex(val) ==
    LET h == IF val < 0 THEN Increment(Complement(HexDigits(-val, 8)))
                        ELSE HexDigits(val, 8)
    IN  SubSeq(h, 3, 8)

\* strtol("0X" + digits, NULL, 0).
HexValue(ds) == FoldLeft(LAMBDA acc, d : 16 * acc + d, 0, ds)

\* Mutant: sign extension against 2^24 - 1 instead of 2^24.
AxisposOffByOne(axispos) ==
    IF axispos > 8388608 THEN 0 - (16777215 - axispos) ELSE axispos

\* convert_axispos_to_motor: sign extension of the 24-bit register.
convert_axispos_to_motor(axispos) ==
    IF axispos > 8388608 THEN 0 - (16777216 - axispos) ELSE axispos

VARIABLES
    target,     \* count last sent with ESPt, or NoCount
    axisReg,    \* the controller's 24-bit position register
    readBack    \* count decoded from the last ESGp reply, or NoCount

vars == <<target, axisReg, readBack>>

TypeOK ==
    /\ target \in Counts \cup {NoCount}
    /\ axisReg \in 0..(2^24 - 1)
    /\ readBack \in Int \cup {NoCount}

Init ==
    /\ target = NoCount
    /\ axisReg = 0
    /\ readBack = NoCount

\* Mutant: a command built from the "%08X" string after one character.
SetTargetSevenDigits(point) ==
    LET h == IF point < 0 THEN Increment(Complement(HexDigits(-point, 8)))
                          ELSE HexDigits(point, 8)
    IN  /\ target' = point
        /\ axisReg' = HexValue(SubSeq(h, 2, 8))
        /\ readBack' = NoCount

\* set_pmc8_target_position_axis with the echo accepted, and the axis
\* reaching the target: the register holds the 6 digits that were sent.
SetTarget(point) ==
    /\ target' = point
    /\ axisReg' = HexValue(convert_motor_counts_to_hex(point))
    /\ readBack' = NoCount

\* get_pmc8_position_axis and convert_axispos_to_motor: the 12-byte reply
\* carries the register as 6 hex digits at offset 5.
GetPosition ==
    /\ readBack' = convert_axispos_to_motor(HexValue(HexDigits(axisReg, 6)))
    /\ UNCHANGED <<target, axisReg>>

Next ==
    \/ \E point \in Counts : SetTarget(point)
    \/ GetPosition

Spec == Init /\ [][Next]_vars

-----------------------------------------------------------------------------
(* Properties.                                                             *)

\* The reference meaning of the 6-digit field: 24-bit two's complement.
TwosComplement24(x) == x % 16777216

\* The frame carries six digits, and the register they set holds the 24-bit
\* two's complement of the count last sent by convert_motor_counts_to_hex.
EncodingIsTwosComplement ==
    target # NoCount =>
        /\ Len(convert_motor_counts_to_hex(target)) = 6
        /\ axisReg = TwosComplement24(target)

\* A position read after a target was reached decodes, through strtol and
\* convert_axispos_to_motor, to exactly the count that was sent.
PositionRoundTrip ==
    target # NoCount /\ readBack # NoCount => readBack = target
=============================================================================
