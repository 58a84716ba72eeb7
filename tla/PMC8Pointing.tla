---------------------------- MODULE PMC8Pointing ----------------------------
(***************************************************************************)
(* The PMC8 coordinate engine and position commands                        *)
(* (src/libindi/drivers/telescope/pmc8driver.cpp): slew_pmc8, sync_pmc8,   *)
(* set_pmc8_radec and park_pmc8 turn a sky position into two axis counts   *)
(* and write them, RA axis first, with ESPt (target) or ESSp (position);    *)
(* get_pmc8_coords reads both axes with ESGp and converts them back.        *)
(*                                                                         *)
(* Units are exact integers: RA and sidereal time in seconds of time, Dec  *)
(* in arcseconds.  A count is 24 h / 4608000 = 3/160 s on the RA axis and   *)
(* 360 deg / 4608000 = 9/32 arcsec on the Dec axis, so the decoded RA is   *)
(* kept in 1/160 s and the decoded Dec in 1/32 arcsec.  The double->int     *)
(* casts of the encoders truncate toward zero; double rounding inside the  *)
(* products is not modelled.  The controller keeps each axis as a 24-bit   *)
(* register, written and read through the codec of PMC8Codec.              *)
(***************************************************************************)
EXTENDS Integers

CONSTANTS
    LSTs,       \* local sidereal times, seconds of time in 0..86399
    RAs,        \* right ascensions a caller may ask for, seconds of time
    Decs,       \* declinations a caller may ask for, arcseconds
    Ops,        \* entry points in use: subset of {"slew","sync","radec","park"}
    Faults,     \* exchanges that may fail: subset of {"target","position"}
    None        \* model value: no goal

Axes == {"ra", "dec"}
Sky  == [ra : RAs, dec : Decs]

Wire == INSTANCE PMC8Codec WITH Counts <- {0}, NoCount <- None,
                                target <- None, axisReg <- 0, readBack <- None

\* A count as the controller stores it: the six hex digits that
\* convert_motor_counts_to_hex sends, which run codec_roundtrip shows to be
\* the 24-bit two's complement of every count these conversions produce.
ToReg(c)   == Wire!TwosComplement24(c)
\* A register as get_pmc8_position decodes it: convert_axispos_to_motor.
FromReg(r) == Wire!convert_axispos_to_motor(r)

\* The C cast (int)(a / b) of a double quotient, b > 0: truncation toward 0.
Trunc(a, b) == IF a >= 0 THEN a \div b ELSE -((-a) \div b)

\* lst - ra limited to (-12 h, +12 h] by one correction, as the code does.
HourAngle(lst, ra) ==
    LET ha == lst - ra
    IN  IF ha > 43200 THEN ha - 86400 ELSE IF ha <= -43200 THEN ha + 86400 ELSE ha

destSideOfPier(lst, ra) == IF HourAngle(lst, ra) < 0 THEN "WEST" ELSE "EAST"

\* Mutant: the 6 h offsets of the two pier sides exchanged.
RaToMotorSwappedSides(lst, ra, sop) ==
    LET ha    == HourAngle(lst, ra)
        motor == IF sop = "EAST" THEN ha + 21600 ELSE ha - 21600
    IN  Trunc(motor * 160, 3)

\* convert_ra_to_motor: motor angle = hour angle -/+ 6 h by pier side,
\* counts = motor_angle * 4608000 / 24 h, i.e. seconds * 160 / 3.
convert_ra_to_motor(lst, ra, sop) ==
    LET ha    == HourAngle(lst, ra)
        motor == IF sop = "EAST" THEN ha - 21600 ELSE ha + 21600
    IN  Trunc(motor * 160, 3)

\* convert_dec_to_motor: motor angle = dec - 90 (EAST) or 90 - dec (WEST),
\* counts = angle / 360 * 4608000, i.e. arcseconds * 32 / 9.
convert_dec_to_motor(dec, sop) ==
    LET angle == IF sop = "EAST" THEN dec - 324000 ELSE 324000 - dec
    IN  Trunc(angle * 32, 9)

\* Mutant: the Dec decoder without its negative-angle branch.
MotorToRadecOneBranch(lst, racounts, deccounts) ==
    LET hour160 == IF deccounts < 0 THEN 3 * racounts + 3456000
                                    ELSE 3 * racounts - 3456000
        ra0     == 160 * lst - hour160
    IN  [ra160 |-> IF ra0 >= 13824000 THEN ra0 - 13824000
                   ELSE IF ra0 < 0 THEN ra0 + 13824000 ELSE ra0,
         dec32 |-> 10368000 - 9 * deccounts]

\* convert_motor_to_radec: the pier side is read back from the sign of the
\* Dec counts; RA = lst - hour angle limited to [0, 24 h) by one correction;
\* Dec = 90 -/+ the Dec motor angle.  Results in 1/160 s and 1/32 arcsec.
convert_motor_to_radec(lst, racounts, deccounts) ==
    LET hour160 == IF deccounts < 0 THEN 3 * racounts + 3456000
                                    ELSE 3 * racounts - 3456000
        ra0     == 160 * lst - hour160
        angle32 == 9 * deccounts
    IN  [ra160 |-> IF ra0 >= 13824000 THEN ra0 - 13824000
                   ELSE IF ra0 < 0 THEN ra0 + 13824000 ELSE ra0,
         dec32 |-> IF angle32 >= 0 THEN 10368000 - angle32 ELSE 10368000 + angle32]

VARIABLES
    lst,        \* local sidereal time; fixed during a behaviour
    tgt,        \* the controller's target register per axis (ESPt)
    pos,        \* the controller's position register per axis (ESSp, ESGp)
    goal,       \* sky position of the last fully acknowledged command, or None
    reading     \* RA/Dec returned by get_pmc8_coords in this step, else None

vars == <<lst, tgt, pos, goal, reading>>

Home == [a \in Axes |-> 0]

TypeOK ==
    /\ lst \in LSTs
    /\ tgt \in [Axes -> 0..16777215]
    /\ pos \in [Axes -> 0..16777215]
    /\ goal \in Sky \cup {None}
    /\ reading \in [ra160 : 0..13823999, dec32 : Int] \cup {None}

Init ==
    /\ lst \in LSTs
    /\ tgt = Home
    /\ pos = Home
    /\ goal = None
    /\ reading = None

\* Outcome of one axis exchange: "ok" (applied and echoed), "lost" (applied,
\* the echo read timed out) or "rejected" (the write failed).
Outcomes(kind) == IF kind \in Faults THEN {"ok", "lost", "rejected"} ELSE {"ok"}
Applied(o) == o \in {"ok", "lost"}

\* A two-axis write (set_pmc8_target_position, set_pmc8_position): the RA
\* axis first; a failed RA exchange returns before the Dec axis is sent.
WriteAxes(reg, rc, dc, ro, do) ==
    [a \in Axes |->
        IF a = "ra" THEN IF Applied(ro) THEN ToReg(rc) ELSE reg["ra"]
        ELSE IF ro = "ok" /\ Applied(do) THEN ToReg(dc) ELSE reg["dec"]]

\* Mutant: success taken from the RA exchange alone.
AckedRAOnly(ro, do) == ro = "ok"

\* Both axes echoed: the command returns true.
Acked(ro, do) == ro = "ok" /\ do = "ok"

\* slew_pmc8: pier side, both conversions, then set_pmc8_target_position.
Slew(s) ==
    /\ "slew" \in Ops
    /\ \E ro, do \in Outcomes("target") :
        LET sop == destSideOfPier(lst, s.ra)
        IN  /\ tgt' = WriteAxes(tgt, convert_ra_to_motor(lst, s.ra, sop),
                                convert_dec_to_motor(s.dec, sop), ro, do)
            /\ goal' = IF Acked(ro, do) THEN s ELSE None
    /\ reading' = None
    /\ UNCHANGED <<lst, pos>>

\* Mutant: the counts written to the position registers unencoded.
SyncRawCounts(s) ==
    /\ "sync" \in Ops
    /\ \E ro, do \in Outcomes("position") :
        LET sop == destSideOfPier(lst, s.ra)
            rc  == convert_ra_to_motor(lst, s.ra, sop)
            dc  == convert_dec_to_motor(s.dec, sop)
            raw == [a \in Axes |-> IF a = "ra" THEN rc ELSE dc]
        IN  /\ pos' = raw
            /\ tgt' = raw
            /\ goal' = IF Acked(ro, do) THEN s ELSE None
    /\ reading' = None
    /\ UNCHANGED lst

\* sync_pmc8: pier side, both conversions, then set_pmc8_position.  The
\* controller is taken to hold still at a synced position: an axis whose
\* position register is written keeps its target equal to it.
Sync(s) ==
    /\ "sync" \in Ops
    /\ \E ro, do \in Outcomes("position") :
        LET sop == destSideOfPier(lst, s.ra)
            rc  == convert_ra_to_motor(lst, s.ra, sop)
            dc  == convert_dec_to_motor(s.dec, sop)
        IN  /\ pos' = WriteAxes(pos, rc, dc, ro, do)
            /\ tgt' = WriteAxes(tgt, rc, dc, ro, do)
            /\ goal' = IF Acked(ro, do) THEN s ELSE None
    /\ reading' = None
    /\ UNCHANGED lst

\* set_pmc8_radec: as slew_pmc8, but the Dec counts are computed from the
\* RA argument (convert_dec_to_motor(ra, ...)): RA in hours read as degrees,
\* which is the RA's value in seconds read as arcseconds.
SetRaDec(s) ==
    /\ "radec" \in Ops
    /\ \E ro, do \in Outcomes("target") :
        LET sop == destSideOfPier(lst, s.ra)
        IN  /\ tgt' = WriteAxes(tgt, convert_ra_to_motor(lst, s.ra, sop),
                                convert_dec_to_motor(s.ra, sop), ro, do)
            /\ goal' = IF Acked(ro, do) THEN s ELSE None
    /\ reading' = None
    /\ UNCHANGED <<lst, pos>>

\* park_pmc8: set_pmc8_target_position(fd, 0, 0).
Park ==
    /\ "park" \in Ops
    /\ \E ro, do \in Outcomes("target") :
        /\ tgt' = WriteAxes(tgt, 0, 0, ro, do)
        /\ goal' = None
    /\ reading' = None
    /\ UNCHANGED <<lst, pos>>

\* The controller: an axis reaches its target register.
MountMove(a) ==
    /\ pos[a] # tgt[a]
    /\ pos' = [pos EXCEPT ![a] = tgt[a]]
    /\ reading' = None
    /\ UNCHANGED <<lst, tgt, goal>>

\* get_pmc8_coords: get_pmc8_position reads both registers (a failed read
\* returns before anything is written), sign-extends them, and
\* convert_motor_to_radec turns them into RA/Dec.
GetCoords ==
    /\ reading' = convert_motor_to_radec(lst, FromReg(pos["ra"]), FromReg(pos["dec"]))
    /\ UNCHANGED <<lst, tgt, pos, goal>>

Next ==
    \/ \E s \in Sky : Slew(s) \/ Sync(s) \/ SetRaDec(s)
    \/ Park
    \/ \E a \in Axes : MountMove(a)
    \/ GetCoords

Spec == Init /\ [][Next]_vars

-----------------------------------------------------------------------------
(* Properties.  "Within 1 arcsec" of RA is 1/15 s of time.                 *)

RAClose(v, s) ==
    LET d == (v.ra160 - 160 * s.ra) % 13824000
    IN  15 * (IF d <= 6912000 THEN d ELSE 13824000 - d) <= 160

DecClose(v, s) == -32 <= v.dec32 - 32 * s.dec /\ v.dec32 - 32 * s.dec <= 32

\* Once the axes rest on the targets of the last acknowledged slew or sync,
\* get_pmc8_coords returns that position's RA within 1 arcsec: the pier side
\* chosen by destSideOfPier is recovered from the sign of the Dec counts.
RARoundTrip ==
    [][GetCoords /\ goal # None /\ pos = tgt => RAClose(reading', goal)]_vars

\* Likewise for Dec: convert_motor_to_radec undoes convert_dec_to_motor on
\* both pier sides.
DecRoundTrip ==
    [][GetCoords /\ goal # None /\ pos = tgt => DecClose(reading', goal)]_vars

\* At time t the target pair p points, within 1 arcsec, at sky position r.
Points(t, p, r) ==
    LET v == convert_motor_to_radec(t, FromReg(p["ra"]), FromReg(p["dec"]))
    IN  RAClose(v, r) /\ DecClose(v, r)

Aim == INSTANCE PMC8Aim WITH clock <- lst, aim <- tgt, reported <- goal,
                             Home <- Home, Requests <- Sky, None <- None,
                             Points <- Points

\* Whenever slew_pmc8 or sync_pmc8 last returned true, the controller's
\* target pair points at the position it was called with, whatever failed,
\* partly applied or unacknowledged two-axis writes (RA target set, Dec
\* write failed or its echo lost) came before: the driver reports a
\* position only after both axes have echoed it.
AimRefinement == Aim!Spec
=============================================================================
