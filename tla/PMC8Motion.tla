----------------------------- MODULE PMC8Motion -----------------------------
(***************************************************************************)
(* PMC8 motion and rate commands (src/libindi/drivers/telescope/           *)
(* pmc8driver.cpp): start_pmc8_motion, stop_pmc8_motion, abort_pmc8,       *)
(* set_pmc8_track_mode and stop_pmc8_tracking_motion, built on the         *)
(* per-axis exchanges ESSd (direction), ESSr (move rate), ESTr (RA precise *)
(* track rate) and ESGr (read rate).                                       *)
(*                                                                         *)
(* The controller keeps, per axis, one direction register and one move     *)
(* rate register, and for the RA axis a precise track rate register; ESSd  *)
(* on the RA axis sets the direction that both the RA move and the RA      *)
(* track rate use.  ESGr is taken to report an axis's move rate, or a      *)
(* slewing speed while a goto runs.  Rates are in milli-arcseconds per     *)
(* second for track rates and arcseconds per second for move rates (every *)
(* move rate the driver sends is whole); the float products of the       *)
(* conversions are modelled exactly.                                     *)
(***************************************************************************)
EXTENDS Integers

CONSTANTS
    Modes,      \* track modes set_pmc8_track_mode is called with
    CustomRates, \* RA rates (mas/s) set_pmc8_custom_ra_track_rate is called with
    MoveRates,  \* rates (arcsec/s) the custom move-rate setters are called with
    Garbled,    \* model value: a register written from a malformed frame
    Faults,     \* exchanges that may fail: subset of {"dir", "rate", "track"}
    Unknown     \* model value: the driver has no acknowledged setting

Axes == {"ra", "dec"}
Directions == {"N", "S", "W", "E"}      \* PMC8_DIRECTION
SpeedIndexes == 0..3                    \* the jog speed switch

PMC8_MAX_PRECISE_MOTOR_RATE == 2641
PMC8_MAX_MOVE_MOTOR_RATE    == 3840
PMC8_MINSLEWRATE            == 55

\* The C cast (int)(a / b) of a quotient, b > 0: truncation toward 0.
Trunc(a, b) == IF a >= 0 THEN a \div b ELSE -((-a) \div b)

Clamp(v, m) == IF v > m THEN m ELSE IF v < -m THEN -m ELSE v

\* convert_movespeedindex_to_rate: 4, 16, 64 or 256 times 15 arcsec/s.
convert_movespeedindex_to_rate(mode) == [i \in SpeedIndexes |-> (4 ^ (i + 1)) * 15][mode]

\* Mutant: the move rate without its clamp.
MoveRateUnclamped(r) == Trunc(r * 32, 9)

\* convert_move_rate_to_motor: rate * 4608000 / 1296000, truncated, clamped.
convert_move_rate_to_motor(r) ==
    Clamp(Trunc(r * 32, 9), PMC8_MAX_MOVE_MOTOR_RATE)

\* convert_precise_rate_to_motor: 25 * rate * 4608000 / 1296000, truncated,
\* clamped.
convert_precise_rate_to_motor(mas) ==
    Clamp(Trunc(mas * 800, 9000), PMC8_MAX_PRECISE_MOTOR_RATE)

\* The ESTr frame is "ESTr", the motor rate printed with %04X, and "!".
\* %04X prints a negative int as its eight-digit two's complement; a
\* non-negative rate is at most 2641 = 0xA51 and takes four digits.
ESTrFrameLen(v) == 5 + (IF v < 0 THEN 8 ELSE 4)

\* set_pmc8_track_mode: the switch's rates (the switch has no default).
TrackModeRate == [sidereal |-> 15000, lunar |-> 14453, solar |-> 15041]

\* The axis a jog direction moves, and the sign start_pmc8_motion gives it.
AxisOf(d) == IF d \in {"N", "S"} THEN "dec" ELSE "ra"
SignOf(d) == IF d \in {"N", "W"} THEN 1 ELSE -1

VARIABLES
    dir,            \* controller: direction register per axis (ESSd)
    rate,           \* controller: move rate register per axis (ESSr)
    trackReg,       \* controller: RA precise track rate register (ESTr)
    goto,           \* controller: a goto set by ESPt is running
    belief,         \* per axis, the direction and move rate the driver last
                    \* reported as set, or Unknown
    trackBelief     \* the track rate the driver last reported as set, or Unknown

vars == <<dir, rate, trackReg, goto, belief, trackBelief>>

Setting == [dir : {0, 1}, rate : 0..PMC8_MAX_MOVE_MOTOR_RATE]

TypeOK ==
    /\ dir \in [Axes -> {0, 1}]
    /\ rate \in [Axes -> 0..PMC8_MAX_MOVE_MOTOR_RATE]
    /\ trackReg \in 0..PMC8_MAX_PRECISE_MOTOR_RATE \cup {Garbled}
    /\ goto \in BOOLEAN
    /\ belief \in [Axes -> Setting \cup {Unknown}]
    /\ trackBelief \in -PMC8_MAX_PRECISE_MOTOR_RATE..PMC8_MAX_PRECISE_MOTOR_RATE \cup {Unknown}

Init ==
    /\ dir = [a \in Axes |-> 1]
    /\ rate = [a \in Axes |-> 0]
    /\ trackReg = 0
    /\ goto = FALSE
    /\ belief = [a \in Axes |-> Unknown]
    /\ trackBelief = Unknown

\* Outcome of one exchange: "ok" (applied, reply of the expected length),
\* "lost" (applied, the reply timed out or was short) or "rejected" (the
\* write failed).
Outcomes(kind) == IF kind \in Faults THEN {"ok", "lost", "rejected"} ELSE {"ok"}
Applied(o) == o \in {"ok", "lost"}

\* Mutant: a zero rate sent with direction 0, as a negative one is.
AxisMoveRateZeroReversed(a, r, od, or) ==
    [dir  |-> IF Applied(od) THEN (IF r <= 0 THEN 0 ELSE 1) ELSE dir[a],
     rate |-> IF od = "ok" /\ Applied(or)
                 THEN convert_move_rate_to_motor(IF r < 0 THEN -r ELSE r)
                 ELSE rate[a],
     ok   |-> od = "ok" /\ or = "ok"]

\* set_pmc8_axis_move_rate(a, r) behind set_pmc8_custom_{ra,dec}_move_rate:
\* ESSd (0 for a negative rate, else 1), returning on failure, then ESSr
\* with the motor rate of |r|.  The new registers of axis a and the result.
AxisMoveRate(a, r, od, or) ==
    [dir  |-> IF Applied(od) THEN (IF r < 0 THEN 0 ELSE 1) ELSE dir[a],
     rate |-> IF od = "ok" /\ Applied(or)
                 THEN convert_move_rate_to_motor(IF r < 0 THEN -r ELSE r)
                 ELSE rate[a],
     ok   |-> od = "ok" /\ or = "ok"]

\* The axis setting a move rate r asks for: direction 0 for a negative
\* rate, else 1, and the motor rate of |r|.
RequestedSetting(r) ==
    [dir  |-> IF r < 0 THEN 0 ELSE 1,
     rate |-> convert_move_rate_to_motor(IF r < 0 THEN -r ELSE r)]

\* get_pmc8_tracking_rate_axis(a): ESGr<a>! and a 10-byte reply whose six
\* hex digits after the fifth byte are the axis's current rate in move
\* motor units: the move register, or during a goto the slew speed, taken
\* to be the largest move rate.  A failed or short read returns false,
\* which get_pmc8_is_scope_slewing passes on before comparing.
get_pmc8_tracking_rate_axis(a) ==
    IF goto THEN PMC8_MAX_MOVE_MOTOR_RATE ELSE rate[a]

\* get_pmc8_is_scope_slewing: ESGr on both axes, slewing if either reports
\* more than PMC8_MINSLEWRATE.
IsSlewing == \E a \in Axes : get_pmc8_tracking_rate_axis(a) > PMC8_MINSLEWRATE

\* start_pmc8_motion(d, mode): refused while slewing (a failed ESGr also
\* returns false; neither changes anything); otherwise the speed for the
\* index, clamped, is sent to the axis of d with the sign of d.  The result
\* of set_pmc8_custom_*_move_rate is discarded and true returned.
start_pmc8_motion(d, mode) ==
    /\ ~IsSlewing
    /\ \E od \in Outcomes("dir"), or \in Outcomes("rate") :
        LET a   == AxisOf(d)
            r   == SignOf(d) * Clamp(convert_movespeedindex_to_rate(mode),
                                     PMC8_MAX_MOVE_MOTOR_RATE)
            new == AxisMoveRate(a, r, od, or)
        IN  /\ dir' = [dir EXCEPT ![a] = new.dir]
            /\ rate' = [rate EXCEPT ![a] = new.rate]
            /\ belief' = [belief EXCEPT ![a] = RequestedSetting(r)]
    /\ UNCHANGED <<trackReg, goto, trackBelief>>

\* Mutant: N/S stop the RA axis and W/E the Dec axis.
StopMotionSwappedAxes(d) ==
    /\ \E od \in Outcomes("dir"), or \in Outcomes("rate") :
        LET a   == IF AxisOf(d) = "ra" THEN "dec" ELSE "ra"
            new == AxisMoveRate(a, 0, od, or)
        IN  /\ dir' = [dir EXCEPT ![a] = new.dir]
            /\ rate' = [rate EXCEPT ![a] = new.rate]
            /\ belief' = [belief EXCEPT ![AxisOf(d)] =
                             IF new.ok THEN [dir |-> 1, rate |-> 0] ELSE Unknown]
    /\ UNCHANGED <<trackReg, goto, trackBelief>>

\* set_pmc8_custom_ra_move_rate / set_pmc8_custom_dec_move_rate(r): a rate
\* above PMC8_MAX_MOVE_MOTOR_RATE in magnitude is refused before anything
\* is sent (not a step); otherwise set_pmc8_axis_move_rate on the axis,
\* whose result is returned.  The driver then holds the setting asked for,
\* or none after a failure.
set_pmc8_custom_move_rate(a, r) ==
    /\ -PMC8_MAX_MOVE_MOTOR_RATE <= r /\ r <= PMC8_MAX_MOVE_MOTOR_RATE
    /\ \E od \in Outcomes("dir"), or \in Outcomes("rate") :
        LET new == AxisMoveRate(a, r, od, or) IN
        /\ dir' = [dir EXCEPT ![a] = new.dir]
        /\ rate' = [rate EXCEPT ![a] = new.rate]
        /\ belief' = [belief EXCEPT ![a] =
                          IF new.ok THEN RequestedSetting(r) ELSE Unknown]
    /\ UNCHANGED <<trackReg, goto, trackBelief>>

\* stop_pmc8_motion(d): the custom move rate 0 on the axis of d.
stop_pmc8_motion(d) == set_pmc8_custom_move_rate(AxisOf(d), 0)

\* abort_pmc8: move rate 0 on RA, returning false on failure, then on Dec.
abort_pmc8 ==
    /\ \E ro, rr, dd, dr \in {"ok", "lost", "rejected"} :
        /\ {ro, dd} \subseteq Outcomes("dir") /\ {rr, dr} \subseteq Outcomes("rate")
        /\ LET ra  == AxisMoveRate("ra", 0, ro, rr)
               de  == IF ra.ok THEN AxisMoveRate("dec", 0, dd, dr)
                      ELSE [dir |-> dir["dec"], rate |-> rate["dec"], ok |-> FALSE]
               ok  == ra.ok /\ de.ok
           IN  /\ dir' = [dir EXCEPT !["ra"] = ra.dir, !["dec"] = de.dir]
               /\ rate' = [rate EXCEPT !["ra"] = ra.rate, !["dec"] = de.rate]
               /\ belief' = [a \in Axes |-> IF ok THEN [dir |-> 1, rate |-> 0]
                                                 ELSE Unknown]
    /\ UNCHANGED <<trackReg, goto, trackBelief>>

\* Mutant: the custom track rate setter that takes the reply to ESSd alone
\* as its result, whatever became of ESTr.
TrackRateIgnoringESTr(mas) ==
    /\ \E ot \in Outcomes("track"), od \in Outcomes("dir") :
        /\ trackReg' = IF Applied(ot) THEN convert_precise_rate_to_motor(mas)
                                      ELSE trackReg
        /\ dir' = IF Applied(od) THEN [dir EXCEPT !["ra"] = 1] ELSE dir
        /\ trackBelief' = IF od = "ok" THEN convert_precise_rate_to_motor(mas)
                                       ELSE Unknown
    /\ UNCHANGED <<rate, goto, belief>>

\* What the controller's RA track register becomes after an ESTr frame:
\* the rate of a well-formed frame; an oversized one is either ignored or
\* read as some other value.
ESTrApplied(v) ==
    IF ESTrFrameLen(v) = 9 THEN {v} ELSE {trackReg, Garbled}

\* Mutant: the custom track rate setter without the 9-byte reply check.
TrackRateNoLengthCheck(mas) ==
    LET v == convert_precise_rate_to_motor(mas) IN
    /\ \E ot \in Outcomes("track"), od \in Outcomes("dir") :
        /\ trackReg' \in IF Applied(ot) THEN ESTrApplied(v) ELSE {trackReg}
        /\ dir' = IF ot = "ok" /\ Applied(od) THEN [dir EXCEPT !["ra"] = 1] ELSE dir
        /\ trackBelief' = IF ot = "ok" /\ od = "ok" THEN v ELSE Unknown
    /\ UNCHANGED <<rate, goto, belief>>

\* set_pmc8_custom_ra_track_rate(mas): ESTr with the precise motor rate; it
\* reads strlen(cmd) bytes back and returns false on a failed write, a
\* failed read, or a reply that is not 9 bytes (every oversized frame);
\* then ESSd on the RA axis with direction 1, whose result is the
\* function's.
set_pmc8_custom_ra_track_rate(mas) ==
    LET v    == convert_precise_rate_to_motor(mas)
        nine == ESTrFrameLen(v) = 9
    IN
    /\ \E ot \in Outcomes("track"), od \in Outcomes("dir") :
        /\ trackReg' \in IF Applied(ot) THEN ESTrApplied(v) ELSE {trackReg}
        /\ dir' = IF ot = "ok" /\ nine /\ Applied(od) THEN [dir EXCEPT !["ra"] = 1]
                                                      ELSE dir
        /\ trackBelief' = IF ot = "ok" /\ nine /\ od = "ok" THEN v ELSE Unknown
    /\ UNCHANGED <<rate, goto, belief>>

\* set_pmc8_track_mode(m): the rate of the mode, then the custom setter.
set_pmc8_track_mode(m) == set_pmc8_custom_ra_track_rate(TrackModeRate[m])

\* stop_pmc8_tracking_motion: the custom setter with rate 0.
stop_pmc8_tracking_motion == set_pmc8_custom_ra_track_rate(0)

\* The controller: a goto started by slew_pmc8 (ESPt) runs and ends.  While
\* it runs ESGr reports a slewing speed.
GotoBegin == ~goto /\ goto' = TRUE /\ UNCHANGED <<dir, rate, trackReg, belief, trackBelief>>
GotoEnd   == goto /\ goto' = FALSE /\ UNCHANGED <<dir, rate, trackReg, belief, trackBelief>>

Next ==
    \/ \E d \in Directions, i \in SpeedIndexes : start_pmc8_motion(d, i)
    \/ \E d \in Directions : stop_pmc8_motion(d)
    \/ \E a \in Axes, r \in MoveRates : set_pmc8_custom_move_rate(a, r)
    \/ abort_pmc8
    \/ \E m \in Modes : set_pmc8_track_mode(m)
    \/ stop_pmc8_tracking_motion
    \/ \E r \in CustomRates : set_pmc8_custom_ra_track_rate(r)
    \/ GotoBegin
    \/ GotoEnd

Spec == Init /\ [][Next]_vars

-----------------------------------------------------------------------------
(* Properties.                                                             *)

\* An axis the driver last reported stopped (stop_pmc8_motion or abort_pmc8
\* returned true) has a zero move rate register, whatever jogs, stops and
\* lost replies on either axis came before.
AxisStoppedAsReported ==
    \A a \in Axes : belief[a] # Unknown /\ belief[a].rate = 0 => rate[a] = 0

\* A track rate the driver last reported as set (set_pmc8_track_mode or
\* stop_pmc8_tracking_motion returned true) is the controller's track rate.
TrackAsReported == trackBelief # Unknown => trackReg = trackBelief

\* Once the driver reports the RA axis stopped, the RA direction register is
\* forward again, so sidereal tracking is not left running backwards by an
\* East jog.
RATrackForward ==
    belief["ra"] # Unknown /\ belief["ra"].rate = 0 => dir["ra"] = 1

\* Every axis setting the driver last reported (a jog start, a stop or an
\* abort) is the one the controller holds: the direction and move rate.
MotionAsReported ==
    \A a \in Axes : belief[a] # Unknown =>
        /\ dir[a] = belief[a].dir
        /\ rate[a] = belief[a].rate
=============================================================================
