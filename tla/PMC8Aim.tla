------------------------------- MODULE PMC8Aim -------------------------------
(***************************************************************************)
(* What the PMC8 position commands promise the caller, abstractly.  The    *)
(* controller holds a pair of axis targets; the driver reports, after each *)
(* command, the sky position it set, or nothing.  A command that reports a *)
(* position has, in one step, aimed the pair at it; a park reports nothing *)
(* and aims home; a command that fails reports nothing and promises        *)
(* nothing about the pair.  So whenever a position is reported, the pair   *)
(* points at it, however many failed or partly applied commands came       *)
(* before.                                                                 *)
(***************************************************************************)
CONSTANTS
    Home,           \* the axis targets at power-on, also the park pair
    Requests,       \* the sky positions a caller may ask for
    None,           \* no position reported
    Points(_, _, _) \* Points(t, p, r): at time t, target pair p points at r

VARIABLES
    clock,          \* local sidereal time, fixed during a behaviour
    aim,            \* the pair of axis targets
    reported        \* the position the last command reported as set, or None

Init == aim = Home /\ reported = None

\* A command reports r: the pair now points at r.
Aimed(r) == reported' = r /\ Points(clock, aim', r)

\* A command fails (or parks): nothing is reported.
Unreported == reported' = None

Next ==
    /\ \/ Unreported
       \/ \E r \in Requests : Aimed(r)
    /\ UNCHANGED clock

Spec == Init /\ [][Next]_<<clock, aim, reported>>
=============================================================================
