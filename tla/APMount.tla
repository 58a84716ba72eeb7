------------------------------ MODULE APMount ------------------------------
(***************************************************************************)
(* The Astro-Physics driver (src/libindi/drivers/telescope/lx200ap.cpp)    *)
(* together with the mount it drives.                                      *)
(*                                                                         *)
(* Driver state: the scope state machine (TrackState), the EqNP busy flag  *)
(* that decides whether a Goto pre-empts a running slew, the last sampled  *)
(* RA/Dec and Az/Alt used for stasis detection, the session flags that     *)
(* gate initMount, and the GTOCP2 guide-rate workaround flag.              *)
(*                                                                         *)
(* Mount state (the environment): its RA/Dec and Az/Alt position, the slew *)
(* it is executing, whether it tracks, and its active guide rate.          *)
(*                                                                         *)
(* Positions are labels from 0..N-1: the properties only compare samples   *)
(* with each other and with targets.  A sample taken while an axis moves   *)
(* (slewing, or drifting because tracking holds the other frame) is the    *)
(* value Moving: two samples of a moving axis never compare equal.         *)
(*                                                                         *)
(* The poll timer (ReadScopeStatus) is one step of the model; between two  *)
(* polls a commanded slew may still not have started at most once (the     *)
(* mount answers '0' to :MS# before it moves), after that it moves until   *)
(* it arrives.                                                             *)
(***************************************************************************)
EXTENDS Naturals

CONSTANTS
    N,          \* number of distinguishable positions
    Zero,       \* the position whose RA/Dec reads RA=0, Dec=0 or 90
    ParkPos,    \* persisted park Az/Alt (GetAxis1Park, GetAxis2Park)
    GuideRates, \* APGuideSpeedS: the selectable guide rates
    Firmwares,  \* :V# replies of the controllers the mount may have
    NoiseReplies, \* what versionString may hold after a failed :V# read
    Faults      \* call sites whose serial exchange may fail

Pos == 0..(N - 1)
Moving == N             \* sample of an axis in motion
Sites == {"version", "read", "kapark", "init", "track", "guide", "resend", "goto", "sync"}

-----------------------------------------------------------------------------
(* Controller versions (lx200ap.h).  ControllerVersion lists MCV_E .. MCV_V *)
(* in letter order, K included as MCV_K_UNUSED, then MCV_UNKNOWN; a value   *)
(* is its ordinal.  A :V# reply is abstracted to what getFirmwareVersion    *)
(* reads of it: whether it contains "VCP4", its length and its first        *)
(* character (an upper-case letter).                                        *)
MCVLetters == <<"E", "F", "G", "H", "I", "J", "K", "L", "M",
                "N", "O", "P", "Q", "R", "S", "T", "U", "V">>
MCV_E == 0
MCV_G == 2
MCV_T == 15
MCV_V == 17
MCV_UNKNOWN == 18
Alphabet == <<"A", "B", "C", "D", "E", "F", "G", "H", "I", "J", "K", "L", "M",
              "N", "O", "P", "Q", "R", "S", "T", "U", "V", "W", "X", "Y", "Z">>
Ord(c) == 64 + CHOOSE i \in 1..26 : Alphabet[i] = c      \* ASCII code
Replies == [vcp4 : BOOLEAN, len : 0..11, first : {Alphabet[i] : i \in 1..26}]

\* Reference: the controller that sends reply r, as the enum names it; a
\* CP4 sends "VCP4-..." and reports as MCV_V, older ones send one or two
\* characters starting with their letter.
RealReply(r) ==
    \/ r.vcp4
    \/ r.len \in {1, 2} /\ r.first \in {MCVLetters[i] : i \in 1..18} /\ r.first # "K"
Controller(r) == IF r.vcp4 THEN MCV_V ELSE (CHOOSE i \in 1..18 : MCVLetters[i] = r.first) - 1

\* Mutant: the letter offset taken from 'D' instead of 'E'.
getFirmwareVersionFromD(r, prev) ==
    CASE r.vcp4 -> MCV_V
      [] r.len \in {1, 2} /\ Ord(r.first) - Ord("D") >= 0 -> Ord(r.first) - Ord("D")
      [] OTHER -> prev

\* getFirmwareVersion(): "VCP4" anywhere gives MCV_V; a one- or two-character
\* reply gives typeIndex = first - 'E' when it is not negative, with no upper
\* bound; anything else leaves firmwareVersion as it was.
getFirmwareVersion(r, prev) ==
    LET typeIndex == Ord(r.first) - Ord("E") IN
    CASE r.vcp4 -> MCV_V
      [] r.len \in {1, 2} /\ typeIndex >= 0 -> typeIndex
      [] OTHER -> prev

\* The capability tests on firmwareVersion: SendPulseCmd (== MCV_E) and
\* getMountStatus (!= MCV_UNKNOWN && >= MCV_T).
IsGTOCP2(v) == v = MCV_E
HasStatusQuery(v) == v # MCV_UNKNOWN /\ v >= MCV_T

ASSUME /\ N >= 2 /\ Zero \in Pos /\ ParkPos \in Pos
       /\ Firmwares \subseteq {r \in Replies : RealReply(r)}
       /\ NoiseReplies \subseteq Replies /\ NoiseReplies # {}
       /\ Faults \subseteq Sites
       /\ "motion" \notin GuideRates

States == {"IDLE", "SLEWING", "TRACKING", "PARKING", "PARKED"}
NoGoal == [kind |-> "none", to |-> Zero]
Goals == {NoGoal} \cup [kind : {"eq", "hz"}, to : Pos]
Phases == {"rest", "cmd", "late", "moving"}

VARIABLES
    \* the mount
    mountEq, mountHz,   \* RA/Dec and Az/Alt position while the frame is held
    mountGoal,          \* the slew being executed
    mountPhase,         \* rest | cmd (accepted) | late (not started at one poll) | moving
    mountTracking,      \* tracking mode is not :RT9#
    mountGuide,         \* active guide rate; "motion" after a motion on GTOCP2
    mountFw,            \* the controller's :V# reply, fixed
    \* the driver
    connected,
    firmwareVersion,
    TrackState,
    EqNPBusy,           \* EqNP.s == IPS_BUSY
    lastRA,             \* lastRA/lastDE
    lastAZ,             \* lastAZ/lastAL
    timeUpdated, locationUpdated, mountInitialized,
    motionCommanded,
    APGuideSpeed,       \* selected switch of APGuideSpeedSP
    IsParked,           \* park state persisted by the host between sessions
    \* history variables, read only by properties
    guideSet, jogged, initRan

mount == <<mountEq, mountHz, mountGoal, mountPhase, mountTracking, mountGuide, mountFw>>
driver == <<connected, firmwareVersion, TrackState, EqNPBusy, lastRA, lastAZ,
            timeUpdated, locationUpdated, mountInitialized, motionCommanded,
            APGuideSpeed, IsParked>>
ghosts == <<guideSet, jogged, initRan>>
vars == <<mount, driver, ghosts>>

Outcome(site) == IF site \in Faults THEN BOOLEAN ELSE {TRUE}

\* What getLX200RA/DEC and getLX200Az/Alt return in the current state.
EqReading == IF mountPhase = "moving" \/ ~mountTracking THEN Moving ELSE mountEq
HzReading == IF mountPhase = "moving" \/ mountTracking THEN Moving ELSE mountHz

\* Mutant: a stasis test that also accepts two samples of a moving axis.
SettledAnySample(sample, last) == sample = last

\* dx == 0 && dy == 0 between this sample and the previous one.
Settled(sample, last) == sample = last /\ sample # Moving

TypeOK ==
    /\ mountEq \in Pos /\ mountHz \in Pos
    /\ mountGoal \in Goals /\ mountPhase \in Phases
    /\ (mountGoal = NoGoal) = (mountPhase = "rest")
    /\ mountTracking \in BOOLEAN
    /\ mountGuide \in GuideRates \cup {"motion"}
    /\ mountFw \in Firmwares
    /\ connected \in BOOLEAN
    /\ firmwareVersion \in 0..(Ord("Z") - Ord("E"))
    /\ TrackState \in States /\ EqNPBusy \in BOOLEAN
    /\ lastRA \in Pos \cup {Moving} /\ lastAZ \in Pos \cup {Moving}
    /\ {timeUpdated, locationUpdated, mountInitialized, motionCommanded, IsParked}
           \subseteq BOOLEAN
    /\ APGuideSpeed \in GuideRates
    /\ {guideSet, jogged, initRan} \subseteq BOOLEAN

Init ==
    /\ mountEq \in Pos /\ mountHz \in Pos
    /\ mountGoal = NoGoal /\ mountPhase = "rest"
    /\ mountTracking \in BOOLEAN
    /\ mountGuide \in GuideRates
    /\ mountFw \in Firmwares
    /\ connected = FALSE
    /\ firmwareVersion = MCV_UNKNOWN
    /\ TrackState = "IDLE" /\ EqNPBusy = FALSE
    /\ lastRA = Zero /\ lastAZ = Zero
    /\ timeUpdated = FALSE /\ locationUpdated = FALSE /\ mountInitialized = FALSE
    /\ motionCommanded = FALSE
    /\ APGuideSpeed \in GuideRates
    /\ IsParked = FALSE
    /\ guideSet = FALSE
    /\ jogged = FALSE /\ initRan = FALSE


-----------------------------------------------------------------------------
(* Mount-side effects of wire commands.                                    *)

\* The firmware may hold an Az/Alt target or resume tracking once there.
TrackingAfterArrival(kind) ==
    IF kind = "hz" THEN {FALSE, mountTracking} ELSE {mountTracking}

\* :MS# after :Sr/:Sd (kind "eq") or after :Sz/:Sa (kind "hz"), issued to a
\* mount whose position and phase are given.  A mount at rest on the target
\* is there at once; a moving mount takes the new target.
IssueSlew(eq, hz, phase, kind, to) ==
    IF phase # "moving" /\ (IF kind = "eq" THEN eq ELSE hz) = to
    THEN /\ mountEq' = IF kind = "eq" THEN to ELSE eq
         /\ mountHz' = IF kind = "hz" THEN to ELSE hz
         /\ mountGoal' = NoGoal /\ mountPhase' = "rest"
         /\ mountTracking' \in TrackingAfterArrival(kind)
    ELSE /\ mountEq' = eq /\ mountHz' = hz
         /\ mountGoal' = [kind |-> kind, to |-> to]
         /\ mountPhase' = IF phase = "moving" THEN "moving" ELSE "cmd"
         /\ UNCHANGED mountTracking

\* Mutant: :Q# that leaves the mount's motion phase as it was.
StopMountKeepsPhase ==
    /\ IF mountPhase = "moving"
       THEN mountEq' \in Pos /\ mountHz' \in Pos
       ELSE UNCHANGED <<mountEq, mountHz>>
    /\ mountGoal' = NoGoal /\ UNCHANGED mountPhase

\* :Q#: a moving mount stops wherever it is; tracking is not affected.
StopMount ==
    /\ IF mountPhase = "moving"
       THEN mountEq' \in Pos /\ mountHz' \in Pos
       ELSE UNCHANGED <<mountEq, mountHz>>
    /\ mountGoal' = NoGoal /\ mountPhase' = "rest"

\* GTOCP2 firmware resets its guide rate to that of the last motion.
MotionResetsGuide ==
    mountGuide' = IF IsGTOCP2(Controller(mountFw)) THEN "motion" ELSE mountGuide

\* The mount reaches its target between two polls.
MountArrive ==
    /\ mountPhase # "rest"
    /\ mountEq' = IF mountGoal.kind = "eq" THEN mountGoal.to ELSE mountEq
    /\ mountHz' = IF mountGoal.kind = "hz" THEN mountGoal.to ELSE mountHz
    /\ mountGoal' = NoGoal /\ mountPhase' = "rest"
    /\ mountTracking' \in TrackingAfterArrival(mountGoal.kind)
    /\ UNCHANGED <<mountGuide, mountFw, driver, ghosts>>

-----------------------------------------------------------------------------
(* Driver operations.                                                      *)

\* INDI::Telescope::NewRaDec: EqNP.s follows TrackState.
NewRaDec(state) == EqNPBusy' = (state \in {"SLEWING", "PARKING"})

\* SetTrackEnabled(on): :RT<mode># or :RT9#.
SetTrackEnabled(on) ==
    \E ok \in Outcome("track") : mountTracking' = IF ok THEN on ELSE mountTracking

\* UnPark(): SetTrackEnabled(true) (its result is ignored), SetParked(false).
UnParkEffects ==
    /\ SetTrackEnabled(TRUE)
    /\ TrackState' = "TRACKING"
    /\ IsParked' = FALSE

\* IsMountParked(): getMountStatus's status query when firmwareVersion says T
\* or later (only a T or later controller answers it), else
\* two RA samples 250 ms apart that must agree.  A build where abs() is the
\* integer overload accepts any pair less than an hour apart, so a moving
\* mount may give either answer.
ParkQueryOutcome ==
    IF (HasStatusQuery(firmwareVersion) /\ HasStatusQuery(Controller(mountFw)))
       \/ EqReading # Moving THEN Outcome("init") ELSE BOOLEAN

InitVars == <<mountEq, mountHz, mountGoal, mountPhase, mountTracking,
              mountInitialized, TrackState, IsParked, initRan>>

\* IsMountInitialized(): an RA reading of 0 with a Dec of 0 or 90 means
\* the controller has not been initialized (the read failure is initMount's
\* readOk).  Only a mount at rest reads its position.
IsMountInitialized == ~(mountEq = Zero /\ mountPhase = "rest")

\* initMount(): IsMountInitialized() stores its verdict in mountInitialized
\* before IsMountParked() runs; a mount resting on RA=0/Dec=0|90 gets :PO#
\* and :Q# (which leave a mount at rest where it is); then
\* mountInitialized = true and UnPark().  The move and slew
\* rate selects that follow change no modelled state.
InitMount ==
    LET uninit == ~IsMountInitialized IN
    \E readOk \in Outcome("init"), parkOk \in ParkQueryOutcome, poOk \in Outcome("init") :
        IF ~readOk THEN UNCHANGED InitVars
        ELSE IF ~parkOk \/ (uninit /\ ~poOk)
        THEN /\ mountInitialized' = ~uninit
             /\ UNCHANGED <<mountEq, mountHz, mountGoal, mountPhase, mountTracking,
                            TrackState, IsParked, initRan>>
        ELSE /\ UNCHANGED <<mountEq, mountHz, mountGoal, mountPhase>>
             /\ mountInitialized' = TRUE
             /\ initRan' = TRUE
             /\ UnParkEffects

\* Handshake(): the buffer clear and the backlash setting (sent twice if
\* need be) and the :V# read of getFirmwareVersion(); a failure of the
\* first two or of checkLX200Format fails the connection, which is then
\* not a step.  A failed :V# read leaves versionString as it was.
Handshake ==
    \E ok \in Outcome("version") :
    \E reply \in IF ok THEN {mountFw} ELSE NoiseReplies :
        firmwareVersion' = getFirmwareVersion(reply, firmwareVersion)

\* Connect: Handshake() (a failed handshake changes nothing) reads :V# into
\* versionString, which is uninitialized and left so when the read fails
\* (getAPVersionNumber's result is ignored): getFirmwareVersion then parses
\* whatever the buffer held.  Handshake ignores its result.  Then
\* updateProperties():
\* InitPark restores the persisted
\* park state.  The location it reloads from the host config is sent with
\* updateLocation(), which is the action of that name.
Connect ==
    /\ ~connected
    /\ connected' = TRUE
    /\ Handshake
    /\ TrackState' = IF IsParked THEN "PARKED" ELSE "IDLE"
    /\ EqNPBusy' = FALSE
    /\ guideSet' = FALSE
    /\ UNCHANGED <<mount, lastRA, lastAZ, timeUpdated, locationUpdated, mountInitialized,
                   motionCommanded, APGuideSpeed, IsParked, jogged, initRan>>

\* Disconnect(): clears timeUpdated and mountInitialized; the reset of
\* locationUpdated is commented out in the source.
Disconnect ==
    /\ connected
    /\ connected' = FALSE
    /\ timeUpdated' = FALSE
    /\ mountInitialized' = FALSE
    /\ guideSet' = FALSE /\ initRan' = FALSE
    /\ UNCHANGED <<mount, firmwareVersion, TrackState, EqNPBusy, lastRA, lastAZ,
                   locationUpdated, motionCommanded, APGuideSpeed, IsParked,
                   jogged>>

\* updateTime(): set local time, date and UTC offset (a failure returns
\* before timeUpdated is set and changes nothing), then initMount once the
\* location is known.
updateTime ==
    /\ connected
    /\ timeUpdated' = TRUE
    /\ IF locationUpdated /\ ~mountInitialized THEN InitMount ELSE UNCHANGED InitVars
    /\ UNCHANGED <<mountGuide, mountFw, connected, firmwareVersion, EqNPBusy, lastRA,
                   lastAZ, locationUpdated, motionCommanded, APGuideSpeed,
                   guideSet, jogged>>

\* updateLocation(): send 360-longitude and latitude, then initMount once
\* the time is known.
updateLocation ==
    /\ connected
    /\ locationUpdated' = TRUE
    /\ IF timeUpdated /\ ~mountInitialized THEN InitMount ELSE UNCHANGED InitVars
    /\ UNCHANGED <<mountGuide, mountFw, connected, firmwareVersion, EqNPBusy, lastRA,
                   lastAZ, timeUpdated, motionCommanded, APGuideSpeed, guideSet,
                   jogged>>

\* Mutant: Goto that does not reset lastRA to the target.
GotoKeepsLastRA(t) ==
    /\ connected /\ TrackState # "PARKED"
    /\ \E sendOk \in Outcome("goto"), p, q \in Pos :
        LET aborts == EqNPBusy
            stops  == aborts /\ mountPhase = "moving"
            eq     == IF stops THEN p ELSE mountEq
            hz     == IF stops THEN q ELSE mountHz
            phase  == IF aborts THEN "rest" ELSE mountPhase
            goal   == IF aborts THEN NoGoal ELSE mountGoal
        IN
        \/ /\ ~sendOk
           /\ mountEq' = eq /\ mountHz' = hz /\ mountGoal' = goal /\ mountPhase' = phase
           /\ EqNPBusy' = FALSE
           /\ UNCHANGED <<mountTracking, mountGuide, mountFw, connected, firmwareVersion,
                          TrackState, lastRA, lastAZ, timeUpdated, locationUpdated,
                          mountInitialized, motionCommanded, APGuideSpeed, IsParked, ghosts>>
        \/ /\ sendOk
           /\ IssueSlew(eq, hz, phase, "eq", t)
           /\ MotionResetsGuide
           /\ motionCommanded' = TRUE
           /\ TrackState' = "SLEWING" /\ EqNPBusy' = TRUE
           /\ jogged' = FALSE
           /\ UNCHANGED <<mountFw, connected, firmwareVersion, lastRA, lastAZ, timeUpdated,
                          locationUpdated, mountInitialized, APGuideSpeed, IsParked,
                          guideSet, initRan>>

\* Goto(r, d): when EqNP is busy, :Q# first (a failed abort returns with
\* nothing changed, so it is not a step); then :Sr, :Sd and :MS#.  A failed
\* send leaves EqNP in alert.  On success motionCommanded is set, lastRA
\* becomes the target, TrackState SLEWING and EqNP busy.
Goto(t) ==
    /\ connected /\ TrackState # "PARKED"
    /\ \E sendOk \in Outcome("goto"), p, q \in Pos :
        LET aborts == EqNPBusy
            stops  == aborts /\ mountPhase = "moving"
            eq     == IF stops THEN p ELSE mountEq
            hz     == IF stops THEN q ELSE mountHz
            phase  == IF aborts THEN "rest" ELSE mountPhase
            goal   == IF aborts THEN NoGoal ELSE mountGoal
        IN
        \/ /\ ~sendOk
           /\ mountEq' = eq /\ mountHz' = hz /\ mountGoal' = goal /\ mountPhase' = phase
           /\ EqNPBusy' = FALSE
           /\ UNCHANGED <<mountTracking, mountGuide, mountFw, connected, firmwareVersion,
                          TrackState, lastRA, lastAZ, timeUpdated, locationUpdated,
                          mountInitialized, motionCommanded, APGuideSpeed, IsParked, ghosts>>
        \/ /\ sendOk
           /\ IssueSlew(eq, hz, phase, "eq", t)
           /\ MotionResetsGuide
           /\ motionCommanded' = TRUE
           /\ lastRA' = t
           /\ TrackState' = "SLEWING" /\ EqNPBusy' = TRUE
           /\ jogged' = FALSE
           /\ UNCHANGED <<mountFw, connected, firmwareVersion, lastAZ, timeUpdated,
                          locationUpdated, mountInitialized, APGuideSpeed, IsParked,
                          guideSet, initRan>>

\* Sync(r, d): :Sr, :Sd, then :CM# or :CMR#; a failure leaves EqNP in alert.
\* INDI::Telescope accepts a sync only from IDLE or TRACKING.
Sync(t) ==
    /\ connected /\ TrackState \in {"IDLE", "TRACKING"}
    /\ \E ok \in Outcome("sync") :
         mountEq' = IF ok THEN t ELSE mountEq
    /\ EqNPBusy' = FALSE
    /\ UNCHANGED <<mountHz, mountGoal, mountPhase, mountTracking, mountGuide, mountFw,
                   connected, firmwareVersion, TrackState, lastRA, lastAZ, timeUpdated,
                   locationUpdated, mountInitialized, motionCommanded, APGuideSpeed,
                   IsParked, ghosts>>

\* Mutant: Park that does not reset lastAZ to the park position.
ParkKeepsLastAZ ==
    /\ connected /\ TrackState \in {"IDLE", "TRACKING"}
    /\ IssueSlew(mountEq, mountHz, mountPhase, "hz", ParkPos)
    /\ MotionResetsGuide
    /\ motionCommanded' = TRUE
    /\ EqNPBusy' = TRUE
    /\ TrackState' = "PARKING"
    /\ jogged' = FALSE
    /\ UNCHANGED <<mountFw, connected, firmwareVersion, lastRA, lastAZ, timeUpdated,
                   locationUpdated, mountInitialized, APGuideSpeed, IsParked,
                   guideSet, initRan>>

\* Mutant: Park that does not set motionCommanded.
ParkNoMotionFlag ==
    /\ connected /\ TrackState \in {"IDLE", "TRACKING"}
    /\ IssueSlew(mountEq, mountHz, mountPhase, "hz", ParkPos)
    /\ MotionResetsGuide
    /\ lastAZ' = ParkPos
    /\ EqNPBusy' = TRUE
    /\ TrackState' = "PARKING"
    /\ jogged' = FALSE
    /\ UNCHANGED <<mountFw, connected, firmwareVersion, lastRA, motionCommanded, timeUpdated,
                   locationUpdated, mountInitialized, APGuideSpeed, IsParked,
                   guideSet, initRan>>

\* Park(): :Sz, :Sa to the stored park Az/Alt and :MS# (a failure returns
\* with nothing changed); motionCommanded, lastAZ = park position, EqNP busy,
\* TrackState PARKING.  Accepted from IDLE and TRACKING.
Park ==
    /\ connected /\ TrackState \in {"IDLE", "TRACKING"}
    /\ IssueSlew(mountEq, mountHz, mountPhase, "hz", ParkPos)
    /\ MotionResetsGuide
    /\ motionCommanded' = TRUE
    /\ lastAZ' = ParkPos
    /\ EqNPBusy' = TRUE
    /\ TrackState' = "PARKING"
    /\ jogged' = FALSE
    /\ UNCHANGED <<mountFw, connected, firmwareVersion, lastRA, timeUpdated,
                   locationUpdated, mountInitialized, APGuideSpeed, IsParked,
                   guideSet, initRan>>

\* UnPark(): tracking on and SetParked(false); no :PO#.
UnPark ==
    /\ connected /\ TrackState = "PARKED"
    /\ UnParkEffects
    /\ UNCHANGED <<mountEq, mountHz, mountGoal, mountPhase, mountGuide, mountFw,
                   connected, firmwareVersion, EqNPBusy, lastRA, lastAZ, timeUpdated,
                   locationUpdated, mountInitialized, motionCommanded, APGuideSpeed, ghosts>>

\* Abort(): :Q#, then the state machine returns to IDLE and EqNP to idle.
Abort ==
    /\ connected /\ TrackState # "PARKED"
    /\ StopMount
    /\ TrackState' = "IDLE" /\ EqNPBusy' = FALSE
    /\ UNCHANGED <<mountTracking, mountGuide, mountFw, connected, firmwareVersion,
                   lastRA, lastAZ, timeUpdated, locationUpdated, mountInitialized,
                   motionCommanded, APGuideSpeed, IsParked, ghosts>>

\* SetTracking(on) through SetTrackEnabled(); IDLE <-> TRACKING on success.
SetTracking(on) ==
    /\ connected /\ TrackState \in {"IDLE", "TRACKING"}
    /\ \E ok \in Outcome("track") :
         /\ mountTracking' = IF ok THEN on ELSE mountTracking
         /\ TrackState' = IF ok THEN (IF on THEN "TRACKING" ELSE "IDLE") ELSE TrackState
    /\ UNCHANGED <<mountEq, mountHz, mountGoal, mountPhase, mountGuide, mountFw,
                   connected, firmwareVersion, EqNPBusy, lastRA, lastAZ, timeUpdated,
                   locationUpdated, mountInitialized, motionCommanded, APGuideSpeed,
                   IsParked, ghosts>>

\* MoveNS/MoveWE with MOTION_START, then MOTION_STOP: the mount moves by hand
\* rate (abandoning any slew) and halts; motionCommanded is set on start.
Jog ==
    /\ connected /\ TrackState # "PARKED"
    /\ mountEq' \in Pos /\ mountHz' \in Pos
    /\ mountGoal' = NoGoal /\ mountPhase' = "rest"
    /\ MotionResetsGuide
    /\ motionCommanded' = TRUE
    /\ jogged' = TRUE
    /\ UNCHANGED <<mountTracking, mountFw, connected, firmwareVersion, TrackState,
                   EqNPBusy, lastRA, lastAZ, timeUpdated, locationUpdated,
                   mountInitialized, APGuideSpeed, IsParked, guideSet, initRan>>

\* ISNewSwitch(APGuideSpeedSP): IUUpdateSwitch selects the new rate before
\* :RG<n># is sent; a failure returns without restoring the switch.
SelectGuideRate(g) ==
    /\ connected
    /\ APGuideSpeed' = g
    /\ \E ok \in Outcome("guide") :
         /\ mountGuide' = IF ok THEN g ELSE mountGuide
         /\ guideSet' = (guideSet \/ ok)
    /\ UNCHANGED <<mountEq, mountHz, mountGoal, mountPhase, mountTracking, mountFw,
                   connected, firmwareVersion, TrackState, EqNPBusy, lastRA, lastAZ,
                   timeUpdated, locationUpdated, mountInitialized, motionCommanded,
                   IsParked, jogged, initRan>>

\* SendPulseCmd() on firmware E: handleGTOCP2MotionBug() re-sends the
\* selected guide rate, ignoring the result, and clears motionCommanded.
\* The pulse itself moves the mount by less than a position.  On other
\* firmware, or without a pending motion, it changes no modelled state.
PulseGuide ==
    /\ connected /\ IsGTOCP2(firmwareVersion) /\ motionCommanded
    /\ \E ok \in Outcome("resend") :
         /\ mountGuide' = IF ok THEN APGuideSpeed ELSE mountGuide
         /\ guideSet' = (guideSet \/ ok)
    /\ motionCommanded' = FALSE
    /\ UNCHANGED <<mountEq, mountHz, mountGoal, mountPhase, mountTracking, mountFw,
                   connected, firmwareVersion, TrackState, EqNPBusy, lastRA, lastAZ,
                   timeUpdated, locationUpdated, mountInitialized, APGuideSpeed,
                   IsParked, jogged, initRan>>

\* The mount's progress seen by one poll: an accepted slew is moving by the
\* second poll after :MS# at the latest.
NextPhase(ph) ==
    CASE ph = "cmd"  -> {"late", "moving"}
      [] ph = "late" -> {"moving"}
      [] OTHER       -> {ph}

\* Mutant: the SLEWING branch without lastRA = currentRA.
SlewingPollKeepsLastRA(eqR) ==
    /\ TrackState' = IF Settled(eqR, lastRA) THEN "TRACKING" ELSE "SLEWING"
    /\ NewRaDec(TrackState')
    /\ UNCHANGED <<lastRA, lastAZ, mountTracking, IsParked>>

\* ReadScopeStatus, SLEWING: stasis of RA/Dec against the previous sample
\* ends the slew; the sample then replaces lastRA/lastDE.
SlewingPoll(eqR) ==
    /\ TrackState' = IF Settled(eqR, lastRA) THEN "TRACKING" ELSE "SLEWING"
    /\ lastRA' = eqR
    /\ NewRaDec(TrackState')
    /\ UNCHANGED <<lastAZ, mountTracking, IsParked>>

\* Mutant: the PARKING branch without lastAZ = currentAz.
ParkingPollKeepsLastAZ(hzR, kaOk) ==
    IF Settled(hzR, lastAZ) /\ kaOk
    THEN /\ SetTrackEnabled(FALSE)
         /\ TrackState' = "PARKED" /\ IsParked' = TRUE
         /\ NewRaDec("PARKED")
         /\ UNCHANGED <<lastRA, lastAZ>>
    ELSE UNCHANGED <<TrackState, EqNPBusy, lastRA, lastAZ, mountTracking, IsParked>>

\* ReadScopeStatus, PARKING: on Az/Alt stasis :KA# (a failure returns before
\* anything else), SetTrackEnabled(false) (result ignored) and
\* SetParked(true); then the sample replaces lastAZ/lastAL and NewRaDec.
ParkingPoll(hzR, kaOk) ==
    IF Settled(hzR, lastAZ) /\ ~kaOk
    THEN UNCHANGED <<TrackState, EqNPBusy, lastRA, lastAZ, mountTracking, IsParked>>
    ELSE /\ lastAZ' = hzR
         /\ UNCHANGED lastRA
         /\ IF Settled(hzR, lastAZ)
            THEN /\ SetTrackEnabled(FALSE)
                 /\ TrackState' = "PARKED" /\ IsParked' = TRUE
                 /\ NewRaDec("PARKED")
            ELSE /\ NewRaDec("PARKING")
                 /\ UNCHANGED <<TrackState, mountTracking, IsParked>>

\* ReadScopeStatus(), the poll timer, with the outcome of the RA/Dec (and,
\* while PARKING, Az/Alt) reads and of :KA#.  A failed read sets EqNP to
\* alert and returns.  NewRaDec() ends every successful poll.
Poll(readOk, kaOk) ==
    /\ connected
    /\ \E ph \in NextPhase(mountPhase) :
        LET eqR == IF ph = "moving" \/ ~mountTracking THEN Moving ELSE mountEq
            hzR == IF ph = "moving" \/ mountTracking THEN Moving ELSE mountHz
        IN
        /\ mountPhase' = ph
        /\ CASE ~readOk ->
                  /\ EqNPBusy' = FALSE
                  /\ UNCHANGED <<TrackState, lastRA, lastAZ, mountTracking, IsParked>>
             [] TrackState = "SLEWING" -> SlewingPoll(eqR)
             [] TrackState = "PARKING" -> ParkingPoll(hzR, kaOk)
             [] OTHER ->
                  /\ NewRaDec(TrackState)
                  /\ UNCHANGED <<TrackState, lastRA, lastAZ, mountTracking, IsParked>>
    /\ UNCHANGED <<mountEq, mountHz, mountGoal, mountGuide, mountFw, connected,
                   firmwareVersion, timeUpdated, locationUpdated, mountInitialized,
                   motionCommanded, APGuideSpeed, ghosts>>

Tick == \E readOk \in Outcome("read"), kaOk \in Outcome("kapark") : Poll(readOk, kaOk)

\* The operations a client may invoke, in any number and order.
UserAction ==
    \/ Connect \/ Disconnect \/ updateTime \/ updateLocation
    \/ \E t \in Pos : Goto(t) \/ Sync(t)
    \/ Park \/ UnPark \/ Abort \/ Jog
    \/ \E on \in BOOLEAN : SetTracking(on)
    \/ \E g \in GuideRates : SelectGuideRate(g)
    \/ PulseGuide

Next == UserAction \/ Tick \/ MountArrive

Spec == Init /\ [][Next]_vars

\* The poll timer fires while connected, and a poll eventually reads the
\* mount (and sends :KA#) successfully: the serial link does not fail for
\* ever.  A mount executing a slew eventually arrives.  Client operations
\* get no fairness.
FairSpec == Spec /\ WF_vars(Poll(TRUE, TRUE)) /\ WF_vars(MountArrive)

-----------------------------------------------------------------------------
(* Properties.                                                             *)

\* ReadScopeStatus declares a Goto complete (SLEWING -> TRACKING) only when
\* the mount has actually stopped: the stasis test on lastRA never fires on
\* a mount that has not yet started or is still executing the slew.
SlewDoneOnlyWhenStopped ==
    [][Tick /\ TrackState = "SLEWING" /\ TrackState' = "TRACKING"
         => mountGoal' = NoGoal]_vars

\* ReadScopeStatus issues :KA# and declares PARKED only when the mount is at
\* rest, and, unless the user jogged it during the park slew, at the stored
\* park Az/Alt.
ParkDoneOnlyAtPark ==
    [][Tick /\ TrackState = "PARKING" /\ TrackState' = "PARKED"
         => /\ mountGoal' = NoGoal
            /\ (jogged \/ mountHz' = ParkPos)]_vars

\* The guide-rate switch the user sees is the rate the mount uses, once a
\* rate has been sent this session, except on GTOCP2 between a motion and
\* the next pulse (handleGTOCP2MotionBug re-sends it then).
GuideRateTracked ==
    connected /\ guideSet /\ ~(IsGTOCP2(firmwareVersion) /\ motionCommanded)
        => mountGuide = APGuideSpeed

\* Once a :V# reply has been decoded in this session, the driver's two
\* capability tests (the GTOCP2 guide-rate workaround in SendPulseCmd and
\* the park-status query in getMountStatus) give the answers that hold for
\* the controller actually connected, as the ControllerVersion enum names it.
CapabilitiesMatch ==
    connected /\ firmwareVersion # MCV_UNKNOWN =>
        /\ IsGTOCP2(firmwareVersion) = IsGTOCP2(Controller(mountFw))
        /\ HasStatusQuery(firmwareVersion) = HasStatusQuery(Controller(mountFw))

\* mountInitialized is set only once initMount has completed, so that the
\* session has run UnPark() and the mount tracks as the driver believes.
InitFlagMeansInitDone ==
    mountInitialized => initRan

\* Liveness, for behaviours in which the client eventually stops invoking
\* operations (otherwise a new Goto may always restart the slew): while the
\* driver stays connected, ReadScopeStatus ends every slew of a tracking
\* mount, whatever aborts, jogs, failed sends and failed reads came before.
SlewEventuallyEnds ==
    \/ []<><<UserAction>>_vars
    \/ (connected /\ TrackState = "SLEWING" /\ mountTracking)
           ~> (~connected \/ TrackState # "SLEWING")

\* Likewise, ReadScopeStatus ends every park whose mount does not track
\* once at the park Az/Alt: :KA# is sent and the driver reports PARKED.
ParkEventuallyEnds ==
    \/ []<><<UserAction>>_vars
    \/ (connected /\ TrackState = "PARKING" /\ ~mountTracking)
           ~> (~connected \/ TrackState # "PARKING")
=============================================================================
