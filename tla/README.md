# TLA+ models of the Astro-Physics and PMC8 telescope drivers

This directory holds TLA+ models of the mount drivers under `src/`:

- `src/libindi/drivers/telescope/lx200ap.cpp` and `lx200ap.h`: the Astro-Physics (AP) driver.
- `src/libindi/drivers/telescope/pmc8driver.cpp`: the PMC8 wire protocol and coordinate engine.
- `src/libindi/libs/indibase/indistandardproperty.h`: property names only.

It also holds the TLC configurations that check the models, and `PROJECT.json`. That file records:

- the components and which module models each;
- every run and its expected outcome;
- the mutants;
- the source lines each definition models;
- the findings;
- the hazards.

## 1. The system

### 1.1 Parts and how they interact

The INDI host calls the driver on one logical thread. Two kinds of call reach it:

- **Property updates** from clients, such as connect, time, location, goto, park, tracking, jog and guide-rate switches.
- **A periodic timer** that runs `ReadScopeStatus`.

Every operation writes LX200-style or PMC8 frames to a serial port and waits for the reply, under a timeout. The code has no threads. Concurrency comes from elsewhere:

- the host interleaves client requests with the poll timer;
- the mount executes a slew *between* polls, on its own schedule;
- every serial exchange can fail and make its handler return early, leaving part of the state updated.

### 1.2 AP driver (`lx200ap.cpp`)

| Kind | What it is | Where |
|---|---|---|
| State | `TrackState` (IDLE, SLEWING, TRACKING, PARKING, PARKED; kept in `INDI::Telescope`) | base class |
| State | `EqNP.s`, the status light; busy means a slew is running | base class |
| State | `lastRA/lastDE` and `lastAZ/lastAL`, the previous sample for stasis detection | driver |
| State | `timeUpdated`, `locationUpdated`, `mountInitialized`, the initialization gate | driver |
| State | `motionCommanded`, the GTOCP2 workaround flag | driver |
| State | `firmwareVersion`, from `:V#` | driver |
| State | the selected guide-speed switch | driver |
| State | the persisted park flag | host |
| Operation | `Handshake`/`getFirmwareVersion` and `updateProperties` (connect) | |
| Operation | `Disconnect` | |
| Operation | `updateTime`, `updateLocation`, which both open the gate to `initMount` | |
| Operation | `initMount`, using `IsMountInitialized` and `IsMountParked` | |
| Operation | `Goto`, `Sync`, `Park`, `UnPark` | |
| Operation | `SetTrackEnabled`/`SetTrackMode` | |
| Operation | `MoveNS`/`MoveWE` | |
| Operation | the guide-speed switch | |
| Operation | `SendPulseCmd`/`handleGTOCP2MotionBug` | |
| Operation | `ReadScopeStatus`, the poll | |

Slew and park completion is detected by **stasis**. A poll that reads the same RA/Dec as the previous one, or the same Az/Alt while parking, is taken to mean the mount stopped.

### 1.3 PMC8 driver (`pmc8driver.cpp`)

This file is a library of stateless functions. It has four layers:

- **Wire codec:**
  - `ESxx` frames and their expected echoes;
  - 24-bit two's-complement position fields (`convert_motor_counts_to_hex`, `strtol`, `convert_axispos_to_motor`);
  - 4-digit rate fields.
- **Coordinate engine:** `convert_ra_to_motor`, `convert_dec_to_motor`, `convert_motor_to_radec` and `destSideOfPier`.
- **Rate translator:** precise and move rates with clamps, and `set_pmc8_track_mode`.
- **Command layer:** connect, firmware, direction and rate per axis, motion start and stop, slew, park, unpark, abort and sync. Each is a sequence of exchanges on the two axes, and any of them may fail.

About a third of the file is disabled with `#if 0`.

### 1.4 Hard behaviours, and the properties they call for

| Behaviour | Property it calls for |
|---|---|
| Stasis detection against a mount that starts late, is still moving, or drifts because it is not tracking | Completion is declared only for a stopped mount, at the target |
| `Goto` pre-emption keyed on `EqNP.s`, which other paths change | No slew is sent over a running one |
| The initialization gate across sessions and failures | Initialization happens only once time and location are set in the session, and a set flag means it ran |
| The GTOCP2 guide-rate bug: every motion resets the rate, and the driver re-sends it before the next pulse | The switch shows the rate the mount uses |
| Handlers that fail half way (abort done but slew not sent; RA target set but Dec not) | Partial failures leave a consistent state |
| 24-bit field boundaries, clamps, truncations and field widths in the PMC8 codec | Round trip against a reference definition |

## 2. Modules

### `APMount.tla`: the AP driver together with the mount it drives

The mount is the environment. Its state:

- `mountEq` and `mountHz`: the position in each frame, as labels `0..N-1`.
- `mountGoal` and `mountPhase`: the slew being executed, and whether it has been accepted, has not started at the first poll, or is moving.
- `mountTracking`.
- `mountGuide`, which becomes `"motion"` after a motion on GTOCP2.
- `mountFw`, the controller's `:V#` reply, abstracted to what `getFirmwareVersion` reads of it: whether it contains `VCP4`, its length and its first letter.

**Readings.** A reading of an axis that is moving reads as the value `Moving`. This covers a slewing mount, RA while not tracking, and Az/Alt while tracking. Two `Moving` samples never compare equal. This is how the model represents `dx == 0 && dy == 0` failing on a moving axis. The model only compares samples with each other and with targets, so labels suffice.

**Driver variables.** They keep the source names: `TrackState`, `EqNPBusy` (`EqNP.s == IPS_BUSY`), `lastRA`, `lastAZ`, `timeUpdated`, `locationUpdated`, `mountInitialized`, `motionCommanded`, `APGuideSpeed`, `firmwareVersion` and `IsParked`.

**Firmware version.** `firmwareVersion` is the ordinal of `ControllerVersion` (`MCV_E` = 0 … `MCV_V` = 17, `MCV_UNKNOWN` = 18). `getFirmwareVersion` is the code's decoder: `VCP4` gives `MCV_V`; a one- or two-character reply gives `first - 'E'` when that is not negative, with no upper bound; anything else keeps the previous value. `IsGTOCP2` and `HasStatusQuery` are the code's two tests on it (`SendPulseCmd`, `getMountStatus`). `Controller` is the reference: the enum's own letter order, which says which controller sent a real reply. The mount resets its guide rate after a motion only when it is a GTOCP2, and answers the status query only when it is T or later. A failed `:V#` read leaves the uninitialized `versionString` to be parsed, because `getAPVersionNumber`'s result is ignored. The constant `NoiseReplies` is what the buffer may then hold.

**Poll.** `Tick` is `ReadScopeStatus`. It picks the outcome of the read and of `:KA#`, then runs `Poll`. `Poll` uses `SlewingPoll` while SLEWING, which replaces `lastRA` with the sample. While PARKING it uses `ParkingPoll`: on Az/Alt stasis this sends `:KA#` and, if that succeeds, stops tracking (`SetTrackEnabled(FALSE)`) and reports PARKED. `UserAction` is the disjunction of the client's commands.

**History variables.** The properties read three of them:

- `guideSet`, the rate the driver last sent with `:RG#`;
- `jogged`, set by a jog that abandons a running slew;
- `initRan`, set once `initMount` has run `UnPark`.

**Operations.** There is one action per operation, each modelling the whole handler and every exchange it makes:

- `Connect` (with `Handshake`) and `Disconnect`;
- `updateTime` and `updateLocation`, each calling `InitMount`, which uses `IsMountInitialized` (RA 0 with Dec 0 or 90 on a mount at rest);
- `Goto`, `Sync`, `Park`, `UnPark`, `Abort`, `SetTracking`, `Jog`, `SelectGuideRate` and `PulseGuide`;
- `Tick`, which is `ReadScopeStatus`;
- `MountArrive`, the environment action.

**Failures.** Each serial call site whose failure changes what happens is named in `Sites`. The constant `Faults` selects which sites may fail in a run. A failure whose handler returns before changing anything is a stutter and is left out. Examples are `Park`'s sends and the time and location sends.

`INDI::Telescope::NewRaDec`, the abort switch and the per-state operation guards live in the base class, which is not under `src/`. They are modelled from the specification and marked `spec_modelled` in the map.

### `PMC8Codec.tla`: the 24-bit position field of one PMC8 axis

- `convert_motor_counts_to_hex` works on 8-digit hex sequences. It models `~` and `++` on a 32-bit unsigned value digit by digit, so no value beyond 2^31 is ever formed. It then drops two digits, as `strcpy(hex, h+2)` does.
- `strtol` of `"0X"` plus six digits is a fold.
- `convert_axispos_to_motor` is copied literally.
- The actions are `SetTarget`, which sends a count and has the axis reach it, and `GetPosition`, which reads the register back.

### `PMC8Pointing.tla`: the PMC8 coordinate engine and position commands

**Units.** The model is exact integer arithmetic in the units the code's products reduce to:

- RA and LST in seconds of time, Dec in arcseconds;
- RA motor counts `Trunc(motor_s * 160, 3)`, Dec counts `Trunc(angle_arcsec * 32, 9)`, where `Trunc` is C's truncating cast;
- the RA read back in 1/160 s (one day is 13824000), the Dec in 1/32 arcsec.

The double rounding inside the C products is below the 1-arcsec tolerance of the properties and is not modelled.

**Definitions.** `HourAngle` normalises LST − RA to (−12 h, +12 h]. `destSideOfPier`, `convert_ra_to_motor`, `convert_dec_to_motor` and `convert_motor_to_radec` follow the code line by line. The register arithmetic is taken from `PMC8Codec`, through `INSTANCE`: `ToReg` is its 24-bit reference, which `codec_roundtrip` shows the hex encoder equals, and `FromReg` is `convert_axispos_to_motor`.

**State.** The state has three parts:

- the controller's target pair `tgt` and position pair `pos`, as 24-bit registers;
- `lst`, fixed in a behaviour;
- the ghost `goal`, the sky position of the last acknowledged slew, sync or `set_pmc8_radec`, and `reading`, the output of the last `get_pmc8_coords`.

**Actions.** There is one action per operation:

- `Slew`, `Sync`, `SetRaDec`, `Park` and `GetCoords`;
- `MountMove`, by which the controller moves an axis to its target.

Each two-axis write sets RA, then Dec. It returns at the first failure. An exchange is `ok`, `lost` (applied, echo timed out) or `rejected`.

### `PMC8Aim.tla`: what the position commands promise

The abstract specification of what a caller may rely on. The controller holds a target pair `aim`, and the driver `reported` the position its last command set, or `None`. A step either reports a position `r`, and then `aim` points at `r` in the same step, or reports nothing; after a failure the abstract spec promises nothing about `aim`. `PMC8Pointing` instantiates it with `tgt` as `aim` and `goal` as `reported`. `Points(t, p, r)` means "the pair p decodes, at LST t, to within 1 arcsec of r". `AimRefinement` is the property `Aim!Spec`. With target and position faults on, it says that no partly applied or unacknowledged two-axis write is ever reported as success. Its mutant `AckedRAOnly` takes success from the RA echo alone.

### `PMC8Motion.tla`: PMC8 jogs, stops, aborts and track rates

**State.** The controller holds a direction register and a move-rate register per axis (`dir`, `rate`), the RA precise track-rate register (`trackReg`) and whether a goto runs (`goto`). The ghosts `belief` and `trackBelief` hold what the driver last reported as set: a jog start, or a stop or abort that returned true, or a track rate whose setter returned true. A failed command leaves them `Unknown`.

**Definitions.** They keep the source names:

- `convert_movespeedindex_to_rate`, `convert_move_rate_to_motor` and `convert_precise_rate_to_motor`, with their truncations and clamps;
- `AxisMoveRate`, which is `set_pmc8_axis_move_rate`: ESSd, then ESSr only if ESSd succeeded;
- `set_pmc8_custom_move_rate(a, r)`, which is `set_pmc8_custom_ra_move_rate` and `set_pmc8_custom_dec_move_rate`: a rate above 3840 in magnitude is refused before anything is sent; `stop_pmc8_motion` is this setter with rate 0;
- `get_pmc8_tracking_rate_axis` (the ESGr reading) and `IsSlewing`, which is `get_pmc8_is_scope_slewing`;
- `ESTrFrameLen`, the length of the `ESTr%04X!` frame: 9 bytes, or 13 for a negative rate, which `%04X` prints as eight hex digits;
- `start_pmc8_motion`, `abort_pmc8`, `set_pmc8_custom_ra_track_rate`, `set_pmc8_track_mode` and `stop_pmc8_tracking_motion`.

Besides the track modes, `set_pmc8_custom_ra_track_rate` is called on its own with the rates of `SetTrackRate` (`CustomRates`): twice sidereal, which the clamp cuts to 2641, and a reversed sidereal rate. The custom move-rate setters are called with `MoveRates`: a 64x jog East or South, and a rate just over their limit.

`GotoBegin` and `GotoEnd` are the controller running a goto, during which ESGr reports a slewing speed.

**Firmware assumptions.**

- ESSd on the RA axis sets the direction that both the RA move rate and the RA track rate use.
- ESGr reports the axis's move rate. A failed ESGr makes `start_pmc8_motion` return false with no change, a stutter.
- The simulation branch answers ESGr on RA with the track rate in arcsec/s instead. In simulation `get_pmc8_is_scope_slewing` therefore reports slewing whenever tracking is on. The model follows the serial path.
- An oversized ESTr frame may be ignored, or may leave the track register at some other value (`Garbled`). The driver reads 13 bytes back, so the `nbytes_read != 9` test reports failure either way, and it sends no ESSd.

### MC modules

- `MC_APMount` supplies the guide rates as model values and their symmetry. It also supplies the `:V#` replies of real controllers (`E`, `G`, `T`, `V1`, `VCP4-P01-01`) and the noise a failed read leaves: an empty string, or in `ap_faults` also a stray `Z`.
- `MC_PMC8Codec` supplies the count sets:
  - the interior set holds every hex-digit edge and 119 evenly spread counts in (-2^23, 2^23);
  - the full set adds -2^23.
- `MC_PMC8Pointing` supplies the LSTs, RAs and Decs (see the bounds below).
- `MC_PMC8Motion` supplies the custom track and move rates, some of them negative, which a `.cfg` cannot write.

### Plan for later modules, most important first

1. **AP track modes:** a mount RA-rate variable that distinguishes sidereal tracking from an offset rate. It would cover the custom path of `SetTrackMode` (`:RT` sidereal, then `:RR` and `:RD`) and its partial failure. It would also carry the liveness counterexample of a slew under an offset rate.
2. **AP initialization retry:** a standing liveness run for finding 15.
3. **PMC8 echo check:** a line-noise outcome for the position echoes, in which a rejected frame is reported as success.
4. **PMC8 serial input buffer:** replies that arrive after their timeout and are read by the next exchange. With it, the position read would accept an RA reply as the Dec position (`:1469`).

## 3. Runs

Every run's configuration is `<Module>_<name>.cfg`. The PMC8Pointing runs check `MC_PMC8Pointing`.

| Run | Expect | Checks | Shows |
|---|---|---|---|
| `ap_core` | pass | `TypeOK`, `GuideRateTracked`, `CapabilitiesMatch`, `SlewDoneOnlyWhenStopped`, `ParkDoneOnlyAtPark` | For the replies of GTOCP2, GTOCP3, T and CP4 controllers, `getFirmwareVersion` selects the capabilities the controller has. With read, `:KA#`, init and tracking failures, completion is declared only for a stopped mount (and parking only at the park position), and the guide switch matches the mount |
| `ap_faults` | pass | `SlewDoneOnlyWhenStopped`, `SlewEventuallyEnds`, `ParkEventuallyEnds` | Slew completion stays sound when a failed version read is parsed as an empty or a stray-letter reply, and when reads, `:KA#`, gotos and syncs can fail. Under `FairSpec`, once the client stops issuing commands, every slew of a tracking mount and every park of a non-tracking mount ends |
| `ap_gotofail` | violation | `ParkDoneOnlyAtPark` | A Goto during PARKING aborts the park slew and fails to send; the next poll parks the mount where it stopped |
| `ap_initflag` | violation | `InitFlagMeansInitDone` | `IsMountInitialized` sets `mountInitialized` before `IsMountParked` fails |
| `ap_guiderate` | violation | `GuideRateTracked` | The guide switch is updated before `:RG#` and not restored, and `handleGTOCP2MotionBug` clears its flag after a failed re-send |
| `codec_roundtrip` | pass | `TypeOK`, `EncodingIsTwosComplement`, `PositionRoundTrip` | The encoding is 24-bit two's complement, and positions round-trip inside (-2^23, 2^23) |
| `codec_minimum` | violation | `PositionRoundTrip` | -2^23 reads back as +2^23 (`axispos > 8388608`) |
| `pmc8_pointing` | pass | `TypeOK`, `RARoundTrip` | Off the pole, `get_pmc8_coords` returns the RA of the last slew, sync or `set_pmc8_radec` within 1 arcsec, at hour angles on both limits, the 0 h tie and both pier sides |
| `pmc8_aim` | pass | `DecRoundTrip`, `AimRefinement` | With every target and position exchange able to be rejected or to lose its echo, the Dec of the last successful slew or sync reads back within 1 arcsec, and slew, sync and park implement `PMC8Aim`: a true result means the controller aims at the position given |
| `pmc8_pole` | violation | `RARoundTrip` | Dec +90 on the EAST side gives Dec counts 0, which decode as WEST: the RA reads back 12 h off |
| `pmc8_motion` | pass | `TypeOK`, `AxisStoppedAsReported`, `TrackAsReported`, `RATrackForward` | With every ESSd, ESSr and ESTr exchange able to be rejected or lost, an axis reported stopped has a zero move rate, a reported track rate is the controller's (also after the oversized frame of a negative custom rate), and RA tracks forward once an RA jog is reported stopped |
| `pmc8_reverse` | violation | `MotionAsReported` | An East jog followed by a track-rate change (`set_pmc8_custom_ra_track_rate`, which `set_pmc8_track_mode` calls) runs West: the track setter ends with ESSd RA 1 |

Every property of a passing run has a mutant in `PROJECT.json`: a plausible bug in the definition it is about, which TLC catches. Examples:

- a Goto that does not reset `lastRA`;
- a slewing poll that does not store its sample in `lastRA`, and a parking poll that does not store it in `lastAZ` (both break liveness);
- a version decoder that counts letters from `D`;
- a stasis test that accepts moving samples;
- an encoder without the `+1`;
- a RA conversion with the pier sides swapped;
- a decoder with one pier-side branch;
- a stop sent to the wrong axis;
- a track setter that ignores a failed ESTr, and one without the 9-byte reply check;
- a zero move rate sent with direction 0.

### Bounds and why they are enough

**APMount:**

- **Two positions.** That is enough for "at the target" versus "elsewhere", for the power-up placeholder (`Zero`) versus the park position, and for a mount stopped by an abort at the wrong place.
- **Two guide rates.** That is enough for a selected rate that differs from the active one.
- **Firmware.** `ap_core` takes one reply of every decoder path and capability class:
  - `E`, the GTOCP2 workaround;
  - `G` and `V1`, GTOCP3 without the status query (`V1` has two characters);
  - `T`, the first with the status query;
  - `VCP4-P01-01`, a CP4.

  The other runs use `E` or `T`. `ap_faults` uses one guide rate and no symmetry, because symmetry is unsound with liveness.
- **Unbounded commands, finite state.** Every command can be issued any number of times. All counters are booleans or labels, so the state space is finite without extra bounds. `ap_core` reaches 241k distinct states at depth 16, and `ap_faults` reaches 157k.

**PMC8Codec:** the counts are every boundary where a hex digit carries, ±1 around zero, the ends of the signed range, and an even spread. This exercises every digit position of the complement and the increment.

**PMC8Pointing:** the sets are chosen for the boundaries of the arithmetic.

- LSTs 0 h, 10 h and 22 h.
- RAs 0, 1 s, 4 h, 10 h, 10 h + 1 s and 22 h. Against the three LSTs they give:
  - hour angles 0 (the tie, EAST) and ±1 s around it;
  - −12 h, which the encoder's `<= -12` branch moves to +12 h (`:1213`), and −22 h, moved to +2 h;
  - +22 h and +18 h, which the `> 12` branch moves to −2 h and −6 h (`:1211`), and exactly +12 h, which it keeps;
  - decoded RAs of 24 h and 28 h, and negative ones, which each branch of the decoder's correction moves back into [0, 24 h) (`:1260`);
  - both pier sides.
- Decs +45° + 1", −45°, −90°, and +90° only in `pmc8_pole`.
- Every command can be repeated; the registers take only the values these inputs produce. `pmc8_pointing` reaches 17.3k distinct states and `pmc8_aim`, with faults, 15.1k.

**PMC8Motion:** all four jog directions and speed indexes, and all three track modes. It also uses two custom track rates: one above the clamp, and one negative, which crosses the frame-length edge. There are two custom move rates: one negative, and one just past the setters' limit. The state is finite because every register takes the values of those inputs only; `pmc8_motion` reaches 25.5k distinct states.

### Environment assumptions

- A slew accepted by `:MS#` is moving by the second poll after it (`NextPhase`). A mount that waits longer reads the same position twice, and stasis detection would declare the slew done before it started. The code cannot tell the two apart. This is listed as a hazard.
- After an Az/Alt slew the firmware may either hold the position or resume tracking. Both are allowed.
- A jog (`MoveNS`/`MoveWE` start and stop) abandons a running slew and stops the mount somewhere.
- PMC8: a position frame the controller applied may lose its echo; the Dec write is not sent after an RA failure. The ESSd/ESGr assumptions are stated with `PMC8Motion` above.

### Fairness

`FairSpec` in `APMount` adds two weak-fairness conditions:

- weak fairness of a successful poll, `Poll(TRUE, TRUE)`, because the host's poll timer fires for as long as the driver is connected and the serial link does not fail for ever;
- weak fairness of `MountArrive`, because a moving mount reaches its target.

The client's actions get none. The liveness properties therefore have the form `[]<><<UserAction>>_vars \/ (P ~> Q)`: they bind only in behaviours where the client eventually stops acting, since a client that keeps issuing Gotos can keep a slew alive for ever. `ap_core` and the violation runs use `Spec`, with no fairness. The PMC8 functions are called by a driver class that is not in this tree, so no fairness of their calls can be justified from this code.

## 4. Findings

The first six are recorded in `PROJECT.json` with a violation run; the rest are divergences found while modelling and checked by hand or by a one-off TLC run, not kept as a standing run.

1. **Goto during park.** A Goto issued while parking aborts the park slew. If its send then fails, the driver stays in PARKING, and the next stasis sends `:KA#` and reports PARKED at the position where the mount stopped (`lx200ap.cpp:625`).
2. **Initialization flag set too early.** `initMount` lets `IsMountInitialized` set `mountInitialized` before `IsMountParked` can fail. Initialization is then marked done, but `UnPark` never ran and nothing retries it (`:242`).
3. **Guide switch on failure.** A failed guide-speed select leaves the switch on the new rate (`:365`), and the GTOCP2 re-send ignores failure and clears its flag (`:1119`).
4. **PMC8 minimum count.** The PMC8 count -2^23 decodes as +2^23 (`pmc8driver.cpp:1190`).
5. **PMC8 pole.** A slew or sync to Dec +90 on the EAST side reads back with RA 12 h off: the decoder takes the pier side from the sign of Dec counts that are 0 (`pmc8driver.cpp:1251`).
6. **PMC8 jog reversed by a track-mode change.** `set_pmc8_custom_ra_track_rate` ends with ESSd RA 1 (`:1038`), the register that gives an RA jog its sign.
7. **Location flag across sessions.** `Disconnect` does not clear `locationUpdated` (the reset is commented out, `lx200ap.cpp:700`), so the next session initializes on the time alone.
8. **Goto before initialization.** `Goto` does not require initialization (`:585`).
9. **Pre-emption after a failed poll.** A failed poll clears `EqNP` busy, so the next `Goto` sends a slew over a running one without aborting it (`:595`).
10. **`set_pmc8_radec` uses the RA for Dec.** It calls `convert_dec_to_motor` with the RA argument (`pmc8driver.cpp:1713`); `DecRoundTrip` fails at once with it, so `pmc8_aim` leaves it out.
11. **PMC8 partial two-axis write.** With target faults, a slew whose RA target was set and whose Dec write failed leaves the controller aimed at a new RA and the old Dec (`:1354`). The command returns false, so the caller is told. `pmc8_aim` checks that such a pair is never reported as set, but nothing in the driver restores the old aim or retries.
12. **Track rates.** Sidereal is 15.0 arcsec/s and solar 15.041 in `set_pmc8_track_mode` (`:965`), against the spec's 15.04106864 and 15.000.
13. **Slews and parks that never end.** With the tracking preconditions dropped from the liveness properties, one-off runs find two behaviours that never end. A Goto sent while the mount's tracking is off, for example before `initMount` has run `UnPark`, stays SLEWING, because the RA drifts and two samples never agree (`:441`). A park of a mount whose firmware resumes tracking after the Az/Alt slew stays PARKING, because the Az keeps moving.
14. **Noise parsed as a firmware version.** `getAPVersionNumber`'s result is ignored (`:190`), so after a failed `:V#` read `getFirmwareVersion` parses the uninitialized `versionString`. With a noise reply `Z` a one-off run breaks `CapabilitiesMatch` in two steps: `firmwareVersion` becomes 21, beyond `MCV_UNKNOWN`, which passes the `>= MCV_T` test (`:212`), on a GTOCP2 mount.

15. **A failed initialization is not retried.** `updateTime` and `updateLocation` ignore `initMount`'s result (`:802`, `:832`), and no poll retries it. Under `FairSpec` with initialization failures, a one-off run finds that `connected /\ timeUpdated /\ locationUpdated ~> mountInitialized` fails once the client stops: Connect, updateTime, then an updateLocation whose `initMount` read fails leave the mount uninitialized for the session.

16. **PMC8 firmware query waits for the wrong terminator.** `get_pmc8_main_firmware` reads the ESGv reply with `tty_read_section(..., '#', ...)` (`pmc8driver.cpp:322`). Every PMC8 frame ends with `!`: the spec's identify exchange is `ESGv!` answered by `ESGvES06B9T9!`. So the read runs to `PMC8_TIMEOUT`, and `get_pmc8_firmware` returns false against a real controller, right after `check_pmc8_connection` has read the same reply up to `!` (`:187`) and succeeded. This is found from the source and the spec, not by a run: the query changes no modelled state, and every run slot holds a check of state-changing code.

## 5. Not modelled, and why

- **Simulation paths** (`isSimulation`, `pmc8_simulation`, `mountSim`): they replace the serial exchanges, and `mountSim` is not in this tree.
- **Property declarations, logging, sexagesimal formatting and `indistandardproperty.h`:** no state.
- **Late replies:** every model treats a reply that misses `PMC8_TIMEOUT` as lost. A reply that arrives after the next exchange's `tcflush` and is read as that exchange's reply would need the serial input buffer as state (hazard at `:1469`: `get_pmc8_position_axis` does not check the axis digit of its reply).
- **`#if 0` regions of `pmc8driver.cpp`:** compiled out, including the iEQPro location, date and time functions.
- **AP custom track rate** (`SetTrackMode` with `TRACK_CUSTOM`, `SetTrackRate`): the selected mode and the rate numbers live in `INDI::Telescope`, which is not in this tree. Whether a custom rate moves the RA reading between two polls depends on its size, which the position labels do not carry.
- **`SetCurrentPark` and `SetDefaultPark`:** the first converts the last polled RA/Dec to Az/Alt at the current time, and the position labels of the two frames are unrelated. The second stores a latitude-derived position. The park position stays the constant `ParkPos`.
- **`syncSideOfPier`:** it sets only the pier-side property, which no other operation reads.
- **The AP Swap, slew-speed, PEC and SyncCMR switches:** each sends one command and keeps only the switch itself, which no other operation reads.
- **PMC8 connection, status, model and firmware queries:** read-only; they fill caller structures and change no state. `get_pmc8_direction_axis` has no caller. `check_pmc8_connection` and `get_pmc8_main_firmware` read with `tty_read_section` into buffers of 16 and 24 bytes with no length bound (`:187`, `:322`). That memory-safety hazard is below the model's level, which takes replies as values. The second read also waits for `#`, which no PMC8 frame carries (finding 16). `get_pmc8_status` is compiled out: it lies inside `#if 0` (`:213`–`:283`).
- **`set_pmc8_track_mode` with a mode outside the switch:** the switch has no default, so `ratereal` would be uninitialized (`:962`). The callers are outside this tree; the model calls it with the three modes.
- **PMC8 stubs:** `set_pmc8_custom_dec_track_rate`, `set_pmc8_guide_rate` and `get_pmc8_guide_rate` only return false.
