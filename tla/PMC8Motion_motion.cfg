\* Jogs, stops, aborts and track-rate commands with every exchange able to
\* fail (write rejected, or applied with the reply lost).
SPECIFICATION Spec
CONSTANTS
    Modes = {"sidereal", "lunar", "solar"}
    Faults = {"dir", "rate", "track"}
    CustomRates <- MC_CustomRates
    MoveRates <- MC_MoveRates
    Garbled = Garbled
    Unknown = Unknown
INVARIANTS
    TypeOK
    AxisStoppedAsReported
    TrackAsReported
    RATrackForward
