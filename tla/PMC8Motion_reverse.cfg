\* Fault-free exchanges: does every reported axis setting hold?
SPECIFICATION Spec
CONSTANTS
    Modes = {"sidereal", "lunar", "solar"}
    Faults = {}
    CustomRates <- MC_CustomRates
    MoveRates <- MC_MoveRates
    Garbled = Garbled
    Unknown = Unknown
INVARIANT
    MotionAsReported
