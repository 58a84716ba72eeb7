\* The AP state machine with read, park, init and tracking failures.
CONSTANTS
    rate0 = rate0
    rate1 = rate1
    N = 2
    Zero = 0
    ParkPos = 1
    GuideRates <- MC_GuideRates
    Firmwares <- FwAll
    NoiseReplies <- NoiseEmpty
    Faults = {"read", "kapark", "init", "track"}
SPECIFICATION Spec
INVARIANT TypeOK
INVARIANT GuideRateTracked
INVARIANT CapabilitiesMatch
PROPERTY SlewDoneOnlyWhenStopped
PROPERTY ParkDoneOnlyAtPark
SYMMETRY MC_Symmetry
