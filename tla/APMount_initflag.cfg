\* IsMountParked fails after IsMountInitialized has already set mountInitialized.
CONSTANTS
    rate0 = rate0
    rate1 = rate1
    N = 2
    Zero = 0
    ParkPos = 1
    GuideRates <- MC_GuideRates
    Firmwares <- FwE
    NoiseReplies <- NoiseEmpty
    Faults = {}
SPECIFICATION Spec
INVARIANT InitFlagMeansInitDone
SYMMETRY MC_Symmetry
