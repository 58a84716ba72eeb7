\* A failed guide-rate select, or a failed GTOCP2 guide-rate re-send, leaves the switch and the mount on different rates.
CONSTANTS
    rate0 = rate0
    rate1 = rate1
    N = 2
    Zero = 0
    ParkPos = 1
    GuideRates <- MC_GuideRates
    Firmwares <- FwE
    NoiseReplies <- NoiseEmpty
    Faults = {"guide", "resend"}
SPECIFICATION Spec
INVARIANT GuideRateTracked
SYMMETRY MC_Symmetry
