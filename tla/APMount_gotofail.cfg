\* A Goto during PARKING aborts the park slew and then fails to send.
CONSTANTS
    rate0 = rate0
    rate1 = rate1
    N = 2
    Zero = 0
    ParkPos = 1
    GuideRates <- MC_GuideRates
    Firmwares <- FwT
    NoiseReplies <- NoiseEmpty
    Faults = {"goto"}
SPECIFICATION Spec
PROPERTY ParkDoneOnlyAtPark
SYMMETRY MC_Symmetry
