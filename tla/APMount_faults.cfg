\* Version replies, reads, :KA#, goto and sync commands may fail: slew
\* completion is detected soundly under these faults, and slews and parks
\* end once the client stops issuing commands.  One guide rate (ap_core
\* checks the guide switch) and no symmetry, since the run checks liveness.
CONSTANTS
    rate0 = rate0
    rate1 = rate1
    N = 2
    Zero = 0
    ParkPos = 1
    GuideRates = {rate0}
    Firmwares <- FwE
    NoiseReplies <- NoiseStray
    Faults = {"version", "read", "kapark", "goto", "sync"}
SPECIFICATION FairSpec
PROPERTY SlewDoneOnlyWhenStopped
PROPERTY SlewEventuallyEnds
PROPERTY ParkEventuallyEnds
