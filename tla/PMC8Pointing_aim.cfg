SPECIFICATION Spec
CONSTANTS
    None = None
    LSTs <- MC_LSTs
    RAs <- MC_RAs
    Decs <- MC_Decs
    Ops = {"slew", "sync", "park"}
    Faults = {"target", "position"}
PROPERTY DecRoundTrip
PROPERTY AimRefinement
