SPECIFICATION Spec
CONSTANTS
    None = None
    LSTs <- MC_LSTs
    RAs <- MC_RAs
    Decs <- MC_Decs
    Ops = {"slew", "sync", "radec", "park"}
    Faults = {}
INVARIANT TypeOK
PROPERTY RARoundTrip
