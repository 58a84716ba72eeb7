SPECIFICATION Spec
CONSTANTS
    None = None
    LSTs <- MC_LSTs
    RAs <- MC_RAs
    Decs <- MC_DecsPole
    Ops = {"slew", "sync", "park"}
    Faults = {}
PROPERTY RARoundTrip
