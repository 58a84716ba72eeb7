\* The spec's full signed range, including -2^23 (register value 0x800000).
CONSTANTS
    Counts <- MC_CountsFull
    NoCount = NoCount
SPECIFICATION Spec
INVARIANT PositionRoundTrip
