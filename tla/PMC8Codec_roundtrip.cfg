\* Encode, register and decode of every interior count and digit edge.
CONSTANTS
    Counts <- MC_CountsInterior
    NoCount = NoCount
SPECIFICATION Spec
INVARIANT TypeOK
INVARIANT EncodingIsTwosComplement
INVARIANT PositionRoundTrip
