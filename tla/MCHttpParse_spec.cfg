CONSTANTS
    LengthOf <- MCLengthOf
    Streams <- AllStreams
    HeaderLimit = 100
    SizeMod = 1000
    MaxFaults = 0
SPECIFICATION FairSpec
INVARIANTS HeadNotMissed AssertionsHold
PROPERTIES ImplementsRequest WholeIsDelivered
