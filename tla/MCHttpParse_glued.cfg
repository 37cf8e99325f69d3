CONSTANTS
    LengthOf <- MCLengthOf
    Streams <- Glued
    HeaderLimit = 100
    SizeMod = 1000
    MaxFaults = 0
SPECIFICATION Spec
INVARIANT GluedRequestKept
