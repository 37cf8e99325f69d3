CONSTANTS
    LengthOf <- MCLengthOf
    Streams <- Limits
    HeaderLimit = 3
    SizeMod = 1000
    MaxFaults = 2
SPECIFICATION Spec
INVARIANTS TypeOK CursorsInPost SplitUnreachable BodyExact
