CONSTANTS
    Nul = "NUL"
    Junk = "junk"
    Code <- MCCode
    HashMod = 1000
    Texts <- MCTexts
    SmallBuf = 3
    Capacities = {1, 2, 4, 8}
    MaxLen = 4
SPECIFICATION Spec
INVARIANTS TypeOK BufferFits Terminated EqualIsSame
PROPERTIES ImplementsString OneBlock FailsForCause
