CONSTANTS
    t1 = t1
    t2 = t2
    page = page
    late = late
    empty = empty
    NoThread = NoThread
    Threads = {t1, t2}
    Paths = {page, late, empty}
    Wants <- Shared
    Present = {page, empty}
    Unmappable = {empty}
    MaxCalls = 3
SPECIFICATION Spec
INVARIANT HitFillsResult
