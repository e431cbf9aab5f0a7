\* One process at a time, dying anywhere, over a pin that changes.
SPECIFICATION Spec
CONSTANTS
    Absent = Absent
    Fetchers = {p1}
    NumFiles = 2
    Digests = {d1, d2}
    MaxPins = 1
    MaxCrashes = 2
INVARIANTS
    FetchedIsPinned CacheIsComplete
CHECK_DEADLOCK FALSE
