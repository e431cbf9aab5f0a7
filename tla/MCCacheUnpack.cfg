\* An interrupted extraction of a Canton archive.
SPECIFICATION Spec
CONSTANTS
    Absent = Absent
    Fetchers = {p1}
    NumFiles = 2
    Digests = {d1, d2}
    MaxPins = 0
    MaxCrashes = 1
INVARIANTS
    ReturnedIsOfficial
CHECK_DEADLOCK FALSE
