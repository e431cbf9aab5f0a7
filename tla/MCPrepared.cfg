\* A day of three seconds of two microseconds; Int ends at 20.
SPECIFICATION LimitsSpec
CONSTANTS
    MinTime <- MCMinTime
    MaxTime = 2
    MaxInt = 20
    Overflow = Overflow
    Durations <- RelTime
    MicrosPerSecond = 2
    SecondsPerDay = 3
    MaxAdvertised = 12
    MaxNumeral = 19
    Malformed = Malformed
    None = None
INVARIANTS
    QuestionsAskable ExecutedExactly AdvertisedAreEnforced
CHECK_DEADLOCK FALSE
