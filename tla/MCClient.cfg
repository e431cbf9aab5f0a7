\* Both tests of one client; requests lost, refused and taken late, tests that time out, an exit anywhere.
SPECIFICATION Spec
CONSTANTS
    DeadlineAfter <- MCDeadlineAfter
    ExpiryAfter <- MCExpiryAfter
    Margin = 1
    Ahead = 1
    Horizon = 3
    MaxLate = 2
INVARIANTS
    NothingStranded DeliveryVersusPayment RecordIsTrue
CHECK_DEADLOCK FALSE
