\* Two runs, rebuilds, crashes between the writes of their files, any one edit of what they left.
SPECIFICATION Spec
CONSTANTS
    Missing = Missing
    NoFile = NoFile
    MaxRuns = 2
    MaxTime = 4
    DeadlineAfter = 0
    ExpiryAfter = 2
    MaxEdits = 1
    MaxBuilds = 2
    StaleAfter = 1
    Forged <- MCForged
INVARIANTS
    HonestRunAccepted OneRunUnlessEdited
    ClaimsMatchUpdates PackagesAreTheRuns
    DeliveryVersusPayment SellerRepaid
CHECK_DEADLOCK FALSE
