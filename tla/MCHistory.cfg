\* The same lock, with the history of who asked for which payment.
SPECIFICATION HistorySpec
CONSTANTS
    MinTime = 0
    MaxTime = 6
    MaxInt = 10
    Overflow = Overflow
    NoParty = "none"
    NoDigest = NoDigest
    MaxDecimal = 4
    MetaKeys = {"reason", "tx-kind"}
    ReservedKeys = {"tx-kind"}
    HashAlgorithms = {"Sha256"}
    Admin = "admin"
    InitialTime = 1
    Horizon = 3
    MaxGeneration = 3
    Party <- MCParties
    Fragment <- MCFragment
    Accounts <- MCAccounts
    HexText <- MCHexText
    Hex32 <- MCHex32
    asciiToLower <- MCLower
    Digest <- MCDigest
    Limits <- MCLimits
    Factories <- AmendFactories
    InitialTokens <- HistoryTokens
    ProposedTerms <- HistoryTerms
    SuppliedLegs <- AmendLegs
    Witnesses <- MCWitnesses
    ActorSets <- HistoryActors
INVARIANTS
    EveryReleaseConsented
CHECK_DEADLOCK FALSE
