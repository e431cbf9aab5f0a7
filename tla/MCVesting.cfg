\* Two locks over the same tokens, released in parts.
SPECIFICATION Spec
CONSTANTS
    MinTime = 0
    MaxTime = 6
    MaxInt = 10
    Overflow = Overflow
    NoParty = "none"
    NoDigest = NoDigest
    MaxDecimal = 5
    MetaKeys = {"reason", "tx-kind"}
    ReservedKeys = {"tx-kind"}
    HashAlgorithms = {"Sha256"}
    Admin = "admin"
    InitialTime = 1
    Horizon = 5
    MaxGeneration = 0
    Party <- MCParties
    Fragment <- MCFragment
    Accounts <- MCAccounts
    HexText <- MCHexText
    Hex32 <- MCHex32
    asciiToLower <- MCLower
    Digest <- MCDigest
    Limits <- MCLimits
    Factories <- VestingFactories
    InitialTokens <- VestingTokens
    ProposedTerms <- VestingTerms
    SuppliedLegs <- VestingLegs
    Witnesses <- VestingWitnesses
    ActorSets <- VestingActors
INVARIANTS
    ReportsReconcile TransferLegsPaired
PROPERTIES
    BookSpec
CHECK_DEADLOCK FALSE
