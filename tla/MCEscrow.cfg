\* One escrow with rule approvals, from its factory to its end.
SPECIFICATION SubmissionsSpec
CONSTANTS
    MinTime = 0
    MaxTime = 6
    MaxInt = 10
    Overflow = Overflow
    NoParty = "none"
    NoDigest = NoDigest
    MaxDecimal = 4
    MetaKeys = {"reason", "tx-kind"}
    ReservedKeys = {"tx-kind"}
    HashAlgorithms = {"Sha256"}
    Admin = "admin"
    InitialTime = 1
    Horizon = 5
    MaxGeneration = 0
    Party <- MCParties
    Fragment <- MCFragment
    Accounts <- MCAccounts
    HexText <- MCHexText
    Hex32 <- MCHex32
    asciiToLower <- MCLower
    Digest <- MCDigest
    Limits <- MCLimits
    Factories <- EscrowFactories
    InitialTokens <- EscrowTokens
    ProposedTerms <- EscrowTerms
    SuppliedLegs <- EscrowLegs
    Witnesses <- MCWitnesses
    ActorSets <- EscrowActors
INVARIANTS
    TypeOK ApprovalsWellFormed RefundAlwaysOpen RejectionsBounded ObserversAgreed ActionsListed
CHECK_DEADLOCK FALSE
