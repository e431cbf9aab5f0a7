\* One lock, amended while approvals are recorded and rules have fired; under fairness it ends.
SPECIFICATION FairSpec
CONSTANTS
    MinTime = 0
    MaxTime = 6
    MaxInt = 10
    Overflow = Overflow
    NoParty = "none"
    NoDigest = NoDigest
    MaxDecimal = 4
    MetaKeys = {"reason", "tx-kind"}
    ReservedKeys = {"tx-kind"}
    HashAlgorithms = {"Sha256"}
    Admin = "admin"
    InitialTime = 1
    Horizon = 5
    MaxGeneration = 4
    Party <- MCParties
    Fragment <- MCFragment
    Accounts <- MCAccounts
    HexText <- MCHexText
    Hex32 <- MCHex32
    asciiToLower <- MCLower
    Digest <- MCDigest
    Limits <- MCLimits
    Factories <- AmendFactories
    InitialTokens <- AmendTokens
    ProposedTerms <- AmendTerms
    SuppliedLegs <- AmendLegs
    Witnesses <- MCWitnesses
    ActorSets <- AmendActors
INVARIANTS
    BackingMatches FireOnce CheckedChoicesCommit
PROPERTIES
    ApprovalsFollowTerms LifecycleSpec FundsReturn
CHECK_DEADLOCK FALSE
