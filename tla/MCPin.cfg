\* Upgrades of the networks, a sync that dies, edits of files, modes, SOURCE.json and
\* the env files.  Testnet is compared as Mainnet is, so one of the two is enough.
SPECIFICATION Spec
CONSTANTS
    None = None
    Unreachable = Unreachable
    Networks = {"mainnet", "devnet"}
    MaxTag = 3
    MaxCrashes = 1
    MaxEdits = 1
    Editable = {"content", "mode", "source", "env"}
INVARIANTS
    CheckIsSound SyncRepairs DocsFollow
CHECK_DEADLOCK FALSE
