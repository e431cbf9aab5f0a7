\* Two runs while packages are rebuilt and the localnet is repinned, bootstrapped and
\* cleaned; one edit of a script's output.
SPECIFICATION Spec
CONSTANTS
    Missing = Missing
    Networks <- MCNetworks
    Tags <- MCTags
    Window = 1
    Extra = 1
    MaxRuns = 2
    MaxTime = 4
    MaxBuilds = 2
    MaxEdits = 1
    Forged <- MCForged
INVARIANTS
    EvidenceIsTrue ArtifactsAreTheEnacted
CHECK_DEADLOCK FALSE
