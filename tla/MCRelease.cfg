\* Two versions over two commits, rebuilt, stopped and retried, with up to two interventions:
\* a tag or a manifest made by hand, a move of the upstream tag.
SPECIFICATION Spec
CONSTANTS
    None = None
    MaxCommits = 2
    Bytes = 2
    MaxInterventions = 2
INVARIANTS
    ReleaseIsOneCommit BuiltFromTheCommit ReleaseWasExercised
PROPERTIES
    NoTagOnMovedPin
CHECK_DEADLOCK FALSE
