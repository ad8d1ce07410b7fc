SPECIFICATION JudgedSpec
CONSTANTS
    ArtifactChars = 8
    MaxArtifactBytes = 4
    NoReason = no_reason
    None = none
INVARIANTS StopConfirmed StatusIsTrue RecordsAreAccepted VerdictIsDeserved
PROPERTY ExecutionEnds
