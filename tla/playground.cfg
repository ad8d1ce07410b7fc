SPECIFICATION Spec
CONSTANTS
    Problems = {p1, p2}
    Default = p1
    Commands = {c1, c2}
    None = none
    MaxMoves = 2
    MaxClicks = 3
INVARIANT LatestSubmissionShown
PROPERTIES SelectionDecidesProblem SubmissionsSettle
