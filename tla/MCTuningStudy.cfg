SPECIFICATION StudySpec
CONSTANTS
    Jobs = {"j1", "j2"}
    Cases = 2
    Spaces <- MCSpaces
    TrialsPerCall = 2
    MaxRuns = 2
    MaxCrashes = 1
INVARIANT TalliesDescribeTrials
CHECK_DEADLOCK FALSE
