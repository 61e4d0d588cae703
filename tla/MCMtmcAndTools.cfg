SPECIFICATION PartsSpec
CONSTANTS
    Keys <- MCKeys
    Cameras = {"a", "b"}
    CameraOf <- MCCameraOf
    None = None
    MaxAge = 1
    Capacity = 1
    MaxTracks = 2
    Unembedded = TRUE
    MaxSteps = 3
    MinHits = 2
    MaxAbsent = 1
    MaxCalls = 3
    Tracks <- MCTracks
    SeenBy <- MCSeenBy
    Calibrations <- MCCalibrations
    Sizes = {1, 2}
    Feet = {10, 12, 14}
    FrameRows = 12
    AppearanceThreshold = 40
    SpatialThreshold = 8
    DistanceThreshold = 50
    MaxExports = 2
    MaxFaults = 2
    BatchSize = 2
    Limit = 3
    SourceBatches <- MCBatches
    Jobs = {"j1", "j2"}
    Cases = 2
    Spaces <- MCSpaces
    TrialsPerCall = 2
    MaxRuns = 2
    MaxCrashes = 1
    Pedestrians = {1, 2}
    Distractors = {9}
    Unscored = {}
    Predictions = {1, 2}
    BoxSpots = {1, 2, 3}
    MaxFrames = 3
    MaxSequences = 2
    MaxBoxes = 6
INVARIANT MembersVouch
INVARIANT StreaksAreConsecutive
INVARIANT ClustersAreEvidence
INVARIANT ScalesAreTheNetworks
INVARIANT ReportsWhatRan
INVARIANT MatchesPersist
INVARIANT CombiningIsConcatenating
PROPERTY RetriedBuildPublishes
