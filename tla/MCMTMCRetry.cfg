SPECIFICATION LoggedSpec
CONSTANTS
    Keys <- MCKeys
    Cameras = {"a", "b"}
    CameraOf <- MCCameraOf
    None = None
    MaxAge = 1
    Capacity = 1
    MaxTracks = 2
    Unembedded = TRUE
    MaxSteps = 4
    MinHits = 2
    MaxAbsent = 1
    MaxCalls = 4
INVARIANT AdmittedAfterDistinctInstants
