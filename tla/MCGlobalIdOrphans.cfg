SPECIFICATION Spec
CONSTANTS
    Keys <- Few
    Cameras = {"a", "b"}
    CameraOf <- CamerasOfFew
    None = None
    MaxAge = 1
    Capacity = 2
    MaxTracks = 3
    Unembedded = TRUE
    MaxSteps = 3
INVARIANT NothingOrphaned
