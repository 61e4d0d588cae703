SPECIFICATION CastSpec
CONSTANTS
    Keys <- Six
    Cameras = {"a", "b", "c", "d"}
    CameraOf <- CamerasOfSix
    None = None
    MaxAge = 1
    Capacity = 2
    MaxTracks = 3
    Unembedded = TRUE
    MaxSteps = 3
INVARIANT MapsAgree
INVARIANT SeenOnesStay
INVARIANT FirstClaimHolds
PROPERTY ImplementsRegister
