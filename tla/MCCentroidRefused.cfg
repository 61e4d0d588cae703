SPECIFICATION Spec
CONSTANTS
    Writers = {w}
    Readers = {q}
    Identities = {ship1, ship2, ship3}
    Cameras = {camA, camB}
    None = None
    Capacity = 2
    MaxCameras = 2
    TopKs = {1, 2}
    MaxAdds = 3
    MaxOccupants = 3
INVARIANT RejectedAddLeavesNothing
