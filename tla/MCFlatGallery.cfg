SPECIFICATION FairSpec
CONSTANTS
    Writers = {w}
    Readers = {q}
    Identities = {ship1, ship2}
    Cameras = {camA, camB}
    Dims = {d512}
    None = None
    Capacity = 2
    PerIdentity = 2
    MaxCameras = 1
    TopKs = {1}
    MaxAdds = 3
INVARIANT TypeOK
INVARIANT IndexAligned
INVARIANT RowsAreEntries
INVARIANT KeepsLatestViews
INVARIANT NoMisattribution
INVARIANT NeverOwnCamera
INVARIANT StampVouches
PROPERTY ImplementsBaseGallery
PROPERTY LockReleased
