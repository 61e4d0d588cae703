SPECIFICATION PartsSpec
CONSTANTS
  Algorithms = {"sort", "bytetrack", "ocsort", "deepsortv2", "botsort"}
  Estimators = {"external", "strict", "sparse_flow"}
  MaxAge = 2
  MinHits = 2
  DeltaT = 2
  StageBMaxAge = 0
  Trackers = {k1}
  Cameras = {a, b}
  MaxFrame = 5
  MaxUpdates = 5
  MaxDetections = 2
  MaxIssued = 2
  MaxMotion = 1
  MaxMoving = 1
  MaxMovingUpdates = 4
  None = None
  MaxRows = 3
  MaxColumns = 3
  Costs = {0, 1, 3}
  MaxCost = 1
  Stride = 1
  MaxDepth = 2
  Spellings = {"sort", "byte", "oc"}
  Preference <- MCPreference
  MaxAliases = 1
  Native = "native"
INVARIANT RowsAligned
INVARIANT FilterTime
INVARIANT RingSuffices
INVARIANT TrustIsEarned
INVARIANT OneObjectPerTrack
INVARIANT OneReference
INVARIANT BandsChooseInOrder
INVARIANT EveryNameReachable
PROPERTY KeepsContract
SYMMETRY Symmetry
CHECK_DEADLOCK FALSE
CONSTRAINT MovingIsShort
CONSTRAINT OneSkipped
