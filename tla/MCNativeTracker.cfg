SPECIFICATION Spec
CONSTANTS
  Algorithms = {"sort", "bytetrack", "ocsort", "deepsortv2", "botsort"}
  Estimators = {"external", "strict", "sparse_flow"}
  MaxAge = 1
  MinHits = 2
  DeltaT = 1
  StageBMaxAge = 0
  Trackers = {k1}
  Cameras = {a}
  MaxFrame = 4
  MaxUpdates = 4
  MaxDetections = 2
  MaxIssued = 3
  MaxMotion = 1
  MaxMoving = 1
  MaxMovingUpdates = 3
  None = None
INVARIANT AppearanceFollows
PROPERTY ImplementsPython
CHECK_DEADLOCK FALSE
CONSTRAINT MovingIsShort
CONSTRAINT SkippedAfterRefusal
