SPECIFICATION Spec
CONSTANTS
  Algorithms = {"botsort"}
  Estimators = {"external"}
  MaxAge = 1
  MinHits = 1
  DeltaT = 1
  StageBMaxAge = 0
  Trackers = {k1}
  Cameras = {a}
  MaxFrame = 4
  MaxUpdates = 4
  MaxDetections = 1
  MaxIssued = 2
  MaxMotion = 1
  MaxMoving = 1
  MaxMovingUpdates = 4
  None = None
INVARIANT AffineMeetsItsFrame
CHECK_DEADLOCK FALSE
