SPECIFICATION PartsSpec
CONSTANTS
  SourceExtents = {1, 2, 3, 5, 8, 12}
  TargetExtents = {1, 2, 4, 5, 6, 7}
  CropExtent = 3
  MaxCallFrames = 4
  MaxCalls = 2
  EngineBatches = {2, 3}
  MaxBatches = {0, 1, 2, 3}
  FailEvery = 3
  Proposals = 3
  BoxPlaces = {0, 1, 2}
  Confidences = {200, 4000, 8000}
  ConfThreshold = 2000
  IouThreshold = 4
  Classes = {0, 1}
  MinScoreSum = 12000
  Budgets = {2, 3}
  Workers = {"a", "b"}
  Slots = 2
  MaxImages = 3
  Writers = {w}
  Readers = {q}
  Identities = {ship1, ship2, ship3}
  Cameras = {camA, camB}
  None = None
  Capacity = 2
  MaxCameras = 2
  TopKs = {2}
  MaxAdds = 3
  MaxOccupants = 3
INVARIANT BoxesComeBack
INVARIANT ResultsFindTheirFrame
INVARIANT SurvivorsExplained
INVARIANT OneOwner
INVARIANT PixelsAreTheCalls
INVARIANT RowsAgree
INVARIANT NoMisattribution
INVARIANT KnownCameraExcluded
SYMMETRY Symmetric
CHECK_DEADLOCK FALSE
