--------------------------- MODULE CrossCameraMatching ---------------------------
(***************************************************************************)
(* What stands between the gate and the id assigner of shipvision/mtmc: a   *)
(* matcher turns the admitted tracks of an instant into a matrix of         *)
(* distances (appearance, position on the ground, or appearance with a      *)
(* geometric veto), and average-linkage clustering cuts it.                 *)
(*                                                                          *)
(* Similarities and distances are in hundredths.  A track has a look on a   *)
(* line (the same, close or unlike) and feet at a row of a one-column       *)
(* image, in units; a frame of size s has s pixels to the unit and          *)
(* FrameRows rows.  A person is four units high and one wide.               *)
(***************************************************************************)
EXTENDS Integers, FiniteSets, FiniteSetsExt, Functions

CONSTANTS Tracks,               \* the admitted tracks
          SeenBy,               \* track -> its camera
          Calibrations,         \* camera -> the size its homography was fitted at, 0: none
          Sizes,                \* frame sizes a camera may serve
          Feet,                 \* where feet may be
          FrameRows,            \* units of height of a frame
          AppearanceThreshold, SpatialThreshold, DistanceThreshold

VARIABLES scene,     \* the matcher, and what the instant's tracks look like and are
          distances, \* the matrix it built of them
          grouping,  \* the clusters so far
          linkage    \* "build", "merge", "cut" or "refused"

matching == <<scene, distances, grouping, linkage>>

Looks == 0 .. 2

(* NEVER_MERGE, 1e5: "finite on purpose".                                    *)
NeverMerge == 10000000

(* A calibration is the size its homography was fitted at; looks that are    *)
(* unlike are below the threshold; and NEVER_MERGE is "simply enormous next  *)
(* to a threshold": also when it is averaged over a pair of clusters, which  *)
(* have a track of a camera at most.                                         *)
ASSUME MatchingAssumption ==
    /\ IsFiniteSet(Tracks) /\ IsFiniteSet(DOMAIN Calibrations)
    /\ SeenBy \in [Tracks -> DOMAIN Calibrations]
    /\ Calibrations \in [DOMAIN Calibrations -> 0 .. 2]
    /\ Sizes \subseteq Nat \ {0} /\ Feet \subseteq Nat /\ FrameRows \in Nat
    /\ AppearanceThreshold \in Nat /\ AppearanceThreshold >= 10
    /\ SpatialThreshold \in Nat \ {0} /\ DistanceThreshold \in Nat
    /\ Cardinality(DOMAIN Calibrations) * Cardinality(DOMAIN Calibrations)
          * (DistanceThreshold + 1) <= NeverMerge

Matchers == {"appearance", "spatial", "gated"}

(* The constructor parameters of each matcher that _build_matcher finds.     *)
Accepted == [appearance |-> {"appearance_threshold"},
             spatial |-> {"spatial_threshold", "ground_plane"},
             gated |-> {"appearance_threshold", "spatial_threshold", "ground_plane"}]

------------------------------------------------------------------------------
(* What a camera makes of a person: the box ends with the frame.             *)
BoxOf(foot, size) == [top |-> size * (foot - 4), bottom |-> size * Min({foot, FrameRows}),
                      width |-> size]

(* foot_points: a box the frame's edge cut off is extrapolated.              *)
FootPoint(box, size) ==
    LET height == box.bottom - box.top
        truncated == box.bottom >= size * FrameRows - 1
    IN box.top + IF truncated THEN Max({height, 4 * box.width}) ELSE height

(* Mutant of ToCalibrationDomain: the matrix gets the live frame's pixels.   *)
LivePixels(point, size, calibrated) == point

(* to_calibration_domain                                                     *)
ToCalibrationDomain(point, size, calibrated) == (point * calibrated) \div size

(* Homography.project, onto a map of two units of its own to the unit.       *)
Project(point, size, calibrated) ==
    ToCalibrationDomain(point, size, calibrated) * (2 \div calibrated)

(* GroundPlane.get, of the plane the matcher was given.                      *)
Calibrated(t) ==
    "ground_plane" \in Accepted[scene.matcher] /\ Calibrations[SeenBy[t]] # 0

(* ground_positions                                                          *)
GroundPosition(t) ==
    LET size == scene.sizes[SeenBy[t]]
    IN Project(FootPoint(BoxOf(scene.feet[t], size), size), size, Calibrations[SeenBy[t]])

Gap(a, b) == IF a >= b THEN a - b ELSE b - a

(* ground_distances: no distance where a camera is not calibrated.           *)
GroundDistances(s, t) ==
    IF Calibrated(s) /\ Calibrated(t) THEN {Gap(GroundPosition(s), GroundPosition(t))} ELSE {}

(* gate: open where it cannot judge.                                         *)
GateOpen(s, t) == \A d \in GroundDistances(s, t) : d < SpatialThreshold

(* The cosine of two looks.                                                  *)
Cosine(s, t) == <<100, 45, 10>>[Gap(scene.looks[s], scene.looks[t]) + 1]

(* AppearanceMatcher.similarities                                            *)
AppearanceSimilarity(s, t) == IF Cosine(s, t) > AppearanceThreshold THEN Cosine(s, t) ELSE 0

(* SpatialMatcher.build: closed where it cannot judge.                       *)
SpatialSimilarity(s, t) ==
    LET near == {d \in GroundDistances(s, t) : d < SpatialThreshold}
    IN IF near = {} THEN 0 ELSE 100 - (100 * Max(near)) \div SpatialThreshold

(* veto                                                                      *)
Veto(similarity, open) == IF open THEN similarity ELSE 0

PairSimilarity(s, t) ==
    CASE scene.matcher = "appearance" -> AppearanceSimilarity(s, t)
      [] scene.matcher = "spatial" -> SpatialSimilarity(s, t)
      [] scene.matcher = "gated" -> Veto(AppearanceSimilarity(s, t), GateOpen(s, t))

(* mergeable_mask                                                            *)
Mergeable(s, t) == SeenBy[s] # SeenBy[t]

(* to_distance                                                               *)
ToDistance(s, t) ==
    IF s = t THEN 0
    ELSE IF PairSimilarity(s, t) > 0 /\ Mergeable(s, t) THEN 100 - PairSimilarity(s, t)
    ELSE NeverMerge

(* stack_embeddings: all tracks have an embedding, or the instant is refused.*)
Refused == scene.matcher # "spatial" /\ scene.bare # {}

------------------------------------------------------------------------------
(* Evidence the matcher does not look at, or never gets to, is not varied.   *)
MatchingInit ==
    /\ scene \in [matcher : Matchers, looks : [Tracks -> Looks], feet : [Tracks -> Feet],
                  sizes : [{c \in DOMAIN Calibrations : Calibrations[c] # 0} -> Sizes],
                  bare : {{}, Tracks}]
    /\ scene.matcher = "spatial" \/ scene.bare # {} => scene.looks = [t \in Tracks |-> 0]
    /\ scene.matcher = "appearance" \/ scene.bare # {} =>
          /\ scene.feet = [t \in Tracks |-> Min(Feet)]
          /\ \A c \in DOMAIN scene.sizes : scene.sizes[c] = 1
    /\ distances = <<>>
    /\ grouping = {{t} : t \in Tracks}
    /\ linkage = "build"

(* build, in either matcher.                                                 *)
Build ==
    /\ linkage = "build" /\ ~Refused
    /\ distances' = [pair \in Tracks \X Tracks |-> ToDistance(pair[1], pair[2])]
    /\ linkage' = "merge"
    /\ UNCHANGED <<scene, grouping>>

Refuse == /\ linkage = "build" /\ Refused
          /\ linkage' = "refused"
          /\ UNCHANGED <<scene, distances, grouping>>

(* Twelve times the average distance of two clusters: their sizes divide it. *)
Average(g, h) ==
    (SumFunction([pair \in g \X h |-> distances[pair]]) * 12)
      \div (Cardinality(g) * Cardinality(h))

GroupPairs == {pair \in grouping \X grouping : pair[1] # pair[2]}

Within == {pair \in GroupPairs : Average(pair[1], pair[2]) <= 12 * DistanceThreshold}

(* linkage and fcluster (fit_predict): the two closest clusters become one,  *)
(* up to the cut.                                                            *)
Merge ==
    /\ linkage = "merge"
    /\ \E pair \in Within :
          /\ \A other \in Within : Average(pair[1], pair[2]) <= Average(other[1], other[2])
          /\ grouping' = (grouping \ {pair[1], pair[2]}) \cup {pair[1] \cup pair[2]}
    /\ UNCHANGED <<scene, distances, linkage>>

Cut == /\ linkage = "merge" /\ Within = {}
       /\ linkage' = "cut"
       /\ UNCHANGED <<scene, distances, grouping>>

MatchingNext == Build \/ Refuse \/ Merge \/ Cut

MatchingSpec == MatchingInit /\ [][MatchingNext]_matching

------------------------------------------------------------------------------
(* How far apart two tracks really are, in the map's units.                  *)
Really(s, t) == 2 * Gap(scene.feet[s], scene.feet[t])

(* What the matcher has to go by says that two tracks may be one object.     *)
MayBeOne(s, t) ==
    LET judged == Calibrations[SeenBy[s]] # 0 /\ Calibrations[SeenBy[t]] # 0
        alike == Gap(scene.looks[s], scene.looks[t]) <= 1
        near == Really(s, t) < SpatialThreshold
    IN CASE scene.matcher = "appearance" -> alike
         [] scene.matcher = "spatial" -> judged /\ near
         [] scene.matcher = "gated" -> alike /\ (judged => near)

(* Averaging never talks two tracks into one identity: every two members of  *)
(* a cluster are of different cameras and have evidence of their own (base.py*)
(* to_distance), judged by where they really stand, whatever size their      *)
(* frames come in and whether or not the frame cuts them off; and clusters   *)
(* that stay apart are further apart than the cut.                           *)
ClustersAreEvidence ==
    linkage = "cut" =>
        /\ UNION grouping = Tracks
        /\ \A g, h \in grouping : g # h => g \cap h = {} /\ Average(g, h) > 12 * DistanceThreshold
        /\ \A g \in grouping : \A s, t \in g :
              s # t => SeenBy[s] # SeenBy[t] /\ MayBeOne(s, t)
================================================================================
