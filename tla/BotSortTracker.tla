------------------------------ MODULE BotSortTracker ------------------------------
(***************************************************************************)
(* shipvision/mot/trackers/botsort/tracker.py: ByteTrack's two stages, on   *)
(* predictions moved into the frame by what a camera-motion estimator       *)
(* (shipvision/mot/motion/cmc) says of the motion since the last frame.     *)
(*                                                                          *)
(* A camera pose is a number, a motion a difference of poses.  Telemetry,   *)
(* when it is there, and optical flow, when it finds any, are right: what is*)
(* at stake is which motion is applied when.                                *)
(***************************************************************************)
EXTENDS ByteTrackTracker

CONSTANTS Estimators,  \* among "external", "strict" (external, strict=True), "sparse_flow"
          MaxMotion,   \* bound: how far the camera moves between two frames
          MaxMoving    \* bound: detections on a frame of a camera that moves

ASSUME EstimatorAssumption ==
    /\ Estimators \subseteq {"external", "strict", "sparse_flow"}
    /\ MaxMotion \in Nat /\ MaxMoving \in Nat

(* None is neither an affine nor an image.                                   *)
ASSUME SilenceAssumption == None \notin [motion : Int, stale : BOOLEAN] \cup [pose : Int]

VARIABLES estimator,  \* per tracker: the estimator it was built with, or None
          pending,    \* external.py _pending: the affine pushed, and whether its frame is gone
          reference,  \* sparse_flow.py _previous: the pose of the last image, or None
          pose,       \* history: the camera's pose on the last frame opened
          measured,   \* history: no frame was opened without a motion to apply to it
          applied     \* history: the affine the last frame was met with, or None

cmcVars == <<estimator, pending, reference, pose, measured, applied>>

(* BoT-SORT's pool is ByteTrack's.                                            *)
BotSortPool == ByteTrackPool

(* push: the caller hands over the motion into a frame just before the       *)
(* frame; the last one pushed counts.                                        *)
Pushed(k, telemetry) ==
    IF telemetry = None THEN pending[k] ELSE [motion |-> telemetry, stale |-> FALSE]

(* The telemetry a frame may come with, and the motion there was.            *)
Telemetry(k) == IF estimator[k] = "sparse_flow" THEN {None} ELSE (0 .. MaxMotion) \cup {None}

Motions(telemetry) == IF telemetry = None THEN 0 .. MaxMotion ELSE {telemetry}

(* Whether two images show the flow between them: corners, inliers, a fit.   *)
Found(k) ==
    IF estimator[k] = "sparse_flow" /\ reference[k] # None THEN BOOLEAN ELSE {TRUE}

(* Mutant of Estimate: optical flow is measured from the last frame opened.  *)
EstimateFromLastFrame(k, affine, now, found) ==
    IF estimator[k] = "sparse_flow" THEN IF found THEN now - pose[k] ELSE 0
    ELSE IF affine = None THEN 0 ELSE affine.motion

(* The affine an estimator returns for a frame whose pose is now: silence, a *)
(* first image, or flow that is not found, means no motion.                  *)
Estimate(k, affine, now, found) ==
    IF estimator[k] = "sparse_flow"
    THEN IF found /\ reference[k] # None THEN now - reference[k].pose ELSE 0
    ELSE IF affine = None THEN 0 ELSE affine.motion

(* estimate raises: strict and nothing pushed, or no image to look at.       *)
MayRaise(k, affine) == \/ estimator[k] = "strict" /\ affine = None
                       \/ estimator[k] = "sparse_flow"

MayReturn(k, affine) == ~(estimator[k] = "strict" /\ affine = None)

(* The estimators of the trackers, at rest.                                   *)
CmcInit ==
    /\ pending = [k \in Trackers |-> None]
    /\ reference = [k \in Trackers |-> None]
    /\ pose = [k \in Trackers |-> 0]
    /\ measured = [k \in Trackers |-> TRUE]
    /\ applied = [k \in Trackers |-> None]

(* What estimate leaves: the affine is consumed, also when it raises.        *)
Consume(k) == pending' = [pending EXCEPT ![k] = None]

(* Telemetry came with the frame; images make up for one that was missed, as *)
(* long as flow is found and the image compared with is not replaced.        *)
Told(k, telemetry, found) ==
    IF estimator[k] = "sparse_flow" THEN found ELSE telemetry # None

(* The estimator's part of a frame it has an affine for.                     *)
Estimated(k, telemetry, affine, now, found) ==
    /\ MayReturn(k, affine)
    /\ Consume(k)
    /\ reference' = [reference EXCEPT ![k] = [pose |-> now]]
    /\ pose' = [pose EXCEPT ![k] = now]
    /\ measured' = [measured EXCEPT ![k] = @ /\ Told(k, telemetry, found)]
    /\ applied' = [applied EXCEPT ![k] = affine]
    /\ UNCHANGED estimator

(* And of a frame for which it raises: without an image, or inside of cv2,   *)
(* when the image has already taken the place of the last one.               *)
EstimateRaised(k, telemetry, motion) ==
    /\ MayRaise(k, Pushed(k, telemetry))
    /\ Consume(k)
    /\ pose' = [pose EXCEPT ![k] = @ + motion]
    /\ \/ UNCHANGED reference
       \/ /\ estimator[k] = "sparse_flow"
          /\ reference' = [reference EXCEPT ![k] = [pose |-> pose[k] + motion]]
    /\ measured' = [measured EXCEPT ![k] = @ /\ Told(k, telemetry, reference' = reference)]
    /\ UNCHANGED <<estimator, applied>>

(* A frame begin() refuses was pushed for like any other.                    *)
PushedInVain(k) ==
    /\ \E telemetry \in Telemetry(k) : pending' = [pending EXCEPT ![k] =
           LET affine == Pushed(k, telemetry) IN
           IF affine = None THEN None ELSE [affine EXCEPT !.stale = TRUE]]
    /\ UNCHANGED <<estimator, reference, pose, measured, applied>>

(* The estimator's reset.                                                    *)
CmcReset(k) ==
    /\ Consume(k)
    /\ reference' = [reference EXCEPT ![k] = None]
    /\ pose' = [pose EXCEPT ![k] = 0]
    /\ measured' = [measured EXCEPT ![k] = TRUE]
    /\ UNCHANGED <<estimator, applied>>

BotSortUpdate(k) ==
    \E tag \in Accepted(k), telemetry \in Telemetry(k), found \in Found(k) :
    \E motion \in Motions(telemetry) :
    LET affine == Pushed(k, telemetry)
        now == pose[k] + motion
    IN /\ TwoStages(k, tag, ApplyCameraMotion(Predict(pool[k]), Estimate(k, affine, now, found)), now,
                    MaxMoving)
       /\ Estimated(k, telemetry, affine, now, found)

(* begin() has let the frame in, and advanced the filters, and estimate raises. *)
BotSortRaise(k) ==
    \E tag \in Accepted(k), telemetry \in Telemetry(k) : \E motion \in Motions(telemetry) :
        EstimateRaised(k, telemetry, motion) /\ Abandon(k, tag, Predict(pool[k]))

BotSortRefuse(k) == Refuse(k) /\ PushedInVain(k)

(* reset: the tracker's and the estimator's.                                 *)
BotSortReset(k) == Reset(k) /\ CmcReset(k)
================================================================================
