------------------------------- MODULE MotTrackers -------------------------------
(***************************************************************************)
(* The single-camera trackers of one process, each built with one of the    *)
(* algorithms (shipvision/mot/registry.py), and what must hold of all of    *)
(* them.                                                                    *)
(***************************************************************************)
EXTENDS SortTracker, BotSortTracker, OcSortTracker, DeepSortV2Tracker

CONSTANT Algorithms   \* among "sort", "bytetrack", "botsort", "ocsort", "deepsortv2"

ASSUME AlgorithmAssumption ==
    Algorithms \subseteq {"sort", "bytetrack", "botsort", "ocsort", "deepsortv2"}

VARIABLE algorithm    \* per tracker: the algorithm it was built with

vars == <<algorithm, baseVars, cmcVars>>

NewPool(name) ==
    CASE name = "sort" -> SortPool
      [] name = "bytetrack" -> ByteTrackPool
      [] name = "botsort" -> BotSortPool
      [] name = "ocsort" -> OcSortPool
      [] name = "deepsortv2" -> DeepSortV2Pool

Init ==
    /\ algorithm \in [Trackers -> Algorithms]
    /\ estimator \in {e \in [Trackers -> Estimators \cup {None}] :
                        \A k \in Trackers : e[k] = None <=> algorithm[k] # "botsort"}
    /\ BaseInit([k \in Trackers |-> NewPool(algorithm[k])])
    /\ CmcInit

(* A tracker without an estimator.                                           *)
Plain(k) == algorithm[k] # "botsort" /\ UNCHANGED <<algorithm, cmcVars>>

WithMotion(k) == algorithm[k] = "botsort" /\ UNCHANGED algorithm

Next ==
    \E k \in Trackers :
        \/ Plain(k) /\ algorithm[k] = "sort" /\ SortUpdate(k)
        \/ Plain(k) /\ algorithm[k] = "bytetrack" /\ ByteTrackUpdate(k)
        \/ Plain(k) /\ algorithm[k] = "ocsort" /\ OcSortUpdate(k)
        \/ Plain(k) /\ algorithm[k] = "deepsortv2" /\ DeepSortV2Update(k)
        \/ Plain(k) /\ (Refuse(k) \/ Reset(k))
        \/ WithMotion(k) /\ (BotSortUpdate(k) \/ BotSortRaise(k))
        \/ WithMotion(k) /\ (BotSortRefuse(k) \/ BotSortReset(k))

Spec == Init /\ [][Next]_vars

------------------------------------------------------------------------------
(* The bounded ring is long enough: a heading is measured from the same      *)
(* observation as it would be with every observation kept, whatever frames   *)
(* the track missed (ocsort/tracklet.py, pool.py directions).                *)
RingSuffices ==
    \A k \in Trackers : algorithm[k] = "ocsort" => \A i \in Rows(k) :
        LET seen == Seen(pool[k].tracks[i])
            everything == [j \in DOMAIN seen |->
                [age |-> seen[j].frame - seen[1].frame + 1,
                 measured |-> [det |-> seen[j].det, pose |-> 0]]]
        IN HeadingOrigin(pool[k].observations[i], DeltaT) = HeadingOrigin(everything, DeltaT)

(* Everything the pool remembers of image positions is in the frame's own    *)
(* coordinates when the detections are compared with it: predictions, last   *)
(* observations and rings (pool.py apply_camera_motion), for as long as the  *)
(* camera's motion came with every frame, or was found in every image.       *)
OneReference ==
    \A k \in Trackers : (answer[k].ok /\ measured[k]) => \A i \in Rows(k) :
        /\ pool[k].means[i].pose = pose[k]
        /\ pool[k].observedMeans[i].pose = pose[k]
        /\ pool[k].observed[i].pose = pose[k]
        /\ \A entry \in Range(pool[k].observations[i]) : entry.measured.pose = pose[k]

(* external.py: each pushed affine is for one frame, and a stale one is never*)
(* applied to a later frame.                                                 *)
AffineMeetsItsFrame ==
    \A k \in Trackers : applied[k] # None => ~applied[k].stale
================================================================================
