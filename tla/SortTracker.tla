------------------------------- MODULE SortTracker -------------------------------
(***************************************************************************)
(* shipvision/mot/trackers/sort/tracker.py: one association per frame       *)
(* between every row and every detection above det_threshold.               *)
(***************************************************************************)
EXTENDS BaseTracker

(* tracklet.py new_pool: nothing beyond the base.                             *)
SortPool == EmptyPool(0, FALSE)

(* update: the matching is whatever the costs and the gate make of it.       *)
SortUpdate(k) ==
    \E tag \in Accepted(k), n \in 0 .. MaxDetections :
    \E matches \in Matchings(Rows(k), 1 .. n) :
    LET kept == DetectionsOf(tag, n, 0)
        given == [r \in DOMAIN matches |-> kept[matches[r]]]
    IN Finish(k, tag, ApplyMatches(Predict(pool[k]), given, 0), given,
              Rows(k) \ DOMAIN matches, Pick(kept, (1 .. n) \ Taken(matches)), 0)

================================================================================
