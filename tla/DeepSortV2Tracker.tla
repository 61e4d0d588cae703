---------------------------- MODULE DeepSortV2Tracker ----------------------------
(***************************************************************************)
(* shipvision/mot/trackers/deepsortv2/tracker.py: four associations, each   *)
(* on what the one before could not match, and one correction at the end.   *)
(* A: confirmed and lost rows; B: those of them seen recently; C: those B   *)
(* left, and the stale, unless they were last seen at the frame's edge;     *)
(* D: tentative rows.                                                       *)
(***************************************************************************)
EXTENDS BaseTracker

CONSTANT StageBMaxAge   \* stage_b_max_age

ASSUME StageAssumption == StageBMaxAge \in Nat

(* tracklet.py new_pool: a re-found track is rebuilt.                         *)
DeepSortV2Pool == EmptyPool(0, TRUE)

Merge(f, g) == [x \in DOMAIN f \cup DOMAIN g |-> IF x \in DOMAIN f THEN f[x] ELSE g[x]]

(* The detections a stage leaves to the next one, and the last to the births.*)
Unclaimed(columns, matching) == columns \ Taken(matching)

Tentative(p) == {r \in RowsOf(p) : p.tracks[r].state = "tentative"}

(* _recoverable: the border rule may keep any of the rows stage B left from  *)
(* stage C; with recover off it keeps all of them.                           *)
Recoverable(rows) == SUBSET rows

(* Everybody who found nothing: tried in vain by C or D, or kept from C.     *)
MissedAfterAll(candidates, left, third, tentative, fourth) ==
    (candidates \ DOMAIN third) \cup (tentative \ DOMAIN fourth) \cup (left \ candidates)

DeepSortV2Update(k) ==
    \E tag \in Accepted(k), n \in 0 .. MaxDetections :
    LET opened == Predict(pool[k])
        kept == DetectionsOf(tag, n, 0)
        tentative == Tentative(opened)
    IN
    \E a \in Matchings(RowsOf(opened) \ tentative, 1 .. n) :
    LET leftA == (RowsOf(opened) \ tentative) \ DOMAIN a
        recent == {r \in leftA : opened.tracks[r].time_since_update <= StageBMaxAge}
    IN
    \E b \in Matchings(recent, Unclaimed(1 .. n, a)) :
    LET leftB == leftA \ DOMAIN b
        columnsB == Unclaimed(Unclaimed(1 .. n, a), b)
    IN
    \E candidates \in Recoverable(leftB) :
    \E c \in Matchings(candidates, columnsB) :
    \E d \in Matchings(tentative, Unclaimed(columnsB, c)) :
    LET matches == Merge(Merge(a, b), Merge(c, d))
        given == [r \in DOMAIN matches |-> kept[matches[r]]]
    IN Finish(k, tag, ApplyMatches(opened, given, 0), given,
              MissedAfterAll(candidates, leftB, c, tentative, d),
              Pick(kept, Unclaimed(Unclaimed(columnsB, c), d)), 0)

================================================================================
