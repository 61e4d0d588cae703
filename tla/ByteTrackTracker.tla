----------------------------- MODULE ByteTrackTracker -----------------------------
(***************************************************************************)
(* shipvision/mot/trackers/bytetrack/tracker.py: the confident detections   *)
(* are associated with every row, the doubtful ones with the trusted rows   *)
(* that are left.  Detections below low_threshold never reach it.           *)
(***************************************************************************)
EXTENDS BaseTracker

(* tracklet.py new_pool                                                       *)
ByteTrackPool == EmptyPool(0, FALSE)

(* Mutant of Eligible: every row left is offered a second chance.            *)
EligibleAll(p, rows) == rows

(* Stage two is for tracks that have earned it.                              *)
Eligible(p, rows) == {r \in rows : p.tracks[r].state \in {"confirmed", "lost"}}

(* The rows offered in vain, and those not offered again.                    *)
FoundNothing(left, eligible, second) == (eligible \ DOMAIN second) \cup (left \ eligible)

(* update from the opened pool on; only a confident detection may start a    *)
(* track.  Two stages, each corrected before the next one looks at the       *)
(* states; most is the bound on the frame's detections.                      *)
TwoStages(k, tag, opened, pose, most) ==
    \E confident \in 0 .. most : \E doubtful \in 0 .. most - confident :
    \E first \in Matchings(RowsOf(opened), 1 .. confident) :
    LET detections == DetectionsOf(tag, confident, doubtful)
        Given(m) == [r \in DOMAIN m |-> detections[m[r]]]
        once == ApplyMatches(opened, Given(first), pose)
        left == RowsOf(opened) \ DOMAIN first
        eligible == Eligible(once, left)
    IN \E second \in Matchings(eligible, (confident + 1) .. (confident + doubtful)) :
        LET both == [r \in DOMAIN first \cup DOMAIN second |->
                        IF r \in DOMAIN first THEN first[r] ELSE second[r]]
            newcomers == (1 .. confident) \ Taken(first)
        IN Finish(k, tag, ApplyMatches(once, Given(second), pose), Given(both),
                  FoundNothing(left, eligible, second), Pick(detections, newcomers), pose)

(* _compensate does nothing here.                                            *)
ByteTrackUpdate(k) == \E tag \in Accepted(k) : TwoStages(k, tag, Predict(pool[k]), 0, MaxDetections)
================================================================================
