------------------------------ MODULE OcSortTracker ------------------------------
(***************************************************************************)
(* shipvision/mot/trackers/ocsort/tracker.py: SORT's association, then a    *)
(* recovery that offers the detections left to the trusted rows left,       *)
(* against their last observation.                                          *)
(***************************************************************************)
EXTENDS BaseTracker

CONSTANT DeltaT    \* delta_t: frames a heading is measured over

ASSUME HeadingAssumption == DeltaT \in Nat \ {0}

(* tracklet.py new_pool: the ring is one longer than the span it measures,   *)
(* and the re-update is on.                                                  *)
OcSortPool == EmptyPool(DeltaT + 1, TRUE)

Trusted(p, rows) == {r \in rows : p.tracks[r].state \in {"confirmed", "lost"}}

(* Mutant of Leftovers: the births are counted before the recovery.          *)
LeftoversOfTheFirst(n, first, second) == (1 .. n) \ Taken(first)

(* Both associations take their detections out of what may be born.          *)
Leftovers(n, first, second) == (1 .. n) \ (Taken(first) \cup Taken(second))

(* update; with recover off it is one that recovers nothing.                 *)
OcSortUpdate(k) ==
    \E tag \in Accepted(k), n \in 0 .. MaxDetections :
    \E first \in Matchings(Rows(k), 1 .. n) :
    LET kept == DetectionsOf(tag, n, 0)
        Given(m) == [r \in DOMAIN m |-> kept[m[r]]]
        once == ApplyMatches(Predict(pool[k]), Given(first), 0)
        left == Rows(k) \ DOMAIN first
        eligible == Trusted(once, left)
    IN \E second \in Matchings(eligible, (1 .. n) \ Taken(first)) :
        LET both == [r \in DOMAIN first \cup DOMAIN second |->
                        IF r \in DOMAIN first THEN first[r] ELSE second[r]]
            missed == (eligible \ DOMAIN second) \cup (left \ eligible)
        IN Finish(k, tag, ApplyMatches(once, Given(second), 0), Given(both), missed,
                  Pick(kept, Leftovers(n, first, second)), 0)
================================================================================
