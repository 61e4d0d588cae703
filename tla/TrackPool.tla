------------------------------- MODULE TrackPool -------------------------------
(***************************************************************************)
(* shipvision/mot/pool.py: the bookkeeping every single-camera tracker      *)
(* shares, as operators on a pool.  Row i of every column describes         *)
(* tracks[i]; the trackers differ only in which rows they match with which  *)
(* detections.                                                              *)
(*                                                                          *)
(* What is abstracted.  A Kalman state is the last detection it was         *)
(* corrected with, how many frames it has been advanced since the track was *)
(* born, and the camera pose its coordinates are in; a measurement is the   *)
(* detection it came from and its pose.  Boxes, scores, classes and         *)
(* appearance vectors are left out.                                         *)
(***************************************************************************)
EXTENDS Integers, Sequences, FiniteSets, SequencesExt

CONSTANTS MaxAge,     \* max_age: frames a confirmed track survives unmatched
          MinHits     \* min_hits: matches before a track is published

ASSUME LifecycleAssumption == MaxAge \in Nat \ {0} /\ MinHits \in Nat \ {0}

(* A new pool: how many past measurements it keeps per track, and whether it *)
(* rebuilds the filter of a track that is found again.                       *)
EmptyPool(history, reUpdate) ==
    [history |-> history, reUpdate |-> reUpdate, tracks |-> <<>>, means |-> <<>>,
     observedMeans |-> <<>>, observed |-> <<>>, observations |-> <<>>]

(* reset: what the pool was built with stays.                                *)
Emptied(p) == EmptyPool(p.history, p.reUpdate)

Columns == {"tracks", "means", "observedMeans", "observed", "observations"}

RowsOf(p) == DOMAIN p.tracks

(* predict: every track ages, every filter is advanced.                     *)
Predict(p) ==
    [p EXCEPT !.tracks = [i \in RowsOf(p) |-> [p.tracks[i] EXCEPT !.age = @ + 1]],
              !.means = [i \in RowsOf(p) |-> [p.means[i] EXCEPT !.time = @ + 1]]]

InPose(position, pose) == [position EXCEPT !.pose = pose]

(* apply_camera_motion: all that is remembered of image positions moves.    *)
ApplyCameraMotion(p, motion) ==
    [p EXCEPT
        !.means = [i \in RowsOf(p) |-> InPose(p.means[i], p.means[i].pose + motion)],
        !.observedMeans = [i \in RowsOf(p) |->
            InPose(p.observedMeans[i], p.observedMeans[i].pose + motion)],
        !.observed = [i \in RowsOf(p) |-> InPose(p.observed[i], p.observed[i].pose + motion)],
        !.observations = [i \in RowsOf(p) |->
            [j \in DOMAIN p.observations[i] |->
                [p.observations[i][j] EXCEPT !.measured = InPose(@, @.pose + motion)]]]]

(* _promote_if_earned                                                        *)
Promoted(track) ==
    IF track.state = "tentative" /\ track.hits >= MinHits
    THEN [track EXCEPT !.state = "confirmed"] ELSE track

(* Mutant of ReUpdated: the last predict, into this frame, is forgotten.    *)
ReUpdatedToTheGap(p, i) ==
    IF p.reUpdate /\ p.tracks[i].time_since_update >= 1
    THEN [p.observedMeans[i] EXCEPT !.time = @ + p.tracks[i].time_since_update]
    ELSE p.means[i]

(* _re_update_gaps: the filter goes back to the last observation and is run  *)
(* through one invented measurement per missed frame, then into this frame.  *)
ReUpdated(p, i) ==
    IF p.reUpdate /\ p.tracks[i].time_since_update >= 1
    THEN [p.observedMeans[i] EXCEPT !.time = @ + p.tracks[i].time_since_update + 1]
    ELSE p.means[i]

(* Mutant of RingLength: the ring is as long as the span it measures.        *)
RingShort(history) == IF history > 2 THEN history - 1 ELSE 1

(* The ring holds the latest measurement at least.                           *)
RingLength(history) == IF history > 1 THEN history ELSE 1

(* A bounded deque: the oldest measurement makes room.                       *)
Remember(history, ring, entry) ==
    LET longer == Append(ring, entry) IN
    IF Len(longer) > RingLength(history) THEN Tail(longer) ELSE longer

Matched(track) ==
    LET hit == [track EXCEPT !.hits = @ + 1, !.time_since_update = 0] IN
    IF hit.state = "lost" THEN [hit EXCEPT !.state = "confirmed"] ELSE Promoted(hit)

(* apply_matches: matches is a function from rows to detections, pose the    *)
(* camera pose this frame's detections are in.                               *)
ApplyMatches(p, matches, pose) ==
    LET hit == DOMAIN matches
        Of(i) == [det |-> matches[i], pose |-> pose]
        corrected == [i \in RowsOf(p) |->
            IF i \in hit THEN [ReUpdated(p, i) EXCEPT !.last = matches[i]] ELSE p.means[i]]
    IN [p EXCEPT
        !.tracks = [i \in RowsOf(p) |-> IF i \in hit THEN Matched(p.tracks[i])
                                                    ELSE p.tracks[i]],
        !.means = corrected,
        !.observedMeans = [i \in RowsOf(p) |-> IF i \in hit THEN corrected[i]
                                                           ELSE p.observedMeans[i]],
        !.observed = [i \in RowsOf(p) |-> IF i \in hit THEN Of(i) ELSE p.observed[i]],
        !.observations = [i \in RowsOf(p) |->
            IF i \in hit
            THEN Remember(p.history, p.observations[i],
                          [age |-> p.tracks[i].age, measured |-> Of(i)])
            ELSE p.observations[i]]]

Missed(track) ==
    LET late == [track EXCEPT !.time_since_update = @ + 1] IN
    [late EXCEPT !.state = IF @ = "tentative" \/ late.time_since_update > MaxAge
                           THEN "removed" ELSE "lost"]

(* mark_missed                                                               *)
MarkMissed(p, rows) ==
    [p EXCEPT !.tracks = [i \in RowsOf(p) |-> IF i \in rows THEN Missed(p.tracks[i])
                                                            ELSE p.tracks[i]]]

Newborn(id) == Promoted([id |-> id, state |-> "tentative", age |-> 1, hits |-> 1,
                         time_since_update |-> 0])

(* spawn: a track for each of the detections nobody claimed, with the ids    *)
(* first + 1, first + 2, ... that next_track_id hands out.                   *)
Spawn(p, detections, first, pose) ==
    LET born == DOMAIN detections
        states == [j \in born |-> [last |-> detections[j], time |-> 0, pose |-> pose]]
        measurements == [j \in born |-> [det |-> detections[j], pose |-> pose]]
    IN [p EXCEPT
        !.tracks = @ \o [j \in born |-> Newborn(first + j)],
        !.means = @ \o states,
        !.observedMeans = @ \o states,
        !.observed = @ \o measurements,
        !.observations = @ \o [j \in born |-> <<[age |-> 1, measured |-> measurements[j]]>>]]

(* A set of numbers, the smallest first.                                     *)
InOrder(S) == CHOOSE s \in [1 .. Cardinality(S) -> S] : \A i, j \in DOMAIN s : i < j => s[i] < s[j]

(* The rows that stay.                                                       *)
Keep(p) == InOrder({i \in RowsOf(p) : p.tracks[i].state # "removed"})

(* Mutant of Sweep: the observation rings are not rebuilt.                   *)
SweepAllButTheRings(p) ==
    LET Kept(column) == [j \in DOMAIN Keep(p) |-> column[Keep(p)[j]]] IN
    [p EXCEPT !.tracks = Kept(@), !.means = Kept(@), !.observedMeans = Kept(@),
              !.observed = Kept(@), !.observations = SubSeq(@, 1, Len(Keep(p)))]

(* sweep: every column is rebuilt from the rows that stay.                   *)
Sweep(p) ==
    LET Kept(column) == [j \in DOMAIN Keep(p) |-> column[Keep(p)[j]]] IN
    [p EXCEPT !.tracks = Kept(@), !.means = Kept(@), !.observedMeans = Kept(@),
              !.observed = Kept(@), !.observations = Kept(@)]

(* Track.is_publishable: confirmed, and seen on this frame.                  *)
IsPublishable(track) == track.state = "confirmed" /\ track.time_since_update = 0

(* output: the ids a consumer is shown.                                      *)
Output(p) == {p.tracks[i].id : i \in {j \in RowsOf(p) : IsPublishable(p.tracks[j])}}

(* directions: the measurement a heading is taken from, for the latest one:  *)
(* the newest that is delta frames older, or the oldest there is.            *)
HeadingOrigin(ring, delta) ==
    LET latest == ring[Len(ring)].age
        old == {j \in DOMAIN ring : latest - ring[j].age >= delta}
    IN IF old = {} THEN ring[1] ELSE ring[CHOOSE j \in old : \A o \in old : o <= j]
================================================================================
