------------------------------- MODULE BaseTracker -------------------------------
(***************************************************************************)
(* shipvision/mot/base.py: the state of a set of trackers in one process,   *)
(* what every tracker does to open a frame (begin) and to close it, and     *)
(* what a set of tracks must satisfy whichever algorithm keeps it.  The     *)
(* algorithms extend this module and differ in the association between.     *)
(*                                                                          *)
(* An update() is one action: one thread serves one tracker, and trackers   *)
(* share only the atomic id counter.                                        *)
(***************************************************************************)
EXTENDS TrackPool

CONSTANTS Trackers,       \* tracker instances
          Cameras,        \* camera_id values
          MaxFrame,       \* bound: the largest frame_id
          MaxUpdates,     \* bound: calls of update() between them
          MaxDetections,  \* bound: detections on a frame
          MaxIssued,      \* bound: track ids the process hands out
          None            \* no frame yet

VARIABLES pool,       \* TrackPool per tracker
          lastTag,    \* _last_tag per tracker
          issued,     \* _TRACK_IDS: ids handed out so far
          answer,     \* what the last update() of a tracker returned, or that it raised
          completed,  \* history: update() calls of a tracker that returned
          calls,      \* history: update() calls made
          sightings   \* history: id -> the detections it was given, with their frame

baseVars == <<pool, lastTag, issued, answer, completed, calls, sightings>>

Raised == [ok |-> FALSE, ids |-> {}]
Returned(ids) == [ok |-> TRUE, ids |-> ids]

Tags == [camera : Cameras, frame : 1 .. MaxFrame]

ASSUME FrameAssumption == MaxFrame \in Nat /\ MaxDetections \in Nat /\ None \notin Tags

Detection(tag, column, tier) ==
    [camera |-> tag.camera, frame |-> tag.frame, column |-> column, tier |-> tier]

(* A frame's detections: the confident ones first.                           *)
DetectionsOf(tag, confident, doubtful) ==
    [j \in 1 .. confident + doubtful |->
        Detection(tag, j, IF j <= confident THEN "high" ELSE "low")]

(* begin: one camera, and its frames in order.                               *)
Accepts(k, tag) ==
    lastTag[k] # None => /\ tag.camera = lastTag[k].camera
                         /\ tag.frame > lastTag[k].frame

(* Every way to give some of the rows a detection each.                      *)
Matchings(rows, columns) ==
    {m \in UNION {[R -> columns] : R \in SUBSET rows} :
        \A r, s \in DOMAIN m : m[r] = m[s] => r = s}

Taken(matching) == {matching[r] : r \in DOMAIN matching}

(* The detections of the given columns, in their order.                      *)
Pick(detections, columns) ==
    LET order == InOrder(columns) IN [j \in DOMAIN order |-> detections[order[j]]]

(* The trackers are built around the pools their algorithms ask for.         *)
BaseInit(pools) ==
    /\ pool = pools
    /\ lastTag = [k \in Trackers |-> None]
    /\ issued = 0
    /\ answer = [k \in Trackers |-> Returned({})]
    /\ completed = [k \in Trackers |-> 0]
    /\ calls = 0
    /\ sightings = <<>>

Called == calls < MaxUpdates /\ calls' = calls + 1

(* The frames begin() lets in; the rest of an update() is for one of them.   *)
Accepted(k) == {tag \in Tags : calls < MaxUpdates /\ Accepts(k, tag)}

Refused(k) == {tag \in Tags : ~Accepts(k, tag)}

(* A frame begin() refuses: nothing has happened to the tracker.             *)
Refuse(k) ==
    /\ Called /\ Refused(k) # {}
    /\ answer' = [answer EXCEPT ![k] = Raised]
    /\ UNCHANGED <<pool, lastTag, issued, completed, sightings>>

(* Mutant of Abandon: a frame that fails is a frame every track missed.      *)
AbandonMissing(k, tag, opened) ==
    /\ Called
    /\ lastTag' = [lastTag EXCEPT ![k] = tag]
    /\ pool' = [pool EXCEPT ![k] = Sweep(MarkMissed(opened, RowsOf(opened)))]
    /\ answer' = [answer EXCEPT ![k] = Raised]
    /\ UNCHANGED <<issued, completed, sightings>>

(* A frame that fails between begin() and the pool: it counts as processed   *)
(* for begin(), the filters are a frame further, and no track was missed.    *)
Abandon(k, tag, opened) ==
    /\ Called
    /\ lastTag' = [lastTag EXCEPT ![k] = tag]
    /\ pool' = [pool EXCEPT ![k] = opened]
    /\ answer' = [answer EXCEPT ![k] = Raised]
    /\ UNCHANGED <<issued, completed, sightings>>

(* The end of every update(): the rows that found nothing are missed, the    *)
(* detections nobody wanted are born, the removed go, the rest is published. *)
(* matched is the pool after its corrections, given what the corrections     *)
(* gave each row.                                                            *)
Finish(k, tag, matched, given, missed, leftovers, pose) ==
    LET closed == Sweep(Spawn(MarkMissed(matched, missed), leftovers, issued, pose))
        born == issued + Len(leftovers)
        frame == completed[k] + 1
        row == [id \in {matched.tracks[i].id : i \in DOMAIN given} |->
                    CHOOSE i \in DOMAIN given : matched.tracks[i].id = id]
    IN /\ Called /\ born <= MaxIssued
       /\ lastTag' = [lastTag EXCEPT ![k] = tag]
       /\ pool' = [pool EXCEPT ![k] = closed]
       /\ issued' = born
       /\ answer' = [answer EXCEPT ![k] = Returned(Output(closed))]
       /\ completed' = [completed EXCEPT ![k] = frame]
       /\ sightings' = [id \in 1 .. born |->
              IF id > issued THEN <<[frame |-> frame, det |-> leftovers[id - issued]]>>
              ELSE IF id \in DOMAIN row
              THEN Append(sightings[id], [frame |-> frame, det |-> given[row[id]]])
              ELSE sightings[id]]

(* reset: continuity is broken, the numbers go on.                           *)
Reset(k) ==
    /\ pool' = [pool EXCEPT ![k] = Emptied(@)]
    /\ lastTag' = [lastTag EXCEPT ![k] = None]
    /\ UNCHANGED <<issued, answer, completed, calls, sightings>>

------------------------------------------------------------------------------
Rows(k) == RowsOf(pool[k])

Seen(track) == sightings[track.id]

(* Row i of every array describes tracks[i] (pool.py, "The invariant the     *)
(* whole class exists to keep"): after any matching, re-update and sweep,    *)
(* the filter, the last observation and the ring hold the detections that    *)
(* were given to that very track.                                            *)
RowsAligned ==
    \A k \in Trackers :
    /\ \A column \in Columns : Len(pool[k][column]) = Len(pool[k].tracks)
    /\ \A i \in Rows(k) :
        LET seen == Seen(pool[k].tracks[i])
            ring == pool[k].observations[i]
        IN /\ pool[k].means[i].last = Last(seen).det
           /\ pool[k].observedMeans[i].last = Last(seen).det
           /\ pool[k].observed[i].det = Last(seen).det
           /\ [j \in DOMAIN ring |-> ring[j].measured.det]
                = [j \in DOMAIN ring |-> seen[Len(seen) - Len(ring) + j].det]
           /\ LET length == RingLength(pool[k].history) IN
                Len(ring) = IF Len(seen) < length THEN Len(seen) ELSE length

(* A track's clocks are where the frames say: its filter has been advanced   *)
(* once per frame the tracker opened since it was born, by predictions or,   *)
(* after a gap, by the re-update that replays the gap (pool.py               *)
(* _re_update_gaps); time_since_update counts the frames finished since it   *)
(* was last given a detection, and hits those it was given: no row is        *)
(* skipped, or counted twice, by a chain of association stages.              *)
FilterTime ==
    \A k \in Trackers : \A i \in Rows(k) :
        LET track == pool[k].tracks[i] IN
        /\ pool[k].means[i].time = track.age - 1
        /\ track.time_since_update = completed[k] - Last(Seen(track)).frame
        /\ track.hits = Len(Seen(track))

(* A track is trusted only after MinHits detections on as many consecutive   *)
(* frames - one miss while tentative ends it (pool.py mark_missed) - and     *)
(* all of them confident: "a low-confidence false positive can never create  *)
(* an identity", however ByteTrack and BoT-SORT match the doubtful ones in   *)
(* between.                                                                  *)
TrustIsEarned ==
    \A k \in Trackers : \A i \in Rows(k) :
        LET seen == Seen(pool[k].tracks[i]) IN
        pool[k].tracks[i].state # "tentative" =>
            /\ Len(seen) >= MinHits
            /\ \A j \in 2 .. MinHits : seen[j].frame = seen[j - 1].frame + 1
            /\ \A j \in 1 .. MinHits : seen[j].det.tier = "high"

(* The detections a live track was ever given are frames of one camera, in   *)
(* order, and no detection is in two tracks: neither two stages, nor a       *)
(* stage and the births, nor a replay use one twice.                         *)
OneObjectPerTrack ==
    LET live == UNION {{pool[k].tracks[i].id : i \in Rows(k)} : k \in Trackers} IN
    /\ \A id \in live : \A i, j \in DOMAIN sightings[id] : i < j =>
        /\ sightings[id][i].det.camera = sightings[id][j].det.camera
        /\ sightings[id][i].det.frame < sightings[id][j].det.frame
    /\ \A k \in Trackers : \A i, j \in Rows(k) : i # j =>
        /\ pool[k].tracks[i].id # pool[k].tracks[j].id
        /\ \A s \in Range(Seen(pool[k].tracks[i])), t \in Range(Seen(pool[k].tracks[j])) :
            s.det # t.det
    /\ \A k, m \in Trackers : k # m =>
        \A i \in Rows(k), j \in Rows(m) : pool[k].tracks[i].id # pool[m].tracks[j].id

lives == [k \in Trackers |->
    [id \in {pool[k].tracks[i].id : i \in Rows(k)} |->
        LET i == CHOOSE j \in Rows(k) : pool[k].tracks[j].id = id IN
        [hits |-> pool[k].tracks[i].hits, missed |-> pool[k].tracks[i].time_since_update]]]

Contract == INSTANCE TrackerContract

(* Whatever its association, a tracker keeps the contract: who lives, who    *)
(* dies and who is published follow from what was seen and MaxAge, MinHits.  *)
KeepsContract == Contract!Spec
================================================================================
