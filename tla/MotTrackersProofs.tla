--------------------------- MODULE MotTrackersProofs ---------------------------
(***************************************************************************)
(* Theorems about MotTrackers: whichever algorithm a tracker was built      *)
(* with, for any number of trackers, frames and detections and any          *)
(* lifecycle.  First what the operators of TrackPool do to one row, then    *)
(* that every update() of every algorithm is one frame of the same shape,   *)
(* then the inductive invariant: what a row may look like, given the        *)
(* detections its track was given (`sightings').                            *)
(***************************************************************************)
EXTENDS MotTrackers, FiniteSetTheorems, SequenceTheorems, TLAPS

(* The types of what a pool holds.                                          *)
Detections == [camera : Cameras, frame : Nat, column : Nat, tier : {"high", "low"}]
Sightings == [frame : Nat, det : Detections]
Measurements == [det : Detections, pose : Int]
States == [last : Detections, time : Int, pose : Int]
Entries == [age : Nat, measured : Measurements]
TrackStates == {"tentative", "confirmed", "lost", "removed"}
TrackRecords == [id : Nat, state : TrackStates, age : Nat, hits : Nat, time_since_update : Nat]

Pools(n) == [history : Nat, reUpdate : BOOLEAN,
             tracks : [1 .. n -> TrackRecords], means : [1 .. n -> States],
             observedMeans : [1 .. n -> States], observed : [1 .. n -> Measurements],
             observations : [1 .. n -> Seq(Entries)]]

RowRecords == [track : TrackRecords, mean : States, observedMean : States,
               observed : Measurements, ring : Seq(Entries)]

Row(p, i) == [track |-> p.tracks[i], mean |-> p.means[i], observedMean |-> p.observedMeans[i],
              observed |-> p.observed[i], ring |-> p.observations[i]]

--------------------------------------------------------------------------------
(* What may be true of one row: seen are the detections its track was given, *)
(* done the frames its tracker has finished, tag the last one it opened.      *)

(* The columns hold the latest of what was seen.                             *)
Aligned(row, seen, history) ==
    LET latest == seen[Len(seen)].det IN
    /\ row.mean.last = latest
    /\ row.observedMean.last = latest
    /\ row.observed.det = latest
    /\ Len(row.ring) = IF Len(seen) < RingLength(history) THEN Len(seen) ELSE RingLength(history)
    /\ \A j \in 1 .. Len(row.ring) :
        row.ring[j].measured.det = seen[Len(seen) - Len(row.ring) + j].det

(* The clocks; where a track is rebuilt, its last observation's too.         *)
Clocked(row, seen, reUpdate, done) ==
    /\ row.track.hits = Len(seen)
    /\ row.track.time_since_update = done - seen[Len(seen)].frame
    /\ row.mean.time = row.track.age - 1
    /\ reUpdate => row.observedMean.time = row.track.age - 1 - row.track.time_since_update

(* Frames seen one after the other, and surely, up to the first count.       *)
Unbroken(seen, count) ==
    /\ \A j \in 2 .. count : seen[j].frame = seen[j - 1].frame + 1
    /\ \A j \in 1 .. count : seen[j].det.tier = "high"

(* The lifecycle: a miss ends a tentative track, MaxAge of them a lost one.  *)
Earned(row, seen) ==
    LET track == row.track IN
    /\ track.state = "tentative" =>
        /\ track.hits < MinHits /\ track.time_since_update = 0
        /\ Unbroken(seen, Len(seen))
    /\ track.state # "tentative" => track.hits >= MinHits /\ Unbroken(seen, MinHits)
    /\ track.state = "confirmed" => track.time_since_update = 0
    /\ track.state = "lost" => track.time_since_update \in 1 .. MaxAge
    /\ track.state # "removed"

(* One camera's frames, in their order, none of them ahead of the tracker.   *)
Ordered(seen, tag) ==
    /\ \A j \in DOMAIN seen : seen[j].det.camera = tag.camera /\ seen[j].det.frame <= tag.frame
    /\ \A i, j \in DOMAIN seen : i < j => seen[i].det.frame < seen[j].det.frame
                                           /\ seen[i].frame < seen[j].frame

RowInv(row, seen, history, reUpdate, done, tag) ==
    /\ seen \in Seq(Sightings) /\ seen # <<>>
    /\ Aligned(row, seen, history)
    /\ Clocked(row, seen, reUpdate, done)
    /\ Earned(row, seen)
    /\ Ordered(seen, tag)

NoneShared(seen, other) ==
    \A a \in DOMAIN seen, b \in DOMAIN other : seen[a].det # other[b].det

(* A tracker's rows: each right for what its track saw, no two for one track *)
(* and no detection in two of them.                                          *)
PoolInv(k) ==
    LET p == pool[k] IN
    /\ \E n \in Nat : p \in Pools(n)
    /\ p.history = NewPool(algorithm[k]).history
    /\ p.reUpdate = NewPool(algorithm[k]).reUpdate
    /\ Rows(k) # {} => lastTag[k] # None
    /\ \A i \in Rows(k) :
        /\ p.tracks[i].id \in 1 .. issued
        /\ RowInv(Row(p, i), Seen(p.tracks[i]), p.history, p.reUpdate, completed[k], lastTag[k])
    /\ \A i, j \in Rows(k) : i # j =>
        /\ p.tracks[i].id # p.tracks[j].id
        /\ NoneShared(Seen(p.tracks[i]), Seen(p.tracks[j]))

TypeOK ==
    /\ algorithm \in [Trackers -> Algorithms]
    /\ estimator \in [Trackers -> Estimators \cup {None}]
    /\ lastTag \in [Trackers -> Tags \cup {None}]
    /\ issued \in Nat
    /\ completed \in [Trackers -> Nat]
    /\ DOMAIN pool = Trackers
    /\ DOMAIN answer = Trackers
    /\ DOMAIN sightings = 1 .. issued
    /\ pose \in [Trackers -> Int]
    /\ pending \in [Trackers -> [motion : Int, stale : BOOLEAN] \cup {None}]
    /\ reference \in [Trackers -> [pose : Int] \cup {None}]
    /\ DOMAIN measured = Trackers

(* No track is two trackers'.                                               *)
IdsApart ==
    \A k, m \in Trackers : k # m =>
        \A i \in Rows(k), j \in Rows(m) : pool[k].tracks[i].id # pool[m].tracks[j].id

IInv ==
    /\ TypeOK
    /\ \A k \in Trackers : PoolInv(k)
    /\ IdsApart

--------------------------------------------------------------------------------
(* Poses: what is remembered of image positions is in one pose.              *)
InOnePose(row, position) ==
    /\ row.mean.pose = position /\ row.observedMean.pose = position
    /\ row.observed.pose = position
    /\ \A j \in DOMAIN row.ring : row.ring[j].measured.pose = position

(* A tracker that compares images.                                          *)
Flows(k) == estimator[k] = "sparse_flow" /\ algorithm[k] = "botsort"

PoseInv(k) ==
    /\ algorithm[k] # "botsort" => pose[k] = 0 /\ measured[k]
    /\ algorithm[k] = "botsort" => estimator[k] \in {"external", "strict", "sparse_flow"}
    /\ Flows(k) /\ measured[k] =>
        /\ Rows(k) # {} => reference[k] # None
        /\ reference[k] # None => /\ \A i \in Rows(k) : InOnePose(Row(pool[k], i), reference[k].pose)
                                  /\ answer[k].ok => reference[k].pose = pose[k]
    /\ ~Flows(k) /\ measured[k] =>
        \A i \in Rows(k) : InOnePose(Row(pool[k], i), pose[k])

(* OC-SORT's tracks are as old as the frames since they were first seen.     *)
AgesTold(row, seen, done) ==
    /\ row.track.age = done - seen[1].frame + 1
    /\ \A j \in 1 .. Len(row.ring) :
        row.ring[j].age = seen[Len(seen) - Len(row.ring) + j].frame - seen[1].frame + 1

AgeInv(k) ==
    algorithm[k] = "ocsort" => \A i \in Rows(k) :
        AgesTold(Row(pool[k], i), Seen(pool[k].tracks[i]), completed[k])

--------------------------------------------------------------------------------
(* What the operators of the pool do to one row.                            *)

AgedRow(r) == [track |-> [r.track EXCEPT !.age = @ + 1], mean |-> [r.mean EXCEPT !.time = @ + 1],
               observedMean |-> r.observedMean, observed |-> r.observed, ring |-> r.ring]

MovedRow(r, motion) ==
    [track |-> r.track,
     mean |-> InPose(r.mean, r.mean.pose + motion),
     observedMean |-> InPose(r.observedMean, r.observedMean.pose + motion),
     observed |-> InPose(r.observed, r.observed.pose + motion),
     ring |-> [j \in DOMAIN r.ring |->
                  [r.ring[j] EXCEPT !.measured = InPose(@, @.pose + motion)]]]

(* The filter a correction starts from.                                     *)
Rebuilt(r, reUpdate) ==
    IF reUpdate /\ r.track.time_since_update >= 1
    THEN [r.observedMean EXCEPT !.time = @ + r.track.time_since_update + 1]
    ELSE r.mean

HitRow(r, history, reUpdate, det, position) ==
    LET corrected == [Rebuilt(r, reUpdate) EXCEPT !.last = det] IN
    [track |-> Matched(r.track), mean |-> corrected, observedMean |-> corrected,
     observed |-> [det |-> det, pose |-> position],
     ring |-> Remember(history, r.ring,
                       [age |-> r.track.age, measured |-> [det |-> det, pose |-> position]])]

MissedRow(r) == [track |-> Missed(r.track), mean |-> r.mean, observedMean |-> r.observedMean,
                 observed |-> r.observed, ring |-> r.ring]

BornRow(id, det, position) ==
    LET state == [last |-> det, time |-> 0, pose |-> position]
        measurement == [det |-> det, pose |-> position]
    IN [track |-> Newborn(id), mean |-> state, observedMean |-> state, observed |-> measurement,
        ring |-> <<[age |-> 1, measured |-> measurement]>>]

LEMMA RowTyped ==
    ASSUME NEW n \in Nat, NEW p \in Pools(n), NEW i \in 1 .. n
    PROVE  /\ Row(p, i) \in RowRecords
           /\ RowsOf(p) = 1 .. n
  BY DEF Pools, RowRecords, Row, RowsOf

LEMMA MatchedTrack ==
    ASSUME NEW track \in TrackRecords
    PROVE  /\ Matched(track) \in TrackRecords
           /\ Matched(track).id = track.id /\ Matched(track).age = track.age
           /\ Matched(track).hits = track.hits + 1
           /\ Matched(track).time_since_update = 0
           /\ Matched(track).state =
                IF \/ track.state = "lost"
                   \/ track.state = "tentative" /\ track.hits + 1 >= MinHits
                THEN "confirmed" ELSE track.state
  <1> DEFINE hit == [track EXCEPT !.hits = @ + 1, !.time_since_update = 0]
  <1>0. /\ hit.id = track.id /\ hit.age = track.age /\ hit.state = track.state
        /\ hit.hits = track.hits + 1 /\ hit.time_since_update = 0
    BY DEF TrackRecords
  <1>1. hit \in TrackRecords
    <2> DEFINE counted == [track EXCEPT !.hits = @ + 1]
    <2>1. counted \in TrackRecords
      BY DEF TrackRecords
    <2>2. hit = [counted EXCEPT !.time_since_update = 0]
      OBVIOUS
    <2> HIDE DEF hit, counted
    <2> QED BY <2>1, <2>2 DEF TrackRecords
  <1>2. Matched(track) = IF \/ hit.state = "lost"
                            \/ hit.state = "tentative" /\ hit.hits >= MinHits
                         THEN [hit EXCEPT !.state = "confirmed"] ELSE hit
    BY DEF Matched, Promoted
  <1> HIDE DEF hit
  <1> QED BY <1>0, <1>1, <1>2 DEF TrackRecords, TrackStates

LEMMA MissedTrack ==
    ASSUME NEW track \in TrackRecords
    PROVE  /\ Missed(track) \in TrackRecords
           /\ Missed(track).id = track.id /\ Missed(track).age = track.age
           /\ Missed(track).hits = track.hits
           /\ Missed(track).time_since_update = track.time_since_update + 1
           /\ Missed(track).state =
                IF track.state = "tentative" \/ track.time_since_update >= MaxAge
                THEN "removed" ELSE "lost"
  <1> DEFINE late == [track EXCEPT !.time_since_update = @ + 1]
  <1>1. /\ late \in TrackRecords /\ late.id = track.id /\ late.age = track.age
        /\ late.hits = track.hits /\ late.state = track.state
        /\ late.time_since_update = track.time_since_update + 1
    BY DEF TrackRecords
  <1>2. Missed(track) = [late EXCEPT !.state =
            IF late.state = "tentative" \/ late.time_since_update > MaxAge THEN "removed" ELSE "lost"]
    BY DEF Missed
  <1>3. late.time_since_update > MaxAge <=> track.time_since_update >= MaxAge
    BY <1>1, LifecycleAssumption DEF TrackRecords
  <1> HIDE DEF late
  <1> QED BY <1>1, <1>2, <1>3 DEF TrackRecords, TrackStates

LEMMA NewbornTrack ==
    ASSUME NEW id \in Nat
    PROVE  /\ Newborn(id) \in TrackRecords
           /\ Newborn(id).id = id /\ Newborn(id).age = 1 /\ Newborn(id).hits = 1
           /\ Newborn(id).time_since_update = 0
           /\ Newborn(id).state = IF MinHits = 1 THEN "confirmed" ELSE "tentative"
  BY LifecycleAssumption DEF Newborn, Promoted, TrackRecords, TrackStates

(* A bounded deque keeps the latest entries.                                *)
LEMMA Remembered ==
    ASSUME NEW history \in Nat, NEW ring \in Seq(Entries), NEW entry \in Entries,
           Len(ring) <= RingLength(history)
    PROVE  LET new == Remember(history, ring, entry)
               length == IF Len(ring) < RingLength(history) THEN Len(ring) + 1
                                                            ELSE RingLength(history)
           IN /\ new \in Seq(Entries) /\ Len(new) = length
              /\ new[length] = entry
              /\ \A j \in 1 .. length - 1 : new[j] = ring[Len(ring) + 1 - length + j]
  <1> DEFINE longer == Append(ring, entry)
  <1>1. /\ longer \in Seq(Entries) /\ Len(longer) = Len(ring) + 1
        /\ longer[Len(ring) + 1] = entry
        /\ \A j \in 1 .. Len(ring) : longer[j] = ring[j]
    BY AppendProperties
  <1>2. RingLength(history) \in Nat \ {0} /\ Len(ring) \in Nat
    BY DEF RingLength
  <1>3. CASE Len(ring) < RingLength(history)
    <2>1. Remember(history, ring, entry) = longer
      BY <1>1, <1>2, <1>3 DEF Remember
    <2> QED BY <1>1, <1>2, <1>3, <2>1
  <1>4. CASE Len(ring) = RingLength(history)
    <2>1. Remember(history, ring, entry) = Tail(longer)
      BY <1>1, <1>2, <1>4 DEF Remember
    <2>2. longer # <<>>
      BY <1>1, <1>2
    <2>3. /\ Tail(longer) \in Seq(Entries) /\ Len(Tail(longer)) = Len(longer) - 1
          /\ \A j \in 1 .. Len(Tail(longer)) : Tail(longer)[j] = longer[j + 1]
      BY <1>1, <2>2, HeadTailProperties
    <2> HIDE DEF longer
    <2> QED BY <1>1, <1>2, <1>4, <2>1, <2>3
  <1> QED BY <1>2, <1>3, <1>4

LEMMA PredictRows ==
    ASSUME NEW n \in Nat, NEW p \in Pools(n)
    PROVE  /\ Predict(p) \in Pools(n)
           /\ Predict(p).history = p.history /\ Predict(p).reUpdate = p.reUpdate
           /\ \A i \in 1 .. n : Row(Predict(p), i) = AgedRow(Row(p, i))
  <1>1. RowsOf(p) = 1 .. n
    BY RowTyped DEF Pools, RowsOf
  <1> DEFINE aged == [i \in 1 .. n |-> [p.tracks[i] EXCEPT !.age = @ + 1]]
             further == [i \in 1 .. n |-> [p.means[i] EXCEPT !.time = @ + 1]]
  <1>2. Predict(p) = [p EXCEPT !.tracks = aged, !.means = further]
    BY <1>1 DEF Predict
  <1>3. p.tracks \in [1 .. n -> TrackRecords] /\ p.means \in [1 .. n -> States]
    BY DEF Pools
  <1>4. aged \in [1 .. n -> TrackRecords]
    <2>1. ASSUME NEW track \in TrackRecords PROVE [track EXCEPT !.age = @ + 1] \in TrackRecords
      BY DEF TrackRecords
    <2> QED BY <1>3, <2>1
  <1>5. further \in [1 .. n -> States]
    BY <1>3 DEF States
  <1>6. ASSUME NEW i \in 1 .. n PROVE Row(Predict(p), i) = AgedRow(Row(p, i))
    <2>1. AgedRow(Row(p, i)) =
            [track |-> [p.tracks[i] EXCEPT !.age = @ + 1], mean |-> [p.means[i] EXCEPT !.time = @ + 1],
             observedMean |-> p.observedMeans[i], observed |-> p.observed[i],
             ring |-> p.observations[i]]
      BY DEF Row, AgedRow
    <2>2. /\ Predict(p).tracks[i] = [p.tracks[i] EXCEPT !.age = @ + 1]
          /\ Predict(p).means[i] = [p.means[i] EXCEPT !.time = @ + 1]
          /\ Predict(p).observedMeans = p.observedMeans /\ Predict(p).observed = p.observed
          /\ Predict(p).observations = p.observations
      BY <1>2 DEF Pools
    <2> QED BY <2>1, <2>2 DEF Row
  <1> HIDE DEF aged, further
  <1> QED BY <1>2, <1>4, <1>5, <1>6 DEF Pools

LEMMA MovedRing ==
    ASSUME NEW ring \in Seq(Entries), NEW motion \in Int
    PROVE  LET moved == [j \in DOMAIN ring |->
                            [ring[j] EXCEPT !.measured = InPose(@, @.pose + motion)]]
           IN /\ moved \in Seq(Entries) /\ Len(moved) = Len(ring)
              /\ \A j \in 1 .. Len(ring) :
                    /\ moved[j].age = ring[j].age
                    /\ moved[j].measured.det = ring[j].measured.det
                    /\ moved[j].measured.pose = ring[j].measured.pose + motion
  <1> DEFINE Moved(entry) == [entry EXCEPT !.measured = InPose(@, @.pose + motion)]
             moved == [j \in DOMAIN ring |-> Moved(ring[j])]
  <1>1. ASSUME NEW entry \in Entries
        PROVE  /\ Moved(entry) \in Entries /\ Moved(entry).age = entry.age
               /\ Moved(entry).measured.det = entry.measured.det
               /\ Moved(entry).measured.pose = entry.measured.pose + motion
    <2>1. Moved(entry) = [age |-> entry.age,
                          measured |-> [det |-> entry.measured.det,
                                        pose |-> entry.measured.pose + motion]]
      BY DEF Entries, Measurements, InPose
    <2> QED BY <2>1 DEF Entries, Measurements
  <1>2. /\ DOMAIN ring = 1 .. Len(ring) /\ Len(ring) \in Nat
        /\ \A j \in 1 .. Len(ring) : ring[j] \in Entries
    OBVIOUS
  <1> HIDE DEF Moved
  <1>3. moved \in [1 .. Len(ring) -> Entries]
    BY <1>1, <1>2
  <1>4. moved \in Seq(Entries) /\ Len(moved) = Len(ring)
    BY <1>2, <1>3, SeqDef
  <1>5. ASSUME NEW j \in 1 .. Len(ring) PROVE moved[j] = Moved(ring[j])
    BY <1>2
  <1>6. \A j \in 1 .. Len(ring) : /\ moved[j].age = ring[j].age
                                  /\ moved[j].measured.det = ring[j].measured.det
                                  /\ moved[j].measured.pose = ring[j].measured.pose + motion
    BY <1>1, <1>2, <1>5
  <1>7. moved = [j \in DOMAIN ring |->
                    [ring[j] EXCEPT !.measured = InPose(@, @.pose + motion)]]
    BY DEF Moved
  <1> QED BY <1>4, <1>6, <1>7

LEMMA MotionRows ==
    ASSUME NEW n \in Nat, NEW p \in Pools(n), NEW motion \in Int
    PROVE  LET moved == ApplyCameraMotion(p, motion) IN
           /\ moved \in Pools(n)
           /\ moved.history = p.history /\ moved.reUpdate = p.reUpdate
           /\ \A i \in 1 .. n : Row(moved, i) = MovedRow(Row(p, i), motion)
  <1>1. RowsOf(p) = 1 .. n
    BY RowTyped DEF Pools, RowsOf
  <1> DEFINE moved == ApplyCameraMotion(p, motion)
  <1>2. moved.observations \in [1 .. n -> Seq(Entries)]
    <2>1. ASSUME NEW i \in 1 .. n
          PROVE  [j \in DOMAIN p.observations[i] |->
                    [p.observations[i][j] EXCEPT !.measured = InPose(@, @.pose + motion)]]
                 \in Seq(Entries)
      <3>1. p.observations[i] \in Seq(Entries)
        BY DEF Pools
      <3> QED BY <3>1, MovedRing
    <2>2. moved.observations = [i \in 1 .. n |-> [j \in DOMAIN p.observations[i] |->
                    [p.observations[i][j] EXCEPT !.measured = InPose(@, @.pose + motion)]]]
      BY <1>1 DEF ApplyCameraMotion, Pools
    <2> HIDE DEF moved
    <2> QED BY <2>1, <2>2
  <1>3. /\ moved.means = [i \in 1 .. n |-> InPose(p.means[i], p.means[i].pose + motion)]
        /\ moved.observedMeans =
             [i \in 1 .. n |-> InPose(p.observedMeans[i], p.observedMeans[i].pose + motion)]
        /\ moved.observed = [i \in 1 .. n |-> InPose(p.observed[i], p.observed[i].pose + motion)]
        /\ moved.tracks = p.tracks /\ moved.history = p.history /\ moved.reUpdate = p.reUpdate
    BY <1>1 DEF ApplyCameraMotion, Pools
  <1>4. ASSUME NEW state \in States PROVE InPose(state, state.pose + motion) \in States
    BY DEF States, InPose
  <1>5. ASSUME NEW measurement \in Measurements
        PROVE  InPose(measurement, measurement.pose + motion) \in Measurements
    BY DEF Measurements, InPose
  <1>6. /\ moved.means \in [1 .. n -> States] /\ moved.observedMeans \in [1 .. n -> States]
        /\ moved.observed \in [1 .. n -> Measurements]
    <2>1. /\ p.means \in [1 .. n -> States] /\ p.observedMeans \in [1 .. n -> States]
          /\ p.observed \in [1 .. n -> Measurements]
      BY DEF Pools
    <2> HIDE DEF moved
    <2> QED BY <1>3, <1>4, <1>5, <2>1
  <1>7. moved \in Pools(n)
    <2>1. moved = [p EXCEPT !.means = moved.means, !.observedMeans = moved.observedMeans,
                            !.observed = moved.observed, !.observations = moved.observations]
      BY DEF ApplyCameraMotion, Pools
    <2> HIDE DEF moved
    <2> QED BY <1>2, <1>6, <2>1 DEF Pools
  <1>8. ASSUME NEW i \in 1 .. n PROVE Row(moved, i) = MovedRow(Row(p, i), motion)
    <2>1. MovedRow(Row(p, i), motion) =
            [track |-> p.tracks[i], mean |-> InPose(p.means[i], p.means[i].pose + motion),
             observedMean |-> InPose(p.observedMeans[i], p.observedMeans[i].pose + motion),
             observed |-> InPose(p.observed[i], p.observed[i].pose + motion),
             ring |-> [j \in DOMAIN p.observations[i] |->
                          [p.observations[i][j] EXCEPT !.measured = InPose(@, @.pose + motion)]]]
      BY DEF Row, MovedRow
    <2>2. moved.observations[i] = [j \in DOMAIN p.observations[i] |->
                          [p.observations[i][j] EXCEPT !.measured = InPose(@, @.pose + motion)]]
      BY <1>1 DEF ApplyCameraMotion, Pools
    <2> HIDE DEF moved
    <2> QED BY <1>3, <2>1, <2>2 DEF Row
  <1> QED BY <1>3, <1>7, <1>8

(* A pool is its rows.                                                       *)
LEMMA PoolsEqual ==
    ASSUME NEW n \in Nat, NEW p \in Pools(n), NEW q \in Pools(n),
           p.history = q.history, p.reUpdate = q.reUpdate,
           \A i \in 1 .. n : Row(p, i) = Row(q, i)
    PROVE  p = q
  <1>1. \A i \in 1 .. n : /\ p.tracks[i] = q.tracks[i] /\ p.means[i] = q.means[i]
                          /\ p.observedMeans[i] = q.observedMeans[i]
                          /\ p.observed[i] = q.observed[i]
                          /\ p.observations[i] = q.observations[i]
    BY DEF Row
  <1>2. p.tracks = q.tracks /\ p.means = q.means
    BY <1>1 DEF Pools
  <1>3. p.observedMeans = q.observedMeans /\ p.observed = q.observed
    BY <1>1 DEF Pools
  <1>4. p.observations = q.observations
    BY <1>1 DEF Pools
  <1>5. ASSUME NEW r \in Pools(n)
        PROVE  r = [history |-> r.history, reUpdate |-> r.reUpdate, tracks |-> r.tracks,
                    means |-> r.means, observedMeans |-> r.observedMeans,
                    observed |-> r.observed, observations |-> r.observations]
    BY DEF Pools
  <1>6. /\ p = [history |-> p.history, reUpdate |-> p.reUpdate, tracks |-> p.tracks,
                means |-> p.means, observedMeans |-> p.observedMeans,
                observed |-> p.observed, observations |-> p.observations]
        /\ q = [history |-> q.history, reUpdate |-> q.reUpdate, tracks |-> q.tracks,
                means |-> q.means, observedMeans |-> q.observedMeans,
                observed |-> q.observed, observations |-> q.observations]
    BY <1>5
  <1> QED BY <1>2, <1>3, <1>4, <1>6, Zenon

LEMMA RememberTyped ==
    ASSUME NEW history \in Nat, NEW ring \in Seq(Entries), NEW entry \in Entries
    PROVE  Remember(history, ring, entry) \in Seq(Entries)
  <1> DEFINE longer == Append(ring, entry)
  <1>1. longer \in Seq(Entries) /\ longer # <<>>
    BY AppendProperties
  <1>2. Tail(longer) \in Seq(Entries)
    BY <1>1, HeadTailProperties
  <1> QED BY <1>1, <1>2 DEF Remember

LEMMA HitTyped ==
    ASSUME NEW r \in RowRecords, NEW history \in Nat, NEW reUpdate \in BOOLEAN,
           NEW det \in Detections, NEW position \in Int
    PROVE  HitRow(r, history, reUpdate, det, position) \in RowRecords
  <1> DEFINE measurement == [det |-> det, pose |-> position]
             entry == [age |-> r.track.age, measured |-> measurement]
             corrected == [Rebuilt(r, reUpdate) EXCEPT !.last = det]
  <1>1. /\ r.track \in TrackRecords /\ r.mean \in States /\ r.observedMean \in States
        /\ r.ring \in Seq(Entries)
    BY DEF RowRecords
  <1>2. Rebuilt(r, reUpdate) \in States
    <2> DEFINE gap == r.track.time_since_update
    <2>1. gap \in Nat
      BY <1>1 DEF TrackRecords
    <2>2. r.observedMean.time \in Int
      BY <1>1 DEF States
    <2>3. [r.observedMean EXCEPT !.time = @ + gap + 1] \in States
      <3>1. r.observedMean.time + gap + 1 \in Int
        BY ONLY <2>1, <2>2
      <3> HIDE DEF gap
      <3>2. ASSUME NEW state \in States, NEW time \in Int PROVE [state EXCEPT !.time = time] \in States
        BY DEF States
      <3> QED BY <1>1, <3>1, <3>2
    <2>4. Rebuilt(r, reUpdate) = r.mean
            \/ Rebuilt(r, reUpdate) = [r.observedMean EXCEPT !.time = @ + gap + 1]
      BY DEF Rebuilt
    <2> HIDE DEF gap
    <2> QED BY <1>1, <2>3, <2>4
  <1>3. corrected \in States
    BY <1>2 DEF States
  <1>4. measurement \in Measurements /\ entry \in Entries
    BY <1>1 DEF Measurements, Entries, TrackRecords
  <1>5. Remember(history, r.ring, entry) \in Seq(Entries)
    BY <1>1, <1>4, RememberTyped
  <1>6. Matched(r.track) \in TrackRecords
    BY <1>1, MatchedTrack
  <1>7. HitRow(r, history, reUpdate, det, position) =
          [track |-> Matched(r.track), mean |-> corrected, observedMean |-> corrected,
           observed |-> measurement, ring |-> Remember(history, r.ring, entry)]
    BY DEF HitRow
  <1> HIDE DEF corrected, measurement, entry
  <1> QED BY <1>3, <1>4, <1>5, <1>6, <1>7 DEF RowRecords

SameBuild(q, p, n) == q \in Pools(n) /\ q.history = p.history /\ q.reUpdate = p.reUpdate

RowsHit(q, p, n, rows, matches, position) ==
    /\ SameBuild(q, p, n)
    /\ \A i \in 1 .. n : Row(q, i) =
         IF i \in rows THEN HitRow(Row(p, i), p.history, p.reUpdate, matches[i], position)
                       ELSE Row(p, i)

LEMMA MatchRows ==
    ASSUME NEW n \in Nat, NEW p \in Pools(n), NEW rows \in SUBSET (1 .. n),
           NEW matches \in [rows -> Detections], NEW position \in Int
    PROVE  RowsHit(ApplyMatches(p, matches, position), p, n, rows, matches, position)
  <1> DEFINE q == ApplyMatches(p, matches, position)
             New(i) == IF i \in rows
                       THEN HitRow(Row(p, i), p.history, p.reUpdate, matches[i], position)
                       ELSE Row(p, i)
  <1>1. RowsOf(p) = 1 .. n /\ DOMAIN matches = rows
    BY RowTyped DEF Pools, RowsOf
  <1>2. q.history = p.history /\ q.reUpdate = p.reUpdate
    BY DEF ApplyMatches, Pools
  <1>3. p.history \in Nat /\ p.reUpdate \in BOOLEAN
    BY DEF Pools
  <1>4. ASSUME NEW i \in 1 .. n PROVE New(i) \in RowRecords
    <2>1. Row(p, i) \in RowRecords
      BY RowTyped
    <2>2. CASE i \in rows
      BY <1>3, <2>1, <2>2, HitTyped
    <2> QED BY <2>1, <2>2
  <1>5. q.tracks = [i \in 1 .. n |-> New(i).track]
    BY <1>1 DEF ApplyMatches, Pools, HitRow, Row
  <1>6. q.observed = [i \in 1 .. n |-> New(i).observed]
    BY <1>1 DEF ApplyMatches, Pools, HitRow, Row
  <1>7. q.observations = [i \in 1 .. n |-> New(i).ring]
    BY <1>1 DEF ApplyMatches, Pools, HitRow, Row
  <1>8. ASSUME NEW i \in 1 .. n PROVE ReUpdated(p, i) = Rebuilt(Row(p, i), p.reUpdate)
    BY DEF ReUpdated, Rebuilt, Row
  <1>9. q.means = [i \in 1 .. n |-> New(i).mean]
    <2>1. q.means = [i \in 1 .. n |-> IF i \in rows THEN [ReUpdated(p, i) EXCEPT !.last = matches[i]]
                                                    ELSE p.means[i]]
      BY <1>1 DEF ApplyMatches, Pools
    <2>2. ASSUME NEW i \in 1 .. n
          PROVE  New(i).mean = IF i \in rows THEN [ReUpdated(p, i) EXCEPT !.last = matches[i]]
                                             ELSE p.means[i]
      BY <1>8 DEF HitRow, Row
    <2> HIDE DEF q, New
    <2> QED BY <2>1, <2>2
  <1>10. q.observedMeans = [i \in 1 .. n |-> New(i).observedMean]
    <2>1. q.observedMeans =
            [i \in 1 .. n |-> IF i \in rows THEN [ReUpdated(p, i) EXCEPT !.last = matches[i]]
                                            ELSE p.observedMeans[i]]
      BY <1>1 DEF ApplyMatches, Pools
    <2>2. ASSUME NEW i \in 1 .. n
          PROVE  New(i).observedMean =
                    IF i \in rows THEN [ReUpdated(p, i) EXCEPT !.last = matches[i]]
                                  ELSE p.observedMeans[i]
      BY <1>8 DEF HitRow, Row
    <2> HIDE DEF q, New
    <2> QED BY <2>1, <2>2
  <1>11. q = [p EXCEPT !.tracks = q.tracks, !.means = q.means, !.observedMeans = q.observedMeans,
                       !.observed = q.observed, !.observations = q.observations]
    BY DEF ApplyMatches, Pools
  <1> HIDE DEF q, New
  <1>12. /\ q.tracks \in [1 .. n -> TrackRecords] /\ q.means \in [1 .. n -> States]
         /\ q.observedMeans \in [1 .. n -> States] /\ q.observed \in [1 .. n -> Measurements]
         /\ q.observations \in [1 .. n -> Seq(Entries)]
    BY <1>4, <1>5, <1>6, <1>7, <1>9, <1>10 DEF RowRecords
  <1>13. q \in Pools(n)
    BY <1>11, <1>12 DEF Pools
  <1>14. ASSUME NEW i \in 1 .. n PROVE Row(q, i) = New(i)
    BY <1>4, <1>5, <1>6, <1>7, <1>9, <1>10 DEF RowRecords, Row
  <1>15. RowsHit(q, p, n, rows, matches, position)
    BY <1>2, <1>13, <1>14 DEF RowsHit, SameBuild, New
  <1> QED BY <1>15 DEF q

(* both gives the rows what f and g give them, which share no row.           *)
Splits(n, f, g, both) ==
    /\ DOMAIN f \subseteq 1 .. n /\ f \in [DOMAIN f -> Detections]
    /\ DOMAIN g \subseteq 1 .. n /\ g \in [DOMAIN g -> Detections]
    /\ DOMAIN f \cap DOMAIN g = {}
    /\ DOMAIN both = DOMAIN f \cup DOMAIN g /\ both \in [DOMAIN both -> Detections]
    /\ \A r \in DOMAIN both : both[r] = IF r \in DOMAIN f THEN f[r] ELSE g[r]

(* Correcting in two stages is correcting once with both matchings.          *)
LEMMA MatchTwice ==
    ASSUME NEW n \in Nat, NEW p \in Pools(n), NEW position \in Int, NEW f, NEW g, NEW both,
           Splits(n, f, g, both)
    PROVE  ApplyMatches(ApplyMatches(p, f, position), g, position) = ApplyMatches(p, both, position)
  <1> DEFINE R == DOMAIN f
             S == DOMAIN g
  <1>0. /\ R \in SUBSET (1 .. n) /\ f \in [R -> Detections]
        /\ S \in SUBSET (1 .. n) /\ g \in [S -> Detections] /\ R \cap S = {}
        /\ both \in [R \cup S -> Detections]
        /\ \A r \in R \cup S : both[r] = IF r \in R THEN f[r] ELSE g[r]
    BY DEF Splits
  <1> HIDE DEF R, S
  <1> DEFINE once == ApplyMatches(p, f, position)
             twice == ApplyMatches(once, g, position)
             merged == ApplyMatches(p, both, position)
  <1>1. RowsHit(once, p, n, R, f, position)
    BY <1>0, MatchRows
  <1>a. once \in Pools(n)
    BY <1>1 DEF RowsHit, SameBuild
  <1> HIDE DEF once
  <1>2. RowsHit(twice, once, n, S, g, position)
    BY <1>0, <1>a, MatchRows
  <1>3. R \cup S \in SUBSET (1 .. n)
    BY <1>0
  <1>4. RowsHit(merged, p, n, R \cup S, both, position)
    BY <1>0, <1>3, MatchRows
  <1> HIDE DEF twice, merged
  <1>5. ASSUME NEW i \in 1 .. n PROVE Row(twice, i) = Row(merged, i)
    <2>1. CASE i \in R
      BY <1>0, <1>1, <1>2, <1>4, <2>1 DEF RowsHit, SameBuild
    <2>2. CASE i \in S
      BY <1>0, <1>1, <1>2, <1>4, <2>2 DEF RowsHit, SameBuild
    <2>3. CASE i \notin R \cup S
      BY <1>1, <1>2, <1>4, <2>3 DEF RowsHit
    <2> QED BY <2>1, <2>2, <2>3
  <1>6. twice = merged
    <2>1. /\ twice \in Pools(n) /\ merged \in Pools(n)
          /\ twice.history = merged.history /\ twice.reUpdate = merged.reUpdate
      BY <1>1, <1>2, <1>4 DEF RowsHit, SameBuild
    <2> QED BY <1>5, <2>1, PoolsEqual
  <1> QED BY <1>6 DEF twice, merged, once

RowsMissed(q, p, n, rows) ==
    /\ SameBuild(q, p, n)
    /\ \A i \in 1 .. n : Row(q, i) = IF i \in rows THEN MissedRow(Row(p, i)) ELSE Row(p, i)

LEMMA MissRows ==
    ASSUME NEW n \in Nat, NEW p \in Pools(n), NEW rows
    PROVE  RowsMissed(MarkMissed(p, rows), p, n, rows)
  <1> DEFINE q == MarkMissed(p, rows)
             late == [i \in 1 .. n |-> IF i \in rows THEN Missed(p.tracks[i]) ELSE p.tracks[i]]
  <1>1. q = [p EXCEPT !.tracks = late]
    BY RowTyped DEF MarkMissed, Pools, RowsOf
  <1>2. p.tracks \in [1 .. n -> TrackRecords]
    BY DEF Pools
  <1>3. late \in [1 .. n -> TrackRecords]
    BY <1>2, MissedTrack
  <1>4. q \in Pools(n) /\ q.history = p.history /\ q.reUpdate = p.reUpdate
    <2> HIDE DEF late, q
    <2> QED BY <1>1, <1>3 DEF Pools
  <1>5. ASSUME NEW i \in 1 .. n
        PROVE  Row(q, i) = IF i \in rows THEN MissedRow(Row(p, i)) ELSE Row(p, i)
    <2>1. /\ q.tracks = late /\ q.means = p.means /\ q.observedMeans = p.observedMeans
          /\ q.observed = p.observed /\ q.observations = p.observations
      <3> HIDE DEF late, q
      <3> QED BY <1>1 DEF Pools
    <2>2. late[i] = IF i \in rows THEN Missed(p.tracks[i]) ELSE p.tracks[i]
      OBVIOUS
    <2> HIDE DEF late, q
    <2> QED BY <2>1, <2>2 DEF Row, MissedRow
  <1>6. RowsMissed(q, p, n, rows)
    BY <1>4, <1>5 DEF RowsMissed, SameBuild
  <1> QED BY <1>6

Joined(S, n, m, s, t, u) ==
    /\ u \in [1 .. n + m -> S]
    /\ \A i \in 1 .. n : u[i] = s[i]
    /\ \A i \in (n + 1) .. (n + m) : u[i] = t[i - n]

LEMMA Concatenated ==
    ASSUME NEW S, NEW n \in Nat, NEW m \in Nat, NEW s \in [1 .. n -> S], NEW t \in [1 .. m -> S]
    PROVE  Joined(S, n, m, s, t, s \o t)
  <1> DEFINE u == s \o t
  <1>1. s \in Seq(S) /\ t \in Seq(S) /\ Len(s) = n /\ Len(t) = m
    BY SeqDef
  <1>2. /\ u \in Seq(S) /\ Len(u) = n + m
        /\ \A i \in 1 .. n + m : u[i] = IF i <= n THEN s[i] ELSE t[i - n]
    BY <1>1, ConcatProperties
  <1>3. u \in [1 .. n + m -> S]
    <2>1. u \in [1 .. Len(u) -> S]
      BY <1>2, LenProperties
    <2> QED BY <1>2, <2>1
  <1>4. \A i \in 1 .. n : i \in 1 .. n + m /\ i <= n
    OBVIOUS
  <1>5. \A i \in (n + 1) .. (n + m) : i \in 1 .. n + m /\ ~(i <= n)
    OBVIOUS
  <1> HIDE DEF u
  <1>6. Joined(S, n, m, s, t, u)
    BY <1>2, <1>3, <1>4, <1>5 DEF Joined
  <1> QED BY <1>6 DEF u

RowsBorn(q, p, n, m, detections, first, position) ==
    /\ SameBuild(q, p, n + m)
    /\ \A i \in 1 .. n : Row(q, i) = Row(p, i)
    /\ \A i \in (n + 1) .. (n + m) :
         Row(q, i) = BornRow(first + (i - n), detections[i - n], position)

LEMMA SpawnRows ==
    ASSUME NEW n \in Nat, NEW p \in Pools(n), NEW m \in Nat, NEW detections \in [1 .. m -> Detections],
           NEW first \in Nat, NEW position \in Int
    PROVE  RowsBorn(Spawn(p, detections, first, position), p, n, m, detections, first, position)
  <1> DEFINE q == Spawn(p, detections, first, position)
             born == [j \in 1 .. m |-> Newborn(first + j)]
             states == [j \in 1 .. m |-> [last |-> detections[j], time |-> 0, pose |-> position]]
             measurements == [j \in 1 .. m |-> [det |-> detections[j], pose |-> position]]
             rings == [j \in 1 .. m |-> <<[age |-> 1, measured |-> measurements[j]]>>]
  <1>1. DOMAIN detections = 1 .. m
    OBVIOUS
  <1>2. /\ q.tracks = p.tracks \o born /\ q.means = p.means \o states
        /\ q.observedMeans = p.observedMeans \o states /\ q.observed = p.observed \o measurements
        /\ q.observations = p.observations \o rings
        /\ q.history = p.history /\ q.reUpdate = p.reUpdate
    BY <1>1 DEF Spawn, Pools
  <1>3. q = [p EXCEPT !.tracks = q.tracks, !.means = q.means, !.observedMeans = q.observedMeans,
                      !.observed = q.observed, !.observations = q.observations]
    BY DEF Spawn, Pools
  <1>4. born \in [1 .. m -> TrackRecords]
    BY NewbornTrack
  <1>5. states \in [1 .. m -> States]
    BY DEF States
  <1>6. measurements \in [1 .. m -> Measurements]
    BY DEF Measurements
  <1>7. rings \in [1 .. m -> Seq(Entries)]
    <2>1. ASSUME NEW j \in 1 .. m PROVE <<[age |-> 1, measured |-> measurements[j]]>> \in Seq(Entries)
      <3>1. [age |-> 1, measured |-> measurements[j]] \in Entries
        BY <1>6 DEF Entries
      <3> QED BY <3>1
    <2> HIDE DEF measurements
    <2> QED BY <2>1
  <1>8. \A j \in 1 .. m :
          BornRow(first + j, detections[j], position) =
            [track |-> born[j], mean |-> states[j], observedMean |-> states[j],
             observed |-> measurements[j], ring |-> rings[j]]
    BY DEF BornRow
  <1> HIDE DEF q, born, states, measurements, rings
  <1>9. /\ p.tracks \in [1 .. n -> TrackRecords] /\ p.means \in [1 .. n -> States]
        /\ p.observedMeans \in [1 .. n -> States] /\ p.observed \in [1 .. n -> Measurements]
        /\ p.observations \in [1 .. n -> Seq(Entries)]
    BY DEF Pools
  <1>10. /\ Joined(TrackRecords, n, m, p.tracks, born, q.tracks)
         /\ Joined(States, n, m, p.means, states, q.means)
         /\ Joined(States, n, m, p.observedMeans, states, q.observedMeans)
         /\ Joined(Measurements, n, m, p.observed, measurements, q.observed)
         /\ Joined(Seq(Entries), n, m, p.observations, rings, q.observations)
    <2>1. Joined(TrackRecords, n, m, p.tracks, born, p.tracks \o born)
      BY <1>4, <1>9, Concatenated
    <2>2. Joined(States, n, m, p.means, states, p.means \o states)
      BY <1>5, <1>9, Concatenated
    <2>3. Joined(States, n, m, p.observedMeans, states, p.observedMeans \o states)
      BY <1>5, <1>9, Concatenated
    <2>4. Joined(Measurements, n, m, p.observed, measurements, p.observed \o measurements)
      BY <1>6, <1>9, Concatenated
    <2>5. Joined(Seq(Entries), n, m, p.observations, rings, p.observations \o rings)
      BY <1>7, <1>9, Concatenated
    <2> QED BY <1>2, <2>1, <2>2, <2>3, <2>4, <2>5, Zenon
  <1>11. q \in Pools(n + m)
    BY <1>3, <1>10 DEF Pools, Joined
  <1>12. ASSUME NEW i \in 1 .. n PROVE Row(q, i) = Row(p, i)
    BY <1>10 DEF Row, Joined
  <1>13. ASSUME NEW i \in (n + 1) .. (n + m)
         PROVE  Row(q, i) = BornRow(first + (i - n), detections[i - n], position)
    <2>1. i - n \in 1 .. m
      OBVIOUS
    <2> QED BY <1>8, <1>10, <2>1 DEF Row, Joined
  <1>14. RowsBorn(q, p, n, m, detections, first, position)
    BY <1>2, <1>11, <1>12, <1>13 DEF RowsBorn, SameBuild
  <1> QED BY <1>14 DEF q

(* A set of numbers has one increasing sequence that runs through it.        *)
Increasing(s, S) ==
    /\ s \in [1 .. Cardinality(S) -> S]
    /\ \A i, j \in 1 .. Cardinality(S) : i < j => s[i] < s[j]

LEMMA IncreasingExists ==
    ASSUME NEW n \in Nat, NEW S \in SUBSET (1 .. n)
    PROVE  /\ Cardinality(S) \in Nat /\ IsFiniteSet(S)
           /\ \E s : Increasing(s, S)
  <1> DEFINE c == Cardinality(S)
             Below(x) == {y \in S : y <= x}
             rank == [x \in S |-> Cardinality(Below(x))]
  <1>0. \A x \in S : x \in Int
    OBVIOUS
  <1>1. IsFiniteSet(S) /\ c \in Nat
    <2>1. IsFiniteSet(1 .. n)
      BY FS_Interval
    <2> QED BY <2>1, FS_Subset, FS_CardinalityType
  <1>2. ASSUME NEW x \in S
        PROVE  /\ Below(x) \in SUBSET S /\ IsFiniteSet(Below(x)) /\ Cardinality(Below(x)) \in 1 .. c
    <2> DEFINE B == Below(x)
    <2>1. B \in SUBSET S /\ {x} \in SUBSET B
      OBVIOUS
    <2> HIDE DEF B
    <2>2. IsFiniteSet(B) /\ Cardinality(B) <= c /\ Cardinality(B) \in Nat
      BY <1>1, <2>1, FS_Subset, FS_CardinalityType
    <2>3. Cardinality({x}) = 1
      BY FS_Singleton
    <2>4. 1 <= Cardinality(B)
      BY <2>1, <2>2, <2>3, FS_Subset
    <2> QED BY <1>1, <2>1, <2>2, <2>4 DEF B
  <1>3. rank \in [S -> 1 .. c]
    BY <1>2
  <1>4. ASSUME NEW x \in S, NEW z \in S, x < z PROVE rank[x] < rank[z]
    <2> DEFINE A == Below(x)
               B == Below(z)
    <2>1. A \in SUBSET B /\ A # B
      <3>1. z \in B /\ z \notin A
        BY <1>4
      <3>2. ASSUME NEW y \in A PROVE y \in B
        <4>1. y \in S /\ y <= x /\ y \in Int /\ x \in Int /\ z \in Int
          OBVIOUS
        <4> QED BY <1>4, <4>1
      <3> QED BY <3>1, <3>2
    <2>2. IsFiniteSet(B) /\ Cardinality(A) \in Nat /\ Cardinality(B) \in Nat
      BY <1>2
    <2>3. rank[x] = Cardinality(A) /\ rank[z] = Cardinality(B)
      OBVIOUS
    <2> HIDE DEF A, B, rank
    <2> QED BY <2>1, <2>2, <2>3, FS_Subset
  <1> HIDE DEF rank, Below
  <1>5. rank \in Injection(S, 1 .. c)
    <2>1. ASSUME NEW x \in S, NEW z \in S, rank[x] = rank[z] PROVE x = z
      BY <1>3, <1>4, <2>1
    <2> QED BY <1>3, <2>1 DEF Injection, IsInjective
  <1>6. IsFiniteSet(1 .. c) /\ Cardinality(1 .. c) = c
    BY <1>1, FS_Interval
  <1>7. rank \in Surjection(S, 1 .. c)
    BY <1>1, <1>5, <1>6, FS_Injection
  <1> DEFINE s == [i \in 1 .. c |-> CHOOSE x \in S : rank[x] = i]
  <1>8. ASSUME NEW i \in 1 .. c PROVE s[i] \in S /\ rank[s[i]] = i
    BY <1>7 DEF Surjection
  <1>9. s \in [1 .. c -> S]
    BY <1>8
  <1> HIDE DEF s
  <1>10. ASSUME NEW i \in 1 .. c, NEW j \in 1 .. c, i < j PROVE s[i] < s[j]
    <2>1. s[i] \in S /\ s[j] \in S /\ rank[s[i]] = i /\ rank[s[j]] = j
      BY <1>8
    <2>0. s[i] \in Int /\ s[j] \in Int
      BY <1>0, <2>1
    <2>2. CASE s[i] = s[j]
      <3>1. i = j
        BY <2>1, <2>2
      <3> QED BY <1>1, <1>10, <3>1
    <2>3. CASE s[j] < s[i]
      <3>1. rank[s[j]] < rank[s[i]]
        BY <1>4, <2>1, <2>3
      <3> QED BY <1>1, <1>10, <2>1, <3>1
    <2> QED BY <2>0, <2>2, <2>3
  <1>11. Increasing(s, S)
    BY <1>9, <1>10 DEF Increasing
  <1> QED BY <1>1, <1>11

LEMMA InOrderRuns ==
    ASSUME NEW n \in Nat, NEW S \in SUBSET (1 .. n)
    PROVE  /\ Cardinality(S) \in Nat
           /\ Increasing(InOrder(S), S)
           /\ \A x \in S : \E i \in 1 .. Cardinality(S) : InOrder(S)[i] = x
  <1> DEFINE c == Cardinality(S)
             order == InOrder(S)
  <1>0. \A x \in S : x \in Int
    OBVIOUS
  <1>1. c \in Nat /\ IsFiniteSet(S) /\ \E s : Increasing(s, S)
    BY IncreasingExists
  <1>2. PICK s : Increasing(s, S)
    BY <1>1
  <1>3. s \in [1 .. c -> S] /\ \A i, j \in DOMAIN s : i < j => s[i] < s[j]
    BY <1>2 DEF Increasing
  <1>4. order \in [1 .. c -> S] /\ \A i, j \in DOMAIN order : i < j => order[i] < order[j]
    BY <1>3 DEF InOrder
  <1> HIDE DEF order
  <1>5. Increasing(order, S)
    BY <1>4 DEF Increasing
  <1>6. order \in Injection(1 .. c, S)
    <2>1. ASSUME NEW i \in 1 .. c, NEW j \in 1 .. c, order[i] = order[j] PROVE i = j
      <3>0. order[i] \in S /\ order[j] \in S
        BY <1>4
      <3>1. order[i] \in Int /\ order[j] \in Int
        BY <1>0, <3>0
      <3>2. CASE i < j
        <4>1. order[i] < order[j]
          BY <1>4, <3>2
        <4> QED BY <2>1, <3>1, <4>1
      <3>3. CASE j < i
        <4>1. order[j] < order[i]
          BY <1>4, <3>3
        <4> QED BY <2>1, <3>1, <4>1
      <3> QED BY <1>1, <3>2, <3>3
    <2> QED BY <1>4, <2>1 DEF Injection, IsInjective
  <1>7. IsFiniteSet(1 .. c) /\ Cardinality(1 .. c) = c
    BY <1>1, FS_Interval
  <1>8. order \in Surjection(1 .. c, S)
    BY <1>1, <1>6, <1>7, FS_Injection
  <1>9. \A x \in S : \E i \in 1 .. c : order[i] = x
    BY <1>8 DEF Surjection
  <1> QED BY <1>1, <1>5, <1>9 DEF order

(* The rows that stay, in their old order.                                   *)
RowsKept(q, p, n, c, keep) ==
    LET staying == {i \in 1 .. n : p.tracks[i].state # "removed"} IN
    /\ SameBuild(q, p, c)
    /\ keep \in [1 .. c -> staying]
    /\ \A i, j \in 1 .. c : i # j => keep[i] # keep[j]
    /\ \A x \in staying : \E i \in 1 .. c : keep[i] = x
    /\ \A i \in 1 .. c : Row(q, i) = Row(p, keep[i])

LEMMA SweepRows ==
    ASSUME NEW n \in Nat, NEW p \in Pools(n)
    PROVE  \E c \in Nat : \E keep : RowsKept(Sweep(p), p, n, c, keep)
  <1> DEFINE staying == {i \in 1 .. n : p.tracks[i].state # "removed"}
             keep == Keep(p)
             c == Cardinality(staying)
             q == Sweep(p)
  <1>1. RowsOf(p) = 1 .. n
    BY RowTyped DEF Pools, RowsOf
  <1>2. keep = InOrder(staying)
    BY <1>1 DEF Keep
  <1>3. staying \in SUBSET (1 .. n)
    OBVIOUS
  <1> HIDE DEF staying, keep
  <1>4. /\ c \in Nat /\ Increasing(keep, staying)
        /\ \A x \in staying : \E i \in 1 .. c : keep[i] = x
    BY <1>2, <1>3, InOrderRuns
  <1>5. keep \in [1 .. c -> staying] /\ keep \in [1 .. c -> 1 .. n]
    BY <1>3, <1>4 DEF Increasing
  <1>6. Len(keep) = c /\ DOMAIN keep = 1 .. c
    BY <1>4, <1>5
  <1>7. ASSUME NEW i \in 1 .. c, NEW j \in 1 .. c, i # j PROVE keep[i] # keep[j]
    <2>1. keep[i] \in Int /\ keep[j] \in Int
      BY <1>5
    <2>2. i < j \/ j < i
      BY <1>7
    <2> QED BY <1>4, <2>1, <2>2 DEF Increasing
  <1>8. /\ q.tracks = [j \in 1 .. c |-> p.tracks[keep[j]]]
        /\ q.means = [j \in 1 .. c |-> p.means[keep[j]]]
        /\ q.observedMeans = [j \in 1 .. c |-> p.observedMeans[keep[j]]]
        /\ q.observed = [j \in 1 .. c |-> p.observed[keep[j]]]
        /\ q.observations = [j \in 1 .. c |-> p.observations[keep[j]]]
        /\ q.history = p.history /\ q.reUpdate = p.reUpdate
    BY <1>6 DEF Sweep, Pools, keep
  <1>9. q = [p EXCEPT !.tracks = q.tracks, !.means = q.means, !.observedMeans = q.observedMeans,
                      !.observed = q.observed, !.observations = q.observations]
    BY DEF Sweep, Pools
  <1> HIDE DEF q, c
  <1>10. /\ q.tracks \in [1 .. c -> TrackRecords] /\ q.means \in [1 .. c -> States]
         /\ q.observedMeans \in [1 .. c -> States] /\ q.observed \in [1 .. c -> Measurements]
         /\ q.observations \in [1 .. c -> Seq(Entries)]
    BY <1>5, <1>8 DEF Pools
  <1>11. q \in Pools(c)
    <2>1. p.history \in Nat /\ p.reUpdate \in BOOLEAN
      BY DEF Pools
    <2> QED BY <1>8, <1>9, <1>10, <2>1 DEF Pools
  <1>12. ASSUME NEW i \in 1 .. c PROVE Row(q, i) = Row(p, keep[i])
    BY <1>8 DEF Row
  <1>13. RowsKept(q, p, n, c, keep)
    BY <1>4, <1>5, <1>7, <1>8, <1>11, <1>12 DEF RowsKept, SameBuild, staying
  <1> QED BY <1>4, <1>13 DEF q

--------------------------------------------------------------------------------
(* One frame of a pool, from its opening to its end.                        *)

ClosedPool(opened, given, leftovers, first, position) ==
    Sweep(Spawn(MarkMissed(ApplyMatches(opened, given, position), RowsOf(opened) \ DOMAIN given),
                leftovers, first, position))

(* What becomes of row i; the rows behind those of the pool are the births.  *)
Outcome(opened, given, leftovers, first, position, n, i) ==
    IF i > n THEN BornRow(first + (i - n), leftovers[i - n], position)
    ELSE IF i \in DOMAIN given
    THEN HitRow(Row(opened, i), opened.history, opened.reUpdate, given[i], position)
    ELSE MissedRow(Row(opened, i))

(* source: where the rows of the new pool were in the old one.               *)
RowsComeFrom(new, opened, given, leftovers, first, position, n, m, c, source) ==
    /\ new \in Pools(c) /\ new.history = opened.history /\ new.reUpdate = opened.reUpdate
    /\ source \in [1 .. c -> 1 .. n + m]
    /\ \A i, j \in 1 .. c : i # j => source[i] # source[j]
    /\ \A i \in 1 .. c :
        /\ Row(new, i) = Outcome(opened, given, leftovers, first, position, n, source[i])
        /\ Row(new, i).track.state # "removed"
    /\ \A x \in 1 .. n + m :
        Outcome(opened, given, leftovers, first, position, n, x).track.state # "removed" =>
            \E i \in 1 .. c : source[i] = x

LEMMA FrameRows ==
    ASSUME NEW n \in Nat, NEW opened \in Pools(n), NEW R \in SUBSET (1 .. n),
           NEW given \in [R -> Detections], NEW m \in Nat, NEW leftovers \in [1 .. m -> Detections],
           NEW first \in Nat, NEW position \in Int
    PROVE  \E c \in Nat : \E source :
             RowsComeFrom(ClosedPool(opened, given, leftovers, first, position),
                          opened, given, leftovers, first, position, n, m, c, source)
  <1> DEFINE matched == ApplyMatches(opened, given, position)
             missing == MarkMissed(matched, RowsOf(opened) \ DOMAIN given)
             grown == Spawn(missing, leftovers, first, position)
             new == Sweep(grown)
             Out(i) == Outcome(opened, given, leftovers, first, position, n, i)
  <1>1. RowsHit(matched, opened, n, R, given, position)
    BY MatchRows
  <1>2. RowsOf(opened) = 1 .. n /\ DOMAIN given = R
    BY RowTyped DEF Pools, RowsOf
  <1>3. SameBuild(matched, opened, n)
    BY <1>1 DEF RowsHit
  <1> HIDE DEF matched
  <1>4. RowsMissed(missing, matched, n, RowsOf(opened) \ DOMAIN given)
    BY <1>3, MissRows DEF SameBuild
  <1>5. ASSUME NEW i \in 1 .. n PROVE Row(missing, i) = Out(i)
    <2>1. /\ Row(missing, i) = IF i \in R THEN Row(matched, i) ELSE MissedRow(Row(matched, i))
          /\ Row(matched, i) =
                IF i \in R THEN HitRow(Row(opened, i), opened.history, opened.reUpdate, given[i], position)
                           ELSE Row(opened, i)
      BY <1>1, <1>2, <1>4 DEF RowsHit, RowsMissed
    <2>2. ~(i > n)
      OBVIOUS
    <2> QED BY <1>2, <2>1, <2>2, Zenon DEF Outcome
  <1>6. SameBuild(missing, matched, n)
    BY <1>4 DEF RowsMissed
  <1> HIDE DEF missing
  <1>7. RowsBorn(grown, missing, n, m, leftovers, first, position)
    BY <1>6, SpawnRows DEF SameBuild
  <1>8. \A i \in 1 .. n + m : Row(grown, i) = Out(i)
    <2>1. ASSUME NEW i \in (n + 1) .. (n + m) PROVE Row(grown, i) = Out(i)
      <3>1. i > n
        OBVIOUS
      <3> QED BY <1>7, <3>1 DEF Outcome, RowsBorn
    <2>2. ASSUME NEW i \in 1 .. n PROVE Row(grown, i) = Out(i)
      BY <1>5, <1>7 DEF RowsBorn
    <2>3. ASSUME NEW i \in 1 .. n + m PROVE i \in 1 .. n \/ i \in (n + 1) .. (n + m)
      OBVIOUS
    <2> HIDE DEF Out
    <2> QED BY <2>1, <2>2, <2>3
  <1>9. n + m \in Nat /\ SameBuild(grown, missing, n + m)
    BY <1>7 DEF RowsBorn
  <1> HIDE DEF grown, Out
  <1>a. PICK c \in Nat : \E source : RowsKept(new, grown, n + m, c, source)
    BY <1>9, SweepRows DEF SameBuild
  <1>10. PICK source : RowsKept(new, grown, n + m, c, source)
    BY <1>a
  <1> HIDE DEF new
  <1>11. RowsComeFrom(new, opened, given, leftovers, first, position, n, m, c, source)
    <2>1. /\ new \in Pools(c) /\ new.history = opened.history /\ new.reUpdate = opened.reUpdate
      BY <1>3, <1>6, <1>9, <1>10 DEF RowsKept, SameBuild
    <2> DEFINE staying == {i \in 1 .. n + m : grown.tracks[i].state # "removed"}
    <2>2. /\ source \in [1 .. c -> staying]
          /\ \A i, j \in 1 .. c : i # j => source[i] # source[j]
          /\ \A x \in staying : \E i \in 1 .. c : source[i] = x
          /\ \A i \in 1 .. c : Row(new, i) = Row(grown, source[i])
      BY <1>10 DEF RowsKept
    <2>3. \A i \in 1 .. n + m : grown.tracks[i] = Out(i).track
      BY <1>8 DEF Row
    <2>4. ASSUME NEW i \in 1 .. c
          PROVE  Row(new, i) = Out(source[i]) /\ Row(new, i).track.state # "removed"
      <3>1. source[i] \in 1 .. n + m /\ grown.tracks[source[i]].state # "removed"
        BY <2>2
      <3> QED BY <1>8, <2>2, <2>3, <3>1
    <2>5. ASSUME NEW x \in 1 .. n + m, Out(x).track.state # "removed"
          PROVE  \E i \in 1 .. c : source[i] = x
      BY <2>2, <2>3, <2>5
    <2>6. source \in [1 .. c -> 1 .. n + m]
      BY <2>2
    <2> QED BY <2>1, <2>2, <2>4, <2>5, <2>6 DEF RowsComeFrom, Out
  <1>12. new = ClosedPool(opened, given, leftovers, first, position)
    BY DEF new, grown, missing, matched, ClosedPool
  <1> QED BY <1>11, <1>12

--------------------------------------------------------------------------------
(* Every update() is one frame of the same shape: some of the rows are given *)
(* a detection of the frame each, no two the same, in one correction; every  *)
(* other row is missed; births come of confident detections that nobody was  *)
(* given; and a doubtful detection is only given to a trusted row.           *)

OfFrame(det, tag) == det.camera = tag.camera /\ det.frame = tag.frame

IsFrame(k, tag, opened, given, leftovers, position) ==
    /\ tag \in Tags /\ Accepts(k, tag)
    /\ DOMAIN given \subseteq Rows(k)
    /\ given \in [DOMAIN given -> Detections]
    /\ \A r \in DOMAIN given : OfFrame(given[r], tag)
    /\ \A r, s \in DOMAIN given : given[r] = given[s] => r = s
    /\ \A r \in DOMAIN given :
        given[r].tier = "low" => pool[k].tracks[r].state \in {"confirmed", "lost"}
    /\ Len(leftovers) \in Nat
    /\ leftovers \in [1 .. Len(leftovers) -> Detections]
    /\ \A j \in 1 .. Len(leftovers) : OfFrame(leftovers[j], tag) /\ leftovers[j].tier = "high"
    /\ \A i, j \in 1 .. Len(leftovers) : leftovers[i] = leftovers[j] => i = j
    /\ \A r \in DOMAIN given, j \in 1 .. Len(leftovers) : given[r] # leftovers[j]
    /\ Finish(k, tag, ApplyMatches(opened, given, position), given, Rows(k) \ DOMAIN given,
              leftovers, position)

LEMMA MatchingFacts ==
    ASSUME NEW rows, NEW columns, NEW m
    PROVE  m \in Matchings(rows, columns) <=>
             /\ DOMAIN m \subseteq rows /\ m \in [DOMAIN m -> columns]
             /\ \A r, s \in DOMAIN m : m[r] = m[s] => r = s
  BY DEF Matchings

AreDetections(dets, tag, confident, n) ==
    /\ dets \in [1 .. n -> Detections]
    /\ \A j \in 1 .. n : /\ OfFrame(dets[j], tag) /\ dets[j].column = j
                         /\ dets[j].tier = IF j <= confident THEN "high" ELSE "low"

LEMMA DetectionFacts ==
    ASSUME NEW tag \in Tags, NEW confident \in Nat, NEW doubtful \in Nat
    PROVE  AreDetections(DetectionsOf(tag, confident, doubtful), tag, confident,
                         confident + doubtful)
  <1> DEFINE n == confident + doubtful
             dets == DetectionsOf(tag, confident, doubtful)
  <1>1. n \in Nat /\ tag.camera \in Cameras /\ tag.frame \in Nat
    BY FrameAssumption DEF Tags
  <1>2. ASSUME NEW j \in 1 .. n
        PROVE  /\ dets[j] \in Detections /\ OfFrame(dets[j], tag) /\ dets[j].column = j
               /\ dets[j].tier = IF j <= confident THEN "high" ELSE "low"
    <2> DEFINE tier == IF j <= confident THEN "high" ELSE "low"
    <2>1. tier \in {"high", "low"} /\ j \in Nat
      OBVIOUS
    <2>2. dets[j] = [camera |-> tag.camera, frame |-> tag.frame, column |-> j, tier |-> tier]
      BY DEF DetectionsOf, Detection
    <2>3. tier = IF j <= confident THEN "high" ELSE "low"
      OBVIOUS
    <2> HIDE DEF tier, dets
    <2>4. dets[j] \in Detections /\ dets[j].tier = tier
      BY <1>1, <2>1, <2>2 DEF Detections
    <2> QED BY <2>2, <2>3, <2>4 DEF OfFrame
  <1>3. dets = [j \in 1 .. n |-> dets[j]]
    BY DEF DetectionsOf
  <1> HIDE DEF dets, n
  <1>4. dets \in [1 .. n -> Detections]
    BY <1>2, <1>3
  <1>5. AreDetections(dets, tag, confident, n)
    BY <1>2, <1>4 DEF AreDetections
  <1> QED BY <1>5 DEF n, dets

ArePicked(picked, dets, columns) ==
    /\ Len(picked) \in Nat
    /\ picked \in [1 .. Len(picked) -> Detections]
    /\ \A j \in 1 .. Len(picked) : \E x \in columns : picked[j] = dets[x]
    /\ \A i, j \in 1 .. Len(picked) : picked[i] = picked[j] => i = j

LEMMA PickFacts ==
    ASSUME NEW n \in Nat, NEW dets \in [1 .. n -> Detections],
           \A j \in 1 .. n : dets[j].column = j,
           NEW columns \in SUBSET (1 .. n)
    PROVE  ArePicked(Pick(dets, columns), dets, columns)
  <1> DEFINE c == Cardinality(columns)
             order == InOrder(columns)
             picked == Pick(dets, columns)
  <1>1. c \in Nat /\ Increasing(order, columns)
    BY InOrderRuns
  <1>2. order \in [1 .. c -> columns] /\ \A i, j \in 1 .. c : i < j => order[i] < order[j]
    BY <1>1 DEF Increasing
  <1>3. picked = [j \in 1 .. c |-> dets[order[j]]]
    BY <1>2 DEF Pick
  <1> HIDE DEF order, picked, c
  <1>4. \A j \in 1 .. c : order[j] \in columns /\ order[j] \in 1 .. n /\ picked[j] = dets[order[j]]
    BY <1>2, <1>3
  <1>5. picked \in [1 .. c -> Detections]
    BY <1>3, <1>4
  <1>6. Len(picked) = c
    BY <1>1, <1>5
  <1>7. ASSUME NEW i \in 1 .. c, NEW j \in 1 .. c, picked[i] = picked[j] PROVE i = j
    <2>1. order[i] = order[j]
      BY <1>4, <1>7
    <2>2. order[i] \in Int /\ order[j] \in Int
      BY <1>4
    <2>3. ~(i < j) /\ ~(j < i)
      BY <1>2, <2>1, <2>2
    <2> QED BY <1>1, <2>3
  <1>8. ArePicked(picked, dets, columns)
    BY <1>1, <1>4, <1>5, <1>6, <1>7 DEF ArePicked
  <1> QED BY <1>8 DEF picked

LEMMA AsFrame ==
    ASSUME NEW k \in Trackers, NEW tag \in Accepted(k),
           NEW confident \in Nat, NEW doubtful \in Nat, NEW opened, NEW position,
           NEW matches \in Matchings(Rows(k), 1 .. confident + doubtful),
           NEW newcomers \in SUBSET (1 .. confident), newcomers \cap Taken(matches) = {},
           \A r \in DOMAIN matches :
              matches[r] > confident => pool[k].tracks[r].state \in {"confirmed", "lost"},
           NEW given,
           given = [r \in DOMAIN matches |-> DetectionsOf(tag, confident, doubtful)[matches[r]]],
           NEW leftovers, leftovers = Pick(DetectionsOf(tag, confident, doubtful), newcomers),
           Finish(k, tag, ApplyMatches(opened, given, position), given, Rows(k) \ DOMAIN given,
                  leftovers, position)
    PROVE  IsFrame(k, tag, opened, given, leftovers, position)
  <1> DEFINE dets == DetectionsOf(tag, confident, doubtful)
             n == confident + doubtful
  <1>1. tag \in Tags /\ Accepts(k, tag)
    BY DEF Accepted
  <1>2. /\ n \in Nat /\ dets \in [1 .. n -> Detections]
        /\ \A j \in 1 .. n : /\ OfFrame(dets[j], tag) /\ dets[j].column = j
                             /\ dets[j].tier = IF j <= confident THEN "high" ELSE "low"
    <2>1. AreDetections(dets, tag, confident, n)
      BY <1>1, DetectionFacts
    <2> HIDE DEF dets
    <2> QED BY <2>1 DEF AreDetections
  <1>3. /\ DOMAIN matches \subseteq Rows(k) /\ matches \in [DOMAIN matches -> 1 .. n]
        /\ \A r, s \in DOMAIN matches : matches[r] = matches[s] => r = s
    BY MatchingFacts
  <1>4. newcomers \in SUBSET (1 .. n)
    OBVIOUS
  <1>5. given = [r \in DOMAIN matches |-> dets[matches[r]]] /\ leftovers = Pick(dets, newcomers)
    OBVIOUS
  <1> HIDE DEF dets, n
  <1>6. /\ Len(leftovers) \in Nat
        /\ leftovers \in [1 .. Len(leftovers) -> Detections]
        /\ \A j \in 1 .. Len(leftovers) : \E x \in newcomers : leftovers[j] = dets[x]
        /\ \A i, j \in 1 .. Len(leftovers) : leftovers[i] = leftovers[j] => i = j
    <2>1. \A j \in 1 .. n : dets[j].column = j
      BY <1>2
    <2>2. n \in Nat /\ dets \in [1 .. n -> Detections]
      BY <1>2
    <2>3. ArePicked(Pick(dets, newcomers), dets, newcomers)
      BY ONLY <1>4, <2>1, <2>2, PickFacts
    <2> QED BY <1>5, <2>3 DEF ArePicked
  <1>7. /\ DOMAIN given = DOMAIN matches
        /\ \A r \in DOMAIN given : /\ matches[r] \in 1 .. n /\ given[r] = dets[matches[r]]
                                   /\ given[r] \in Detections /\ OfFrame(given[r], tag)
    BY <1>2, <1>3, <1>5
  <1>8. given \in [DOMAIN given -> Detections]
    BY <1>5, <1>7
  <1>9. ASSUME NEW r \in DOMAIN given, NEW s \in DOMAIN given, given[r] = given[s] PROVE r = s
    BY <1>2, <1>3, <1>7, <1>9
  <1>10. ASSUME NEW r \in DOMAIN given, given[r].tier = "low"
         PROVE  pool[k].tracks[r].state \in {"confirmed", "lost"}
    <2>1. ~(matches[r] <= confident) /\ matches[r] \in Nat
      BY <1>2, <1>7, <1>10
    <2> QED BY <1>7, <2>1
  <1>11. ASSUME NEW j \in 1 .. Len(leftovers)
         PROVE  OfFrame(leftovers[j], tag) /\ leftovers[j].tier = "high"
    <2>1. PICK x \in newcomers : leftovers[j] = dets[x]
      BY <1>6
    <2>2. x \in 1 .. n /\ x <= confident
      BY <1>4
    <2> QED BY <1>2, <2>1, <2>2
  <1>12. ASSUME NEW r \in DOMAIN given, NEW j \in 1 .. Len(leftovers) PROVE given[r] # leftovers[j]
    <2>1. PICK x \in newcomers : leftovers[j] = dets[x]
      BY <1>6
    <2>2. x \in 1 .. n /\ x \notin Taken(matches)
      BY <1>4
    <2>3. matches[r] \in Taken(matches) /\ matches[r] \in 1 .. n /\ given[r] = dets[matches[r]]
      BY <1>7 DEF Taken
    <2> QED BY <1>2, <2>1, <2>2, <2>3
  <1> QED BY <1>1, <1>3, <1>6, <1>7, <1>8, <1>9, <1>10, <1>11, <1>12 DEF IsFrame

LEMMA SortFrame ==
    ASSUME NEW k \in Trackers, SortUpdate(k)
    PROVE  \E tag, given, leftovers : IsFrame(k, tag, Predict(pool[k]), given, leftovers, 0)
  <1>0. PICK tag \in Accepted(k), n \in 0 .. MaxDetections :
        \E matches \in Matchings(Rows(k), 1 .. n) :
          LET kept == DetectionsOf(tag, n, 0)
              given == [r \in DOMAIN matches |-> kept[matches[r]]]
          IN Finish(k, tag, ApplyMatches(Predict(pool[k]), given, 0), given,
                    Rows(k) \ DOMAIN matches, Pick(kept, (1 .. n) \ Taken(matches)), 0)
    BY DEF SortUpdate
  <1>1. PICK matches \in Matchings(Rows(k), 1 .. n) :
          LET kept == DetectionsOf(tag, n, 0)
              given == [r \in DOMAIN matches |-> kept[matches[r]]]
          IN Finish(k, tag, ApplyMatches(Predict(pool[k]), given, 0), given,
                    Rows(k) \ DOMAIN matches, Pick(kept, (1 .. n) \ Taken(matches)), 0)
    BY <1>0
  <1> DEFINE kept == DetectionsOf(tag, n, 0)
             given == [r \in DOMAIN matches |-> kept[matches[r]]]
             newcomers == (1 .. n) \ Taken(matches)
             leftovers == Pick(kept, newcomers)
  <1>2. n \in Nat /\ n + 0 = n
    BY FrameAssumption
  <1>3. matches \in Matchings(Rows(k), 1 .. n + 0)
    BY <1>2
  <1>4. /\ newcomers \in SUBSET (1 .. n) /\ newcomers \cap Taken(matches) = {}
        /\ DOMAIN given = DOMAIN matches
    OBVIOUS
  <1>5. \A r \in DOMAIN matches : ~(matches[r] > n)
    BY <1>2, MatchingFacts
  <1>6. Finish(k, tag, ApplyMatches(Predict(pool[k]), given, 0), given,
               Rows(k) \ DOMAIN given, leftovers, 0)
    BY <1>1, <1>4
  <1>7. /\ given = [r \in DOMAIN matches |-> DetectionsOf(tag, n, 0)[matches[r]]]
        /\ leftovers = Pick(DetectionsOf(tag, n, 0), newcomers)
    OBVIOUS
  <1> HIDE DEF given, leftovers, newcomers, kept
  <1>8. IsFrame(k, tag, Predict(pool[k]), given, leftovers, 0)
    BY <1>2, <1>3, <1>4, <1>5, <1>6, <1>7, AsFrame
  <1> QED BY <1>8

(* Two matchings of different rows with different detections, taken together.*)
Together(first, second) ==
    [r \in DOMAIN first \cup DOMAIN second |-> IF r \in DOMAIN first THEN first[r] ELSE second[r]]

Apart(rows, columns, first, second) ==
    /\ first \in Matchings(rows, columns)
    /\ second \in Matchings(rows \ DOMAIN first, columns \ Taken(first))

IsUnion(rows, columns, first, second, both) ==
    /\ both \in Matchings(rows, columns)
    /\ DOMAIN both = DOMAIN first \cup DOMAIN second
    /\ Taken(both) = Taken(first) \cup Taken(second)

LEMMA TogetherMatches ==
    ASSUME NEW rows, NEW columns, NEW first, NEW second, Apart(rows, columns, first, second)
    PROVE  IsUnion(rows, columns, first, second, Together(first, second))
  <1> DEFINE both == Together(first, second)
  <1>0. /\ first \in Matchings(rows, columns)
        /\ second \in Matchings(rows \ DOMAIN first, columns \ Taken(first))
    BY DEF Apart
  <1>1. /\ DOMAIN first \subseteq rows /\ first \in [DOMAIN first -> columns]
        /\ \A r, s \in DOMAIN first : first[r] = first[s] => r = s
    BY <1>0, MatchingFacts
  <1>2. /\ DOMAIN second \subseteq rows \ DOMAIN first
        /\ second \in [DOMAIN second -> columns \ Taken(first)]
        /\ \A r, s \in DOMAIN second : second[r] = second[s] => r = s
    BY <1>0, MatchingFacts
  <1>3. /\ DOMAIN both = DOMAIN first \cup DOMAIN second
        /\ \A r \in DOMAIN first : both[r] = first[r]
        /\ \A r \in DOMAIN second : both[r] = second[r]
    BY <1>2 DEF Together
  <1>4. both = [r \in DOMAIN both |-> both[r]]
    BY DEF Together
  <1> HIDE DEF both
  <1>5. both \in [DOMAIN both -> columns]
    BY <1>1, <1>2, <1>3, <1>4
  <1>6. ASSUME NEW r \in DOMAIN both, NEW s \in DOMAIN both, both[r] = both[s] PROVE r = s
    <2>1. ASSUME NEW x \in DOMAIN first, NEW y \in DOMAIN second PROVE both[x] # both[y]
      BY <1>2, <1>3 DEF Taken
    <2> QED BY <1>1, <1>2, <1>3, <1>6, <2>1
  <1>7. both \in Matchings(rows, columns)
    BY <1>1, <1>2, <1>3, <1>5, <1>6, MatchingFacts
  <1>8. Taken(both) = Taken(first) \cup Taken(second)
    BY <1>3 DEF Taken
  <1>9. IsUnion(rows, columns, first, second, both)
    BY <1>3, <1>7, <1>8 DEF IsUnion
  <1> QED BY <1>9 DEF both

(* What a matching gives the rows.                                           *)
Provided(dets, matching) == [r \in DOMAIN matching |-> dets[matching[r]]]

(* Two stages, each corrected by itself, are one correction.                 *)
LEMMA TwoCorrections ==
    ASSUME NEW n \in Nat, NEW opened \in Pools(n), NEW position \in Int, NEW m \in Nat,
           NEW dets \in [1 .. m -> Detections],
           NEW first \in Matchings(1 .. n, 1 .. m),
           NEW second \in Matchings((1 .. n) \ DOMAIN first, (1 .. m) \ Taken(first))
    PROVE  ApplyMatches(ApplyMatches(opened, Provided(dets, first), position),
                        Provided(dets, second), position)
             = ApplyMatches(opened, Provided(dets, Together(first, second)), position)
  <1> DEFINE R == DOMAIN first
             S == DOMAIN second
             f == [r \in R |-> dets[first[r]]]
             g == [r \in S |-> dets[second[r]]]
             both == Together(first, second)
             h == [r \in DOMAIN both |-> dets[both[r]]]
  <1>1. R \in SUBSET (1 .. n) /\ first \in [R -> 1 .. m]
    BY MatchingFacts
  <1>2. S \in SUBSET (1 .. n) /\ R \cap S = {} /\ second \in [S -> 1 .. m]
    BY MatchingFacts
  <1>3. /\ DOMAIN both = R \cup S
        /\ \A r \in R \cup S : both[r] = IF r \in R THEN first[r] ELSE second[r]
    BY DEF Together
  <1> HIDE DEF both, R, S
  <1>4. f \in [R -> Detections] /\ g \in [S -> Detections]
    BY <1>1, <1>2
  <1>5. ASSUME NEW r \in R \cup S PROVE h[r] = (IF r \in R THEN f[r] ELSE g[r]) /\ h[r] \in Detections
    BY <1>1, <1>2, <1>3
  <1>6. h \in [R \cup S -> Detections]
    BY <1>3, <1>5
  <1>7. \A r \in R \cup S : h[r] = IF r \in R THEN f[r] ELSE g[r]
    BY <1>5
  <1> HIDE DEF f, g, h
  <1>8. ApplyMatches(ApplyMatches(opened, f, position), g, position)
          = ApplyMatches(opened, h, position)
    <2>1. /\ DOMAIN f = R /\ DOMAIN g = S /\ DOMAIN h = DOMAIN f \cup DOMAIN g
          /\ f \in [DOMAIN f -> Detections] /\ g \in [DOMAIN g -> Detections]
          /\ h \in [DOMAIN h -> Detections]
          /\ \A r \in DOMAIN h : h[r] = IF r \in DOMAIN f THEN f[r] ELSE g[r]
      BY <1>4, <1>6, <1>7
    <2>2. DOMAIN f \subseteq 1 .. n /\ DOMAIN g \subseteq 1 .. n /\ DOMAIN f \cap DOMAIN g = {}
      BY <1>1, <1>2, <2>1
    <2>3. Splits(n, f, g, h)
      BY <2>1, <2>2 DEF Splits
    <2> QED BY <2>3, MatchTwice
  <1> QED BY <1>8 DEF f, g, h, both, R, S, Provided

(* The pool a frame is associated with: a frame further, and moved into it   *)
(* where the camera moved.                                                   *)
IsOpened(opened, p) ==
    opened = Predict(p) \/ \E motion \in Int : opened = ApplyCameraMotion(Predict(p), motion)

(* What opening does to a row, poses aside.                                  *)
Advanced(new, old) ==
    /\ new \in RowRecords
    /\ new.track = [old.track EXCEPT !.age = @ + 1]
    /\ new.mean.last = old.mean.last /\ new.mean.time = old.mean.time + 1
    /\ new.observedMean.last = old.observedMean.last
    /\ new.observedMean.time = old.observedMean.time
    /\ new.observed.det = old.observed.det
    /\ Len(new.ring) = Len(old.ring)
    /\ \A j \in 1 .. Len(old.ring) : /\ new.ring[j].age = old.ring[j].age
                                     /\ new.ring[j].measured.det = old.ring[j].measured.det

LEMMA AgedAdvanced ==
    ASSUME NEW r \in RowRecords
    PROVE  AgedRow(r) \in RowRecords /\ Advanced(AgedRow(r), r)
  <1>1. /\ r.track \in TrackRecords /\ r.mean \in States /\ r.observedMean \in States
        /\ r.observed \in Measurements /\ r.ring \in Seq(Entries)
    BY DEF RowRecords
  <1>2. [r.track EXCEPT !.age = @ + 1] \in TrackRecords
    BY <1>1 DEF TrackRecords
  <1>3. LET mean == [r.mean EXCEPT !.time = @ + 1]
        IN mean \in States /\ mean.last = r.mean.last /\ mean.time = r.mean.time + 1
    BY <1>1 DEF States
  <1>4. AgedRow(r) \in RowRecords
    BY <1>1, <1>2, <1>3 DEF AgedRow, RowRecords
  <1> QED BY <1>3, <1>4 DEF Advanced, AgedRow

LEMMA MovedAdvanced ==
    ASSUME NEW r \in RowRecords, NEW motion \in Int
    PROVE  Advanced(MovedRow(AgedRow(r), motion), r)
  <1> DEFINE old == AgedRow(r)
             new == MovedRow(old, motion)
  <1>1. old \in RowRecords /\ Advanced(old, r)
    BY AgedAdvanced
  <1> HIDE DEF old
  <1>2. /\ old.track \in TrackRecords /\ old.mean \in States /\ old.observedMean \in States
        /\ old.observed \in Measurements /\ old.ring \in Seq(Entries)
    BY <1>1 DEF RowRecords
  <1>3. ASSUME NEW state \in States
        PROVE  LET there == InPose(state, state.pose + motion)
               IN there \in States /\ there.last = state.last /\ there.time = state.time
    BY DEF InPose, States
  <1>4. ASSUME NEW measurement \in Measurements
        PROVE  LET there == InPose(measurement, measurement.pose + motion)
               IN there \in Measurements /\ there.det = measurement.det
    BY DEF InPose, Measurements
  <1>5. /\ new.track = old.track
        /\ new.mean = InPose(old.mean, old.mean.pose + motion)
        /\ new.observedMean = InPose(old.observedMean, old.observedMean.pose + motion)
        /\ new.observed = InPose(old.observed, old.observed.pose + motion)
        /\ new.ring = [j \in DOMAIN old.ring |->
                          [old.ring[j] EXCEPT !.measured = InPose(@, @.pose + motion)]]
        /\ new = [track |-> new.track, mean |-> new.mean, observedMean |-> new.observedMean,
                  observed |-> new.observed, ring |-> new.ring]
    BY DEF MovedRow
  <1>6. /\ new.ring \in Seq(Entries) /\ Len(new.ring) = Len(old.ring)
        /\ \A j \in 1 .. Len(old.ring) : /\ new.ring[j].age = old.ring[j].age
                                         /\ new.ring[j].measured.det = old.ring[j].measured.det
    <2> DEFINE moved == [j \in DOMAIN old.ring |->
                            [old.ring[j] EXCEPT !.measured = InPose(@, @.pose + motion)]]
    <2>1. /\ moved \in Seq(Entries) /\ Len(moved) = Len(old.ring)
          /\ \A j \in 1 .. Len(old.ring) : /\ moved[j].age = old.ring[j].age
                                           /\ moved[j].measured.det = old.ring[j].measured.det
      BY <1>2, MovedRing
    <2>2. new.ring = moved
      BY <1>5
    <2> HIDE DEF new, moved
    <2> QED BY <2>1, <2>2
  <1> HIDE DEF new
  <1>7. new \in RowRecords
    BY <1>2, <1>3, <1>4, <1>5, <1>6 DEF RowRecords
  <1>8. /\ new.track = [r.track EXCEPT !.age = @ + 1]
        /\ old.observed.det = r.observed.det
        /\ Len(new.ring) = Len(r.ring)
        /\ \A j \in 1 .. Len(r.ring) : /\ new.ring[j].age = r.ring[j].age
                                       /\ new.ring[j].measured.det = r.ring[j].measured.det
    BY <1>1, <1>5, <1>6 DEF Advanced
  <1>9. /\ new.mean.last = old.mean.last /\ new.mean.time = old.mean.time
        /\ new.observedMean.last = old.observedMean.last
        /\ new.observedMean.time = old.observedMean.time
        /\ new.observed.det = old.observed.det
    BY <1>2, <1>3, <1>4, <1>5
  <1>10. Advanced(new, r)
    BY <1>1, <1>7, <1>8, <1>9 DEF Advanced
  <1> QED BY <1>10 DEF new, old

LEMMA OpenedRows ==
    ASSUME NEW n \in Nat, NEW p \in Pools(n), NEW opened, IsOpened(opened, p)
    PROVE  /\ SameBuild(opened, p, n) /\ RowsOf(opened) = 1 .. n
           /\ \A i \in 1 .. n : Advanced(Row(opened, i), Row(p, i))
  <1> DEFINE aged == Predict(p)
  <1>1. /\ SameBuild(aged, p, n)
        /\ \A i \in 1 .. n : Row(aged, i) = AgedRow(Row(p, i))
    BY PredictRows DEF SameBuild
  <1>2. \A i \in 1 .. n : Row(p, i) \in RowRecords
    BY RowTyped
  <1> HIDE DEF aged
  <1>3. CASE opened = aged
    <2>1. \A i \in 1 .. n : Advanced(Row(opened, i), Row(p, i))
      BY <1>1, <1>2, <1>3, AgedAdvanced
    <2>2. opened \in Pools(n)
      BY <1>1, <1>3 DEF SameBuild
    <2> QED BY <1>1, <1>3, <2>1, <2>2 DEF Pools, RowsOf
  <1>4. CASE \E motion \in Int : opened = ApplyCameraMotion(aged, motion)
    <2>1. PICK motion \in Int : opened = ApplyCameraMotion(aged, motion)
      BY <1>4
    <2>2. aged \in Pools(n)
      BY <1>1 DEF SameBuild
    <2>3. /\ SameBuild(opened, aged, n)
          /\ \A i \in 1 .. n : Row(opened, i) = MovedRow(Row(aged, i), motion)
      BY <2>1, <2>2, MotionRows DEF SameBuild
    <2>4. SameBuild(opened, p, n)
      BY <1>1, <2>3 DEF SameBuild
    <2>5. \A i \in 1 .. n : Advanced(Row(opened, i), Row(p, i))
      BY <1>1, <1>2, <2>3, MovedAdvanced
    <2>6. RowsOf(opened) = 1 .. n
      BY <2>4 DEF SameBuild, Pools, RowsOf
    <2> QED BY <2>4, <2>5, <2>6
  <1> QED BY <1>3, <1>4 DEF IsOpened, aged

(* Opening leaves the lifecycle alone.                                       *)
LEMMA OpenedStates ==
    ASSUME NEW n \in Nat, NEW p \in Pools(n), NEW opened, IsOpened(opened, p), NEW i \in 1 .. n
    PROVE  /\ opened.tracks[i].state = p.tracks[i].state
           /\ opened.tracks[i].id = p.tracks[i].id
  <1>0. Advanced(Row(opened, i), Row(p, i))
    BY OpenedRows
  <1>1. opened.tracks[i] = [p.tracks[i] EXCEPT !.age = @ + 1]
    BY <1>0 DEF Advanced, Row
  <1>2. p.tracks[i] \in TrackRecords
    BY DEF Pools
  <1> QED BY <1>1, <1>2 DEF TrackRecords

LEMMA MatchingsMonotone ==
    ASSUME NEW rows, NEW columns, NEW R \in SUBSET rows, NEW C \in SUBSET columns,
           NEW m \in Matchings(R, C)
    PROVE  m \in Matchings(rows, columns)
  <1>1. /\ DOMAIN m \subseteq R /\ m \in [DOMAIN m -> C]
        /\ \A r, s \in DOMAIN m : m[r] = m[s] => r = s
    BY MatchingFacts
  <1>2. DOMAIN m \subseteq rows /\ m \in [DOMAIN m -> columns]
    BY <1>1
  <1> QED BY <1>1, <1>2, MatchingFacts

(* What a first correction leaves, it leaves as it was.                      *)
LEMMA LeftAlone ==
    ASSUME NEW n \in Nat, NEW opened \in Pools(n), NEW position \in Int,
           NEW m \in Nat, NEW dets \in [1 .. m -> Detections], NEW first \in Matchings(1 .. n, 1 .. m),
           NEW r \in (1 .. n) \ DOMAIN first
    PROVE  ApplyMatches(opened, Provided(dets, first), position).tracks[r] = opened.tracks[r]
  <1> DEFINE R == DOMAIN first
             f == Provided(dets, first)
             once == ApplyMatches(opened, f, position)
  <1>1. R \in SUBSET (1 .. n) /\ first \in [R -> 1 .. m]
    BY MatchingFacts
  <1>2. f \in [R -> Detections]
    BY <1>1 DEF Provided
  <1>3. r \in 1 .. n /\ r \notin R
    OBVIOUS
  <1> HIDE DEF f, R
  <1>4. RowsHit(once, opened, n, R, f, position)
    BY <1>1, <1>2, MatchRows
  <1>5. Row(once, r) = Row(opened, r)
    BY <1>3, <1>4 DEF RowsHit
  <1>6. once.tracks[r] = opened.tracks[r]
    BY <1>5 DEF Row
  <1> QED BY <1>6 DEF f, R

(* Two stages: confident detections are offered to every row, and of what is *)
(* left some to the trusted rows that are left.                              *)
TwoStaged(k, tag, opened, position, n, confident, doubtful, first, eligible, second, newcomers) ==
    LET dets == DetectionsOf(tag, confident, doubtful)
        both == Together(first, second)
        given == Provided(dets, both)
        once == ApplyMatches(opened, Provided(dets, first), position)
    IN /\ first \in Matchings(1 .. n, 1 .. confident)
       /\ eligible = {r \in (1 .. n) \ DOMAIN first : once.tracks[r].state \in {"confirmed", "lost"}}
       /\ second \in Matchings(eligible, (1 .. confident + doubtful) \ Taken(first))
       /\ newcomers \in SUBSET (1 .. confident)
       /\ newcomers \cap (Taken(first) \cup Taken(second)) = {}
       /\ Finish(k, tag, ApplyMatches(once, Provided(dets, second), position),
                 given, (eligible \ DOMAIN second) \cup (((1 .. n) \ DOMAIN first) \ eligible),
                 Pick(dets, newcomers), position)

LEMMA TwoStageFrame ==
    ASSUME NEW k \in Trackers, NEW n \in Nat, pool[k] \in Pools(n),
           NEW opened, IsOpened(opened, pool[k]), NEW position \in Int, NEW tag \in Accepted(k),
           NEW confident \in Nat, NEW doubtful \in Nat,
           NEW first, NEW eligible, NEW second, NEW newcomers,
           TwoStaged(k, tag, opened, position, n, confident, doubtful, first, eligible, second,
                     newcomers)
    PROVE  \E given, leftovers : IsFrame(k, tag, opened, given, leftovers, position)
  <1> DEFINE m == confident + doubtful
             dets == DetectionsOf(tag, confident, doubtful)
             matches == Together(first, second)
             once == ApplyMatches(opened, Provided(dets, first), position)
             twice == ApplyMatches(once, Provided(dets, second), position)
             given == Provided(dets, matches)
             missed == (eligible \ DOMAIN second) \cup (((1 .. n) \ DOMAIN first) \ eligible)
             leftovers == Pick(dets, newcomers)
  <1>a. /\ first \in Matchings(1 .. n, 1 .. confident)
        /\ second \in Matchings(eligible, (1 .. m) \ Taken(first))
        /\ newcomers \in SUBSET (1 .. confident)
        /\ newcomers \cap (Taken(first) \cup Taken(second)) = {}
    BY DEF TwoStaged
  <1>b. eligible = {r \in (1 .. n) \ DOMAIN first : once.tracks[r].state \in {"confirmed", "lost"}}
    BY DEF TwoStaged
  <1>c. Finish(k, tag, twice, given, missed, leftovers, position)
    BY DEF TwoStaged
  <1>1. Rows(k) = 1 .. n /\ opened \in Pools(n) /\ tag \in Tags
    BY OpenedRows DEF Rows, RowsOf, Pools, SameBuild, Accepted
  <1>2. m \in Nat /\ dets \in [1 .. m -> Detections] /\ 1 .. confident \subseteq 1 .. m
    <2>1. AreDetections(dets, tag, confident, m)
      BY <1>1, DetectionFacts
    <2> QED BY <2>1 DEF AreDetections
  <1> HIDE DEF m, dets, matches
  <1>3. first \in Matchings(1 .. n, 1 .. m)
    BY <1>2, <1>a, MatchingsMonotone
  <1>4. second \in Matchings((1 .. n) \ DOMAIN first, (1 .. m) \ Taken(first))
    <2>1. eligible \in SUBSET ((1 .. n) \ DOMAIN first)
      BY <1>b
    <2> DEFINE columns == (1 .. m) \ Taken(first)
    <2>2. columns \in SUBSET columns
      OBVIOUS
    <2>3. second \in Matchings(eligible, columns)
      BY <1>a
    <2> HIDE DEF columns
    <2>4. second \in Matchings((1 .. n) \ DOMAIN first, columns)
      BY <2>1, <2>2, <2>3, MatchingsMonotone
    <2> QED BY <2>4 DEF columns
  <1>5. twice = ApplyMatches(opened, given, position)
    <2>1. ApplyMatches(ApplyMatches(opened, Provided(dets, first), position),
                       Provided(dets, second), position)
            = ApplyMatches(opened, Provided(dets, Together(first, second)), position)
      BY ONLY <1>1, <1>2, <1>3, <1>4, n \in Nat, position \in Int, TwoCorrections
    <2> QED BY <2>1 DEF matches
  <1>6. /\ matches \in Matchings(Rows(k), 1 .. m)
        /\ DOMAIN matches = DOMAIN first \cup DOMAIN second
        /\ Taken(matches) = Taken(first) \cup Taken(second)
    <2> DEFINE rows == 1 .. n
               columns == 1 .. m
    <2>1. Rows(k) = rows
      BY <1>1
    <2>2. Apart(rows, columns, first, second)
      BY <1>3, <1>4 DEF Apart
    <2> HIDE DEF rows, columns
    <2>3. IsUnion(rows, columns, first, second, Together(first, second))
      BY <2>2, TogetherMatches
    <2> QED BY <2>1, <2>3 DEF columns, IsUnion, matches
  <1>7. DOMAIN given = DOMAIN matches /\ given = [r \in DOMAIN matches |-> dets[matches[r]]]
    BY DEF Provided
  <1>8. missed = Rows(k) \ DOMAIN given
    <2>1. DOMAIN second \subseteq eligible /\ DOMAIN first \subseteq 1 .. n
      BY <1>a, MatchingFacts
    <2>2. eligible \subseteq (1 .. n) \ DOMAIN first
      BY <1>b
    <2> HIDE DEF given
    <2> QED BY <1>1, <1>6, <1>7, <2>1, <2>2
  <1>10. ASSUME NEW r \in DOMAIN matches, matches[r] > confident
         PROVE  pool[k].tracks[r].state \in {"confirmed", "lost"}
    <2>1. r \notin DOMAIN first
      <3>1. ASSUME r \in DOMAIN first PROVE matches[r] = first[r] /\ first[r] \in 1 .. confident
        <4>1. matches[r] = first[r]
          BY <1>6, <3>1 DEF matches, Together
        <4> QED BY <1>a, <3>1, <4>1, MatchingFacts
      <3> QED BY <1>10, <3>1
    <2>2. r \in eligible
      BY <1>6, <1>a, <2>1, MatchingFacts
    <2>3. r \in (1 .. n) \ DOMAIN first /\ once.tracks[r].state \in {"confirmed", "lost"}
      BY <1>b, <2>2
    <2>4. once.tracks[r] = opened.tracks[r]
      BY <1>1, <1>2, <1>3, <2>3, LeftAlone
    <2>5. opened.tracks[r].state = pool[k].tracks[r].state
      BY <2>3, OpenedStates
    <2> HIDE DEF once
    <2> QED BY <2>3, <2>4, <2>5
  <1>11. newcomers \cap Taken(matches) = {}
    BY <1>6, <1>a
  <1> HIDE DEF twice, missed
  <1>9. Finish(k, tag, ApplyMatches(opened, given, position), given, Rows(k) \ DOMAIN given,
               leftovers, position)
    BY <1>c, <1>5, <1>8, Zenon
  <1>12. /\ given = [r \in DOMAIN matches |-> DetectionsOf(tag, confident, doubtful)[matches[r]]]
         /\ leftovers = Pick(DetectionsOf(tag, confident, doubtful), newcomers)
    BY DEF dets, Provided
  <1>13. matches \in Matchings(Rows(k), 1 .. confident + doubtful)
    BY <1>6 DEF m
  <1> HIDE DEF given, leftovers
  <1>14. IsFrame(k, tag, opened, given, leftovers, position)
    BY <1>9, <1>10, <1>11, <1>12, <1>13, <1>a, AsFrame
  <1> QED BY <1>14

LEMMA TwoStagesFrame ==
    ASSUME NEW k \in Trackers, NEW n \in Nat, pool[k] \in Pools(n),
           NEW opened, IsOpened(opened, pool[k]), NEW position \in Int, NEW tag \in Accepted(k),
           NEW most \in Nat, TwoStages(k, tag, opened, position, most)
    PROVE  \E given, leftovers : IsFrame(k, tag, opened, given, leftovers, position)
  <1> DEFINE Given(confident, doubtful, m) ==
                [r \in DOMAIN m |-> DetectionsOf(tag, confident, doubtful)[m[r]]]
             Once(confident, doubtful, first) ==
                ApplyMatches(opened, Given(confident, doubtful, first), position)
             Left(first) == RowsOf(opened) \ DOMAIN first
             Able(confident, doubtful, first) ==
                Eligible(Once(confident, doubtful, first), Left(first))
             Ends(confident, doubtful, first, second) ==
                Finish(k, tag,
                       ApplyMatches(Once(confident, doubtful, first),
                                    Given(confident, doubtful, second), position),
                       Given(confident, doubtful, Together(first, second)),
                       FoundNothing(Left(first), Able(confident, doubtful, first), second),
                       Pick(DetectionsOf(tag, confident, doubtful), (1 .. confident) \ Taken(first)),
                       position)
  <1>1. \E confident \in 0 .. most : \E doubtful \in 0 .. most - confident :
        \E first \in Matchings(RowsOf(opened), 1 .. confident) :
        \E second \in Matchings(Able(confident, doubtful, first),
                                (confident + 1) .. (confident + doubtful)) :
           Ends(confident, doubtful, first, second)
    BY DEF TwoStages, Together
  <1>2. PICK confident \in 0 .. most : \E doubtful \in 0 .. most - confident :
        \E first \in Matchings(RowsOf(opened), 1 .. confident) :
        \E second \in Matchings(Able(confident, doubtful, first),
                                (confident + 1) .. (confident + doubtful)) :
           Ends(confident, doubtful, first, second)
    BY <1>1
  <1>3. PICK doubtful \in 0 .. most - confident :
        \E first \in Matchings(RowsOf(opened), 1 .. confident) :
        \E second \in Matchings(Able(confident, doubtful, first),
                                (confident + 1) .. (confident + doubtful)) :
           Ends(confident, doubtful, first, second)
    BY <1>2
  <1>4. PICK first \in Matchings(RowsOf(opened), 1 .. confident) :
        \E second \in Matchings(Able(confident, doubtful, first),
                                (confident + 1) .. (confident + doubtful)) :
           Ends(confident, doubtful, first, second)
    BY <1>3
  <1> DEFINE second0 == (confident + 1) .. (confident + doubtful)
             eligible == Able(confident, doubtful, first)
  <1>5. PICK second \in Matchings(eligible, second0) : Ends(confident, doubtful, first, second)
    BY <1>4
  <1>6. confident \in Nat /\ doubtful \in Nat /\ RowsOf(opened) = 1 .. n
    BY OpenedRows
  <1> DEFINE newcomers == (1 .. confident) \ Taken(first)
  <1>7. /\ first \in Matchings(1 .. n, 1 .. confident)
        /\ newcomers \in SUBSET (1 .. confident)
    BY <1>6
  <1>8. /\ Taken(first) \subseteq 1 .. confident /\ Taken(second) \subseteq second0
    <2> HIDE DEF eligible, second0
    <2> QED BY <1>5, <1>7, MatchingFacts DEF Taken
  <1>9. second0 \in SUBSET ((1 .. confident + doubtful) \ Taken(first))
    BY <1>6, <1>8
  <1>10. newcomers \cap (Taken(first) \cup Taken(second)) = {}
    BY <1>6, <1>8
  <1>11. second \in Matchings(eligible, (1 .. confident + doubtful) \ Taken(first))
    <2> HIDE DEF eligible, second0
    <2>1. eligible \in SUBSET eligible
      OBVIOUS
    <2> QED BY <1>5, <1>9, <2>1, MatchingsMonotone
  <1>12. TwoStaged(k, tag, opened, position, n, confident, doubtful, first, eligible, second,
                   newcomers)
    BY <1>5, <1>6, <1>7, <1>10, <1>11 DEF TwoStaged, Eligible, FoundNothing, Provided
  <1> HIDE DEF newcomers, eligible
  <1> QED BY <1>6, <1>12, TwoStageFrame

LEMMA OcSortFrame ==
    ASSUME NEW k \in Trackers, NEW n \in Nat, pool[k] \in Pools(n), OcSortUpdate(k)
    PROVE  \E tag \in Accepted(k) : \E given, leftovers :
             IsFrame(k, tag, Predict(pool[k]), given, leftovers, 0)
  <1> DEFINE opened == Predict(pool[k])
             Given(tag, m, f) == [r \in DOMAIN f |-> DetectionsOf(tag, m, 0)[f[r]]]
             Once(tag, m, first) == ApplyMatches(opened, Given(tag, m, first), 0)
             Left(first) == Rows(k) \ DOMAIN first
             Able(tag, m, first) == Trusted(Once(tag, m, first), Left(first))
             Ends(tag, m, first, second) ==
                Finish(k, tag, ApplyMatches(Once(tag, m, first), Given(tag, m, second), 0),
                       Given(tag, m, Together(first, second)),
                       (Able(tag, m, first) \ DOMAIN second) \cup (Left(first) \ Able(tag, m, first)),
                       Pick(DetectionsOf(tag, m, 0), Leftovers(m, first, second)), 0)
  <1>1. PICK tag \in Accepted(k), m \in 0 .. MaxDetections :
        \E first \in Matchings(Rows(k), 1 .. m) :
        \E second \in Matchings(Able(tag, m, first), (1 .. m) \ Taken(first)) :
           Ends(tag, m, first, second)
    BY DEF OcSortUpdate, Together
  <1>2. PICK first \in Matchings(Rows(k), 1 .. m) :
        \E second \in Matchings(Able(tag, m, first), (1 .. m) \ Taken(first)) :
           Ends(tag, m, first, second)
    BY <1>1
  <1> DEFINE eligible == Able(tag, m, first)
             columns == (1 .. m) \ Taken(first)
  <1>3. PICK second \in Matchings(eligible, columns) : Ends(tag, m, first, second)
    BY <1>2
  <1> DEFINE newcomers == Leftovers(m, first, second)
  <1>4. m \in Nat /\ m + 0 = m /\ Rows(k) = 1 .. n
    BY FrameAssumption DEF Rows, RowsOf, Pools
  <1>5. newcomers \in SUBSET (1 .. m) /\ newcomers \cap (Taken(first) \cup Taken(second)) = {}
    BY DEF Leftovers
  <1>6. columns = (1 .. m + 0) \ Taken(first)
    BY <1>4
  <1>7. TwoStaged(k, tag, opened, 0, n, m, 0, first, eligible, second, newcomers)
    BY <1>3, <1>4, <1>5, <1>6 DEF TwoStaged, Trusted, Provided
  <1>8. IsOpened(opened, pool[k])
    BY DEF IsOpened
  <1> HIDE DEF newcomers, eligible, opened
  <1>9. \E given, leftovers : IsFrame(k, tag, opened, given, leftovers, 0)
    BY <1>4, <1>7, <1>8, TwoStageFrame
  <1> QED BY <1>9 DEF opened

LEMMA KeptApart ==
    ASSUME NEW rows, NEW columns, NEW R \in SUBSET rows, NEW C \in SUBSET columns,
           NEW first \in Matchings(R, C),
           NEW S \in SUBSET (rows \ DOMAIN first), NEW D \in SUBSET (columns \ Taken(first)),
           NEW second \in Matchings(S, D)
    PROVE  Apart(rows, columns, first, second)
  <1>1. first \in Matchings(rows, columns)
    BY MatchingsMonotone
  <1>2. second \in Matchings(rows \ DOMAIN first, columns \ Taken(first))
    BY MatchingsMonotone
  <1> QED BY <1>1, <1>2 DEF Apart

(* Four associations, each on what is left, are one matching.                *)
FourStaged(rows, columns, a, b, c, d, R, S, tentative) ==
    /\ tentative \subseteq rows
    /\ a \in Matchings(rows \ tentative, columns)
    /\ R \subseteq (rows \ tentative) \ DOMAIN a
    /\ b \in Matchings(R, columns \ Taken(a))
    /\ S \subseteq ((rows \ tentative) \ DOMAIN a) \ DOMAIN b
    /\ c \in Matchings(S, (columns \ Taken(a)) \ Taken(b))
    /\ d \in Matchings(tentative, ((columns \ Taken(a)) \ Taken(b)) \ Taken(c))

IsUnionOfFour(rows, columns, a, b, c, d, matches) ==
    /\ matches \in Matchings(rows, columns)
    /\ DOMAIN matches = DOMAIN a \cup DOMAIN b \cup DOMAIN c \cup DOMAIN d
    /\ Taken(matches) = Taken(a) \cup Taken(b) \cup Taken(c) \cup Taken(d)

LEMMA FourMatches ==
    ASSUME NEW rows, NEW columns, NEW a, NEW b, NEW c, NEW d, NEW R, NEW S, NEW tentative,
           FourStaged(rows, columns, a, b, c, d, R, S, tentative)
    PROVE  IsUnionOfFour(rows, columns, a, b, c, d, Merge(Merge(a, b), Merge(c, d)))
  <1> DEFINE ab == Together(a, b)
             cd == Together(c, d)
             left == rows \ DOMAIN ab
             free == columns \ Taken(ab)
  <1>0. \A f, g : Merge(f, g) = Together(f, g)
    BY DEF Merge, Together
  <1>1. /\ tentative \subseteq rows
        /\ a \in Matchings(rows \ tentative, columns)
        /\ R \subseteq (rows \ tentative) \ DOMAIN a
        /\ b \in Matchings(R, columns \ Taken(a))
        /\ S \subseteq ((rows \ tentative) \ DOMAIN a) \ DOMAIN b
        /\ c \in Matchings(S, (columns \ Taken(a)) \ Taken(b))
        /\ d \in Matchings(tentative, ((columns \ Taken(a)) \ Taken(b)) \ Taken(c))
    BY DEF FourStaged
  <1>2. /\ DOMAIN a \subseteq rows \ tentative /\ DOMAIN b \subseteq R
        /\ DOMAIN c \subseteq S /\ DOMAIN d \subseteq tentative
    BY <1>1, MatchingFacts
  <1>3. Apart(rows, columns, a, b)
    <2>1. /\ rows \ tentative \in SUBSET rows /\ columns \in SUBSET columns
          /\ R \in SUBSET (rows \ DOMAIN a) /\ columns \ Taken(a) \in SUBSET (columns \ Taken(a))
      BY <1>1
    <2> QED BY <1>1, <2>1, KeptApart
  <1>4. IsUnion(rows, columns, a, b, ab)
    BY <1>3, TogetherMatches
  <1> HIDE DEF ab, cd, left, free
  <1>5. Apart(left, free, c, d)
    <2>1. S \in SUBSET left /\ free \in SUBSET free
      BY <1>1, <1>4 DEF left, IsUnion
    <2>2. free = (columns \ Taken(a)) \ Taken(b)
      BY <1>4 DEF free, IsUnion
    <2>3. tentative \in SUBSET (left \ DOMAIN c)
      BY <1>1, <1>2, <1>4 DEF left, IsUnion
    <2>4. free \ Taken(c) \in SUBSET (free \ Taken(c))
      OBVIOUS
    <2>5. c \in Matchings(S, free) /\ d \in Matchings(tentative, free \ Taken(c))
      BY <1>1, <2>2
    <2> QED BY <2>1, <2>3, <2>4, <2>5, KeptApart
  <1>6. IsUnion(left, free, c, d, cd)
    BY <1>5, TogetherMatches DEF cd
  <1>7. Apart(rows, columns, ab, cd)
    BY <1>4, <1>6 DEF Apart, IsUnion, left, free
  <1>8. IsUnion(rows, columns, ab, cd, Together(ab, cd))
    BY <1>7, TogetherMatches
  <1>9. Merge(Merge(a, b), Merge(c, d)) = Together(ab, cd)
    BY <1>0, Zenon DEF ab, cd
  <1> QED BY <1>4, <1>6, <1>8, <1>9 DEF IsUnion, IsUnionOfFour

(* Who is missed, and what is free to be born, when the four are done.       *)
LEMMA FourLeave ==
    ASSUME NEW rows, NEW columns, NEW a, NEW b, NEW c, NEW d, NEW R, NEW S, NEW tentative,
           FourStaged(rows, columns, a, b, c, d, R, S, tentative)
    PROVE  LET matches == Merge(Merge(a, b), Merge(c, d))
               left == ((rows \ tentative) \ DOMAIN a) \ DOMAIN b
               newcomers == (((columns \ Taken(a)) \ Taken(b)) \ Taken(c)) \ Taken(d)
           IN /\ (S \ DOMAIN c) \cup (tentative \ DOMAIN d) \cup (left \ S) = rows \ DOMAIN matches
              /\ newcomers \subseteq columns /\ newcomers \cap Taken(matches) = {}
  <1> DEFINE matches == Merge(Merge(a, b), Merge(c, d))
             left == ((rows \ tentative) \ DOMAIN a) \ DOMAIN b
  <1>1. /\ tentative \subseteq rows
        /\ a \in Matchings(rows \ tentative, columns)
        /\ R \subseteq (rows \ tentative) \ DOMAIN a
        /\ b \in Matchings(R, columns \ Taken(a))
        /\ S \subseteq left
        /\ c \in Matchings(S, (columns \ Taken(a)) \ Taken(b))
        /\ d \in Matchings(tentative, ((columns \ Taken(a)) \ Taken(b)) \ Taken(c))
    BY DEF FourStaged
  <1>2. /\ DOMAIN a \subseteq rows \ tentative /\ DOMAIN b \subseteq R
        /\ DOMAIN c \subseteq S /\ DOMAIN d \subseteq tentative
    BY <1>1, MatchingFacts
  <1>3. /\ DOMAIN matches = DOMAIN a \cup DOMAIN b \cup DOMAIN c \cup DOMAIN d
        /\ Taken(matches) = Taken(a) \cup Taken(b) \cup Taken(c) \cup Taken(d)
    <2>1. IsUnionOfFour(rows, columns, a, b, c, d, matches)
      BY FourMatches, Zenon
    <2> HIDE DEF matches
    <2> QED BY <2>1 DEF IsUnionOfFour
  <1> HIDE DEF matches
  <1>4. (S \ DOMAIN c) \cup (tentative \ DOMAIN d) \cup (left \ S) = rows \ DOMAIN matches
    BY <1>1, <1>2, <1>3
  <1> QED BY <1>3, <1>4 DEF matches

LEMMA DeepFrame ==
    ASSUME NEW k \in Trackers, NEW n \in Nat, pool[k] \in Pools(n), DeepSortV2Update(k)
    PROVE  \E tag \in Accepted(k) : \E given, leftovers :
             IsFrame(k, tag, Predict(pool[k]), given, leftovers, 0)
  <1> DEFINE opened == Predict(pool[k])
             tentative == Tentative(opened)
             trusted == RowsOf(opened) \ tentative
             Recent(a) == {r \in trusted \ DOMAIN a :
                              opened.tracks[r].time_since_update <= StageBMaxAge}
             Left(a, b) == (trusted \ DOMAIN a) \ DOMAIN b
             Columns2(m, a, b) == Unclaimed(Unclaimed(1 .. m, a), b)
             All(a, b, c, d) == Merge(Merge(a, b), Merge(c, d))
             Given(tag, m, f) == [r \in DOMAIN f |-> DetectionsOf(tag, m, 0)[f[r]]]
             Newcomers(m, a, b, c, d) == Unclaimed(Unclaimed(Columns2(m, a, b), c), d)
             Ends(tag, m, a, b, c, d, candidates) ==
                Finish(k, tag, ApplyMatches(opened, Given(tag, m, All(a, b, c, d)), 0),
                       Given(tag, m, All(a, b, c, d)),
                       MissedAfterAll(candidates, Left(a, b), c, tentative, d),
                       Pick(DetectionsOf(tag, m, 0), Newcomers(m, a, b, c, d)), 0)
  <1>1. PICK tag \in Accepted(k), m \in 0 .. MaxDetections :
        \E a \in Matchings(trusted, 1 .. m) : \E b \in Matchings(Recent(a), Unclaimed(1 .. m, a)) :
        \E candidates \in Recoverable(Left(a, b)) : \E c \in Matchings(candidates, Columns2(m, a, b)) :
        \E d \in Matchings(tentative, Unclaimed(Columns2(m, a, b), c)) :
           Ends(tag, m, a, b, c, d, candidates)
    BY DEF DeepSortV2Update
  <1>2. PICK a \in Matchings(trusted, 1 .. m) : \E b \in Matchings(Recent(a), Unclaimed(1 .. m, a)) :
        \E candidates \in Recoverable(Left(a, b)) : \E c \in Matchings(candidates, Columns2(m, a, b)) :
        \E d \in Matchings(tentative, Unclaimed(Columns2(m, a, b), c)) :
           Ends(tag, m, a, b, c, d, candidates)
    BY <1>1
  <1>3. PICK b \in Matchings(Recent(a), Unclaimed(1 .. m, a)) :
        \E candidates \in Recoverable(Left(a, b)) : \E c \in Matchings(candidates, Columns2(m, a, b)) :
        \E d \in Matchings(tentative, Unclaimed(Columns2(m, a, b), c)) :
           Ends(tag, m, a, b, c, d, candidates)
    BY <1>2
  <1>4. PICK candidates \in Recoverable(Left(a, b)) :
        \E c \in Matchings(candidates, Columns2(m, a, b)) :
        \E d \in Matchings(tentative, Unclaimed(Columns2(m, a, b), c)) :
           Ends(tag, m, a, b, c, d, candidates)
    BY <1>3
  <1>5. PICK c \in Matchings(candidates, Columns2(m, a, b)) :
        \E d \in Matchings(tentative, Unclaimed(Columns2(m, a, b), c)) :
           Ends(tag, m, a, b, c, d, candidates)
    BY <1>4
  <1>6. PICK d \in Matchings(tentative, Unclaimed(Columns2(m, a, b), c)) :
           Ends(tag, m, a, b, c, d, candidates)
    BY <1>5
  <1> DEFINE matches == All(a, b, c, d)
             newcomers == Newcomers(m, a, b, c, d)
             missed == MissedAfterAll(candidates, Left(a, b), c, tentative, d)
             given == Given(tag, m, matches)
             leftovers == Pick(DetectionsOf(tag, m, 0), newcomers)
  <1>7. m \in Nat /\ m + 0 = m /\ Rows(k) = 1 .. n /\ RowsOf(opened) = Rows(k)
    <2>1. m \in Nat /\ Rows(k) = 1 .. n
      BY FrameAssumption DEF Rows, RowsOf, Pools
    <2>2. IsOpened(opened, pool[k])
      BY DEF IsOpened
    <2>3. RowsOf(opened) = 1 .. n
      BY <2>2, OpenedRows
    <2> QED BY <2>1, <2>3
  <1>8. FourStaged(Rows(k), 1 .. m, a, b, c, d, Recent(a), candidates, tentative)
    BY <1>2, <1>3, <1>4, <1>5, <1>6, <1>7
       DEF FourStaged, Unclaimed, Recoverable, Tentative
  <1>9. matches \in Matchings(Rows(k), 1 .. m)
    BY <1>8, FourMatches DEF IsUnionOfFour
  <1>10. missed = Rows(k) \ DOMAIN matches
    BY <1>7, <1>8, FourLeave DEF MissedAfterAll
  <1>11. newcomers \in SUBSET (1 .. m) /\ newcomers \cap Taken(matches) = {}
    <2>1. newcomers = ((((1 .. m) \ Taken(a)) \ Taken(b)) \ Taken(c)) \ Taken(d)
      BY DEF Unclaimed
    <2> DEFINE columns == 1 .. m
    <2> HIDE DEF newcomers, columns, tentative, Recent, given, leftovers, missed
    <2>2. /\ (((columns \ Taken(a)) \ Taken(b)) \ Taken(c)) \ Taken(d) \subseteq columns
          /\ ((((columns \ Taken(a)) \ Taken(b)) \ Taken(c)) \ Taken(d)) \cap Taken(matches) = {}
      BY <1>8, FourLeave DEF columns
    <2> QED BY <2>1, <2>2 DEF columns
  <1>12. Ends(tag, m, a, b, c, d, candidates)
    BY <1>6
  <1>13. Finish(k, tag, ApplyMatches(opened, given, 0), given, missed, leftovers, 0)
    BY <1>12
  <1>14. DOMAIN given = DOMAIN matches
    OBVIOUS
  <1>15. /\ given = [r \in DOMAIN matches |-> DetectionsOf(tag, m, 0)[matches[r]]]
         /\ leftovers = Pick(DetectionsOf(tag, m, 0), newcomers)
    OBVIOUS
  <1> HIDE DEF matches, newcomers, missed, given, leftovers, opened
  <1>16. \A r \in DOMAIN matches : ~(matches[r] > m)
    BY <1>7, <1>9, MatchingFacts
  <1>17. Finish(k, tag, ApplyMatches(opened, given, 0), given, Rows(k) \ DOMAIN given, leftovers, 0)
    BY <1>10, <1>13, <1>14
  <1>18. matches \in Matchings(Rows(k), 1 .. m + 0)
    BY <1>7, <1>9
  <1>19. IsFrame(k, tag, opened, given, leftovers, 0)
    BY <1>7, <1>11, <1>15, <1>16, <1>17, <1>18, AsFrame
  <1> QED BY <1>19 DEF opened

--------------------------------------------------------------------------------
(* One row through one frame.                                               *)

LEMMA RingPositive ==
    ASSUME NEW history \in Nat
    PROVE  RingLength(history) \in Nat /\ RingLength(history) >= 1
  BY DEF RingLength

LEMMA BornInv ==
    ASSUME NEW id \in Nat, NEW det \in Detections, NEW position \in Int, NEW history \in Nat,
           NEW reUpdate \in BOOLEAN, NEW done \in Nat, NEW tag \in Tags, OfFrame(det, tag), det.tier = "high"
    PROVE  RowInv(BornRow(id, det, position), <<[frame |-> done, det |-> det]>>, history, reUpdate,
                  done, tag)
  <1> DEFINE row == BornRow(id, det, position)
             sighting == [frame |-> done, det |-> det]
             seen == <<sighting>>
  <1>1. sighting \in Sightings /\ sighting.frame = done /\ sighting.det = det
    BY DEF Sightings
  <1> HIDE DEF sighting
  <1>2. seen \in Seq(Sightings) /\ seen # <<>> /\ Len(seen) = 1 /\ seen[1] = sighting
    BY <1>1
  <1>3. /\ row.track = Newborn(id) /\ row.mean.last = det /\ row.mean.time = 0
        /\ row.observedMean.last = det /\ row.observedMean.time = 0
        /\ row.observed.det = det /\ Len(row.ring) = 1 /\ row.ring[1].measured.det = det
    BY DEF BornRow
  <1>4. /\ row.track.age = 1 /\ row.track.hits = 1 /\ row.track.time_since_update = 0
        /\ row.track.state = IF MinHits = 1 THEN "confirmed" ELSE "tentative"
    BY <1>3, NewbornTrack
  <1> HIDE DEF row, seen
  <1>5. Aligned(row, seen, history)
    <2>1. Len(row.ring) = IF Len(seen) < RingLength(history) THEN Len(seen) ELSE RingLength(history)
      BY <1>2, <1>3, RingPositive
    <2>2. \A j \in 1 .. Len(row.ring) :
            row.ring[j].measured.det = seen[Len(seen) - Len(row.ring) + j].det
      <3>1. ASSUME NEW j \in 1 .. 1 PROVE j = 1 /\ 1 - 1 + j = 1
        OBVIOUS
      <3> QED BY <1>1, <1>2, <1>3, <3>1
    <2> QED BY <1>1, <1>2, <1>3, <2>1, <2>2 DEF Aligned
  <1>6. Clocked(row, seen, reUpdate, done)
    BY <1>1, <1>2, <1>3, <1>4 DEF Clocked
  <1>7. Unbroken(seen, 1)
    <2>1. \A j \in 1 .. 1 : seen[j].det.tier = "high"
      BY <1>1, <1>2
    <2> QED BY <2>1 DEF Unbroken
  <1>8. Earned(row, seen)
    BY <1>2, <1>4, <1>7, LifecycleAssumption DEF Earned
  <1>9. Ordered(seen, tag)
    <2>1. DOMAIN seen = {1}
      BY <1>2
    <2>2. det.camera = tag.camera /\ det.frame <= tag.frame
      BY FrameAssumption DEF OfFrame, Detections
    <2> QED BY <1>1, <1>2, <2>1, <2>2 DEF Ordered
  <1>10. RowInv(row, seen, history, reUpdate, done, tag)
    BY <1>2, <1>5, <1>6, <1>8, <1>9 DEF RowInv
  <1> QED BY <1>10 DEF row, seen, sighting

LEMMA SeenTyped ==
    ASSUME NEW seen \in Seq(Sightings)
    PROVE  /\ Len(seen) \in Nat /\ DOMAIN seen = 1 .. Len(seen)
           /\ \A j \in 1 .. Len(seen) :
                /\ seen[j] \in Sightings /\ seen[j].frame \in Nat /\ seen[j].det \in Detections
                /\ seen[j].det.frame \in Nat
           /\ seen # <<>> => Len(seen) >= 1
  <1>1. Len(seen) \in Nat /\ DOMAIN seen = 1 .. Len(seen)
    OBVIOUS
  <1>2. ASSUME NEW j \in 1 .. Len(seen)
        PROVE  /\ seen[j] \in Sightings /\ seen[j].frame \in Nat /\ seen[j].det \in Detections
               /\ seen[j].det.frame \in Nat
    <2>1. seen[j] \in Sightings
      BY ElementOfSeq
    <2> QED BY <2>1 DEF Sightings, Detections
  <1>3. seen # <<>> => Len(seen) >= 1
    BY EmptySeq
  <1> QED BY <1>1, <1>2, <1>3

(* begin() lets a frame in.                                                  *)
Later(tag, last) == tag.camera = last.camera /\ tag.frame > last.frame

LEMMA OrderedLater ==
    ASSUME NEW seen \in Seq(Sightings), NEW last \in Tags, NEW tag \in Tags, Later(tag, last),
           Ordered(seen, last)
    PROVE  Ordered(seen, tag)
  <1>1. last.frame \in Nat /\ tag.frame \in Nat
    BY FrameAssumption DEF Tags
  <1>2. \A j \in DOMAIN seen : seen[j].det.frame \in Nat
    BY SeenTyped
  <1> QED BY <1>1, <1>2 DEF Ordered, Later

SameSeen(new, old) ==
    /\ new.mean.last = old.mean.last /\ new.observedMean.last = old.observedMean.last
    /\ new.observed.det = old.observed.det /\ Len(new.ring) = Len(old.ring)
    /\ \A j \in 1 .. Len(old.ring) : new.ring[j].measured.det = old.ring[j].measured.det

LEMMA AlignedAdvanced ==
    ASSUME NEW old, NEW new, SameSeen(new, old), NEW seen, NEW history, Aligned(old, seen, history)
    PROVE  Aligned(new, seen, history)
  <1> DEFINE L == Len(seen)
             N == Len(old.ring)
  <1>1. /\ new.mean.last = old.mean.last /\ new.observedMean.last = old.observedMean.last
        /\ new.observed.det = old.observed.det /\ Len(new.ring) = N
        /\ \A j \in 1 .. N : new.ring[j].measured.det = old.ring[j].measured.det
    BY DEF SameSeen
  <1>2. /\ old.mean.last = seen[L].det /\ old.observedMean.last = seen[L].det
        /\ old.observed.det = seen[L].det
        /\ N = IF L < RingLength(history) THEN L ELSE RingLength(history)
        /\ \A j \in 1 .. N : old.ring[j].measured.det = seen[L - N + j].det
    BY DEF Aligned
  <1>3. \A j \in 1 .. N : new.ring[j].measured.det = seen[L - N + j].det
    BY <1>1, <1>2
  <1> QED BY <1>1, <1>2, <1>3, Zenon DEF Aligned

LEMMA MissInv ==
    ASSUME NEW old \in RowRecords, NEW new, Advanced(new, old),
           NEW seen, NEW history \in Nat, NEW reUpdate \in BOOLEAN, NEW done \in Nat,
           NEW last \in Tags, NEW tag \in Tags, Later(tag, last),
           RowInv(old, seen, history, reUpdate, done, last),
           MissedRow(new).track.state # "removed"
    PROVE  RowInv(MissedRow(new), seen, history, reUpdate, done + 1, tag)
  <1> DEFINE row == MissedRow(new)
  <1>1. /\ seen \in Seq(Sightings) /\ seen # <<>> /\ Aligned(old, seen, history)
        /\ Clocked(old, seen, reUpdate, done) /\ Earned(old, seen) /\ Ordered(seen, last)
    BY DEF RowInv
  <1>2. /\ row.track = Missed(new.track) /\ row.mean = new.mean
        /\ row.observedMean = new.observedMean /\ row.observed = new.observed
        /\ row.ring = new.ring
    BY DEF MissedRow
  <1>3. row.track.state # "removed"
    OBVIOUS
  <1> HIDE DEF row
  <1>4. Aligned(row, seen, history)
    <2>1. SameSeen(row, old)
      BY <1>2 DEF SameSeen, Advanced
    <2> QED BY <1>1, <2>1, AlignedAdvanced
  <1>5. /\ old.track \in TrackRecords /\ new.track \in TrackRecords
        /\ new.track.age = old.track.age + 1 /\ new.track.state = old.track.state
        /\ new.track.hits = old.track.hits
        /\ new.track.time_since_update = old.track.time_since_update
    BY DEF Advanced, RowRecords, TrackRecords
  <1>6. /\ row.track.age = old.track.age + 1 /\ row.track.hits = old.track.hits
        /\ row.track.time_since_update = old.track.time_since_update + 1
        /\ row.track.state = IF old.track.state = "tentative" \/ old.track.time_since_update >= MaxAge
                             THEN "removed" ELSE "lost"
    BY <1>2, <1>5, MissedTrack
  <1>7. /\ old.track.time_since_update \in Nat /\ old.track.age \in Nat
        /\ old.mean.time \in Int /\ old.observedMean.time \in Int
    BY <1>5 DEF TrackRecords, RowRecords, States
  <1>8. seen[Len(seen)].frame \in Nat
    <2>1. Len(seen) \in 1 .. Len(seen)
      BY <1>1, SeenTyped
    <2> QED BY <1>1, <2>1, SeenTyped
  <1>9. Clocked(row, seen, reUpdate, done + 1)
    <2>1. /\ row.mean.time = old.mean.time + 1
          /\ row.observedMean.time = old.observedMean.time
      BY <1>2 DEF Advanced
    <2>2. /\ old.track.hits = Len(seen)
          /\ old.track.time_since_update = done - seen[Len(seen)].frame
          /\ old.mean.time = old.track.age - 1
          /\ reUpdate => old.observedMean.time = old.track.age - 1 - old.track.time_since_update
      BY <1>1 DEF Clocked
    <2>3. row.track.time_since_update = (done + 1) - seen[Len(seen)].frame
      <3>1. row.track.time_since_update = (done - seen[Len(seen)].frame) + 1
        BY <1>6, <2>2
      <3>2. seen[Len(seen)].frame \in Int /\ done \in Int
        BY <1>8
      <3> QED BY ONLY <3>1, <3>2
    <2>4. row.mean.time = row.track.age - 1
      BY <1>6, <1>7, <2>1, <2>2
    <2>5. ASSUME reUpdate
          PROVE  row.observedMean.time = row.track.age - 1 - row.track.time_since_update
      <3>1. old.observedMean.time = old.track.age - 1 - old.track.time_since_update
        BY <2>2, <2>5, Zenon
      <3> QED BY ONLY <1>6, <1>7, <2>1, <3>1
    <2>6. row.track.hits = Len(seen)
      BY <1>6, <2>2
    <2> QED BY <2>3, <2>4, <2>5, <2>6, Zenon DEF Clocked
  <1>10. Earned(row, seen)
    <2>1. /\ row.track.state = "lost" /\ old.track.state # "tentative"
          /\ old.track.time_since_update < MaxAge
      BY <1>3, <1>6, <1>7, LifecycleAssumption
    <2>2. old.track.hits >= MinHits /\ Unbroken(seen, MinHits)
      BY <1>1, <2>1 DEF Earned
    <2>3. row.track.time_since_update \in 1 .. MaxAge
      BY <1>6, <1>7, <2>1, LifecycleAssumption
    <2> QED BY <1>6, <2>1, <2>2, <2>3 DEF Earned
  <1>11. RowInv(row, seen, history, reUpdate, done + 1, tag)
    BY <1>1, <1>4, <1>9, <1>10, OrderedLater DEF RowInv
  <1> QED BY <1>11 DEF row

(* A frame that fails after begin(), where nothing is rebuilt.               *)
LEMMA AdvancedInv ==
    ASSUME NEW old \in RowRecords, NEW new, Advanced(new, old),
           NEW seen, NEW history \in Nat, NEW done \in Nat,
           NEW last \in Tags, NEW tag \in Tags, Later(tag, last),
           RowInv(old, seen, history, FALSE, done, last)
    PROVE  RowInv(new, seen, history, FALSE, done, tag)
  <1>1. /\ seen \in Seq(Sightings) /\ seen # <<>> /\ Aligned(old, seen, history)
        /\ Clocked(old, seen, FALSE, done) /\ Earned(old, seen) /\ Ordered(seen, last)
    BY DEF RowInv
  <1>2. Aligned(new, seen, history)
    <2>1. SameSeen(new, old)
      BY DEF SameSeen, Advanced
    <2> QED BY <1>1, <2>1, AlignedAdvanced
  <1>3. /\ old.track \in TrackRecords /\ new.track \in TrackRecords
        /\ new.track.age = old.track.age + 1 /\ new.track.state = old.track.state
        /\ new.track.hits = old.track.hits
        /\ new.track.time_since_update = old.track.time_since_update
    BY DEF Advanced, RowRecords, TrackRecords
  <1>4. old.track.age \in Nat /\ old.mean.time \in Int
    BY <1>3 DEF TrackRecords, RowRecords, States
  <1>5. Clocked(new, seen, FALSE, done)
    BY <1>1, <1>3, <1>4 DEF Clocked, Advanced
  <1>6. Earned(new, seen)
    BY <1>1, <1>3 DEF Earned
  <1> QED BY <1>1, <1>2, <1>5, <1>6, OrderedLater DEF RowInv

(* A detection given to the row joins what was seen.                         *)
Seeing(seen, done, det) == Append(seen, [frame |-> done, det |-> det])

SeesOneMore(now, seen, done, det) ==
    /\ now \in Seq(Sightings) /\ now # <<>> /\ Len(now) = Len(seen) + 1
    /\ now[Len(seen) + 1].det = det /\ now[Len(seen) + 1].frame = done
    /\ \A j \in 1 .. Len(seen) : now[j] = seen[j]

LEMMA SeeingFacts ==
    ASSUME NEW seen \in Seq(Sightings), NEW done \in Nat, NEW det \in Detections
    PROVE  SeesOneMore(Seeing(seen, done, det), seen, done, det)
  <1> DEFINE sighting == [frame |-> done, det |-> det]
             now == Seeing(seen, done, det)
  <1>1. sighting \in Sightings /\ sighting.frame = done /\ sighting.det = det
    BY DEF Sightings
  <1>2. now = Append(seen, sighting)
    BY DEF Seeing
  <1> HIDE DEF sighting, now
  <1>3. /\ now \in Seq(Sightings) /\ Len(now) = Len(seen) + 1 /\ now[Len(seen) + 1] = sighting
        /\ \A j \in 1 .. Len(seen) : now[j] = seen[j]
    BY <1>1, <1>2, AppendProperties
  <1>4. now # <<>>
    BY <1>3, SeenTyped, EmptySeq
  <1>5. SeesOneMore(now, seen, done, det)
    BY <1>1, <1>3, <1>4 DEF SeesOneMore
  <1> QED BY <1>5 DEF now

LEMMA RebuiltFacts ==
    ASSUME NEW r \in RowRecords, NEW reUpdate \in BOOLEAN
    PROVE  /\ Rebuilt(r, reUpdate) \in States
           /\ reUpdate /\ r.track.time_since_update >= 1 =>
                /\ Rebuilt(r, reUpdate).time = r.observedMean.time + r.track.time_since_update + 1
                /\ Rebuilt(r, reUpdate).pose = r.observedMean.pose
           /\ ~(reUpdate /\ r.track.time_since_update >= 1) => Rebuilt(r, reUpdate) = r.mean
  <1>1. /\ r.mean \in States /\ r.observedMean \in States /\ r.track.time_since_update \in Nat
        /\ r.observedMean.time \in Int
    BY DEF RowRecords, TrackRecords, States
  <1> DEFINE gap == r.track.time_since_update
             replayed == [r.observedMean EXCEPT !.time = @ + gap + 1]
  <1>2. /\ replayed \in States /\ replayed.time = r.observedMean.time + gap + 1
        /\ replayed.pose = r.observedMean.pose
    BY <1>1 DEF States
  <1>3. CASE reUpdate /\ gap >= 1
    BY <1>2, <1>3 DEF Rebuilt
  <1>4. CASE ~(reUpdate /\ gap >= 1)
    BY <1>1, <1>4 DEF Rebuilt
  <1> QED BY <1>3, <1>4

(* What a correction makes of a row, field by field.                         *)
EntryOf(r, det, position) == [age |-> r.track.age, measured |-> [det |-> det, pose |-> position]]

IsHit(row, r, history, reUpdate, det, position) ==
    /\ row.track = Matched(r.track)
    /\ row.mean = row.observedMean /\ row.mean.last = det
    /\ row.mean.time = Rebuilt(r, reUpdate).time
    /\ row.mean.pose = Rebuilt(r, reUpdate).pose
    /\ row.observed.det = det /\ row.observed.pose = position
    /\ row.ring = Remember(history, r.ring, EntryOf(r, det, position))
    /\ EntryOf(r, det, position) \in Entries

LEMMA HitFields ==
    ASSUME NEW r \in RowRecords, NEW history \in Nat, NEW reUpdate \in BOOLEAN,
           NEW det \in Detections, NEW position \in Int
    PROVE  IsHit(HitRow(r, history, reUpdate, det, position), r, history, reUpdate, det, position)
  <1> DEFINE corrected == [Rebuilt(r, reUpdate) EXCEPT !.last = det]
             row == HitRow(r, history, reUpdate, det, position)
             measurement == [det |-> det, pose |-> position]
             entry == EntryOf(r, det, position)
  <1>1. /\ corrected.last = det /\ corrected.time = Rebuilt(r, reUpdate).time
        /\ corrected.pose = Rebuilt(r, reUpdate).pose
    <2>1. Rebuilt(r, reUpdate) \in States
      BY RebuiltFacts
    <2> QED BY <2>1 DEF States
  <1>2. measurement \in Measurements /\ r.track.age \in Nat
    BY DEF Measurements, RowRecords, TrackRecords
  <1>3. entry \in Entries
    BY <1>2 DEF Entries, EntryOf
  <1>4. /\ row.track = Matched(r.track) /\ row.mean = corrected /\ row.observedMean = corrected
        /\ row.observed = measurement /\ row.ring = Remember(history, r.ring, entry)
    BY DEF HitRow, EntryOf
  <1>5. row.observed.det = det /\ row.observed.pose = position
    BY <1>4
  <1> HIDE DEF corrected, row
  <1>6. IsHit(row, r, history, reUpdate, det, position)
    BY <1>1, <1>3, <1>4, <1>5 DEF IsHit
  <1> QED BY <1>6 DEF row

LEMMA HitAligned ==
    ASSUME NEW r \in RowRecords, NEW history \in Nat, NEW reUpdate \in BOOLEAN,
           NEW det \in Detections, NEW position \in Int,
           NEW seen \in Seq(Sightings), NEW done \in Nat, Aligned(r, seen, history)
    PROVE  Aligned(HitRow(r, history, reUpdate, det, position), Seeing(seen, done, det), history)
  <1> DEFINE row == HitRow(r, history, reUpdate, det, position)
             now == Seeing(seen, done, det)
             entry == EntryOf(r, det, position)
             L == Len(seen)
             N == Len(r.ring)
             most == RingLength(history)
             M == IF N < most THEN N + 1 ELSE most
  <1>1. /\ now \in Seq(Sightings) /\ Len(now) = L + 1 /\ now[L + 1].det = det
        /\ \A j \in 1 .. L : now[j] = seen[j]
    <2>1. SeesOneMore(Seeing(seen, done, det), seen, done, det)
      BY SeeingFacts
    <2> QED BY <2>1 DEF SeesOneMore
  <1>2. /\ row.mean.last = det /\ row.observedMean.last = det /\ row.observed.det = det
        /\ row.ring = Remember(history, r.ring, entry) /\ entry \in Entries
    <2> HIDE DEF row, entry
    <2>1. IsHit(row, r, history, reUpdate, det, position)
      BY ONLY HitFields, r \in RowRecords, history \in Nat, reUpdate \in BOOLEAN,
              det \in Detections, position \in Int DEF row
    <2> QED BY ONLY <2>1 DEF IsHit, entry
  <1>3. L \in Nat /\ most \in Nat /\ most >= 1 /\ r.ring \in Seq(Entries)
    BY SeenTyped, RingPositive DEF RowRecords
  <1>4. N = (IF L < most THEN L ELSE most) /\ N \in Nat /\ N <= most
    BY <1>3 DEF Aligned
  <1>5. entry.measured.det = det
    BY DEF EntryOf
  <1>6. \A j \in 1 .. N : r.ring[j].measured.det = seen[L - N + j].det
    BY DEF Aligned
  <1> HIDE DEF row, now, entry, L, N, most
  <1>7. /\ Len(row.ring) = M /\ row.ring[M] = entry
        /\ \A j \in 1 .. M - 1 : row.ring[j] = r.ring[N + 1 - M + j]
    <2>1. LET new == Remember(history, r.ring, entry)
              length == IF Len(r.ring) < RingLength(history) THEN Len(r.ring) + 1
                                                             ELSE RingLength(history)
          IN /\ new \in Seq(Entries) /\ Len(new) = length
             /\ new[length] = entry
             /\ \A j \in 1 .. length - 1 : new[j] = r.ring[Len(r.ring) + 1 - length + j]
      BY <1>2, <1>3, <1>4, Remembered DEF N, most
    <2> QED BY <1>2, <2>1 DEF N, most
  <1>8. M = IF L + 1 < most THEN L + 1 ELSE most
    BY <1>3, <1>4
  <1>9. M \in Nat /\ M >= 1 /\ M <= N + 1
    BY <1>3, <1>4
  <1> HIDE DEF M
  <1>10. ASSUME NEW j \in 1 .. M
         PROVE  row.ring[j].measured.det = now[L + 1 - M + j].det
    <2>1. CASE j = M
      <3>1. L + 1 - M + j = L + 1
        BY <1>3, <1>9, <2>1
      <3> QED BY <1>1, <1>5, <1>7, <2>1, <3>1
    <2>2. CASE j # M
      <3>1. j \in 1 .. M - 1 /\ N + 1 - M + j \in 1 .. N
        <4>1. N \in Nat /\ M \in Nat /\ j \in Nat /\ j >= 1 /\ j <= M - 1 /\ M <= N + 1
          BY <1>4, <1>9, <2>2
        <4>2. N + 1 - M + j >= 1 /\ N + 1 - M + j <= N /\ N + 1 - M + j \in Int
          BY ONLY <4>1
        <4> QED BY ONLY <4>1, <4>2
      <3>2. row.ring[j].measured.det = seen[L - N + (N + 1 - M + j)].det
        <4> DEFINE x == N + 1 - M + j
        <4>1. x \in 1 .. N /\ row.ring[j] = r.ring[x]
          BY <1>7, <3>1
        <4> HIDE DEF x
        <4>2. row.ring[j].measured.det = seen[L - N + x].det
          BY <1>6, <4>1
        <4> QED BY <4>2 DEF x
      <3>3. L - N + (N + 1 - M + j) = L + 1 - M + j /\ L + 1 - M + j \in 1 .. L
        BY <1>3, <1>4, <1>8, <1>9, <2>2
      <3> QED BY <1>1, <3>2, <3>3
    <2> QED BY <2>1, <2>2
  <1>11. Len(now) = L + 1 /\ now[Len(now)].det = det
    BY <1>1
  <1>12. Len(row.ring) = IF Len(now) < RingLength(history) THEN Len(now) ELSE RingLength(history)
    BY <1>7, <1>8, <1>11 DEF most
  <1>13. \A j \in 1 .. Len(row.ring) :
            row.ring[j].measured.det = now[Len(now) - Len(row.ring) + j].det
    <2>1. \A j \in 1 .. M : Len(now) - M + j = L + 1 - M + j
      BY <1>3, <1>9, <1>11
    <2> QED BY <1>7, <1>10, <2>1
  <1>14. Aligned(row, now, history)
    BY <1>2, <1>11, <1>12, <1>13 DEF Aligned
  <1> QED BY <1>14 DEF row, now

LEMMA UnbrokenKept ==
    ASSUME NEW seen \in Seq(Sightings), NEW done \in Nat, NEW det \in Detections, NEW count \in Nat,
           count <= Len(seen), Unbroken(seen, count)
    PROVE  Unbroken(Seeing(seen, done, det), count)
  <1> DEFINE now == Seeing(seen, done, det)
  <1>1. \A j \in 1 .. Len(seen) : now[j] = seen[j]
    <2>1. SeesOneMore(Seeing(seen, done, det), seen, done, det)
      BY SeeingFacts
    <2> QED BY <2>1 DEF SeesOneMore
  <1>2. \A j \in 1 .. count : now[j] = seen[j]
    BY <1>1, SeenTyped
  <1>3. \A j \in 2 .. count : now[j] = seen[j] /\ now[j - 1] = seen[j - 1]
    BY <1>2
  <1> HIDE DEF now
  <1>4. Unbroken(now, count)
    BY <1>2, <1>3 DEF Unbroken
  <1> QED BY <1>4 DEF now

LEMMA UnbrokenGrows ==
    ASSUME NEW seen \in Seq(Sightings), NEW done \in Nat, NEW det \in Detections,
           Len(seen) >= 1, Unbroken(seen, Len(seen)), seen[Len(seen)].frame = done,
           det.tier = "high"
    PROVE  Unbroken(Seeing(seen, done + 1, det), Len(seen) + 1)
  <1> DEFINE now == Seeing(seen, done + 1, det)
             L == Len(seen)
  <1>1. /\ L \in Nat /\ now[L + 1].det = det /\ now[L + 1].frame = done + 1
        /\ \A j \in 1 .. L : now[j] = seen[j]
    <2>1. done + 1 \in Nat
      OBVIOUS
    <2>2. SeesOneMore(now, seen, done + 1, det)
      BY <2>1, SeeingFacts
    <2> HIDE DEF now
    <2> QED BY <2>2, SeenTyped DEF SeesOneMore
  <1>2. Unbroken(now, L)
    BY <1>1, UnbrokenKept
  <1>3. ASSUME NEW j \in 2 .. L + 1 PROVE now[j].frame = now[j - 1].frame + 1
    <2>1. CASE j = L + 1
      <3>1. j - 1 = L /\ L \in 1 .. L
        BY <1>1, <2>1
      <3>2. now[j - 1].frame = done
        BY <1>1, <3>1
      <3> QED BY <1>1, <2>1, <3>2
    <2>2. CASE j # L + 1
      <3>1. j \in 2 .. L
        BY <1>1, <2>2
      <3> HIDE DEF now, L
      <3> QED BY <1>2, <3>1 DEF Unbroken
    <2> QED BY <2>1, <2>2
  <1>4. ASSUME NEW j \in 1 .. L + 1 PROVE now[j].det.tier = "high"
    <2>1. CASE j = L + 1
      BY <1>1, <2>1
    <2>2. CASE j # L + 1
      <3>1. j \in 1 .. L
        BY <1>1, <2>2
      <3> HIDE DEF now, L
      <3> QED BY <1>2, <3>1 DEF Unbroken
    <2> QED BY <2>1, <2>2
  <1> HIDE DEF now
  <1>5. Unbroken(now, L + 1)
    BY <1>3, <1>4 DEF Unbroken
  <1> QED BY <1>5 DEF now

LEMMA HitOrdered ==
    ASSUME NEW seen \in Seq(Sightings), NEW done \in Nat, NEW det \in Detections,
           NEW last \in Tags, NEW tag \in Tags, Later(tag, last), OfFrame(det, tag),
           Ordered(seen, last), \A j \in 1 .. Len(seen) : seen[j].frame <= done
    PROVE  Ordered(Seeing(seen, done + 1, det), tag)
  <1> DEFINE now == Seeing(seen, done + 1, det)
             L == Len(seen)
  <1>1. /\ L \in Nat /\ now \in Seq(Sightings) /\ Len(now) = L + 1
        /\ now[L + 1].det = det /\ now[L + 1].frame = done + 1
        /\ \A j \in 1 .. L : now[j] = seen[j]
    <2>1. done + 1 \in Nat
      OBVIOUS
    <2>2. SeesOneMore(now, seen, done + 1, det)
      BY <2>1, SeeingFacts
    <2> HIDE DEF now
    <2> QED BY <2>2, SeenTyped DEF SeesOneMore
  <1>2. DOMAIN now = 1 .. L + 1 /\ DOMAIN seen = 1 .. L
    BY <1>1, SeenTyped
  <1>3. last.frame \in Nat /\ tag.frame \in Nat
    BY FrameAssumption DEF Tags
  <1>4. \A j \in 1 .. L : seen[j].det.frame \in Nat /\ seen[j].frame \in Nat
    BY SeenTyped
  <1>5. /\ \A j \in 1 .. L : seen[j].det.camera = tag.camera /\ seen[j].det.frame < tag.frame
        /\ \A i, j \in 1 .. L : i < j => seen[i].det.frame < seen[j].det.frame
                                         /\ seen[i].frame < seen[j].frame
    <2>1. \A j \in 1 .. L : seen[j].det.camera = last.camera /\ seen[j].det.frame <= last.frame
      BY <1>2 DEF Ordered
    <2>2. \A i, j \in 1 .. L : i < j => seen[i].det.frame < seen[j].det.frame
                                         /\ seen[i].frame < seen[j].frame
      BY <1>2 DEF Ordered
    <2>3. tag.camera = last.camera /\ tag.frame > last.frame
      BY DEF Later
    <2> HIDE DEF L, now
    <2> QED BY <1>3, <1>4, <2>1, <2>2, <2>3
  <1>6. det.camera = tag.camera /\ det.frame = tag.frame
    BY DEF OfFrame
  <1> HIDE DEF now, L
  <1>7. ASSUME NEW j \in 1 .. L + 1
        PROVE  now[j].det.camera = tag.camera /\ now[j].det.frame <= tag.frame
    <2>1. CASE j = L + 1
      BY <1>1, <1>3, <1>6, <2>1
    <2>2. CASE j # L + 1
      <3>1. j \in 1 .. L
        BY <1>1, <2>2
      <3>2. /\ now[j] = seen[j] /\ seen[j].det.frame \in Nat
            /\ seen[j].det.camera = tag.camera /\ seen[j].det.frame < tag.frame
        BY <1>1, <1>4, <1>5, <3>1
      <3> QED BY <1>3, <3>2
    <2> QED BY <2>1, <2>2
  <1>8. ASSUME NEW i \in 1 .. L + 1, NEW j \in 1 .. L + 1, i < j
        PROVE  now[i].det.frame < now[j].det.frame /\ now[i].frame < now[j].frame
    <2>0. i \in 1 .. L /\ now[i] = seen[i]
      BY <1>1, <1>8
    <2>1. CASE j = L + 1
      <3>1. seen[i].frame <= done /\ seen[i].frame \in Nat
        BY <1>4, <2>0 DEF L
      <3> QED BY <1>1, <1>5, <1>6, <2>0, <2>1, <3>1
    <2>2. CASE j # L + 1
      <3>1. j \in 1 .. L /\ now[j] = seen[j]
        BY <1>1, <2>2
      <3> QED BY <1>5, <1>8, <2>0, <3>1
    <2> QED BY <2>1, <2>2
  <1>9. Ordered(now, tag)
    BY <1>2, <1>7, <1>8 DEF Ordered
  <1> QED BY <1>9 DEF now

LEMMA HitInv ==
    ASSUME NEW old \in RowRecords, NEW new, Advanced(new, old),
           NEW seen, NEW history \in Nat, NEW reUpdate \in BOOLEAN, NEW done \in Nat,
           NEW last \in Tags, NEW tag \in Tags, Later(tag, last),
           RowInv(old, seen, history, reUpdate, done, last),
           NEW det \in Detections, OfFrame(det, tag), NEW position \in Int,
           det.tier = "low" => old.track.state \in {"confirmed", "lost"}
    PROVE  RowInv(HitRow(new, history, reUpdate, det, position), Seeing(seen, done + 1, det),
                  history, reUpdate, done + 1, tag)
  <1> DEFINE row == HitRow(new, history, reUpdate, det, position)
             now == Seeing(seen, done + 1, det)
             L == Len(seen)
  <1>1. /\ seen \in Seq(Sightings) /\ seen # <<>> /\ Aligned(old, seen, history)
        /\ Clocked(old, seen, reUpdate, done) /\ Earned(old, seen) /\ Ordered(seen, last)
    BY DEF RowInv
  <1>2. new \in RowRecords
    BY DEF Advanced
  <1>3. Aligned(new, seen, history)
    <2>1. SameSeen(new, old)
      BY DEF SameSeen, Advanced
    <2> QED BY <1>1, <2>1, AlignedAdvanced
  <1>4. Aligned(row, now, history)
    BY <1>1, <1>2, <1>3, HitAligned
  <1>5. /\ row.track = Matched(new.track) /\ row.mean = row.observedMean
        /\ row.mean.time = Rebuilt(new, reUpdate).time
    <2> HIDE DEF now, L
    <2> QED BY <1>2, HitFields DEF IsHit
  <1>6. /\ now \in Seq(Sightings) /\ now # <<>> /\ Len(now) = L + 1
        /\ now[L + 1].frame = done + 1
        /\ L \in Nat /\ L >= 1 /\ L \in 1 .. L
    <2>1. done + 1 \in Nat /\ seen \in Seq(Sightings)
      BY <1>1
    <2>2. L \in Nat /\ L >= 1
      BY <1>1, SeenTyped
    <2>3. /\ now \in Seq(Sightings) /\ now # <<>> /\ Len(now) = L + 1
          /\ now[L + 1].frame = done + 1
      <3>1. SeesOneMore(now, seen, done + 1, det)
        BY <2>1, SeeingFacts
      <3> QED BY <3>1 DEF SeesOneMore
    <2> QED BY <2>2, <2>3
  <1> HIDE DEF row, now, L
  <1>7. /\ old.track \in TrackRecords /\ new.track \in TrackRecords
        /\ new.track.age = old.track.age + 1 /\ new.track.state = old.track.state
        /\ new.track.hits = old.track.hits
        /\ new.track.time_since_update = old.track.time_since_update
    BY DEF Advanced, RowRecords, TrackRecords
  <1>8. /\ row.track.age = old.track.age + 1 /\ row.track.hits = old.track.hits + 1
        /\ row.track.time_since_update = 0
        /\ row.track.state = IF \/ old.track.state = "lost"
                                \/ old.track.state = "tentative" /\ old.track.hits + 1 >= MinHits
                             THEN "confirmed" ELSE old.track.state
    BY <1>5, <1>7, MatchedTrack
  <1>9. /\ old.track.time_since_update \in Nat /\ old.track.age \in Nat /\ old.track.hits \in Nat
        /\ old.mean.time \in Int /\ old.observedMean.time \in Int
        /\ old.track.state \in TrackStates
    BY <1>7 DEF TrackRecords, RowRecords, States
  <1>10. /\ new.mean.time = old.mean.time + 1 /\ new.observedMean.time = old.observedMean.time
    BY DEF Advanced
  <1>11. /\ old.track.hits = L /\ old.track.time_since_update = done - seen[L].frame
         /\ old.mean.time = old.track.age - 1
    BY <1>1 DEF Clocked, L
  <1>12. seen[L].frame \in Nat
    BY <1>1, <1>6, SeenTyped DEF L
  <1>13. row.mean.time = old.track.age
    <2>1. CASE reUpdate /\ new.track.time_since_update >= 1
      <3>1. Rebuilt(new, reUpdate).time = new.observedMean.time + new.track.time_since_update + 1
        BY <1>2, <2>1, RebuiltFacts, Zenon
      <3>2. old.observedMean.time = old.track.age - 1 - old.track.time_since_update
        BY <1>1, <2>1, Zenon DEF Clocked
      <3> QED BY ONLY <1>5, <1>7, <1>9, <1>10, <3>1, <3>2
    <2>2. CASE ~(reUpdate /\ new.track.time_since_update >= 1)
      <3>1. Rebuilt(new, reUpdate) = new.mean
        BY <1>2, <2>2, RebuiltFacts, Zenon
      <3> QED BY ONLY <1>5, <1>9, <1>10, <1>11, <3>1
    <2> QED BY <2>1, <2>2
  <1>14. Clocked(row, now, reUpdate, done + 1)
    <2>1. row.track.hits = Len(now)
      BY <1>6, <1>8, <1>11
    <2>2. row.track.time_since_update = (done + 1) - now[Len(now)].frame
      BY <1>6, <1>8
    <2>3. row.mean.time = row.track.age - 1
      BY <1>8, <1>9, <1>13
    <2>4. row.observedMean.time = row.track.age - 1 - row.track.time_since_update
      BY <1>5, <1>8, <1>9, <1>13
    <2> QED BY <2>1, <2>2, <2>3, <2>4, Zenon DEF Clocked
  <1>15. Earned(row, now)
    <2>1. CASE old.track.state = "tentative"
      <3>1. old.track.hits < MinHits /\ old.track.time_since_update = 0 /\ Unbroken(seen, L)
        BY <1>1, <2>1 DEF Earned, L
      <3>2. det.tier = "high"
        BY <2>1 DEF Detections
      <3>3. seen[L].frame = done
        BY <1>11, <1>12, <3>1
      <3>4. Unbroken(now, L + 1)
        BY <1>1, <1>6, <3>1, <3>2, <3>3, UnbrokenGrows DEF now, L
      <3>5. CASE L + 1 >= MinHits
        <4>1. L + 1 = MinHits
          BY <1>6, <1>11, <3>1, <3>5, LifecycleAssumption
        <4>2. row.track.state = "confirmed"
          BY <1>8, <1>11, <2>1, <3>5
        <4>3. row.track.hits >= MinHits /\ Unbroken(now, MinHits)
          BY <1>8, <1>11, <3>4, <4>1, LifecycleAssumption
        <4> QED BY <1>8, <4>2, <4>3 DEF Earned
      <3>6. CASE ~(L + 1 >= MinHits)
        <4>1. L + 1 < MinHits /\ row.track.state = "tentative"
          BY <1>6, <1>8, <1>11, <2>1, <3>6, LifecycleAssumption
        <4> QED BY <1>6, <1>8, <1>11, <3>4, <4>1 DEF Earned
      <3> QED BY <3>5, <3>6
    <2>2. CASE old.track.state # "tentative"
      <3>1. old.track.hits >= MinHits /\ Unbroken(seen, MinHits) /\ old.track.state # "removed"
        BY <1>1, <2>2 DEF Earned
      <3>2. Unbroken(now, MinHits)
        BY <1>1, <1>11, <3>1, UnbrokenKept, LifecycleAssumption DEF now, L
      <3>3. row.track.state = "confirmed" /\ row.track.hits >= MinHits
        BY <1>8, <1>9, <2>2, <3>1, LifecycleAssumption DEF TrackStates
      <3> QED BY <1>8, <3>2, <3>3 DEF Earned
    <2> QED BY <2>1, <2>2
  <1>16. Ordered(now, tag)
    <2>1. ASSUME NEW j \in 1 .. L PROVE seen[j].frame <= done
      <3>1. seen[j].frame \in Nat /\ seen[j].frame <= seen[L].frame
        <4>1. DOMAIN seen = 1 .. L /\ \A i \in 1 .. L : seen[i].frame \in Nat
          BY <1>1, SeenTyped DEF L
        <4>2. j < L => seen[j].frame < seen[L].frame
          BY <1>1, <1>6, <4>1 DEF Ordered
        <4> QED BY <1>6, <1>12, <4>1, <4>2
      <3> QED BY <1>9, <1>11, <1>12, <3>1
    <2> QED BY <1>1, <2>1, HitOrdered DEF now, L
  <1>17. RowInv(row, now, history, reUpdate, done + 1, tag)
    BY <1>4, <1>6, <1>14, <1>15, <1>16 DEF RowInv
  <1> QED BY <1>17 DEF row, now

--------------------------------------------------------------------------------
(* What a frame does to the state of the process.                           *)

DistinctIds(p, n) == \A i, j \in 1 .. n : i # j => p.tracks[i].id # p.tracks[j].id

FrameEffects(k, tag, opened, given, leftovers, position) ==
    LET closed == ClosedPool(opened, given, leftovers, issued, position) IN
    /\ issued' = issued + Len(leftovers)
    /\ lastTag' = [lastTag EXCEPT ![k] = tag]
    /\ pool' = [pool EXCEPT ![k] = closed]
    /\ answer' = [answer EXCEPT ![k] = Returned(Output(closed))]
    /\ completed' = [completed EXCEPT ![k] = completed[k] + 1]
    /\ DOMAIN sightings' = 1 .. issued + Len(leftovers)
    /\ \A j \in 1 .. Len(leftovers) :
        sightings'[issued + j] = <<[frame |-> completed[k] + 1, det |-> leftovers[j]]>>
    /\ \A r \in DOMAIN given :
        sightings'[pool[k].tracks[r].id]
          = Seeing(Seen(pool[k].tracks[r]), completed[k] + 1, given[r])
    /\ \A id \in 1 .. issued :
        (\A r \in DOMAIN given : pool[k].tracks[r].id # id) => sightings'[id] = sightings[id]

(* A correction leaves the identities alone.                                 *)
LEMMA SameIdentities ==
    ASSUME NEW n \in Nat, NEW p \in Pools(n), NEW opened, IsOpened(opened, p),
           NEW R \in SUBSET (1 .. n), NEW given \in [R -> Detections], NEW position \in Int,
           NEW i \in 1 .. n
    PROVE  ApplyMatches(opened, given, position).tracks[i].id = p.tracks[i].id
  <1> DEFINE matched == ApplyMatches(opened, given, position)
  <1>1. opened \in Pools(n) /\ opened.tracks[i].id = p.tracks[i].id
    BY OpenedRows, OpenedStates DEF SameBuild
  <1>2. RowsHit(matched, opened, n, R, given, position)
    BY <1>1, MatchRows
  <1> HIDE DEF matched
  <1>3. matched.tracks[i] = IF i \in R THEN Matched(opened.tracks[i]) ELSE opened.tracks[i]
    BY <1>2 DEF RowsHit, Row, HitRow
  <1>4. Matched(opened.tracks[i]).id = opened.tracks[i].id
    <2>1. opened.tracks[i] \in TrackRecords
      BY <1>1 DEF Pools
    <2> QED BY <2>1, MatchedTrack
  <1> QED BY <1>1, <1>3, <1>4 DEF matched

LEMMA FrameChanges ==
    ASSUME NEW k \in Trackers, NEW n \in Nat, pool[k] \in Pools(n), DistinctIds(pool[k], n),
           NEW opened, IsOpened(opened, pool[k]), NEW position \in Int,
           issued \in Nat, \A i \in 1 .. n : pool[k].tracks[i].id \in 1 .. issued,
           NEW tag, NEW given, NEW leftovers,
           IsFrame(k, tag, opened, given, leftovers, position)
    PROVE  FrameEffects(k, tag, opened, given, leftovers, position)
  <1> DEFINE matched == ApplyMatches(opened, given, position)
             closed == ClosedPool(opened, given, leftovers, issued, position)
             born == issued + Len(leftovers)
             frame == completed[k] + 1
             row == [id \in {matched.tracks[i].id : i \in DOMAIN given} |->
                        CHOOSE i \in DOMAIN given : matched.tracks[i].id = id]
             Sighted(id) ==
                 IF id > issued THEN <<[frame |-> frame, det |-> leftovers[id - issued]]>>
                 ELSE IF id \in DOMAIN row
                 THEN Append(sightings[id], [frame |-> frame, det |-> given[row[id]]])
                 ELSE sightings[id]
  <1>1. Rows(k) = 1 .. n /\ RowsOf(opened) = 1 .. n
    BY OpenedRows DEF Rows, RowsOf, Pools
  <1>2. /\ DOMAIN given \subseteq 1 .. n /\ given \in [DOMAIN given -> Detections]
        /\ Len(leftovers) \in Nat
        /\ Finish(k, tag, matched, given, Rows(k) \ DOMAIN given, leftovers, position)
    BY <1>1 DEF IsFrame
  <1>3. closed = Sweep(Spawn(MarkMissed(matched, Rows(k) \ DOMAIN given), leftovers, issued, position))
    BY <1>1 DEF ClosedPool
  <1>4. ASSUME NEW i \in DOMAIN given
        PROVE  matched.tracks[i].id = pool[k].tracks[i].id /\ i \in 1 .. n
    <2> DEFINE R == DOMAIN given
    <2>1. R \in SUBSET (1 .. n) /\ given \in [R -> Detections] /\ i \in 1 .. n
      BY <1>2
    <2> HIDE DEF R
    <2>2. PICK p : p = pool[k]
      OBVIOUS
    <2>3. p \in Pools(n) /\ IsOpened(opened, p)
      BY <2>2
    <2>4. ApplyMatches(opened, given, position).tracks[i].id = p.tracks[i].id
      BY ONLY <2>1, <2>3, n \in Nat, position \in Int, SameIdentities
    <2> QED BY <2>1, <2>2, <2>4
  <1> HIDE DEF matched, closed
  <1>5. /\ issued' = born /\ lastTag' = [lastTag EXCEPT ![k] = tag]
        /\ pool' = [pool EXCEPT ![k] = closed]
        /\ answer' = [answer EXCEPT ![k] = Returned(Output(closed))]
        /\ completed' = [completed EXCEPT ![k] = frame]
        /\ sightings' = [id \in 1 .. born |-> Sighted(id)]
    BY <1>2, <1>3 DEF Finish
  <1>6. ASSUME NEW r \in DOMAIN given
        PROVE  /\ pool[k].tracks[r].id \in DOMAIN row
               /\ row[pool[k].tracks[r].id] = r
    <2> DEFINE id == pool[k].tracks[r].id
    <2>1. matched.tracks[r].id = id /\ id \in {matched.tracks[i].id : i \in DOMAIN given}
      BY <1>4
    <2>2. ASSUME NEW i \in DOMAIN given, matched.tracks[i].id = id PROVE i = r
      BY <1>4, <2>2 DEF DistinctIds
    <2>3. row[id] = CHOOSE i \in DOMAIN given : matched.tracks[i].id = id
      BY <2>1
    <2> HIDE DEF row, id
    <2>4. row[id] = r
      BY <2>1, <2>2, <2>3
    <2>5. id \in DOMAIN row
      BY <2>1 DEF row
    <2> QED BY <2>4, <2>5 DEF id
  <1>7. ASSUME NEW id, id \in DOMAIN row PROVE \E r \in DOMAIN given : pool[k].tracks[r].id = id
    BY <1>4, <1>7
  <1>8. \A j \in 1 .. Len(leftovers) :
          sightings'[issued + j] = <<[frame |-> frame, det |-> leftovers[j]]>>
    <2> HIDE DEF row
    <2> SUFFICES ASSUME NEW j \in 1 .. Len(leftovers)
                 PROVE  sightings'[issued + j] = <<[frame |-> frame, det |-> leftovers[j]]>>
      OBVIOUS
    <2>1. issued + j \in 1 .. born /\ issued + j > issued /\ issued + j - issued = j
      BY <1>2
    <2>2. sightings'[issued + j] = Sighted(issued + j)
      BY <1>5, <2>1
    <2> QED BY <2>1, <2>2
  <1>9. ASSUME NEW r \in DOMAIN given
        PROVE  sightings'[pool[k].tracks[r].id]
                 = Seeing(Seen(pool[k].tracks[r]), frame, given[r])
    <2> DEFINE id == pool[k].tracks[r].id
    <2>1. id \in 1 .. issued /\ id \in 1 .. born /\ ~(id > issued)
      BY <1>2, <1>4
    <2>2. id \in DOMAIN row /\ row[id] = r
      BY <1>6
    <2> HIDE DEF row, id
    <2>3. sightings'[id] = Sighted(id)
      BY <1>5, <2>1
    <2>4. Sighted(id) = Append(sightings[id], [frame |-> frame, det |-> given[r]])
      BY <2>1, <2>2
    <2>5. Seeing(Seen(pool[k].tracks[r]), frame, given[r])
            = Append(sightings[id], [frame |-> frame, det |-> given[r]])
      BY DEF Seeing, Seen, id
    <2> HIDE DEF Sighted, frame
    <2>6. sightings'[id] = Seeing(Seen(pool[k].tracks[r]), frame, given[r])
      BY <2>3, <2>4, <2>5, Zenon
    <2> QED BY <2>6, Zenon DEF id
  <1>10. ASSUME NEW id \in 1 .. issued, \A r \in DOMAIN given : pool[k].tracks[r].id # id
         PROVE  sightings'[id] = sightings[id]
    <2>1. id \in 1 .. born /\ ~(id > issued)
      BY <1>2
    <2>2. id \notin DOMAIN row
      BY <1>7, <1>10
    <2> HIDE DEF row
    <2> QED BY <1>5, <2>1, <2>2
  <1>11. DOMAIN sightings' = 1 .. born
    BY <1>5
  <1> QED BY <1>5, <1>8, <1>9, <1>10, <1>11 DEF FrameEffects, closed

(* What a row of the closed pool was, and what its track has seen by now.    *)
Became(k, opened, given, leftovers, position, n, x, new, seen) ==
    LET frame == completed[k] + 1 IN
    \/ /\ x \in (n + 1) .. (n + Len(leftovers))
       /\ new = BornRow(issued + (x - n), leftovers[x - n], position)
       /\ new.track.id = issued + (x - n)
       /\ seen = <<[frame |-> frame, det |-> leftovers[x - n]]>>
    \/ /\ x \in 1 .. n /\ x \in DOMAIN given
       /\ new = HitRow(Row(opened, x), opened.history, opened.reUpdate, given[x], position)
       /\ new.track.id = pool[k].tracks[x].id
       /\ seen = Seeing(Seen(pool[k].tracks[x]), frame, given[x])
    \/ /\ x \in 1 .. n /\ x \notin DOMAIN given
       /\ new = MissedRow(Row(opened, x))
       /\ new.track.id = pool[k].tracks[x].id
       /\ seen = Seen(pool[k].tracks[x])

(* closed and views are the pool and the sightings after the frame.          *)
Becoming(k, opened, given, leftovers, position, n, c, source, closed, views) ==
    /\ closed \in Pools(c)
    /\ closed.history = pool[k].history /\ closed.reUpdate = pool[k].reUpdate
    /\ source \in [1 .. c -> 1 .. n + Len(leftovers)]
    /\ \A i, j \in 1 .. c : i # j => source[i] # source[j]
    /\ \A i \in 1 .. c :
        /\ Became(k, opened, given, leftovers, position, n, source[i], Row(closed, i),
                  views[closed.tracks[i].id])
        /\ closed.tracks[i].state # "removed"
    /\ \A x \in 1 .. n + Len(leftovers) :
        Outcome(opened, given, leftovers, issued, position, n, x).track.state # "removed" =>
            \E i \in 1 .. c : source[i] = x

LEMMA OutcomeCases ==
    ASSUME NEW k \in Trackers, NEW n \in Nat, pool[k] \in Pools(n), DistinctIds(pool[k], n),
           NEW opened, IsOpened(opened, pool[k]), NEW position \in Int,
           issued \in Nat, \A i \in 1 .. n : pool[k].tracks[i].id \in 1 .. issued,
           NEW tag, NEW given, NEW leftovers,
           IsFrame(k, tag, opened, given, leftovers, position),
           NEW x \in 1 .. n + Len(leftovers),
           NEW new, new = Outcome(opened, given, leftovers, issued, position, n, x),
           NEW views, views = sightings'
    PROVE  Became(k, opened, given, leftovers, position, n, x, new, views[new.track.id])
  <1> DEFINE frame == completed[k] + 1
             m == Len(leftovers)
  <1>1. /\ Rows(k) = 1 .. n /\ opened \in Pools(n)
        /\ \A i \in 1 .. n : opened.tracks[i] \in TrackRecords
                             /\ opened.tracks[i].id = pool[k].tracks[i].id
    <2>1. Rows(k) = 1 .. n
      BY DEF Rows, RowsOf, Pools
    <2>2. opened \in Pools(n)
      BY OpenedRows DEF SameBuild
    <2>3. \A i \in 1 .. n : opened.tracks[i] \in TrackRecords
      BY <2>2 DEF Pools
    <2>4. \A i \in 1 .. n : opened.tracks[i].id = pool[k].tracks[i].id
      BY OpenedStates
    <2> QED BY <2>1, <2>2, <2>3, <2>4
  <1>2. /\ m \in Nat /\ DOMAIN given \subseteq 1 .. n
    BY <1>1 DEF IsFrame
  <1>3. FrameEffects(k, tag, opened, given, leftovers, position)
    BY FrameChanges
  <1>4. CASE x > n
    <2>1. x \in (n + 1) .. (n + m) /\ x - n \in 1 .. m
      BY <1>2, <1>4
    <2>2. new = BornRow(issued + (x - n), leftovers[x - n], position)
      BY <1>4 DEF Outcome
    <2>3. issued + (x - n) \in Nat
      BY <2>1
    <2>4. new.track.id = issued + (x - n)
      BY <2>2, <2>3, NewbornTrack DEF BornRow
    <2>5. views[issued + (x - n)] = <<[frame |-> frame, det |-> leftovers[x - n]]>>
      BY <1>3, <2>1 DEF FrameEffects
    <2> QED BY <2>1, <2>2, <2>4, <2>5 DEF Became
  <1>5. CASE ~(x > n) /\ x \in DOMAIN given
    <2>1. x \in 1 .. n
      BY <1>5, <1>2
    <2>2. new = HitRow(Row(opened, x), opened.history, opened.reUpdate, given[x], position)
      BY <1>5 DEF Outcome
    <2>3. new.track.id = pool[k].tracks[x].id
      BY <1>1, <2>1, <2>2, MatchedTrack DEF HitRow, Row
    <2>4. views[new.track.id] = Seeing(Seen(pool[k].tracks[x]), frame, given[x])
      BY <1>3, <1>5, <2>3 DEF FrameEffects
    <2> QED BY <1>5, <2>1, <2>2, <2>3, <2>4 DEF Became
  <1>6. CASE ~(x > n) /\ x \notin DOMAIN given
    <2>1. x \in 1 .. n
      BY <1>6, <1>2
    <2>2. new = MissedRow(Row(opened, x))
      BY <1>6 DEF Outcome
    <2>3. new.track.id = pool[k].tracks[x].id
      BY <1>1, <2>1, <2>2, MissedTrack DEF MissedRow, Row
    <2>4. views[pool[k].tracks[x].id] = sightings[pool[k].tracks[x].id]
      <3>1. ASSUME NEW r \in DOMAIN given PROVE pool[k].tracks[r].id # pool[k].tracks[x].id
        BY <1>2, <1>6, <2>1 DEF DistinctIds
      <3>2. pool[k].tracks[x].id \in 1 .. issued
        BY <2>1
      <3> QED BY <1>3, <3>1, <3>2 DEF FrameEffects
    <2> QED BY <1>6, <2>1, <2>2, <2>3, <2>4 DEF Became, Seen
  <1> QED BY <1>4, <1>5, <1>6

LEMMA FrameBecomes ==
    ASSUME NEW k \in Trackers, NEW n \in Nat, pool[k] \in Pools(n), DistinctIds(pool[k], n),
           NEW opened, IsOpened(opened, pool[k]), NEW position \in Int,
           issued \in Nat, \A i \in 1 .. n : pool[k].tracks[i].id \in 1 .. issued,
           DOMAIN pool = Trackers,
           NEW tag, NEW given, NEW leftovers,
           IsFrame(k, tag, opened, given, leftovers, position),
           NEW closed, closed = pool'[k], NEW views, views = sightings'
    PROVE  \E c \in Nat : \E source :
             Becoming(k, opened, given, leftovers, position, n, c, source, closed, views)
  <1> DEFINE m == Len(leftovers)
             R == DOMAIN given
  <1>1. /\ SameBuild(opened, pool[k], n) /\ Rows(k) = 1 .. n
    BY OpenedRows DEF Rows, RowsOf, Pools
  <1>2. /\ m \in Nat /\ R \in SUBSET (1 .. n) /\ given \in [R -> Detections]
        /\ leftovers \in [1 .. m -> Detections]
    BY <1>1 DEF IsFrame
  <1>3. closed = ClosedPool(opened, given, leftovers, issued, position)
    BY FrameChanges DEF FrameEffects
  <1>4. opened \in Pools(n)
    BY <1>1 DEF SameBuild
  <1> HIDE DEF m, R
  <1>5. PICK c \in Nat : \E source :
          RowsComeFrom(closed, opened, given, leftovers, issued, position, n, m, c, source)
    <2>0. issued \in Nat /\ position \in Int
      OBVIOUS
    <2>1. \E c \in Nat : \E source :
            RowsComeFrom(ClosedPool(opened, given, leftovers, issued, position), opened, given,
                         leftovers, issued, position, n, m, c, source)
      BY ONLY <2>0, <1>2, <1>4, FrameRows
    <2> QED BY <1>3, <2>1
  <1>6. PICK source :
          RowsComeFrom(closed, opened, given, leftovers, issued, position, n, m, c, source)
    BY <1>5
  <1>7. /\ closed \in Pools(c) /\ closed.history = opened.history /\ closed.reUpdate = opened.reUpdate
        /\ source \in [1 .. c -> 1 .. n + m]
        /\ \A i, j \in 1 .. c : i # j => source[i] # source[j]
        /\ \A i \in 1 .. c :
            /\ Row(closed, i) = Outcome(opened, given, leftovers, issued, position, n, source[i])
            /\ Row(closed, i).track.state # "removed"
        /\ \A x \in 1 .. n + m :
            Outcome(opened, given, leftovers, issued, position, n, x).track.state # "removed" =>
                \E i \in 1 .. c : source[i] = x
    BY <1>6 DEF RowsComeFrom
  <1>8. ASSUME NEW i \in 1 .. c
        PROVE  /\ Became(k, opened, given, leftovers, position, n, source[i], Row(closed, i),
                         views[closed.tracks[i].id])
               /\ closed.tracks[i].state # "removed"
    <2> DEFINE x == source[i]
               new == Row(closed, i)
    <2>1. x \in 1 .. n + m /\ new = Outcome(opened, given, leftovers, issued, position, n, x)
      BY <1>7
    <2>2. new.track = closed.tracks[i]
      BY DEF Row
    <2> HIDE DEF x, new
    <2>3. Became(k, opened, given, leftovers, position, n, x, new, views[new.track.id])
      BY <2>1, OutcomeCases DEF m
    <2>4. new.track.state # "removed"
      BY <1>7 DEF new
    <2>5. Became(k, opened, given, leftovers, position, n, x, new, views[closed.tracks[i].id])
      BY <2>2, <2>3
    <2> QED BY <2>2, <2>4, <2>5 DEF x, new
  <1>9. Becoming(k, opened, given, leftovers, position, n, c, source, closed, views)
    BY <1>1, <1>7, <1>8 DEF Becoming, SameBuild, m
  <1> QED BY <1>9

--------------------------------------------------------------------------------
(* The invariant through a frame.                                           *)

LEMMA OldRow ==
    ASSUME NEW k \in Trackers, TypeOK, PoolInv(k), NEW n \in Nat, pool[k] \in Pools(n),
           NEW i \in 1 .. n
    PROVE  /\ Row(pool[k], i) \in RowRecords /\ i \in Rows(k) /\ Rows(k) = 1 .. n
           /\ pool[k].tracks[i].id \in 1 .. issued
           /\ RowInv(Row(pool[k], i), Seen(pool[k].tracks[i]), pool[k].history, pool[k].reUpdate,
                     completed[k], lastTag[k])
           /\ lastTag[k] \in Tags
           /\ completed[k] \in Nat /\ pool[k].history \in Nat /\ pool[k].reUpdate \in BOOLEAN
  <1>1. Rows(k) = 1 .. n /\ i \in Rows(k) /\ Row(pool[k], i) \in RowRecords
    BY RowTyped DEF Rows
  <1>2. lastTag[k] \in Tags
    BY <1>1 DEF TypeOK, PoolInv
  <1>3. completed[k] \in Nat /\ pool[k].history \in Nat /\ pool[k].reUpdate \in BOOLEAN
    BY DEF TypeOK, Pools
  <1>4. /\ pool[k].tracks[i].id \in 1 .. issued
        /\ RowInv(Row(pool[k], i), Seen(pool[k].tracks[i]), pool[k].history, pool[k].reUpdate,
                  completed[k], lastTag[k])
    BY <1>1 DEF PoolInv
  <1> QED BY <1>1, <1>2, <1>3, <1>4

LEMMA AcceptedIsLater ==
    ASSUME NEW k, NEW tag, Accepts(k, tag), lastTag[k] \in Tags
    PROVE  Later(tag, lastTag[k])
  BY FrameAssumption DEF Accepts, Later

LEMMA BecameInv ==
    ASSUME NEW k \in Trackers, TypeOK, PoolInv(k), NEW n \in Nat, pool[k] \in Pools(n),
           NEW opened, IsOpened(opened, pool[k]), NEW position \in Int,
           NEW tag, NEW given, NEW leftovers,
           IsFrame(k, tag, opened, given, leftovers, position),
           NEW x, NEW new, NEW seen,
           Became(k, opened, given, leftovers, position, n, x, new, seen),
           new.track.state # "removed"
    PROVE  RowInv(new, seen, pool[k].history, pool[k].reUpdate, completed[k] + 1, tag)
  <1>1. /\ tag \in Tags /\ Accepts(k, tag)
        /\ completed[k] \in Nat /\ issued \in Nat /\ completed[k] + 1 \in Nat
        /\ pool[k].history \in Nat /\ pool[k].reUpdate \in BOOLEAN
    BY DEF IsFrame, TypeOK, Pools
  <1>2. /\ opened.history = pool[k].history /\ opened.reUpdate = pool[k].reUpdate
        /\ \A i \in 1 .. n : Advanced(Row(opened, i), Row(pool[k], i))
    BY OpenedRows DEF SameBuild
  <1>3. CASE /\ x \in (n + 1) .. (n + Len(leftovers))
             /\ new = BornRow(issued + (x - n), leftovers[x - n], position)
             /\ seen = <<[frame |-> completed[k] + 1, det |-> leftovers[x - n]]>>
    <2>0. Len(leftovers) \in Nat
      BY DEF IsFrame
    <2>1. issued + (x - n) \in Nat /\ x - n \in 1 .. Len(leftovers)
      BY <1>1, <1>3, <2>0
    <2>2. /\ leftovers[x - n] \in Detections /\ OfFrame(leftovers[x - n], tag)
          /\ leftovers[x - n].tier = "high"
      BY <2>1 DEF IsFrame
    <2>3. PICK id, det : id = issued + (x - n) /\ det = leftovers[x - n]
      OBVIOUS
    <2>4. PICK history, reUpdate, done : /\ history = pool[k].history /\ reUpdate = pool[k].reUpdate
                                         /\ done = completed[k] + 1
      OBVIOUS
    <2>5. RowInv(BornRow(id, det, position), <<[frame |-> done, det |-> det]>>, history, reUpdate,
                 done, tag)
      <3>1. /\ id \in Nat /\ det \in Detections /\ OfFrame(det, tag) /\ det.tier = "high"
            /\ history \in Nat /\ reUpdate \in BOOLEAN /\ done \in Nat /\ tag \in Tags
        BY <1>1, <2>1, <2>2, <2>3, <2>4
      <3> QED BY ONLY <3>1, position \in Int, BornInv
    <2> QED BY <1>3, <2>3, <2>4, <2>5
  <1>4. CASE /\ x \in 1 .. n /\ x \in DOMAIN given
             /\ new = HitRow(Row(opened, x), opened.history, opened.reUpdate, given[x], position)
             /\ seen = Seeing(Seen(pool[k].tracks[x]), completed[k] + 1, given[x])
    <2> DEFINE old == Row(pool[k], x)
               advanced == Row(opened, x)
    <2>1. /\ old \in RowRecords /\ lastTag[k] \in Tags
          /\ RowInv(old, Seen(pool[k].tracks[x]), pool[k].history, pool[k].reUpdate,
                    completed[k], lastTag[k])
      BY <1>4, OldRow
    <2>2. Later(tag, lastTag[k])
      BY <1>1, <2>1, AcceptedIsLater
    <2>3. /\ given[x] \in Detections /\ OfFrame(given[x], tag)
          /\ given[x].tier = "low" => old.track.state \in {"confirmed", "lost"}
      BY <1>4 DEF IsFrame, Row
    <2>4. Advanced(advanced, old)
      BY <1>2, <1>4
    <2> HIDE DEF old, advanced
    <2>5. RowInv(HitRow(advanced, pool[k].history, pool[k].reUpdate, given[x], position),
                 Seeing(Seen(pool[k].tracks[x]), completed[k] + 1, given[x]),
                 pool[k].history, pool[k].reUpdate, completed[k] + 1, tag)
      BY <1>1, <2>1, <2>2, <2>3, <2>4, HitInv
    <2> QED BY <1>2, <1>4, <2>5 DEF advanced
  <1>5. CASE /\ x \in 1 .. n /\ x \notin DOMAIN given
             /\ new = MissedRow(Row(opened, x))
             /\ seen = Seen(pool[k].tracks[x])
    <2> DEFINE old == Row(pool[k], x)
               advanced == Row(opened, x)
    <2>1. /\ old \in RowRecords /\ lastTag[k] \in Tags
          /\ RowInv(old, seen, pool[k].history, pool[k].reUpdate, completed[k], lastTag[k])
      BY <1>5, OldRow
    <2>2. Later(tag, lastTag[k])
      BY <1>1, <2>1, AcceptedIsLater
    <2>3. Advanced(advanced, old) /\ new = MissedRow(advanced)
      BY <1>2, <1>5
    <2> HIDE DEF old, advanced
    <2> QED BY <1>1, <2>1, <2>2, <2>3, MissInv
  <1> QED BY <1>3, <1>4, <1>5 DEF Became

(* Where a detection of a row of the closed pool may be from.                *)
ComesFrom(k, given, leftovers, n, x, det) ==
    \/ x \in 1 .. n /\ \E b \in DOMAIN Seen(pool[k].tracks[x]) :
                            det = Seen(pool[k].tracks[x])[b].det
    \/ x \in 1 .. n /\ x \in DOMAIN given /\ det = given[x]
    \/ x \in (n + 1) .. (n + Len(leftovers)) /\ det = leftovers[x - n]

LEMMA BecameDetections ==
    ASSUME NEW k \in Trackers, TypeOK, PoolInv(k), NEW n \in Nat, pool[k] \in Pools(n),
           NEW opened, NEW position, NEW tag, NEW given, NEW leftovers,
           IsFrame(k, tag, opened, given, leftovers, position),
           NEW x, NEW new, NEW seen,
           Became(k, opened, given, leftovers, position, n, x, new, seen),
           NEW a \in DOMAIN seen
    PROVE  ComesFrom(k, given, leftovers, n, x, seen[a].det)
  <1>1. CASE /\ x \in (n + 1) .. (n + Len(leftovers))
             /\ seen = <<[frame |-> completed[k] + 1, det |-> leftovers[x - n]]>>
    <2>1. a = 1
      BY <1>1
    <2> QED BY <1>1, <2>1 DEF ComesFrom
  <1>2. CASE /\ x \in 1 .. n /\ x \in DOMAIN given
             /\ seen = Seeing(Seen(pool[k].tracks[x]), completed[k] + 1, given[x])
    <2> DEFINE was == Seen(pool[k].tracks[x])
    <2>1. was \in Seq(Sightings) /\ completed[k] + 1 \in Nat /\ given[x] \in Detections
      <3>1. was \in Seq(Sightings)
        BY <1>2, OldRow DEF RowInv
      <3> HIDE DEF was
      <3> QED BY <1>2, <3>1 DEF TypeOK, IsFrame
    <2> HIDE DEF was
    <2>2. SeesOneMore(seen, was, completed[k] + 1, given[x])
      BY <1>2, <2>1, SeeingFacts DEF was
    <2>3. /\ Len(was) \in Nat /\ DOMAIN was = 1 .. Len(was) /\ DOMAIN seen = 1 .. Len(was) + 1
          /\ seen[Len(was) + 1].det = given[x] /\ \A j \in 1 .. Len(was) : seen[j] = was[j]
      BY <2>1, <2>2, SeenTyped DEF SeesOneMore
    <2>4. a = Len(was) + 1 \/ a \in 1 .. Len(was)
      BY <2>3
    <2> QED BY <1>2, <2>3, <2>4 DEF ComesFrom, was
  <1>3. CASE x \in 1 .. n /\ seen = Seen(pool[k].tracks[x])
    BY <1>3 DEF ComesFrom
  <1> QED BY <1>1, <1>2, <1>3 DEF Became

LEMMA OriginsApart ==
    ASSUME NEW k \in Trackers, TypeOK, PoolInv(k), NEW n \in Nat, pool[k] \in Pools(n),
           NEW opened, NEW position, NEW tag, NEW given, NEW leftovers,
           IsFrame(k, tag, opened, given, leftovers, position),
           NEW x, NEW y, x # y, NEW d, NEW e,
           ComesFrom(k, given, leftovers, n, x, d), ComesFrom(k, given, leftovers, n, y, e)
    PROVE  d # e
  <1>1. ASSUME NEW i \in 1 .. n, NEW b \in DOMAIN Seen(pool[k].tracks[i])
        PROVE  Seen(pool[k].tracks[i])[b].det.frame < tag.frame
    <2> DEFINE was == Seen(pool[k].tracks[i])
    <2>1. /\ was \in Seq(Sightings) /\ Ordered(was, lastTag[k]) /\ lastTag[k] \in Tags
      BY OldRow DEF RowInv
    <2>2. Later(tag, lastTag[k])
      BY <2>1, AcceptedIsLater DEF IsFrame
    <2> HIDE DEF was
    <2>3. was[b].det.frame <= lastTag[k].frame /\ was[b].det.frame \in Nat
      BY <2>1, SeenTyped DEF Ordered, was
    <2>4. lastTag[k].frame \in Nat /\ tag.frame \in Nat /\ lastTag[k].frame < tag.frame
      <3>1. tag \in Tags
        BY DEF IsFrame
      <3> QED BY <2>1, <2>2, <3>1, FrameAssumption DEF Tags, Later
    <2> QED BY <2>3, <2>4 DEF was
  <1>2. tag.frame \in Nat /\ Len(leftovers) \in Nat /\ Rows(k) = 1 .. n
    BY FrameAssumption DEF IsFrame, Tags, Rows, RowsOf, Pools
  <1>3. /\ \A r \in DOMAIN given : given[r].frame = tag.frame
        /\ \A r, s \in DOMAIN given : given[r] = given[s] => r = s
        /\ \A j \in 1 .. Len(leftovers) : leftovers[j].frame = tag.frame
        /\ \A i, j \in 1 .. Len(leftovers) : leftovers[i] = leftovers[j] => i = j
        /\ \A r \in DOMAIN given, j \in 1 .. Len(leftovers) : given[r] # leftovers[j]
    BY DEF IsFrame, OfFrame
  <1>4. ASSUME NEW i \in (n + 1) .. (n + Len(leftovers)) PROVE i - n \in 1 .. Len(leftovers)
    BY <1>2
  <1>5. ASSUME NEW i \in 1 .. n, NEW b \in DOMAIN Seen(pool[k].tracks[i]),
               NEW j \in 1 .. n, NEW c \in DOMAIN Seen(pool[k].tracks[j]), i # j
        PROVE  Seen(pool[k].tracks[i])[b].det # Seen(pool[k].tracks[j])[c].det
    <2>1. NoneShared(Seen(pool[k].tracks[i]), Seen(pool[k].tracks[j]))
      BY <1>2, <1>5 DEF PoolInv
    <2> QED BY <2>1 DEF NoneShared
  <1> DEFINE Fresh(i, det) == \/ i \in 1 .. n /\ i \in DOMAIN given /\ det = given[i]
                              \/ i \in (n + 1) .. (n + Len(leftovers)) /\ det = leftovers[i - n]
             Old(i, det) == i \in 1 .. n /\ \E b \in DOMAIN Seen(pool[k].tracks[i]) :
                                                det = Seen(pool[k].tracks[i])[b].det
  <1>6. (Old(x, d) \/ Fresh(x, d)) /\ (Old(y, e) \/ Fresh(y, e))
    BY DEF ComesFrom
  <1>7. ASSUME NEW i, NEW det, Fresh(i, det) PROVE det.frame = tag.frame
    BY <1>3, <1>4, <1>7
  <1>8. ASSUME NEW i, NEW det, Old(i, det) PROVE det.frame < tag.frame
    BY <1>1, <1>8
  <1>9. CASE Old(x, d) /\ Old(y, e)
    BY <1>5, <1>9
  <1>10. CASE Fresh(x, d) /\ Fresh(y, e)
    <2>1. CASE x \in 1 .. n /\ y \in 1 .. n
      BY <1>2, <1>3, <1>10, <2>1
    <2>2. CASE x \notin 1 .. n /\ y \notin 1 .. n
      <3>1. x - n # y - n
        BY <1>2, <1>10, <2>2
      <3> QED BY <1>3, <1>4, <1>10, <2>2, <3>1
    <2>3. CASE x \in 1 .. n /\ y \notin 1 .. n
      BY <1>2, <1>3, <1>4, <1>10, <2>3
    <2>4. CASE x \notin 1 .. n /\ y \in 1 .. n
      BY <1>2, <1>3, <1>4, <1>10, <2>4
    <2> QED BY <2>1, <2>2, <2>3, <2>4
  <1> HIDE DEF Fresh, Old
  <1>11. CASE Old(x, d) /\ Fresh(y, e)
    BY <1>2, <1>7, <1>8, <1>11
  <1>12. CASE Fresh(x, d) /\ Old(y, e)
    BY <1>2, <1>7, <1>8, <1>12
  <1> QED BY <1>6, <1>9, <1>10, <1>11, <1>12

(* PoolInv, of a pool, sightings and counters by name: what a frame, a reset *)
(* or another tracker's step leaves is shown to be sound, and is then the    *)
(* invariant of the next state.                                              *)
SoundPool(p, n, views, ids, done, tag) ==
    /\ \A i \in 1 .. n :
        /\ p.tracks[i].id \in 1 .. ids
        /\ RowInv(Row(p, i), views[p.tracks[i].id], p.history, p.reUpdate, done, tag)
    /\ \A i, j \in 1 .. n : i # j =>
        /\ p.tracks[i].id # p.tracks[j].id
        /\ NoneShared(views[p.tracks[i].id], views[p.tracks[j].id])

LEMMA PoolIsSound ==
    ASSUME NEW k \in Trackers, PoolInv(k)
    PROVE  \E n \in Nat : /\ pool[k] \in Pools(n) /\ Rows(k) = 1 .. n
                          /\ SoundPool(pool[k], n, sightings, issued, completed[k], lastTag[k])
  <1>1. PICK n \in Nat : pool[k] \in Pools(n)
    BY DEF PoolInv
  <1>2. Rows(k) = 1 .. n
    BY <1>1 DEF Rows, RowsOf, Pools
  <1>3. SoundPool(pool[k], n, sightings, issued, completed[k], lastTag[k])
    BY <1>2 DEF SoundPool, PoolInv, Seen
  <1> QED BY <1>1, <1>2, <1>3

LEMMA SoundIsInv ==
    ASSUME NEW k \in Trackers, NEW n \in Nat, NEW closed \in Pools(n), closed = pool'[k],
           NEW name, name = algorithm'[k],
           closed.history = NewPool(name).history, closed.reUpdate = NewPool(name).reUpdate,
           NEW views, views = sightings', NEW ids, ids = issued',
           NEW done, done = completed'[k], NEW tag, tag = lastTag'[k],
           n # 0 => tag # None,
           SoundPool(closed, n, views, ids, done, tag)
    PROVE  PoolInv(k)'
  <1>1. RowsOf(closed) = 1 .. n
    BY DEF RowsOf, Pools
  <1>2. Rows(k)' = 1 .. n
    BY <1>1 DEF Rows, RowsOf
  <1>3. 1 .. n # {} => n # 0
    OBVIOUS
  <1>4. /\ \A i \in 1 .. n :
            /\ closed.tracks[i].id \in 1 .. ids
            /\ RowInv(Row(closed, i), views[closed.tracks[i].id], closed.history,
                      closed.reUpdate, done, tag)
        /\ \A i, j \in 1 .. n : i # j =>
            /\ closed.tracks[i].id # closed.tracks[j].id
            /\ NoneShared(views[closed.tracks[i].id], views[closed.tracks[j].id])
    BY DEF SoundPool
  <1>5. /\ \E m \in Nat : pool'[k] \in Pools(m)
        /\ pool'[k].history = NewPool(algorithm'[k]).history
        /\ pool'[k].reUpdate = NewPool(algorithm'[k]).reUpdate
        /\ Rows(k)' # {} => lastTag'[k] # None
    BY <1>2, <1>3
  <1>6. /\ \A i \in Rows(k)' :
            /\ pool'[k].tracks[i].id \in 1 .. issued'
            /\ RowInv(Row(pool'[k], i), sightings'[pool'[k].tracks[i].id], pool'[k].history,
                      pool'[k].reUpdate, completed'[k], lastTag'[k])
        /\ \A i, j \in Rows(k)' : i # j =>
            /\ pool'[k].tracks[i].id # pool'[k].tracks[j].id
            /\ NoneShared(sightings'[pool'[k].tracks[i].id], sightings'[pool'[k].tracks[j].id])
    BY <1>2, <1>4
  <1> QED BY <1>5, <1>6 DEF PoolInv, Seen, NoneShared

(* What must hold of a tracker at the start of a frame.                      *)
LEMMA BeforeFrame ==
    ASSUME NEW k \in Trackers, TypeOK, PoolInv(k)
    PROVE  \E n \in Nat : /\ pool[k] \in Pools(n) /\ Rows(k) = 1 .. n /\ DistinctIds(pool[k], n)
                          /\ \A i \in 1 .. n : pool[k].tracks[i].id \in 1 .. issued
                          /\ issued \in Nat /\ DOMAIN pool = Trackers
  <1>1. PICK n \in Nat : /\ pool[k] \in Pools(n) /\ Rows(k) = 1 .. n
                         /\ SoundPool(pool[k], n, sightings, issued, completed[k], lastTag[k])
    BY PoolIsSound
  <1> QED BY <1>1 DEF SoundPool, DistinctIds, TypeOK

(* The pool a frame leaves.                                                  *)
LEMMA FrameSound ==
    ASSUME NEW k \in Trackers, TypeOK, PoolInv(k), NEW n \in Nat, pool[k] \in Pools(n),
           DistinctIds(pool[k], n), \A i \in 1 .. n : pool[k].tracks[i].id \in 1 .. issued,
           NEW opened, IsOpened(opened, pool[k]), NEW position \in Int,
           NEW tag, NEW given, NEW leftovers,
           IsFrame(k, tag, opened, given, leftovers, position),
           NEW c \in Nat, NEW source, NEW closed, NEW views,
           Becoming(k, opened, given, leftovers, position, n, c, source, closed, views)
    PROVE  SoundPool(closed, c, views, issued + Len(leftovers), completed[k] + 1, tag)
  <1> DEFINE m == Len(leftovers)
             row(i) == Row(closed, i)
             id(i) == closed.tracks[i].id
             seen(i) == views[id(i)]
  <1>0. /\ m \in Nat /\ issued \in Nat
        /\ closed.history = pool[k].history /\ closed.reUpdate = pool[k].reUpdate
    BY DEF IsFrame, TypeOK, Becoming
  <1>1. ASSUME NEW i \in 1 .. c
        PROVE  /\ source[i] \in 1 .. n + m
               /\ Became(k, opened, given, leftovers, position, n, source[i], row(i), seen(i))
               /\ row(i).track.state # "removed" /\ row(i).track.id = id(i)
    BY DEF Becoming, Row
  <1>2. ASSUME NEW i \in 1 .. c, NEW j \in 1 .. c, i # j PROVE source[i] # source[j]
    BY <1>2 DEF Becoming
  <1> HIDE DEF row, m
  <1>3. ASSUME NEW i \in 1 .. c
        PROVE  RowInv(row(i), seen(i), pool[k].history, pool[k].reUpdate, completed[k] + 1, tag)
    BY <1>1, BecameInv
  <1>4. ASSUME NEW i \in 1 .. c
        PROVE  \/ source[i] \in (n + 1) .. (n + m) /\ id(i) = issued + (source[i] - n)
               \/ source[i] \in 1 .. n /\ id(i) = pool[k].tracks[source[i]].id
    BY <1>1 DEF Became, m
  <1> HIDE DEF id, seen
  <1>5. ASSUME NEW i \in 1 .. c PROVE id(i) \in 1 .. issued + m
    BY <1>0, <1>4
  <1>6. ASSUME NEW i \in 1 .. c, NEW j \in 1 .. c, i # j PROVE id(i) # id(j)
    <2>1. source[i] # source[j]
      BY <1>2, <1>6
    <2>2. CASE source[i] \in 1 .. n /\ source[j] \in 1 .. n
      BY <1>0, <1>4, <2>1, <2>2 DEF DistinctIds
    <2>3. CASE source[i] \in 1 .. n /\ source[j] \notin 1 .. n
      BY <1>0, <1>4, <2>3
    <2>4. CASE source[i] \notin 1 .. n /\ source[j] \in 1 .. n
      BY <1>0, <1>4, <2>4
    <2>5. CASE source[i] \notin 1 .. n /\ source[j] \notin 1 .. n
      BY <1>0, <1>4, <2>1, <2>5
    <2> QED BY <2>2, <2>3, <2>4, <2>5
  <1>7. ASSUME NEW i \in 1 .. c, NEW j \in 1 .. c, i # j,
               NEW a \in DOMAIN seen(i), NEW b \in DOMAIN seen(j)
        PROVE  seen(i)[a].det # seen(j)[b].det
    <2>1. ComesFrom(k, given, leftovers, n, source[i], seen(i)[a].det)
      BY <1>1, BecameDetections
    <2>2. ComesFrom(k, given, leftovers, n, source[j], seen(j)[b].det)
      BY <1>1, BecameDetections
    <2>3. source[i] # source[j]
      BY <1>2, <1>7
    <2> QED BY <2>1, <2>2, <2>3, OriginsApart
  <1>8. ASSUME NEW i \in 1 .. c, NEW j \in 1 .. c, i # j PROVE NoneShared(seen(i), seen(j))
    BY <1>7, <1>8 DEF NoneShared
  <1> QED BY <1>0, <1>3, <1>5, <1>6, <1>8 DEF SoundPool, row, id, seen, m

(* The identities of the closed pool are the tracker's own, or new.          *)
OwnOrNew(k, n, id) == id > issued \/ \E x \in 1 .. n : id = pool[k].tracks[x].id

LEMMA FrameIdentities ==
    ASSUME NEW k \in Trackers, NEW n \in Nat, NEW opened, NEW position,
           NEW given, NEW leftovers, Len(leftovers) \in Nat, issued \in Nat,
           NEW c \in Nat, NEW source, NEW closed, NEW views,
           Becoming(k, opened, given, leftovers, position, n, c, source, closed, views),
           NEW i \in 1 .. c
    PROVE  OwnOrNew(k, n, closed.tracks[i].id)
  <1>1. /\ Became(k, opened, given, leftovers, position, n, source[i], Row(closed, i),
                  views[closed.tracks[i].id])
        /\ Row(closed, i).track = closed.tracks[i]
    BY DEF Becoming, Row
  <1>2. CASE /\ source[i] \in (n + 1) .. (n + Len(leftovers))
             /\ closed.tracks[i].id = issued + (source[i] - n)
    BY <1>2 DEF OwnOrNew
  <1>3. CASE source[i] \in 1 .. n /\ closed.tracks[i].id = pool[k].tracks[source[i]].id
    BY <1>3 DEF OwnOrNew
  <1> QED BY <1>1, <1>2, <1>3 DEF Became

(* Nothing of a pool changes as long as nothing of its tracks does.          *)
LEMMA StillSound ==
    ASSUME NEW p, NEW n \in Nat, NEW views, NEW ids \in Nat, NEW done, NEW tag,
           SoundPool(p, n, views, ids, done, tag),
           NEW after, NEW more \in Nat, more >= ids,
           \A i \in 1 .. n : after[p.tracks[i].id] = views[p.tracks[i].id]
    PROVE  SoundPool(p, n, after, more, done, tag)
  <1>1. ASSUME NEW i \in 1 .. n PROVE p.tracks[i].id \in 1 .. more
    BY DEF SoundPool
  <1>2. ASSUME NEW i \in 1 .. n
        PROVE  RowInv(Row(p, i), after[p.tracks[i].id], p.history, p.reUpdate, done, tag)
    BY DEF SoundPool
  <1>3. ASSUME NEW i \in 1 .. n, NEW j \in 1 .. n, i # j
        PROVE  /\ p.tracks[i].id # p.tracks[j].id
               /\ NoneShared(after[p.tracks[i].id], after[p.tracks[j].id])
    BY <1>3 DEF SoundPool
  <1> QED BY <1>1, <1>2, <1>3 DEF SoundPool

(* One tracker's frame.                                                      *)
AFrame(k, tag, opened, given, leftovers, position) ==
    /\ IsOpened(opened, pool[k]) /\ position \in Int
    /\ IsFrame(k, tag, opened, given, leftovers, position)
    /\ UNCHANGED <<algorithm, estimator>>

LEMMA FrameType ==
    ASSUME NEW k \in Trackers, TypeOK, PoolInv(k), NEW tag, NEW opened, NEW given, NEW leftovers,
           NEW position, AFrame(k, tag, opened, given, leftovers, position)
    PROVE  /\ FrameEffects(k, tag, opened, given, leftovers, position)
           /\ Len(leftovers) \in Nat /\ issued' = issued + Len(leftovers) /\ issued' \in Nat
           /\ lastTag' \in [Trackers -> Tags \cup {None}] /\ lastTag'[k] = tag /\ tag \in Tags
           /\ completed' \in [Trackers -> Nat] /\ completed'[k] = completed[k] + 1
           /\ DOMAIN pool' = Trackers /\ DOMAIN answer' = Trackers
           /\ DOMAIN sightings' = 1 .. issued'
           /\ algorithm' = algorithm /\ estimator' = estimator
           /\ \A m \in Trackers : m # k =>
                /\ pool'[m] = pool[m] /\ lastTag'[m] = lastTag[m] /\ completed'[m] = completed[m]
                /\ answer'[m] = answer[m]
  <1>1. PICK n \in Nat : /\ pool[k] \in Pools(n) /\ Rows(k) = 1 .. n /\ DistinctIds(pool[k], n)
                         /\ \A i \in 1 .. n : pool[k].tracks[i].id \in 1 .. issued
                         /\ issued \in Nat /\ DOMAIN pool = Trackers
    BY BeforeFrame
  <1>2. FrameEffects(k, tag, opened, given, leftovers, position)
    BY <1>1, FrameChanges DEF AFrame
  <1>3. /\ Len(leftovers) \in Nat /\ tag \in Tags /\ algorithm' = algorithm
        /\ estimator' = estimator
    BY DEF AFrame, IsFrame
  <1>4. issued' = issued + Len(leftovers) /\ issued' \in Nat /\ DOMAIN sightings' = 1 .. issued'
    BY <1>1, <1>2, <1>3 DEF FrameEffects
  <1>5. lastTag' = [lastTag EXCEPT ![k] = tag] /\ completed' = [completed EXCEPT ![k] = completed[k] + 1]
    BY <1>2 DEF FrameEffects
  <1>6. lastTag' \in [Trackers -> Tags \cup {None}] /\ completed' \in [Trackers -> Nat]
    BY <1>3, <1>5 DEF TypeOK
  <1>7. \E closed, got : pool' = [pool EXCEPT ![k] = closed] /\ answer' = [answer EXCEPT ![k] = got]
    BY <1>2 DEF FrameEffects
  <1>8. /\ DOMAIN pool' = Trackers /\ DOMAIN answer' = Trackers
        /\ \A m \in Trackers : m # k => pool'[m] = pool[m] /\ answer'[m] = answer[m]
    BY <1>7 DEF TypeOK
  <1>9. /\ lastTag'[k] = tag /\ completed'[k] = completed[k] + 1
        /\ \A m \in Trackers : m # k => lastTag'[m] = lastTag[m] /\ completed'[m] = completed[m]
    BY <1>5 DEF TypeOK
  <1> QED BY <1>2, <1>3, <1>4, <1>6, <1>8, <1>9

LEMMA FrameKeepsOwn ==
    ASSUME NEW k \in Trackers, TypeOK, PoolInv(k), NEW tag, NEW opened, NEW given, NEW leftovers,
           NEW position, AFrame(k, tag, opened, given, leftovers, position)
    PROVE  PoolInv(k)'
  <1>1. PICK n \in Nat : /\ pool[k] \in Pools(n) /\ Rows(k) = 1 .. n /\ DistinctIds(pool[k], n)
                         /\ \A i \in 1 .. n : pool[k].tracks[i].id \in 1 .. issued
                         /\ issued \in Nat /\ DOMAIN pool = Trackers
    BY BeforeFrame
  <1>2. PICK closed : closed = pool'[k]
    OBVIOUS
  <1>3. PICK views : views = sightings'
    OBVIOUS
  <1>4. PICK c \in Nat : \E source :
            Becoming(k, opened, given, leftovers, position, n, c, source, closed, views)
    BY <1>1, <1>2, <1>3, FrameBecomes DEF AFrame
  <1>5. PICK source : Becoming(k, opened, given, leftovers, position, n, c, source, closed, views)
    BY <1>4
  <1>6. SoundPool(closed, c, views, issued + Len(leftovers), completed[k] + 1, tag)
    BY <1>1, <1>5, FrameSound DEF AFrame
  <1>7. PICK name : name = algorithm[k]
    OBVIOUS
  <1>8. /\ closed \in Pools(c) /\ closed.history = pool[k].history
        /\ closed.reUpdate = pool[k].reUpdate
    BY <1>5 DEF Becoming
  <1>9. /\ closed.history = NewPool(name).history /\ closed.reUpdate = NewPool(name).reUpdate
    BY <1>7, <1>8 DEF PoolInv
  <1>10. /\ issued' = issued + Len(leftovers) /\ completed'[k] = completed[k] + 1
         /\ lastTag'[k] = tag /\ tag # None /\ algorithm'[k] = name
    BY <1>7, FrameType, FrameAssumption
  <1>11. PICK ids : ids = issued'
    OBVIOUS
  <1>12. PICK done : done = completed'[k]
    OBVIOUS
  <1>13. SoundPool(closed, c, views, ids, done, tag)
    BY <1>6, <1>10, <1>11, <1>12
  <1> QED BY <1>2, <1>3, <1>8, <1>9, <1>10, <1>11, <1>12, <1>13, SoundIsInv

(* Another tracker notices nothing.                                          *)
LEMMA FrameKeepsOthers ==
    ASSUME NEW k \in Trackers, IInv, NEW tag, NEW opened, NEW given, NEW leftovers,
           NEW position, AFrame(k, tag, opened, given, leftovers, position),
           NEW m \in Trackers, m # k
    PROVE  /\ PoolInv(m)'
           /\ \A i \in Rows(k)', j \in Rows(m)' : pool'[k].tracks[i].id # pool'[m].tracks[j].id
  <1>0. TypeOK /\ PoolInv(k) /\ PoolInv(m)
    BY DEF IInv
  <1>1. PICK n \in Nat : /\ pool[k] \in Pools(n) /\ Rows(k) = 1 .. n /\ DistinctIds(pool[k], n)
                         /\ \A i \in 1 .. n : pool[k].tracks[i].id \in 1 .. issued
                         /\ issued \in Nat /\ DOMAIN pool = Trackers
    BY <1>0, BeforeFrame
  <1>2. PICK h \in Nat : /\ pool[m] \in Pools(h) /\ Rows(m) = 1 .. h
                         /\ SoundPool(pool[m], h, sightings, issued, completed[m], lastTag[m])
    BY <1>0, PoolIsSound
  <1>3. PICK closed : closed = pool'[k]
    OBVIOUS
  <1>4. PICK views : views = sightings'
    OBVIOUS
  <1>5. PICK c \in Nat : \E source :
            Becoming(k, opened, given, leftovers, position, n, c, source, closed, views)
    BY <1>1, <1>3, <1>4, FrameBecomes DEF AFrame
  <1>6. PICK source : Becoming(k, opened, given, leftovers, position, n, c, source, closed, views)
    BY <1>5
  <1>7. /\ FrameEffects(k, tag, opened, given, leftovers, position) /\ Len(leftovers) \in Nat
        /\ pool'[m] = pool[m] /\ lastTag'[m] = lastTag[m] /\ completed'[m] = completed[m]
        /\ algorithm'[m] = algorithm[m] /\ issued' = issued + Len(leftovers) /\ issued' \in Nat
    BY <1>0, FrameType
  <1>8. \A j \in 1 .. h : pool[m].tracks[j].id \in 1 .. issued
    BY <1>2 DEF SoundPool
  <1>9. ASSUME NEW i \in 1 .. n, NEW j \in 1 .. h
        PROVE  pool[k].tracks[i].id # pool[m].tracks[j].id
    BY <1>1, <1>2 DEF IInv, IdsApart
  <1>10. ASSUME NEW j \in 1 .. h
         PROVE  views[pool[m].tracks[j].id] = sightings[pool[m].tracks[j].id]
    <2>1. DOMAIN given \subseteq 1 .. n
      BY <1>1 DEF AFrame, IsFrame
    <2>2. \A r \in DOMAIN given : pool[k].tracks[r].id # pool[m].tracks[j].id
      BY <1>9, <2>1
    <2> QED BY <1>4, <1>7, <1>8, <2>2 DEF FrameEffects
  <1>11. PICK ids : ids = issued'
    OBVIOUS
  <1>12. ids \in Nat /\ ids >= issued
    BY <1>1, <1>7, <1>11
  <1>13. SoundPool(pool[m], h, views, ids, completed[m], lastTag[m])
    BY <1>1, <1>2, <1>10, <1>12, StillSound
  <1>14. PICK p, name, done, last : p = pool[m] /\ name = algorithm[m] /\ done = completed[m]
                                    /\ last = lastTag[m]
    OBVIOUS
  <1>15. /\ p \in Pools(h) /\ SoundPool(p, h, views, ids, done, last)
         /\ p.history = NewPool(name).history /\ p.reUpdate = NewPool(name).reUpdate
         /\ h # 0 => last # None
    BY <1>0, <1>2, <1>13, <1>14 DEF PoolInv
  <1>16. PoolInv(m)'
    BY <1>4, <1>7, <1>11, <1>14, <1>15, SoundIsInv
  <1>17. Rows(k)' = 1 .. c /\ Rows(m)' = 1 .. h
    <2>1. RowsOf(closed) = 1 .. c /\ RowsOf(p) = 1 .. h
      BY <1>6, <1>15 DEF Becoming, RowsOf, Pools
    <2> QED BY <1>3, <1>7, <1>14, <2>1 DEF Rows, RowsOf
  <1>18. ASSUME NEW i \in 1 .. c, NEW j \in 1 .. h
         PROVE  closed.tracks[i].id # pool[m].tracks[j].id
    <2>1. OwnOrNew(k, n, closed.tracks[i].id)
      <3>1. Len(leftovers) \in Nat /\ issued \in Nat
        BY <1>1, <1>7
      <3> QED BY <1>6, <3>1, FrameIdentities
    <2> QED BY <1>1, <1>8, <1>9, <2>1 DEF OwnOrNew
  <1> QED BY <1>3, <1>7, <1>16, <1>17, <1>18

LEMMA FramePools ==
    ASSUME NEW k \in Trackers, IInv, NEW tag, NEW opened, NEW given, NEW leftovers,
           NEW position, AFrame(k, tag, opened, given, leftovers, position)
    PROVE  (\A m \in Trackers : PoolInv(m))' /\ IdsApart'
  <1>1. TypeOK /\ PoolInv(k)
    BY DEF IInv
  <1>2. ASSUME NEW m \in Trackers PROVE PoolInv(m)'
    BY <1>1, FrameKeepsOwn, FrameKeepsOthers
  <1>3. ASSUME NEW a \in Trackers, NEW b \in Trackers, a # b,
               NEW i \in Rows(a)', NEW j \in Rows(b)'
        PROVE  pool'[a].tracks[i].id # pool'[b].tracks[j].id
    <2>1. CASE a = k
      BY <1>3, <2>1, FrameKeepsOthers
    <2>2. CASE b = k
      <3>1. \A x \in Rows(b)', y \in Rows(a)' : pool'[b].tracks[x].id # pool'[a].tracks[y].id
        BY <1>3, <2>2, FrameKeepsOthers
      <3> QED BY <3>1
    <2>3. CASE a # k /\ b # k
      <3>1. pool'[a] = pool[a] /\ pool'[b] = pool[b]
        BY <1>1, <2>3, FrameType
      <3>2. i \in Rows(a) /\ j \in Rows(b)
        BY <3>1 DEF Rows, RowsOf
      <3> QED BY <1>3, <3>1, <3>2 DEF IInv, IdsApart
    <2> QED BY <2>1, <2>2, <2>3
  <1> QED BY <1>2, <1>3 DEF IdsApart

(* A step that leaves every number and sighting alone, and at most replaces  *)
(* the pool of one tracker and the frame it is at.                           *)
Replaces(k, new, last) ==
    /\ pool' = [pool EXCEPT ![k] = new] /\ lastTag' = [lastTag EXCEPT ![k] = last]
    /\ UNCHANGED <<issued, completed, sightings, algorithm>>

LEMMA ReplacedPools ==
    ASSUME NEW k \in Trackers, IInv, NEW n \in Nat, NEW new \in Pools(n), NEW last,
           Replaces(k, new, last),
           new.history = pool[k].history, new.reUpdate = pool[k].reUpdate,
           n # 0 => last # None,
           SoundPool(new, n, sightings, issued, completed[k], last),
           \A i \in 1 .. n : i \in Rows(k) /\ new.tracks[i].id = pool[k].tracks[i].id
    PROVE  (\A m \in Trackers : PoolInv(m))' /\ IdsApart'
  <1>0. TypeOK /\ \A m \in Trackers : PoolInv(m)
    BY DEF IInv
  <1>1. /\ pool'[k] = new /\ lastTag'[k] = last /\ issued' = issued /\ completed' = completed
        /\ sightings' = sightings /\ algorithm' = algorithm
        /\ \A m \in Trackers : m # k => pool'[m] = pool[m] /\ lastTag'[m] = lastTag[m]
    BY <1>0 DEF Replaces, TypeOK
  <1>2. PICK views, ids, names, all : views = sightings' /\ ids = issued' /\ names = algorithm'
                                     /\ all = completed'
    OBVIOUS
  <1>3. PoolInv(k)'
    <2>1. /\ new.history = NewPool(names[k]).history /\ new.reUpdate = NewPool(names[k]).reUpdate
      BY <1>0, <1>1, <1>2 DEF PoolInv
    <2>2. SoundPool(new, n, views, ids, all[k], last)
      BY <1>1, <1>2
    <2> QED BY <1>1, <1>2, <2>1, <2>2, SoundIsInv
  <1>4. ASSUME NEW m \in Trackers, m # k PROVE PoolInv(m)'
    <2>1. PICK h \in Nat : /\ pool[m] \in Pools(h) /\ Rows(m) = 1 .. h
                           /\ SoundPool(pool[m], h, sightings, issued, completed[m], lastTag[m])
      BY <1>0, PoolIsSound
    <2>2. PICK p, final : p = pool[m] /\ final = lastTag[m]
      OBVIOUS
    <2>3. /\ p \in Pools(h) /\ SoundPool(p, h, views, ids, all[m], final)
          /\ p.history = NewPool(names[m]).history /\ p.reUpdate = NewPool(names[m]).reUpdate
          /\ h # 0 => final # None
      <3>1. completed = all /\ sightings = views /\ issued = ids /\ algorithm = names
        BY <1>1, <1>2
      <3>2. SoundPool(p, h, views, ids, all[m], final)
        BY <2>1, <2>2, <3>1
      <3>3. /\ p.history = NewPool(names[m]).history /\ p.reUpdate = NewPool(names[m]).reUpdate
            /\ h # 0 => final # None
        <4>1. h # 0 => 1 .. h # {}
          OBVIOUS
        <4>2. PoolInv(m)
          BY <1>0
        <4> QED BY <2>1, <2>2, <3>1, <4>1, <4>2 DEF PoolInv
      <3> QED BY <2>1, <2>2, <3>2, <3>3
    <2> QED BY <1>1, <1>2, <1>4, <2>2, <2>3, SoundIsInv
  <1>5. Rows(k)' = 1 .. n
    <2>1. RowsOf(new) = 1 .. n
      BY DEF RowsOf, Pools
    <2> QED BY <1>1, <2>1 DEF Rows, RowsOf
  <1>6. ASSUME NEW m \in Trackers, NEW i \in Rows(m)'
        PROVE  i \in Rows(m) /\ pool'[m].tracks[i].id = pool[m].tracks[i].id
    <2>1. CASE m = k
      BY <1>1, <1>5, <2>1
    <2>2. CASE m # k
      BY <1>1, <2>2 DEF Rows, RowsOf
    <2> QED BY <2>1, <2>2
  <1>7. IdsApart'
    <2> SUFFICES ASSUME NEW a \in Trackers, NEW b \in Trackers, a # b,
                        NEW i \in Rows(a)', NEW j \in Rows(b)'
                 PROVE  pool'[a].tracks[i].id # pool'[b].tracks[j].id
      BY DEF IdsApart
    <2> QED BY <1>6 DEF IInv, IdsApart
  <1> QED BY <1>3, <1>4, <1>7

LEMMA SamePools ==
    ASSUME IInv, UNCHANGED <<pool, lastTag, issued, completed, sightings, algorithm>>
    PROVE  (\A m \in Trackers : PoolInv(m))' /\ IdsApart'
  <1>1. ASSUME NEW m \in Trackers PROVE PoolInv(m)'
    <2>1. PICK h \in Nat : /\ pool[m] \in Pools(h) /\ Rows(m) = 1 .. h
                           /\ SoundPool(pool[m], h, sightings, issued, completed[m], lastTag[m])
      BY PoolIsSound DEF IInv
    <2>2. PICK p, final, views, ids, name, done :
            /\ p = pool[m] /\ final = lastTag[m] /\ views = sightings /\ ids = issued
            /\ name = algorithm[m] /\ done = completed[m]
      OBVIOUS
    <2>3. /\ p \in Pools(h) /\ SoundPool(p, h, views, ids, done, final)
          /\ p.history = NewPool(name).history /\ p.reUpdate = NewPool(name).reUpdate
          /\ h # 0 => final # None
      <3>1. h # 0 => 1 .. h # {}
        OBVIOUS
      <3>2. PoolInv(m)
        BY DEF IInv
      <3>3. SoundPool(p, h, views, ids, done, final)
        BY <2>1, <2>2
      <3> QED BY <2>1, <2>2, <3>1, <3>2, <3>3 DEF PoolInv
    <2>4. /\ p = pool'[m] /\ final = lastTag'[m] /\ views = sightings' /\ ids = issued'
          /\ name = algorithm'[m] /\ done = completed'[m]
      BY <2>2
    <2> QED BY <2>3, <2>4, SoundIsInv
  <1>2. IdsApart'
    BY DEF IInv, IdsApart, Rows, RowsOf
  <1> QED BY <1>1, <1>2

(* reset leaves a tracker without a row.                                     *)
LEMMA EmptiedPool ==
    ASSUME NEW n \in Nat, NEW p \in Pools(n), NEW views, NEW ids, NEW done, NEW tag
    PROVE  /\ Emptied(p) \in Pools(0) /\ RowsOf(Emptied(p)) = {}
           /\ Emptied(p).history = p.history /\ Emptied(p).reUpdate = p.reUpdate
           /\ SoundPool(Emptied(p), 0, views, ids, done, tag)
  <1>1. 1 .. 0 = {}
    OBVIOUS
  <1>2. \A S : <<>> \in [1 .. 0 -> S] /\ DOMAIN <<>> = {}
    BY <1>1
  <1>3. p.history \in Nat /\ p.reUpdate \in BOOLEAN
    BY DEF Pools
  <1>4. Emptied(p) \in Pools(0)
    BY <1>2, <1>3 DEF Emptied, EmptyPool, Pools
  <1> QED BY <1>1, <1>2, <1>4 DEF Emptied, EmptyPool, RowsOf, SoundPool

LEMMA ResetPools ==
    ASSUME NEW k \in Trackers, IInv, Reset(k), UNCHANGED algorithm
    PROVE  /\ (\A m \in Trackers : PoolInv(m))' /\ IdsApart'
           /\ Rows(k)' = {}
  <1>0. TypeOK /\ PoolInv(k)
    BY DEF IInv
  <1>1. PICK n \in Nat : pool[k] \in Pools(n)
    BY <1>0 DEF PoolInv
  <1>2. PICK new : new = Emptied(pool[k])
    OBVIOUS
  <1>3. /\ new \in Pools(0) /\ RowsOf(new) = {}
        /\ new.history = pool[k].history /\ new.reUpdate = pool[k].reUpdate
        /\ SoundPool(new, 0, sightings, issued, completed[k], None)
    BY <1>1, <1>2, EmptiedPool
  <1>4. Replaces(k, new, None)
    BY <1>2 DEF Reset, Replaces
  <1>5. (\A m \in Trackers : PoolInv(m))' /\ IdsApart'
    BY <1>3, <1>4, ReplacedPools
  <1>6. pool'[k] = new
    BY <1>0, <1>4 DEF Replaces, TypeOK
  <1> QED BY <1>3, <1>5, <1>6 DEF Rows, RowsOf

LEMMA AbandonPools ==
    ASSUME NEW k \in Trackers, IInv, NEW tag \in Accepted(k), Abandon(k, tag, Predict(pool[k])),
           algorithm[k] = "botsort", UNCHANGED algorithm
    PROVE  (\A m \in Trackers : PoolInv(m))' /\ IdsApart'
  <1>0. TypeOK /\ PoolInv(k)
    BY DEF IInv
  <1>1. PICK n \in Nat : /\ pool[k] \in Pools(n) /\ Rows(k) = 1 .. n
                         /\ SoundPool(pool[k], n, sightings, issued, completed[k], lastTag[k])
    BY <1>0, PoolIsSound
  <1>2. PICK new : new = Predict(pool[k])
    OBVIOUS
  <1>3. /\ SameBuild(new, pool[k], n) /\ new \in Pools(n)
        /\ \A i \in 1 .. n : Advanced(Row(new, i), Row(pool[k], i))
        /\ \A i \in 1 .. n : new.tracks[i].id = pool[k].tracks[i].id
    <2>1. IsOpened(new, pool[k])
      BY <1>2 DEF IsOpened
    <2> QED BY <1>1, <2>1, OpenedRows, OpenedStates DEF SameBuild
  <1>4. pool[k].reUpdate = FALSE
    BY <1>0 DEF PoolInv, NewPool, BotSortPool, ByteTrackPool, EmptyPool
  <1>5. /\ tag \in Tags /\ Accepts(k, tag) /\ completed[k] \in Nat /\ pool[k].history \in Nat
    BY <1>0, <1>1 DEF Accepted, TypeOK, Pools
  <1>6. ASSUME NEW i \in 1 .. n
        PROVE  RowInv(Row(new, i), sightings[new.tracks[i].id], new.history, new.reUpdate,
                      completed[k], tag)
    <2>1. /\ Row(pool[k], i) \in RowRecords /\ lastTag[k] \in Tags
          /\ RowInv(Row(pool[k], i), Seen(pool[k].tracks[i]), pool[k].history, FALSE,
                    completed[k], lastTag[k])
      BY <1>0, <1>1, <1>4, OldRow
    <2>2. Later(tag, lastTag[k])
      BY <1>5, <2>1, AcceptedIsLater
    <2>3. Advanced(Row(new, i), Row(pool[k], i))
      BY <1>3
    <2>4. RowInv(Row(new, i), Seen(pool[k].tracks[i]), pool[k].history, FALSE, completed[k], tag)
      BY <1>5, <2>1, <2>2, <2>3, AdvancedInv
    <2> QED BY <1>3, <1>4, <2>4 DEF SameBuild, Seen
  <1>7. SoundPool(new, n, sightings, issued, completed[k], tag)
    <2>1. \A i \in 1 .. n : pool[k].tracks[i].id \in 1 .. issued
      BY <1>1 DEF SoundPool
    <2>2. \A i, j \in 1 .. n : i # j =>
            /\ pool[k].tracks[i].id # pool[k].tracks[j].id
            /\ NoneShared(sightings[pool[k].tracks[i].id], sightings[pool[k].tracks[j].id])
      BY <1>1 DEF SoundPool
    <2> QED BY <1>3, <1>6, <2>1, <2>2 DEF SoundPool
  <1>8. Replaces(k, new, tag)
    BY <1>2 DEF Abandon, Replaces
  <1> QED BY <1>1, <1>3, <1>5, <1>7, <1>8, FrameAssumption, ReplacedPools DEF SameBuild

--------------------------------------------------------------------------------
(* Every step is a frame of a tracker without an estimator, one of a tracker *)
(* with one, a frame an estimator raises for, a refusal or a reset.          *)

PlainFrame(k, tag, given, leftovers) ==
    /\ algorithm[k] # "botsort" /\ UNCHANGED cmcVars
    /\ AFrame(k, tag, Predict(pool[k]), given, leftovers, 0)

MovedFrame(k, tag, given, leftovers, telemetry, motion, found) ==
    LET affine == Pushed(k, telemetry)
        now == pose[k] + motion
    IN /\ algorithm[k] = "botsort"
       /\ telemetry \in Telemetry(k) /\ motion \in Motions(telemetry)
       /\ AFrame(k, tag, ApplyCameraMotion(Predict(pool[k]), Estimate(k, affine, now, found)),
                 given, leftovers, now)
       /\ Estimated(k, telemetry, affine, now, found)

LEMMA MotionsAreInts ==
    ASSUME NEW k \in Trackers, TypeOK, NEW telemetry \in Telemetry(k),
           NEW motion \in Motions(telemetry), NEW found
    PROVE  /\ motion \in Int /\ pose[k] + motion \in Int
           /\ Pushed(k, telemetry) \in [motion : Int, stale : BOOLEAN] \cup {None}
           /\ Estimate(k, Pushed(k, telemetry), pose[k] + motion, found) \in Int
  <1>1. 0 .. MaxMotion \subseteq Int
    BY EstimatorAssumption
  <1>2. telemetry # None => telemetry \in Int
    BY <1>1 DEF Telemetry
  <1>3. motion \in Int
    BY <1>1, <1>2 DEF Motions
  <1>4. pose[k] \in Int /\ pose[k] + motion \in Int
    BY <1>3 DEF TypeOK
  <1>5. pending[k] \in [motion : Int, stale : BOOLEAN] \cup {None}
    BY DEF TypeOK
  <1>6. Pushed(k, telemetry) \in [motion : Int, stale : BOOLEAN] \cup {None}
    BY <1>2, <1>5 DEF Pushed
  <1>7. reference[k] # None => reference[k].pose \in Int
    BY DEF TypeOK
  <1>8. Estimate(k, Pushed(k, telemetry), pose[k] + motion, found) \in Int
    BY <1>4, <1>6, <1>7 DEF Estimate
  <1> QED BY <1>3, <1>4, <1>6, <1>8

Quiet(k) ==
    /\ Refuse(k) /\ UNCHANGED algorithm
    /\ UNCHANGED cmcVars \/ PushedInVain(k)

Restart(k) ==
    /\ Reset(k) /\ UNCHANGED algorithm
    /\ \/ algorithm[k] # "botsort" /\ UNCHANGED cmcVars
       \/ algorithm[k] = "botsort" /\ CmcReset(k)

Failure(k) == algorithm[k] = "botsort" /\ UNCHANGED algorithm /\ BotSortRaise(k)

LEMMA StepCases ==
    ASSUME IInv, [Next]_vars
    PROVE  \/ \E k \in Trackers : \E tag, given, leftovers : PlainFrame(k, tag, given, leftovers)
           \/ \E k \in Trackers : \E tag, given, leftovers, telemetry, motion, found :
                MovedFrame(k, tag, given, leftovers, telemetry, motion, found)
           \/ \E k \in Trackers : Failure(k) \/ Quiet(k) \/ Restart(k)
           \/ UNCHANGED vars
  <1> DEFINE Cases(k) == \/ \E tag, given, leftovers : PlainFrame(k, tag, given, leftovers)
                         \/ \E tag, given, leftovers, telemetry, motion, found :
                              MovedFrame(k, tag, given, leftovers, telemetry, motion, found)
                         \/ Failure(k) \/ Quiet(k) \/ Restart(k)
  <1>1. ASSUME NEW k \in Trackers PROVE TypeOK /\ PoolInv(k) /\ \E n \in Nat : pool[k] \in Pools(n)
    BY DEF IInv, PoolInv
  <1>2. ASSUME NEW k \in Trackers, Plain(k), NEW tag, NEW given, NEW leftovers,
               IsFrame(k, tag, Predict(pool[k]), given, leftovers, 0)
        PROVE  Cases(k)
    <2>1. /\ algorithm[k] # "botsort" /\ algorithm' = algorithm /\ UNCHANGED cmcVars
          /\ estimator' = estimator
      BY <1>2 DEF Plain, cmcVars
    <2>2. AFrame(k, tag, Predict(pool[k]), given, leftovers, 0)
      BY <1>2, <2>1 DEF AFrame, IsOpened
    <2> QED BY <2>1, <2>2 DEF PlainFrame
  <1>3. ASSUME NEW k \in Trackers, Plain(k), SortUpdate(k) PROVE Cases(k)
    <2>1. PICK tag, given, leftovers : IsFrame(k, tag, Predict(pool[k]), given, leftovers, 0)
      BY <1>3, SortFrame
    <2> QED BY <1>2, <1>3, <2>1
  <1>4. ASSUME NEW k \in Trackers, Plain(k), ByteTrackUpdate(k) PROVE Cases(k)
    <2>1. PICK n \in Nat : pool[k] \in Pools(n)
      BY <1>1
    <2>2. PICK tag \in Accepted(k) : TwoStages(k, tag, Predict(pool[k]), 0, MaxDetections)
      BY <1>4 DEF ByteTrackUpdate
    <2>3. IsOpened(Predict(pool[k]), pool[k]) /\ MaxDetections \in Nat
      BY FrameAssumption DEF IsOpened
    <2>4. PICK given, leftovers : IsFrame(k, tag, Predict(pool[k]), given, leftovers, 0)
      BY <2>1, <2>2, <2>3, TwoStagesFrame
    <2> QED BY <1>2, <1>4, <2>4
  <1>5. ASSUME NEW k \in Trackers, Plain(k), OcSortUpdate(k) PROVE Cases(k)
    <2>1. PICK tag, given, leftovers : IsFrame(k, tag, Predict(pool[k]), given, leftovers, 0)
      BY <1>1, <1>5, OcSortFrame
    <2> QED BY <1>2, <1>5, <2>1
  <1>6. ASSUME NEW k \in Trackers, Plain(k), DeepSortV2Update(k) PROVE Cases(k)
    <2>1. PICK tag, given, leftovers : IsFrame(k, tag, Predict(pool[k]), given, leftovers, 0)
      BY <1>1, <1>6, DeepFrame
    <2> QED BY <1>2, <1>6, <2>1
  <1>7. ASSUME NEW k \in Trackers, WithMotion(k), BotSortUpdate(k) PROVE Cases(k)
    <2>1. PICK n \in Nat : pool[k] \in Pools(n)
      BY <1>1
    <2>2. PICK tag \in Accepted(k), telemetry \in Telemetry(k), found \in Found(k) :
          \E motion \in Motions(telemetry) :
            /\ TwoStages(k, tag, ApplyCameraMotion(Predict(pool[k]),
                            Estimate(k, Pushed(k, telemetry), pose[k] + motion, found)),
                         pose[k] + motion, MaxMoving)
            /\ Estimated(k, telemetry, Pushed(k, telemetry), pose[k] + motion, found)
      BY <1>7 DEF BotSortUpdate
    <2>3. PICK motion \in Motions(telemetry) :
            /\ TwoStages(k, tag, ApplyCameraMotion(Predict(pool[k]),
                            Estimate(k, Pushed(k, telemetry), pose[k] + motion, found)),
                         pose[k] + motion, MaxMoving)
            /\ Estimated(k, telemetry, Pushed(k, telemetry), pose[k] + motion, found)
      BY <2>2
    <2> DEFINE now == pose[k] + motion
               shift == Estimate(k, Pushed(k, telemetry), now, found)
               opened == ApplyCameraMotion(Predict(pool[k]), shift)
    <2>4. now \in Int /\ shift \in Int
      BY <1>1, MotionsAreInts
    <2>5. IsOpened(opened, pool[k]) /\ MaxMoving \in Nat
      BY <2>4, EstimatorAssumption DEF IsOpened
    <2>6. TwoStages(k, tag, opened, now, MaxMoving)
      BY <2>3
    <2>7. \E given, leftovers : IsFrame(k, tag, opened, given, leftovers, now)
      <3> HIDE DEF opened, now
      <3> QED BY <2>1, <2>4, <2>5, <2>6, TwoStagesFrame
    <2>8. PICK given, leftovers : IsFrame(k, tag, opened, given, leftovers, now)
      BY <2>7
    <2>9. algorithm[k] = "botsort" /\ UNCHANGED algorithm /\ UNCHANGED estimator
      BY <1>7, <2>3 DEF WithMotion, Estimated
    <2>10. AFrame(k, tag, opened, given, leftovers, now)
      <3> HIDE DEF opened, now
      <3> QED BY <2>4, <2>5, <2>8, <2>9 DEF AFrame
    <2>11. MovedFrame(k, tag, given, leftovers, telemetry, motion, found)
      BY <2>3, <2>9, <2>10 DEF MovedFrame
    <2> QED BY <2>11
  <1>8. ASSUME NEW k \in Trackers, Plain(k), Refuse(k) \/ Reset(k) PROVE Cases(k)
    BY <1>8 DEF Plain, Quiet, Restart
  <1>9. ASSUME NEW k \in Trackers, WithMotion(k),
               BotSortRaise(k) \/ BotSortRefuse(k) \/ BotSortReset(k)
        PROVE  Cases(k)
    BY <1>9 DEF WithMotion, Failure, Quiet, Restart, BotSortRefuse, BotSortReset
  <1>10. CASE Next
    <2>1. PICK k \in Trackers :
            \/ Plain(k) /\ algorithm[k] = "sort" /\ SortUpdate(k)
            \/ Plain(k) /\ algorithm[k] = "bytetrack" /\ ByteTrackUpdate(k)
            \/ Plain(k) /\ algorithm[k] = "ocsort" /\ OcSortUpdate(k)
            \/ Plain(k) /\ algorithm[k] = "deepsortv2" /\ DeepSortV2Update(k)
            \/ Plain(k) /\ (Refuse(k) \/ Reset(k))
            \/ WithMotion(k) /\ (BotSortUpdate(k) \/ BotSortRaise(k))
            \/ WithMotion(k) /\ (BotSortRefuse(k) \/ BotSortReset(k))
      BY <1>10 DEF Next
    <2>2. Cases(k)
      <3> HIDE DEF Cases
      <3> QED BY <2>1, <1>3, <1>4, <1>5, <1>6, <1>7, <1>8, <1>9
    <2> QED BY <2>2
  <1> QED BY <1>10

(* What an estimator keeps is of the types it should be.                     *)
LEMMA EstimatorTypes ==
    ASSUME NEW k \in Trackers, TypeOK, NEW telemetry \in Telemetry(k),
           NEW motion \in Motions(telemetry),
           \/ \E found : Estimated(k, telemetry, Pushed(k, telemetry), pose[k] + motion, found)
           \/ EstimateRaised(k, telemetry, motion)
    PROVE  /\ pose' \in [Trackers -> Int]
           /\ pending' \in [Trackers -> [motion : Int, stale : BOOLEAN] \cup {None}]
           /\ reference' \in [Trackers -> [pose : Int] \cup {None}]
           /\ DOMAIN measured' = Trackers /\ estimator' = estimator
  <1>1. pose[k] + motion \in Int
    BY MotionsAreInts
  <1>2. pose' = [pose EXCEPT ![k] = pose[k] + motion]
    BY DEF Estimated, EstimateRaised
  <1>3. pending' = [pending EXCEPT ![k] = None]
    BY DEF Estimated, EstimateRaised, Consume
  <1>4. reference' = [reference EXCEPT ![k] = [pose |-> pose[k] + motion]] \/ reference' = reference
    BY DEF Estimated, EstimateRaised
  <1>5. DOMAIN measured' = DOMAIN measured /\ estimator' = estimator
    BY DEF Estimated, EstimateRaised
  <1>6. pose' \in [Trackers -> Int] /\ DOMAIN measured' = Trackers /\ estimator' = estimator
    BY <1>1, <1>2, <1>5 DEF TypeOK
  <1>7. pending' \in [Trackers -> [motion : Int, stale : BOOLEAN] \cup {None}]
    BY <1>3 DEF TypeOK
  <1>8. reference' \in [Trackers -> [pose : Int] \cup {None}]
    <2>1. PICK now \in Int : now = pose[k] + motion
      BY <1>1
    <2>2. [pose |-> now] \in [pose : Int]
      OBVIOUS
    <2> QED BY <1>4, <2>1, <2>2 DEF TypeOK
  <1> QED BY <1>6, <1>7, <1>8

LEMMA PushTypes ==
    ASSUME NEW k \in Trackers, TypeOK, PushedInVain(k)
    PROVE  pending' \in [Trackers -> [motion : Int, stale : BOOLEAN] \cup {None}]
  <1>1. PICK telemetry \in Telemetry(k) : pending' = [pending EXCEPT ![k] =
            LET affine == Pushed(k, telemetry) IN
            IF affine = None THEN None ELSE [affine EXCEPT !.stale = TRUE]]
    BY DEF PushedInVain
  <1>2. 0 .. MaxMotion \subseteq Int
    BY EstimatorAssumption
  <1>3. telemetry # None => telemetry \in Int
    BY <1>2 DEF Telemetry
  <1>4. Pushed(k, telemetry) \in [motion : Int, stale : BOOLEAN] \cup {None}
    BY <1>3 DEF Pushed, TypeOK
  <1>5. \A affine \in [motion : Int, stale : BOOLEAN] :
            [affine EXCEPT !.stale = TRUE] \in [motion : Int, stale : BOOLEAN]
    OBVIOUS
  <1> QED BY <1>1, <1>4, <1>5 DEF TypeOK

LEMMA InitIInv == Init => IInv
  <1> SUFFICES ASSUME Init PROVE IInv
    OBVIOUS
  <1>1. /\ algorithm \in [Trackers -> Algorithms]
        /\ estimator \in [Trackers -> Estimators \cup {None}]
        /\ pool = [k \in Trackers |-> NewPool(algorithm[k])]
        /\ lastTag = [k \in Trackers |-> None] /\ issued = 0
        /\ answer = [k \in Trackers |-> Returned({})]
        /\ completed = [k \in Trackers |-> 0] /\ sightings = <<>>
        /\ CmcInit
    BY DEF Init, BaseInit
  <1>2. DOMAIN sightings = 1 .. issued
    <2>1. 1 .. 0 = {} /\ DOMAIN <<>> = {}
      OBVIOUS
    <2> QED BY <1>1, <2>1
  <1>3. TypeOK
    BY <1>1, <1>2 DEF TypeOK, CmcInit
  <1>4. ASSUME NEW k \in Trackers
        PROVE  /\ pool[k] \in Pools(0) /\ Rows(k) = {}
               /\ pool[k] = NewPool(algorithm[k])
    <2>1. algorithm[k] \in {"sort", "bytetrack", "botsort", "ocsort", "deepsortv2"}
      BY <1>1, AlgorithmAssumption
    <2>2. DeltaT + 1 \in Nat
      BY HeadingAssumption
    <2>3. PICK history \in Nat, reUpdate \in BOOLEAN :
            NewPool(algorithm[k]) = EmptyPool(history, reUpdate)
      BY <2>1, <2>2 DEF NewPool, SortPool, ByteTrackPool, BotSortPool, OcSortPool, DeepSortV2Pool
    <2>4. \A S : <<>> \in [1 .. 0 -> S] /\ DOMAIN <<>> = {}
      OBVIOUS
    <2>5. pool[k] = EmptyPool(history, reUpdate) /\ pool[k] = NewPool(algorithm[k])
      BY <1>1, <2>3
    <2> QED BY <2>4, <2>5 DEF Pools, EmptyPool, Rows, RowsOf
  <1>5. ASSUME NEW k \in Trackers PROVE PoolInv(k)
    BY <1>4 DEF PoolInv
  <1> QED BY <1>3, <1>4, <1>5 DEF IInv, IdsApart

LEMMA StepIInv == IInv /\ [Next]_vars => IInv'
  <1> SUFFICES ASSUME IInv, [Next]_vars PROVE IInv'
    OBVIOUS
  <1>0. TypeOK /\ \A k \in Trackers : PoolInv(k)
    BY DEF IInv
  <1>1. ASSUME NEW k \in Trackers, NEW tag, NEW given, NEW leftovers,
               PlainFrame(k, tag, given, leftovers)
        PROVE  IInv'
    <2>1. AFrame(k, tag, Predict(pool[k]), given, leftovers, 0) /\ UNCHANGED cmcVars
      BY <1>1 DEF PlainFrame
    <2>2. PICK opened : opened = Predict(pool[k])
      OBVIOUS
    <2>3. AFrame(k, tag, opened, given, leftovers, 0)
      BY <2>1, <2>2
    <2>4. TypeOK'
      BY <1>0, <2>1, <2>3, FrameType DEF TypeOK, cmcVars
    <2> QED BY <2>3, <2>4, FramePools DEF IInv
  <1>2. ASSUME NEW k \in Trackers, NEW tag, NEW given, NEW leftovers, NEW telemetry,
               NEW motion, NEW found,
               MovedFrame(k, tag, given, leftovers, telemetry, motion, found)
        PROVE  IInv'
    <2>1. \E opened, now : AFrame(k, tag, opened, given, leftovers, now)
      BY <1>2 DEF MovedFrame
    <2>2. PICK opened, now : AFrame(k, tag, opened, given, leftovers, now)
      BY <2>1
    <2>3. /\ pose' \in [Trackers -> Int]
          /\ pending' \in [Trackers -> [motion : Int, stale : BOOLEAN] \cup {None}]
          /\ reference' \in [Trackers -> [pose : Int] \cup {None}]
          /\ DOMAIN measured' = Trackers
      BY <1>0, <1>2, EstimatorTypes DEF MovedFrame
    <2>4. TypeOK'
      BY <1>0, <2>2, <2>3, FrameType DEF TypeOK
    <2> QED BY <2>2, <2>4, FramePools DEF IInv
  <1>3. ASSUME NEW k \in Trackers, Failure(k) PROVE IInv'
    <2>1. PICK tag \in Accepted(k), telemetry \in Telemetry(k) : \E motion \in Motions(telemetry) :
            EstimateRaised(k, telemetry, motion) /\ Abandon(k, tag, Predict(pool[k]))
      BY <1>3 DEF Failure, BotSortRaise
    <2>2. PICK motion \in Motions(telemetry) :
            EstimateRaised(k, telemetry, motion) /\ Abandon(k, tag, Predict(pool[k]))
      BY <2>1
    <2>3. /\ pose' \in [Trackers -> Int]
          /\ pending' \in [Trackers -> [motion : Int, stale : BOOLEAN] \cup {None}]
          /\ reference' \in [Trackers -> [pose : Int] \cup {None}]
          /\ DOMAIN measured' = Trackers /\ estimator' = estimator
      BY <1>0, <2>2, EstimatorTypes
    <2>4. /\ lastTag' = [lastTag EXCEPT ![k] = tag] /\ tag \in Tags
          /\ issued' = issued /\ completed' = completed /\ sightings' = sightings
          /\ DOMAIN pool' = DOMAIN pool /\ DOMAIN answer' = DOMAIN answer
      BY <2>2 DEF Abandon, Accepted
    <2>5. algorithm' = algorithm /\ algorithm[k] = "botsort"
      BY <1>3 DEF Failure
    <2>6. TypeOK'
      BY <1>0, <2>3, <2>4, <2>5 DEF TypeOK
    <2> QED BY <2>2, <2>5, <2>6, AbandonPools DEF IInv
  <1>4. ASSUME NEW k \in Trackers, Quiet(k) PROVE IInv'
    <2>1. /\ UNCHANGED <<pool, lastTag, issued, completed, sightings, algorithm>>
          /\ DOMAIN answer' = DOMAIN answer
      BY <1>4 DEF Quiet, Refuse
    <2>2. /\ UNCHANGED <<estimator, reference, pose, measured>>
          /\ pending' \in [Trackers -> [motion : Int, stale : BOOLEAN] \cup {None}]
      <3>1. CASE UNCHANGED cmcVars
        BY <1>0, <3>1 DEF cmcVars, TypeOK
      <3>2. CASE PushedInVain(k)
        BY <1>0, <3>2, PushTypes DEF PushedInVain
      <3> QED BY <1>4, <3>1, <3>2 DEF Quiet
    <2>3. TypeOK'
      BY <1>0, <2>1, <2>2 DEF TypeOK
    <2> QED BY <2>1, <2>3, SamePools DEF IInv
  <1>5. ASSUME NEW k \in Trackers, Restart(k) PROVE IInv'
    <2>1. /\ Reset(k) /\ UNCHANGED algorithm
          /\ DOMAIN pool' = DOMAIN pool /\ lastTag' = [lastTag EXCEPT ![k] = None]
          /\ UNCHANGED <<issued, answer, completed, sightings>>
      BY <1>5 DEF Restart, Reset
    <2>2. /\ pose' \in [Trackers -> Int]
          /\ pending' \in [Trackers -> [motion : Int, stale : BOOLEAN] \cup {None}]
          /\ reference' \in [Trackers -> [pose : Int] \cup {None}]
          /\ DOMAIN measured' = Trackers /\ estimator' = estimator
      <3>1. CASE UNCHANGED cmcVars
        BY <1>0, <3>1 DEF cmcVars, TypeOK
      <3>2. CASE CmcReset(k)
        BY <1>0, <3>2 DEF CmcReset, Consume, TypeOK
      <3> QED BY <1>5, <3>1, <3>2 DEF Restart
    <2>3. TypeOK'
      BY <1>0, <2>1, <2>2 DEF TypeOK
    <2> QED BY <2>1, <2>3, ResetPools DEF IInv
  <1>6. CASE UNCHANGED vars
    <2>1. UNCHANGED <<pool, lastTag, issued, completed, sightings, algorithm, answer, cmcVars>>
      BY <1>6 DEF vars, baseVars
    <2>2. TypeOK'
      BY <1>0, <2>1 DEF TypeOK, cmcVars
    <2> QED BY <2>1, <2>2, SamePools DEF IInv
  <1> QED BY <1>1, <1>2, <1>3, <1>4, <1>5, <1>6, StepCases

(* Every tracker's state has its type, and every row of every pool tells     *)
(* what its track was given: the inductive invariant of the trackers.        *)
THEOREM InductiveInvariant == Spec => []IInv
  BY InitIInv, StepIInv, PTL DEF Spec

(* pool.py: "row i of every array describes tracks[i]", through every        *)
(* association, re-update and sweep of every algorithm.                      *)
THEOREM RowsStayAligned == Spec => []RowsAligned
  <1>1. IInv => RowsAligned
    <2> SUFFICES ASSUME IInv, NEW k \in Trackers
                 PROVE  /\ \A column \in Columns : Len(pool[k][column]) = Len(pool[k].tracks)
                        /\ \A i \in Rows(k) :
                            LET seen == Seen(pool[k].tracks[i])
                                ring == pool[k].observations[i]
                            IN /\ pool[k].means[i].last = Last(seen).det
                               /\ pool[k].observedMeans[i].last = Last(seen).det
                               /\ pool[k].observed[i].det = Last(seen).det
                               /\ [j \in DOMAIN ring |-> ring[j].measured.det]
                                    = [j \in DOMAIN ring |-> seen[Len(seen) - Len(ring) + j].det]
                               /\ LET length == RingLength(pool[k].history) IN
                                    Len(ring) = IF Len(seen) < length THEN Len(seen) ELSE length
      BY DEF RowsAligned
    <2>1. PoolInv(k)
      BY DEF IInv
    <2>2. PICK n \in Nat : pool[k] \in Pools(n)
      BY <2>1 DEF PoolInv
    <2>3. ASSUME NEW column \in Columns PROVE Len(pool[k][column]) = Len(pool[k].tracks)
      <3>1. \A S : \A f \in [1 .. n -> S] : Len(f) = n
        BY LenProperties, SeqDef
      <3>2. /\ Len(pool[k].tracks) = n /\ Len(pool[k].means) = n /\ Len(pool[k].observedMeans) = n
            /\ Len(pool[k].observed) = n /\ Len(pool[k].observations) = n
        BY <2>2, <3>1 DEF Pools
      <3>3. /\ pool[k]["tracks"] = pool[k].tracks /\ pool[k]["means"] = pool[k].means
            /\ pool[k]["observedMeans"] = pool[k].observedMeans
            /\ pool[k]["observed"] = pool[k].observed
            /\ pool[k]["observations"] = pool[k].observations
        OBVIOUS
      <3> QED BY <3>2, <3>3 DEF Columns
    <2>4. ASSUME NEW i \in Rows(k)
          PROVE  LET seen == Seen(pool[k].tracks[i])
                     ring == pool[k].observations[i]
                 IN /\ pool[k].means[i].last = Last(seen).det
                    /\ pool[k].observedMeans[i].last = Last(seen).det
                    /\ pool[k].observed[i].det = Last(seen).det
                    /\ [j \in DOMAIN ring |-> ring[j].measured.det]
                         = [j \in DOMAIN ring |-> seen[Len(seen) - Len(ring) + j].det]
                    /\ LET length == RingLength(pool[k].history) IN
                         Len(ring) = IF Len(seen) < length THEN Len(seen) ELSE length
      <3> DEFINE seen == Seen(pool[k].tracks[i])
                 ring == pool[k].observations[i]
      <3>1. Aligned(Row(pool[k], i), seen, pool[k].history)
        BY <2>1 DEF PoolInv, RowInv
      <3>2. ring \in Seq(Entries)
        BY <2>2 DEF Pools, Rows, RowsOf
      <3> HIDE DEF seen
      <3>3. /\ pool[k].means[i].last = seen[Len(seen)].det
            /\ pool[k].observedMeans[i].last = seen[Len(seen)].det
            /\ pool[k].observed[i].det = seen[Len(seen)].det
            /\ Len(ring) = IF Len(seen) < RingLength(pool[k].history) THEN Len(seen)
                           ELSE RingLength(pool[k].history)
            /\ \A j \in 1 .. Len(ring) :
                 ring[j].measured.det = seen[Len(seen) - Len(ring) + j].det
        BY <3>1 DEF Aligned, Row
      <3>4. Last(seen) = seen[Len(seen)]
        BY DEF Last
      <3>5. DOMAIN ring = 1 .. Len(ring)
        BY <3>2
      <3> HIDE DEF ring
      <3>6. [j \in DOMAIN ring |-> ring[j].measured.det]
              = [j \in DOMAIN ring |-> seen[Len(seen) - Len(ring) + j].det]
        BY <3>3, <3>5
      <3> QED BY <3>3, <3>4, <3>6 DEF seen, ring
    <2> QED BY <2>3, <2>4
  <1> QED BY <1>1, InductiveInvariant, PTL

(* The clocks: prediction, replay and lifecycle agree on the frames.         *)
THEOREM ClocksTellTheFrames == Spec => []FilterTime
  <1>1. IInv => FilterTime
    <2> SUFFICES ASSUME IInv, NEW k \in Trackers, NEW i \in Rows(k)
                 PROVE  /\ pool[k].means[i].time = pool[k].tracks[i].age - 1
                        /\ pool[k].tracks[i].time_since_update
                             = completed[k] - Last(Seen(pool[k].tracks[i])).frame
                        /\ pool[k].tracks[i].hits = Len(Seen(pool[k].tracks[i]))
      BY DEF FilterTime
    <2>1. Clocked(Row(pool[k], i), Seen(pool[k].tracks[i]), pool[k].reUpdate, completed[k])
      BY DEF IInv, PoolInv, RowInv
    <2> QED BY <2>1 DEF Clocked, Row, Last
  <1> QED BY <1>1, InductiveInvariant, PTL

(* base.py: only confident detections, and only MinHits of them on as many   *)
(* consecutive frames, earn a track its confirmation.                        *)
THEOREM TrustHasToBeEarned == Spec => []TrustIsEarned
  <1>1. IInv => TrustIsEarned
    <2> SUFFICES ASSUME IInv, NEW k \in Trackers, NEW i \in Rows(k),
                        pool[k].tracks[i].state # "tentative"
                 PROVE  LET seen == Seen(pool[k].tracks[i]) IN
                        /\ Len(seen) >= MinHits
                        /\ \A j \in 2 .. MinHits : seen[j].frame = seen[j - 1].frame + 1
                        /\ \A j \in 1 .. MinHits : seen[j].det.tier = "high"
      BY DEF TrustIsEarned
    <2>1. /\ Clocked(Row(pool[k], i), Seen(pool[k].tracks[i]), pool[k].reUpdate, completed[k])
          /\ Earned(Row(pool[k], i), Seen(pool[k].tracks[i]))
      BY DEF IInv, PoolInv, RowInv
    <2>2. pool[k].tracks[i].hits >= MinHits /\ Unbroken(Seen(pool[k].tracks[i]), MinHits)
      BY <2>1 DEF Earned, Row
    <2> QED BY <2>1, <2>2 DEF Clocked, Row, Unbroken
  <1> QED BY <1>1, InductiveInvariant, PTL

(* No detection is in two tracks, and a track is of one camera's frames, in  *)
(* their order: no stage, birth or replay uses a detection twice.            *)
THEOREM TracksDoNotShare == Spec => []OneObjectPerTrack
  <1>1. IInv => OneObjectPerTrack
    <2> SUFFICES ASSUME IInv PROVE OneObjectPerTrack
      OBVIOUS
    <2>1. ASSUME NEW k \in Trackers, NEW i \in Rows(k),
                 NEW id, id = pool[k].tracks[i].id,
                 NEW a \in DOMAIN sightings[id], NEW b \in DOMAIN sightings[id], a < b
          PROVE  /\ sightings[id][a].det.camera = sightings[id][b].det.camera
                 /\ sightings[id][a].det.frame < sightings[id][b].det.frame
      <3>1. Ordered(sightings[id], lastTag[k])
        BY <2>1 DEF IInv, PoolInv, RowInv, Seen
      <3> QED BY <2>1, <3>1 DEF Ordered
    <2>2. ASSUME NEW k \in Trackers, NEW i \in Rows(k), NEW j \in Rows(k), i # j
          PROVE  /\ pool[k].tracks[i].id # pool[k].tracks[j].id
                 /\ \A s \in Range(Seen(pool[k].tracks[i])), t \in Range(Seen(pool[k].tracks[j])) :
                        s.det # t.det
      <3>1. PoolInv(k)
        BY DEF IInv
      <3>2. /\ pool[k].tracks[i].id # pool[k].tracks[j].id
            /\ \A a \in DOMAIN Seen(pool[k].tracks[i]), b \in DOMAIN Seen(pool[k].tracks[j]) :
                 Seen(pool[k].tracks[i])[a].det # Seen(pool[k].tracks[j])[b].det
        BY <2>2, <3>1 DEF PoolInv, NoneShared
      <3> QED BY <3>2 DEF Range
    <2> DEFINE live == UNION {{pool[k].tracks[i].id : i \in Rows(k)} : k \in Trackers}
    <2>3. ASSUME NEW id \in live, NEW a \in DOMAIN sightings[id], NEW b \in DOMAIN sightings[id], a < b
          PROVE  /\ sightings[id][a].det.camera = sightings[id][b].det.camera
                 /\ sightings[id][a].det.frame < sightings[id][b].det.frame
      <3>1. PICK k \in Trackers : \E i \in Rows(k) : id = pool[k].tracks[i].id
        OBVIOUS
      <3> QED BY <2>1, <2>3, <3>1
    <2>4. IdsApart
      BY DEF IInv
    <2> QED BY <2>2, <2>3, <2>4 DEF OneObjectPerTrack, IdsApart
  <1> QED BY <1>1, InductiveInvariant, PTL

--------------------------------------------------------------------------------
(* Poses.                                                                   *)

LEMMA AgedPose ==
    ASSUME NEW r \in RowRecords, NEW position, InOnePose(r, position)
    PROVE  InOnePose(AgedRow(r), position)
  <1>1. r.mean \in States
    BY DEF RowRecords
  <1>2. [r.mean EXCEPT !.time = @ + 1].pose = r.mean.pose
    BY <1>1 DEF States
  <1> QED BY <1>2 DEF InOnePose, AgedRow

LEMMA MovedPose ==
    ASSUME NEW r \in RowRecords, NEW position \in Int, NEW motion \in Int, InOnePose(r, position)
    PROVE  InOnePose(MovedRow(r, motion), position + motion)
  <1>1. /\ r.mean \in States /\ r.observedMean \in States /\ r.observed \in Measurements
        /\ r.ring \in Seq(Entries)
    BY DEF RowRecords
  <1>2. /\ InPose(r.mean, r.mean.pose + motion).pose = position + motion
        /\ InPose(r.observedMean, r.observedMean.pose + motion).pose = position + motion
        /\ InPose(r.observed, r.observed.pose + motion).pose = position + motion
    BY <1>1 DEF InPose, States, Measurements, InOnePose
  <1> DEFINE moved == [j \in DOMAIN r.ring |->
                          [r.ring[j] EXCEPT !.measured = InPose(@, @.pose + motion)]]
  <1>3. /\ Len(moved) = Len(r.ring) /\ moved \in Seq(Entries)
        /\ \A j \in 1 .. Len(r.ring) :
             moved[j].measured.pose = r.ring[j].measured.pose + motion
    BY <1>1, MovedRing
  <1>4. DOMAIN moved = 1 .. Len(r.ring) /\ DOMAIN r.ring = 1 .. Len(r.ring)
    BY <1>1, <1>3
  <1>5. MovedRow(r, motion).ring = moved
    BY DEF MovedRow
  <1> HIDE DEF moved
  <1>6. \A j \in DOMAIN moved : moved[j].measured.pose = position + motion
    BY <1>3, <1>4 DEF InOnePose
  <1> QED BY <1>2, <1>5, <1>6 DEF InOnePose, MovedRow

LEMMA MissedPose ==
    ASSUME NEW r, NEW position, InOnePose(r, position)
    PROVE  InOnePose(MissedRow(r), position)
  BY DEF InOnePose, MissedRow

LEMMA BornPose ==
    ASSUME NEW id, NEW det, NEW position
    PROVE  InOnePose(BornRow(id, det, position), position)
  BY DEF InOnePose, BornRow

LEMMA HitPose ==
    ASSUME NEW r \in RowRecords, NEW position \in Int, NEW history \in Nat, NEW reUpdate \in BOOLEAN,
           NEW det \in Detections, InOnePose(r, position), Len(r.ring) <= RingLength(history)
    PROVE  InOnePose(HitRow(r, history, reUpdate, det, position), position)
  <1> DEFINE entry == [age |-> r.track.age, measured |-> [det |-> det, pose |-> position]]
             ring == Remember(history, r.ring, entry)
             corrected == [Rebuilt(r, reUpdate) EXCEPT !.last = det]
             length == IF Len(r.ring) < RingLength(history) THEN Len(r.ring) + 1
                                                            ELSE RingLength(history)
  <1>1. /\ r.mean \in States /\ r.observedMean \in States /\ r.ring \in Seq(Entries)
        /\ r.track.age \in Nat /\ r.track.time_since_update \in Nat
    BY DEF RowRecords, TrackRecords
  <1>2. corrected.pose = position
    <2>1. CASE reUpdate /\ r.track.time_since_update >= 1
      <3>1. Rebuilt(r, reUpdate) = [r.observedMean EXCEPT !.time = @ + r.track.time_since_update + 1]
        BY <2>1 DEF Rebuilt
      <3>2. Rebuilt(r, reUpdate) \in States /\ Rebuilt(r, reUpdate).pose = position
        BY <1>1, <3>1 DEF States, InOnePose
      <3> QED BY <3>2 DEF States
    <2>2. CASE ~(reUpdate /\ r.track.time_since_update >= 1)
      <3>1. Rebuilt(r, reUpdate) = r.mean
        BY <2>2 DEF Rebuilt
      <3> QED BY <1>1, <3>1 DEF States, InOnePose
    <2> QED BY <2>1, <2>2
  <1>3. entry \in Entries /\ entry.measured.pose = position
    BY <1>1 DEF Entries, Measurements
  <1>4. RingLength(history) \in Nat \ {0} /\ Len(r.ring) \in Nat
    BY <1>1 DEF RingLength
  <1> HIDE DEF entry
  <1>5. /\ ring \in Seq(Entries) /\ Len(ring) = length /\ ring[length] = entry
        /\ \A j \in 1 .. length - 1 : ring[j] = r.ring[Len(r.ring) + 1 - length + j]
    BY <1>1, <1>3, Remembered
  <1>6. DOMAIN ring = 1 .. length /\ DOMAIN r.ring = 1 .. Len(r.ring)
    BY <1>1, <1>5
  <1>7. HitRow(r, history, reUpdate, det, position).ring = ring
    BY DEF HitRow, entry
  <1> HIDE DEF ring
  <1>8. ASSUME NEW j \in 1 .. length PROVE ring[j].measured.pose = position
    <2>1. CASE j = length
      BY <1>3, <1>5, <2>1
    <2>2. CASE j # length
      <3>1. j \in 1 .. length - 1 /\ Len(r.ring) + 1 - length + j \in 1 .. Len(r.ring)
        <4>1. ASSUME NEW L \in Nat, NEW most \in Nat \ {0}, L <= most,
                     j \in 1 .. (IF L < most THEN L + 1 ELSE most),
                     j # (IF L < most THEN L + 1 ELSE most)
              PROVE  LET M == IF L < most THEN L + 1 ELSE most
                     IN  j \in 1 .. M - 1 /\ L + 1 - M + j \in 1 .. L
          BY ONLY <4>1
        <4> QED BY <1>4, <2>2, <4>1
      <3> QED BY <1>5, <1>6, <3>1 DEF InOnePose
    <2> QED BY <2>1, <2>2
  <1>9. \A j \in DOMAIN ring : ring[j].measured.pose = position
    BY <1>6, <1>8
  <1> QED BY <1>2, <1>7, <1>9 DEF InOnePose, HitRow

LEMMA BecamePose ==
    ASSUME NEW k \in Trackers, TypeOK, PoolInv(k), NEW n \in Nat, pool[k] \in Pools(n),
           NEW opened, IsOpened(opened, pool[k]), NEW position \in Int,
           NEW tag, NEW given, NEW leftovers,
           IsFrame(k, tag, opened, given, leftovers, position),
           \A i \in 1 .. n : InOnePose(Row(opened, i), position),
           NEW x, NEW new, NEW seen,
           Became(k, opened, given, leftovers, position, n, x, new, seen)
    PROVE  InOnePose(new, position)
  <1>1. CASE new = BornRow(issued + (x - n), leftovers[x - n], position)
    BY <1>1, BornPose
  <1>2. CASE /\ x \in 1 .. n /\ x \in DOMAIN given
             /\ new = HitRow(Row(opened, x), opened.history, opened.reUpdate, given[x], position)
    <2>1. /\ SameBuild(opened, pool[k], n) /\ Advanced(Row(opened, x), Row(pool[k], x))
      BY <1>2, OpenedRows
    <2>2. /\ opened.history \in Nat /\ opened.reUpdate \in BOOLEAN
          /\ opened.history = pool[k].history
      BY <2>1 DEF SameBuild, Pools
    <2>3. /\ Row(opened, x) \in RowRecords
          /\ Len(Row(opened, x).ring) = Len(Row(pool[k], x).ring)
      BY <2>1 DEF Advanced
    <2>4. /\ Aligned(Row(pool[k], x), Seen(pool[k].tracks[x]), pool[k].history)
          /\ Seen(pool[k].tracks[x]) \in Seq(Sightings)
      BY <1>2, OldRow DEF RowInv
    <2>5. Len(Row(pool[k], x).ring) <= RingLength(pool[k].history)
      <3>1. Len(Seen(pool[k].tracks[x])) \in Nat
        BY <2>4, SeenTyped
      <3>2. RingLength(pool[k].history) \in Nat
        BY <2>2 DEF RingLength
      <3>3. Len(Row(pool[k], x).ring) =
              IF Len(Seen(pool[k].tracks[x])) < RingLength(pool[k].history)
              THEN Len(Seen(pool[k].tracks[x])) ELSE RingLength(pool[k].history)
        BY <2>4 DEF Aligned
      <3> QED BY ONLY <3>1, <3>2, <3>3
    <2>6. given[x] \in Detections
      BY <1>2 DEF IsFrame
    <2> QED BY <1>2, <2>2, <2>3, <2>5, <2>6, HitPose
  <1>3. CASE x \in 1 .. n /\ new = MissedRow(Row(opened, x))
    BY <1>3, MissedPose
  <1> QED BY <1>1, <1>2, <1>3 DEF Became

(* A frame met in one pose leaves everything in that pose.                   *)
LEMMA FramePose ==
    ASSUME NEW k \in Trackers, IInv, NEW tag, NEW opened, NEW given, NEW leftovers,
           NEW position, AFrame(k, tag, opened, given, leftovers, position),
           \A i \in Rows(k) : InOnePose(Row(opened, i), position)
    PROVE  \A i \in Rows(k)' : InOnePose(Row(pool'[k], i), position)
  <1>0. TypeOK /\ PoolInv(k)
    BY DEF IInv
  <1>1. PICK n \in Nat : /\ pool[k] \in Pools(n) /\ Rows(k) = 1 .. n /\ DistinctIds(pool[k], n)
                         /\ \A i \in 1 .. n : pool[k].tracks[i].id \in 1 .. issued
                         /\ issued \in Nat /\ DOMAIN pool = Trackers
    BY <1>0, BeforeFrame
  <1>2. PICK closed, views : closed = pool'[k] /\ views = sightings'
    OBVIOUS
  <1>3. PICK c \in Nat : \E source :
            Becoming(k, opened, given, leftovers, position, n, c, source, closed, views)
    BY <1>1, <1>2, FrameBecomes DEF AFrame
  <1>4. PICK source : Becoming(k, opened, given, leftovers, position, n, c, source, closed, views)
    BY <1>3
  <1>5. ASSUME NEW i \in 1 .. c PROVE InOnePose(Row(closed, i), position)
    <2>1. Became(k, opened, given, leftovers, position, n, source[i], Row(closed, i),
                 views[closed.tracks[i].id])
      BY <1>4 DEF Becoming
    <2>2. /\ \A j \in 1 .. n : InOnePose(Row(opened, j), position)
          /\ IsOpened(opened, pool[k]) /\ position \in Int
          /\ IsFrame(k, tag, opened, given, leftovers, position)
      BY <1>1 DEF AFrame
    <2> QED BY <1>0, <1>1, <2>1, <2>2, BecamePose
  <1>6. Rows(k)' = 1 .. c
    <2>1. RowsOf(closed) = 1 .. c
      BY <1>4 DEF Becoming, RowsOf, Pools
    <2> QED BY <1>2, <2>1 DEF Rows, RowsOf
  <1> QED BY <1>2, <1>5, <1>6

(* A frame's predictions are where they were, or moved into the frame.       *)
LEMMA PredictedPose ==
    ASSUME NEW k \in Trackers, PoolInv(k), NEW position,
           \A i \in Rows(k) : InOnePose(Row(pool[k], i), position)
    PROVE  \A i \in Rows(k) : InOnePose(Row(Predict(pool[k]), i), position)
  <1>1. PICK n \in Nat : pool[k] \in Pools(n)
    BY DEF PoolInv
  <1>2. Rows(k) = 1 .. n /\ \A i \in 1 .. n : Row(pool[k], i) \in RowRecords
    <2>1. Rows(k) = 1 .. n
      BY <1>1 DEF Rows, RowsOf, Pools
    <2> QED BY <1>1, <2>1, RowTyped
  <1>3. \A i \in 1 .. n : Row(Predict(pool[k]), i) = AgedRow(Row(pool[k], i))
    BY <1>1, PredictRows
  <1>4. ASSUME NEW i \in 1 .. n PROVE InOnePose(Row(Predict(pool[k]), i), position)
    <2>1. PICK r : r = Row(pool[k], i)
      OBVIOUS
    <2>2. r \in RowRecords /\ InOnePose(r, position)
      BY <1>2, <2>1
    <2>3. InOnePose(AgedRow(r), position)
      BY <2>2, AgedPose
    <2> QED BY <1>3, <2>1, <2>3
  <1> QED BY <1>2, <1>4

LEMMA ShiftedPose ==
    ASSUME NEW k \in Trackers, PoolInv(k), NEW position \in Int, NEW motion \in Int,
           \A i \in Rows(k) : InOnePose(Row(pool[k], i), position)
    PROVE  \A i \in Rows(k) :
             InOnePose(Row(ApplyCameraMotion(Predict(pool[k]), motion), i), position + motion)
  <1>1. PICK n \in Nat : pool[k] \in Pools(n)
    BY DEF PoolInv
  <1>2. Rows(k) = 1 .. n
    BY <1>1 DEF Rows, RowsOf, Pools
  <1> DEFINE aged == Predict(pool[k])
  <1>3. aged \in Pools(n) /\ \A i \in 1 .. n : Row(aged, i) \in RowRecords
    BY <1>1, PredictRows, RowTyped
  <1>4. \A i \in 1 .. n : InOnePose(Row(aged, i), position)
    BY <1>2, PredictedPose
  <1> HIDE DEF aged
  <1>5. \A i \in 1 .. n : Row(ApplyCameraMotion(aged, motion), i) = MovedRow(Row(aged, i), motion)
    BY <1>3, MotionRows
  <1>6. \A i \in 1 .. n : InOnePose(Row(ApplyCameraMotion(aged, motion), i), position + motion)
    BY <1>3, <1>4, <1>5, MovedPose
  <1> QED BY <1>2, <1>6 DEF aged

LEMMA SamePose ==
    ASSUME NEW m \in Trackers, PoseInv(m),
           /\ algorithm'[m] = algorithm[m] /\ estimator'[m] = estimator[m]
           /\ pose'[m] = pose[m] /\ measured'[m] = measured[m] /\ reference'[m] = reference[m]
           /\ pool'[m] = pool[m] /\ (answer'[m].ok => answer[m].ok)
    PROVE  PoseInv(m)'
  <1>1. Rows(m)' = Rows(m) /\ Flows(m)' = Flows(m)
    BY DEF Rows, RowsOf, Flows
  <1>2. /\ algorithm'[m] # "botsort" => pose'[m] = 0 /\ measured'[m]
        /\ algorithm'[m] = "botsort" => estimator'[m] \in {"external", "strict", "sparse_flow"}
    BY DEF PoseInv
  <1>3. ASSUME Flows(m)', measured'[m]
        PROVE  /\ Rows(m)' # {} => reference'[m] # None
               /\ reference'[m] # None =>
                    /\ \A i \in Rows(m)' : InOnePose(Row(pool'[m], i), reference'[m].pose)
                    /\ answer'[m].ok => reference'[m].pose = pose'[m]
    BY <1>1, <1>3 DEF PoseInv
  <1>4. ASSUME ~Flows(m)', measured'[m]
        PROVE  \A i \in Rows(m)' : InOnePose(Row(pool'[m], i), pose'[m])
    BY <1>1, <1>4 DEF PoseInv
  <1> QED BY <1>2, <1>3, <1>4 DEF PoseInv

(* What a frame met in one pose leaves, of a tracker with an estimator.      *)
LEMMA MovedPoseInv ==
    ASSUME NEW k \in Trackers, IInv, PoseInv(k), NEW tag, NEW given, NEW leftovers,
           NEW telemetry, NEW motion, NEW found,
           MovedFrame(k, tag, given, leftovers, telemetry, motion, found)
    PROVE  PoseInv(k)'
  <1> DEFINE affine == Pushed(k, telemetry)
             now == pose[k] + motion
             shift == Estimate(k, affine, now, found)
             opened == ApplyCameraMotion(Predict(pool[k]), shift)
  <1>0. TypeOK /\ PoolInv(k)
    BY DEF IInv
  <1>1. /\ algorithm[k] = "botsort" /\ telemetry \in Telemetry(k) /\ motion \in Motions(telemetry)
        /\ AFrame(k, tag, opened, given, leftovers, now)
        /\ Estimated(k, telemetry, affine, now, found)
    BY DEF MovedFrame
  <1>2. now \in Int /\ shift \in Int /\ motion \in Int
    BY <1>0, <1>1, MotionsAreInts
  <1>3. /\ algorithm' = algorithm /\ estimator' = estimator
        /\ reference'[k] = [pose |-> now] /\ pose'[k] = now
        /\ measured'[k] = (measured[k] /\ Told(k, telemetry, found))
    <2>1. /\ reference' = [reference EXCEPT ![k] = [pose |-> now]]
          /\ pose' = [pose EXCEPT ![k] = now]
          /\ measured' = [measured EXCEPT ![k] = @ /\ Told(k, telemetry, found)]
      BY <1>1 DEF Estimated
    <2>2. algorithm' = algorithm /\ estimator' = estimator
      BY <1>1 DEF AFrame
    <2> HIDE DEF now
    <2> QED BY <1>0, <2>1, <2>2 DEF TypeOK
  <1>4. [pose |-> now] # None
    <2>1. [pose |-> now] \in [pose : Int]
      BY <1>2
    <2> QED BY <2>1, SilenceAssumption
  <1>5. ASSUME \A i \in Rows(k) : InOnePose(Row(opened, i), now)
        PROVE  \A i \in Rows(k)' : InOnePose(Row(pool'[k], i), now)
    <2>1. PICK before, here : before = opened /\ here = now
      OBVIOUS
    <2> HIDE DEF opened, now
    <2>2. /\ AFrame(k, tag, before, given, leftovers, here)
          /\ \A i \in Rows(k) : InOnePose(Row(before, i), here)
      BY <1>1, <1>5, <2>1
    <2>3. \A i \in Rows(k)' : InOnePose(Row(pool'[k], i), here)
      BY <2>2, FramePose
    <2> QED BY <2>1, <2>3
  <1>6. CASE Flows(k)
    <2>1. ASSUME measured'[k], NEW i \in Rows(k) PROVE InOnePose(Row(opened, i), now)
      <3>0. measured[k] /\ found
        BY <1>3, <1>6, <2>1 DEF Told, Flows
      <3>1. /\ reference[k] # None
            /\ \A j \in Rows(k) : InOnePose(Row(pool[k], j), reference[k].pose)
        BY <1>6, <2>1, <3>0 DEF PoseInv
      <3>2. shift = now - reference[k].pose
        BY <1>6, <3>0, <3>1 DEF Estimate, Flows
      <3>3. reference[k].pose \in Int
        BY <1>0, <3>1 DEF TypeOK
      <3> HIDE DEF shift, now
      <3>4. InOnePose(Row(opened, i), reference[k].pose + shift)
        BY <1>0, <1>2, <3>1, <3>3, ShiftedPose
      <3>5. reference[k].pose + shift = now
        BY <1>2, <3>2, <3>3
      <3> HIDE DEF opened
      <3> QED BY <3>4, <3>5
    <2> HIDE DEF now, opened, shift
    <2>2. Flows(k)'
      BY <1>3, <1>6 DEF Flows
    <2>3. measured'[k] => \A i \in Rows(k)' : InOnePose(Row(pool'[k], i), now)
      BY <1>5, <2>1
    <2>4. reference'[k].pose = now /\ reference'[k] # None /\ pose'[k] = now
      BY <1>3, <1>4
    <2>5. algorithm'[k] = "botsort" /\ estimator'[k] = "sparse_flow"
      BY <1>3, <1>6 DEF Flows
    <2> QED BY <2>2, <2>3, <2>4, <2>5 DEF PoseInv
  <1>7. CASE ~Flows(k)
    <2>1. ASSUME measured'[k], NEW i \in Rows(k) PROVE InOnePose(Row(opened, i), now)
      <3>0. estimator[k] # "sparse_flow"
        BY <1>1, <1>7 DEF Flows
      <3>1. measured[k] /\ telemetry # None
        BY <1>3, <2>1, <3>0 DEF Told
      <3>2. \A j \in Rows(k) : InOnePose(Row(pool[k], j), pose[k])
        BY <1>7, <3>1 DEF PoseInv
      <3>3. telemetry \in Int
        <4>1. 0 .. MaxMotion \subseteq Int
          BY EstimatorAssumption
        <4> QED BY <1>1, <3>1, <4>1 DEF Telemetry
      <3>4. affine = [motion |-> telemetry, stale |-> FALSE]
        BY <3>1 DEF Pushed
      <3>5. affine # None /\ affine.motion = telemetry
        <4>1. [motion |-> telemetry, stale |-> FALSE] \in [motion : Int, stale : BOOLEAN]
          BY <3>3
        <4>2. [motion |-> telemetry, stale |-> FALSE] # None
          BY <4>1, SilenceAssumption
        <4>3. [motion |-> telemetry, stale |-> FALSE].motion = telemetry
          OBVIOUS
        <4> HIDE DEF affine
        <4> QED BY <3>4, <4>2, <4>3
      <3> HIDE DEF affine
      <3>6. shift = telemetry /\ motion = telemetry
        BY <1>1, <3>0, <3>1, <3>5 DEF Estimate, Motions
      <3>7. pose[k] \in Int
        BY <1>0 DEF TypeOK
      <3> HIDE DEF shift
      <3>8. InOnePose(Row(opened, i), pose[k] + shift)
        BY <1>0, <1>2, <3>2, <3>7, ShiftedPose
      <3>9. pose[k] + shift = now
        BY <3>6
      <3> HIDE DEF opened, now
      <3> QED BY <3>8, <3>9
    <2> HIDE DEF now, opened, shift
    <2>2. ~Flows(k)' /\ algorithm'[k] = "botsort" /\ estimator'[k] = estimator[k]
      BY <1>1, <1>3, <1>7 DEF Flows
    <2>3. estimator[k] \in {"external", "strict", "sparse_flow"}
      BY <1>1 DEF PoseInv
    <2>4. measured'[k] => \A i \in Rows(k)' : InOnePose(Row(pool'[k], i), pose'[k])
      BY <1>3, <1>5, <2>1
    <2> QED BY <2>2, <2>3, <2>4 DEF PoseInv
  <1> QED BY <1>6, <1>7

LEMMA PlainPoseInv ==
    ASSUME NEW k \in Trackers, IInv, PoseInv(k), NEW tag, NEW given, NEW leftovers,
           PlainFrame(k, tag, given, leftovers)
    PROVE  PoseInv(k)'
  <1>0. TypeOK /\ PoolInv(k)
    BY DEF IInv
  <1>1. /\ algorithm[k] # "botsort" /\ AFrame(k, tag, Predict(pool[k]), given, leftovers, 0)
        /\ UNCHANGED cmcVars
    BY DEF PlainFrame
  <1>2. /\ algorithm'[k] = algorithm[k] /\ pose'[k] = pose[k] /\ measured'[k] = measured[k]
    BY <1>1 DEF AFrame, cmcVars
  <1>3. pose[k] = 0 /\ measured[k] /\ ~Flows(k)
    BY <1>1 DEF PoseInv, Flows
  <1>4. \A i \in Rows(k) : InOnePose(Row(pool[k], i), 0)
    BY <1>3 DEF PoseInv
  <1>5. \A i \in Rows(k) : InOnePose(Row(Predict(pool[k]), i), 0)
    BY <1>0, <1>4, PredictedPose
  <1>6. \A i \in Rows(k)' : InOnePose(Row(pool'[k], i), 0)
    <2>1. PICK opened : opened = Predict(pool[k])
      OBVIOUS
    <2>2. /\ AFrame(k, tag, opened, given, leftovers, 0)
          /\ \A i \in Rows(k) : InOnePose(Row(opened, i), 0)
      BY <1>1, <1>5, <2>1
    <2> QED BY <2>2, FramePose
  <1>7. ~Flows(k)'
    BY <1>1, <1>2 DEF Flows
  <1> QED BY <1>1, <1>2, <1>3, <1>6, <1>7 DEF PoseInv

(* A frame the estimator raised for.                                         *)
LEMMA FailedPoseInv ==
    ASSUME NEW k \in Trackers, IInv, PoseInv(k), Failure(k)
    PROVE  PoseInv(k)'
  <1>0. TypeOK /\ PoolInv(k)
    BY DEF IInv
  <1>1. PICK tag \in Accepted(k), telemetry \in Telemetry(k) : \E motion \in Motions(telemetry) :
            EstimateRaised(k, telemetry, motion) /\ Abandon(k, tag, Predict(pool[k]))
    BY DEF Failure, BotSortRaise
  <1>2. PICK motion \in Motions(telemetry) :
            EstimateRaised(k, telemetry, motion) /\ Abandon(k, tag, Predict(pool[k]))
    BY <1>1
  <1>3. /\ algorithm' = algorithm /\ estimator' = estimator
        /\ pool' = [pool EXCEPT ![k] = Predict(pool[k])]
        /\ answer' = [answer EXCEPT ![k] = Raised]
        /\ measured' = [measured EXCEPT ![k] = @ /\ Told(k, telemetry, reference' = reference)]
        /\ MayRaise(k, Pushed(k, telemetry)) /\ algorithm[k] = "botsort"
    BY <1>2 DEF Failure, EstimateRaised, Abandon
  <1>4. /\ pool'[k] = Predict(pool[k]) /\ answer'[k].ok = FALSE
        /\ measured'[k] = (measured[k] /\ Told(k, telemetry, reference' = reference))
    BY <1>0, <1>3 DEF TypeOK, Raised
  <1>5. Rows(k)' = Rows(k)
    <2>1. PICK n \in Nat : pool[k] \in Pools(n)
      BY <1>0 DEF PoolInv
    <2>2. Predict(pool[k]) \in Pools(n)
      BY <2>1, PredictRows
    <2> QED BY <1>4, <2>1, <2>2 DEF Rows, RowsOf, Pools
  <1>6. CASE Flows(k)
    <2>1. Flows(k)'
      BY <1>3, <1>6 DEF Flows
    <2>2. measured'[k] => measured[k] /\ reference' = reference
      BY <1>4, <1>6 DEF Told, Flows
    <2>3. measured'[k] /\ Rows(k)' # {} => reference'[k] # None
      BY <1>5, <1>6, <2>2 DEF PoseInv
    <2>4. ASSUME measured'[k], reference'[k] # None
          PROVE  \A i \in Rows(k)' : InOnePose(Row(pool'[k], i), reference'[k].pose)
      <3>1. \A i \in Rows(k) : InOnePose(Row(pool[k], i), reference[k].pose)
        BY <1>6, <2>2, <2>4 DEF PoseInv
      <3>2. \A i \in Rows(k) : InOnePose(Row(Predict(pool[k]), i), reference[k].pose)
        BY <1>0, <3>1, PredictedPose
      <3> QED BY <1>4, <1>5, <2>2, <2>4, <3>2
    <2>5. algorithm'[k] = "botsort" /\ estimator'[k] = "sparse_flow"
      BY <1>3, <1>6 DEF Flows
    <2> QED BY <1>4, <2>1, <2>3, <2>4, <2>5 DEF PoseInv
  <1>7. CASE ~Flows(k)
    <2>1. estimator[k] # "sparse_flow"
      BY <1>3, <1>7 DEF Flows
    <2>2. Pushed(k, telemetry) = None
      BY <1>3, <2>1 DEF MayRaise
    <2>3. telemetry = None
      <3>1. SUFFICES ASSUME telemetry # None PROVE FALSE
        OBVIOUS
      <3>2. telemetry \in Int
        <4>1. 0 .. MaxMotion \subseteq Int
          BY EstimatorAssumption
        <4> QED BY <3>1, <4>1 DEF Telemetry
      <3>3. [motion |-> telemetry, stale |-> FALSE] \in [motion : Int, stale : BOOLEAN]
        BY <3>2
      <3> QED BY <2>2, <3>1, <3>3, SilenceAssumption DEF Pushed
    <2>4. ~measured'[k]
      BY <1>4, <2>1, <2>3 DEF Told
    <2>5. ~Flows(k)' /\ algorithm'[k] = "botsort" /\ estimator'[k] = estimator[k]
      BY <1>3, <1>7 DEF Flows
    <2>6. estimator[k] \in {"external", "strict", "sparse_flow"}
      BY <1>3 DEF PoseInv
    <2> QED BY <2>4, <2>5, <2>6 DEF PoseInv
  <1> QED BY <1>6, <1>7

(* A refused frame, and a reset.                                             *)
LEMMA QuietPoseInv ==
    ASSUME NEW k \in Trackers, IInv, PoseInv(k), Quiet(k)
    PROVE  PoseInv(k)'
  <1>1. /\ algorithm' = algorithm /\ pool' = pool /\ answer' = [answer EXCEPT ![k] = Raised]
    BY DEF Quiet, Refuse
  <1>2. answer'[k].ok = FALSE
    BY <1>1 DEF IInv, TypeOK, Raised
  <1>3. UNCHANGED <<estimator, reference, pose, measured>>
    BY DEF Quiet, cmcVars, PushedInVain
  <1> QED BY <1>1, <1>2, <1>3, SamePose

LEMMA RestartPoseInv ==
    ASSUME NEW k \in Trackers, IInv, PoseInv(k), Restart(k)
    PROVE  PoseInv(k)'
  <1>0. TypeOK
    BY DEF IInv
  <1>1. Reset(k) /\ algorithm' = algorithm /\ Rows(k)' = {}
    BY ResetPools DEF Restart
  <1>2. CASE algorithm[k] # "botsort" /\ UNCHANGED cmcVars
    <2>1. /\ pose' = pose /\ measured' = measured /\ estimator' = estimator
      BY <1>2 DEF cmcVars
    <2>2. ~Flows(k)'
      BY <1>1, <1>2 DEF Flows
    <2> QED BY <1>1, <1>2, <2>1, <2>2 DEF PoseInv
  <1>3. CASE algorithm[k] = "botsort" /\ CmcReset(k)
    <2>1. /\ reference' = [reference EXCEPT ![k] = None] /\ estimator' = estimator
      BY <1>3 DEF CmcReset
    <2>2. reference'[k] = None
      BY <1>0, <2>1 DEF TypeOK
    <2>3. estimator'[k] \in {"external", "strict", "sparse_flow"}
      BY <1>3, <2>1 DEF PoseInv
    <2>4. algorithm'[k] = "botsort"
      BY <1>1, <1>3
    <2> QED BY <1>1, <2>2, <2>3, <2>4 DEF PoseInv
  <1> QED BY <1>2, <1>3 DEF Restart

(* The other trackers.                                                       *)
LEMMA OthersPoseInv ==
    ASSUME NEW k \in Trackers, IInv, NEW m \in Trackers, m # k, PoseInv(m),
           \/ \E tag, given, leftovers : PlainFrame(k, tag, given, leftovers)
           \/ \E tag, given, leftovers, telemetry, motion, found :
                MovedFrame(k, tag, given, leftovers, telemetry, motion, found)
           \/ Failure(k) \/ Quiet(k) \/ Restart(k)
    PROVE  PoseInv(m)'
  <1>0. TypeOK /\ PoolInv(k)
    BY DEF IInv
  <1> DEFINE Untouched == /\ algorithm'[m] = algorithm[m] /\ estimator'[m] = estimator[m]
                          /\ pose'[m] = pose[m] /\ measured'[m] = measured[m]
                          /\ reference'[m] = reference[m] /\ pool'[m] = pool[m]
                          /\ answer'[m] = answer[m]
  <1>1. ASSUME NEW tag, NEW given, NEW leftovers, PlainFrame(k, tag, given, leftovers)
        PROVE  Untouched
    <2>1. \E opened : AFrame(k, tag, opened, given, leftovers, 0)
      BY <1>1 DEF PlainFrame
    <2>2. UNCHANGED <<pose, measured, reference>>
      BY <1>1 DEF PlainFrame, cmcVars
    <2> QED BY <1>0, <2>1, <2>2, FrameType
  <1>2. ASSUME NEW tag, NEW given, NEW leftovers, NEW telemetry,
               NEW motion, NEW found,
               MovedFrame(k, tag, given, leftovers, telemetry, motion, found)
        PROVE  Untouched
    <2>1. \E opened, now : AFrame(k, tag, opened, given, leftovers, now)
      BY <1>2 DEF MovedFrame
    <2>2. \E new, last, told : /\ reference' = [reference EXCEPT ![k] = new]
                               /\ pose' = [pose EXCEPT ![k] = last]
                               /\ measured' = [measured EXCEPT ![k] = told]
      BY <1>2 DEF MovedFrame, Estimated
    <2>3. reference'[m] = reference[m] /\ pose'[m] = pose[m] /\ measured'[m] = measured[m]
      BY <1>0, <2>2 DEF TypeOK
    <2> QED BY <1>0, <2>1, <2>3, FrameType
  <1>3. ASSUME Failure(k) PROVE Untouched
    <2>1. PICK tag, telemetry, motion :
            EstimateRaised(k, telemetry, motion) /\ Abandon(k, tag, Predict(pool[k]))
      BY <1>3 DEF Failure, BotSortRaise
    <2>2. /\ pose' = [pose EXCEPT ![k] = @ + motion]
          /\ \E told : measured' = [measured EXCEPT ![k] = told]
          /\ \E new : reference' = [reference EXCEPT ![k] = new]
          /\ pool' = [pool EXCEPT ![k] = Predict(pool[k])]
          /\ answer' = [answer EXCEPT ![k] = Raised]
      <3>1. reference' = reference => reference' = [reference EXCEPT ![k] = reference[k]]
        BY <1>0 DEF TypeOK
      <3> QED BY <2>1, <3>1 DEF EstimateRaised, Abandon
    <2>3. estimator' = estimator /\ algorithm' = algorithm
      BY <1>3, <2>1 DEF EstimateRaised, Failure
    <2>4. /\ pose'[m] = pose[m] /\ measured'[m] = measured[m] /\ pool'[m] = pool[m]
          /\ answer'[m] = answer[m] /\ reference'[m] = reference[m]
      BY <1>0, <2>2 DEF TypeOK
    <2> QED BY <2>3, <2>4
  <1>4. ASSUME Quiet(k) PROVE Untouched
    <2>1. /\ pool' = pool /\ algorithm' = algorithm /\ answer' = [answer EXCEPT ![k] = Raised]
      BY <1>4 DEF Quiet, Refuse
    <2>2. UNCHANGED <<estimator, reference, pose, measured>>
      BY <1>4 DEF Quiet, cmcVars, PushedInVain
    <2>3. answer'[m] = answer[m]
      BY <1>0, <2>1 DEF TypeOK
    <2> QED BY <2>1, <2>2, <2>3
  <1>5. ASSUME Restart(k) PROVE Untouched
    <2>1. /\ algorithm' = algorithm /\ answer' = answer
          /\ \E new : pool' = [pool EXCEPT ![k] = new]
      BY <1>5 DEF Restart, Reset
    <2>2. /\ estimator' = estimator
          /\ pose'[m] = pose[m] /\ measured'[m] = measured[m] /\ reference'[m] = reference[m]
      <3>1. CASE UNCHANGED cmcVars
        BY <3>1 DEF cmcVars
      <3>2. CASE CmcReset(k)
        BY <1>0, <3>2 DEF CmcReset, TypeOK
      <3> QED BY <1>5, <3>1, <3>2 DEF Restart
    <2> QED BY <1>0, <2>1, <2>2 DEF TypeOK
  <1>6. Untouched
    <2> HIDE DEF Untouched
    <2> QED BY <1>1, <1>2, <1>3, <1>4, <1>5
  <1> QED BY <1>6, SamePose

PosesInv == IInv /\ \A k \in Trackers : PoseInv(k)

LEMMA InitPosesInv == Init => PosesInv
  <1> SUFFICES ASSUME Init PROVE PosesInv
    OBVIOUS
  <1>1. IInv
    BY InitIInv
  <1>2. ASSUME NEW k \in Trackers PROVE PoseInv(k)
    <2>1. /\ estimator[k] \in Estimators \cup {None}
          /\ estimator[k] = None <=> algorithm[k] # "botsort"
          /\ pool[k] = NewPool(algorithm[k]) /\ reference[k] = None
          /\ pose[k] = 0 /\ measured[k] = TRUE
      BY DEF Init, BaseInit, CmcInit
    <2>2. algorithm[k] = "botsort" => estimator[k] \in {"external", "strict", "sparse_flow"}
      BY <2>1, EstimatorAssumption
    <2>3. Rows(k) = {}
      <3>1. algorithm[k] \in {"sort", "bytetrack", "botsort", "ocsort", "deepsortv2"}
        BY <1>1, AlgorithmAssumption DEF IInv, TypeOK
      <3>2. \E history, reUpdate : pool[k] = EmptyPool(history, reUpdate)
        BY <2>1, <3>1
           DEF NewPool, SortPool, ByteTrackPool, BotSortPool, OcSortPool, DeepSortV2Pool
      <3>3. DOMAIN <<>> = {}
        OBVIOUS
      <3> QED BY <3>2, <3>3 DEF Rows, RowsOf, EmptyPool
    <2> QED BY <2>1, <2>2, <2>3 DEF PoseInv
  <1> QED BY <1>1, <1>2 DEF PosesInv

LEMMA StepPosesInv == PosesInv /\ [Next]_vars => PosesInv'
  <1> SUFFICES ASSUME PosesInv, [Next]_vars PROVE PosesInv'
    OBVIOUS
  <1>0. IInv /\ IInv' /\ \A k \in Trackers : PoseInv(k)
    BY StepIInv DEF PosesInv
  <1> SUFFICES ASSUME NEW m \in Trackers PROVE PoseInv(m)'
    BY <1>0 DEF PosesInv
  <1>1. ASSUME NEW k \in Trackers, NEW tag, NEW given, NEW leftovers,
               PlainFrame(k, tag, given, leftovers)
        PROVE  PoseInv(m)'
    BY <1>0, <1>1, PlainPoseInv, OthersPoseInv
  <1>2. ASSUME NEW k \in Trackers, NEW tag, NEW given, NEW leftovers, NEW telemetry,
               NEW motion, NEW found,
               MovedFrame(k, tag, given, leftovers, telemetry, motion, found)
        PROVE  PoseInv(m)'
    BY <1>0, <1>2, MovedPoseInv, OthersPoseInv
  <1>3. ASSUME NEW k \in Trackers, Failure(k) PROVE PoseInv(m)'
    BY <1>0, <1>3, FailedPoseInv, OthersPoseInv
  <1>4. ASSUME NEW k \in Trackers, Quiet(k) PROVE PoseInv(m)'
    BY <1>0, <1>4, QuietPoseInv, OthersPoseInv
  <1>5. ASSUME NEW k \in Trackers, Restart(k) PROVE PoseInv(m)'
    BY <1>0, <1>5, RestartPoseInv, OthersPoseInv
  <1>6. CASE UNCHANGED vars
    <2>1. UNCHANGED <<algorithm, pool, answer, estimator, pose, measured, reference>>
      BY <1>6 DEF vars, baseVars, cmcVars
    <2> QED BY <1>0, <2>1, SamePose
  <1> QED BY <1>0, <1>1, <1>2, <1>3, <1>4, <1>5, <1>6, StepCases

(* pool.py apply_camera_motion, cmc: whatever was pushed, missed, or raised  *)
(* for, what the pool remembers is in the frame's own coordinates as long as *)
(* the motion came with every frame, or was found in every image.            *)
THEOREM OneReferenceHolds == Spec => []OneReference
  <1>1. PosesInv => OneReference
    <2> SUFFICES ASSUME PosesInv, NEW k \in Trackers, answer[k].ok, measured[k], NEW i \in Rows(k)
                 PROVE  /\ pool[k].means[i].pose = pose[k]
                        /\ pool[k].observedMeans[i].pose = pose[k]
                        /\ pool[k].observed[i].pose = pose[k]
                        /\ \A entry \in Range(pool[k].observations[i]) :
                              entry.measured.pose = pose[k]
      BY DEF OneReference
    <2>1. PoseInv(k)
      BY DEF PosesInv
    <2>2. InOnePose(Row(pool[k], i), pose[k])
      <3>1. CASE Flows(k)
        <4>1. reference[k] # None
          BY <2>1, <3>1 DEF PoseInv
        <4> QED BY <2>1, <3>1, <4>1 DEF PoseInv
      <3>2. CASE ~Flows(k)
        BY <2>1, <3>2 DEF PoseInv
      <3> QED BY <3>1, <3>2
    <2>3. \A j \in DOMAIN pool[k].observations[i] :
            pool[k].observations[i][j].measured.pose = pose[k]
      BY <2>2 DEF InOnePose, Row
    <2> QED BY <2>2, <2>3 DEF InOnePose, Row, Range
  <1> QED BY <1>1, InitPosesInv, StepPosesInv, PTL DEF Spec

--------------------------------------------------------------------------------
(* Ages: OC-SORT's ring tells on which of the track's frames an observation  *)
(* was made.                                                                 *)

LEMMA BornAges ==
    ASSUME NEW id, NEW det \in Detections, NEW position \in Int, NEW done \in Nat
    PROVE  AgesTold(BornRow(id, det, position), <<[frame |-> done, det |-> det]>>, done)
  <1> DEFINE seen == <<[frame |-> done, det |-> det]>>
             row == BornRow(id, det, position)
  <1>1. /\ Len(seen) = 1 /\ seen[1].frame = done /\ Len(row.ring) = 1 /\ row.ring[1].age = 1
    BY DEF BornRow
  <1>2. row.track.age = 1
    <2>1. row.track = Newborn(id)
      BY DEF BornRow
    <2>2. Newborn(id).age = 1
      BY DEF Newborn, Promoted
    <2> QED BY <2>1, <2>2
  <1> HIDE DEF seen, row
  <1>3. \A j \in 1 .. Len(row.ring) : j = 1 /\ Len(seen) - Len(row.ring) + j = 1
    BY <1>1
  <1>4. done - done + 1 = 1
    OBVIOUS
  <1>5. AgesTold(row, seen, done)
    BY <1>1, <1>2, <1>3, <1>4 DEF AgesTold
  <1> QED BY <1>5 DEF row, seen

LEMMA MissedAges ==
    ASSUME NEW old \in RowRecords, NEW r, Advanced(r, old), NEW seen \in Seq(Sightings), seen # <<>>,
           NEW done \in Nat, AgesTold(old, seen, done)
    PROVE  AgesTold(r, seen, done + 1) /\ AgesTold(MissedRow(r), seen, done + 1)
  <1>1. /\ r.track.age = old.track.age + 1 /\ r.track \in TrackRecords
        /\ Missed(r.track).age = r.track.age
    <2>1. /\ r.track = [old.track EXCEPT !.age = @ + 1] /\ r \in RowRecords
          /\ old.track \in TrackRecords
      BY DEF Advanced, RowRecords
    <2>2. r.track \in TrackRecords /\ r.track.age = old.track.age + 1
      BY <2>1 DEF RowRecords, TrackRecords
    <2> QED BY <2>2, MissedTrack
  <1>2. seen[1].frame \in Nat
    BY SeenTyped
  <1>3. r.track.age = (done + 1) - seen[1].frame + 1
    <2>1. old.track.age = done - seen[1].frame + 1
      BY DEF AgesTold
    <2>2. ASSUME NEW birth \in Nat PROVE (done - birth + 1) + 1 = (done + 1) - birth + 1
      BY ONLY <2>2, done \in Nat
    <2> QED BY ONLY <1>1, <1>2, <2>1, <2>2
  <1>4. /\ Len(r.ring) = Len(old.ring)
        /\ \A j \in 1 .. Len(old.ring) : r.ring[j].age = old.ring[j].age
    BY DEF Advanced
  <1>5. \A j \in 1 .. Len(r.ring) :
          r.ring[j].age = seen[Len(seen) - Len(r.ring) + j].frame - seen[1].frame + 1
    BY <1>4 DEF AgesTold
  <1> QED BY <1>1, <1>3, <1>5 DEF AgesTold, MissedRow

LEMMA HitAges ==
    ASSUME NEW r \in RowRecords, NEW history \in Nat, NEW reUpdate \in BOOLEAN,
           NEW det \in Detections, NEW position \in Int,
           NEW seen \in Seq(Sightings), seen # <<>>, NEW done \in Nat,
           Aligned(r, seen, history), AgesTold(r, seen, done)
    PROVE  AgesTold(HitRow(r, history, reUpdate, det, position), Seeing(seen, done, det), done)
  <1> DEFINE row == HitRow(r, history, reUpdate, det, position)
             now == Seeing(seen, done, det)
             entry == EntryOf(r, det, position)
             L == Len(seen)
             N == Len(r.ring)
             most == RingLength(history)
             M == IF N < most THEN N + 1 ELSE most
             birth == seen[1].frame
  <1>0. L \in Nat /\ L >= 1 /\ birth \in Nat
    BY SeenTyped
  <1>1. /\ now \in Seq(Sightings) /\ Len(now) = L + 1 /\ now[L + 1].frame = done
        /\ \A j \in 1 .. L : now[j] = seen[j]
    <2>1. SeesOneMore(Seeing(seen, done, det), seen, done, det)
      BY SeeingFacts
    <2> QED BY <2>1 DEF SeesOneMore
  <1>2. /\ row.track = Matched(r.track)
        /\ row.ring = Remember(history, r.ring, entry) /\ entry \in Entries
    <2> HIDE DEF row, entry
    <2>1. IsHit(row, r, history, reUpdate, det, position)
      BY ONLY HitFields, r \in RowRecords, history \in Nat, reUpdate \in BOOLEAN,
              det \in Detections, position \in Int DEF row
    <2> QED BY ONLY <2>1 DEF IsHit, entry
  <1>3. most \in Nat /\ most >= 1 /\ r.ring \in Seq(Entries)
    BY RingPositive DEF RowRecords
  <1>4. N = (IF L < most THEN L ELSE most) /\ N \in Nat /\ N <= most
    BY <1>0, <1>3 DEF Aligned
  <1>5. entry.age = r.track.age /\ r.track.age = done - birth + 1 /\ row.track.age = r.track.age
    <2>1. r.track \in TrackRecords
      BY DEF RowRecords
    <2> QED BY <1>2, <2>1, MatchedTrack DEF EntryOf, AgesTold
  <1>6. \A j \in 1 .. N : r.ring[j].age = seen[L - N + j].frame - birth + 1
    BY DEF AgesTold
  <1>7. now[1].frame = birth
    BY <1>0, <1>1
  <1> HIDE DEF row, now, entry, L, N, most, birth
  <1>8. /\ Len(row.ring) = M /\ row.ring[M] = entry
        /\ \A j \in 1 .. M - 1 : row.ring[j] = r.ring[N + 1 - M + j]
    <2>1. LET new == Remember(history, r.ring, entry)
              length == IF Len(r.ring) < RingLength(history) THEN Len(r.ring) + 1
                                                             ELSE RingLength(history)
          IN /\ new \in Seq(Entries) /\ Len(new) = length
             /\ new[length] = entry
             /\ \A j \in 1 .. length - 1 : new[j] = r.ring[Len(r.ring) + 1 - length + j]
      BY <1>2, <1>3, <1>4, Remembered DEF N, most
    <2> QED BY <1>2, <2>1 DEF N, most
  <1>9. M \in Nat /\ M >= 1 /\ M <= N + 1 /\ (M = IF L + 1 < most THEN L + 1 ELSE most)
    BY <1>0, <1>3, <1>4
  <1> HIDE DEF M
  <1>10. ASSUME NEW j \in 1 .. M
         PROVE  row.ring[j].age = now[L + 1 - M + j].frame - birth + 1
    <2>1. CASE j = M
      <3>1. L + 1 - M + j = L + 1
        BY <1>0, <1>9, <2>1
      <3> QED BY <1>1, <1>5, <1>8, <2>1, <3>1
    <2>2. CASE j # M
      <3>1. j \in 1 .. M - 1 /\ N + 1 - M + j \in 1 .. N
        <4>1. N \in Nat /\ M \in Nat /\ j \in Nat /\ j >= 1 /\ j <= M - 1 /\ M <= N + 1
          BY <1>4, <1>9, <2>2
        <4>2. N + 1 - M + j >= 1 /\ N + 1 - M + j <= N /\ N + 1 - M + j \in Int
          BY ONLY <4>1
        <4> QED BY ONLY <4>1, <4>2
      <3>2. row.ring[j].age = seen[L - N + (N + 1 - M + j)].frame - birth + 1
        <4> DEFINE x == N + 1 - M + j
        <4>1. x \in 1 .. N /\ row.ring[j] = r.ring[x]
          BY <1>8, <3>1
        <4> HIDE DEF x
        <4>2. row.ring[j].age = seen[L - N + x].frame - birth + 1
          BY <1>6, <4>1
        <4> QED BY <4>2 DEF x
      <3>3. L - N + (N + 1 - M + j) = L + 1 - M + j /\ L + 1 - M + j \in 1 .. L
        BY <1>0, <1>3, <1>4, <1>9, <2>2
      <3> QED BY <1>1, <3>2, <3>3
    <2> QED BY <2>1, <2>2
  <1>11. \A j \in 1 .. Len(row.ring) :
            row.ring[j].age = now[Len(now) - Len(row.ring) + j].frame - now[1].frame + 1
    <2>1. \A j \in 1 .. M : Len(now) - M + j = L + 1 - M + j
      <3>1. Len(now) = L + 1 /\ L \in Int /\ M \in Int
        BY <1>0, <1>1, <1>9
      <3> QED BY ONLY <3>1
    <2> QED BY <1>7, <1>8, <1>10, <2>1
  <1>12. row.track.age = done - now[1].frame + 1
    BY <1>5, <1>7
  <1>13. AgesTold(row, now, done)
    BY <1>11, <1>12 DEF AgesTold
  <1> QED BY <1>13 DEF row, now

LEMMA BecameAges ==
    ASSUME NEW k \in Trackers, TypeOK, PoolInv(k), NEW n \in Nat, pool[k] \in Pools(n),
           NEW opened, IsOpened(opened, pool[k]), NEW position \in Int,
           NEW tag, NEW given, NEW leftovers,
           IsFrame(k, tag, opened, given, leftovers, position),
           \A i \in 1 .. n : AgesTold(Row(pool[k], i), Seen(pool[k].tracks[i]), completed[k]),
           NEW x, NEW new, NEW seen,
           Became(k, opened, given, leftovers, position, n, x, new, seen)
    PROVE  AgesTold(new, seen, completed[k] + 1)
  <1>0. completed[k] \in Nat /\ completed[k] + 1 \in Nat
    BY DEF TypeOK
  <1>1. CASE /\ x \in (n + 1) .. (n + Len(leftovers))
             /\ new = BornRow(issued + (x - n), leftovers[x - n], position)
             /\ seen = <<[frame |-> completed[k] + 1, det |-> leftovers[x - n]]>>
    <2>0. Len(leftovers) \in Nat
      BY DEF IsFrame
    <2>1. x - n \in 1 .. Len(leftovers)
      BY <1>1, <2>0
    <2>2. leftovers[x - n] \in Detections
      BY <2>1 DEF IsFrame
    <2> QED BY <1>0, <1>1, <2>2, BornAges
  <1>2. ASSUME x \in 1 .. n
        PROVE  /\ Row(pool[k], x) \in RowRecords /\ Advanced(Row(opened, x), Row(pool[k], x))
               /\ Row(opened, x) \in RowRecords
               /\ Seen(pool[k].tracks[x]) \in Seq(Sightings) /\ Seen(pool[k].tracks[x]) # <<>>
               /\ Aligned(Row(pool[k], x), Seen(pool[k].tracks[x]), pool[k].history)
               /\ AgesTold(Row(opened, x), Seen(pool[k].tracks[x]), completed[k] + 1)
               /\ AgesTold(MissedRow(Row(opened, x)), Seen(pool[k].tracks[x]), completed[k] + 1)
    <2>1. /\ Row(pool[k], x) \in RowRecords
          /\ Seen(pool[k].tracks[x]) \in Seq(Sightings) /\ Seen(pool[k].tracks[x]) # <<>>
          /\ Aligned(Row(pool[k], x), Seen(pool[k].tracks[x]), pool[k].history)
      BY <1>2, OldRow DEF RowInv
    <2>2. Advanced(Row(opened, x), Row(pool[k], x))
      BY <1>2, OpenedRows
    <2>3. Row(opened, x) \in RowRecords
      BY <2>2 DEF Advanced
    <2>4. AgesTold(Row(pool[k], x), Seen(pool[k].tracks[x]), completed[k])
      BY <1>2
    <2> QED BY <1>0, <2>1, <2>2, <2>3, <2>4, MissedAges
  <1>3. CASE /\ x \in 1 .. n /\ x \in DOMAIN given
             /\ new = HitRow(Row(opened, x), opened.history, opened.reUpdate, given[x], position)
             /\ seen = Seeing(Seen(pool[k].tracks[x]), completed[k] + 1, given[x])
    <2> DEFINE r == Row(opened, x)
               was == Seen(pool[k].tracks[x])
               old == Row(pool[k], x)
    <2>1. /\ r \in RowRecords /\ was \in Seq(Sightings) /\ was # <<>>
          /\ AgesTold(r, was, completed[k] + 1) /\ Aligned(old, was, pool[k].history)
          /\ Advanced(r, old)
      BY <1>2, <1>3
    <2>2. opened.history \in Nat /\ opened.reUpdate \in BOOLEAN /\ opened.history = pool[k].history
      <3>1. SameBuild(opened, pool[k], n)
        BY OpenedRows
      <3> QED BY <3>1 DEF SameBuild, Pools
    <2>3. given[x] \in Detections
      BY <1>3 DEF IsFrame
    <2> HIDE DEF r, was, old
    <2>4. Aligned(r, was, opened.history)
      <3>1. SameSeen(r, old) /\ \A j \in 1 .. Len(old.ring) :
                                   r.ring[j].measured.det = old.ring[j].measured.det
        BY <2>1 DEF SameSeen, Advanced
      <3> QED BY <2>1, <2>2, <3>1, AlignedAdvanced
    <2>5. AgesTold(HitRow(r, opened.history, opened.reUpdate, given[x], position),
                   Seeing(was, completed[k] + 1, given[x]), completed[k] + 1)
      BY <1>0, <2>1, <2>2, <2>3, <2>4, HitAges
    <2> QED BY <1>3, <2>5 DEF r, was
  <1>4. CASE /\ x \in 1 .. n /\ new = MissedRow(Row(opened, x))
             /\ seen = Seen(pool[k].tracks[x])
    BY <1>2, <1>4
  <1> QED BY <1>1, <1>3, <1>4 DEF Became

LEMMA FrameAges ==
    ASSUME NEW k \in Trackers, IInv, AgeInv(k), NEW tag, NEW opened, NEW given, NEW leftovers,
           NEW position, AFrame(k, tag, opened, given, leftovers, position)
    PROVE  AgeInv(k)'
  <1>0. TypeOK /\ PoolInv(k)
    BY DEF IInv
  <1>1. PICK n \in Nat : /\ pool[k] \in Pools(n) /\ Rows(k) = 1 .. n /\ DistinctIds(pool[k], n)
                         /\ \A i \in 1 .. n : pool[k].tracks[i].id \in 1 .. issued
                         /\ issued \in Nat /\ DOMAIN pool = Trackers
    BY <1>0, BeforeFrame
  <1>2. PICK closed, views, done : closed = pool'[k] /\ views = sightings' /\ done = completed'[k]
    OBVIOUS
  <1>3. PICK c \in Nat : \E source :
            Becoming(k, opened, given, leftovers, position, n, c, source, closed, views)
    BY <1>1, <1>2, FrameBecomes DEF AFrame
  <1>4. PICK source : Becoming(k, opened, given, leftovers, position, n, c, source, closed, views)
    BY <1>3
  <1>5. done = completed[k] + 1 /\ algorithm' = algorithm
    BY <1>0, <1>2, FrameType
  <1>6. ASSUME algorithm[k] = "ocsort", NEW i \in 1 .. c
        PROVE  AgesTold(Row(closed, i), views[closed.tracks[i].id], done)
    <2>1. Became(k, opened, given, leftovers, position, n, source[i], Row(closed, i),
                 views[closed.tracks[i].id])
      BY <1>4 DEF Becoming
    <2>2. /\ \A j \in 1 .. n : AgesTold(Row(pool[k], j), Seen(pool[k].tracks[j]), completed[k])
          /\ IsOpened(opened, pool[k]) /\ position \in Int
          /\ IsFrame(k, tag, opened, given, leftovers, position)
      BY <1>1, <1>6 DEF AFrame, AgeInv
    <2> QED BY <1>0, <1>1, <1>5, <2>1, <2>2, BecameAges
  <1>7. Rows(k)' = 1 .. c
    <2>1. RowsOf(closed) = 1 .. c
      BY <1>4 DEF Becoming, RowsOf, Pools
    <2> QED BY <1>2, <2>1 DEF Rows, RowsOf
  <1>8. ASSUME algorithm'[k] = "ocsort", NEW i \in Rows(k)'
        PROVE  AgesTold(Row(pool'[k], i), sightings'[pool'[k].tracks[i].id], completed'[k])
    BY <1>2, <1>5, <1>6, <1>7, <1>8
  <1> QED BY <1>8 DEF AgeInv, Seen

(* A tracker of which the step leaves the pool, or clears it.                *)
LEMMA SameAges ==
    ASSUME NEW m \in Trackers, IInv, AgeInv(m), algorithm'[m] = algorithm[m],
           \/ Rows(m)' = {}
           \/ /\ pool'[m] = pool[m] /\ completed'[m] = completed[m]
              /\ \A i \in Rows(m) : sightings'[pool[m].tracks[i].id] = sightings[pool[m].tracks[i].id]
    PROVE  AgeInv(m)'
  <1>1. CASE Rows(m)' = {}
    BY <1>1 DEF AgeInv
  <1>2. CASE /\ pool'[m] = pool[m] /\ completed'[m] = completed[m]
             /\ \A i \in Rows(m) : sightings'[pool[m].tracks[i].id] = sightings[pool[m].tracks[i].id]
    <2>1. Rows(m)' = Rows(m)
      BY <1>2 DEF Rows, RowsOf
    <2>2. ASSUME algorithm'[m] = "ocsort", NEW i \in Rows(m)'
          PROVE  AgesTold(Row(pool'[m], i), sightings'[pool'[m].tracks[i].id], completed'[m])
      BY <1>2, <2>1, <2>2 DEF AgeInv, Seen
    <2> QED BY <2>2 DEF AgeInv, Seen
  <1> QED BY <1>1, <1>2

(* A frame of one tracker gives the tracks of another nothing.               *)
LEMMA OthersSeen ==
    ASSUME NEW k \in Trackers, IInv, NEW tag, NEW opened, NEW given, NEW leftovers,
           NEW position, AFrame(k, tag, opened, given, leftovers, position),
           NEW m \in Trackers, m # k, NEW j \in Rows(m)
    PROVE  sightings'[pool[m].tracks[j].id] = sightings[pool[m].tracks[j].id]
  <1>0. TypeOK /\ PoolInv(k) /\ PoolInv(m)
    BY DEF IInv
  <1>1. FrameEffects(k, tag, opened, given, leftovers, position)
    BY <1>0, FrameType
  <1>2. pool[m].tracks[j].id \in 1 .. issued
    BY <1>0 DEF PoolInv
  <1>3. DOMAIN given \subseteq Rows(k)
    BY DEF AFrame, IsFrame
  <1>4. \A r \in DOMAIN given : pool[k].tracks[r].id # pool[m].tracks[j].id
    BY <1>3 DEF IInv, IdsApart
  <1> QED BY <1>1, <1>2, <1>4 DEF FrameEffects

AgesInv == PosesInv /\ \A k \in Trackers : AgeInv(k)

LEMMA InitAgesInv == Init => AgesInv
  <1> SUFFICES ASSUME Init PROVE AgesInv
    OBVIOUS
  <1>1. PosesInv
    BY InitPosesInv
  <1>2. ASSUME NEW k \in Trackers PROVE Rows(k) = {}
    <2>1. lastTag[k] = None
      BY DEF Init, BaseInit
    <2> QED BY <1>1, <2>1 DEF PosesInv, IInv, PoolInv
  <1> QED BY <1>1, <1>2 DEF AgesInv, AgeInv

LEMMA StepAgesInv == AgesInv /\ [Next]_vars => AgesInv'
  <1> SUFFICES ASSUME AgesInv, [Next]_vars PROVE AgesInv'
    OBVIOUS
  <1>0. /\ PosesInv' /\ IInv /\ TypeOK
        /\ \A k \in Trackers : AgeInv(k)
    BY StepPosesInv DEF AgesInv, PosesInv, IInv
  <1> SUFFICES ASSUME NEW m \in Trackers PROVE AgeInv(m)'
    BY <1>0 DEF AgesInv
  <1>1. ASSUME NEW k \in Trackers, NEW tag, NEW opened, NEW given, NEW leftovers, NEW position,
               AFrame(k, tag, opened, given, leftovers, position)
        PROVE  AgeInv(m)'
    <2>1. CASE m = k
      BY <1>0, <1>1, <2>1, FrameAges
    <2>2. CASE m # k
      <3>1. PoolInv(k)
        BY <1>0 DEF IInv
      <3>2. pool'[m] = pool[m] /\ completed'[m] = completed[m] /\ algorithm'[m] = algorithm[m]
        BY <1>0, <1>1, <2>2, <3>1, FrameType
      <3>3. \A i \in Rows(m) : sightings'[pool[m].tracks[i].id] = sightings[pool[m].tracks[i].id]
        BY <1>0, <1>1, <2>2, OthersSeen
      <3> QED BY <1>0, <3>2, <3>3, SameAges
    <2> QED BY <2>1, <2>2
  <1>2. ASSUME NEW k \in Trackers, NEW tag, NEW given, NEW leftovers,
               PlainFrame(k, tag, given, leftovers)
        PROVE  AgeInv(m)'
    <2>1. \E opened : AFrame(k, tag, opened, given, leftovers, 0)
      BY <1>2 DEF PlainFrame
    <2> QED BY <1>1, <2>1
  <1>3. ASSUME NEW k \in Trackers, NEW tag, NEW given, NEW leftovers, NEW telemetry,
               NEW motion, NEW found,
               MovedFrame(k, tag, given, leftovers, telemetry, motion, found)
        PROVE  AgeInv(m)'
    <2>1. \E opened, now : AFrame(k, tag, opened, given, leftovers, now)
      BY <1>3 DEF MovedFrame
    <2> QED BY <1>1, <2>1
  <1>4. ASSUME NEW k \in Trackers, Failure(k) PROVE AgeInv(m)'
    <2>1. /\ algorithm[k] = "botsort" /\ algorithm' = algorithm
          /\ UNCHANGED <<completed, sightings>>
          /\ pool' = [pool EXCEPT ![k] = Predict(pool[k])]
      BY <1>4 DEF Failure, BotSortRaise, Abandon
    <2>2. CASE m = k
      BY <2>1, <2>2 DEF AgeInv
    <2>3. CASE m # k
      <3>1. pool'[m] = pool[m]
        BY <1>0, <2>1, <2>3 DEF TypeOK
      <3> QED BY <1>0, <2>1, <3>1, SameAges
    <2> QED BY <2>2, <2>3
  <1>5. ASSUME NEW k \in Trackers, Quiet(k) PROVE AgeInv(m)'
    <2>1. algorithm' = algorithm /\ UNCHANGED <<pool, completed, sightings>>
      BY <1>5 DEF Quiet, Refuse
    <2> QED BY <1>0, <2>1, SameAges
  <1>6. ASSUME NEW k \in Trackers, Restart(k) PROVE AgeInv(m)'
    <2>1. /\ algorithm' = algorithm /\ UNCHANGED <<completed, sightings>>
          /\ pool' = [pool EXCEPT ![k] = Emptied(pool[k])] /\ Reset(k)
      BY <1>6 DEF Restart, Reset
    <2>2. CASE m = k
      <3>1. Rows(m)' = {}
        BY <1>0, <2>1, <2>2, ResetPools
      <3> QED BY <1>0, <2>1, <3>1, SameAges
    <2>3. CASE m # k
      <3>1. pool'[m] = pool[m]
        BY <1>0, <2>1, <2>3 DEF TypeOK
      <3> QED BY <1>0, <2>1, <3>1, SameAges
    <2> QED BY <2>2, <2>3
  <1>7. CASE UNCHANGED vars
    <2>1. UNCHANGED <<algorithm, pool, completed, sightings>>
      BY <1>7 DEF vars, baseVars
    <2> QED BY <1>0, <2>1, SameAges
  <1> QED BY <1>0, <1>2, <1>3, <1>4, <1>5, <1>6, <1>7, StepCases

(* The ends of a set of positions.                                           *)
LEMMA Extremes ==
    ASSUME NEW n \in Nat, NEW S \in SUBSET (1 .. n), S # {}
    PROVE  /\ \E least \in S : \A o \in S : least <= o
           /\ \E greatest \in S : \A o \in S : o <= greatest
  <1> DEFINE order == InOrder(S)
             c == Cardinality(S)
  <1>1. c \in Nat /\ Increasing(order, S) /\ \A x \in S : \E i \in 1 .. c : order[i] = x
    BY InOrderRuns
  <1>2. order \in [1 .. c -> S] /\ \A i, j \in 1 .. c : i < j => order[i] < order[j]
    BY <1>1 DEF Increasing
  <1> HIDE DEF order, c
  <1>3. PICK one \in S : TRUE
    OBVIOUS
  <1>4. 1 \in 1 .. c /\ c \in 1 .. c
    <2>1. PICK i \in 1 .. c : order[i] = one
      BY <1>1, <1>3
    <2> QED BY <1>1, <2>1
  <1>5. order[1] \in S /\ order[c] \in S
    BY <1>2, <1>4
  <1>6. ASSUME NEW o \in S PROVE order[1] <= o /\ o <= order[c]
    <2>1. PICK i \in 1 .. c : order[i] = o
      BY <1>1
    <2>0. \A x \in S : x \in Int
      OBVIOUS
    <2>7. o \in Int /\ order[1] \in Int /\ order[c] \in Int
      BY <1>5, <2>0
    <2>8. i \in Nat /\ 1 <= i /\ i <= c
      BY ONLY <1>1, i \in 1 .. c
    <2>2. i \in Nat /\ 1 <= i /\ i <= c /\ o \in Int /\ order[1] \in Int /\ order[c] \in Int
      BY <2>7, <2>8
    <2>3. i = 1 \/ 1 < i
      BY <2>2
    <2>4. i = c \/ i < c
      BY <1>1, <2>2
    <2>5. order[1] <= o
      BY <1>2, <1>4, <2>1, <2>2, <2>3
    <2>6. o <= order[c]
      BY <1>2, <1>4, <2>1, <2>2, <2>4
    <2> QED BY <2>5, <2>6
  <1> QED BY <1>5, <1>6

(* Numbers that grow by one at least grow by the distance at least.          *)
LEMMA GrowsWithDistance ==
    ASSUME NEW L \in Nat, NEW f, \A j \in 1 .. L : f[j] \in Int,
           \A i, j \in 1 .. L : i < j => f[i] < f[j],
           NEW D \in Nat, D < L
    PROVE  f[L] - f[L - D] >= D
  <1> DEFINE behind == {d \in 1 .. D : f[L - D + d] - f[L - D] < d}
  <1>0. L - D \in 1 .. L /\ \A d \in 1 .. D : L - D + d \in 1 .. L
    OBVIOUS
  <1>1. ASSUME behind # {} PROVE FALSE
    <2>1. behind \in SUBSET (1 .. D)
      OBVIOUS
    <2>2. PICK d \in behind : \A o \in behind : d <= o
      <3> HIDE DEF behind
      <3> QED BY <1>1, <2>1, Extremes
    <2>3. d \in 1 .. D /\ f[L - D + d] - f[L - D] < d
      OBVIOUS
    <2>4. CASE d = 1
      <3>1. L - D + d \in 1 .. L /\ L - D < L - D + d
        BY <1>0, <2>3
      <3>2. f[L - D] < f[L - D + d]
        BY <1>0, <3>1
      <3>3. f[L - D] \in Int /\ f[L - D + d] \in Int
        BY <1>0, <3>1
      <3> HIDE DEF behind
      <3> QED BY <2>3, <2>4, <3>2, <3>3
    <2>5. CASE d # 1
      <3>1. d - 1 \in 1 .. D /\ d - 1 < d
        BY <2>3, <2>5
      <3>2. ~(f[L - D + (d - 1)] - f[L - D] < d - 1)
        BY <2>2, <3>1
      <3>3. L - D + d \in 1 .. L /\ L - D + (d - 1) \in 1 .. L /\ L - D + (d - 1) < L - D + d
        BY <1>0, <2>3, <3>1
      <3>4. f[L - D + (d - 1)] < f[L - D + d]
        BY <3>3
      <3>5. f[L - D] \in Int /\ f[L - D + d] \in Int /\ f[L - D + (d - 1)] \in Int /\ d \in Int
        BY <1>0, <2>3, <3>3
      <3> HIDE DEF behind
      <3> QED BY <2>3, <3>2, <3>4, <3>5
    <2> QED BY <2>4, <2>5
  <1>2. CASE D = 0
    <2>1. L \in 1 .. L /\ L - D = L
      BY <1>2
    <2>2. f[L] \in Int
      BY <2>1
    <2> QED BY <1>2, <2>1, <2>2
  <1>3. CASE D # 0
    <2>1. D \in 1 .. D /\ L - D + D = L
      BY <1>3
    <2>2. ~(f[L - D + D] - f[L - D] < D)
      BY <1>1, <2>1
    <2>3. f[L] \in Int /\ f[L - D] \in Int
      BY <1>0
    <2> HIDE DEF behind
    <2> QED BY <2>1, <2>2, <2>3
  <1> QED BY <1>2, <1>3

(* The ring of a track whose every observation is kept.                      *)
Everything(seen) ==
    [j \in DOMAIN seen |-> [age |-> seen[j].frame - seen[1].frame + 1,
                            measured |-> [det |-> seen[j].det, pose |-> 0]]]

(* The ring is the end of it.                                                *)
LEMMA RingIsTheEnd ==
    ASSUME NEW row \in RowRecords, NEW seen \in Seq(Sightings), seen # <<>>,
           NEW history \in Nat, NEW done, Aligned(row, seen, history), AgesTold(row, seen, done),
           InOnePose(row, 0)
    PROVE  /\ Len(row.ring) \in 1 .. Len(seen)
           /\ \A j \in 1 .. Len(row.ring) :
                row.ring[j] = Everything(seen)[Len(seen) - Len(row.ring) + j]
  <1> DEFINE L == Len(seen)
             N == Len(row.ring)
  <1>1. L \in Nat /\ L >= 1 /\ DOMAIN seen = 1 .. L
    BY SeenTyped
  <1>2. row.ring \in Seq(Entries) /\ DOMAIN row.ring = 1 .. N /\ N \in Nat
    BY DEF RowRecords
  <1>3. N \in 1 .. L
    <2>1. RingLength(history) \in Nat /\ RingLength(history) >= 1
      BY RingPositive
    <2>2. N = IF L < RingLength(history) THEN L ELSE RingLength(history)
      BY DEF Aligned
    <2> QED BY <1>1, <2>1, <2>2
  <1>4. ASSUME NEW j \in 1 .. N PROVE row.ring[j] = Everything(seen)[L - N + j]
    <2>1. L - N + j \in 1 .. L
      BY <1>1, <1>3
    <2>2. row.ring[j] \in Entries
      BY <1>2, ElementOfSeq
    <2>3. /\ row.ring[j].age = seen[L - N + j].frame - seen[1].frame + 1
          /\ row.ring[j].measured.det = seen[L - N + j].det
          /\ row.ring[j].measured.pose = 0
      BY <1>2 DEF AgesTold, Aligned, InOnePose
    <2>4. row.ring[j] = [age |-> row.ring[j].age,
                         measured |-> [det |-> row.ring[j].measured.det,
                                       pose |-> row.ring[j].measured.pose]]
      BY <2>2 DEF Entries, Measurements
    <2>5. Everything(seen)[L - N + j] =
            [age |-> seen[L - N + j].frame - seen[1].frame + 1,
             measured |-> [det |-> seen[L - N + j].det, pose |-> 0]]
      BY <1>1, <2>1 DEF Everything
    <2> QED BY <2>3, <2>4, <2>5
  <1> QED BY <1>3, <1>4

(* The latest of a set of positions: there is one, and only one.             *)
LEMMA TheLatest ==
    ASSUME NEW n \in Nat, NEW S \in SUBSET (1 .. n), NEW g \in S, \A o \in S : o <= g
    PROVE  (CHOOSE j \in S : \A o \in S : o <= j) = g
  <1>1. ASSUME NEW h \in S, \A o \in S : o <= h PROVE h = g
    <2>1. g <= h /\ h <= g
      BY <1>1
    <2>2. g \in Int /\ h \in Int
      OBVIOUS
    <2> QED BY ONLY <2>1, <2>2
  <1> DEFINE chosen == CHOOSE j \in S : \A o \in S : o <= j
  <1>2. chosen \in S /\ \A o \in S : o <= chosen
    OBVIOUS
  <1> HIDE DEF chosen
  <1>3. chosen = g
    BY <1>1, <1>2
  <1> QED BY <1>3 DEF chosen

Aging(whole, L) ==
    /\ DOMAIN whole = 1 .. L /\ L >= 1 /\ Len(whole) = L
    /\ \A j \in 1 .. L : whole[j].age \in Int
    /\ \A i, j \in 1 .. L : i < j => whole[i].age < whole[j].age

EndOf(ring, N, whole, L, most) ==
    /\ DOMAIN ring = 1 .. N /\ Len(ring) = N
    /\ N = IF L < most THEN L ELSE most
    /\ \A j \in 1 .. N : ring[j] = whole[L - N + j]

(* A ring one longer than the span holds the observation a heading is        *)
(* measured from.                                                            *)
LEMMA SameOrigin ==
    ASSUME NEW delta \in Nat \ {0}, NEW whole, NEW L \in Nat, Aging(whole, L),
           NEW ring, NEW N \in Nat, EndOf(ring, N, whole, L, delta + 1)
    PROVE  HeadingOrigin(ring, delta) = HeadingOrigin(whole, delta)
  <1> USE DEF Aging, EndOf
  <1> DEFINE old == {j \in 1 .. N : ring[N].age - ring[j].age >= delta}
             older == {j \in 1 .. L : whole[L].age - whole[j].age >= delta}
  <1>1. /\ HeadingOrigin(ring, delta) =
             IF old = {} THEN ring[1] ELSE ring[CHOOSE j \in old : \A o \in old : o <= j]
        /\ HeadingOrigin(whole, delta) =
             IF older = {} THEN whole[1] ELSE whole[CHOOSE j \in older : \A o \in older : o <= j]
    BY DEF HeadingOrigin
  <1>2. N \in 1 .. L /\ N \in 1 .. N /\ L \in 1 .. L
    OBVIOUS
  <1>3. \A j \in 1 .. N : L - N + j \in 1 .. L
    BY <1>2
  <1>4. ring[N] = whole[L]
    <2>1. L - N + N = L
      BY <1>2
    <2> QED BY <1>2, <2>1
  <1>5. ASSUME NEW j \in 1 .. N PROVE j \in old <=> L - N + j \in older
    <2>1. ring[j] = whole[L - N + j] /\ L - N + j \in 1 .. L
      BY <1>3
    <2> QED BY <1>4, <2>1
  <1>6. old \in SUBSET (1 .. N) /\ older \in SUBSET (1 .. L)
    OBVIOUS
  <1>7. L # N => L - N + 1 \in older
    <2> SUFFICES ASSUME L # N PROVE L - N + 1 \in older
      OBVIOUS
    <2>1. N = delta + 1 /\ delta < L /\ L - N + 1 = L - delta /\ L - delta \in 1 .. L
      OBVIOUS
    <2> DEFINE f == [j \in 1 .. L |-> whole[j].age]
    <2>2. \A j \in 1 .. L : f[j] \in Int
      OBVIOUS
    <2>3. \A i, j \in 1 .. L : i < j => f[i] < f[j]
      OBVIOUS
    <2>4. f[L] = whole[L].age /\ f[L - delta] = whole[L - delta].age
      BY <1>2, <2>1
    <2> HIDE DEF f
    <2>5. f[L] - f[L - delta] >= delta
      BY <2>1, <2>2, <2>3, GrowsWithDistance
    <2> QED BY <2>1, <2>4, <2>5
  <1> HIDE DEF old, older
  <1>8. CASE old = {}
    <2>1. 1 \in 1 .. N /\ L - N + 1 \notin older
      BY <1>2, <1>5, <1>8
    <2>2. L = N
      BY <1>7, <2>1
    <2>3. ASSUME NEW j \in older PROVE FALSE
      <3>1. j \in 1 .. N /\ L - N + j = j
        BY <1>6, <2>2
      <3> QED BY <1>5, <1>8, <3>1
    <2>4. L - N + 1 = 1
      BY <2>2
    <2>5. ring[1] = whole[1]
      BY <2>1, <2>4
    <2> QED BY <1>1, <1>8, <2>3, <2>5
  <1>9. CASE old # {}
    <2>1. PICK g \in old : \A o \in old : o <= g
      BY <1>6, <1>9, Extremes
    <2>2. g \in 1 .. N /\ L - N + g \in older
      BY <1>5, <1>6, <2>1
    <2>3. ASSUME NEW o \in older PROVE o <= L - N + g
      <3>0. o \in 1 .. L /\ g \in 1 .. N
        BY <1>6, <2>2
      <3>1. o \in 1 .. L /\ g \in Nat /\ g >= 1 /\ o \in Nat
        BY ONLY <3>0, L \in Nat, N \in Nat
      <3>2. CASE o <= L - N
        BY ONLY <3>1, <3>2, L \in Nat, N \in Nat
      <3>3. CASE o > L - N
        <4>1. o - (L - N) \in 1 .. N /\ L - N + (o - (L - N)) = o
          BY <1>2, <3>1, <3>3
        <4>2. o - (L - N) \in old
          BY <1>5, <4>1
        <4>3. o - (L - N) <= g
          BY <2>1, <4>2
        <4> QED BY <1>2, <2>2, <3>1, <4>3
      <3> QED BY <1>2, <3>1, <3>2, <3>3
    <2>4. (CHOOSE j \in old : \A o \in old : o <= j) = g
      BY <1>6, <2>1, TheLatest
    <2>5. (CHOOSE j \in older : \A o \in older : o <= j) = L - N + g
      BY <1>6, <2>2, <2>3, TheLatest
    <2>6. older # {} /\ ring[g] = whole[L - N + g]
      BY <2>2
    <2> QED BY <1>1, <1>9, <2>4, <2>5, <2>6
  <1> QED BY <1>8, <1>9

LEMMA RowKeepsItsOrigin ==
    ASSUME NEW row \in RowRecords, NEW seen \in Seq(Sightings), seen # <<>>, NEW done,
           Aligned(row, seen, DeltaT + 1), AgesTold(row, seen, done), InOnePose(row, 0),
           NEW tag, Ordered(seen, tag)
    PROVE  HeadingOrigin(row.ring, DeltaT) = HeadingOrigin(Everything(seen), DeltaT)
  <1> DEFINE whole == Everything(seen)
             L == Len(seen)
             ring == row.ring
             N == Len(ring)
  <1>1. /\ L \in Nat /\ L >= 1 /\ DOMAIN seen = 1 .. L
        /\ \A j \in 1 .. L : seen[j].frame \in Nat
    BY SeenTyped
  <1>2. DeltaT \in Nat \ {0} /\ DeltaT + 1 \in Nat /\ RingLength(DeltaT + 1) = DeltaT + 1
    BY HeadingAssumption DEF RingLength
  <1>3. ring \in Seq(Entries) /\ N \in Nat /\ DOMAIN ring = 1 .. N
    BY DEF RowRecords
  <1>4. N = IF L < DeltaT + 1 THEN L ELSE DeltaT + 1
    BY <1>2 DEF Aligned
  <1>5. \A j \in 1 .. N : ring[j] = whole[L - N + j]
    BY <1>2, RingIsTheEnd
  <1>6. DOMAIN whole = 1 .. L /\ Len(whole) = L
    BY <1>1 DEF Everything
  <1>7. \A j \in 1 .. L : whole[j].age = seen[j].frame - seen[1].frame + 1
    BY <1>1 DEF Everything
  <1>8. \A i, j \in 1 .. L : i < j => seen[i].frame < seen[j].frame
    BY <1>1 DEF Ordered
  <1>9. 1 \in 1 .. L
    BY <1>1
  <1> HIDE DEF whole, L, ring, N
  <1>10. \A j \in 1 .. L : whole[j].age \in Int
    BY <1>1, <1>7, <1>9
  <1>11. ASSUME NEW i \in 1 .. L, NEW j \in 1 .. L, i < j PROVE whole[i].age < whole[j].age
    <2>1. seen[i].frame \in Nat /\ seen[j].frame \in Nat /\ seen[1].frame \in Nat
      BY <1>1, <1>9
    <2>2. seen[i].frame < seen[j].frame
      BY <1>8, <1>11
    <2>3. /\ whole[i].age = seen[i].frame - seen[1].frame + 1
          /\ whole[j].age = seen[j].frame - seen[1].frame + 1
      BY <1>7
    <2> QED BY ONLY <2>1, <2>2, <2>3
  <1>12. \A i, j \in 1 .. L : i < j => whole[i].age < whole[j].age
    BY <1>11
  <1>13. HeadingOrigin(ring, DeltaT) = HeadingOrigin(whole, DeltaT)
    <2>1. Len(ring) = N
      BY DEF N
    <2>2. Aging(whole, L)
      BY <1>1, <1>6, <1>10, <1>12 DEF Aging
    <2>3. EndOf(ring, N, whole, L, DeltaT + 1)
      BY <1>3, <1>4, <1>5, <2>1 DEF EndOf
    <2> QED BY <1>1, <1>2, <1>3, <2>2, <2>3, SameOrigin
  <1> QED BY <1>13 DEF ring, whole

(* RingSuffices: with one observation more than delta_t frames, a heading is *)
(* measured from the one it would be measured from if the track had kept     *)
(* them all, whatever frames it missed and however often it was found again  *)
(* (ocsort/tracklet.py new_pool, pool.py directions).                        *)
THEOREM RingIsLongEnough == Spec => []RingSuffices
  <1>1. AgesInv => RingSuffices
    <2> SUFFICES ASSUME AgesInv, NEW k \in Trackers, algorithm[k] = "ocsort", NEW i \in Rows(k)
                 PROVE  HeadingOrigin(pool[k].observations[i], DeltaT)
                          = HeadingOrigin(Everything(Seen(pool[k].tracks[i])), DeltaT)
      BY DEF RingSuffices, Everything
    <2>1. TypeOK /\ PoolInv(k) /\ PoseInv(k) /\ AgeInv(k)
      BY DEF AgesInv, PosesInv, IInv
    <2>2. PICK n \in Nat : pool[k] \in Pools(n)
      BY <2>1 DEF PoolInv
    <2>3. i \in 1 .. n
      BY <2>2 DEF Rows, RowsOf, Pools
    <2> DEFINE row == Row(pool[k], i)
               seen == Seen(pool[k].tracks[i])
    <2>4. /\ row \in RowRecords
          /\ RowInv(row, seen, pool[k].history, pool[k].reUpdate, completed[k], lastTag[k])
      BY <2>1, <2>2, <2>3, OldRow
    <2>5. pool[k].history = DeltaT + 1
      BY <2>1 DEF PoolInv, NewPool, OcSortPool, EmptyPool
    <2>6. AgesTold(row, seen, completed[k])
      BY <2>1 DEF AgeInv
    <2>7. InOnePose(row, 0)
      BY <2>1 DEF PoseInv, Flows
    <2>8. row.ring = pool[k].observations[i]
      BY DEF Row
    <2> HIDE DEF row, seen
    <2>9. /\ seen \in Seq(Sightings) /\ seen # <<>> /\ Aligned(row, seen, DeltaT + 1)
          /\ Ordered(seen, lastTag[k])
      BY <2>4, <2>5 DEF RowInv
    <2>10. HeadingOrigin(row.ring, DeltaT) = HeadingOrigin(Everything(seen), DeltaT)
      BY <2>4, <2>6, <2>7, <2>9, RowKeepsItsOrigin
    <2> QED BY <2>8, <2>10 DEF seen
  <1> QED BY <1>1, InitAgesInv, StepAgesInv, PTL DEF Spec

--------------------------------------------------------------------------------
(* The contract: what a tracker tells its consumer of who lives.             *)

Life(track) == [hits |-> track.hits, missed |-> track.time_since_update]

LivesOf(p) ==
    [id \in {p.tracks[i].id : i \in RowsOf(p)} |->
        LET i == CHOOSE j \in RowsOf(p) : p.tracks[j].id = id IN Life(p.tracks[i])]

LEMMA LivesOfPools == lives = [k \in Trackers |-> LivesOf(pool[k])]
  BY DEF lives, LivesOf, Life, Rows, RowsOf

LEMMA LifeOfRow ==
    ASSUME NEW n \in Nat, NEW p \in Pools(n), DistinctIds(p, n)
    PROVE  /\ DOMAIN LivesOf(p) = {p.tracks[i].id : i \in 1 .. n}
           /\ \A i \in 1 .. n : LivesOf(p)[p.tracks[i].id] = Life(p.tracks[i])
  <1>1. RowsOf(p) = 1 .. n
    BY DEF RowsOf, Pools
  <1>2. DOMAIN LivesOf(p) = {p.tracks[i].id : i \in 1 .. n}
    BY <1>1 DEF LivesOf
  <1>3. ASSUME NEW i \in 1 .. n PROVE LivesOf(p)[p.tracks[i].id] = Life(p.tracks[i])
    <2> DEFINE id == p.tracks[i].id
               row == CHOOSE j \in 1 .. n : p.tracks[j].id = id
    <2>1. LivesOf(p)[id] = Life(p.tracks[row])
      BY <1>1 DEF LivesOf
    <2>2. row \in 1 .. n /\ p.tracks[row].id = id
      OBVIOUS
    <2>3. row = i
      BY <2>2 DEF DistinctIds
    <2> QED BY <2>1, <2>3
  <1> QED BY <1>2, <1>3

(* One frame of the contract: who lives after it, given who was seen and     *)
(* the numbers of those born.                                                *)
Waiting(old, seen) ==
    {id \in DOMAIN old \ seen : Contract!Trusted(old[id]) /\ old[id].missed < MaxAge}

LivesAfter(old, seen, first, last) ==
    [id \in seen \cup Waiting(old, seen) \cup ((first + 1) .. last) |->
        IF id \in (first + 1) .. last THEN [hits |-> 1, missed |-> 0]
        ELSE IF id \in seen THEN [hits |-> old[id].hits + 1, missed |-> 0]
        ELSE [old[id] EXCEPT !.missed = @ + 1]]

Shown(now) == {id \in DOMAIN now : Contract!Trusted(now[id]) /\ now[id].missed = 0}

LEMMA ContractFrame ==
    ASSUME NEW k, NEW seen, seen \subseteq DOMAIN lives[k], issued' \in Nat, issued' >= issued,
           lives' = [lives EXCEPT ![k] = LivesAfter(lives[k], seen, issued, issued')],
           answer' = [answer EXCEPT ![k] =
                        Returned(Shown(LivesAfter(lives[k], seen, issued, issued')))]
    PROVE  Contract!Frame(k)
  BY DEF Contract!Frame, LivesAfter, Waiting, Shown, Contract!Returned, Returned, Contract!Trusted

(* What one row tells of its track, before a frame: nobody is removed.       *)
Standing(track) ==
    /\ track \in TrackRecords
    /\ track.state = "tentative" => track.hits < MinHits /\ track.time_since_update = 0
    /\ track.state # "tentative" => track.hits >= MinHits
    /\ track.state = "confirmed" => track.time_since_update = 0
    /\ track.state = "lost" => track.time_since_update \in 1 .. MaxAge
    /\ track.state # "removed"

LEMMA RowStanding ==
    ASSUME NEW n \in Nat, NEW p \in Pools(n), NEW views, NEW ids, NEW done, NEW tag,
           SoundPool(p, n, views, ids, done, tag), NEW i \in 1 .. n
    PROVE  Standing(p.tracks[i])
  <1>1. Row(p, i) \in RowRecords /\ Row(p, i).track = p.tracks[i]
    BY RowTyped DEF Row
  <1>2. Earned(Row(p, i), views[p.tracks[i].id])
    BY DEF SoundPool, RowInv
  <1> QED BY <1>1, <1>2 DEF Earned, Standing, RowRecords

(* A frame, by what it makes of the track of one row.                        *)
LEMMA LifeAfterHit ==
    ASSUME NEW old, Standing(old), NEW r \in RowRecords, r.track = [old EXCEPT !.age = @ + 1],
           NEW history \in Nat, NEW reUpdate \in BOOLEAN, NEW det \in Detections, NEW position \in Int
    PROVE  LET new == HitRow(r, history, reUpdate, det, position).track IN
           /\ new.state # "removed"
           /\ Life(new) = [hits |-> Life(old).hits + 1, missed |-> 0]
  <1>1. r.track \in TrackRecords /\ old \in TrackRecords
    BY DEF RowRecords, Standing
  <1>2. r.track.hits = old.hits /\ r.track.state = old.state
    BY <1>1 DEF TrackRecords
  <1>3. HitRow(r, history, reUpdate, det, position).track = Matched(r.track)
    <2>1. IsHit(HitRow(r, history, reUpdate, det, position), r, history, reUpdate, det, position)
      BY HitFields
    <2> QED BY ONLY <2>1 DEF IsHit
  <1>4. Matched(r.track).state # "removed"
    BY <1>1, <1>2, MatchedTrack DEF Standing
  <1>5. Matched(r.track).hits = old.hits + 1 /\ Matched(r.track).time_since_update = 0
    BY <1>1, <1>2, MatchedTrack
  <1> QED BY <1>3, <1>4, <1>5 DEF Life

LEMMA LifeAfterMiss ==
    ASSUME NEW old, Standing(old), NEW r \in RowRecords, r.track = [old EXCEPT !.age = @ + 1]
    PROVE  LET new == MissedRow(r).track IN
           /\ new.state # "removed" <=> Contract!Trusted(Life(old)) /\ Life(old).missed < MaxAge
           /\ Life(new) = [Life(old) EXCEPT !.missed = @ + 1]
  <1>1. r.track \in TrackRecords /\ old \in TrackRecords
    BY DEF RowRecords, Standing
  <1>2. /\ r.track.hits = old.hits /\ r.track.state = old.state
        /\ r.track.time_since_update = old.time_since_update
    BY <1>1 DEF TrackRecords
  <1>3. MissedRow(r).track = Missed(r.track)
    BY DEF MissedRow
  <1>4. /\ Missed(r.track).hits = old.hits
        /\ Missed(r.track).time_since_update = old.time_since_update + 1
        /\ Missed(r.track).state = IF old.state = "tentative" \/ old.time_since_update >= MaxAge
                                   THEN "removed" ELSE "lost"
    BY <1>1, <1>2, MissedTrack
  <1>5. Life(Missed(r.track)) = [hits |-> old.hits, missed |-> old.time_since_update + 1]
    BY <1>4 DEF Life
  <1>6. [Life(old) EXCEPT !.missed = @ + 1]
          = [hits |-> old.hits, missed |-> old.time_since_update + 1]
    BY DEF Life
  <1>7. old.hits \in Nat /\ old.time_since_update \in Nat /\ MinHits \in Nat /\ MaxAge \in Nat
    BY <1>1, LifecycleAssumption DEF TrackRecords
  <1>8. Contract!Trusted(Life(old)) <=> old.hits >= MinHits
    BY DEF Contract!Trusted, Life
  <1>9. old.state = "tentative" <=> ~(old.hits >= MinHits)
    BY <1>7 DEF Standing
  <1>10. Life(old).missed = old.time_since_update
    BY DEF Life
  <1>11. Missed(r.track).state # "removed"
           <=> old.state # "tentative" /\ old.time_since_update < MaxAge
    BY <1>4, <1>7
  <1> QED BY <1>3, <1>5, <1>6, <1>8, <1>9, <1>10, <1>11

LEMMA LifeAtBirth ==
    ASSUME NEW id \in Nat, NEW det, NEW position
    PROVE  LET new == BornRow(id, det, position).track IN
           new.state # "removed" /\ Life(new) = [hits |-> 1, missed |-> 0]
  BY NewbornTrack DEF BornRow, Life

(* Who is shown: the confirmed tracks seen on this frame are the trusted     *)
(* lives with nothing missed.                                                *)
LEMMA OutputIsShown ==
    ASSUME NEW n \in Nat, NEW p \in Pools(n), DistinctIds(p, n),
           \A i \in 1 .. n : Standing(p.tracks[i])
    PROVE  Output(p) = Shown(LivesOf(p))
  <1>1. RowsOf(p) = 1 .. n
    BY DEF RowsOf, Pools
  <1>2. /\ DOMAIN LivesOf(p) = {p.tracks[i].id : i \in 1 .. n}
        /\ \A i \in 1 .. n : LivesOf(p)[p.tracks[i].id] = Life(p.tracks[i])
    BY LifeOfRow
  <1>3. ASSUME NEW i \in 1 .. n
        PROVE  IsPublishable(p.tracks[i])
                 <=> /\ Contract!Trusted(LivesOf(p)[p.tracks[i].id])
                     /\ LivesOf(p)[p.tracks[i].id].missed = 0
    <2> DEFINE track == p.tracks[i]
    <2>1. Standing(track) /\ LivesOf(p)[track.id] = Life(track)
      BY <1>2
    <2>2. /\ track.state \in TrackStates /\ track.hits \in Nat /\ MinHits \in Nat
          /\ MaxAge \in Nat
      BY <2>1, LifecycleAssumption DEF Standing, TrackRecords
    <2>3. /\ Contract!Trusted(Life(track)) <=> track.hits >= MinHits
          /\ Life(track).missed = track.time_since_update
      BY DEF Contract!Trusted, Life
    <2> HIDE DEF track
    <2>4. IsPublishable(track) <=> track.state = "confirmed" /\ track.time_since_update = 0
      BY DEF IsPublishable
    <2>5. track.state = "confirmed" /\ track.time_since_update = 0
            <=> track.hits >= MinHits /\ track.time_since_update = 0
      BY <2>1, <2>2 DEF Standing, TrackStates
    <2>6. IsPublishable(track) <=> /\ Contract!Trusted(LivesOf(p)[track.id])
                                   /\ LivesOf(p)[track.id].missed = 0
      BY <2>1, <2>3, <2>4, <2>5
    <2> QED BY <2>6 DEF track
  <1>4. Output(p) = {p.tracks[i].id : i \in {j \in 1 .. n : IsPublishable(p.tracks[j])}}
    BY <1>1 DEF Output
  <1> QED BY <1>2, <1>3, <1>4 DEF Shown

(* What a frame makes of the life at row x of the old pool, or of birth x.   *)
LivesOn(k, given, leftovers, n, x, track) ==
    LET was == pool[k].tracks[x] IN
    \/ /\ x \in (n + 1) .. (n + Len(leftovers)) /\ track.id = issued + (x - n)
       /\ Life(track) = [hits |-> 1, missed |-> 0]
    \/ /\ x \in 1 .. n /\ x \in DOMAIN given /\ track.id = was.id
       /\ Life(track) = [hits |-> Life(was).hits + 1, missed |-> 0]
    \/ /\ x \in 1 .. n /\ x \notin DOMAIN given /\ track.id = was.id
       /\ Contract!Trusted(Life(was)) /\ Life(was).missed < MaxAge
       /\ Life(track) = [Life(was) EXCEPT !.missed = @ + 1]

LEMMA RowLivesOn ==
    ASSUME NEW k \in Trackers, TypeOK, NEW n \in Nat, pool[k] \in Pools(n),
           \A i \in 1 .. n : Standing(pool[k].tracks[i]),
           NEW opened, IsOpened(opened, pool[k]), NEW position \in Int,
           NEW tag, NEW given, NEW leftovers,
           IsFrame(k, tag, opened, given, leftovers, position),
           NEW x, NEW new, NEW seen,
           Became(k, opened, given, leftovers, position, n, x, new, seen),
           new.track.state # "removed"
    PROVE  LivesOn(k, given, leftovers, n, x, new.track)
  <1>0. /\ issued \in Nat /\ Len(leftovers) \in Nat
        /\ opened.history \in Nat /\ opened.reUpdate \in BOOLEAN
    <2>1. SameBuild(opened, pool[k], n)
      BY OpenedRows
    <2> QED BY <2>1 DEF TypeOK, IsFrame, SameBuild, Pools
  <1>1. ASSUME x \in 1 .. n
        PROVE  /\ Standing(pool[k].tracks[x]) /\ Row(opened, x) \in RowRecords
               /\ Row(opened, x).track = [pool[k].tracks[x] EXCEPT !.age = @ + 1]
    <2>1. Advanced(Row(opened, x), Row(pool[k], x))
      BY <1>1, OpenedRows
    <2> QED BY <1>1, <2>1 DEF Advanced, Row
  <1>2. CASE /\ x \in (n + 1) .. (n + Len(leftovers))
             /\ new = BornRow(issued + (x - n), leftovers[x - n], position)
             /\ new.track.id = issued + (x - n)
    <2>1. issued + (x - n) \in Nat
      BY <1>0, <1>2
    <2>2. Life(new.track) = [hits |-> 1, missed |-> 0]
      BY <1>2, <2>1, LifeAtBirth
    <2> QED BY <1>2, <2>2 DEF LivesOn
  <1>3. CASE /\ x \in 1 .. n /\ x \in DOMAIN given
             /\ new = HitRow(Row(opened, x), opened.history, opened.reUpdate, given[x], position)
             /\ new.track.id = pool[k].tracks[x].id
    <2>1. given[x] \in Detections
      BY <1>3 DEF IsFrame
    <2>2. Life(new.track) = [hits |-> Life(pool[k].tracks[x]).hits + 1, missed |-> 0]
      BY <1>0, <1>1, <1>3, <2>1, LifeAfterHit
    <2> QED BY <1>3, <2>2 DEF LivesOn
  <1>4. CASE /\ x \in 1 .. n /\ x \notin DOMAIN given /\ new = MissedRow(Row(opened, x))
             /\ new.track.id = pool[k].tracks[x].id
    <2>1. /\ Contract!Trusted(Life(pool[k].tracks[x])) /\ Life(pool[k].tracks[x]).missed < MaxAge
          /\ Life(new.track) = [Life(pool[k].tracks[x]) EXCEPT !.missed = @ + 1]
      BY <1>1, <1>4, LifeAfterMiss
    <2> QED BY <1>4, <2>1 DEF LivesOn
  <1> QED BY <1>2, <1>3, <1>4 DEF Became

Survives(k, given, leftovers, n, x) ==
    LET was == pool[k].tracks[x] IN
    \/ x \in (n + 1) .. (n + Len(leftovers))
    \/ x \in 1 .. n /\ x \in DOMAIN given
    \/ /\ x \in 1 .. n /\ x \notin DOMAIN given
       /\ Contract!Trusted(Life(was)) /\ Life(was).missed < MaxAge

(* Who the contract says lives is in the new pool.                           *)
LEMMA LivesStay ==
    ASSUME NEW k \in Trackers, TypeOK, NEW n \in Nat, pool[k] \in Pools(n),
           \A i \in 1 .. n : Standing(pool[k].tracks[i]),
           NEW opened, IsOpened(opened, pool[k]), NEW position \in Int,
           NEW tag, NEW given, NEW leftovers,
           IsFrame(k, tag, opened, given, leftovers, position), NEW x,
           Survives(k, given, leftovers, n, x)
    PROVE  Outcome(opened, given, leftovers, issued, position, n, x).track.state # "removed"
  <1>0. /\ issued \in Nat /\ Len(leftovers) \in Nat
        /\ opened.history \in Nat /\ opened.reUpdate \in BOOLEAN
    <2>1. SameBuild(opened, pool[k], n)
      BY OpenedRows
    <2> QED BY <2>1 DEF TypeOK, IsFrame, SameBuild, Pools
  <1>1. ASSUME x \in 1 .. n
        PROVE  /\ Standing(pool[k].tracks[x]) /\ Row(opened, x) \in RowRecords
               /\ Row(opened, x).track = [pool[k].tracks[x] EXCEPT !.age = @ + 1]
               /\ ~(x > n)
    <2>1. Advanced(Row(opened, x), Row(pool[k], x))
      BY <1>1, OpenedRows
    <2> QED BY <1>1, <2>1 DEF Advanced, Row
  <1> DEFINE outcome == Outcome(opened, given, leftovers, issued, position, n, x)
  <1>2. CASE x \in (n + 1) .. (n + Len(leftovers))
    <2>1. issued + (x - n) \in Nat /\ x > n
      BY <1>0, <1>2
    <2>2. outcome = BornRow(issued + (x - n), leftovers[x - n], position)
      BY <2>1 DEF Outcome
    <2>3. BornRow(issued + (x - n), leftovers[x - n], position).track.state # "removed"
      BY <2>1, LifeAtBirth
    <2> QED BY <2>2, <2>3
  <1>3. CASE x \in 1 .. n /\ x \in DOMAIN given
    <2>1. given[x] \in Detections
      BY <1>3 DEF IsFrame
    <2>2. outcome = HitRow(Row(opened, x), opened.history, opened.reUpdate, given[x], position)
      BY <1>1, <1>3 DEF Outcome
    <2>3. PICK old, r : old = pool[k].tracks[x] /\ r = Row(opened, x)
      OBVIOUS
    <2>4. PICK history, reUpdate, det :
            history = opened.history /\ reUpdate = opened.reUpdate /\ det = given[x]
      OBVIOUS
    <2>5. HitRow(r, history, reUpdate, det, position).track.state # "removed"
      <3>1. Standing(old) /\ r \in RowRecords /\ r.track = [old EXCEPT !.age = @ + 1]
        BY <1>1, <1>3, <2>3
      <3>2. history \in Nat /\ reUpdate \in BOOLEAN /\ det \in Detections
        BY <1>0, <2>1, <2>4
      <3>3. /\ HitRow(r, history, reUpdate, det, position).track.state # "removed"
            /\ Life(HitRow(r, history, reUpdate, det, position).track)
                 = [hits |-> Life(old).hits + 1, missed |-> 0]
        BY ONLY <3>1, <3>2, position \in Int, LifeAfterHit
      <3> QED BY <3>3
    <2> QED BY <2>2, <2>3, <2>4, <2>5
  <1>4. CASE /\ x \in 1 .. n /\ x \notin DOMAIN given
             /\ Contract!Trusted(Life(pool[k].tracks[x])) /\ Life(pool[k].tracks[x]).missed < MaxAge
    <2>1. outcome = MissedRow(Row(opened, x))
      BY <1>1, <1>4 DEF Outcome
    <2>2. PICK old, r : old = pool[k].tracks[x] /\ r = Row(opened, x)
      OBVIOUS
    <2>3. MissedRow(r).track.state # "removed"
      BY <1>1, <1>4, <2>2, LifeAfterMiss
    <2> QED BY <2>1, <2>2, <2>3
  <1> QED BY <1>2, <1>3, <1>4 DEF Survives

(* The lives in the pool a frame leaves.                                     *)
LEMMA LivesBecome ==
    ASSUME NEW k \in Trackers, TypeOK, PoolInv(k), NEW n \in Nat, pool[k] \in Pools(n),
           DistinctIds(pool[k], n), \A i \in 1 .. n : pool[k].tracks[i].id \in 1 .. issued,
           \A i \in 1 .. n : Standing(pool[k].tracks[i]),
           NEW opened, IsOpened(opened, pool[k]), NEW position \in Int,
           NEW tag, NEW given, NEW leftovers,
           IsFrame(k, tag, opened, given, leftovers, position),
           NEW c \in Nat, NEW source, NEW closed, NEW views,
           Becoming(k, opened, given, leftovers, position, n, c, source, closed, views),
           DistinctIds(closed, c), Rows(k) = 1 .. n
    PROVE  \E seen : /\ seen \subseteq DOMAIN LivesOf(pool[k])
                     /\ LivesOf(closed)
                          = LivesAfter(LivesOf(pool[k]), seen, issued, issued + Len(leftovers))
  <1> DEFINE m == Len(leftovers)
             old == LivesOf(pool[k])
             id(x) == pool[k].tracks[x].id
             was(x) == Life(pool[k].tracks[x])
             seen == {id(r) : r \in DOMAIN given}
             born == (issued + 1) .. (issued + m)
             now == LivesOf(closed)
             number(i) == closed.tracks[i].id
             life(i) == Life(closed.tracks[i])
  <1>0. m \in Nat /\ issued \in Nat /\ DOMAIN given \subseteq 1 .. n
    BY DEF IsFrame, TypeOK
  <1>1. /\ DOMAIN old = {id(x) : x \in 1 .. n} /\ \A x \in 1 .. n : old[id(x)] = was(x)
        /\ \A x, y \in 1 .. n : x # y => id(x) # id(y)
        /\ \A x \in 1 .. n : id(x) \in 1 .. issued
    BY LifeOfRow DEF DistinctIds
  <1>2. closed \in Pools(c)
    BY DEF Becoming
  <1>3. DOMAIN now = {number(i) : i \in 1 .. c} /\ \A i \in 1 .. c : now[number(i)] = life(i)
    BY <1>2, LifeOfRow
  <1>4. ASSUME NEW i \in 1 .. c PROVE LivesOn(k, given, leftovers, n, source[i], closed.tracks[i])
    <2>1. PICK x, new, views2 : /\ x = source[i] /\ new = Row(closed, i)
                                /\ views2 = views[closed.tracks[i].id]
      OBVIOUS
    <2>2. /\ Became(k, opened, given, leftovers, position, n, x, new, views2)
          /\ new.track = closed.tracks[i] /\ new.track.state # "removed"
      BY <2>1 DEF Becoming, Row
    <2>3. LivesOn(k, given, leftovers, n, x, new.track)
      BY <2>2, RowLivesOn
    <2> QED BY <2>1, <2>2, <2>3
  <1>5. ASSUME NEW x, Survives(k, given, leftovers, n, x) PROVE \E i \in 1 .. c : source[i] = x
    <2>1. Outcome(opened, given, leftovers, issued, position, n, x).track.state # "removed"
      BY <1>5, LivesStay
    <2>2. x \in 1 .. n + m
      BY <1>0, <1>5 DEF Survives
    <2> QED BY <2>1, <2>2 DEF Becoming
  <1>6. Waiting(old, seen) =
          {id(x) : x \in {y \in (1 .. n) \ DOMAIN given :
                            Contract!Trusted(was(y)) /\ was(y).missed < MaxAge}}
    <2>1. ASSUME NEW x \in 1 .. n PROVE id(x) \in seen <=> x \in DOMAIN given
      BY <1>0, <1>1
    <2> DEFINE idle == {y \in (1 .. n) \ DOMAIN given :
                          Contract!Trusted(was(y)) /\ was(y).missed < MaxAge}
    <2>2. ASSUME NEW x \in idle PROVE id(x) \in Waiting(old, seen)
      <3>1. x \in 1 .. n /\ id(x) \in DOMAIN old \ seen /\ old[id(x)] = was(x)
        BY <1>1, <2>1
      <3> QED BY <3>1 DEF Waiting
    <2>3. ASSUME NEW one \in Waiting(old, seen) PROVE \E x \in idle : one = id(x)
      <3>1. /\ one \in DOMAIN old /\ one \notin seen
            /\ Contract!Trusted(old[one]) /\ old[one].missed < MaxAge
        BY DEF Waiting
      <3>2. PICK x \in 1 .. n : one = id(x)
        BY <1>1, <3>1
      <3>3. x \in idle
        BY <1>1, <2>1, <3>1, <3>2
      <3> QED BY <3>2, <3>3
    <2> HIDE DEF idle, id
    <2> QED BY <2>2, <2>3 DEF idle
  <1>7. \A x \in (n + 1) .. (n + m) : issued + (x - n) \in born
    BY <1>0
  <1>8. \A b \in born : b - issued + n \in (n + 1) .. (n + m) /\ issued + ((b - issued + n) - n) = b
    BY <1>0
  <1>9. ASSUME NEW x \in 1 .. n PROVE id(x) \notin born
    <2>1. id(x) \in 1 .. issued
      BY <1>1
    <2>2. issued \in Nat
      BY <1>0
    <2>3. id(x) <= issued
      BY ONLY <2>1, <2>2
    <2>4. \A b \in born : b > issued
      BY ONLY <2>2
    <2> QED BY ONLY <2>1, <2>2, <2>3, <2>4
  <1> DEFINE after == LivesAfter(old, seen, issued, issued + m)
  <1>10. /\ DOMAIN after = seen \cup Waiting(old, seen) \cup born
         /\ \A b \in born : after[b] = [hits |-> 1, missed |-> 0]
         /\ \A one \in seen : one \notin born =>
                after[one] = [hits |-> old[one].hits + 1, missed |-> 0]
         /\ \A one \in Waiting(old, seen) : one \notin born /\ one \notin seen =>
                after[one] = [old[one] EXCEPT !.missed = @ + 1]
    BY DEF LivesAfter
  <1>11. ASSUME NEW i \in 1 .. c
         PROVE  number(i) \in DOMAIN after /\ after[number(i)] = life(i)
    <2>1. CASE /\ source[i] \in (n + 1) .. (n + m) /\ number(i) = issued + (source[i] - n)
               /\ life(i) = [hits |-> 1, missed |-> 0]
      <3>1. number(i) \in born
        BY <1>7, <2>1
      <3> QED BY <1>10, <2>1, <3>1
    <2>2. CASE /\ source[i] \in 1 .. n /\ source[i] \in DOMAIN given
               /\ number(i) = id(source[i])
               /\ life(i) = [hits |-> was(source[i]).hits + 1, missed |-> 0]
      <3>1. number(i) \in seen /\ number(i) \notin born /\ old[number(i)] = was(source[i])
        BY <1>1, <1>9, <2>2
      <3> QED BY <1>10, <2>2, <3>1
    <2>3. CASE /\ source[i] \in 1 .. n /\ source[i] \notin DOMAIN given
               /\ number(i) = id(source[i])
               /\ Contract!Trusted(was(source[i])) /\ was(source[i]).missed < MaxAge
               /\ life(i) = [was(source[i]) EXCEPT !.missed = @ + 1]
      <3>1. /\ number(i) \in Waiting(old, seen) /\ number(i) \notin born
            /\ old[number(i)] = was(source[i])
        <4>1. PICK x : x = source[i]
          OBVIOUS
        <4>2. /\ x \in 1 .. n /\ x \notin DOMAIN given /\ number(i) = id(x)
              /\ Contract!Trusted(was(x)) /\ was(x).missed < MaxAge
          BY ONLY <2>3, <4>1
        <4>3. id(x) \notin born /\ old[id(x)] = was(x)
          BY <1>1, <1>9, <4>2
        <4>4. id(x) \in Waiting(old, seen)
          <5> HIDE DEF id, was
          <5> QED BY <1>6, <4>2
        <4> QED BY ONLY <4>1, <4>2, <4>3, <4>4
      <3>2. number(i) \notin seen
        BY <3>1 DEF Waiting
      <3>3. number(i) \in DOMAIN after /\ after[number(i)] = [old[number(i)] EXCEPT !.missed = @ + 1]
        BY <1>10, <3>1, <3>2
      <3> QED BY <2>3, <3>1, <3>3
    <2> QED BY <1>4, <2>1, <2>2, <2>3 DEF LivesOn
  <1>12. ASSUME NEW one \in DOMAIN after PROVE one \in DOMAIN now
    <2>1. CASE one \in born
      <3>1. PICK i \in 1 .. c : source[i] = one - issued + n
        BY <1>5, <1>8, <2>1 DEF Survives
      <3>2. source[i] \in (n + 1) .. (n + m) /\ issued + (source[i] - n) = one
        BY <1>8, <2>1, <3>1
      <3>3. source[i] \notin 1 .. n
        BY <1>0, <3>2
      <3>4. number(i) = one
        BY <1>4, <3>2, <3>3 DEF LivesOn
      <3> QED BY <1>3, <3>4
    <2>2. ASSUME NEW x \in 1 .. n, one = id(x), Survives(k, given, leftovers, n, x)
          PROVE  one \in DOMAIN now
      <3>1. PICK i \in 1 .. c : source[i] = x
        BY <1>5, <2>2
      <3>2. x \notin (n + 1) .. (n + m)
        BY <1>0
      <3>3. number(i) = one
        BY <1>4, <2>2, <3>1, <3>2 DEF LivesOn
      <3> QED BY <1>3, <3>3
    <2>3. CASE one \in seen
      <3>1. PICK x \in DOMAIN given : one = id(x)
        BY <2>3
      <3>2. x \in 1 .. n /\ Survives(k, given, leftovers, n, x)
        BY <1>0 DEF Survives
      <3> QED BY <2>2, <3>1, <3>2
    <2>4. CASE one \in Waiting(old, seen)
      <3>1. PICK x \in 1 .. n : /\ x \notin DOMAIN given /\ one = id(x)
                                /\ Contract!Trusted(was(x)) /\ was(x).missed < MaxAge
        BY <1>6, <2>4
      <3>2. Survives(k, given, leftovers, n, x)
        BY <3>1 DEF Survives
      <3> QED BY <2>2, <3>1, <3>2
    <2> QED BY <1>10, <2>1, <2>3, <2>4
  <1>13. DOMAIN now = DOMAIN after /\ \A one \in DOMAIN now : now[one] = after[one]
    <2>1. ASSUME NEW one \in DOMAIN now PROVE one \in DOMAIN after /\ now[one] = after[one]
      <3>1. PICK i \in 1 .. c : one = number(i)
        BY <1>3
      <3> QED BY <1>3, <1>11, <3>1
    <2> HIDE DEF now, after
    <2> QED BY <1>12, <2>1
  <1>14. /\ now = [one \in DOMAIN now |-> now[one]] /\ after = [one \in DOMAIN after |-> after[one]]
    <2>1. now = [one \in DOMAIN now |-> now[one]]
      BY DEF LivesOf
    <2>2. after = [one \in DOMAIN after |-> after[one]]
      BY DEF LivesAfter
    <2> QED BY <2>1, <2>2
  <1>15. now = after
    <2> HIDE DEF now, after
    <2> QED BY <1>13, <1>14
  <1>16. seen \subseteq DOMAIN old
    BY <1>0, <1>1
  <1> QED BY <1>15, <1>16

LEMMA LivesChange ==
    ASSUME NEW k \in Trackers, DOMAIN pool = Trackers, NEW new, pool' = [pool EXCEPT ![k] = new]
    PROVE  lives' = [lives EXCEPT ![k] = LivesOf(new)]
  <1>1. lives = [m \in Trackers |-> LivesOf(pool[m])]
    BY LivesOfPools
  <1>2. lives' = [m \in Trackers |-> LivesOf(pool'[m])]
    BY DEF lives, LivesOf, Life, Rows, RowsOf
  <1>3. pool'[k] = new /\ \A m \in Trackers : m # k => pool'[m] = pool[m]
    OBVIOUS
  <1> QED BY <1>1, <1>2, <1>3

LEMMA FrameKeepsContract ==
    ASSUME NEW k \in Trackers, IInv, NEW tag, NEW opened, NEW given, NEW leftovers,
           NEW position, AFrame(k, tag, opened, given, leftovers, position)
    PROVE  Contract!Frame(k)
  <1>0. TypeOK /\ PoolInv(k)
    BY DEF IInv
  <1>1. PICK n \in Nat : /\ pool[k] \in Pools(n) /\ Rows(k) = 1 .. n
                         /\ SoundPool(pool[k], n, sightings, issued, completed[k], lastTag[k])
    BY <1>0, PoolIsSound
  <1>2. /\ DistinctIds(pool[k], n) /\ \A i \in 1 .. n : pool[k].tracks[i].id \in 1 .. issued
        /\ issued \in Nat /\ DOMAIN pool = Trackers
    BY <1>0, <1>1 DEF SoundPool, DistinctIds, TypeOK
  <1>3. \A i \in 1 .. n : Standing(pool[k].tracks[i])
    BY <1>1, RowStanding
  <1>4. PICK closed, views : closed = pool'[k] /\ views = sightings'
    OBVIOUS
  <1>5. PICK c \in Nat : \E source :
            Becoming(k, opened, given, leftovers, position, n, c, source, closed, views)
    BY <1>1, <1>2, <1>4, FrameBecomes DEF AFrame
  <1>6. PICK source : Becoming(k, opened, given, leftovers, position, n, c, source, closed, views)
    BY <1>5
  <1>7. /\ IsOpened(opened, pool[k]) /\ position \in Int
        /\ IsFrame(k, tag, opened, given, leftovers, position)
    BY DEF AFrame
  <1>8. SoundPool(closed, c, views, issued + Len(leftovers), completed[k] + 1, tag)
    BY <1>0, <1>1, <1>2, <1>6, <1>7, FrameSound
  <1>9. closed \in Pools(c) /\ DistinctIds(closed, c)
    BY <1>6, <1>8 DEF Becoming, SoundPool, DistinctIds
  <1>10. PICK seen : /\ seen \subseteq DOMAIN LivesOf(pool[k])
                     /\ LivesOf(closed)
                          = LivesAfter(LivesOf(pool[k]), seen, issued, issued + Len(leftovers))
    BY <1>0, <1>1, <1>2, <1>3, <1>6, <1>7, <1>9, LivesBecome
  <1>11. \A i \in 1 .. c : Standing(closed.tracks[i])
    BY <1>8, <1>9, RowStanding
  <1>12. Output(closed) = Shown(LivesOf(closed))
    BY <1>9, <1>11, OutputIsShown
  <1>13. /\ FrameEffects(k, tag, opened, given, leftovers, position)
         /\ Len(leftovers) \in Nat /\ issued' = issued + Len(leftovers) /\ issued' \in Nat
    BY <1>0, FrameType
  <1>14. pool' = [pool EXCEPT ![k] = closed] /\ answer' = [answer EXCEPT ![k] = Returned(Output(closed))]
    <2>1. PICK new : /\ pool' = [pool EXCEPT ![k] = new]
                     /\ answer' = [answer EXCEPT ![k] = Returned(Output(new))]
      BY <1>13 DEF FrameEffects
    <2>2. new = closed
      BY <1>2, <1>4, <2>1
    <2> QED BY <2>1, <2>2
  <1>15. lives = [m \in Trackers |-> LivesOf(pool[m])] /\ lives[k] = LivesOf(pool[k])
    BY LivesOfPools
  <1>16. lives' = [lives EXCEPT ![k] = LivesAfter(lives[k], seen, issued, issued')]
    <2>1. lives' = [lives EXCEPT ![k] = LivesOf(closed)]
      BY <1>2, <1>14, LivesChange
    <2> QED BY <1>10, <1>13, <1>15, <2>1
  <1>17. answer' = [answer EXCEPT ![k] =
                        Returned(Shown(LivesAfter(lives[k], seen, issued, issued')))]
    BY <1>10, <1>12, <1>13, <1>14, <1>15
  <1>18. seen \subseteq DOMAIN lives[k] /\ issued' >= issued
    BY <1>2, <1>10, <1>13, <1>15
  <1> QED BY <1>13, <1>16, <1>17, <1>18, ContractFrame

LEMMA RaiseKeepsContract ==
    ASSUME NEW k, UNCHANGED <<lives, issued>>, answer' = [answer EXCEPT ![k] = Raised]
    PROVE  Contract!Raise(k)
  BY DEF Contract!Raise, Contract!Raised, Raised

LEMMA ResetKeepsContract ==
    ASSUME NEW k \in Trackers, DOMAIN pool = Trackers, pool' = [pool EXCEPT ![k] = Emptied(@)],
           UNCHANGED <<issued, answer>>
    PROVE  Contract!Reset(k)
  <1>1. PICK new : new = Emptied(pool[k])
    OBVIOUS
  <1>2. lives' = [lives EXCEPT ![k] = LivesOf(new)]
    BY <1>1, LivesChange
  <1>3. RowsOf(new) = {}
    BY <1>1 DEF Emptied, EmptyPool, RowsOf
  <1>4. LivesOf(new) = [id \in {} |-> [hits |-> 0, missed |-> 0]]
    BY <1>3 DEF LivesOf
  <1> QED BY <1>2, <1>4 DEF Contract!Reset

(* A prediction changes no life.                                             *)
LEMMA PredictKeepsLives ==
    ASSUME NEW n \in Nat, NEW p \in Pools(n), DistinctIds(p, n)
    PROVE  LivesOf(Predict(p)) = LivesOf(p)
  <1> DEFINE q == Predict(p)
  <1>1. q \in Pools(n) /\ \A i \in 1 .. n : Row(q, i) = AgedRow(Row(p, i))
    BY PredictRows
  <1>2. RowsOf(p) = 1 .. n /\ RowsOf(q) = 1 .. n
    BY <1>1 DEF RowsOf, Pools
  <1>3. ASSUME NEW i \in 1 .. n
        PROVE  q.tracks[i].id = p.tracks[i].id /\ Life(q.tracks[i]) = Life(p.tracks[i])
    <2>1. Row(q, i).track = q.tracks[i] /\ Row(p, i).track = p.tracks[i]
      BY DEF Row
    <2>2. q.tracks[i] = [p.tracks[i] EXCEPT !.age = @ + 1]
      BY <1>1, <2>1 DEF AgedRow
    <2>3. p.tracks[i] \in TrackRecords
      BY DEF Pools
    <2> QED BY <2>2, <2>3 DEF TrackRecords, Life
  <1> HIDE DEF q
  <1>4. DistinctIds(q, n)
    BY <1>3 DEF DistinctIds
  <1>5. /\ DOMAIN LivesOf(q) = {q.tracks[i].id : i \in 1 .. n}
        /\ \A i \in 1 .. n : LivesOf(q)[q.tracks[i].id] = Life(q.tracks[i])
    BY <1>1, <1>4, LifeOfRow
  <1>6. /\ DOMAIN LivesOf(p) = {p.tracks[i].id : i \in 1 .. n}
        /\ \A i \in 1 .. n : LivesOf(p)[p.tracks[i].id] = Life(p.tracks[i])
    BY LifeOfRow
  <1>7. LivesOf(q) = [id \in DOMAIN LivesOf(q) |-> LivesOf(q)[id]]
    BY DEF LivesOf
  <1>8. LivesOf(p) = [id \in DOMAIN LivesOf(p) |-> LivesOf(p)[id]]
    BY DEF LivesOf
  <1>9. DOMAIN LivesOf(q) = DOMAIN LivesOf(p)
    BY <1>3, <1>5, <1>6
  <1>10. ASSUME NEW id \in DOMAIN LivesOf(p) PROVE LivesOf(q)[id] = LivesOf(p)[id]
    <2>1. PICK i \in 1 .. n : id = p.tracks[i].id
      BY <1>6
    <2> QED BY <1>3, <1>5, <1>6, <2>1
  <1>11. LivesOf(q) = LivesOf(p)
    BY <1>7, <1>8, <1>9, <1>10
  <1> QED BY <1>11 DEF q

LEMMA InitContract == Init => Contract!Init
  <1> SUFFICES ASSUME Init PROVE Contract!Init
    OBVIOUS
  <1>1. IInv
    BY InitIInv
  <1>2. ASSUME NEW k \in Trackers PROVE LivesOf(pool[k]) = [id \in {} |-> [hits |-> 0, missed |-> 0]]
    <2>1. lastTag[k] = None
      BY DEF Init, BaseInit
    <2>2. Rows(k) = {}
      BY <1>1, <2>1 DEF IInv, PoolInv
    <2>3. RowsOf(pool[k]) = {}
      BY <2>2 DEF Rows
    <2> QED BY <2>3 DEF LivesOf
  <1>3. lives = [k \in Trackers |-> LivesOf(pool[k])]
    BY LivesOfPools
  <1>4. lives = [k \in Trackers |-> [id \in {} |-> [hits |-> 0, missed |-> 0]]]
    BY <1>2, <1>3
  <1>5. issued = 0 /\ answer = [k \in Trackers |-> Returned({})]
    BY DEF Init, BaseInit
  <1> QED BY <1>4, <1>5 DEF Contract!Init, Contract!Returned, Returned

LEMMA StepContract == IInv /\ [Next]_vars => [Contract!Next]_(Contract!vars)
  <1> SUFFICES ASSUME IInv, [Next]_vars PROVE Contract!Next \/ UNCHANGED Contract!vars
    OBVIOUS
  <1>0. TypeOK /\ DOMAIN pool = Trackers
    BY DEF IInv, TypeOK
  <1>1. ASSUME NEW k \in Trackers, NEW tag, NEW given, NEW leftovers,
               PlainFrame(k, tag, given, leftovers)
        PROVE  Contract!Next
    <2>1. \E opened : AFrame(k, tag, opened, given, leftovers, 0)
      BY <1>1 DEF PlainFrame
    <2>2. Contract!Frame(k)
      BY <2>1, FrameKeepsContract
    <2> QED BY <2>2 DEF Contract!Next
  <1>2. ASSUME NEW k \in Trackers, NEW tag, NEW given, NEW leftovers, NEW telemetry,
               NEW motion, NEW found,
               MovedFrame(k, tag, given, leftovers, telemetry, motion, found)
        PROVE  Contract!Next
    <2>1. \E opened, now : AFrame(k, tag, opened, given, leftovers, now)
      BY <1>2 DEF MovedFrame
    <2>2. Contract!Frame(k)
      BY <2>1, FrameKeepsContract
    <2> QED BY <2>2 DEF Contract!Next
  <1>3. ASSUME NEW k \in Trackers, Failure(k) PROVE Contract!Next
    <2>1. /\ pool' = [pool EXCEPT ![k] = Predict(pool[k])]
          /\ answer' = [answer EXCEPT ![k] = Raised] /\ issued' = issued
      BY <1>3 DEF Failure, BotSortRaise, Abandon
    <2>2. lives' = [lives EXCEPT ![k] = LivesOf(Predict(pool[k]))]
      BY <1>0, <2>1, LivesChange
    <2>3. PoolInv(k)
      BY DEF IInv
    <2>4. LivesOf(Predict(pool[k])) = LivesOf(pool[k])
      BY <1>0, <2>3, BeforeFrame, PredictKeepsLives
    <2>5. lives' = lives
      BY <2>2, <2>4, LivesOfPools
    <2>6. Contract!Raise(k)
      BY <2>1, <2>5, RaiseKeepsContract
    <2> QED BY <2>6 DEF Contract!Next
  <1>4. ASSUME UNCHANGED pool PROVE UNCHANGED lives
    BY <1>4 DEF lives, Rows, RowsOf
  <1>5. ASSUME NEW k \in Trackers, Quiet(k) PROVE Contract!Next
    <2>1. /\ answer' = [answer EXCEPT ![k] = Raised] /\ issued' = issued /\ lives' = lives
      BY <1>4, <1>5 DEF Quiet, Refuse
    <2>2. Contract!Raise(k)
      BY <2>1, RaiseKeepsContract
    <2> QED BY <2>2 DEF Contract!Next
  <1>6. ASSUME NEW k \in Trackers, Restart(k) PROVE Contract!Next
    <2>1. pool' = [pool EXCEPT ![k] = Emptied(@)] /\ UNCHANGED <<issued, answer>>
      BY <1>6 DEF Restart, Reset
    <2>2. Contract!Reset(k)
      BY <1>0, <2>1, ResetKeepsContract
    <2> QED BY <2>2 DEF Contract!Next
  <1>7. CASE UNCHANGED vars
    BY <1>4, <1>7 DEF vars, baseVars, Contract!vars
  <1> QED BY <1>1, <1>2, <1>3, <1>5, <1>6, <1>7, StepCases

(* The refinement: every algorithm of every tracker keeps the contract of    *)
(* TrackerContract - who lives, who dies and who is shown follows from who   *)
(* was seen, max_age and min_hits, a failed frame costs nobody a life, and   *)
(* no number is given out twice (mot/base.py).                               *)
THEOREM TrackersKeepTheContract == Spec => KeepsContract
  <1>1. IInv /\ [Next]_vars => [Contract!Next]_(Contract!vars)
    BY StepContract
  <1> QED BY <1>1, InitContract, InductiveInvariant, PTL DEF Spec, KeepsContract, Contract!Spec

================================================================================
