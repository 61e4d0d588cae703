------------------------------ MODULE NativeTracker ------------------------------
(***************************************************************************)
(* The compiled trackers: shipvision/mot/backends/native.py around a        *)
(* session of csrc/bindings/mot.cpp, which owns a C++ tracker and its pool. *)
(*                                                                          *)
(* Three things live on the Python side and follow the pool from there: the *)
(* process-wide id of each pool-local one, the appearance of each track,    *)
(* and, for BoT-SORT, the camera-motion estimator.  An appearance is the    *)
(* list of the detections blended into it.                                  *)
(*                                                                          *)
(* A frame is a list of detections in the caller's order, of which some are *)
(* below every threshold: the C++ trackers name detections by their place   *)
(* in that list, the Python ones by their place among those kept.           *)
(***************************************************************************)
EXTENDS NativePool

CONSTANTS Trackers, Cameras, Algorithms, Estimators, DeltaT, StageBMaxAge, None,
          MaxFrame, MaxUpdates, MaxDetections, MaxIssued, MaxMotion, MaxMoving

ASSUME NativeAssumption == MaxDetections \in Nat /\ MaxMoving \in Nat

VARIABLES session,     \* per tracker: the pool its C++ session owns
          ids,         \* _ids: pool-local id -> process-wide id
          embeddings,  \* _embeddings: pool-local id -> what was blended, oldest first
          intact,      \* history: no frame has failed in the estimator since the reset
          algorithm, lastTag, issued, answer, completed, calls, sightings,
          estimator, pending, reference, pose, measured, applied

native == <<session, ids, embeddings, intact>>
cmcVars == <<estimator, pending, reference, pose, measured, applied>>
vars == <<native, algorithm, lastTag, issued, answer, completed, calls, sightings, cmcVars>>

(* What each C++ tracker asks of its pool.                                   *)
History(name) == IF name = "ocsort" THEN DeltaT + 1 ELSE 0
ReUpdates(name) == name \in {"ocsort", "deepsortv2"}

(* decode: what a caller of the tracker sees of the pool, as the Python      *)
(* tracker would hold it.                                                    *)
Decoded(k) ==
    LET p == session[k] IN
    [history |-> History(algorithm[k]), reUpdate |-> p.reUpdate,
     tracks |-> [i \in Rows(p) |->
        [id |-> ids[k][p.tracks[i].track_id], state |-> p.tracks[i].state,
         age |-> p.tracks[i].age, hits |-> p.tracks[i].hits,
         time_since_update |-> p.tracks[i].time_since_update]],
     means |-> p.states, observedMeans |-> p.observedStates, observed |-> p.observed,
     observations |-> p.observations]

Python == INSTANCE MotTrackers WITH pool <- [k \in Trackers |-> Decoded(k)]

Nothing == [local \in {} |-> 0]

Init ==
    /\ algorithm \in [Trackers -> Algorithms]
    /\ estimator \in {e \in [Trackers -> Estimators \cup {None}] :
                        \A k \in Trackers : e[k] = None <=> algorithm[k] # "botsort"}
    /\ session = [k \in Trackers |-> NewPool(History(algorithm[k]), ReUpdates(algorithm[k]))]
    /\ ids = [k \in Trackers |-> Nothing]
    /\ embeddings = [k \in Trackers |-> Nothing]
    /\ intact = [k \in Trackers |-> TRUE]
    /\ lastTag = [k \in Trackers |-> None]
    /\ issued = 0
    /\ answer = [k \in Trackers |-> Python!Returned({})]
    /\ completed = [k \in Trackers |-> 0]
    /\ calls = 0
    /\ sightings = <<>>
    /\ Python!CmcInit

(* begin, which only records the tag on this side of the boundary.           *)
Begin(k, tag) ==
    /\ calls < MaxUpdates /\ calls' = calls + 1
    /\ Python!Accepts(k, tag)
    /\ lastTag' = [lastTag EXCEPT ![k] = tag]

(* The detections of a frame, numbered as the Python trackers number those   *)
(* they keep; tiers gives each one's score range.                            *)
Frame(tag, tiers) ==
    LET Tier(name) == {j \in DOMAIN tiers : tiers[j] = name}
        Place(j) == Cardinality({i \in Tier(tiers[j]) : i <= j})
                        + IF tiers[j] = "low" THEN Cardinality(Tier("high")) ELSE 0
    IN [j \in DOMAIN tiers |-> Python!Detection(tag, Place(j), tiers[j])]

(* The members of a list that are chosen, in its order; and those not taken. *)
Among(list, chosen) ==
    LET found[n \in 0 .. Len(list)] ==
            IF n = 0 THEN <<>>
            ELSE IF list[n] \in chosen THEN Append(found[n - 1], list[n]) ELSE found[n - 1]
    IN found[Len(list)]

Without(list, taken) == Among(list, Range(list) \ taken)

(* The positions of the detections in a tier, in the frame's order.          *)
Columns(tiers, name) ==
    Among([j \in DOMAIN tiers |-> j], {j \in DOMAIN tiers : tiers[j] = name})

(* associate_subset: whatever the costs are, pairs in the order of the rows, *)
(* and what is left of both lists in their order.                            *)
Associations(rows, columns) ==
    LET Outcome(m) ==
            LET paired == Among(rows, DOMAIN m) IN
            [matches |-> [i \in DOMAIN paired |-> <<paired[i], m[paired[i]]>>],
             unmatchedRows |-> Without(rows, DOMAIN m),
             unmatchedColumns |-> Without(columns, {m[r] : r \in DOMAIN m})]
    IN {Outcome(m) : m \in Python!Matchings(Range(rows), Range(columns))}

Live(p) == {p.tracks[i].track_id : i \in Rows(p)}

(* absorb forgets what belongs to no live track, on every frame.             *)
Evicted(map, live) == [local \in DOMAIN map \cap live |-> map[local]]

(* What is new, and for the rest what was there.                             *)
Over(new, old) ==
    [x \in DOMAIN new \cup DOMAIN old |-> IF x \in DOMAIN new THEN new[x] ELSE old[x]]

(* The row of a track among some.                                            *)
RowOf(p, rows, local) == CHOOSE i \in rows : p.tracks[i].track_id = local

(* The rows this frame gave a crop; a detection of low confidence has none.  *)
Crops(p, detections) == {i \in Rows(p) : /\ p.tracks[i].last_match # 0
                                         /\ detections[p.tracks[i].last_match].tier # "low"}

Before(map, local) == IF local \in DOMAIN map THEN map[local] ELSE <<>>

(* blend_embedding, for each of them.                                        *)
Blended(map, p, detections) ==
    LET crops == Crops(p, detections) IN
    Over([local \in {p.tracks[i].track_id : i \in crops} |->
             Append(Before(map, local), detections[p.tracks[RowOf(p, crops, local)].last_match])],
         map)

(* _global_id, row by row: a process-wide id where there is none yet.        *)
Numbered(map, p) ==
    LET new == {i \in Rows(p) : p.tracks[i].track_id \notin DOMAIN map} IN
    Over([local \in {p.tracks[i].track_id : i \in new} |->
             issued + Cardinality({i \in new : i <= RowOf(p, new, local)})], map)

(* The process-wide id of the track a match is about.                        *)
Name(map, p, match) == map[p.tracks[match[1]].track_id]

MatchOf(map, p, matches, id) == CHOOSE match \in Range(matches) : Name(map, p, match) = id

(* The sighting each matched track is given.                                 *)
GivenTo(map, p, matches, detections, frame) ==
    [id \in {Name(map, p, match) : match \in Range(matches)} |->
        [frame |-> frame, det |-> detections[MatchOf(map, p, matches, id)[2]]]]

(* The end of every update: the session closes its frame, and absorb follows *)
(* what it says is alive.  matches and leftovers are what the associations   *)
(* of the frame came to.                                                     *)
Absorb(k, detections, corrected, matches, missed, leftovers, now) ==
    LET closed == Sweep(Spawn(MarkMissed(corrected, missed), detections, leftovers, now))
        live == Live(closed)
        named == Numbered(Evicted(ids[k], live), closed)
        born == issued + Cardinality(live \ DOMAIN ids[k])
        shown == {i \in Rows(closed) : Python!IsPublishable(closed.tracks[i])}
        frame == completed[k] + 1
        given == GivenTo(ids[k], corrected, matches, detections, frame)
    IN /\ born <= MaxIssued
       /\ session' = [session EXCEPT ![k] = closed]
       /\ embeddings' = [embeddings EXCEPT
              ![k] = Evicted(Blended(@, closed, detections), live)]
       /\ ids' = [ids EXCEPT ![k] = named]
       /\ issued' = born
       /\ answer' = [answer EXCEPT ![k] = Python!Returned(
              {named[closed.tracks[i].track_id] : i \in shown})]
       /\ completed' = [completed EXCEPT ![k] = frame]
       /\ sightings' = [id \in 1 .. born |->
              IF id > issued
              THEN <<[frame |-> frame, det |-> detections[leftovers[id - issued]]]>>
              ELSE IF id \in DOMAIN given THEN Append(sightings[id], given[id])
              ELSE sightings[id]]
       /\ UNCHANGED <<intact, algorithm>>

(* The detections a frame may bring, each in the range of scores a tracker   *)
(* treats alike.                                                             *)
Scores(ranges, most) == UNION {[1 .. n -> ranges] : n \in 0 .. most}

SortUpdate(k) ==
    \E tag \in Python!Tags, tiers \in Scores({"high", "noise"}, MaxDetections) :
    /\ Begin(k, tag)
    /\ LET opened == Predict(session[k])
           detections == Frame(tag, tiers)
       IN \E one \in Associations(AllRows(opened), Columns(tiers, "high")) :
            Absorb(k, detections, ApplyMatches(opened, one.matches, detections, 0),
                   one.matches, one.unmatchedRows, one.unmatchedColumns, 0)

(* The rows a second association may be offered, by their state after the    *)
(* first one's corrections.                                                  *)
Trusted(p, rows) == Among(rows, {r \in Rows(p) : p.tracks[r].state \in {"confirmed", "lost"}})
Untrusted(p, rows) == Among(rows, {r \in Rows(p) : p.tracks[r].state = "tentative"})

(* Two associations, each corrected at once.  The second offers the doubtful *)
(* detections to the trusted rows left; only the confident ones the first    *)
(* left may start a track.                                                   *)
TwoTiers(k, opened, tag, tiers, now) ==
    \E first \in Associations(AllRows(opened), Columns(tiers, "high")) :
    LET detections == Frame(tag, tiers)
        once == ApplyMatches(opened, first.matches, detections, now)
        eligible == Trusted(once, first.unmatchedRows)
    IN \E second \in Associations(eligible, Columns(tiers, "low")) :
        Absorb(k, detections, ApplyMatches(once, second.matches, detections, now),
               first.matches \o second.matches,
               second.unmatchedRows \o Untrusted(once, first.unmatchedRows),
               first.unmatchedColumns, now)

ByteTrackUpdate(k) ==
    \E tag \in Python!Tags, tiers \in Scores({"high", "low", "noise"}, MaxDetections) :
        Begin(k, tag) /\ TwoTiers(k, Predict(session[k]), tag, tiers, 0)

(* The recovery offers them what the first association left; with recover    *)
(* off it is one that pairs nothing.                                         *)
OcSortUpdate(k) ==
    \E tag \in Python!Tags, tiers \in Scores({"high", "noise"}, MaxDetections) :
    /\ Begin(k, tag)
    /\ LET opened == Predict(session[k])
           detections == Frame(tag, tiers)
       IN \E primary \in Associations(AllRows(opened), Columns(tiers, "high")) :
          LET once == ApplyMatches(opened, primary.matches, detections, 0)
              eligible == Trusted(once, primary.unmatchedRows)
          IN \E recovered \in Associations(eligible, primary.unmatchedColumns) :
             Absorb(k, detections, ApplyMatches(once, recovered.matches, detections, 0),
                    primary.matches \o recovered.matches,
                    recovered.unmatchedRows \o Untrusted(once, primary.unmatchedRows),
                    recovered.unmatchedColumns, 0)

Recent(p) == {r \in Rows(p) : p.tracks[r].time_since_update <= StageBMaxAge}

(* The cascade, the recent, the recovery and the tentative, in that order;   *)
(* nothing is corrected before all four have chosen.  The cascade's bands    *)
(* only order its pairs.                                                     *)
DeepSortV2Update(k) ==
    \E tag \in Python!Tags, tiers \in Scores({"high", "noise"}, MaxDetections) :
    /\ Begin(k, tag)
    /\ LET opened == Predict(session[k])
           recent == Recent(opened)
           tentative == Untrusted(opened, AllRows(opened))
       IN \E a \in Associations(Trusted(opened, AllRows(opened)), Columns(tiers, "high")) :
          \E b \in Associations(Among(a.unmatchedRows, recent), a.unmatchedColumns) :
          LET leftovers == Without(a.unmatchedRows, recent) \o b.unmatchedRows
          IN \E edge \in SUBSET Range(leftovers) :
             \E c \in Associations(Without(leftovers, edge), b.unmatchedColumns) :
             \E d \in Associations(tentative, c.unmatchedColumns) :
             LET matches == a.matches \o b.matches \o c.matches \o d.matches
                 detections == Frame(tag, tiers)
             IN Absorb(k, detections, ApplyMatches(opened, matches, detections, 0), matches,
                       c.unmatchedRows \o d.unmatchedRows \o Among(leftovers, edge),
                       d.unmatchedColumns, 0)

(* _advance asks the estimator before the session hears of the frame.        *)
BotSortUpdate(k) ==
    \E tag \in Python!Tags, tiers \in Scores({"high", "low", "noise"}, MaxMoving),
       telemetry \in Python!Telemetry(k), found \in Python!Found(k) :
    \E motion \in Python!Motions(telemetry) :
    LET affine == Python!Pushed(k, telemetry)
        now == pose[k] + motion
    IN /\ Begin(k, tag)
       /\ TwoTiers(k, ApplyCameraMotion(Predict(session[k]), Python!Estimate(k, affine, now, found)),
                   tag, tiers, now)
       /\ Python!Estimated(k, telemetry, affine, now, found)

(* So that when it raises, no filter has been advanced.                      *)
BotSortRaise(k) ==
    \E tag \in Python!Tags, telemetry \in Python!Telemetry(k) :
    \E motion \in Python!Motions(telemetry) :
        /\ Begin(k, tag)
        /\ Python!EstimateRaised(k, telemetry, motion)
        /\ answer' = [answer EXCEPT ![k] = Python!Raised]
        /\ intact' = [intact EXCEPT ![k] = FALSE]
        /\ UNCHANGED <<session, ids, embeddings, algorithm, issued, completed, sightings>>

(* begin refuses the frame before anything crosses the boundary.             *)
Refuse(k) ==
    /\ calls < MaxUpdates /\ calls' = calls + 1
    /\ Python!Refused(k) # {}
    /\ answer' = [answer EXCEPT ![k] = Python!Raised]
    /\ UNCHANGED <<native, algorithm, lastTag, issued, completed, sightings>>

(* reset: the session's, the maps', and the tag.                             *)
Reset(k) ==
    /\ session' = [session EXCEPT ![k] = Cleared(@)]
    /\ ids' = [ids EXCEPT ![k] = Nothing]
    /\ embeddings' = [embeddings EXCEPT ![k] = Nothing]
    /\ intact' = [intact EXCEPT ![k] = TRUE]
    /\ lastTag' = [lastTag EXCEPT ![k] = None]
    /\ UNCHANGED <<algorithm, issued, answer, completed, calls, sightings>>

Plain(k) == algorithm[k] # "botsort" /\ UNCHANGED cmcVars

Next ==
    \E k \in Trackers :
        \/ Plain(k) /\ algorithm[k] = "sort" /\ SortUpdate(k)
        \/ Plain(k) /\ algorithm[k] = "bytetrack" /\ ByteTrackUpdate(k)
        \/ Plain(k) /\ algorithm[k] = "ocsort" /\ OcSortUpdate(k)
        \/ Plain(k) /\ algorithm[k] = "deepsortv2" /\ DeepSortV2Update(k)
        \/ Plain(k) /\ (Refuse(k) \/ Reset(k))
        \/ algorithm[k] = "botsort" /\ (BotSortUpdate(k) \/ BotSortRaise(k))
        \/ algorithm[k] = "botsort" /\ Refuse(k) /\ Python!PushedInVain(k)
        \/ algorithm[k] = "botsort" /\ Reset(k) /\ Python!CmcReset(k)

Spec == Init /\ [][Next]_vars

------------------------------------------------------------------------------
(* "The readable class above is the specification": whatever a compiled      *)
(* tracker does to its rows, and whatever ids the wrapper invents, a caller  *)
(* sees one of the runs of the Python tracker, for as long as no frame of    *)
(* it has failed in the estimator (trackers/*/tracker.py).                   *)
ImplementsPython ==
    /\ Python!Init
    /\ [][(\A k \in Trackers : intact'[k]) => Python!Next]_(Python!vars)

(* "Both maps follow the C++ pool's own lifecycle": they have an entry for   *)
(* each live track and for no other, and no two tracks share an id; and a    *)
(* track's appearance is blended from the crops of that very track, each     *)
(* once and in order, from its birth on, whatever rows were swept and        *)
(* whatever the position of the detection in the frame (native.py absorb,    *)
(* pool.cpp last_match).                                                     *)
AppearanceFollows ==
    \A k \in Trackers :
    /\ DOMAIN ids[k] = Live(session[k]) /\ DOMAIN embeddings[k] = Live(session[k])
    /\ \A l, m \in DOMAIN ids[k] : l # m => ids[k][l] # ids[k][m]
    /\ \A local \in DOMAIN ids[k] :
        LET seen == sightings[ids[k][local]]
            clear == {j \in DOMAIN seen : seen[j].det.tier # "low"}
            blended == embeddings[k][local]
        IN /\ Len(blended) = Cardinality(clear)
           /\ \A j \in clear : blended[Cardinality({i \in clear : i <= j})] = seen[j].det
================================================================================
