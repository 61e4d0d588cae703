------------------------------- MODULE NativePool -------------------------------
(***************************************************************************)
(* csrc/shipvision/mot/pool.cpp: the pool of the compiled trackers, as      *)
(* operators on a session's pool.  Row i of every column is about           *)
(* tracks[i], and a dropped row is written over in place.  A detection is   *)
(* named by its position in the frame's own list.                           *)
(*                                                                          *)
(* States and measurements are abstracted as in TrackPool.  Ids are local   *)
(* to the pool.  Positions count from 1, and 0 stands for the code's -1.    *)
(***************************************************************************)
EXTENDS Integers, Sequences, FiniteSets, SequencesExt

CONSTANTS MaxAge, MinHits

(* The constructor: the ring holds one measurement at least.                 *)
NewPool(observationHistory, reUpdate) ==
    [history |-> IF observationHistory > 1 THEN observationHistory ELSE 1,
     reUpdate |-> reUpdate, lastTrackId |-> 0, tracks |-> <<>>, states |-> <<>>,
     observedStates |-> <<>>, observed |-> <<>>, observations |-> <<>>]

Rows(p) == DOMAIN p.tracks

(* rows(pool_.size()), iota                                                  *)
AllRows(p) == [i \in Rows(p) |-> i]

(* predict clears last_match: nothing of this frame has been given yet.      *)
Predict(p) ==
    [p EXCEPT !.tracks = [i \in Rows(p) |-> [p.tracks[i] EXCEPT !.age = @ + 1, !.last_match = 0]],
              !.states = [i \in Rows(p) |-> [p.states[i] EXCEPT !.time = @ + 1]]]

(* apply_camera_motion warps each row's states, measurement and ring.        *)
ApplyCameraMotion(p, motion) ==
    LET Warped(x) == [x EXCEPT !.pose = @ + motion]
        Column(f) == [i \in Rows(p) |-> Warped(f[i])]
        Ring(entries) == [j \in DOMAIN entries |->
                             [entries[j] EXCEPT !.measured = Warped(@)]]
    IN [p EXCEPT !.states = Column(@), !.observedStates = Column(@), !.observed = Column(@),
                 !.observations = [i \in Rows(p) |-> Ring(p.observations[i])]]

(* promote_if_earned                                                         *)
PromoteIfEarned(track) ==
    IF track.state = "tentative" /\ track.hits >= MinHits
    THEN [track EXCEPT !.state = "confirmed"] ELSE track

(* re_update_gap: nothing for a row that did not coast; otherwise the state  *)
(* of the last observation, one predict and update per missed frame, and one *)
(* predict more.                                                             *)
ReUpdateGap(p, row) ==
    LET gap == p.tracks[row].time_since_update IN
    IF p.reUpdate /\ gap >= 1
    THEN [p.observedStates[row] EXCEPT !.time = @ + gap + 1] ELSE p.states[row]

(* emplace_back, then pop_front while it is too long.                        *)
Push(p, ring, entry) ==
    LET longer == Append(ring, entry) IN
    SubSeq(longer, IF Len(longer) > p.history THEN Len(longer) - p.history + 1 ELSE 1, Len(longer))

Corrected(track, column) ==
    LET hit == [track EXCEPT !.hits = @ + 1, !.time_since_update = 0, !.last_match = column] IN
    IF hit.state = "lost" THEN [hit EXCEPT !.state = "confirmed"] ELSE PromoteIfEarned(hit)

(* A list of <<row, position>> pairs in which no row occurs twice.           *)
ColumnsOf(matches) ==
    [row \in {m[1] : m \in Range(matches)} |-> (CHOOSE m \in Range(matches) : m[1] = row)[2]]

Written(old, new) == [row \in DOMAIN old |-> IF row \in DOMAIN new THEN new[row] ELSE old[row]]

(* apply_matches: each row is corrected with what it was before.             *)
ApplyMatches(p, matches, detections, pose) ==
    LET column == ColumnsOf(matches)
        seen == [row \in DOMAIN column |-> [det |-> detections[column[row]], pose |-> pose]]
        state == [row \in DOMAIN column |-> [ReUpdateGap(p, row) EXCEPT !.last = seen[row].det]]
    IN [p EXCEPT
        !.tracks = Written(@, [row \in DOMAIN column |-> Corrected(@[row], column[row])]),
        !.states = Written(@, state),
        !.observedStates = Written(@, state),
        !.observed = Written(@, seen),
        !.observations = Written(@, [row \in DOMAIN column |->
            Push(p, @[row], [age |-> p.tracks[row].age, measured |-> seen[row]])])]

Missed(track) ==
    LET late == [track EXCEPT !.time_since_update = @ + 1] IN
    [late EXCEPT !.state = IF @ = "tentative" \/ late.time_since_update > MaxAge
                           THEN "removed" ELSE "lost"]

(* mark_missed                                                               *)
MarkMissed(p, rows) ==
    [p EXCEPT !.tracks = [i \in Rows(p) |-> IF i \in Range(rows) THEN Missed(p.tracks[i])
                                                                 ELSE p.tracks[i]]]

(* Mutant of Newborn: a birth is not a match.                                *)
NewbornUnmatched(local, column) ==
    PromoteIfEarned([track_id |-> local, state |-> "tentative", age |-> 1, hits |-> 1,
                     time_since_update |-> 0, last_match |-> 0])

Newborn(local, column) ==
    PromoteIfEarned([track_id |-> local, state |-> "tentative", age |-> 1, hits |-> 1,
                     time_since_update |-> 0, last_match |-> column])

(* spawn: the detections at the given positions, in that order.              *)
Spawn(p, detections, columns, pose) ==
    LET seen == [j \in DOMAIN columns |-> [det |-> detections[columns[j]], pose |-> pose]]
        state == [j \in DOMAIN columns |-> [last |-> seen[j].det, time |-> 0, pose |-> pose]]
    IN [p EXCEPT
        !.lastTrackId = @ + Len(columns),
        !.tracks = @ \o [j \in DOMAIN columns |-> Newborn(p.lastTrackId + j, columns[j])],
        !.states = @ \o state,
        !.observedStates = @ \o state,
        !.observed = @ \o seen,
        !.observations = @ \o [j \in DOMAIN columns |-> <<[age |-> 1, measured |-> seen[j]]>>]]

(* Mutant of CopyDown: the state of the last observation stays where it was. *)
CopyDownButObservedStates(p, from, to) ==
    [p EXCEPT !.tracks = [@ EXCEPT ![to] = p.tracks[from]],
              !.states = [@ EXCEPT ![to] = p.states[from]],
              !.observed = [@ EXCEPT ![to] = p.observed[from]],
              !.observations = [@ EXCEPT ![from] = <<>>, ![to] = p.observations[from]]]

(* One row moved down over a dropped one; its ring is moved, not copied.     *)
CopyDown(p, from, to) ==
    [p EXCEPT !.tracks = [@ EXCEPT ![to] = p.tracks[from]],
              !.states = [@ EXCEPT ![to] = p.states[from]],
              !.observedStates = [@ EXCEPT ![to] = p.observedStates[from]],
              !.observed = [@ EXCEPT ![to] = p.observed[from]],
              !.observations = [@ EXCEPT ![from] = <<>>, ![to] = p.observations[from]]]

(* A row that stays is moved down in place.                                  *)
Visited(seen, i) ==
    IF seen.p.tracks[i].state = "removed" THEN seen
    ELSE [kept |-> seen.kept + 1,
          p |-> IF seen.kept + 1 = i THEN seen.p ELSE CopyDown(seen.p, i, seen.kept + 1)]

(* sweep: row by row, then what is left behind the last one is cut off.      *)
Sweep(pool) ==
    LET visited[i \in 0 .. Len(pool.tracks)] ==
            IF i = 0 THEN [kept |-> 0, p |-> pool] ELSE Visited(visited[i - 1], i)
        end == visited[Len(pool.tracks)]
        Cut(column) == SubSeq(column, 1, end.kept)
    IN [end.p EXCEPT !.tracks = Cut(@), !.states = Cut(@), !.observedStates = Cut(@),
                     !.observed = Cut(@), !.observations = Cut(@)]

(* reset: the counter of ids goes on.                                        *)
Cleared(p) == [NewPool(p.history, p.reUpdate) EXCEPT !.lastTrackId = p.lastTrackId]
================================================================================
