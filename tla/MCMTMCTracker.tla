------------------------------ MODULE MCMTMCTracker ------------------------------
(* Two tracks of one camera and one of another, with the instants since the  *)
(* latest reset written down, and the gate's streaks compared with what the  *)
(* log says.                                                                 *)
EXTENDS MTMCTracker, Sequences

MCKeys == 1 .. 3
MCCameraOf == [k \in MCKeys |-> IF k <= 2 THEN "a" ELSE "b"]

VARIABLE log     \* the instants the gate was shown since the latest reset

LoggedInit == TrackerInit /\ log = <<>>

LoggedNext ==
    \/ \E instant \in Instants :
        /\ Track(instant) \/ TrackRefused(instant) \/ TrackFails(instant)
        /\ log' = Append(log, [cameras |-> instant.cameras, tall |-> instant.tall])
    \/ (Work \/ Return) /\ UNCHANGED log
    \/ TrackerReset /\ log' = <<>>

LoggedSpec == LoggedInit /\ [][LoggedNext]_<<tracker, log>>

--------------------------------------------------------------------------------
Reports(i, k) == CameraOf[k] \in log[i].cameras
Qualifies(i, k) == k \in log[i].tall

(* The instants i .. Len(log) are one streak of k: it qualified whenever its *)
(* camera reported, the first time at i, and its camera was never missing    *)
(* for more than MaxAbsent instants in a row.                                *)
IsStreak(i, k) ==
    /\ Qualifies(i, k)
    /\ \A j \in i .. Len(log) : Reports(j, k) => Qualifies(j, k)
    /\ \A j \in i .. Len(log) - MaxAbsent : \E m \in j .. j + MaxAbsent : Reports(m, k)

(* The two maps the gate rebuilds every instant (gating.py filter) hold the  *)
(* streaks a backward reading of the whole history gives, whatever became of *)
(* the calls: neither a flicker nor an absent camera that comes back too     *)
(* late carries a count on, and no instant without the camera costs one.     *)
StreaksAreConsecutive ==
    \A k \in Keys : streaks[k] = Cardinality({i \in 1 .. Len(log) : IsStreak(i, k)})
================================================================================
