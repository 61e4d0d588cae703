--------------------------- MODULE MTMCTrackerProofs ---------------------------
(***************************************************************************)
(* Theorems about MTMCTracker.  Every step of the tracker is one of the     *)
(* assigner's, or the refused call, which leaves the assigner as if nothing *)
(* had been asked, so the assigner's invariants (GlobalIdAssignerProofs)    *)
(* are the tracker's; what is added is that the tracks the assigner works   *)
(* on are visible in the instant being reported.  The second part is about  *)
(* the gate alone: its two maps against the whole log of instants.          *)
(***************************************************************************)
EXTENDS MCMTMCTracker, GlobalIdAssignerProofs

(* The tracks of the call are seen in the instant that is reported.          *)
ObservedAreVisible == pc \notin {"idle"} => observed \subseteq view.visible

TrackerInv == /\ StoreInv /\ AheadOfRegister /\ EvictionInv
              /\ ObservedAreVisible
              /\ MembersVouch

--------------------------------------------------------------------------------
(* A call the matcher refuses: no answer, and nothing else of the assigner   *)
(* changes.                                                                  *)
LEMMA RefusalKeepsAssigner ==
    ASSUME StoreInv, AheadOfRegister, EvictionInv, NEW instant \in Instants,
           TrackRefused(instant)
    PROVE  StoreInv' /\ AheadOfRegister' /\ EvictionInv'
  <1>1. /\ pc \in Resting /\ pc' = "idle" /\ orphans' = FALSE
        /\ UNCHANGED <<counter, step, maps, known, issued>>
    BY DEF TrackRefused, Offer
  <1>2. TypeOK' /\ Inverted' /\ IdsIssued' /\ StampsPast' /\ OwnedAreTracked'
    BY <1>1, QuietStepKeepsStore DEF StoreInv, maps, Resting
  <1>3. InstantConsistent' /\ PlacingConsistent'
    BY <1>1 DEF InstantConsistent, PlacingConsistent
  <1>4. OnePerCamera'
    BY <1>1 DEF StoreInv, OnePerCamera, Owned, maps, Resting
  <1>5. AheadOfRegister'
    BY <1>1 DEF AheadOfRegister, maps, Resting, Working
  <1>6. EvictionInv'
    BY <1>1 DEF EvictionInv, SeenOnesStay
  <1> QED BY <1>2, <1>3, <1>4, <1>5, <1>6 DEF StoreInv

(* Every other step of the tracker is one of the assigner.                   *)
LEMMA TrackerKeepsAssigner ==
    ASSUME StoreInv, AheadOfRegister, EvictionInv, [TrackerNext]_tracker
    PROVE  StoreInv' /\ AheadOfRegister' /\ EvictionInv'
  <1>1. ASSUME [Next]_vars PROVE StoreInv' /\ AheadOfRegister' /\ EvictionInv'
    <2>1. StoreInv'
      BY <1>1, StepKeepsStore
    <2>2. AheadOfRegister'
      BY <1>1, <2>1, StepKeepsAhead
    <2> QED BY <1>1, <2>1, <2>2, StepKeepsEviction
  <1>2. ASSUME NEW instant \in Instants, Track(instant) PROVE [Next]_vars
    <2>1. LetIn(instant) \in SUBSET Keys
      BY DEF Instants, LetIn, Gate!Admitted
    <2> QED BY <1>2, <2>1 DEF Track, Next
  <1>3. ASSUME NEW instant \in Instants, TrackFails(instant) PROVE [Next]_vars
    <2>1. LetIn(instant) \in SUBSET Keys
      BY DEF Instants, LetIn, Gate!Admitted
    <2> QED BY <1>3, <2>1 DEF TrackFails, Next
  <1>4. ASSUME NEW instant \in Instants, TrackRefused(instant)
        PROVE  StoreInv' /\ AheadOfRegister' /\ EvictionInv'
    BY <1>4, RefusalKeepsAssigner
  <1>5. CASE Work \/ Return \/ TrackerReset
    BY <1>1, <1>5 DEF Work, Return, TrackerReset, Next
  <1>6. CASE UNCHANGED tracker
    BY <1>1, <1>6 DEF tracker
  <1> QED BY <1>1, <1>2, <1>3, <1>4, <1>5, <1>6 DEF TrackerNext

(* Inside a call neither its tracks nor its instant change.                  *)
LEMMA StepKeepsVisible ==
    ASSUME ObservedAreVisible, [TrackerNext]_tracker
    PROVE  ObservedAreVisible'
  <1>1. ASSUME NEW instant \in Instants, Track(instant) PROVE ObservedAreVisible'
    <2>1. observed' = LetIn(instant) /\ view' = instant
      BY <1>1 DEF Track, Offer, Assign
    <2>2. LetIn(instant) \subseteq instant.visible
      BY DEF Instants, LetIn, Gate!Admitted
    <2> QED BY <2>1, <2>2 DEF ObservedAreVisible
  <1>2. ASSUME NEW instant \in Instants, TrackRefused(instant) \/ TrackFails(instant)
        PROVE  ObservedAreVisible'
    BY <1>2 DEF TrackRefused, TrackFails, AssignFails, ObservedAreVisible
  <1>3. CASE Work
    <2>1. pc # "idle" /\ observed' = observed /\ view' = view
      BY <1>3 DEF Work, Resolve, LeaveCluster, FoundIdentity, ClaimIdentity, Join, Defect, Stay,
                  ReplaceStale, WinPlace, LosePlace, Places, MoveLosers, Publish, AgeOut,
                  TrimTracks, call
    <2> QED BY <2>1 DEF ObservedAreVisible
  <1>4. CASE Return
    BY <1>4 DEF Return, TrimIdentities, call, ObservedAreVisible
  <1>5. CASE TrackerReset
    BY <1>5 DEF TrackerReset, Reset, ObservedAreVisible
  <1>6. CASE UNCHANGED tracker
    BY <1>6 DEF tracker, vars, call, ObservedAreVisible
  <1> QED BY <1>1, <1>2, <1>3, <1>4, <1>5, <1>6 DEF TrackerNext

(* What is reported of a track that kept the identity it was answered is     *)
(* everybody who holds it.                                                   *)
LEMMA ReturnVouches ==
    ASSUME StoreInv', AheadOfRegister, SeenOnesStay', ObservedAreVisible, Return
    PROVE  MembersVouch'
  <1>1. /\ pc = "capping" /\ pc' = "returned" /\ observed' = observed
        /\ published' = published /\ TrimIdentities
        /\ result' = [k \in view.visible |->
                    IF k \in DOMAIN published
                    THEN [global_id |-> published[k],
                          members |-> IF published[k] \in DOMAIN members'
                                      THEN members'[published[k]] ELSE {}]
                    ELSE [global_id |-> None, members |-> {}]]
    BY DEF Return, TrimIdentities, call
  <1>2. observed \subseteq view.visible /\ DOMAIN published = observed /\ observed \subseteq Keys
    BY <1>1 DEF ObservedAreVisible, AheadOfRegister, Working
  <1> SUFFICES ASSUME Cardinality(observed') <= MaxTracks,
                      Cardinality(Range(published')) <= Capacity, NEW k \in observed'
               PROVE  /\ k \in result'[k].members
                      /\ result'[k].members = {j \in Keys : owner'[j] = result'[k].global_id}
    BY DEF MembersVouch
  <1>3. owner'[k] = published[k]
    BY <1>1 DEF SeenOnesStay
  <1>4. k \in Keys /\ published[k] # None
    BY <1>1, <1>2, NoneIsNoId DEF AheadOfRegister, Givable, KnownIds, StoreInv, TypeOK
  <1>5. k \in Owned'
    BY <1>3, <1>4 DEF Owned
  <1>6. /\ published[k] \in DOMAIN members'
        /\ members'[published[k]] = {j \in Keys : owner'[j] = published[k]}
    BY <1>3, <1>5 DEF StoreInv, Inverted, Live
  <1>7. /\ result'[k].global_id = published[k]
        /\ result'[k].members = members'[published[k]]
    BY <1>1, <1>2, <1>6
  <1> QED BY <1>3, <1>4, <1>6, <1>7

LEMMA StepKeepsVouching ==
    ASSUME TrackerInv, StoreInv', EvictionInv', [TrackerNext]_tracker
    PROVE  MembersVouch'
  <1>1. ASSUME pc' # "returned" PROVE MembersVouch'
    BY <1>1 DEF MembersVouch
  <1>2. ASSUME NEW instant \in Instants,
               Track(instant) \/ TrackRefused(instant) \/ TrackFails(instant)
        PROVE  pc' # "returned"
    BY <1>2 DEF Track, TrackRefused, TrackFails, Assign, AssignFails
  <1>3. CASE Work
    <2>1. pc' # "returned"
      BY <1>3 DEF Work, Resolve, LeaveCluster, FoundIdentity, ClaimIdentity, Join, Defect, Stay,
                  ReplaceStale, WinPlace, LosePlace, Places, MoveLosers, Publish, AgeOut,
                  TrimTracks
    <2> QED BY <1>1, <2>1
  <1>4. CASE Return
    BY <1>4, ReturnVouches DEF TrackerInv, EvictionInv
  <1>5. CASE TrackerReset
    BY <1>1, <1>5 DEF TrackerReset, Reset
  <1>6. CASE UNCHANGED tracker
    BY <1>6 DEF tracker, vars, call, maps, TrackerInv, MembersVouch
  <1> QED BY <1>1, <1>2, <1>3, <1>4, <1>5, <1>6 DEF TrackerNext

LEMMA InitTracker == TrackerInit => TrackerInv
  <1>1. TrackerInit => pc = "idle"
    BY DEF TrackerInit, Init
  <1> QED BY <1>1, InitStore, InitAhead, InitEviction
          DEF TrackerInit, TrackerInv, ObservedAreVisible, MembersVouch

(* The members the tracker reports with an id are exactly the tracks that    *)
(* hold it, the reported one among them, after the evictions too, as long as *)
(* the instant fits the limits: for any cameras, tracks, gate and limits,    *)
(* calls that are refused and calls that are repeated.                       *)
THEOREM ReportsVouch == TrackerSpec => []MembersVouch
  <1>1. TrackerInv /\ [TrackerNext]_tracker => TrackerInv'
    BY TrackerKeepsAssigner, StepKeepsVisible, StepKeepsVouching DEF TrackerInv
  <1>2. TrackerInv => MembersVouch
    BY DEF TrackerInv
  <1>3. QED
    BY InitTracker, <1>1, <1>2, PTL DEF TrackerSpec

--------------------------------------------------------------------------------
(* The gate's streaks                                                        *)

StreakOf(k) == {i \in 1 .. Len(log) : IsStreak(i, k)}

LogIsOfInstants ==
    /\ log \in Seq([cameras : SUBSET Cameras, tall : SUBSET Keys])
    /\ \A i \in 1 .. Len(log), k \in Keys : Qualifies(i, k) => Reports(i, k)

(* A track with a streak was last reported on as many instants ago as the    *)
(* second map says.                                                          *)
LastReport(k) == Len(log) - absences[k]
AbsencesAreTrailing ==
    \A k \in Keys : streaks[k] > 0 =>
        /\ absences[k] <= MaxAbsent
        /\ LastReport(k) \in 1 .. Len(log) /\ Reports(LastReport(k), k)
        /\ \A j \in 1 .. Len(log) : j > LastReport(k) => ~Reports(j, k)

StreakInv == /\ streaks \in [Keys -> Nat] /\ absences \in [Keys -> Nat]
             /\ LogIsOfInstants
             /\ AbsencesAreTrailing
             /\ StreaksAreConsecutive

(* Streaks as sets of numbers: n instants, those the camera reported in (R)  *)
(* and those the track qualified in (Q).                                     *)
IsRun(i, n, R, Q) ==
    /\ i \in Q
    /\ \A j \in i .. n : j \in R => j \in Q
    /\ \A j \in i .. n - MaxAbsent : \E m \in j .. j + MaxAbsent : m \in R
Runs(n, R, Q) == {i \in 1 .. n : IsRun(i, n, R, Q)}

(* One instant more: it lengthens the streak, ends it, or is one without the *)
(* camera, which ends it only when there are now too many of those.          *)
Grown(n, next, R, Q) ==
    /\ next \in Q => Runs(next, R, Q) = Runs(n, R, Q) \cup {next}
    /\ next \notin Q /\ next \in R => Runs(next, R, Q) = {}
    /\ next \notin R => Runs(next, R, Q) \subseteq Runs(n, R, Q)
    /\ \A last \in 1 .. n :
           last \in R /\ (\A j \in last + 1 .. n : j \notin R) /\ next \notin R =>
               /\ n - last < MaxAbsent => Runs(next, R, Q) = Runs(n, R, Q)
               /\ n - last >= MaxAbsent => Runs(next, R, Q) = {}

LEMMA RunsGrow ==
    ASSUME NEW n \in Nat, NEW next, next = n + 1, NEW R, NEW Q \in SUBSET R
    PROVE  Grown(n, next, R, Q)
  <1>1. MaxAbsent \in Nat /\ MaxAbsent >= 1
    BY GateLimitsAssumption
  <1> DEFINE Window == next - MaxAbsent .. next
  <1>2. ASSUME NEW i \in 1 .. n
        PROVE  IsRun(i, next, R, Q) <=> /\ IsRun(i, n, R, Q)
                                        /\ next \in R => next \in Q
                                        /\ next - MaxAbsent >= i => \E m \in Window : m \in R
    <2>1. (\A j \in i .. next : j \in R => j \in Q) <=>
              (\A j \in i .. n : j \in R => j \in Q) /\ (next \in R => next \in Q)
      <3>1. i .. next = (i .. n) \cup {next}
        OBVIOUS
      <3> QED BY <3>1, Zenon
    <2>2. (\A j \in i .. next - MaxAbsent : \E m \in j .. j + MaxAbsent : m \in R) <=>
              /\ \A j \in i .. n - MaxAbsent : \E m \in j .. j + MaxAbsent : m \in R
              /\ next - MaxAbsent >= i => \E m \in Window : m \in R
      <3>1. CASE next - MaxAbsent >= i
        <4>1. i .. next - MaxAbsent = (i .. n - MaxAbsent) \cup {next - MaxAbsent}
          BY <1>1, <3>1
        <4>2. Window = next - MaxAbsent .. (next - MaxAbsent) + MaxAbsent
          BY <1>1
        <4> HIDE DEF Window
        <4> QED BY <3>1, <4>1, <4>2, Zenon
      <3>2. CASE ~(next - MaxAbsent >= i)
        <4>1. i .. next - MaxAbsent = {} /\ i .. n - MaxAbsent = {}
          BY <1>1, <3>2
        <4> QED BY <3>2, <4>1, Zenon
      <3> QED BY <3>1, <3>2
    <2> HIDE DEF Window
    <2> QED BY <2>1, <2>2 DEF IsRun
  <1>3. next \in Q => IsRun(next, next, R, Q)
    <2>1. next .. next = {next} /\ next .. next - MaxAbsent = {}
      BY <1>1
    <2> QED BY <2>1 DEF IsRun
  <1>4. IsRun(next, next, R, Q) => next \in Q
    BY DEF IsRun
  <1>5. 1 .. next = (1 .. n) \cup {next}
    OBVIOUS
  <1>6. ASSUME next \in Q PROVE Runs(next, R, Q) = Runs(n, R, Q) \cup {next}
    <2>1. next \in Window /\ next \in R
      BY <1>1, <1>6
    <2> HIDE DEF Window
    <2> QED BY <1>2, <1>3, <1>5, <1>6, <2>1 DEF Runs
  <1>7. ASSUME next \notin Q, next \in R PROVE Runs(next, R, Q) = {}
    BY <1>2, <1>4, <1>5, <1>7 DEF Runs
  <1>8. ASSUME next \notin R PROVE Runs(next, R, Q) \subseteq Runs(n, R, Q)
    BY <1>2, <1>4, <1>5, <1>8 DEF Runs
  <1>9. ASSUME NEW last \in 1 .. n, last \in R, \A j \in last + 1 .. n : j \notin R, next \notin R
        PROVE  /\ n - last < MaxAbsent => Runs(next, R, Q) = Runs(n, R, Q)
               /\ n - last >= MaxAbsent => Runs(next, R, Q) = {}
    <2>1. ASSUME n - last < MaxAbsent PROVE Runs(next, R, Q) = Runs(n, R, Q)
      <3>1. last \in Window
        BY <1>1, <2>1
      <3> HIDE DEF Window
      <3> QED BY <1>2, <1>4, <1>5, <1>9, <3>1 DEF Runs
    <2>2. ASSUME n - last >= MaxAbsent PROVE Runs(next, R, Q) = {}
      <3>1. ASSUME NEW i \in 1 .. n, IsRun(i, next, R, Q) PROVE FALSE
        <4>1. i \in R
          BY <3>1 DEF IsRun
        <4>2. i <= last
          BY <1>9, <4>1
        <4>3. PICK m \in Window : m \in R
          <5>1. next - MaxAbsent >= i
            BY <1>1, <2>2, <4>2
          <5> HIDE DEF Window
          <5> QED BY <1>2, <3>1, <5>1
        <4>4. m \in last + 1 .. n \/ m = next
          BY <1>1, <2>2, <4>3
        <4> QED BY <1>9, <4>3, <4>4
      <3> QED BY <1>4, <1>5, <1>9, <3>1 DEF Runs
    <2> QED BY <2>1, <2>2
  <1> QED BY <1>6, <1>7, <1>8, <1>9 DEF Grown

(* Only the instants up to n matter.                                         *)
LEMMA RunsReadTheirInstants ==
    ASSUME NEW n \in Nat, NEW R, NEW Q, NEW S, NEW T,
           \A i \in 1 .. n : (i \in R <=> i \in S) /\ (i \in Q <=> i \in T)
    PROVE  Runs(n, R, Q) = Runs(n, S, T)
  <1>1. MaxAbsent \in Nat
    BY GateLimitsAssumption
  <1>2. ASSUME NEW i \in 1 .. n PROVE IsRun(i, n, R, Q) <=> IsRun(i, n, S, T)
    <2>1. \A j \in i .. n : j \in 1 .. n
      OBVIOUS
    <2>2. \A j \in i .. n - MaxAbsent : \A m \in j .. j + MaxAbsent : m \in 1 .. n
      BY <1>1
    <2> QED BY <2>1, <2>2 DEF IsRun
  <1> QED BY <1>2 DEF Runs

Reported(k) == {i \in 1 .. Len(log) : Reports(i, k)}
Qualified(k) == {i \in 1 .. Len(log) : Qualifies(i, k)}

StreaksReadRuns == \A k \in Keys : StreakOf(k) = Runs(Len(log), Reported(k), Qualified(k))

LEMMA StreaksAreRuns == LogIsOfInstants => StreaksReadRuns
  <1> SUFFICES ASSUME LogIsOfInstants, NEW k \in Keys
               PROVE  StreakOf(k) = Runs(Len(log), Reported(k), Qualified(k))
    BY DEF StreaksReadRuns
  <1>1. Len(log) \in Nat /\ MaxAbsent \in Nat
    BY GateLimitsAssumption DEF LogIsOfInstants
  <1>2. ASSUME NEW i \in 1 .. Len(log)
        PROVE  IsStreak(i, k) <=> IsRun(i, Len(log), Reported(k), Qualified(k))
    <2>1. \A j \in i .. Len(log) : j \in 1 .. Len(log)
      BY <1>1
    <2>2. \A j \in i .. Len(log) - MaxAbsent : \A m \in j .. j + MaxAbsent : m \in 1 .. Len(log)
      BY <1>1
    <2> QED BY <2>1, <2>2 DEF IsStreak, IsRun, Reported, Qualified
  <1> QED BY <1>2 DEF StreakOf, Runs

(* What an instant more in the log changes of the readings of the log.       *)
LEMMA LogGrows ==
    ASSUME LogIsOfInstants, NEW instant \in Instants,
           log' = Append(log, [cameras |-> instant.cameras, tall |-> instant.tall]),
           NEW n, n = Len(log)
    PROVE  /\ LogIsOfInstants'
           /\ n \in Nat /\ Len(log') = n + 1
           /\ \A k \in Keys :
                  /\ \A i \in 1 .. n : /\ i \in Reported(k)' <=> i \in Reported(k)
                                       /\ i \in Qualified(k)' <=> i \in Qualified(k)
                  /\ n + 1 \in Reported(k)' <=> CameraOf[k] \in instant.cameras
                  /\ n + 1 \in Qualified(k)' <=> k \in instant.tall
                  /\ Qualified(k)' \subseteq Reported(k)'
  <1> DEFINE entry == [cameras |-> instant.cameras, tall |-> instant.tall]
             Entries == [cameras : SUBSET Cameras, tall : SUBSET Keys]
  <1>1. /\ entry \in Entries /\ entry.cameras = instant.cameras /\ entry.tall = instant.tall
        /\ \A k \in instant.tall : CameraOf[k] \in instant.cameras
    BY DEF Instants
  <1>2. log \in Seq(Entries) /\ log' = Append(log, entry)
    BY DEF LogIsOfInstants
  <1> HIDE DEF entry, Entries
  <1>3. /\ log' \in Seq(Entries) /\ n \in Nat /\ Len(log') = n + 1
        /\ \A i \in 1 .. n : log'[i] = log[i]
        /\ log'[n + 1] = entry
    BY <1>1, <1>2
  <1>4. \A i : i \in 1 .. n + 1 <=> i \in 1 .. n \/ i = n + 1
    BY <1>3
  <1>5. \A k \in Keys :
            /\ \A i \in 1 .. n : /\ i \in Reported(k)' <=> i \in Reported(k)
                                 /\ i \in Qualified(k)' <=> i \in Qualified(k)
            /\ n + 1 \in Reported(k)' <=> CameraOf[k] \in instant.cameras
            /\ n + 1 \in Qualified(k)' <=> k \in instant.tall
    BY <1>1, <1>3, <1>4 DEF Reported, Qualified, Reports, Qualifies
  <1>6. \A i \in 1 .. n, k \in Keys : k \in log[i].tall => CameraOf[k] \in log[i].cameras
    BY DEF LogIsOfInstants, Reports, Qualifies
  <1>7. \A i \in 1 .. n + 1, k \in Keys : k \in log'[i].tall => CameraOf[k] \in log'[i].cameras
    BY <1>1, <1>3, <1>4, <1>6
  <1>8. LogIsOfInstants'
    <2>1. log' \in Seq([cameras : SUBSET Cameras, tall : SUBSET Keys])
      BY <1>3 DEF Entries
    <2> QED BY <1>3, <1>7, <2>1 DEF LogIsOfInstants, Reports, Qualifies
  <1>9. \A k \in Keys : Qualified(k)' \subseteq Reported(k)'
    BY <1>3, <1>7 DEF Reported, Qualified, Reports, Qualifies
  <1> QED BY <1>3, <1>5, <1>8, <1>9

(* One instant through the gate: the two maps still say what the log does.   *)
LEMMA FilterKeepsStreaks ==
    ASSUME StreakInv, NEW instant \in Instants, Filtered(instant),
           log' = Append(log, [cameras |-> instant.cameras, tall |-> instant.tall])
    PROVE  StreakInv'
  <1>1. PICK n : n = Len(log)
    OBVIOUS
  <1>2. PICK next : next = n + 1
    OBVIOUS
  <1>3. /\ LogIsOfInstants /\ LogIsOfInstants' /\ n \in Nat /\ Len(log') = next
        /\ \A k \in Keys :
               /\ \A i \in 1 .. n : /\ i \in Reported(k)' <=> i \in Reported(k)
                                    /\ i \in Qualified(k)' <=> i \in Qualified(k)
               /\ next \in Reported(k)' <=> CameraOf[k] \in instant.cameras
               /\ next \in Qualified(k)' <=> k \in instant.tall
               /\ Qualified(k)' \subseteq Reported(k)'
    BY <1>1, <1>2, LogGrows DEF StreakInv
  <1>4. MaxAbsent \in Nat /\ MaxAbsent >= 1
    BY GateLimitsAssumption
  <1>5. \A k \in Keys :
            LET kept == /\ CameraOf[k] \notin instant.cameras /\ streaks[k] > 0
                        /\ absences[k] + 1 <= MaxAbsent
            IN  /\ streaks'[k] = IF k \in instant.tall THEN streaks[k] + 1
                                 ELSE IF kept THEN streaks[k] ELSE 0
                /\ absences'[k] = IF k \in instant.tall \/ ~kept THEN 0 ELSE absences[k] + 1
    BY DEF Filtered, Gate!Filter, Gate!Carried
  <1>6. streaks' \in [Keys -> Nat] /\ absences' \in [Keys -> Nat]
    <2>1. /\ DOMAIN streaks' = Keys /\ DOMAIN absences' = Keys
          /\ streaks' = [k \in Keys |-> streaks'[k]] /\ absences' = [k \in Keys |-> absences'[k]]
      BY DEF Filtered, Gate!Filter
    <2>2. \A k \in Keys : streaks'[k] \in Nat /\ absences'[k] \in Nat
      BY <1>5 DEF StreakInv
    <2> QED BY <2>1, <2>2
  <1>7. StreaksReadRuns
    BY <1>3, StreaksAreRuns
  <1>8. StreaksReadRuns'
    <2>1. LogIsOfInstants' => StreaksReadRuns'
      BY StreaksAreRuns, PTL
    <2> QED BY <1>3, <2>1
  <1>9. ASSUME NEW k \in Keys
        PROVE  /\ streaks'[k] = Cardinality(StreakOf(k)')
               /\ streaks'[k] > 0 =>
                      /\ absences'[k] <= MaxAbsent
                      /\ next - absences'[k] \in 1 .. next
                      /\ next - absences'[k] \in Reported(k)'
                      /\ \A j \in 1 .. next : j > next - absences'[k] => j \notin Reported(k)'
    <2>1. PICK R, Q : R = Reported(k)' /\ Q = Qualified(k)'
      OBVIOUS
    <2>2. /\ Q \in SUBSET R /\ StreakOf(k)' = Runs(next, R, Q)
      BY <1>3, <1>8, <2>1 DEF StreaksReadRuns
    <2>3. StreakOf(k) = Runs(n, R, Q)
      <3>1. StreakOf(k) = Runs(n, Reported(k), Qualified(k))
        BY <1>1, <1>7 DEF StreaksReadRuns
      <3>2. \A i \in 1 .. n : (i \in Reported(k) <=> i \in R) /\ (i \in Qualified(k) <=> i \in Q)
        BY <1>3, <2>1
      <3> QED BY <1>3, <3>1, <3>2, RunsReadTheirInstants
    <2>4. /\ next \in R <=> CameraOf[k] \in instant.cameras
          /\ next \in Q <=> k \in instant.tall
      BY <1>3, <2>1
    <2>5. /\ streaks[k] \in Nat /\ absences[k] \in Nat
          /\ IsFiniteSet(Runs(n, R, Q)) /\ streaks[k] = Cardinality(Runs(n, R, Q))
      <3>1. IsFiniteSet(1 .. n)
        BY <1>3, FS_Interval
      <3>2. streaks[k] = Cardinality(StreakOf(k))
        BY DEF StreakInv, StreaksAreConsecutive, StreakOf
      <3> QED BY <2>3, <3>1, <3>2, FS_Subset DEF StreakInv, Runs
    <2>6. Grown(n, next, R, Q)
      BY <1>2, <1>3, <2>2, RunsGrow
    <2>7. \A i \in 1 .. n : i \in R <=> Reports(i, k)
      BY <1>1, <1>3, <2>1 DEF Reported
    <2>8. CASE next \in Q
      <3>1. next \notin Runs(n, R, Q)
        BY <1>2, <1>3 DEF Runs
      <3>2. Cardinality(Runs(next, R, Q)) = Cardinality(Runs(n, R, Q)) + 1
        BY <2>5, <2>6, <2>8, <3>1, FS_AddElement DEF Grown
      <3>3. streaks'[k] = streaks[k] + 1 /\ absences'[k] = 0 /\ next \in R
        BY <1>5, <2>2, <2>4, <2>8
      <3>4. streaks'[k] = Cardinality(StreakOf(k)')
        BY <2>2, <2>5, <3>2, <3>3
      <3>5. next - absences'[k] = next
        BY <1>2, <1>3, <3>3
      <3>6. /\ absences'[k] <= MaxAbsent /\ next \in 1 .. next
            /\ \A j \in 1 .. next : j > next => j \notin R
        BY <1>2, <1>3, <1>4, <3>3
      <3> QED BY <2>1, <3>3, <3>4, <3>5, <3>6
    <2>9. CASE next \notin Q /\ next \in R
      <3>1. streaks'[k] = 0
        BY <1>5, <2>4, <2>9
      <3>2. Cardinality(StreakOf(k)') = 0
        BY <2>2, <2>6, <2>9, FS_EmptySet DEF Grown
      <3> QED BY <3>1, <3>2
    <2>10. CASE next \notin Q /\ next \notin R /\ streaks[k] = 0
      <3>1. streaks'[k] = 0
        BY <1>5, <2>4, <2>10
      <3>2. Runs(n, R, Q) = {}
        BY <2>5, <2>10, FS_EmptySet
      <3>3. Runs(next, R, Q) = {}
        BY <2>6, <2>10, <3>2 DEF Grown
      <3>4. Cardinality(StreakOf(k)') = 0
        BY <2>2, <3>3, FS_EmptySet
      <3> QED BY <3>1, <3>4
    <2>11. CASE next \notin Q /\ next \notin R /\ streaks[k] > 0
      <3> DEFINE last == n - absences[k]
      <3>1. /\ absences[k] <= MaxAbsent /\ last \in 1 .. n /\ last \in R
            /\ \A j \in 1 .. n : j > last => j \notin R
        BY <1>1, <2>7, <2>11 DEF StreakInv, AbsencesAreTrailing, LastReport
      <3>2. \A j \in last + 1 .. n : j \notin R
        BY <3>1
      <3>3. CASE absences[k] + 1 <= MaxAbsent
        <4>1. streaks'[k] = streaks[k] /\ absences'[k] = absences[k] + 1
          BY <1>5, <2>4, <2>11, <3>3
        <4>2. n - last < MaxAbsent
          BY <1>3, <1>4, <2>5, <3>3
        <4>3. Runs(next, R, Q) = Runs(n, R, Q)
          BY <2>6, <2>11, <3>1, <3>2, <4>2 DEF Grown
        <4>4. next - absences'[k] = last
          BY <1>2, <1>3, <2>5, <4>1
        <4>5. \A j \in 1 .. next : j > last => j \notin R
          BY <1>2, <1>3, <2>11, <3>1
        <4>6. last \in 1 .. next
          BY <1>2, <1>3, <3>1
        <4> HIDE DEF last
        <4> QED BY <2>1, <2>2, <2>5, <3>1, <3>3, <4>1, <4>3, <4>4, <4>5, <4>6
      <3>4. CASE ~(absences[k] + 1 <= MaxAbsent)
        <4>1. streaks'[k] = 0
          BY <1>5, <2>4, <2>11, <3>4
        <4>2. n - last >= MaxAbsent
          BY <1>3, <1>4, <2>5, <3>4
        <4>3. Runs(next, R, Q) = {}
          BY <2>6, <2>11, <3>1, <3>2, <4>2 DEF Grown
        <4> QED BY <2>2, <4>1, <4>3, FS_EmptySet
      <3> QED BY <3>3, <3>4
    <2> QED BY <2>5, <2>8, <2>9, <2>10, <2>11
  <1>10. StreaksAreConsecutive'
    BY <1>9 DEF StreaksAreConsecutive, StreakOf
  <1>11. AbsencesAreTrailing'
    BY <1>3, <1>9 DEF AbsencesAreTrailing, LastReport, Reported
  <1> QED BY <1>3, <1>6, <1>10, <1>11 DEF StreakInv

LEMMA InitStreaks == LoggedInit => StreakInv
  <1> SUFFICES ASSUME LoggedInit PROVE StreakInv
    OBVIOUS
  <1>1. log = <<>> /\ streaks = [k \in Keys |-> 0] /\ absences = [k \in Keys |-> 0]
    BY DEF LoggedInit, TrackerInit, Gate!GateInit
  <1>2. LogIsOfInstants /\ Len(log) = 0
    BY <1>1 DEF LogIsOfInstants
  <1>3. \A k \in Keys : Cardinality({i \in 1 .. Len(log) : IsStreak(i, k)}) = 0
    BY <1>2, FS_EmptySet
  <1> QED BY <1>1, <1>2, <1>3 DEF StreakInv, AbsencesAreTrailing, StreaksAreConsecutive

LEMMA ResetKeepsStreaks ==
    ASSUME StreakInv, streaks' = [k \in Keys |-> 0], absences' = [k \in Keys |-> 0], log' = <<>>
    PROVE  StreakInv'
  <1>1. LogIsOfInstants' /\ Len(log') = 0
    BY DEF LogIsOfInstants
  <1>2. \A k \in Keys : Cardinality({i \in 1 .. Len(log') : IsStreak(i, k)'}) = 0
    BY <1>1, FS_EmptySet
  <1> QED BY <1>1, <1>2 DEF StreakInv, AbsencesAreTrailing, StreaksAreConsecutive

LEMMA QuietStepKeepsStreaks ==
    ASSUME StreakInv, UNCHANGED <<streaks, absences, log>>
    PROVE  StreakInv'
  <1>1. LogIsOfInstants'
    <2>1. LogIsOfInstants /\ log' = log
      BY DEF StreakInv
    <2> QED BY <2>1 DEF LogIsOfInstants, Qualifies, Reports
  <1>2. AbsencesAreTrailing'
    BY DEF StreakInv, AbsencesAreTrailing, LastReport, Reports
  <1>3. \A k \in Keys : {i \in 1 .. Len(log') : IsStreak(i, k)'} =
                       {i \in 1 .. Len(log) : IsStreak(i, k)}
    BY DEF IsStreak, Reports, Qualifies
  <1>4. StreaksAreConsecutive'
    BY <1>3 DEF StreakInv, StreaksAreConsecutive
  <1> QED BY <1>1, <1>2, <1>4 DEF StreakInv

(* The gate's two maps, rebuilt every instant, hold for any number of        *)
(* instants, cameras that come and go, and calls that fail, the streaks that *)
(* a backward reading of every instant since the latest reset gives          *)
(* (ObservationGate.filter).                                                 *)
THEOREM StreaksReadBackwards == LoggedSpec => []StreaksAreConsecutive
  <1>1. StreakInv /\ [LoggedNext]_<<tracker, log>> => StreakInv'
    <2> SUFFICES ASSUME StreakInv, [LoggedNext]_<<tracker, log>> PROVE StreakInv'
      OBVIOUS
    <2>1. ASSUME NEW instant \in Instants,
                 Track(instant) \/ TrackRefused(instant) \/ TrackFails(instant),
                 log' = Append(log, [cameras |-> instant.cameras, tall |-> instant.tall])
          PROVE  StreakInv'
      BY <2>1, FilterKeepsStreaks DEF Track, TrackRefused, TrackFails
    <2>2. CASE (Work \/ Return) /\ UNCHANGED log
      <3>1. UNCHANGED <<streaks, absences, log>>
        BY <2>2 DEF Work, Return, gating
      <3> QED BY <3>1, QuietStepKeepsStreaks
    <2>3. CASE TrackerReset /\ log' = <<>>
      BY <2>3, ResetKeepsStreaks DEF TrackerReset, Gate!GateReset
    <2>4. CASE UNCHANGED <<tracker, log>>
      BY <2>4, QuietStepKeepsStreaks DEF tracker, gating
    <2> QED BY <2>1, <2>2, <2>3, <2>4 DEF LoggedNext
  <1>2. StreakInv => StreaksAreConsecutive
    BY DEF StreakInv
  <1>3. QED
    BY InitStreaks, <1>1, <1>2, PTL DEF LoggedSpec

================================================================================
