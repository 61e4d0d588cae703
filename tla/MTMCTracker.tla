------------------------------- MODULE MTMCTracker -------------------------------
(***************************************************************************)
(* shipvision/mtmc/tracker.py: ClusterMTMCTracker, which puts the gate      *)
(* (ObservationGate) before the id assigner (GlobalIdAssigner) and reports  *)
(* both.  A synchronised instant is: which cameras are in it, which tracks  *)
(* they see, and which of those are tall enough.                            *)
(*                                                                          *)
(* The lock makes a call one step for every other thread, so the module has *)
(* no threads: calls follow each other.  A call is not atomic towards its   *)
(* own failure: the gate counts the instant before the matcher or the       *)
(* assigner may refuse it, and nothing takes that back.                     *)
(*                                                                          *)
(* What is abstracted.  The matcher and the clusterer: any clustering, or a *)
(* refusal.  An instant of fewer than two admitted tracks is not clustered. *)
(***************************************************************************)
EXTENDS GlobalIdAssigner

CONSTANTS MinHits, MaxAbsent,
          MaxCalls      \* bound: how often `track' is called

ASSUME CallsAssumption == MaxCalls \in Nat
ASSUME GateLimitsAssumption == {MinHits, MaxAbsent} \subseteq Nat \ {0}

VARIABLES streaks, absences,   \* the gate's two maps
          view,                \* the instant of the latest call
          result,              \* track -> what the latest call reports of it
          calls,               \* bound: how often `track' was called
          confirmed            \* history: track -> the distinct instants it
                               \* qualified in since its latest break

Gate == INSTANCE ObservationGate WITH hits <- streaks, absent <- absences

gating == <<streaks, absences>>
tracker == <<vars, gating, view, result, calls, confirmed>>

NoInstant == [cameras |-> {}, visible |-> {}, tall |-> {}]

(* A FrameTrackCluster: a track is seen by a camera that is in the instant.  *)
Instants == {i \in [cameras : SUBSET Cameras, visible : SUBSET Keys, tall : SUBSET Keys] :
                /\ \A k \in i.visible : CameraOf[k] \in i.cameras
                /\ i.tall \subseteq i.visible}

TrackerInit ==
    /\ Init
    /\ Gate!GateInit
    /\ view = NoInstant
    /\ result = <<>>
    /\ calls = 0
    /\ confirmed = [k \in Keys |-> 0]

--------------------------------------------------------------------------------
(* The caller offers the next instant, or, when the latest call failed, that *)
(* instant again.                                                            *)
MayRetry(instant) == pc = "idle" /\ calls > 0 /\ instant = view

Confirmed(instant, again) ==
    [k \in Keys |-> IF k \in instant.tall
                    THEN IF again THEN confirmed[k] ELSE confirmed[k] + 1
                    ELSE IF Gate!Carried(k, instant.cameras) THEN confirmed[k] ELSE 0]

(* track, from the lock to the end of the gate.                              *)
Offer(instant) ==
    /\ pc \in Resting
    /\ calls < MaxCalls
    /\ calls' = calls + 1
    /\ view' = instant
    /\ \E again \in {FALSE, MayRetry(instant)} : confirmed' = Confirmed(instant, again)
    /\ result' = <<>>

Filtered(instant) == Gate!Filter(instant.cameras, instant.tall)

LetIn(instant) == Gate!Admitted(instant.tall)

(* track, when the admitted tracks are clustered.                            *)
Track(instant) ==
    /\ Offer(instant)
    /\ Filtered(instant)
    /\ \E groups \in Clusterings[LetIn(instant)] : Assign(LetIn(instant), groups)

(* track, when the matcher refuses the instant (_cluster).                   *)
TrackRefused(instant) ==
    /\ Unembedded
    /\ Offer(instant)
    /\ Filtered(instant)
    /\ Cardinality(LetIn(instant)) >= 2
    /\ pc' = "idle"
    /\ published' = <<>> /\ observed' = {} /\ entitled' = {} /\ orphans' = FALSE
    /\ UNCHANGED <<counter, step, maps, clusters, matched, claim, known, issued>>

(* track, when the assigner refuses a track without an embedding.            *)
TrackFails(instant) ==
    /\ Offer(instant)
    /\ Filtered(instant)
    /\ \E recorded \in SUBSET LetIn(instant) :
           recorded # LetIn(instant) /\ AssignFails(recorded)

(* The assigner at work.                                                     *)
Work == Resolve /\ UNCHANGED <<gating, view, result, calls, confirmed>>

(* track, from the end of the assignment: what is reported (_result).  The   *)
(* members are read after the eviction.                                      *)
Return ==
    /\ TrimIdentities
    /\ result' = [k \in view.visible |->
                    IF k \in DOMAIN published
                    THEN [global_id |-> published[k],
                          members |-> IF published[k] \in DOMAIN members'
                                      THEN members'[published[k]] ELSE {}]
                    ELSE [global_id |-> None, members |-> {}]]
    /\ UNCHANGED <<gating, view, calls, confirmed>>

TrackerReset ==
    /\ Reset
    /\ Gate!GateReset
    /\ view' = NoInstant
    /\ result' = <<>>
    /\ confirmed' = [k \in Keys |-> 0]
    /\ UNCHANGED calls

TrackerNext ==
    \/ \E instant \in Instants : Track(instant)
    \/ \E instant \in Instants : TrackRefused(instant)
    \/ \E instant \in Instants : TrackFails(instant)
    \/ Work
    \/ Return
    \/ TrackerReset

TrackerSpec == TrackerInit /\ [][TrackerNext]_tracker

--------------------------------------------------------------------------------
(* The members reported with an id are those that hold it, the track itself  *)
(* among them, as long as this instant fits the two limits.                  *)
MembersVouch ==
    pc = "returned" /\ Cardinality(observed) <= MaxTracks
                    /\ Cardinality(Range(published)) <= Capacity =>
        \A k \in observed :
            /\ k \in result[k].members
            /\ result[k].members = {j \in Keys : owner[j] = result[k].global_id}

(* An identity is never given to a track that has qualified in fewer than    *)
(* MinHits distinct instants.                                                *)
AdmittedAfterDistinctInstants ==
    pc = "returned" =>
        \A k \in DOMAIN result : result[k].global_id # None => confirmed[k] >= MinHits
================================================================================
