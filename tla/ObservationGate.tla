----------------------------- MODULE ObservationGate -----------------------------
(***************************************************************************)
(* shipvision/mtmc/gating.py: which tracks may be associated across cameras.*)
(* A track qualifies in an instant when its box is tall enough; it is       *)
(* admitted once it has qualified in MinHits instants its camera reported   *)
(* in, with no other instant of that camera in between.  An instant without *)
(* the camera breaks nothing, unless there are more than MaxAbsent in a row.*)
(*                                                                          *)
(* Heights are abstracted to whether they pass the threshold.               *)
(***************************************************************************)
EXTENDS Integers

CONSTANTS Keys,        \* the tracks: (camera, track id)
          Cameras,
          CameraOf,    \* track -> its camera
          MinHits,
          MaxAbsent    \* max_absent_instants

VARIABLES hits,        \* track -> its streak; 0 when it is not held
          absent       \* track -> instants its camera has been missing; 0 when it was not

gate == <<hits, absent>>

GateInit == /\ hits = [k \in Keys |-> 0]
            /\ absent = [k \in Keys |-> 0]

(* Mutant of Carried: the bound is one too high.                             *)
CarriedOnceMore(k, cameras) ==
    /\ CameraOf[k] \notin cameras
    /\ hits[k] > 0
    /\ absent[k] < MaxAbsent + 1

(* A streak is carried across the instant, its camera not being in it.       *)
Carried(k, cameras) ==
    /\ CameraOf[k] \notin cameras
    /\ hits[k] > 0
    /\ absent[k] + 1 <= MaxAbsent

(* filter, given the cameras the instant held and the tracks tall in it.     *)
Filter(cameras, tall) ==
    /\ hits' = [k \in Keys |-> IF k \in tall THEN hits[k] + 1
                               ELSE IF Carried(k, cameras) THEN hits[k] ELSE 0]
    /\ absent' = [k \in Keys |-> IF k \in tall \/ ~Carried(k, cameras) THEN 0
                                 ELSE absent[k] + 1]

(* The tracks the call returns.                                              *)
Admitted(tall) == {k \in tall : hits[k] + 1 >= MinHits}

(* reset                                                                     *)
GateReset == /\ hits' = [k \in Keys |-> 0]
             /\ absent' = [k \in Keys |-> 0]
================================================================================
