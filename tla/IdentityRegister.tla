---------------------------- MODULE IdentityRegister ----------------------------
(***************************************************************************)
(* What cross-camera identity promises (shipvision/mtmc/identity.py), one   *)
(* synchronised instant at a time and without clusters, contests or ages.   *)
(*                                                                          *)
(* Every track of the instant is answered with an id; two tracks of one     *)
(* camera never with the same; a track that was not seen keeps its id or is *)
(* forgotten, and never changes it; an id nobody holds any more never comes *)
(* back, not even after a reset.                                            *)
(***************************************************************************)
EXTENDS Integers

CONSTANTS Keys,       \* the tracks: (camera, track id)
          Cameras,
          CameraOf,   \* track -> its camera
          None        \* Python's None: a track with no identity

VARIABLES owner,      \* track -> its global id, or None
          issued,     \* how many ids were ever issued; the next one
          answer      \* the latest instant's answer: track seen -> id

vars == <<owner, issued, answer>>

Held == {owner[k] : k \in {j \in Keys : owner[j] # None}}

Init == /\ owner = [k \in Keys |-> None]
        /\ issued = 0
        /\ answer = <<>>

(* Two tracks of one camera stand for two objects.                          *)
Apart(ids) == \A j, k \in DOMAIN ids :
    j # k /\ CameraOf[j] = CameraOf[k] => ids[j] # ids[k] \/ ids[j] = None

(* assign: the ids it may give are those held and those never issued.       *)
Instant(seen) ==
    /\ issued' \in Nat /\ issued' >= issued
    /\ DOMAIN answer' = seen
    /\ \A k \in seen : /\ answer'[k] \in Held \cup (issued .. issued' - 1)
                       /\ owner'[k] \in {answer'[k], None}
    /\ \A k \in Keys \ seen : owner'[k] \in {owner[k], None}
    /\ DOMAIN owner' = Keys
    /\ Apart(owner') /\ Apart(answer')

(* reset                                                                     *)
Reset == /\ owner' = [k \in Keys |-> None]
         /\ answer' = <<>>
         /\ UNCHANGED issued

Next == (\E seen \in SUBSET Keys : Instant(seen)) \/ Reset

Spec == Init /\ [][Next]_vars
================================================================================
