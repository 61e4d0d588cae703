----------------------------- MODULE TrackerContract -----------------------------
(***************************************************************************)
(* What every single-camera tracker promises (shipvision/mot/base.py),      *)
(* whatever way it associates: which identities are alive, how often each   *)
(* has been seen, for how many frames it has not been, and who is published.*)
(* The four lifecycle states of a track are not in it: they follow.         *)
(***************************************************************************)
EXTENDS Integers

CONSTANTS Trackers,   \* the tracker instances of the process
          MaxAge,     \* frames an identity survives unseen
          MinHits     \* sightings before an identity is published

VARIABLES lives,      \* per tracker: live identity -> [hits, missed]
          issued,     \* identities handed out so far, to any tracker
          answer      \* per tracker: what its last update returned, or that it raised

vars == <<lives, issued, answer>>

Raised == [ok |-> FALSE, ids |-> {}]
Returned(ids) == [ok |-> TRUE, ids |-> ids]

Trusted(life) == life.hits >= MinHits

Init ==
    /\ lives = [k \in Trackers |-> [id \in {} |-> [hits |-> 0, missed |-> 0]]]
    /\ issued = 0
    /\ answer = [k \in Trackers |-> Returned({})]

(* One frame: some identities are seen again; of the others the trusted ones *)
(* wait, up to MaxAge frames, and the rest are gone; what nobody claimed is  *)
(* born with a number no tracker ever used.                                  *)
Frame(k) ==
    \E seen \in SUBSET DOMAIN lives[k] :
    LET old == lives[k]
        waiting == {id \in DOMAIN old \ seen : Trusted(old[id]) /\ old[id].missed < MaxAge}
        born == (issued + 1) .. issued'
        now == [id \in seen \cup waiting \cup born |->
                    IF id \in born THEN [hits |-> 1, missed |-> 0]
                    ELSE IF id \in seen THEN [hits |-> old[id].hits + 1, missed |-> 0]
                    ELSE [old[id] EXCEPT !.missed = @ + 1]]
    IN /\ issued' \in Nat /\ issued' >= issued
       /\ lives' = [lives EXCEPT ![k] = now]
       /\ answer' = [answer EXCEPT ![k] =
              Returned({id \in DOMAIN now : Trusted(now[id]) /\ now[id].missed = 0})]

(* A frame that is refused, or fails, costs no identity.                     *)
Raise(k) ==
    /\ answer' = [answer EXCEPT ![k] = Raised]
    /\ UNCHANGED <<lives, issued>>

(* A reset forgets the identities and never their numbers.                   *)
Reset(k) ==
    /\ lives' = [lives EXCEPT ![k] = [id \in {} |-> [hits |-> 0, missed |-> 0]]]
    /\ UNCHANGED <<issued, answer>>

Next == \E k \in Trackers : Frame(k) \/ Raise(k) \/ Reset(k)

Spec == Init /\ [][Next]_vars
================================================================================
