---------------------------- MODULE MCGlobalIdAssigner ----------------------------
(* GlobalIdAssigner with two casts of tracks.  Few has three tracks of one   *)
(* camera and one of another, over three instants: they crowd the places and *)
(* the limits.  Many has five on four cameras, which it takes for two        *)
(* clusters of different size to want one identity and contest a place in    *)
(* it, over two instants.                                                    *)
EXTENDS GlobalIdAssigner

Six == 1 .. 6
Few == 1 .. 4
Many == Six \ {3}
CamerasOfSix == [k \in Six |-> CASE k <= 3 -> "a" [] k = 4 -> "b" [] k = 5 -> "c" [] k = 6 -> "d"]
CamerasOfFew == [k \in Few |-> CamerasOfSix[k]]

InstantsOf(cast) == UNION {{<<seen, groups>> : groups \in Clusterings[seen]} : seen \in SUBSET cast}
FewInstants == InstantsOf(Few)
ManyInstants == InstantsOf(Many)

(* Next, of instants that keep to one cast.  Bound: Many's last instant is   *)
(* the second, its first sees three tracks at most, and only Few's may fail. *)
CastNext ==
    \/ /\ pc \in Resting
       /\ \/ /\ Tracked \subseteq Few
             /\ \E i \in FewInstants : Assign(i[1], i[2])
          \/ /\ Tracked \subseteq Few
             /\ \E recorded \in SUBSET Few : AssignFails(recorded)
          \/ /\ Tracked \subseteq Many /\ step < 2
             /\ \E i \in ManyInstants :
                    (step = 0 => Cardinality(i[1]) <= 3) /\ Assign(i[1], i[2])
    \/ Resolve
    \/ TrimIdentities
    \/ Reset

CastSpec == Init /\ [][CastNext]_vars
================================================================================
