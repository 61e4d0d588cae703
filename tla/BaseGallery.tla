------------------------------ MODULE BaseGallery ------------------------------
(***************************************************************************)
(* What a re-identification gallery promises its callers                   *)
(* (shipvision/reid/gallery/base.py), without rows, locks or stamps.       *)
(*                                                                         *)
(* A gallery is a bounded set of entries.  A query is not atomic: it asks, *)
(* other threads go on writing, and it is answered later.  Staleness is    *)
(* allowed - an entry stored meanwhile may be missing - but every entry of *)
(* an answer was in the gallery when the query was asked and has been there*)
(* ever since, is reported with its own identity, camera and score, and is *)
(* never from the camera the query excludes.                               *)
(***************************************************************************)
EXTENDS Integers, FiniteSets

CONSTANTS Readers,      \* threads that query
          Identities,   \* identity labels
          Cameras,      \* camera ids
          None,         \* Python's None: an entry, or a query, without a camera
          TopKs,        \* the values of top_k a caller passes
          Capacity,     \* how many entries the gallery holds at most
          MaxAdds       \* bound: how many entries are ever stored

VARIABLES entries,      \* the entries stored now
          stored,       \* how many were ever stored; the next entry's stamp
          candidates,   \* reader -> what its query may still be answered with
          asked,        \* reader -> its latest query
          answer        \* reader -> the entries reported for it

vars == <<entries, stored, candidates, asked, answer>>

(* An entry.  The stamp stands for the stored vector: a score is named by   *)
(* the stamp of the vector it was computed from.                            *)
Entry == [stamp : 0 .. MaxAdds - 1, identity : Identities, camera : Cameras \cup {None}]

Query == [top_k : TopKs, exclude_camera : Cameras \cup {None}]

NoCandidates == {}

Init ==
    /\ entries = {}
    /\ stored = 0
    /\ candidates = [t \in Readers |-> NoCandidates]
    /\ asked \in [Readers -> {q \in Query : q.exclude_camera = None}]
    /\ answer = [t \in Readers |-> {}]

(* add: one more entry, never with a stamp that was used before.            *)
Insert(i, c) ==
    /\ stored < MaxAdds
    /\ Cardinality(entries) < Capacity
    /\ entries' = entries \cup {[stamp |-> stored, identity |-> i, camera |-> c]}
    /\ stored' = stored + 1
    /\ UNCHANGED <<candidates, asked, answer>>

(* Eviction, remove_identity, clear: entries leave, and no query in progress *)
(* may report them any more.                                                *)
Forget(gone) ==
    /\ entries' = entries \ gone
    /\ candidates' = [t \in Readers |-> candidates[t] \ gone]
    /\ UNCHANGED <<stored, asked, answer>>

(* query, as it is called.                                                  *)
Ask(t, q) ==
    /\ candidates' = [candidates EXCEPT ![t] = entries]
    /\ asked' = [asked EXCEPT ![t] = q]
    /\ answer' = [answer EXCEPT ![t] = {}]
    /\ UNCHANGED <<entries, stored>>

(* query, as it returns.                                                    *)
Answer(t) ==
    /\ \E found \in SUBSET {e \in candidates[t] :
                                \/ asked[t].exclude_camera = None
                                \/ e.camera # asked[t].exclude_camera} :
           /\ Cardinality(found) <= asked[t].top_k
           /\ answer' = [answer EXCEPT ![t] = found]
    /\ candidates' = [candidates EXCEPT ![t] = NoCandidates]
    /\ UNCHANGED <<entries, stored, asked>>

Next ==
    \/ \E i \in Identities, c \in Cameras \cup {None} : Insert(i, c)
    \/ \E gone \in (SUBSET entries) \ {{}} : Forget(gone)
    \/ \E t \in Readers, q \in Query : Ask(t, q)
    \/ \E t \in Readers : Answer(t)

Spec == Init /\ [][Next]_vars
================================================================================
