----------------------------- MODULE CentroidGallery -----------------------------
(***************************************************************************)
(* shipvision/reid/gallery/centroid.py: one vector per identity, folded in  *)
(* as observations arrive.  As in FlatGallery a query holds the lock only   *)
(* for its snapshot and its read-back; here a row is also refreshed in      *)
(* place, which must not make a query drop it, so rows carry two stamps:    *)
(* `sequence', recency, and `occupant', who sits in the row.                *)
(*                                                                          *)
(* What is abstracted.  A vector is the set of identities whose             *)
(* observations went into it, and a score the set of those that were in its *)
(* row while the product ran.  Embeddings have one width and pass normalize;*)
(* how scores compare, the frame column and the observation counts are left *)
(* out.  The aggregator folds into the vector it is given (`ema').          *)
(***************************************************************************)
EXTENDS CameraCodec, FiniteSets

CONSTANTS Writers, Readers, Identities, Capacity, TopKs,
          MaxAdds,        \* bound: how many observations are recorded
          MaxOccupants    \* bound: no add starts once this many occupants were stamped

ASSUME CentroidAssumption ==
    /\ Capacity \in Nat \ {0} /\ MaxAdds \in Nat /\ MaxOccupants \in Nat
    /\ TopKs \subseteq Nat \ {0}
ASSUME NoneAssumption ==
    None \notin Identities \cup Cameras \cup Writers \cup Readers \cup Int

VARIABLES
    size, identity, centroids, cameraCode, sequence, occupant,
    rowOf, aggregators, nextSequence, nextOccupant,
    lock, pc,
    adding,      \* the embedding being added by the lock's holder
    asked, stamps, exclude, scores, top, result,
    inRow,       \* reader -> row -> whose vectors were in it since the snapshot
    knew,        \* history: reader -> whether the excluded camera was known then
    latest,      \* history: identity -> its latest observation: when, and which camera
    refused      \* history: who has a row claimed for an observation that was refused

columns == <<identity, centroids, cameraCode, sequence, occupant>>
gallery == <<size, columns, rowOf, aggregators, nextSequence, nextOccupant, names>>
writing == <<lock, adding>>
query == <<asked, stamps, exclude, scores, top, result, knew>>
history == <<latest, refused>>
vars == <<gallery, writing, query, pc, inRow, history>>

Threads == Writers \cup Readers
Rows == 0 .. Capacity - 1
LiveRows == 0 .. size - 1
NoStamp == 0
Never == [sequence |-> -1, camera |-> None]

Embedding == [identity : Identities, camera : Cameras \cup {None}]
Query == [top_k : TopKs, exclude_camera : Cameras \cup {None}]
SnapshotRows(t) == {r \in Rows : stamps[t][r] # NoStamp}
NoScores == [r \in Rows |-> {}]

Init ==
    /\ size = 0
    /\ identity = [r \in Rows |-> None]
    /\ centroids = [r \in Rows |-> {}]
    /\ cameraCode = [r \in Rows |-> NO_CAMERA]
    /\ sequence = [r \in Rows |-> 0]
    /\ occupant = [r \in Rows |-> NoStamp]
    /\ rowOf = [i \in Identities |-> None]
    /\ aggregators = {}
    /\ nextSequence = 0
    /\ nextOccupant = 1
    /\ names = <<>>
    /\ lock = None
    /\ pc = [t \in Threads |-> "idle"]
    /\ adding = None
    /\ asked \in [Readers -> {q \in Query : q.exclude_camera = None}]
    /\ stamps = [t \in Readers |-> [r \in Rows |-> NoStamp]]
    /\ exclude = [t \in Readers |-> None]
    /\ scores = [t \in Readers |-> NoScores]
    /\ top = [t \in Readers |-> {}]
    /\ result = [t \in Readers |-> {}]
    /\ inRow = [t \in Readers |-> NoScores]
    /\ knew = [t \in Readers |-> FALSE]
    /\ latest = [i \in Identities |-> Never]
    /\ refused = {}

--------------------------------------------------------------------------------
(* Writing                                                                   *)

(* A vector is written to a row: the products in flight may read any of it.  *)
Scribble(row, vector) ==
    inRow' = [t \in Readers |-> IF pc[t] = "product"
                                THEN [inRow[t] EXCEPT ![row] = @ \cup vector] ELSE inRow[t]]

Forgotten(victim) ==
    /\ aggregators' = aggregators \ {victim}
    /\ latest' = [latest EXCEPT ![victim] = Never]
    /\ refused' = refused \ {victim}

(* Mutant of Drop: the recency of the moved identity stays behind.           *)
DropWithoutRecency(row) ==
    LET last == size - 1 IN
    /\ rowOf' = [i \in Identities |-> IF i = identity[row] THEN None
                                      ELSE IF i = identity[last] THEN row ELSE rowOf[i]]
    /\ identity' = [identity EXCEPT ![row] = identity[last], ![last] = None]
    /\ centroids' = [centroids EXCEPT ![row] = centroids[last]]
    /\ cameraCode' = [cameraCode EXCEPT ![row] = cameraCode[last], ![last] = NO_CAMERA]
    /\ UNCHANGED sequence
    /\ occupant' = IF row = last THEN occupant ELSE [occupant EXCEPT ![row] = nextOccupant]
    /\ nextOccupant' = IF row = last THEN nextOccupant ELSE nextOccupant + 1
    /\ size' = last
    /\ IF row = last THEN UNCHANGED inRow ELSE Scribble(row, centroids[last])
    /\ Forgotten(identity[row])

(* _drop: forget the identity in a row, the last live row moves there.       *)
Drop(row) ==
    LET last == size - 1 IN
    /\ rowOf' = [i \in Identities |-> IF i = identity[row] THEN None
                                      ELSE IF i = identity[last] THEN row ELSE rowOf[i]]
    /\ identity' = [identity EXCEPT ![row] = identity[last], ![last] = None]
    /\ centroids' = [centroids EXCEPT ![row] = centroids[last]]
    /\ cameraCode' = [cameraCode EXCEPT ![row] = cameraCode[last], ![last] = NO_CAMERA]
    /\ sequence' = [sequence EXCEPT ![row] = sequence[last]]
    /\ occupant' = IF row = last THEN occupant ELSE [occupant EXCEPT ![row] = nextOccupant]
    /\ nextOccupant' = IF row = last THEN nextOccupant ELSE nextOccupant + 1
    /\ size' = last
    /\ IF row = last THEN UNCHANGED inRow ELSE Scribble(row, centroids[last])
    /\ Forgotten(identity[row])

Idle(t) == pc[t] = "idle" /\ lock = None

(* add, when code_for refuses the camera: nothing changes.  Otherwise the    *)
(* lock is taken and the camera interned.                                    *)
Add(t, e) ==
    /\ Idle(t)
    /\ nextSequence < MaxAdds /\ nextOccupant <= MaxOccupants
    /\ ~CodecRefuses(e.camera)
    /\ names' = NamesWith(e.camera)
    /\ adding' = [identity |-> e.identity, camera |-> e.camera,
                  code |-> CodeFor(e.camera), known |-> rowOf[e.identity] # None]
    /\ lock' = t
    /\ pc' = [pc EXCEPT ![t] = IF rowOf[e.identity] # None THEN "folding" ELSE "room"]
    /\ UNCHANGED <<size, columns, rowOf, aggregators, nextSequence, nextOccupant,
                   query, inRow, history>>

LeastRecent == {r \in LiveRows : \A o \in LiveRows : sequence[r] <= sequence[o]}

(* A new identity: the gallery is full, the one observed longest ago goes.   *)
EvictOldest(t) ==
    /\ pc[t] = "room" /\ lock = t
    /\ size >= Capacity
    /\ \E row \in LeastRecent : Drop(row)
    /\ UNCHANGED <<nextSequence, names, writing, query, pc>>

(* Mutant of ClaimRow: the row keeps the stamp of whoever sat there.         *)
ClaimRowUnstamped(t) ==
    /\ pc[t] = "room" /\ lock = t
    /\ size < Capacity
    /\ identity' = [identity EXCEPT ![size] = adding.identity]
    /\ rowOf' = [rowOf EXCEPT ![adding.identity] = size]
    /\ occupant' = [occupant EXCEPT ![size] = IF @ = NoStamp THEN nextOccupant ELSE @]
    /\ nextOccupant' = nextOccupant + 1
    /\ size' = size + 1
    /\ pc' = [pc EXCEPT ![t] = "folding"]
    /\ UNCHANGED <<centroids, cameraCode, sequence, aggregators, nextSequence, names,
                   writing, query, inRow, history>>

(* _claim_row: it gets the next free row, whose vector is still the old one. *)
ClaimRow(t) ==
    /\ pc[t] = "room" /\ lock = t
    /\ size < Capacity
    /\ identity' = [identity EXCEPT ![size] = adding.identity]
    /\ rowOf' = [rowOf EXCEPT ![adding.identity] = size]
    /\ occupant' = [occupant EXCEPT ![size] = nextOccupant]
    /\ nextOccupant' = nextOccupant + 1
    /\ size' = size + 1
    /\ pc' = [pc EXCEPT ![t] = "folding"]
    /\ UNCHANGED <<centroids, cameraCode, sequence, aggregators, nextSequence, names,
                   writing, query, inRow, history>>

(* The observation is folded in: into nothing for a new identity.            *)
Folded == IF adding.known THEN centroids[rowOf[adding.identity]] \cup {adding.identity}
                          ELSE {adding.identity}

Fold(t) ==
    /\ pc[t] = "folding" /\ lock = t
    /\ aggregators' = aggregators \cup {adding.identity}
    /\ centroids' = [centroids EXCEPT ![rowOf[adding.identity]] = Folded]
    /\ Scribble(rowOf[adding.identity], Folded)
    /\ pc' = [pc EXCEPT ![t] = "recording"]
    /\ UNCHANGED <<size, identity, cameraCode, sequence, occupant, rowOf, nextSequence,
                   nextOccupant, names, writing, query, history>>

(* The aggregator refuses the observation (its quality may have been changed *)
(* after it was checked), or the factory of a new one raises: so does add,   *)
(* and a new identity keeps the row it was given, without an observation.    *)
FoldRefused(t) ==
    /\ pc[t] = "folding" /\ lock = t
    /\ aggregators' \in {aggregators, aggregators \cup {adding.identity}}
    /\ refused' = IF adding.known THEN refused ELSE refused \cup {adding.identity}
    /\ lock' = None
    /\ adding' = None
    /\ pc' = [pc EXCEPT ![t] = "idle"]
    /\ UNCHANGED <<size, columns, rowOf, nextSequence, nextOccupant, names, query,
                   inRow, latest>>

(* The other columns of the row; the lock is released.                       *)
Record(t) ==
    LET row == rowOf[adding.identity] IN
    /\ pc[t] = "recording" /\ lock = t
    /\ cameraCode' = [cameraCode EXCEPT ![row] = adding.code]
    /\ sequence' = [sequence EXCEPT ![row] = nextSequence]
    /\ nextSequence' = nextSequence + 1
    /\ latest' = [latest EXCEPT ![adding.identity] =
                    [sequence |-> nextSequence, camera |-> adding.camera]]
    /\ lock' = None
    /\ adding' = None
    /\ pc' = [pc EXCEPT ![t] = "idle"]
    /\ UNCHANGED <<size, identity, centroids, occupant, rowOf, aggregators, nextOccupant,
                   names, query, inRow, refused>>

RemoveIdentity(t, i) ==
    /\ Idle(t)
    /\ rowOf[i] # None
    /\ Drop(rowOf[i])
    /\ UNCHANGED <<nextSequence, names, writing, query, pc>>

Clear(t) ==
    /\ Idle(t)
    /\ size' = 0
    /\ identity' = [r \in Rows |-> None]
    /\ rowOf' = [i \in Identities |-> None]
    /\ aggregators' = {}
    /\ cameraCode' = [r \in Rows |-> NO_CAMERA]
    /\ names' = <<>>
    /\ latest' = [i \in Identities |-> Never]
    /\ refused' = {}
    /\ UNCHANGED <<centroids, sequence, occupant, nextSequence, nextOccupant, writing,
                   query, pc, inRow>>

--------------------------------------------------------------------------------
(* Reading                                                                   *)

QueryEmpty(t, q) ==
    /\ Idle(t)
    /\ size = 0
    /\ asked' = [asked EXCEPT ![t] = q]
    /\ result' = [result EXCEPT ![t] = {}]
    /\ UNCHANGED <<gallery, writing, stamps, exclude, scores, top, knew, pc, inRow, history>>

(* query, first time under the lock: the occupant stamps are copied, vectors *)
(* and camera codes stay views of the live columns.                          *)
Snapshot(t, q) ==
    /\ Idle(t)
    /\ size > 0
    /\ asked' = [asked EXCEPT ![t] = q]
    /\ stamps' = [stamps EXCEPT ![t] =
                    [r \in Rows |-> IF r < size THEN occupant[r] ELSE NoStamp]]
    /\ exclude' = [exclude EXCEPT ![t] =
                    IF q.exclude_camera = None THEN None ELSE Lookup(q.exclude_camera)]
    /\ knew' = [knew EXCEPT ![t] = q.exclude_camera # None /\ Interned(q.exclude_camera)]
    /\ inRow' = [inRow EXCEPT ![t] = [r \in Rows |-> IF r < size THEN centroids[r] ELSE {}]]
    /\ result' = [result EXCEPT ![t] = {}]
    /\ pc' = [pc EXCEPT ![t] = "product"]
    /\ UNCHANGED <<gallery, writing, scores, top, history>>

(* The matrix product, without the lock, has ended.                          *)
Product(t) ==
    /\ pc[t] = "product"
    /\ scores' = [scores EXCEPT ![t] =
                    [r \in Rows |-> IF r \in SnapshotRows(t) THEN inRow[t][r] ELSE {}]]
    /\ inRow' = [inRow EXCEPT ![t] = NoScores]
    /\ pc' = [pc EXCEPT ![t] = "ranking"]
    /\ UNCHANGED <<gallery, writing, asked, stamps, exclude, top, result, knew, history>>

(* The rows the camera filter masks, read from the live code column.         *)
Masked(t) == IF exclude[t] = None THEN {}
             ELSE {r \in SnapshotRows(t) : cameraCode[r] = exclude[t]}

Eligible(t) == SnapshotRows(t) \ Masked(t)

(* The filter, and the top-k of what it leaves, without the lock.            *)
Rank(t) ==
    /\ pc[t] = "ranking"
    /\ \E chosen \in SUBSET Eligible(t) :
           /\ Cardinality(chosen) = asked[t].top_k \/ chosen = Eligible(t)
           /\ Cardinality(chosen) <= asked[t].top_k
           /\ top' = [top EXCEPT ![t] = chosen]
    /\ pc' = [pc EXCEPT ![t] = "readback"]
    /\ UNCHANGED <<gallery, writing, asked, stamps, exclude, scores, result, knew, inRow,
                   history>>

(* Mutant of Reportable: the live camera is not looked at again.             *)
ReportableAsMasked(t, r) == r < size /\ occupant[r] = stamps[t][r]

Reportable(t, r) ==
    /\ r < size /\ occupant[r] = stamps[t][r]
    /\ exclude[t] = None \/ cameraCode[r] # exclude[t]

(* query, second time under the lock: the winners are read back.  `vouched'  *)
(* is history: whether the row's first observation was taken.                *)
ReadBack(t) ==
    /\ pc[t] = "readback"
    /\ top[t] # {} => lock = None
    /\ result' = [result EXCEPT ![t] =
                    {[identity |-> identity[r], camera |-> NameFor(cameraCode[r]),
                      score |-> scores[t][r],
                      vouched |-> identity[r] \notin refused] : r \in {w \in top[t] : Reportable(t, w)}}]
    /\ stamps' = [stamps EXCEPT ![t] = [r \in Rows |-> NoStamp]]
    /\ exclude' = [exclude EXCEPT ![t] = None]
    /\ scores' = [scores EXCEPT ![t] = NoScores]
    /\ top' = [top EXCEPT ![t] = {}]
    /\ pc' = [pc EXCEPT ![t] = "idle"]
    /\ UNCHANGED <<gallery, writing, asked, knew, inRow, history>>

--------------------------------------------------------------------------------
Next ==
    \/ \E t \in Writers :
           \/ \E e \in Embedding : Add(t, e)
           \/ EvictOldest(t) \/ ClaimRow(t) \/ Fold(t) \/ FoldRefused(t) \/ Record(t)
           \/ \E i \in Identities : RemoveIdentity(t, i)
           \/ Clear(t)
    \/ \E t \in Readers :
           \/ \E q \in Query : QueryEmpty(t, q) \/ Snapshot(t, q)
           \/ Product(t) \/ Rank(t) \/ ReadBack(t)

Spec == Init /\ [][Next]_vars

--------------------------------------------------------------------------------
(* Properties                                                                *)

(* However often rows are swapped, the map and the identity column are       *)
(* inverse to each other - also in the middle of an add - and the columns of *)
(* a row are those of the identity in it: its recency, which decides who is  *)
(* evicted, its latest camera, which decides who is excluded, and a vector   *)
(* made of its observations and of nobody else's, also after refusals.  Only *)
(* an identity whose row was claimed for an observation that was refused     *)
(* has the vector and the recency of nobody, or of whoever was there before  *)
(* (RejectedAddLeavesNothing).                                               *)
RowsAgree ==
    /\ \A r \in LiveRows : identity[r] # None /\ rowOf[identity[r]] = r
    /\ \A i \in Identities : rowOf[i] # None =>
           rowOf[i] < size /\ identity[rowOf[i]] = i
    /\ \A r \in Rows \ LiveRows : identity[r] = None
    /\ lock = None =>
        \A r \in LiveRows :
            /\ NameFor(cameraCode[r]) = latest[identity[r]].camera
            /\ latest[identity[r]] # Never => sequence[r] = latest[identity[r]].sequence
            /\ identity[r] \notin refused =>
                   latest[identity[r]] # Never /\ centroids[r] = {identity[r]}

(* "A rejected add must leave the gallery exactly as it was": between two    *)
(* calls, whoever has a row has had an observation accepted.                 *)
RejectedAddLeavesNothing ==
    lock = None => \A r \in LiveRows : latest[identity[r]] # Never

(* The case the two stamps are for: a row that changed hands while the       *)
(* product ran is never reported with the score of whoever sat there before, *)
(* although a row that was only refreshed still is - for every identity      *)
(* whose first observation was taken, whoever else's were refused.           *)
NoMisattribution ==
    \A t \in Readers : \A m \in result[t] : m.vouched => m.score = {m.identity}

(* A query from a camera the gallery knew when it was asked is not answered  *)
(* with an identity seen last by that camera.                                *)
KnownCameraExcluded ==
    \A t \in Readers : \A m \in result[t] :
        knew[t] => m.camera # asked[t].exclude_camera

(* The same for every camera: "a query never matches itself".                *)
NeverOwnCamera ==
    \A t \in Readers : \A m \in result[t] :
        asked[t].exclude_camera = None \/ m.camera # asked[t].exclude_camera
================================================================================
