------------------------------ MODULE FlatGallery ------------------------------
(***************************************************************************)
(* shipvision/reid/gallery/flat.py: every embedding kept, in a dense matrix *)
(* whose rows are compacted by swapping the last live row into a hole, and  *)
(* searched by threads that hold the lock only to take a snapshot and to    *)
(* read the winners back - never across the matrix product in between.      *)
(*                                                                          *)
(* What is abstracted.  A vector is named by the insertion it came from     *)
(* (its stamp), so `vectors[r]' says whose appearance lies in row r and a   *)
(* score is named by the vector it was computed from.  How scores compare   *)
(* is not modelled: any `top_k' unmasked rows may win.  The frame column    *)
(* moves with the camera column and is left out.                            *)
(*                                                                          *)
(* Granularity.  A thread holding the lock takes one step per row it drops  *)
(* or writes, because the matrix product reads `vectors' without the lock   *)
(* and sees every one of those writes.  A row written while a product is in *)
(* flight is a data race: its score is Torn.                                *)
(***************************************************************************)
EXTENDS CameraCodec, FiniteSets

CONSTANTS Writers,       \* threads that add, remove and clear
          Readers,       \* threads that query
          Identities,
          Dims,          \* the widths of embeddings callers pass
          Capacity, PerIdentity,
          TopKs,         \* the values of top_k a caller passes
          MaxAdds        \* bound: how many entries are ever stored

ASSUME CapacityAssumption == Capacity \in Nat \ {0}
ASSUME PerIdentityAssumption == PerIdentity \in Nat \ {0}
ASSUME MaxAddsAssumption == MaxAdds \in Nat
ASSUME TopKsAssumption == TopKs \subseteq Nat \ {0}
ASSUME NoneAssumption ==
    None \notin Identities \cup Cameras \cup Dims \cup Writers \cup Readers \cup Int

VARIABLES
    dim, size, identity, vectors, cameraCode, sequence, byIdentity, nextSequence,
    lock,        \* the writer inside `with self._lock', or None
    pc,          \* thread -> where it is in its call
    adding,      \* the embedding being added, while pc of the lock's holder is "room"
    doomed,      \* the rows still to drop, while it is "removing"
    asked,       \* reader -> the query's arguments
    stamps,      \* reader -> the snapshot's copy of the stamp column
    exclude,     \* reader -> the excluded camera's code, looked up at the snapshot
    dirty,       \* reader -> rows written while its matrix product was in flight
    scores,      \* reader -> row -> whose vector the score was computed from
    top,         \* reader -> the rows selected
    result,      \* reader -> the matches reported
    inserted     \* history: stamp -> the entry stored under it

columns == <<identity, vectors, cameraCode, sequence, byIdentity>>
gallery == <<dim, size, columns, nextSequence, names>>
writing == <<lock, adding, doomed>>
reading == <<asked, stamps, exclude, scores, top, result>>
vars == <<gallery, writing, reading, pc, dirty, inserted>>

NoStamp == -1
Torn == -2

Threads == Writers \cup Readers
Rows == 0 .. Capacity - 1
LiveRows == 0 .. size - 1
Stamps == 0 .. MaxAdds - 1

(* An embedding as a caller passes it: Embedding is mutable, so one whose   *)
(* vector is not finite can reach `add' although its constructor refuses it.*)
Embedding == [identity : Identities, camera : Cameras \cup {None},
              dim : Dims, finite : BOOLEAN]

Query == [top_k : TopKs, exclude_camera : Cameras \cup {None}]

(* What `add' works on once the camera has its code.                         *)
Added == [identity : Identities, camera : Cameras \cup {None}, code : Codes]

Match == [identity : Identities, camera : Cameras \cup {None},
          score : Stamps \cup {Torn}, entry_index : Rows]

SnapshotRows(t) == {r \in Rows : stamps[t][r] # NoStamp}

--------------------------------------------------------------------------------
Init ==
    /\ dim \in Dims \cup {None}
    /\ size = 0
    /\ identity = [r \in Rows |-> None]
    /\ vectors = [r \in Rows |-> NoStamp]
    /\ cameraCode = [r \in Rows |-> NO_CAMERA]
    /\ sequence = [r \in Rows |-> 0]
    /\ byIdentity = [i \in Identities |-> {}]
    /\ nextSequence = 0
    /\ names = <<>>
    /\ lock = None
    /\ pc = [t \in Threads |-> "idle"]
    /\ adding = None
    /\ doomed = {}
    /\ asked \in [Readers -> {q \in Query : q.exclude_camera = None}]
    /\ stamps = [t \in Readers |-> [r \in Rows |-> NoStamp]]
    /\ exclude = [t \in Readers |-> None]
    /\ dirty = [t \in Readers |-> {}]
    /\ scores = [t \in Readers |-> [r \in Rows |-> NoStamp]]
    /\ top = [t \in Readers |-> {}]
    /\ result = [t \in Readers |-> {}]
    /\ inserted = <<>>

--------------------------------------------------------------------------------
(* Writing                                                                   *)

(* A row of `vectors' is written: every product in flight may have read it   *)
(* before, after or during the write.                                        *)
Scribble(row) ==
    dirty' = [t \in Readers |->
                IF pc[t] = "product" THEN dirty[t] \cup {row} ELSE dirty[t]]

(* Mutant of Drop: the row is emptied but `_size' is not decremented.        *)
DropWithoutShrinking(index) ==
    LET last == size - 1 IN
    /\ identity' = [identity EXCEPT ![index] = identity[last], ![last] = None]
    /\ vectors' = [vectors EXCEPT ![index] = vectors[last]]
    /\ cameraCode' = [cameraCode EXCEPT ![index] = cameraCode[last], ![last] = NO_CAMERA]
    /\ sequence' = [sequence EXCEPT ![index] = sequence[last]]
    /\ byIdentity' = [i \in Identities |-> byIdentity[i] \ {index}]
    /\ UNCHANGED <<dim, size, nextSequence, names, dirty, inserted>>

(* _drop: remove one row, swapping the last live row into its place.         *)
Drop(index) ==
    LET last == size - 1
        moved == identity[last]
        unlisted == [byIdentity EXCEPT ![identity[index]] = @ \ {index}]
    IN  /\ identity' = [identity EXCEPT ![index] = moved, ![last] = None]
        /\ vectors' = [vectors EXCEPT ![index] = vectors[last]]
        /\ cameraCode' = [cameraCode EXCEPT ![index] = cameraCode[last],
                                            ![last] = NO_CAMERA]
        /\ sequence' = [sequence EXCEPT ![index] = sequence[last]]
        /\ byIdentity' = IF index = last THEN unlisted
                         ELSE [unlisted EXCEPT ![moved] = (@ \ {last}) \cup {index}]
        /\ size' = last
        /\ IF index = last THEN UNCHANGED dirty ELSE Scribble(index)
        /\ UNCHANGED <<dim, nextSequence, names, inserted>>

(* _ensure_dim: the first embedding fixes the width.                         *)
EnsuredDim(e) == IF dim = None THEN e.dim ELSE dim

AddRefuses(e) == \/ EnsuredDim(e) # e.dim
                 \/ ~e.finite
                 \/ CodecRefuses(e.camera)

(* add, when _ensure_dim, normalize or code_for raises.                      *)
AddRefused(t, e) ==
    /\ pc[t] = "idle" /\ lock = None
    /\ AddRefuses(e)
    /\ dim' = EnsuredDim(e)
    /\ UNCHANGED <<size, columns, nextSequence, names, writing, reading,
                   pc, dirty, inserted>>

(* add, up to _make_room: the lock is taken, the camera interned.            *)
Add(t, e) ==
    /\ pc[t] = "idle" /\ lock = None
    /\ nextSequence < MaxAdds
    /\ ~AddRefuses(e)
    /\ dim' = EnsuredDim(e)
    /\ names' = NamesWith(e.camera)
    /\ adding' = [identity |-> e.identity, camera |-> e.camera, code |-> CodeFor(e.camera)]
    /\ lock' = t
    /\ pc' = [pc EXCEPT ![t] = "room"]
    /\ UNCHANGED <<size, columns, nextSequence, doomed, reading, dirty, inserted>>

(* Mutant of Oldest: max for min.                                            *)
Newest(rows) == {r \in rows : \A o \in rows : sequence[r] >= sequence[o]}

Oldest(rows) == {r \in rows : \A o \in rows : sequence[r] <= sequence[o]}

IdentityFull == Cardinality(byIdentity[adding.identity]) >= PerIdentity

GalleryFull == size >= Capacity

(* _make_room, first loop: a busy identity trims its own oldest.             *)
EvictOwn(t) ==
    /\ pc[t] = "room" /\ lock = t
    /\ IdentityFull
    /\ \E r \in Oldest(byIdentity[adding.identity]) : Drop(r)
    /\ UNCHANGED <<writing, reading, pc>>

(* _make_room, second loop: the gallery is full, the oldest row goes.        *)
EvictOldest(t) ==
    /\ pc[t] = "room" /\ lock = t
    /\ ~IdentityFull
    /\ GalleryFull
    /\ \E r \in Oldest(LiveRows) : Drop(r)
    /\ UNCHANGED <<writing, reading, pc>>

(* add, from _make_room to the return: the row is written, the lock released.*)
WriteRow(t) ==
    /\ pc[t] = "room" /\ lock = t
    /\ ~IdentityFull
    /\ ~GalleryFull
    /\ vectors' = [vectors EXCEPT ![size] = nextSequence]
    /\ identity' = [identity EXCEPT ![size] = adding.identity]
    /\ cameraCode' = [cameraCode EXCEPT ![size] = adding.code]
    /\ sequence' = [sequence EXCEPT ![size] = nextSequence]
    /\ byIdentity' = [byIdentity EXCEPT ![adding.identity] = @ \cup {size}]
    /\ nextSequence' = nextSequence + 1
    /\ size' = size + 1
    /\ Scribble(size)
    /\ inserted' = Append(inserted, [identity |-> adding.identity, camera |-> adding.camera])
    /\ lock' = None
    /\ adding' = None
    /\ pc' = [pc EXCEPT ![t] = "idle"]
    /\ UNCHANGED <<dim, names, doomed, reading>>

(* remove_identity, once it has listed the rows to drop; with none it returns*)
(* 0 and changes nothing.                                                    *)
RemoveIdentity(t, i) ==
    /\ pc[t] = "idle" /\ lock = None
    /\ byIdentity[i] # {}
    /\ doomed' = byIdentity[i]
    /\ lock' = t
    /\ pc' = [pc EXCEPT ![t] = "removing"]
    /\ UNCHANGED <<gallery, adding, reading, dirty, inserted>>

(* Mutant of NextDoomed: ascending instead of descending.                    *)
LowestDoomed == {r \in doomed : \A o \in doomed : r <= o}

(* The next row its loop drops: the highest, so that a swap never renumbers  *)
(* a row still listed.                                                       *)
NextDoomed == {r \in doomed : \A o \in doomed : o <= r}

DropDoomed(t) ==
    /\ pc[t] = "removing" /\ lock = t
    /\ \E r \in NextDoomed :
           /\ Drop(r)
           /\ doomed' = doomed \ {r}
           /\ IF doomed = {r}
              THEN lock' = None /\ pc' = [pc EXCEPT ![t] = "idle"]
              ELSE UNCHANGED <<lock, pc>>
    /\ UNCHANGED <<adding, reading>>

(* Mutant of Clear: stamps restart with the emptied gallery.                 *)
ClearRestartingStamps(t) ==
    /\ pc[t] = "idle" /\ lock = None
    /\ size' = 0
    /\ identity' = [r \in Rows |-> None]
    /\ byIdentity' = [i \in Identities |-> {}]
    /\ cameraCode' = [r \in Rows |-> NO_CAMERA]
    /\ names' = <<>>
    /\ nextSequence' = 0
    /\ inserted' = <<>>
    /\ UNCHANGED <<dim, vectors, sequence, writing, reading, pc, dirty>>

(* clear: the rows are forgotten, the vectors stay where they are.           *)
Clear(t) ==
    /\ pc[t] = "idle" /\ lock = None
    /\ size' = 0
    /\ identity' = [r \in Rows |-> None]
    /\ byIdentity' = [i \in Identities |-> {}]
    /\ cameraCode' = [r \in Rows |-> NO_CAMERA]
    /\ names' = <<>>
    /\ UNCHANGED <<dim, vectors, sequence, nextSequence, writing, reading,
                   pc, dirty, inserted>>

--------------------------------------------------------------------------------
(* Reading                                                                   *)

(* query of an empty gallery.                                                *)
QueryEmpty(t, q) ==
    /\ pc[t] = "idle" /\ lock = None
    /\ size = 0
    /\ asked' = [asked EXCEPT ![t] = q]
    /\ result' = [result EXCEPT ![t] = {}]
    /\ UNCHANGED <<gallery, writing, stamps, exclude, scores, top, pc, dirty, inserted>>

(* query, first time under the lock.  Only the stamps are copied; `vectors'  *)
(* and `codes' stay views of the live columns.                               *)
Snapshot(t, q) ==
    /\ pc[t] = "idle" /\ lock = None
    /\ size > 0
    /\ asked' = [asked EXCEPT ![t] = q]
    /\ stamps' = [stamps EXCEPT ![t] =
                    [r \in Rows |-> IF r < size THEN sequence[r] ELSE NoStamp]]
    /\ exclude' = [exclude EXCEPT ![t] =
                    IF q.exclude_camera = None THEN None ELSE Lookup(q.exclude_camera)]
    /\ dirty' = [dirty EXCEPT ![t] = {}]
    /\ result' = [result EXCEPT ![t] = {}]
    /\ pc' = [pc EXCEPT ![t] = "product"]
    /\ UNCHANGED <<gallery, writing, scores, top, inserted>>

(* The matrix product, without the lock, has ended.                          *)
Product(t) ==
    /\ pc[t] = "product"
    /\ scores' = [scores EXCEPT ![t] =
                    [r \in Rows |-> IF r \notin SnapshotRows(t) THEN NoStamp
                                    ELSE IF r \in dirty[t] THEN Torn
                                    ELSE vectors[r]]]
    /\ dirty' = [dirty EXCEPT ![t] = {}]
    /\ pc' = [pc EXCEPT ![t] = "ranking"]
    /\ UNCHANGED <<gallery, writing, asked, stamps, exclude, top, result, inserted>>

(* The rows the camera filter masks, read from the live code column.         *)
Masked(t) == IF exclude[t] = None THEN {}
             ELSE {r \in SnapshotRows(t) : cameraCode[r] = exclude[t]}

Eligible(t) == Cardinality(SnapshotRows(t)) - Cardinality(Masked(t))

Least(a, b) == IF a <= b THEN a ELSE b

EndQuery(t, matches) ==
    /\ result' = [result EXCEPT ![t] = matches]
    /\ stamps' = [stamps EXCEPT ![t] = [r \in Rows |-> NoStamp]]
    /\ exclude' = [exclude EXCEPT ![t] = None]
    /\ scores' = [scores EXCEPT ![t] = [r \in Rows |-> NoStamp]]
    /\ top' = [top EXCEPT ![t] = {}]
    /\ pc' = [pc EXCEPT ![t] = "idle"]
    /\ UNCHANGED <<gallery, writing, asked, dirty, inserted>>

(* The filter leaves nothing to rank.                                        *)
AllMasked(t) ==
    /\ pc[t] = "ranking"
    /\ Eligible(t) <= 0
    /\ EndQuery(t, {})

(* The filter and the top-k selection, without the lock.  A masked row       *)
(* scores -inf and is never among the first Eligible(t).                     *)
Rank(t) ==
    /\ pc[t] = "ranking"
    /\ Eligible(t) > 0
    /\ \E chosen \in SUBSET (SnapshotRows(t) \ Masked(t)) :
           /\ Cardinality(chosen) = Least(asked[t].top_k, Eligible(t))
           /\ top' = [top EXCEPT ![t] = chosen]
    /\ pc' = [pc EXCEPT ![t] = "readback"]
    /\ UNCHANGED <<gallery, writing, asked, stamps, exclude, scores, result, dirty, inserted>>

(* Mutant of SameEntry: the stamps are not compared.                         *)
RowStillLive(t, r) == r < size

(* Row r is still the entry the snapshot saw there.                          *)
SameEntry(t, r) == r < size /\ sequence[r] = stamps[t][r]

Reportable(t, r) ==
    /\ SameEntry(t, r)
    /\ exclude[t] = None \/ cameraCode[r] # exclude[t]

(* query, second time under the lock: the winners are read back.             *)
ReadBack(t) ==
    /\ pc[t] = "readback" /\ lock = None
    /\ EndQuery(t, {[identity |-> identity[r], camera |-> NameFor(cameraCode[r]),
                     score |-> scores[t][r], entry_index |-> r] :
                        r \in {w \in top[t] : Reportable(t, w)}})

--------------------------------------------------------------------------------
Holding(t) == EvictOwn(t) \/ EvictOldest(t) \/ WriteRow(t) \/ DropDoomed(t)

Next ==
    \/ \E t \in Writers :
           \/ \E e \in Embedding : AddRefused(t, e) \/ Add(t, e)
           \/ \E i \in Identities : RemoveIdentity(t, i)
           \/ Clear(t)
           \/ EvictOwn(t) \/ EvictOldest(t) \/ WriteRow(t) \/ DropDoomed(t)
    \/ \E t \in Readers :
           \/ \E q \in Query : QueryEmpty(t, q) \/ Snapshot(t, q)
           \/ Product(t) \/ Rank(t) \/ AllMasked(t) \/ ReadBack(t)

Spec == Init /\ [][Next]_vars

(* A thread inside `with self._lock' waits for nobody, so it goes on.        *)
FairSpec == Spec /\ \A t \in Writers : WF_vars(Holding(t))
--------------------------------------------------------------------------------
(* Properties                                                                *)

TypeOK ==
    /\ dim \in Dims \cup {None}
    /\ size \in 0 .. Capacity
    /\ identity \in [Rows -> Identities \cup {None}]
    /\ vectors \in [Rows -> Stamps \cup {NoStamp}]
    /\ cameraCode \in [Rows -> Codes]
    /\ sequence \in [Rows -> Nat]
    /\ byIdentity \in [Identities -> SUBSET Rows]
    /\ nextSequence \in 0 .. MaxAdds
    /\ names \in Seq(Cameras) /\ Len(names) <= MaxCameras
    /\ lock \in Writers \cup {None}
    /\ pc \in [Threads -> {"idle", "room", "removing", "product", "ranking", "readback"}]
    /\ adding \in Added \cup {None}
    /\ doomed \in SUBSET Rows
    /\ asked \in [Readers -> Query]
    /\ stamps \in [Readers -> [Rows -> Stamps \cup {NoStamp}]]
    /\ exclude \in [Readers -> (Codes \ {NO_CAMERA}) \cup {None}]
    /\ dirty \in [Readers -> SUBSET Rows]
    /\ scores \in [Readers -> [Rows -> Stamps \cup {NoStamp, Torn}]]
    /\ top \in [Readers -> SUBSET Rows]
    /\ result \in [Readers -> SUBSET Match]
    /\ inserted \in Seq([identity : Identities, camera : Cameras \cup {None}])

(* The index map inverts the identity column at every moment, also between   *)
(* two drops of one call: no row is listed under a name it does not hold, no *)
(* live row is unlisted.  (The bookkeeping of flat.py's add and _drop.)      *)
IndexAligned ==
    \A i \in Identities : byIdentity[i] = {r \in LiveRows : identity[r] = i}

(* Each live row is wholly one inserted entry: its vector, its stamp, its    *)
(* identity and its camera were stored together, however often _drop moved   *)
(* it and however often clear restarted the camera table.                    *)
RowsAreEntries ==
    \A r \in LiveRows :
        /\ sequence[r] < nextSequence
        /\ vectors[r] = sequence[r]
        /\ identity[r] = inserted[sequence[r] + 1].identity
        /\ cameraCode[r] < Len(names)
        /\ NameFor(cameraCode[r]) = inserted[sequence[r] + 1].camera

(* "Bounded two ways": the gallery never exceeds its capacity, no identity   *)
(* its share, after any number of adds and evictions (_make_room).           *)
Bounded == /\ size <= Capacity
           /\ \A i \in Identities : Cardinality(byIdentity[i]) <= PerIdentity

(* What an identity holds is always its latest views: _make_room only ever   *)
(* takes the oldest, its own or the gallery's, so when a stored view is      *)
(* still there every later view of the same identity is there too.  Looked   *)
(* at between calls: remove_identity drops by row, not by age.               *)
KeepsLatestViews ==
    lock = None =>
        \A r \in LiveRows : \A s \in sequence[r] + 1 .. nextSequence - 1 :
            inserted[s + 1].identity = identity[r] =>
                \E q \in LiveRows : sequence[q] = s

(* "Mis-attribution is not [allowed]": a score is reported under the         *)
(* identity and camera of the very entry whose vector it was computed from,  *)
(* whatever writers did to the rows during the matrix product.               *)
NoMisattribution ==
    \A t \in Readers : \A m \in result[t] :
        /\ m.score \in 0 .. nextSequence - 1
        /\ m.identity = inserted[m.score + 1].identity
        /\ m.camera = inserted[m.score + 1].camera

(* "A query never matches itself" (base.py): no match is from the camera the *)
(* query excludes, also when that camera was unknown, or its code was given  *)
(* to another camera by clear, between the snapshot and the read back.       *)
NeverOwnCamera ==
    \A t \in Readers : \A m \in result[t] :
        asked[t].exclude_camera # None => m.camera # asked[t].exclude_camera

(* A stamp that reads the same at both ends of the product vouches for the   *)
(* whole time between: the row was not written in it.  This is what the      *)
(* "sequences are never reused" of query's docstring has to add up to.       *)
StampVouches ==
    \A t \in Readers : \A r \in SnapshotRows(t) :
        SameEntry(t, r) =>
            /\ pc[t] = "product" => r \notin dirty[t]
            /\ pc[t] \in {"ranking", "readback"} => scores[t][r] = sequence[r]

(* Whoever holds the lock gives it back: the loops of _make_room and of      *)
(* remove_identity end.                                                      *)
LockReleased == [](lock # None => <>(lock = None))

--------------------------------------------------------------------------------
(* The gallery, as its callers may think of it.                              *)

EntryAt(r) == [stamp |-> sequence[r], identity |-> identity[r],
               camera |-> NameFor(cameraCode[r])]

Contract == INSTANCE BaseGallery WITH
    entries <- {EntryAt(r) : r \in LiveRows},
    stored <- nextSequence,
    candidates <- [t \in Readers |->
                     {EntryAt(r) : r \in {l \in LiveRows :
                                            \E q \in SnapshotRows(t) :
                                                stamps[t][q] = sequence[l]}}],
    asked <- asked,
    answer <- [t \in Readers |->
                 {[stamp |-> m.score, identity |-> m.identity, camera |-> m.camera] :
                     m \in result[t]}]

ImplementsBaseGallery == Contract!Spec
================================================================================
