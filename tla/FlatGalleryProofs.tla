--------------------------- MODULE FlatGalleryProofs ---------------------------
(***************************************************************************)
(* Theorems about FlatGallery for any number of threads, identities,       *)
(* cameras and rows.  The inductive invariant says that a stamp, once in a *)
(* snapshot, can only move to lower rows: so a row that still carries the  *)
(* stamp of the snapshot was never written in between.  Two more parts:    *)
(* the latest view of every identity is in a row unless that identity is   *)
(* being removed, and the gallery, with the rows a removal has yet to drop *)
(* taken out, is the set of entries of BaseGallery, which every step takes *)
(* one step further or leaves.                                             *)
(***************************************************************************)
EXTENDS FlatGallery, SequenceTheorems, FiniteSetTheorems, TLAPS

(* Every insertion is remembered.                                          *)
HistoryComplete == Len(inserted) = nextSequence

(* No camera is in the codec's table twice.                                *)
NamesDistinct == \A i, j \in DOMAIN names : names[i] = names[j] => i = j

(* Two live rows never carry the same stamp.                               *)
StampsDistinct == \A q, r \in LiveRows : sequence[q] = sequence[r] => q = r

(* Only the lock's holder is inside a writing call, and its locals agree   *)
(* with the gallery.                                                       *)
HolderConsistent ==
    \A t \in Threads :
        /\ pc[t] \in {"room", "removing"} => lock = t
        /\ pc[t] = "room" => /\ adding \in Added
                             /\ adding.code < Len(names)
                             /\ NameFor(adding.code) = adding.camera
                             /\ nextSequence < MaxAdds
        /\ pc[t] = "removing" => doomed \subseteq LiveRows

(* A snapshot's stamps only ever move down.                                *)
StampsMoveDown ==
    \A t \in Readers : \A r \in SnapshotRows(t) :
        /\ stamps[t][r] < nextSequence
        /\ \A l \in LiveRows : sequence[l] = stamps[t][r] => l <= r

(* While an entry of the snapshot is in place, the code looked up for the  *)
(* excluded camera still means that camera; if none was found, the entry   *)
(* is from another one.                                                    *)
ExclusionMeaningful ==
    \A t \in Readers : \A r \in SnapshotRows(t) :
        SameEntry(t, r) /\ asked[t].exclude_camera # None =>
            IF exclude[t] = None
            THEN NameFor(cameraCode[r]) # asked[t].exclude_camera
            ELSE /\ exclude[t] < Len(names)
                 /\ names[exclude[t] + 1] = asked[t].exclude_camera

(* The winners are rows of the snapshot.                                   *)
TopFromSnapshot ==
    \A t \in Readers : pc[t] = "readback" => top[t] \subseteq SnapshotRows(t)

StoreInv == /\ HistoryComplete
            /\ NamesDistinct
            /\ RowsAreEntries
            /\ IndexAligned
            /\ StampsDistinct

SnapshotInv == /\ StampsMoveDown
               /\ StampVouches
               /\ ExclusionMeaningful
               /\ TopFromSnapshot

IInv == /\ TypeOK
        /\ StoreInv
        /\ HolderConsistent
        /\ SnapshotInv
        /\ NoMisattribution
        /\ NeverOwnCamera

--------------------------------------------------------------------------------
LEMMA InitIInv == Init => IInv
  <1> SUFFICES ASSUME Init PROVE IInv
    OBVIOUS
  <1> USE DEF Init, Rows, LiveRows, Threads, Stamps, Codes, NoStamp, NO_CAMERA
  <1>1. TypeOK
    BY CapacityAssumption, MaxAddsAssumption, MaxCamerasAssumption DEF TypeOK, Query
  <1>2. \A t \in Readers : SnapshotRows(t) = {}
    BY DEF SnapshotRows
  <1>3. LiveRows = {}
    OBVIOUS
  <1>4. HistoryComplete /\ NamesDistinct
    BY DEF HistoryComplete, NamesDistinct
  <1>5. RowsAreEntries /\ IndexAligned /\ StampsDistinct
    BY <1>3 DEF RowsAreEntries, IndexAligned, StampsDistinct
  <1>6. HolderConsistent
    BY DEF HolderConsistent
  <1>7. StampsMoveDown /\ StampVouches /\ ExclusionMeaningful /\ TopFromSnapshot
    BY <1>2 DEF StampsMoveDown, StampVouches, ExclusionMeaningful, TopFromSnapshot
  <1>8. NoMisattribution /\ NeverOwnCamera
    BY DEF NoMisattribution, NeverOwnCamera
  <1>9. QED
    BY <1>1, <1>4, <1>5, <1>6, <1>7, <1>8 DEF IInv, StoreInv, SnapshotInv

(* The numbers behind the columns.                                           *)
LEMMA Numbers ==
    ASSUME TypeOK
    PROVE  /\ size \in Nat /\ size <= Capacity /\ Capacity \in Nat
           /\ LiveRows = 0 .. size - 1 /\ LiveRows \subseteq Rows
           /\ nextSequence \in Nat /\ nextSequence <= MaxAdds /\ MaxAdds \in Nat
           /\ \A r \in LiveRows : r \in Nat /\ sequence[r] \in Nat /\ cameraCode[r] \in Codes
  <1>1. /\ size \in Nat /\ size <= Capacity /\ Capacity \in Nat
        /\ nextSequence \in Nat /\ nextSequence <= MaxAdds /\ MaxAdds \in Nat
    BY CapacityAssumption, MaxAddsAssumption DEF TypeOK
  <1>2. LiveRows = 0 .. size - 1 /\ LiveRows \subseteq Rows
    BY <1>1 DEF LiveRows, Rows
  <1>3. sequence \in [Rows -> Nat] /\ cameraCode \in [Rows -> Codes]
    BY DEF TypeOK
  <1>4. QED
    BY <1>1, <1>2, <1>3

(* The row an entry comes from when _drop(index) compacts the columns.       *)
Source(index, r) == IF r = index THEN size - 1 ELSE r

(* Which rows hold what after _drop.                                         *)
LEMMA DropShape ==
    ASSUME TypeOK, NEW index \in LiveRows, Drop(index)
    PROVE  /\ size \in 1 .. Capacity /\ size' = size - 1
           /\ LiveRows' = 0 .. size - 2 /\ LiveRows' \subseteq LiveRows
           /\ LiveRows \subseteq Rows
           /\ \A r \in LiveRows' :
                 /\ Source(index, r) \in LiveRows
                 /\ Source(index, r) # index
                 /\ r <= Source(index, r)
                 /\ sequence'[r] = sequence[Source(index, r)]
                 /\ vectors'[r] = vectors[Source(index, r)]
                 /\ identity'[r] = identity[Source(index, r)]
                 /\ cameraCode'[r] = cameraCode[Source(index, r)]
  <1>1. /\ size \in 1 .. Capacity /\ size' = size - 1
        /\ LiveRows' = 0 .. size - 2 /\ LiveRows' \subseteq LiveRows
        /\ LiveRows \subseteq Rows
    BY CapacityAssumption DEF TypeOK, Drop, LiveRows, Rows
  <1>2. ASSUME NEW r \in LiveRows'
        PROVE  /\ Source(index, r) \in LiveRows
               /\ Source(index, r) # index
               /\ r <= Source(index, r)
    BY <1>1, CapacityAssumption DEF Source, LiveRows, Rows
  <1>3. ASSUME NEW r \in LiveRows'
        PROVE  /\ sequence'[r] = sequence[Source(index, r)]
               /\ vectors'[r] = vectors[Source(index, r)]
    BY <1>1 DEF Source, LiveRows, Rows, Drop, TypeOK
  <1>4. ASSUME NEW r \in LiveRows'
        PROVE  /\ identity'[r] = identity[Source(index, r)]
               /\ cameraCode'[r] = cameraCode[Source(index, r)]
    <2>1. r \in Rows /\ index \in Rows /\ r # size - 1
      BY <1>1, CapacityAssumption DEF LiveRows, Rows
    <2>2. /\ identity \in [Rows -> Identities \cup {None}]
          /\ cameraCode \in [Rows -> Codes]
      BY DEF TypeOK
    <2>3. /\ identity' = [identity EXCEPT ![index] = identity[size - 1], ![size - 1] = None]
          /\ cameraCode' = [cameraCode EXCEPT ![index] = cameraCode[size - 1],
                                              ![size - 1] = NO_CAMERA]
      BY DEF Drop
    <2>4. QED
      BY <2>1, <2>2, <2>3 DEF Source
  <1>5. QED
    BY <1>1, <1>2, <1>3, <1>4

(* _drop keeps every row one whole entry.                                    *)
LEMMA DropKeepsRows ==
    ASSUME TypeOK, RowsAreEntries, StampsDistinct,
           NEW index \in LiveRows, Drop(index)
    PROVE  RowsAreEntries' /\ StampsDistinct'
  <1> USE DropShape
  <1>1. ASSUME NEW r \in LiveRows'
        PROVE  /\ sequence'[r] < nextSequence'
               /\ vectors'[r] = sequence'[r]
               /\ identity'[r] = inserted'[sequence'[r] + 1].identity
               /\ cameraCode'[r] < Len(names')
               /\ NameFor(cameraCode[r])' = inserted'[sequence'[r] + 1].camera
    <2> DEFINE s == Source(index, r)
    <2>1. /\ s \in LiveRows /\ sequence'[r] = sequence[s] /\ vectors'[r] = vectors[s]
          /\ identity'[r] = identity[s] /\ cameraCode'[r] = cameraCode[s]
      OBVIOUS
    <2>2. names' = names /\ inserted' = inserted /\ nextSequence' = nextSequence
      BY DEF Drop
    <2>3. NameFor(cameraCode[r])' = NameFor(cameraCode[s])
      BY <2>1, <2>2 DEF NameFor
    <2> HIDE DEF s
    <2>4. QED
      BY <2>1, <2>2, <2>3 DEF RowsAreEntries
  <1>2. ASSUME NEW q \in LiveRows', NEW r \in LiveRows', sequence'[q] = sequence'[r]
        PROVE  q = r
    <2>1. Source(index, q) = Source(index, r)
      BY <1>2 DEF StampsDistinct
    <2>2. QED
      BY <2>1 DEF Source, LiveRows, TypeOK
  <1>3. QED
    BY <1>1, <1>2 DEF RowsAreEntries, StampsDistinct

(* _drop keeps the index map the inverse of the identity column.             *)
LEMMA DropKeepsIndex ==
    ASSUME TypeOK, IndexAligned, NEW index \in LiveRows, Drop(index)
    PROVE  IndexAligned'
  <1> USE DropShape
  <1> DEFINE last == size - 1
             unlisted == [byIdentity EXCEPT ![identity[index]] = @ \ {index}]
  <1>1. SUFFICES ASSUME NEW i \in Identities
                 PROVE  byIdentity'[i] = {r \in LiveRows' : identity'[r] = i}
    BY DEF IndexAligned
  <1>2. unlisted[i] = {r \in LiveRows : identity[r] = i /\ r # index}
    BY DEF IndexAligned, TypeOK
  <1>3. CASE index = last
    <2>1. byIdentity'[i] = unlisted[i]
      BY <1>3 DEF Drop
    <2>2. \A r : r \in LiveRows' <=> r \in LiveRows /\ r # index
      BY <1>3 DEF LiveRows, TypeOK
    <2>3. \A r \in LiveRows' : identity'[r] = identity[r]
      BY <2>2 DEF Source
    <2>4. QED
      BY <1>2, <2>1, <2>2, <2>3
  <1>4. CASE index # last
    <2>1. byIdentity'[i] = IF i = identity[last] THEN (unlisted[i] \ {last}) \cup {index}
                           ELSE unlisted[i]
      <3>1. byIdentity' = [unlisted EXCEPT ![identity[last]] = (@ \ {last}) \cup {index}]
        BY <1>4 DEF Drop
      <3>2. DOMAIN unlisted = Identities
        BY DEF TypeOK
      <3> HIDE DEF unlisted
      <3>3. QED
        BY <3>1, <3>2
    <2>2. /\ \A r : r \in LiveRows' <=> r \in LiveRows /\ r # last
          /\ last \in LiveRows /\ index \in LiveRows'
      BY <1>4, Numbers
    <2>3. \A r \in LiveRows' : identity'[r] = IF r = index THEN identity[last]
                                              ELSE identity[r]
      BY DEF Source
    <2> HIDE DEF last, unlisted
    <2>4. QED
      BY <1>2, <2>1, <2>2, <2>3
  <1>5. QED
    BY <1>3, <1>4

(* A row that still shows a snapshot's stamp after _drop is not the row that *)
(* was overwritten, and showed the stamp before.                             *)
LEMMA DropSpares ==
    ASSUME TypeOK, StampsMoveDown, NEW index \in LiveRows, Drop(index),
           UNCHANGED stamps,
           NEW t \in Readers, NEW r \in SnapshotRows(t), SameEntry(t, r)'
    PROVE  /\ SameEntry(t, r) /\ r \in LiveRows /\ r # index
           /\ sequence'[r] = sequence[r] /\ vectors'[r] = vectors[r]
           /\ cameraCode'[r] = cameraCode[r]
  <1> USE DropShape
  <1>1. r \in LiveRows' /\ sequence'[r] = stamps[t][r]
    BY SMTT(30) DEF SameEntry, SnapshotRows, LiveRows, Rows, TypeOK
  <1>2. Source(index, r) <= r
    BY <1>1 DEF StampsMoveDown
  <1>3. Source(index, r) = r
    BY <1>1, <1>2, Numbers
  <1>4. QED
    BY <1>1, <1>3 DEF SameEntry, LiveRows, TypeOK

LEMMA DropKeepsSnapshots ==
    ASSUME TypeOK, SnapshotInv, NEW index \in LiveRows, Drop(index),
           UNCHANGED reading,
           \A t \in Readers : pc'[t] \in {"product", "ranking", "readback"} => pc'[t] = pc[t]
    PROVE  SnapshotInv'
  <1> USE DropShape DEF SnapshotInv
  <1>1. UNCHANGED <<stamps, scores, asked, exclude, top, nextSequence, names, inserted>>
    BY DEF reading, Drop
  <1>2. \A t \in Readers : SnapshotRows(t)' = SnapshotRows(t)
    BY <1>1 DEF SnapshotRows
  <1>3. StampsMoveDown'
    <2> SUFFICES ASSUME NEW t \in Readers, NEW r \in SnapshotRows(t)
                 PROVE  /\ stamps[t][r] < nextSequence
                        /\ \A l \in LiveRows' : sequence'[l] = stamps[t][r] => l <= r
      BY <1>1, <1>2 DEF StampsMoveDown
    <2>1. ASSUME NEW l \in LiveRows', sequence'[l] = stamps[t][r]
          PROVE  l <= r
      <3>1. Source(index, l) <= r
        BY <2>1 DEF StampsMoveDown
      <3>2. QED
        BY SMTT(30), <3>1 DEF LiveRows, TypeOK, SnapshotRows, Rows
    <2>2. QED
      BY <2>1 DEF StampsMoveDown
  <1>4. StampVouches'
    <2> SUFFICES ASSUME NEW t \in Readers, NEW r \in SnapshotRows(t), SameEntry(t, r)'
                 PROVE  /\ pc'[t] = "product" => r \notin dirty'[t]
                        /\ pc'[t] \in {"ranking", "readback"} =>
                               scores[t][r] = sequence'[r]
      BY <1>1, <1>2 DEF StampVouches
    <2>1. SameEntry(t, r) /\ r # index /\ sequence'[r] = sequence[r]
      BY <1>1, DropSpares
    <2>2. dirty'[t] \subseteq dirty[t] \cup {index}
      <3>1. UNCHANGED dirty \/ Scribble(index)
        BY DEF Drop
      <3>2. QED
        BY <3>1 DEF Scribble
    <2>3. QED
      BY <2>1, <2>2 DEF StampVouches
  <1>5. ExclusionMeaningful'
    <2> SUFFICES ASSUME NEW t \in Readers, NEW r \in SnapshotRows(t), SameEntry(t, r)',
                        asked[t].exclude_camera # None
                 PROVE  IF exclude[t] = None
                        THEN NameFor(cameraCode[r])' # asked[t].exclude_camera
                        ELSE /\ exclude[t] < Len(names)
                             /\ names[exclude[t] + 1] = asked[t].exclude_camera
      BY <1>1, <1>2 DEF ExclusionMeaningful
    <2>1. SameEntry(t, r) /\ cameraCode'[r] = cameraCode[r]
      BY <1>1, DropSpares
    <2>2. NameFor(cameraCode[r])' = NameFor(cameraCode[r])
      BY <1>1, <2>1 DEF NameFor
    <2>3. QED
      BY <2>1, <2>2 DEF ExclusionMeaningful
  <1>6. TopFromSnapshot'
    BY <1>1, <1>2 DEF TopFromSnapshot
  <1>7. QED
    BY <1>3, <1>4, <1>5, <1>6

--------------------------------------------------------------------------------
(* Type correctness, one action at a time.                                   *)

LEMMA DropType ==
    ASSUME TypeOK, NEW index \in LiveRows, Drop(index)
    PROVE  /\ size' \in 0 .. Capacity
           /\ identity' \in [Rows -> Identities \cup {None}]
           /\ vectors' \in [Rows -> Stamps \cup {NoStamp}]
           /\ cameraCode' \in [Rows -> Codes]
           /\ sequence' \in [Rows -> Nat]
           /\ byIdentity' \in [Identities -> SUBSET Rows]
           /\ dirty' \in [Readers -> SUBSET Rows]
           /\ UNCHANGED <<dim, nextSequence, names, inserted>>
  <1>1. size' \in 0 .. Capacity /\ size - 1 \in Rows /\ index \in Rows
    BY DropShape, CapacityAssumption DEF LiveRows, Rows
  <1>2. /\ identity' \in [Rows -> Identities \cup {None}]
        /\ vectors' \in [Rows -> Stamps \cup {NoStamp}]
        /\ sequence' \in [Rows -> Nat]
    BY <1>1 DEF TypeOK, Drop
  <1>3. cameraCode' \in [Rows -> Codes]
    <2>1. NO_CAMERA \in Codes
      BY MaxCamerasAssumption DEF NO_CAMERA, Codes
    <2>2. QED
      BY <1>1, <2>1 DEF TypeOK, Drop
  <1>4. byIdentity' \in [Identities -> SUBSET Rows]
    <2> DEFINE unlisted == [byIdentity EXCEPT ![identity[index]] = @ \ {index}]
    <2>1. unlisted \in [Identities -> SUBSET Rows]
      BY DEF TypeOK
    <2>2. \/ byIdentity' = unlisted
          \/ byIdentity' = [unlisted EXCEPT ![identity[size - 1]] =
                                (@ \ {size - 1}) \cup {index}]
      BY DEF Drop
    <2> HIDE DEF unlisted
    <2>3. QED
      BY <1>1, <2>1, <2>2
  <1>5. dirty' \in [Readers -> SUBSET Rows]
    <2>1. UNCHANGED dirty \/ Scribble(index)
      BY DEF Drop
    <2>2. dirty \in [Readers -> SUBSET Rows]
      BY DEF TypeOK
    <2>3. QED
      BY <1>1, <2>1, <2>2 DEF Scribble
  <1>6. QED
    BY <1>1, <1>2, <1>3, <1>4, <1>5 DEF Drop

LEMMA EvictOwnDrops ==
    ASSUME TypeOK, IndexAligned, HolderConsistent, NEW t \in Writers, EvictOwn(t)
    PROVE  \E r \in LiveRows : Drop(r)
  <1>1. adding \in Added
    BY DEF EvictOwn, HolderConsistent, Threads
  <1>2. adding.identity \in Identities
    BY <1>1 DEF Added
  <1>3. QED
    BY <1>2 DEF EvictOwn, Oldest, IndexAligned

LEMMA NameForType ==
    ASSUME TypeOK, NEW code \in Codes, code < Len(names)
    PROVE  NameFor(code) \in Cameras \cup {None}
  BY DEF TypeOK, NameFor, Codes, NO_CAMERA

LEMMA CodeForType ==
    ASSUME TypeOK, NEW c \in Cameras \cup {None}, ~CodecRefuses(c)
    PROVE  CodeFor(c) \in Codes
  BY MaxCamerasAssumption
     DEF CodecRefuses, CodeFor, Lookup, Interned, TypeOK, Codes, NO_CAMERA

LEMMA LookupFinds ==
    ASSUME TypeOK, NEW c, Interned(c)
    PROVE  /\ Lookup(c) \in 0 .. Len(names) - 1
           /\ names[Lookup(c) + 1] = c
  BY DEF TypeOK, Interned, Lookup

(* What the second time under the lock reports: entries with their own score.*)
LEMMA ReadBackReports ==
    ASSUME IInv, NEW t \in Readers, pc[t] = "readback",
           NEW r \in top[t], Reportable(t, r)
    PROVE  LET m == [identity |-> identity[r], camera |-> NameFor(cameraCode[r]),
                     score |-> scores[t][r], entry_index |-> r]
           IN  /\ m \in Match
               /\ m.score \in 0 .. nextSequence - 1
               /\ m.identity = inserted[m.score + 1].identity
               /\ m.camera = inserted[m.score + 1].camera
               /\ asked[t].exclude_camera # None => m.camera # asked[t].exclude_camera
  <1> USE DEF IInv, StoreInv, SnapshotInv
  <1>1. r \in SnapshotRows(t) /\ SameEntry(t, r) /\ r \in LiveRows /\ r \in Rows
    BY DEF TopFromSnapshot, Reportable, SameEntry, SnapshotRows, LiveRows, Rows, TypeOK
  <1>2. scores[t][r] = sequence[r] /\ sequence[r] \in 0 .. nextSequence - 1
    BY <1>1 DEF StampVouches, RowsAreEntries, TypeOK
  <1>3. /\ identity[r] = inserted[scores[t][r] + 1].identity
        /\ NameFor(cameraCode[r]) = inserted[scores[t][r] + 1].camera
        /\ cameraCode[r] < Len(names) /\ cameraCode[r] \in Codes
    BY <1>1, <1>2 DEF RowsAreEntries, TypeOK
  <1>4. inserted[scores[t][r] + 1] \in [identity : Identities, camera : Cameras \cup {None}]
    <2>1. scores[t][r] + 1 \in 1 .. Len(inserted)
      BY <1>2, MaxAddsAssumption DEF HistoryComplete, TypeOK
    <2>2. inserted \in Seq([identity : Identities, camera : Cameras \cup {None}])
      BY DEF TypeOK
    <2>3. QED
      BY <2>1, <2>2, ElementOfSeq
  <1>5. scores[t][r] \in Stamps
    BY <1>2, MaxAddsAssumption DEF Stamps, TypeOK
  <1>6. ASSUME asked[t].exclude_camera # None
        PROVE  NameFor(cameraCode[r]) # asked[t].exclude_camera
    <2>1. CASE exclude[t] = None
      BY <1>1, <1>6, <2>1 DEF ExclusionMeaningful
    <2>2. CASE exclude[t] # None
      <3>1. /\ exclude[t] < Len(names) /\ names[exclude[t] + 1] = asked[t].exclude_camera
            /\ exclude[t] \in Codes \ {NO_CAMERA}
        BY <1>1, <1>6, <2>2 DEF ExclusionMeaningful, TypeOK
      <3>2. cameraCode[r] # exclude[t]
        BY <2>2 DEF Reportable
      <3>3. CASE cameraCode[r] = NO_CAMERA
        BY <1>6, <3>3 DEF NameFor
      <3>4. CASE cameraCode[r] # NO_CAMERA
        BY SMTT(30), <1>3, <3>1, <3>2, <3>4 DEF NameFor, NamesDistinct, TypeOK, Codes, NO_CAMERA
      <3>5. QED
        BY <3>3, <3>4
    <2>3. QED
      BY <2>1, <2>2
  <1>7. QED
    BY <1>1, <1>2, <1>3, <1>4, <1>5, <1>6 DEF Match

LEMMA TypeStep == IInv /\ Next => TypeOK'
  <1> SUFFICES ASSUME IInv, Next PROVE TypeOK'
    OBVIOUS
  <1> USE DEF IInv, StoreInv, gallery, columns, writing, reading
  <1>1. ASSUME NEW t \in Writers, NEW e \in Embedding, AddRefused(t, e)
        PROVE  TypeOK'
    BY <1>1 DEF AddRefused, TypeOK, EnsuredDim, Embedding
  <1>2. ASSUME NEW t \in Writers, NEW e \in Embedding, Add(t, e)
        PROVE  TypeOK'
    <2>1. /\ e.identity \in Identities /\ e.camera \in Cameras \cup {None} /\ e.dim \in Dims
      BY DEF Embedding
    <2>2. dim' \in Dims \cup {None}
      BY <1>2, <2>1 DEF Add, EnsuredDim, TypeOK
    <2>3. names' \in Seq(Cameras) /\ Len(names') <= MaxCameras
      BY <1>2, <2>1, MaxCamerasAssumption
         DEF Add, AddRefuses, CodecRefuses, NamesWith, TypeOK
    <2>4. CodeFor(e.camera) \in Codes
      BY <1>2, <2>1, CodeForType DEF Add, AddRefuses
    <2>5. pc' \in [Threads -> {"idle", "room", "removing", "product", "ranking", "readback"}]
      BY <1>2 DEF Add, TypeOK, Threads
    <2>6. QED
      BY <1>2, <2>1, <2>2, <2>3, <2>4, <2>5 DEF Add, Added, TypeOK
  <1>3. ASSUME NEW t \in Writers, NEW i \in Identities, RemoveIdentity(t, i)
        PROVE  TypeOK'
    BY <1>3 DEF RemoveIdentity, TypeOK, Threads
  <1>4. ASSUME NEW t \in Writers, Clear(t)
        PROVE  TypeOK'
    BY <1>4, CapacityAssumption, MaxCamerasAssumption DEF Clear, TypeOK, Codes, NO_CAMERA
  <1>5. ASSUME NEW t \in Writers, EvictOwn(t)
        PROVE  TypeOK'
    <2>1. PICK r \in LiveRows : Drop(r)
      BY <1>5, EvictOwnDrops
    <2>2. QED
      BY <1>5, <2>1, DropType DEF EvictOwn, TypeOK
  <1>6. ASSUME NEW t \in Writers, EvictOldest(t)
        PROVE  TypeOK'
    <2>1. PICK r \in LiveRows : Drop(r)
      BY <1>6 DEF EvictOldest, Oldest
    <2>2. QED
      BY <1>6, <2>1, DropType DEF EvictOldest, TypeOK
  <1>7. ASSUME NEW t \in Writers, WriteRow(t)
        PROVE  TypeOK'
    <2>1. adding \in Added /\ nextSequence < MaxAdds
      BY <1>7 DEF WriteRow, HolderConsistent, Threads
    <2>2. /\ adding.identity \in Identities /\ adding.camera \in Cameras \cup {None}
          /\ adding.code \in Codes
      BY <2>1 DEF Added
    <2>3. size \in Rows /\ size' \in 0 .. Capacity
      BY <1>7, CapacityAssumption DEF WriteRow, GalleryFull, TypeOK, Rows
    <2>4. nextSequence \in Stamps /\ nextSequence' \in 0 .. MaxAdds /\ nextSequence \in Nat
      BY <1>7, <2>1, MaxAddsAssumption DEF WriteRow, TypeOK, Stamps
    <2>5. dirty' \in [Readers -> SUBSET Rows]
      BY <1>7, <2>3 DEF WriteRow, Scribble, TypeOK
    <2>6. pc' \in [Threads -> {"idle", "room", "removing", "product", "ranking", "readback"}]
      BY <1>7 DEF WriteRow, TypeOK, Threads
    <2>7. inserted' \in Seq([identity : Identities, camera : Cameras \cup {None}])
      BY <1>7, <2>2 DEF WriteRow, TypeOK
    <2>8. byIdentity' \in [Identities -> SUBSET Rows]
      BY <1>7, <2>2, <2>3 DEF WriteRow, TypeOK
    <2>9. QED
      BY <1>7, <2>2, <2>3, <2>4, <2>5, <2>6, <2>7, <2>8 DEF WriteRow, TypeOK
  <1>8. ASSUME NEW t \in Writers, DropDoomed(t)
        PROVE  TypeOK'
    <2>1. PICK r \in LiveRows : Drop(r)
      BY <1>8 DEF DropDoomed, NextDoomed, HolderConsistent, Threads
    <2>2. QED
      BY <1>8, <2>1, DropType DEF DropDoomed, TypeOK, Threads
  <1>9. ASSUME NEW t \in Readers, NEW q \in Query, QueryEmpty(t, q) \/ Snapshot(t, q)
        PROVE  TypeOK'
    <2>1. CASE QueryEmpty(t, q)
      BY <2>1 DEF QueryEmpty, TypeOK
    <2>2. CASE Snapshot(t, q)
      <3>1. \A r \in LiveRows : sequence[r] \in Stamps
        BY Numbers DEF RowsAreEntries, Stamps
      <3>2. stamps' \in [Readers -> [Rows -> Stamps \cup {NoStamp}]]
        BY <2>2, <3>1 DEF Snapshot, TypeOK, LiveRows, Rows
      <3>3. Lookup(q.exclude_camera) \in (Codes \ {NO_CAMERA}) \cup {None}
        <4>1. CASE Interned(q.exclude_camera)
          BY <4>1, LookupFinds, MaxCamerasAssumption DEF TypeOK, Codes, NO_CAMERA
        <4>2. CASE ~Interned(q.exclude_camera)
          BY <4>2 DEF Lookup
        <4>3. QED
          BY <4>1, <4>2
      <3>4. exclude' \in [Readers -> (Codes \ {NO_CAMERA}) \cup {None}]
        BY <2>2, <3>3 DEF Snapshot, TypeOK
      <3>5. QED
        BY <2>2, <3>2, <3>4 DEF Snapshot, TypeOK, Threads
    <2>3. QED
      BY <1>9, <2>1, <2>2
  <1>10. ASSUME NEW t \in Readers, Product(t) 
         PROVE  TypeOK'
    BY <1>10 DEF Product, TypeOK, Threads
  <1>11. ASSUME NEW t \in Readers, Rank(t)
         PROVE  TypeOK'
    BY <1>11 DEF Rank, TypeOK, Threads, SnapshotRows
  <1>12. ASSUME NEW t \in Readers, AllMasked(t) \/ ReadBack(t)
         PROVE  TypeOK'
    <2>1. PICK matches \in SUBSET Match : EndQuery(t, matches)
      <3>1. CASE AllMasked(t)
        BY <3>1 DEF AllMasked
      <3>2. CASE ReadBack(t)
        BY <3>2, ReadBackReports DEF ReadBack
      <3>3. QED
        BY <1>12, <3>1, <3>2
    <2>2. QED
      BY <2>1 DEF EndQuery, TypeOK, Threads
  <1>13. QED
    BY <1>1, <1>2, <1>3, <1>4, <1>5, <1>6, <1>7, <1>8, <1>9, <1>10, <1>11, <1>12 DEF Next

--------------------------------------------------------------------------------
(* The store: rows, index and history.                                       *)

LEMMA DropKeepsStore ==
    ASSUME TypeOK, StoreInv, NEW index \in LiveRows, Drop(index)
    PROVE  StoreInv'
  <1>1. UNCHANGED <<nextSequence, names, inserted>>
    BY DEF Drop
  <1>2. HistoryComplete' /\ NamesDistinct'
    BY <1>1 DEF StoreInv, HistoryComplete, NamesDistinct
  <1>3. QED
    BY <1>2, DropKeepsRows, DropKeepsIndex DEF StoreInv

LEMMA StoreUnchanged ==
    ASSUME StoreInv, UNCHANGED <<size, columns, nextSequence, names, inserted>>
    PROVE  StoreInv'
  BY DEF StoreInv, columns, HistoryComplete, NamesDistinct, RowsAreEntries, IndexAligned,
         StampsDistinct, LiveRows, NameFor

(* Interning a camera leaves the names of the codes already given.           *)
LEMMA NamesGrow ==
    ASSUME TypeOK, NamesDistinct, NEW c \in Cameras \cup {None}, names' = NamesWith(c)
    PROVE  /\ NamesDistinct'
           /\ Len(names) <= Len(names')
           /\ \A i \in DOMAIN names : i \in DOMAIN names' /\ names'[i] = names[i]
           /\ CodeFor(c) < Len(names')
           /\ IF CodeFor(c) = NO_CAMERA THEN c = None ELSE names'[CodeFor(c) + 1] = c
  <1>1. CASE c = None
    BY <1>1 DEF TypeOK, NamesWith, CodeFor, NamesDistinct, NO_CAMERA
  <1>2. CASE c # None /\ Interned(c)
    <2>1. Lookup(c) \in 0 .. Len(names) - 1 /\ names[Lookup(c) + 1] = c /\ names' = names
      BY <1>2, LookupFinds DEF NamesWith
    <2>2. CodeFor(c) = Lookup(c)
      BY <1>2 DEF CodeFor
    <2>3. QED
      BY <2>1, <2>2 DEF TypeOK, NamesDistinct, NO_CAMERA
  <1>3. CASE c # None /\ ~Interned(c)
    <2>1. names' = Append(names, c) /\ CodeFor(c) = Len(names) /\ c \in Cameras
      BY <1>3 DEF NamesWith, CodeFor
    <2>2. \A i \in DOMAIN names : names[i] # c
      BY <1>3 DEF Interned
    <2>3. QED
      BY <2>1, <2>2 DEF TypeOK, NamesDistinct, NO_CAMERA
  <1>4. QED
    BY <1>1, <1>2, <1>3

LEMMA WriteRowKeepsStore ==
    ASSUME IInv, NEW t \in Writers, WriteRow(t)
    PROVE  StoreInv'
  <1> USE DEF IInv, StoreInv
  <1>1. /\ adding \in Added /\ adding.code < Len(names) /\ NameFor(adding.code) = adding.camera
        /\ adding.identity \in Identities /\ adding.code \in Codes
    BY DEF WriteRow, HolderConsistent, Threads, Added
  <1>2. /\ size \in Rows /\ size' = size + 1 /\ size \in Nat
        /\ LiveRows' = LiveRows \cup {size} /\ size \notin LiveRows /\ LiveRows \subseteq Rows
    BY CapacityAssumption DEF WriteRow, GalleryFull, TypeOK, Rows, LiveRows
  <1>3. /\ inserted' = Append(inserted, [identity |-> adding.identity, camera |-> adding.camera])
        /\ nextSequence' = nextSequence + 1 /\ nextSequence \in Nat /\ names' = names
        /\ Len(inserted) = nextSequence
    BY MaxAddsAssumption DEF WriteRow, HistoryComplete, TypeOK
  <1>4. HistoryComplete' /\ NamesDistinct'
    BY <1>3 DEF HistoryComplete, NamesDistinct, TypeOK
  <1>5. \A r \in LiveRows : /\ sequence'[r] = sequence[r] /\ vectors'[r] = vectors[r]
                            /\ identity'[r] = identity[r] /\ cameraCode'[r] = cameraCode[r]
    BY <1>2 DEF WriteRow, TypeOK
  <1>6. /\ sequence'[size] = nextSequence /\ vectors'[size] = nextSequence
        /\ identity'[size] = adding.identity /\ cameraCode'[size] = adding.code
    BY <1>2 DEF WriteRow, TypeOK
  <1>7. RowsAreEntries'
    <2> SUFFICES ASSUME NEW r \in LiveRows'
                 PROVE  /\ sequence'[r] < nextSequence'
                        /\ vectors'[r] = sequence'[r]
                        /\ identity'[r] = inserted'[sequence'[r] + 1].identity
                        /\ cameraCode'[r] < Len(names')
                        /\ NameFor(cameraCode[r])' = inserted'[sequence'[r] + 1].camera
      BY DEF RowsAreEntries
    <2>1. CASE r = size
      <3>1. inserted'[nextSequence + 1] =
                [identity |-> adding.identity, camera |-> adding.camera]
        BY <1>3 DEF TypeOK
      <3>2. NameFor(cameraCode[r])' = NameFor(adding.code)
        BY <1>3, <1>6, <2>1 DEF NameFor
      <3>3. QED
        BY <1>1, <1>3, <1>6, <2>1, <3>1, <3>2
    <2>2. CASE r \in LiveRows
      <3>1. sequence[r] \in 0 .. nextSequence - 1
        BY <1>2, <1>3, <2>2 DEF RowsAreEntries, TypeOK
      <3>2. inserted'[sequence[r] + 1] = inserted[sequence[r] + 1]
        BY <1>3, <3>1 DEF TypeOK
      <3>3. NameFor(cameraCode[r])' = NameFor(cameraCode[r])
        BY <1>3, <1>5, <2>2 DEF NameFor
      <3>4. QED
        BY <1>3, <1>5, <2>2, <3>1, <3>2, <3>3 DEF RowsAreEntries
    <2>3. QED
      BY <1>2, <2>1, <2>2
  <1>8. IndexAligned'
    <2> SUFFICES ASSUME NEW i \in Identities
                 PROVE  byIdentity'[i] = {r \in LiveRows' : identity'[r] = i}
      BY DEF IndexAligned
    <2>1. byIdentity'[i] = IF i = adding.identity THEN byIdentity[i] \cup {size}
                           ELSE byIdentity[i]
      BY <1>1 DEF WriteRow, TypeOK
    <2>2. byIdentity[i] = {r \in LiveRows : identity[r] = i}
      BY DEF IndexAligned
    <2>3. QED
      BY <1>2, <1>5, <1>6, <2>1, <2>2
  <1>9. StampsDistinct'
    <2>1. \A r \in LiveRows : sequence[r] < nextSequence
      BY DEF RowsAreEntries
    <2>2. \A r \in LiveRows : sequence[r] \in Nat
      BY <1>2 DEF TypeOK
    <2>3. QED
      BY SMTT(30), <1>2, <1>3, <1>5, <1>6, <2>1, <2>2, Numbers DEF StampsDistinct
  <1>10. QED
    BY <1>4, <1>7, <1>8, <1>9

(* The live rows keep their cameras when another one is interned.            *)
LEMMA AddKeepsNames ==
    ASSUME IInv, NEW t \in Writers, NEW e \in Embedding, Add(t, e), NEW r \in LiveRows
    PROVE  /\ cameraCode[r] < Len(names')
           /\ NameFor(cameraCode[r])' = NameFor(cameraCode[r])
  <1>1. /\ Len(names) <= Len(names')
        /\ \A i \in DOMAIN names : i \in DOMAIN names' /\ names'[i] = names[i]
    BY NamesGrow DEF Add, Embedding, IInv, StoreInv
  <1>2. cameraCode[r] \in Codes /\ cameraCode[r] < Len(names)
    BY Numbers DEF IInv, StoreInv, RowsAreEntries
  <1>3. names \in Seq(Cameras) /\ names' \in Seq(Cameras)
    BY DEF Add, NamesWith, Embedding, IInv, TypeOK
  <1>4. cameraCode' = cameraCode
    BY DEF Add, columns
  <1>5. QED
    BY <1>1, <1>2, <1>3, <1>4 DEF NameFor, Codes, NO_CAMERA

LEMMA StoreStep == IInv /\ Next => StoreInv'
  <1> SUFFICES ASSUME IInv, Next PROVE StoreInv'
    OBVIOUS
  <1> USE DEF IInv, gallery
  <1>1. ASSUME NEW t \in Writers, NEW e \in Embedding, AddRefused(t, e)
        PROVE  StoreInv'
    BY <1>1, StoreUnchanged DEF AddRefused
  <1>2. ASSUME NEW t \in Writers, NEW e \in Embedding, Add(t, e)
        PROVE  StoreInv'
    <2>1. e.camera \in Cameras \cup {None} /\ names' = NamesWith(e.camera)
      BY <1>2 DEF Add, Embedding
    <2>2. /\ NamesDistinct' /\ Len(names) <= Len(names')
          /\ \A i \in DOMAIN names : i \in DOMAIN names' /\ names'[i] = names[i]
      BY <2>1, NamesGrow DEF StoreInv
    <2>3. UNCHANGED <<size, columns, nextSequence, inserted>>
      BY <1>2 DEF Add
    <2>4. HistoryComplete' /\ IndexAligned' /\ StampsDistinct'
      BY <2>3 DEF StoreInv, columns, HistoryComplete, IndexAligned, StampsDistinct, LiveRows
    <2>5. \A r \in LiveRows : /\ cameraCode[r] < Len(names')
                              /\ NameFor(cameraCode[r])' = NameFor(cameraCode[r])
      BY <1>2, AddKeepsNames
    <2>6. RowsAreEntries'
      BY <2>3, <2>5 DEF StoreInv, columns, RowsAreEntries, LiveRows
    <2>7. QED
      BY <2>2, <2>4, <2>6 DEF StoreInv
  <1>3. ASSUME NEW t \in Writers, NEW i \in Identities, RemoveIdentity(t, i)
        PROVE  StoreInv'
    BY <1>3, StoreUnchanged DEF RemoveIdentity
  <1>4. ASSUME NEW t \in Writers, Clear(t)
        PROVE  StoreInv'
    <2>1. LiveRows' = {}
      BY <1>4 DEF Clear, LiveRows
    <2>2. QED
      BY <1>4, <2>1 DEF Clear, StoreInv, HistoryComplete, NamesDistinct, RowsAreEntries,
                        IndexAligned, StampsDistinct
  <1>5. ASSUME NEW t \in Writers, EvictOwn(t)
        PROVE  StoreInv'
    BY <1>5, EvictOwnDrops, DropKeepsStore DEF StoreInv
  <1>6. ASSUME NEW t \in Writers, EvictOldest(t)
        PROVE  StoreInv'
    BY <1>6, DropKeepsStore DEF EvictOldest, Oldest
  <1>7. ASSUME NEW t \in Writers, WriteRow(t)
        PROVE  StoreInv'
    BY <1>7, WriteRowKeepsStore
  <1>8. ASSUME NEW t \in Writers, DropDoomed(t)
        PROVE  StoreInv'
    <2>1. PICK r \in LiveRows : Drop(r)
      BY <1>8 DEF DropDoomed, NextDoomed, HolderConsistent, Threads
    <2>2. QED
      BY <2>1, DropKeepsStore
  <1>9. ASSUME NEW t \in Readers,
               \/ \E q \in Query : QueryEmpty(t, q) \/ Snapshot(t, q)
               \/ Product(t) \/ Rank(t) \/ AllMasked(t) \/ ReadBack(t)
        PROVE  StoreInv'
    BY <1>9, StoreUnchanged
       DEF QueryEmpty, Snapshot, Product, Rank, AllMasked, ReadBack, EndQuery
  <1>10. QED
    BY <1>1, <1>2, <1>3, <1>4, <1>5, <1>6, <1>7, <1>8, <1>9 DEF Next

--------------------------------------------------------------------------------
(* The lock's holder.                                                        *)

LEMMA HolderStep == IInv /\ Next => HolderConsistent'
  <1> SUFFICES ASSUME IInv, Next PROVE HolderConsistent'
    OBVIOUS
  <1> USE DEF IInv, gallery, writing, reading
  <1>1. ASSUME UNCHANGED <<size, names, nextSequence, lock, adding, doomed>>,
               \A u \in Threads : pc'[u] \in {"room", "removing"} => pc'[u] = pc[u]
        PROVE  HolderConsistent'
    BY <1>1 DEF HolderConsistent, LiveRows, NameFor
  <1>2. ASSUME NEW t \in Writers, NEW e \in Embedding, AddRefused(t, e)
        PROVE  HolderConsistent'
    BY <1>1, <1>2 DEF AddRefused
  <1>3. ASSUME lock = None
        PROVE  \A u \in Threads : pc[u] \notin {"room", "removing"}
    BY <1>3, NoneAssumption DEF HolderConsistent, Threads
  <1>4. ASSUME NEW t \in Writers, NEW e \in Embedding, Add(t, e)
        PROVE  HolderConsistent'
    <2>1. \A u \in Threads : pc'[u] \in {"room", "removing"} => u = t /\ pc'[u] = "room"
      BY <1>3, <1>4 DEF Add, TypeOK
    <2>2. /\ CodeFor(e.camera) < Len(names')
          /\ IF CodeFor(e.camera) = NO_CAMERA THEN e.camera = None
             ELSE names'[CodeFor(e.camera) + 1] = e.camera
      BY <1>4, NamesGrow DEF Add, Embedding, StoreInv
    <2>3. /\ adding' = [identity |-> e.identity, camera |-> e.camera,
                        code |-> CodeFor(e.camera)]
          /\ lock' = t /\ nextSequence' < MaxAdds
      BY <1>4 DEF Add
    <2>4. adding' \in Added
      <3>1. e.identity \in Identities /\ e.camera \in Cameras \cup {None}
        BY DEF Embedding
      <3>2. CodeFor(e.camera) \in Codes
        BY <1>4, <3>1, CodeForType DEF Add, AddRefuses
      <3>3. QED
        BY <2>3, <3>1, <3>2 DEF Added
    <2>5. NameFor(adding.code)' = e.camera
      BY <2>2, <2>3 DEF NameFor
    <2>6. QED
      BY <2>1, <2>2, <2>3, <2>4, <2>5 DEF HolderConsistent
  <1>5. ASSUME NEW t \in Writers, NEW i \in Identities, RemoveIdentity(t, i)
        PROVE  HolderConsistent'
    <2>1. \A u \in Threads : pc'[u] \in {"room", "removing"} => u = t /\ pc'[u] = "removing"
      BY <1>3, <1>5 DEF RemoveIdentity, TypeOK
    <2>2. doomed' \subseteq LiveRows' /\ lock' = t
      BY <1>5 DEF RemoveIdentity, StoreInv, IndexAligned, LiveRows
    <2>3. QED
      BY <2>1, <2>2 DEF HolderConsistent
  <1>6. ASSUME NEW t \in Writers, Clear(t)
        PROVE  HolderConsistent'
    BY <1>3, <1>6 DEF Clear, HolderConsistent
  <1>7. ASSUME NEW t \in Writers, EvictOwn(t) \/ EvictOldest(t)
        PROVE  HolderConsistent'
    <2>1. \A u \in Threads : pc[u] \in {"room", "removing"} => u = t
      BY <1>7 DEF HolderConsistent, EvictOwn, EvictOldest
    <2>2. /\ pc[t] = "room" /\ pc' = pc
          /\ UNCHANGED <<names, nextSequence, lock, adding>>
      BY <1>7 DEF EvictOwn, EvictOldest, Drop
    <2>3. QED
      BY <2>1, <2>2 DEF HolderConsistent, NameFor
  <1>8. ASSUME NEW t \in Writers, WriteRow(t)
        PROVE  HolderConsistent'
    <2>1. \A u \in Threads : pc'[u] \notin {"room", "removing"}
      BY <1>8 DEF HolderConsistent, WriteRow, TypeOK
    <2>2. QED
      BY <2>1 DEF HolderConsistent
  <1>9. ASSUME NEW t \in Writers, DropDoomed(t)
        PROVE  HolderConsistent'
    <2>1. PICK r \in NextDoomed :
              /\ Drop(r) /\ doomed' = doomed \ {r}
              /\ IF doomed = {r} THEN lock' = None /\ pc' = [pc EXCEPT ![t] = "idle"]
                 ELSE UNCHANGED <<lock, pc>>
      BY <1>9 DEF DropDoomed
    <2>2. \A u \in Threads : pc[u] \in {"room", "removing"} => u = t
      BY <1>9 DEF HolderConsistent, DropDoomed
    <2>3. doomed \subseteq LiveRows /\ r \in LiveRows /\ pc[t] = "removing" /\ lock = t
      BY <1>9 DEF HolderConsistent, DropDoomed, Threads, NextDoomed
    <2>4. LiveRows' = 0 .. size - 2
      BY <2>1, <2>3, DropShape
    <2>5. \A o \in doomed \ {r} : o < r
      BY <2>3 DEF NextDoomed, LiveRows, TypeOK
    <2>6. doomed' \subseteq LiveRows'
      BY <2>1, <2>3, <2>4, <2>5, Numbers
    <2>7. \A u \in Threads : pc'[u] \in {"room", "removing"} =>
                u = t /\ pc'[u] = "removing" /\ lock' = t
      BY <2>1, <2>2, <2>3 DEF TypeOK
    <2>8. QED
      BY <2>6, <2>7 DEF HolderConsistent
  <1>10. ASSUME NEW t \in Readers,
                \/ \E q \in Query : QueryEmpty(t, q) \/ Snapshot(t, q)
                \/ Product(t) \/ Rank(t) \/ AllMasked(t) \/ ReadBack(t)
         PROVE  HolderConsistent'
    BY <1>1, <1>10
       DEF QueryEmpty, Snapshot, Product, Rank, AllMasked, ReadBack, EndQuery, TypeOK
  <1>11. QED
    BY <1>2, <1>4, <1>5, <1>6, <1>7, <1>8, <1>9, <1>10 DEF Next

--------------------------------------------------------------------------------
(* The snapshots.                                                            *)

LEMMA SnapshotUnchanged ==
    ASSUME SnapshotInv, UNCHANGED <<size, sequence, cameraCode, nextSequence, names, reading>>,
           \A t \in Readers : pc'[t] \in {"product", "ranking", "readback"} => pc'[t] = pc[t],
           \A t \in Readers : dirty'[t] = dirty[t]
    PROVE  SnapshotInv'
  BY DEF SnapshotInv, reading, StampsMoveDown, StampVouches, ExclusionMeaningful,
         TopFromSnapshot, SnapshotRows, SameEntry, LiveRows, NameFor

LEMMA WriteRowKeepsSnapshots ==
    ASSUME IInv, NEW w \in Writers, WriteRow(w)
    PROVE  SnapshotInv'
  <1> USE Numbers DEF IInv, SnapshotInv
  <1>1. UNCHANGED <<stamps, scores, asked, exclude, top, names>>
    BY DEF WriteRow, reading
  <1>2. \A t \in Readers : SnapshotRows(t)' = SnapshotRows(t) /\ SnapshotRows(t) \subseteq Rows
    BY <1>1 DEF SnapshotRows
  <1>3. /\ LiveRows' = LiveRows \cup {size} /\ size' = size + 1 /\ size \in Rows
        /\ nextSequence' = nextSequence + 1 /\ sequence'[size] = nextSequence
        /\ \A r \in LiveRows : sequence'[r] = sequence[r] /\ cameraCode'[r] = cameraCode[r]
    <2>1. /\ size' = size + 1 /\ size < Capacity /\ nextSequence' = nextSequence + 1
          /\ sequence' = [sequence EXCEPT ![size] = nextSequence]
          /\ cameraCode' = [cameraCode EXCEPT ![size] = adding.code]
      BY Numbers DEF WriteRow, GalleryFull
    <2>2. size \in Rows /\ LiveRows' = LiveRows \cup {size} /\ size \notin LiveRows
      BY <2>1 DEF LiveRows, Rows
    <2>3. sequence \in [Rows -> Nat] /\ cameraCode \in [Rows -> Codes]
      BY DEF TypeOK
    <2>4. QED
      BY <2>1, <2>2, <2>3
  <1>4. StampsMoveDown'
    <2> SUFFICES ASSUME NEW t \in Readers, NEW r \in SnapshotRows(t)
                 PROVE  /\ stamps[t][r] < nextSequence'
                        /\ \A l \in LiveRows' : sequence'[l] = stamps[t][r] => l <= r
      BY <1>1, <1>2 DEF StampsMoveDown
    <2>1. stamps[t][r] < nextSequence /\ stamps[t][r] \in Int
      BY <1>2 DEF StampsMoveDown, TypeOK, Stamps, NoStamp
    <2>2. QED
      BY <1>3, <2>1 DEF StampsMoveDown
  <1>5. ASSUME NEW t \in Readers, NEW r \in SnapshotRows(t), SameEntry(t, r)'
        PROVE  /\ SameEntry(t, r) /\ r \in LiveRows /\ r # size
               /\ sequence'[r] = sequence[r] /\ cameraCode'[r] = cameraCode[r]
    <2>1. r \in LiveRows' /\ sequence'[r] = stamps[t][r] /\ r \in Nat
      BY <1>1, <1>2, <1>3, <1>5 DEF SameEntry, Rows
    <2>2. stamps[t][r] < nextSequence
      BY DEF StampsMoveDown
    <2>3. r # size
      BY <1>3, <2>1, <2>2
    <2>4. QED
      BY <1>3, <2>1, <2>3 DEF SameEntry
  <1>6. StampVouches'
    <2> SUFFICES ASSUME NEW t \in Readers, NEW r \in SnapshotRows(t), SameEntry(t, r)'
                 PROVE  /\ pc'[t] = "product" => r \notin dirty'[t]
                        /\ pc'[t] \in {"ranking", "readback"} =>
                               scores[t][r] = sequence'[r]
      BY <1>1, <1>2 DEF StampVouches
    <2>1. dirty'[t] \subseteq dirty[t] \cup {size}
      BY DEF WriteRow, Scribble
    <2>2. pc'[t] \in {"product", "ranking", "readback"} => pc'[t] = pc[t]
      BY DEF WriteRow, TypeOK, Threads
    <2>3. SameEntry(t, r) /\ r # size /\ sequence'[r] = sequence[r]
      BY <1>5
    <2>4. QED
      BY <2>1, <2>2, <2>3 DEF StampVouches
  <1>7. ExclusionMeaningful'
    <2> SUFFICES ASSUME NEW t \in Readers, NEW r \in SnapshotRows(t), SameEntry(t, r)',
                        asked[t].exclude_camera # None
                 PROVE  IF exclude[t] = None
                        THEN NameFor(cameraCode[r])' # asked[t].exclude_camera
                        ELSE /\ exclude[t] < Len(names)
                             /\ names[exclude[t] + 1] = asked[t].exclude_camera
      BY <1>1, <1>2 DEF ExclusionMeaningful
    <2>1. SameEntry(t, r) /\ cameraCode'[r] = cameraCode[r]
      BY <1>5
    <2>2. NameFor(cameraCode[r])' = NameFor(cameraCode[r])
      BY <1>1, <2>1 DEF NameFor
    <2>3. QED
      BY <2>1, <2>2 DEF ExclusionMeaningful
  <1>8. TopFromSnapshot'
    <2>1. \A t \in Readers : pc'[t] = "readback" => pc[t] = "readback"
      BY DEF WriteRow, TypeOK, Threads
    <2>2. QED
      BY <1>1, <1>2, <2>1 DEF TopFromSnapshot
  <1>9. QED
    BY <1>4, <1>6, <1>7, <1>8

(* Interning a camera while a query runs does not change what an entry of    *)
(* the snapshot means to it.                                                 *)
LEMMA AddKeepsSnapshots ==
    ASSUME IInv, NEW w \in Writers, NEW e \in Embedding, Add(w, e)
    PROVE  SnapshotInv'
  <1> USE Numbers DEF IInv, SnapshotInv
  <1>1. /\ UNCHANGED <<stamps, scores, asked, exclude, top, dirty, size, sequence, cameraCode,
                       nextSequence>>
        /\ \A t \in Readers : pc'[t] \in {"product", "ranking", "readback"} => pc'[t] = pc[t]
    BY DEF Add, reading, columns, TypeOK, Threads
  <1>2. /\ Len(names) <= Len(names') /\ Len(names) \in Nat /\ Len(names') \in Nat
        /\ \A i \in DOMAIN names : i \in DOMAIN names' /\ names'[i] = names[i]
        /\ DOMAIN names = 1 .. Len(names)
    <2>1. names \in Seq(Cameras) /\ e.camera \in Cameras \cup {None}
      BY DEF TypeOK, Embedding
    <2>2. names' = NamesWith(e.camera)
      BY DEF Add
    <2>3. TypeOK /\ NamesDistinct
      BY DEF StoreInv
    <2>4. /\ Len(names) <= Len(names')
          /\ \A i \in DOMAIN names : i \in DOMAIN names' /\ names'[i] = names[i]
      BY <2>1, <2>2, <2>3, NamesGrow
    <2>5. names' \in Seq(Cameras)
      BY <2>1, <2>2 DEF NamesWith
    <2> QED
      BY <2>1, <2>4, <2>5
  <1>3. StampsMoveDown' /\ StampVouches' /\ TopFromSnapshot'
    BY <1>1 DEF StampsMoveDown, StampVouches, TopFromSnapshot, SnapshotRows, SameEntry, LiveRows
  <1>4. ExclusionMeaningful'
    <2> SUFFICES ASSUME NEW t \in Readers, NEW r \in SnapshotRows(t), SameEntry(t, r),
                        asked[t].exclude_camera # None
                 PROVE  IF exclude[t] = None
                        THEN NameFor(cameraCode[r])' # asked[t].exclude_camera
                        ELSE /\ exclude[t] < Len(names')
                             /\ names'[exclude[t] + 1] = asked[t].exclude_camera
      BY <1>1 DEF ExclusionMeaningful, SnapshotRows, SameEntry
    <2>1. r \in LiveRows
      BY DEF SameEntry, SnapshotRows, Rows
    <2>2. CASE exclude[t] = None
      <3>1. NameFor(cameraCode[r]) # asked[t].exclude_camera
        BY <2>2 DEF ExclusionMeaningful
      <3>2. cameraCode[r] \in Codes /\ cameraCode[r] < Len(names)
        BY <2>1 DEF StoreInv, RowsAreEntries
      <3>3. NameFor(cameraCode[r])' = NameFor(cameraCode[r])
        BY SMTT(30), <1>1, <1>2, <3>2 DEF NameFor, Codes, NO_CAMERA
      <3>4. QED
        BY <2>2, <3>1, <3>3
    <2>3. CASE exclude[t] # None
      <3>1. exclude[t] \in Codes \ {NO_CAMERA}
        BY <2>3 DEF TypeOK
      <3>2. exclude[t] < Len(names) /\ names[exclude[t] + 1] = asked[t].exclude_camera
        BY <2>3 DEF ExclusionMeaningful
      <3>3. exclude[t] + 1 \in DOMAIN names
        BY <1>2, <3>1, <3>2, MaxCamerasAssumption DEF Codes, NO_CAMERA
      <3>4. QED
        BY SMTT(30), <1>2, <2>3, <3>1, <3>2, <3>3, MaxCamerasAssumption DEF Codes, NO_CAMERA
    <2>4. QED
      BY <2>2, <2>3
  <1>5. QED
    BY <1>3, <1>4

(* A snapshot, taken under the lock, is true of the gallery.                 *)
LEMMA SnapshotIsTrue ==
    ASSUME IInv, NEW t \in Readers, NEW q \in Query, Snapshot(t, q)
    PROVE  SnapshotInv'
  <1> USE Numbers DEF IInv
  <1>1. /\ UNCHANGED <<size, sequence, cameraCode, nextSequence, names, scores, top>>
        /\ \A u \in Readers : u # t =>
              /\ stamps'[u] = stamps[u] /\ exclude'[u] = exclude[u] /\ asked'[u] = asked[u]
              /\ dirty'[u] = dirty[u] /\ pc'[u] = pc[u]
        /\ stamps'[t] = [r \in Rows |-> IF r < size THEN sequence[r] ELSE NoStamp]
        /\ dirty'[t] = {} /\ pc'[t] = "product" /\ asked'[t] = q
        /\ exclude'[t] = IF q.exclude_camera = None THEN None ELSE Lookup(q.exclude_camera)
    BY DEF Snapshot, gallery, columns, TypeOK, Threads
  <1>2. \A u \in Readers : u # t => SnapshotRows(u)' = SnapshotRows(u)
    BY <1>1 DEF SnapshotRows
  <1>3. SnapshotRows(t)' = LiveRows
    <2>1. \A r \in LiveRows : sequence[r] # NoStamp
      BY DEF NoStamp
    <2>2. QED
      BY <1>1, <2>1 DEF SnapshotRows, Rows
  <1>4. \A r \in LiveRows : stamps'[t][r] = sequence[r] /\ sequence[r] < nextSequence
    BY <1>1 DEF StoreInv, RowsAreEntries
  <1>5. StampsMoveDown'
    <2>1. \A r \in LiveRows, l \in LiveRows : sequence[l] = sequence[r] => l <= r
      BY DEF StoreInv, StampsDistinct
    <2>2. LiveRows' = LiveRows
      BY <1>1 DEF LiveRows
    <2> SUFFICES ASSUME NEW u \in Readers, NEW r \in SnapshotRows(u)'
                 PROVE  /\ stamps'[u][r] < nextSequence
                        /\ \A l \in LiveRows : sequence[l] = stamps'[u][r] => l <= r
      BY <1>1, <2>2 DEF StampsMoveDown
    <2>3. CASE u = t
      BY <1>3, <1>4, <2>1, <2>3
    <2>4. CASE u # t
      BY <1>1, <1>2, <2>4 DEF SnapshotInv, StampsMoveDown
    <2>5. QED
      BY <2>3, <2>4
  <1>6. StampVouches'
    BY <1>1, <1>2, <1>3, <1>4 DEF SnapshotInv, StampVouches, SameEntry
  <1>7. ExclusionMeaningful'
    <2>1. ASSUME NEW r \in LiveRows, q.exclude_camera # None
          PROVE  IF Lookup(q.exclude_camera) = None
                 THEN NameFor(cameraCode[r]) # q.exclude_camera
                 ELSE /\ Lookup(q.exclude_camera) < Len(names)
                      /\ names[Lookup(q.exclude_camera) + 1] = q.exclude_camera
      <3>1. CASE Interned(q.exclude_camera)
        <4>1. /\ Lookup(q.exclude_camera) \in 0 .. Len(names) - 1
              /\ names[Lookup(q.exclude_camera) + 1] = q.exclude_camera
          BY <3>1, LookupFinds
        <4>2. Lookup(q.exclude_camera) # None
          BY <4>1, NoneAssumption DEF TypeOK
        <4>3. QED
          BY <4>1, <4>2 DEF TypeOK
      <3>2. CASE ~Interned(q.exclude_camera)
        <4>1. Lookup(q.exclude_camera) = None
          BY <3>2 DEF Lookup
        <4>2. cameraCode[r] \in Codes /\ cameraCode[r] < Len(names)
          BY DEF StoreInv, RowsAreEntries
        <4>3. cameraCode[r] # NO_CAMERA => cameraCode[r] + 1 \in DOMAIN names
          BY <4>2, MaxCamerasAssumption DEF Codes, NO_CAMERA, TypeOK
        <4>4. NameFor(cameraCode[r]) # q.exclude_camera
          BY <2>1, <3>2, <4>3 DEF NameFor, Interned
        <4>5. QED
          BY <4>1, <4>4
      <3>3. QED
        BY <3>1, <3>2
    <2>2. \A u \in Readers, r \in Rows : u # t => (SameEntry(u, r)' <=> SameEntry(u, r))
      BY <1>1 DEF SameEntry
    <2>3. \A r \in Rows : NameFor(cameraCode[r])' = NameFor(cameraCode[r])
      BY <1>1 DEF NameFor
    <2>4. \A u \in Readers : SnapshotRows(u) \subseteq Rows
      BY DEF SnapshotRows
    <2> SUFFICES ASSUME NEW u \in Readers, NEW r \in SnapshotRows(u)', SameEntry(u, r)',
                        asked'[u].exclude_camera # None
                 PROVE  IF exclude'[u] = None
                        THEN NameFor(cameraCode[r])' # asked'[u].exclude_camera
                        ELSE /\ exclude'[u] < Len(names)
                             /\ names[exclude'[u] + 1] = asked'[u].exclude_camera
      BY <1>1 DEF ExclusionMeaningful
    <2>5. CASE u = t
      BY <1>1, <1>3, <2>1, <2>3, <2>5
    <2>6. CASE u # t
      BY <1>1, <1>2, <2>2, <2>3, <2>4, <2>6 DEF SnapshotInv, ExclusionMeaningful
    <2>7. QED
      BY <2>5, <2>6
  <1>8. TopFromSnapshot'
    BY <1>1, <1>2 DEF SnapshotInv, TopFromSnapshot
  <1>9. QED
    BY <1>5, <1>6, <1>7, <1>8 DEF SnapshotInv

LEMMA SnapshotStep == IInv /\ Next => SnapshotInv'
  <1> SUFFICES ASSUME IInv, Next PROVE SnapshotInv'
    OBVIOUS
  <1> USE DEF IInv, gallery, columns, writing
  <1>1. ASSUME NEW t \in Writers, NEW e \in Embedding, AddRefused(t, e)
        PROVE  SnapshotInv'
    BY <1>1, SnapshotUnchanged DEF AddRefused
  <1>2. ASSUME NEW t \in Writers, NEW e \in Embedding, Add(t, e)
        PROVE  SnapshotInv'
    BY <1>2, AddKeepsSnapshots
  <1>3. ASSUME NEW t \in Writers, NEW i \in Identities, RemoveIdentity(t, i)
        PROVE  SnapshotInv'
    BY <1>3, SnapshotUnchanged DEF RemoveIdentity, TypeOK, Threads
  <1>4. ASSUME NEW t \in Writers, Clear(t)
        PROVE  SnapshotInv'
    <2>1. /\ LiveRows' = {} /\ \A u \in Readers : \A r \in Rows : ~SameEntry(u, r)'
          /\ UNCHANGED <<nextSequence, reading, pc>>
      BY <1>4 DEF Clear, LiveRows, SameEntry, Rows
    <2>2. \A u \in Readers : SnapshotRows(u)' = SnapshotRows(u) /\ SnapshotRows(u) \subseteq Rows
      BY <2>1 DEF SnapshotRows, reading
    <2>3. QED
      BY <2>1, <2>2 DEF SnapshotInv, StampsMoveDown, StampVouches, ExclusionMeaningful,
                        TopFromSnapshot, reading
  <1>5. ASSUME NEW t \in Writers, EvictOwn(t)
        PROVE  SnapshotInv'
    <2>1. PICK r \in LiveRows : Drop(r)
      BY <1>5, EvictOwnDrops DEF StoreInv
    <2>2. QED
      BY <1>5, <2>1, DropKeepsSnapshots DEF EvictOwn
  <1>6. ASSUME NEW t \in Writers, EvictOldest(t)
        PROVE  SnapshotInv'
    <2>1. PICK r \in LiveRows : Drop(r)
      BY <1>6 DEF EvictOldest, Oldest
    <2>2. QED
      BY <1>6, <2>1, DropKeepsSnapshots DEF EvictOldest
  <1>7. ASSUME NEW t \in Writers, WriteRow(t)
        PROVE  SnapshotInv'
    BY <1>7, WriteRowKeepsSnapshots
  <1>8. ASSUME NEW t \in Writers, DropDoomed(t)
        PROVE  SnapshotInv'
    <2>1. PICK r \in LiveRows : Drop(r)
      BY <1>8 DEF DropDoomed, NextDoomed, HolderConsistent, Threads
    <2>2. \A u \in Readers : pc'[u] \in {"product", "ranking", "readback"} => pc'[u] = pc[u]
      BY <1>8 DEF DropDoomed, TypeOK, Threads
    <2>3. UNCHANGED reading
      BY <1>8 DEF DropDoomed
    <2>4. QED
      BY <2>1, <2>2, <2>3, DropKeepsSnapshots
  <1>9. ASSUME NEW t \in Readers, NEW q \in Query, QueryEmpty(t, q)
        PROVE  SnapshotInv'
    <2>1. /\ \A u \in Readers : \A r \in Rows : ~SameEntry(u, r)'
          /\ UNCHANGED <<gallery, stamps, top, pc>>
      BY <1>9, Numbers DEF QueryEmpty, SameEntry, Rows
    <2>2. \A u \in Readers : SnapshotRows(u)' = SnapshotRows(u) /\ SnapshotRows(u) \subseteq Rows
      BY <2>1 DEF SnapshotRows
    <2>3. QED
      BY <2>1, <2>2 DEF SnapshotInv, StampsMoveDown, StampVouches, ExclusionMeaningful,
                        TopFromSnapshot, LiveRows
  <1>10. ASSUME NEW t \in Readers, NEW q \in Query, Snapshot(t, q)
         PROVE  SnapshotInv'
    BY <1>10, SnapshotIsTrue
  <1>11. ASSUME NEW t \in Readers, Product(t)
         PROVE  SnapshotInv'
    <2>1. /\ UNCHANGED <<gallery, asked, stamps, exclude, top>>
          /\ \A u \in Readers : u # t =>
                pc'[u] = pc[u] /\ dirty'[u] = dirty[u] /\ scores'[u] = scores[u]
          /\ pc[t] = "product" /\ pc'[t] = "ranking" /\ dirty'[t] = {}
          /\ scores'[t] = [r \in Rows |-> IF r \notin SnapshotRows(t) THEN NoStamp
                                          ELSE IF r \in dirty[t] THEN Torn ELSE vectors[r]]
      BY <1>11 DEF Product, TypeOK, Threads
    <2>2. \A u \in Readers : /\ SnapshotRows(u)' = SnapshotRows(u)
                             /\ \A r \in Rows : SameEntry(u, r)' <=> SameEntry(u, r)
      BY <2>1 DEF SnapshotRows, SameEntry
    <2>3. \A u \in Readers : SnapshotRows(u) \subseteq Rows
      BY DEF SnapshotRows
    <2>4. StampVouches'
      <3> SUFFICES ASSUME NEW u \in Readers, NEW r \in SnapshotRows(u), SameEntry(u, r)
                   PROVE  /\ pc'[u] = "product" => r \notin dirty'[u]
                          /\ pc'[u] \in {"ranking", "readback"} =>
                                 scores'[u][r] = sequence[r]
        BY <2>1, <2>2, <2>3 DEF StampVouches
      <3>1. CASE u # t
        BY <2>1, <3>1 DEF SnapshotInv, StampVouches
      <3>2. CASE u = t
        <4>1. r \notin dirty[t]
          BY <2>1, <3>2 DEF SnapshotInv, StampVouches
        <4>2. vectors[r] = sequence[r]
          BY <2>3, Numbers DEF StoreInv, RowsAreEntries, SameEntry, Rows
        <4>3. QED
          BY <2>1, <2>3, <3>2, <4>1, <4>2
      <3>3. QED
        BY <3>1, <3>2
    <2>5. StampsMoveDown' /\ TopFromSnapshot'
      BY <2>1, <2>2 DEF SnapshotInv, StampsMoveDown, TopFromSnapshot, LiveRows
    <2>6. ExclusionMeaningful'
      BY <2>1, <2>2, <2>3 DEF SnapshotInv, ExclusionMeaningful, NameFor
    <2>7. QED
      BY <2>4, <2>5, <2>6 DEF SnapshotInv
  <1>12. ASSUME NEW t \in Readers, Rank(t)
         PROVE  SnapshotInv'
    <2>1. /\ UNCHANGED <<gallery, asked, stamps, exclude, dirty, scores>>
          /\ \A u \in Readers : u # t => pc'[u] = pc[u] /\ top'[u] = top[u]
          /\ pc[t] = "ranking" /\ pc'[t] = "readback"
          /\ top'[t] \subseteq SnapshotRows(t)
      BY <1>12 DEF Rank, TypeOK, Threads
    <2>2. \A u \in Readers : /\ SnapshotRows(u)' = SnapshotRows(u)
                             /\ \A r \in Rows : SameEntry(u, r)' <=> SameEntry(u, r)
      BY <2>1 DEF SnapshotRows, SameEntry
    <2>3. \A u \in Readers : SnapshotRows(u) \subseteq Rows
      BY DEF SnapshotRows
    <2>4. StampsMoveDown' /\ TopFromSnapshot'
      BY <2>1, <2>2 DEF SnapshotInv, StampsMoveDown, TopFromSnapshot, LiveRows
    <2>5. StampVouches'
      BY <2>1, <2>2, <2>3 DEF SnapshotInv, StampVouches
    <2>6. ExclusionMeaningful'
      BY <2>1, <2>2, <2>3 DEF SnapshotInv, ExclusionMeaningful, NameFor
    <2>7. QED
      BY <2>4, <2>5, <2>6 DEF SnapshotInv
  <1>13. ASSUME NEW t \in Readers, AllMasked(t) \/ ReadBack(t)
         PROVE  SnapshotInv'
    <2>1. /\ UNCHANGED <<gallery, asked, dirty>>
          /\ \A u \in Readers : u # t =>
                /\ pc'[u] = pc[u] /\ stamps'[u] = stamps[u] /\ exclude'[u] = exclude[u]
                /\ scores'[u] = scores[u] /\ top'[u] = top[u]
          /\ stamps'[t] = [r \in Rows |-> NoStamp] /\ pc'[t] = "idle"
      BY <1>13 DEF AllMasked, ReadBack, EndQuery, TypeOK, Threads
    <2>2. /\ SnapshotRows(t)' = {}
          /\ \A u \in Readers : u # t =>
                /\ SnapshotRows(u)' = SnapshotRows(u) /\ SnapshotRows(u) \subseteq Rows
                /\ \A r \in Rows : SameEntry(u, r)' <=> SameEntry(u, r)
      BY <2>1 DEF SnapshotRows, SameEntry
    <2>3. StampsMoveDown' /\ TopFromSnapshot'
      BY <2>1, <2>2 DEF SnapshotInv, StampsMoveDown, TopFromSnapshot, LiveRows
    <2>4. StampVouches'
      BY <2>1, <2>2 DEF SnapshotInv, StampVouches
    <2>5. ExclusionMeaningful'
      BY <2>1, <2>2 DEF SnapshotInv, ExclusionMeaningful, NameFor
    <2>6. QED
      BY <2>3, <2>4, <2>5 DEF SnapshotInv
  <1>14. QED
    BY <1>1, <1>2, <1>3, <1>4, <1>5, <1>6, <1>7, <1>8, <1>9, <1>10, <1>11, <1>12, <1>13 DEF Next

--------------------------------------------------------------------------------
(* The results.                                                              *)

(* What is true of one match, as reported for the query q.                   *)
MatchTrue(m, q) ==
    /\ m.score \in 0 .. nextSequence - 1
    /\ m.identity = inserted[m.score + 1].identity
    /\ m.camera = inserted[m.score + 1].camera
    /\ q.exclude_camera # None => m.camera # q.exclude_camera

ResultsTrue == \A t \in Readers : \A m \in result[t] : MatchTrue(m, asked[t])

LEMMA ResultsTrueIff == ResultsTrue <=> NoMisattribution /\ NeverOwnCamera
  BY DEF ResultsTrue, MatchTrue, NoMisattribution, NeverOwnCamera

(* Nothing that happens to the store afterwards makes a match untrue.        *)
LEMMA MatchesStayTrue ==
    ASSUME IInv, Next, NEW m, NEW q, MatchTrue(m, q)
    PROVE  MatchTrue(m, q)'
  <1>1. \/ UNCHANGED <<nextSequence, inserted>>
        \/ /\ nextSequence' = nextSequence + 1
           /\ \E e : inserted' = Append(inserted, e)
    BY ZenonT(60) DEF Next, AddRefused, Add, RemoveIdentity, Clear, EvictOwn, EvictOldest, WriteRow,
           DropDoomed, Drop, QueryEmpty, Snapshot, Product, Rank, AllMasked, ReadBack,
           EndQuery, gallery
  <1>2. nextSequence \in Nat /\ Len(inserted) = nextSequence
    BY Numbers DEF IInv, StoreInv, HistoryComplete
  <1>3. CASE UNCHANGED <<nextSequence, inserted>>
    BY <1>3 DEF MatchTrue
  <1>4. CASE nextSequence' = nextSequence + 1 /\ \E e : inserted' = Append(inserted, e)
    <2>1. inserted'[m.score + 1] = inserted[m.score + 1]
      BY <1>2, <1>4 DEF MatchTrue, IInv, TypeOK
    <2>2. QED
      BY <1>2, <1>4, <2>1 DEF MatchTrue
  <1>5. QED
    BY <1>1, <1>3, <1>4

LEMMA ResultStep == IInv /\ Next => ResultsTrue'
  <1> SUFFICES ASSUME IInv, Next PROVE ResultsTrue'
    OBVIOUS
  <1> USE DEF gallery, columns, writing, reading
  <1>1. ResultsTrue
    BY ResultsTrueIff DEF IInv
  <1>2. ASSUME UNCHANGED <<asked, result>>
        PROVE  ResultsTrue'
    BY <1>1, <1>2, MatchesStayTrue DEF ResultsTrue
  <1>3. ASSUME NEW t \in Readers, result'[t] = {},
               \A u \in Readers : u # t => result'[u] = result[u] /\ asked'[u] = asked[u]
        PROVE  ResultsTrue'
    <2> SUFFICES ASSUME NEW u \in Readers, NEW m \in result'[u]
                 PROVE  MatchTrue(m, asked[u])'
      BY DEF ResultsTrue
    <2>1. u # t /\ m \in result[u] /\ asked'[u] = asked[u]
      BY <1>3
    <2>2. MatchTrue(m, asked[u])
      BY <1>1, <2>1 DEF ResultsTrue
    <2>3. QED
      BY <2>1, <2>2, MatchesStayTrue DEF MatchTrue
  <1>4. ASSUME NEW t \in Writers,
               \/ \E e \in Embedding : AddRefused(t, e) \/ Add(t, e)
               \/ \E i \in Identities : RemoveIdentity(t, i)
               \/ Clear(t)
               \/ EvictOwn(t) \/ EvictOldest(t) \/ WriteRow(t) \/ DropDoomed(t)
        PROVE  ResultsTrue'
    BY <1>2, <1>4 DEF AddRefused, Add, RemoveIdentity, Clear, EvictOwn, EvictOldest,
                      WriteRow, DropDoomed
  <1>5. ASSUME NEW t \in Readers, \E q \in Query : QueryEmpty(t, q) \/ Snapshot(t, q)
        PROVE  ResultsTrue'
    BY <1>3, <1>5 DEF QueryEmpty, Snapshot, IInv, TypeOK
  <1>6. ASSUME NEW t \in Readers, Product(t) \/ Rank(t)
        PROVE  ResultsTrue'
    BY <1>2, <1>6 DEF Product, Rank
  <1>7. ASSUME NEW t \in Readers, AllMasked(t)
        PROVE  ResultsTrue'
    BY <1>3, <1>7 DEF AllMasked, EndQuery, IInv, TypeOK
  <1>8. ASSUME NEW t \in Readers, ReadBack(t)
        PROVE  ResultsTrue'
    <2> SUFFICES ASSUME NEW u \in Readers, NEW m \in result'[u]
                 PROVE  MatchTrue(m, asked[u])'
      BY DEF ResultsTrue
    <2>1. asked' = asked
      BY <1>8 DEF ReadBack, EndQuery
    <2>2. MatchTrue(m, asked[u])
      <3>1. CASE u # t
        <4>1. m \in result[u]
          BY <1>8, <3>1 DEF ReadBack, EndQuery, IInv, TypeOK
        <4>2. QED
          BY <1>1, <4>1 DEF ResultsTrue
      <3>2. CASE u = t
        <4>1. PICK r \in top[t] :
                  /\ Reportable(t, r)
                  /\ m = [identity |-> identity[r], camera |-> NameFor(cameraCode[r]),
                          score |-> scores[t][r], entry_index |-> r]
          BY <1>8, <3>2 DEF ReadBack, EndQuery, IInv, TypeOK
        <4>2. QED
          BY <1>8, <3>2, <4>1, ReadBackReports DEF ReadBack, MatchTrue
      <3>3. QED
        BY <3>1, <3>2
    <2>3. QED
      BY <2>1, <2>2, MatchesStayTrue DEF MatchTrue
  <1>9. QED
    BY <1>4, <1>5, <1>6, <1>7, <1>8 DEF Next

--------------------------------------------------------------------------------
(* The theorems.                                                             *)

LEMMA IInvStep == IInv /\ [Next]_vars => IInv'
  <1> SUFFICES ASSUME IInv, [Next]_vars PROVE IInv'
    OBVIOUS
  <1>1. CASE Next
    <2>1. TypeOK' /\ StoreInv' /\ HolderConsistent' /\ SnapshotInv' /\ ResultsTrue'
      BY <1>1, TypeStep, StoreStep, HolderStep, SnapshotStep, ResultStep
    <2>2. NoMisattribution' /\ NeverOwnCamera'
      BY <2>1 DEF ResultsTrue, MatchTrue, NoMisattribution, NeverOwnCamera
    <2>3. QED
      BY <2>1, <2>2 DEF IInv
  <1>2. CASE UNCHANGED vars
    <2> USE <1>2 DEF vars, gallery, columns, writing, reading, IInv
    <2>1. TypeOK'
      BY DEF TypeOK
    <2>2. StoreInv'
      BY StoreUnchanged
    <2>3. HolderConsistent'
      BY DEF HolderConsistent, LiveRows, NameFor
    <2>4. SnapshotInv'
      BY SnapshotUnchanged
    <2>5. NoMisattribution' /\ NeverOwnCamera'
      BY DEF NoMisattribution, NeverOwnCamera
    <2>6. QED
      BY <2>1, <2>2, <2>3, <2>4, <2>5
  <1>3. QED
    BY <1>1, <1>2

LEMMA Invariance == Spec => []IInv
  <1>1. QED
    BY InitIInv, IInvStep, PTL DEF Spec

(* The variables of FlatGallery keep their types.                            *)
THEOREM TypeCorrect == Spec => []TypeOK
  <1>1. IInv => TypeOK
    BY DEF IInv
  <1>2. QED
    BY Invariance, <1>1, PTL

(* flat.py, query: "Mis-attribution is not [allowed]" - whatever the writers *)
(* do during the matrix product, a score is only ever reported under the     *)
(* identity and the camera it was stored with.                               *)
THEOREM NeverMisattributes == Spec => []NoMisattribution
  <1>1. IInv => NoMisattribution
    BY DEF IInv
  <1>2. QED
    BY Invariance, <1>1, PTL

(* base.py: "A query never matches itself" - no match is from the camera the *)
(* query excludes, whatever happens to the camera table meanwhile.           *)
THEOREM NeverReportsOwnCamera == Spec => []NeverOwnCamera
  <1>1. IInv => NeverOwnCamera
    BY DEF IInv
  <1>2. QED
    BY Invariance, <1>1, PTL

(* The stamp column does its job: equal stamps at both ends of a product     *)
(* mean an untouched row.                                                    *)
THEOREM StampsVouch == Spec => []StampVouches
  <1>1. IInv => StampVouches
    BY DEF IInv, SnapshotInv
  <1>2. QED
    BY Invariance, <1>1, PTL

(* The index map and the columns agree, and every live row is one entry,     *)
(* at every step of every writer.                                            *)
THEOREM BookkeepingCorrect == Spec => [](IndexAligned /\ RowsAreEntries)
  <1>1. IInv => IndexAligned /\ RowsAreEntries
    BY DEF IInv, StoreInv
  <1>2. QED
    BY Invariance, <1>1, PTL

--------------------------------------------------------------------------------
(* The two limits.                                                           *)

LEMMA RowsFinite ==
    ASSUME TypeOK, NEW i \in Identities
    PROVE  IsFiniteSet(byIdentity[i]) /\ Cardinality(byIdentity[i]) \in Nat
  <1>1. IsFiniteSet(Rows)
    BY FS_Interval, CapacityAssumption DEF Rows
  <1>2. byIdentity[i] \in SUBSET Rows
    BY DEF TypeOK
  <1>3. QED
    BY <1>1, <1>2, FS_Subset, FS_CardinalityType

(* _drop gives nobody a row: every row that is left came from another one.   *)
LEMMA DropKeepsBounded ==
    ASSUME IInv, Bounded, NEW index \in LiveRows, Drop(index)
    PROVE  Bounded'
  <1> USE DEF IInv, StoreInv
  <1>1. size' <= Capacity
    BY DropShape, CapacityAssumption
  <1>2. ASSUME NEW i \in Identities
        PROVE  Cardinality(byIdentity'[i]) <= PerIdentity
    <2> DEFINE source == [r \in byIdentity'[i] |-> Source(index, r)]
    <2>1. byIdentity'[i] = {r \in LiveRows' : identity'[r] = i}
      BY DropKeepsIndex DEF IndexAligned
    <2>2. byIdentity[i] = {r \in LiveRows : identity[r] = i}
      BY DEF IndexAligned
    <2>3. \A r \in byIdentity'[i] : Source(index, r) \in byIdentity[i]
      BY DropShape, <2>1, <2>2
    <2>4. \A q, r \in byIdentity'[i] : Source(index, q) = Source(index, r) => q = r
      BY DropShape, <2>1 DEF Source, TypeOK
    <2>5. source \in Injection(byIdentity'[i], byIdentity[i])
      BY <2>3, <2>4 DEF Injection, IsInjective
    <2>6. /\ IsFiniteSet(byIdentity'[i])
          /\ Cardinality(byIdentity'[i]) <= Cardinality(byIdentity[i])
      <3> HIDE DEF source
      <3>1. QED
        BY <2>5, RowsFinite, FS_Injection
    <2>7. Cardinality(byIdentity'[i]) \in Nat
      BY <2>6, FS_CardinalityType
    <2>8. QED
      BY <2>6, <2>7, RowsFinite, PerIdentityAssumption DEF Bounded
  <1>3. QED
    BY <1>1, <1>2 DEF Bounded

LEMMA WriteRowKeepsBounded ==
    ASSUME IInv, Bounded, NEW t \in Writers, WriteRow(t)
    PROVE  Bounded'
  <1> USE DEF IInv, StoreInv
  <1>1. adding.identity \in Identities
    BY DEF WriteRow, HolderConsistent, Threads, Added
  <1>2. size' <= Capacity
    BY Numbers DEF WriteRow, GalleryFull
  <1>3. ASSUME NEW i \in Identities
        PROVE  Cardinality(byIdentity'[i]) <= PerIdentity
    <2>1. byIdentity'[i] = IF i = adding.identity THEN byIdentity[i] \cup {size}
                           ELSE byIdentity[i]
      BY <1>1 DEF WriteRow, TypeOK
    <2>2. CASE i # adding.identity
      BY <2>1, <2>2 DEF Bounded
    <2>3. CASE i = adding.identity
      <3>1. Cardinality(byIdentity[i]) < PerIdentity
        BY <2>3, RowsFinite, PerIdentityAssumption DEF WriteRow, IdentityFull
      <3>2. \/ Cardinality(byIdentity[i] \cup {size}) = Cardinality(byIdentity[i])
            \/ Cardinality(byIdentity[i] \cup {size}) = Cardinality(byIdentity[i]) + 1
        BY RowsFinite, FS_AddElement
      <3>3. QED
        BY <2>1, <2>3, <3>1, <3>2, RowsFinite, PerIdentityAssumption
    <2>4. QED
      BY <2>2, <2>3
  <1>4. QED
    BY <1>2, <1>3 DEF Bounded

LEMMA BoundedStep == IInv /\ Bounded /\ [Next]_vars => Bounded'
  <1> SUFFICES ASSUME IInv, Bounded, [Next]_vars PROVE Bounded'
    OBVIOUS
  <1>1. ASSUME UNCHANGED <<size, byIdentity>>
        PROVE  Bounded'
    BY <1>1 DEF Bounded
  <1>2. ASSUME NEW t \in Writers, EvictOwn(t)
        PROVE  Bounded'
    BY <1>2, EvictOwnDrops, DropKeepsBounded DEF IInv, StoreInv
  <1>3. ASSUME NEW t \in Writers, EvictOldest(t)
        PROVE  Bounded'
    BY <1>3, DropKeepsBounded DEF EvictOldest, Oldest
  <1>4. ASSUME NEW t \in Writers, WriteRow(t)
        PROVE  Bounded'
    BY <1>4, WriteRowKeepsBounded
  <1>5. ASSUME NEW t \in Writers, DropDoomed(t)
        PROVE  Bounded'
    <2>1. \E r \in LiveRows : Drop(r)
      BY <1>5 DEF DropDoomed, NextDoomed, IInv, HolderConsistent, Threads
    <2>2. QED
      BY <2>1, DropKeepsBounded
  <1>6. ASSUME NEW t \in Writers, Clear(t)
        PROVE  Bounded'
    <2>1. size' = 0 /\ \A i \in Identities : byIdentity'[i] = {}
      BY <1>6 DEF Clear
    <2>2. QED
      BY <2>1, FS_EmptySet, CapacityAssumption, PerIdentityAssumption DEF Bounded
  <1>7. ASSUME NEW t \in Writers,
               \/ \E e \in Embedding : AddRefused(t, e) \/ Add(t, e)
               \/ \E i \in Identities : RemoveIdentity(t, i)
        PROVE  Bounded'
    BY <1>1, <1>7 DEF AddRefused, Add, RemoveIdentity, gallery, columns
  <1>8. ASSUME NEW t \in Readers,
               \/ \E q \in Query : QueryEmpty(t, q) \/ Snapshot(t, q)
               \/ Product(t) \/ Rank(t) \/ AllMasked(t) \/ ReadBack(t)
        PROVE  Bounded'
    BY <1>1, <1>8 DEF QueryEmpty, Snapshot, Product, Rank, AllMasked, ReadBack, EndQuery,
                      gallery, columns
  <1>9. CASE UNCHANGED vars
    BY <1>1, <1>9 DEF vars, gallery, columns
  <1>10. QED
    BY <1>2, <1>3, <1>4, <1>5, <1>6, <1>7, <1>8, <1>9 DEF Next

(* "Bounded two ways": neither limit is exceeded, in any step of any call of *)
(* add, for every capacity and every share of an identity.                   *)
THEOREM NeverOverflows == Spec => []Bounded
  <1>1. Init => Bounded
    <2> SUFFICES ASSUME Init PROVE Bounded
      OBVIOUS
    <2>1. size = 0 /\ \A i \in Identities : byIdentity[i] = {}
      BY DEF Init
    <2>2. QED
      BY <2>1, FS_EmptySet, CapacityAssumption, PerIdentityAssumption DEF Bounded
  <1>2. QED
    BY <1>1, Invariance, BoundedStep, PTL DEF Spec

(* Every live row is wholly one entry that was stored: its vector, its stamp,*)
(* its identity and its camera, however often _drop moved it and clear       *)
(* restarted the camera table.                                               *)
THEOREM RowsAlwaysEntries == Spec => []RowsAreEntries
  <1>1. IInv => RowsAreEntries
    BY DEF IInv, StoreInv
  <1>2. QED
    BY Invariance, <1>1, PTL

--------------------------------------------------------------------------------
(* The latest views.                                                         *)

(* Identity i holds a run of its views that nothing is missing from.         *)
HasLatest(i) ==
    \A r \in LiveRows : identity[r] = i =>
        \A s \in sequence[r] + 1 .. nextSequence - 1 :
            inserted[s + 1].identity = i => \E q \in LiveRows : sequence[q] = s

(* remove_identity is half-way through the rows of i.                        *)
BeingRemoved(i) == \E t \in Writers : pc[t] = "removing" /\ doomed = byIdentity[i]

LatestInv ==
    /\ \A i \in Identities : HasLatest(i) \/ BeingRemoved(i)
    /\ \A t \in Writers : pc[t] = "removing" => \E i \in Identities : doomed = byIdentity[i]

(* Every row but the dropped one is still somewhere after _drop.             *)
LEMMA DropLosesOneRow ==
    ASSUME TypeOK, NEW index \in LiveRows, Drop(index), NEW q \in LiveRows, q # index
    PROVE  \E p \in LiveRows' : Source(index, p) = q
  <1> USE DropShape, Numbers
  <1>1. CASE q = size - 1
    <2>1. index \in LiveRows'
      BY <1>1
    <2>2. QED
      BY <1>1, <2>1 DEF Source
  <1>2. CASE q # size - 1
    <2>1. q \in LiveRows'
      BY <1>2
    <2>2. QED
      BY <2>1 DEF Source
  <1>3. QED
    BY <1>1, <1>2

LEMMA LiveIdentities ==
    ASSUME TypeOK, StoreInv, NEW r \in LiveRows
    PROVE  /\ identity[r] \in Identities
           /\ r \in byIdentity[identity[r]]
           /\ \A i \in Identities : r \in byIdentity[i] => i = identity[r]
  <1>1. sequence[r] + 1 \in 1 .. Len(inserted)
    BY Numbers DEF StoreInv, HistoryComplete, RowsAreEntries
  <1>2. inserted[sequence[r] + 1] \in [identity : Identities, camera : Cameras \cup {None}]
    BY <1>1, ElementOfSeq DEF TypeOK
  <1>3. identity[r] \in Identities
    BY <1>2 DEF StoreInv, RowsAreEntries
  <1>4. QED
    BY <1>3 DEF StoreInv, IndexAligned

(* A drop that takes nothing of an identity, or the oldest of its rows,      *)
(* leaves the identity its latest views.                                     *)
LEMMA DropKeepsLatest ==
    ASSUME TypeOK, StoreInv, NEW index \in LiveRows, Drop(index),
           NEW i \in Identities, HasLatest(i),
           identity[index] = i =>
               \A r \in LiveRows : identity[r] = i => sequence[index] <= sequence[r]
    PROVE  HasLatest(i)'
  <1> USE DropShape
  <1>1. nextSequence' = nextSequence /\ inserted' = inserted
    BY DEF Drop
  <1>2. SUFFICES ASSUME NEW r \in LiveRows', identity'[r] = i,
                        NEW s \in sequence'[r] + 1 .. nextSequence - 1,
                        inserted[s + 1].identity = i
                 PROVE  \E q \in LiveRows' : sequence'[q] = s
    BY <1>1 DEF HasLatest
  <1> DEFINE from == Source(index, r)
  <1>3. from \in LiveRows /\ identity[from] = i /\ sequence'[r] = sequence[from]
    BY <1>2
  <1> HIDE DEF from
  <1>4. PICK q \in LiveRows : sequence[q] = s
    BY <1>2, <1>3 DEF HasLatest
  <1>5. identity[q] = i
    BY <1>2, <1>4 DEF StoreInv, RowsAreEntries
  <1>6. sequence[q] \in Nat /\ sequence[from] \in Nat
    BY <1>3, Numbers
  <1>7. q # index
    <2>1. q = index => sequence[q] <= sequence[from]
      BY <1>3, <1>5
    <2>2. s \in sequence[from] + 1 .. nextSequence - 1 /\ nextSequence \in Nat
      BY <1>2, <1>3, Numbers
    <2>3. sequence[from] < sequence[q]
      BY <1>4, <1>6, <2>2
    <2>4. QED
      BY <1>6, <2>1, <2>3
  <1>8. PICK p \in LiveRows' : Source(index, p) = q
    BY <1>7, DropLosesOneRow
  <1>9. QED
    BY <1>4, <1>8

(* A new row is the latest view of its identity, and nobody else's business. *)
LEMMA WriteRowKeepsLatest ==
    ASSUME IInv, NEW t \in Writers, WriteRow(t), NEW i \in Identities, HasLatest(i)
    PROVE  HasLatest(i)'
  <1> USE DEF IInv, StoreInv
  <1>1. /\ LiveRows' = LiveRows \cup {size} /\ size \in Rows /\ size \notin LiveRows
        /\ nextSequence' = nextSequence + 1 /\ sequence'[size] = nextSequence
        /\ Len(inserted) = nextSequence /\ nextSequence \in Nat
        /\ \E e : inserted' = Append(inserted, e)
    BY CapacityAssumption DEF WriteRow, GalleryFull, TypeOK, Rows, LiveRows, HistoryComplete
  <1>2. \A r \in LiveRows : /\ sequence'[r] = sequence[r] /\ identity'[r] = identity[r]
                            /\ sequence[r] \in Nat
    <2>1. /\ sequence' = [sequence EXCEPT ![size] = nextSequence]
          /\ identity' = [identity EXCEPT ![size] = adding.identity]
      BY DEF WriteRow
    <2>2. sequence \in [Rows -> Nat] /\ identity \in [Rows -> Identities \cup {None}]
      BY DEF TypeOK
    <2>3. LiveRows \subseteq Rows
      BY Numbers
    <2>4. QED
      BY <1>1, <2>1, <2>2, <2>3
  <1>3. \A s \in 0 .. nextSequence - 1 : inserted'[s + 1] = inserted[s + 1]
    BY <1>1 DEF TypeOK
  <1>4. SUFFICES ASSUME NEW r \in LiveRows', identity'[r] = i,
                        NEW s \in sequence'[r] + 1 .. nextSequence' - 1,
                        inserted'[s + 1].identity = i
                 PROVE  \E q \in LiveRows' : sequence'[q] = s
    BY DEF HasLatest
  <1>5. CASE s = nextSequence
    BY <1>1, <1>5
  <1>6. CASE s # nextSequence
    <2>1. r \in LiveRows /\ s \in sequence[r] + 1 .. nextSequence - 1 /\ s \in 0 .. nextSequence - 1
      BY <1>1, <1>2, <1>4, <1>6
    <2>2. \E q \in LiveRows : sequence[q] = s
      BY <1>2, <1>3, <1>4, <2>1 DEF HasLatest
    <2>3. QED
      BY <1>1, <1>2, <2>2
  <1>7. QED
    BY <1>5, <1>6

(* remove_identity takes the rows of one identity, from the highest down.    *)
LEMMA DropDoomedKeepsLatest ==
    ASSUME IInv, LatestInv, NEW t \in Writers, DropDoomed(t)
    PROVE  LatestInv'
  <1> USE DEF IInv, StoreInv
  <1>1. PICK r \in NextDoomed :
            /\ Drop(r) /\ doomed' = doomed \ {r}
            /\ IF doomed = {r} THEN lock' = None /\ pc' = [pc EXCEPT ![t] = "idle"]
               ELSE UNCHANGED <<lock, pc>>
    BY DEF DropDoomed
  <1>2. /\ pc[t] = "removing" /\ lock = t /\ r \in doomed /\ doomed \subseteq LiveRows
        /\ r \in LiveRows /\ \A o \in doomed : o <= r
        /\ \A u \in Writers : pc[u] = "removing" => u = t
    BY <1>1 DEF DropDoomed, HolderConsistent, Threads, NextDoomed
  <1>3. PICK i \in Identities : doomed = byIdentity[i]
    BY <1>2 DEF LatestInv
  <1>4. identity[r] = i /\ \A o \in LiveRows : identity[o] = i <=> o \in doomed
    BY <1>2, <1>3 DEF IndexAligned
  <1>5. \A j \in Identities : j # i => HasLatest(j)
    BY <1>2, <1>3, <1>4, LiveIdentities DEF LatestInv, BeingRemoved
  <1>6. \A j \in Identities : j # i => HasLatest(j)'
    BY <1>1, <1>2, <1>4, <1>5, DropKeepsLatest
  <1>7. byIdentity'[i] = doomed'
    <2>1. byIdentity'[i] = {o \in LiveRows' : identity'[o] = i}
      BY <1>1, <1>2, DropKeepsIndex DEF IndexAligned
    <2>2. \A o \in LiveRows' : o # r => o \in LiveRows /\ identity'[o] = identity[o]
      BY <1>1, <1>2, DropShape DEF Source
    <2>3. r \in LiveRows' => identity'[r] # i
      <3>1. ASSUME r \in LiveRows'
            PROVE  size - 1 \in LiveRows /\ size - 1 > r /\ identity'[r] = identity[size - 1]
        BY <1>1, <1>2, <3>1, DropShape, Numbers DEF Source
      <3>2. QED
        BY <1>2, <1>4, <3>1, Numbers
    <2>4. \A o \in doomed : o # r => o \in LiveRows'
      BY <1>1, <1>2, DropShape, Numbers
    <2>5. QED
      BY <1>1, <1>4, <2>1, <2>2, <2>3, <2>4
  <1>8. CASE doomed = {r}
    <2>1. HasLatest(i)'
      <3>1. {o \in LiveRows' : identity'[o] = i} = {}
        BY <1>1, <1>2, <1>7, <1>8, DropKeepsIndex DEF IndexAligned
      <3>2. QED
        BY <3>1 DEF HasLatest
    <2>2. \A u \in Writers : pc'[u] # "removing"
      BY <1>1, <1>2, <1>8 DEF TypeOK, Threads
    <2>3. QED
      BY <1>6, <2>1, <2>2 DEF LatestInv
  <1>9. CASE doomed # {r}
    <2>1. BeingRemoved(i)'
      BY <1>1, <1>2, <1>7, <1>9 DEF BeingRemoved
    <2>2. \A u \in Writers : pc'[u] = "removing" => \E j \in Identities : doomed' = byIdentity'[j]
      BY <1>7
    <2>3. QED
      BY <1>6, <2>1, <2>2 DEF LatestInv
  <1>10. QED
    BY <1>8, <1>9

LEMMA LatestStep == IInv /\ LatestInv /\ [Next]_vars => LatestInv'
  <1> SUFFICES ASSUME IInv, LatestInv, [Next]_vars PROVE LatestInv'
    OBVIOUS
  <1> USE DEF IInv, StoreInv
  <1>1. ASSUME UNCHANGED <<size, columns, nextSequence, inserted, doomed>>,
               \A u \in Writers : pc'[u] = "removing" <=> pc[u] = "removing"
        PROVE  LatestInv'
    BY <1>1 DEF LatestInv, HasLatest, BeingRemoved, columns, LiveRows
  <1>2. ASSUME \A u \in Writers : pc[u] # "removing"
        PROVE  \A i \in Identities : HasLatest(i)
    BY <1>2 DEF LatestInv, BeingRemoved
  <1>3. ASSUME NEW t \in Writers, EvictOwn(t) \/ EvictOldest(t)
        PROVE  LatestInv'
    <2>1. /\ \A u \in Writers : pc[u] # "removing"
          /\ pc' = pc /\ adding \in Added /\ adding.identity \in Identities
      BY <1>3 DEF EvictOwn, EvictOldest, HolderConsistent, Threads, Added
    <2>2. PICK r \in LiveRows :
              /\ Drop(r)
              /\ \A o \in LiveRows : identity[o] = identity[r] => sequence[r] <= sequence[o]
      <3>1. CASE EvictOldest(t)
        BY <3>1 DEF EvictOldest, Oldest
      <3>2. CASE EvictOwn(t)
        <4>1. byIdentity[adding.identity] = {o \in LiveRows : identity[o] = adding.identity}
          BY <2>1 DEF IndexAligned
        <4>2. QED
          BY <3>2, <4>1 DEF EvictOwn, Oldest
      <3>3. QED
        BY <1>3, <3>1, <3>2
    <2>3. \A i \in Identities : HasLatest(i)'
      BY <1>2, <2>1, <2>2, DropKeepsLatest
    <2>4. QED
      BY <2>1, <2>3 DEF LatestInv
  <1>4. ASSUME NEW t \in Writers, WriteRow(t)
        PROVE  LatestInv'
    <2>1. \A u \in Writers : pc[u] # "removing" /\ pc'[u] # "removing"
      BY <1>4 DEF WriteRow, HolderConsistent, Threads, TypeOK
    <2>2. \A i \in Identities : HasLatest(i)'
      BY <1>2, <1>4, <2>1, WriteRowKeepsLatest
    <2>3. QED
      BY <2>1, <2>2 DEF LatestInv
  <1>5. ASSUME NEW t \in Writers, DropDoomed(t)
        PROVE  LatestInv'
    BY <1>5, DropDoomedKeepsLatest
  <1>6. ASSUME NEW t \in Writers, Clear(t)
        PROVE  LatestInv'
    <2>1. LiveRows' = {} /\ pc' = pc /\ lock = None
      BY <1>6 DEF Clear, LiveRows
    <2>2. \A u \in Writers : pc'[u] # "removing"
      BY <2>1, NoneAssumption DEF HolderConsistent, Threads
    <2>3. QED
      BY <2>1, <2>2 DEF LatestInv, HasLatest
  <1>7. ASSUME NEW t \in Writers, NEW i \in Identities, RemoveIdentity(t, i)
        PROVE  LatestInv'
    <2>1. /\ \A u \in Writers : pc[u] # "removing"
          /\ doomed' = byIdentity[i]
          /\ UNCHANGED <<size, identity, sequence, byIdentity, nextSequence, inserted>>
      BY <1>7, NoneAssumption DEF RemoveIdentity, HolderConsistent, Threads, gallery, columns
    <2>2. \A j \in Identities : HasLatest(j)'
      BY <1>2, <2>1 DEF HasLatest, LiveRows
    <2>3. QED
      BY <2>1, <2>2 DEF LatestInv
  <1>8. ASSUME NEW t \in Writers, \E e \in Embedding : AddRefused(t, e) \/ Add(t, e)
        PROVE  LatestInv'
    BY <1>1, <1>8 DEF AddRefused, Add, writing, TypeOK, Threads
  <1>9. ASSUME NEW t \in Readers,
               \/ \E q \in Query : QueryEmpty(t, q) \/ Snapshot(t, q)
               \/ Product(t) \/ Rank(t) \/ AllMasked(t) \/ ReadBack(t)
        PROVE  LatestInv'
    <2>1. /\ UNCHANGED <<size, columns, nextSequence, inserted, doomed>>
          /\ pc[t] # "removing"
          /\ \/ pc' = pc
             \/ \E p \in {"idle", "product", "ranking", "readback"} : pc' = [pc EXCEPT ![t] = p]
      BY <1>9 DEF QueryEmpty, Snapshot, Product, Rank, AllMasked, ReadBack, EndQuery,
                  gallery, writing
    <2>2. \A u \in Writers : pc'[u] = "removing" <=> pc[u] = "removing"
      <3>1. DOMAIN pc = Threads /\ Writers \subseteq Threads
        BY DEF TypeOK, Threads
      <3>2. QED
        BY <2>1, <3>1
    <2>3. QED
      BY <1>1, <2>1, <2>2
  <1>10. CASE UNCHANGED vars
    BY <1>1, <1>10 DEF vars, gallery, writing
  <1>11. QED
    BY <1>3, <1>4, <1>5, <1>6, <1>7, <1>8, <1>9, <1>10 DEF Next

(* What is evicted is always the oldest, an identity's own or everybody's:   *)
(* between two calls no identity holds a view without every later one of its *)
(* own, whatever the capacity and however the calls of _make_room, add,      *)
(* remove_identity and clear alternate.                                      *)
THEOREM LatestViewsKept == Spec => []KeepsLatestViews
  <1>1. Init => LatestInv
    BY DEF Init, LatestInv, HasLatest, LiveRows, Threads
  <1>2. IInv /\ LatestInv => KeepsLatestViews
    <2> SUFFICES ASSUME IInv, LatestInv, lock = None
                 PROVE  \A r \in LiveRows : \A s \in sequence[r] + 1 .. nextSequence - 1 :
                            inserted[s + 1].identity = identity[r] =>
                                \E q \in LiveRows : sequence[q] = s
      BY DEF KeepsLatestViews
    <2>1. \A t \in Writers : pc[t] # "removing"
      BY NoneAssumption DEF IInv, HolderConsistent, Threads
    <2>2. QED
      BY <2>1, LiveIdentities DEF IInv, LatestInv, BeingRemoved, HasLatest
  <1>3. QED
    BY <1>1, <1>2, Invariance, LatestStep, PTL DEF Spec

--------------------------------------------------------------------------------
(* The refinement of BaseGallery.                                            *)

(* The variables of the contract, as the mapping computes them.              *)
Stored == {EntryAt(r) : r \in LiveRows}

(* The snapshot of t holds the stamp that row l carries.                     *)
Snapped(t, l) == \E q \in SnapshotRows(t) : stamps[t][q] = sequence[l]

CandidatesOf(t) == {EntryAt(r) : r \in {l \in LiveRows : Snapped(t, l)}}

AnswerOf(t) == {[stamp |-> m.score, identity |-> m.identity, camera |-> m.camera] :
                    m \in result[t]}

(* What the contract asks of a query beyond IInv: a reader between two       *)
(* queries has no snapshot, one about to report selected no more than top_k. *)
QueryInv ==
    \A t \in Readers :
        /\ pc[t] \notin {"product", "ranking", "readback"} => SnapshotRows(t) = {}
        /\ pc[t] = "readback" => Cardinality(top[t]) <= asked[t].top_k

LEMMA ImageIsNotLarger ==
    ASSUME NEW f, NEW S, IsFiniteSet(S)
    PROVE  /\ IsFiniteSet({f[x] : x \in S})
           /\ Cardinality({f[x] : x \in S}) <= Cardinality(S)
  <1> DEFINE T == {f[x] : x \in S}
             onto == [x \in S |-> f[x]]
  <1>1. onto \in Surjection(S, T)
    BY DEF Surjection
  <1> HIDE DEF T, onto
  <1>2. IsFiniteSet(T) /\ Cardinality(T) <= Cardinality(S)
    BY <1>1, FS_Surjection
  <1>3. QED
    BY <1>2 DEF T

(* A selection is no larger than the top_k it was made for.                  *)
LEMMA RankFits ==
    ASSUME TypeOK, NEW t \in Readers, Rank(t)
    PROVE  Cardinality(top'[t]) <= asked[t].top_k
  <1>1. PICK chosen \in SUBSET (SnapshotRows(t) \ Masked(t)) :
            /\ Cardinality(chosen) = Least(asked[t].top_k, Eligible(t))
            /\ top' = [top EXCEPT ![t] = chosen]
    BY DEF Rank
  <1>2. top'[t] = chosen
    BY <1>1 DEF TypeOK
  <1>3. asked[t].top_k \in Nat
    BY TopKsAssumption DEF TypeOK, Query
  <1>4. IsFiniteSet(SnapshotRows(t)) /\ Masked(t) \in SUBSET SnapshotRows(t)
    <2>1. IsFiniteSet(Rows) /\ SnapshotRows(t) \in SUBSET Rows
      BY FS_Interval, CapacityAssumption DEF Rows, SnapshotRows
    <2>2. QED
      BY <2>1, FS_Subset DEF Masked
  <1>5. Eligible(t) \in Int
    <2>1. IsFiniteSet(Masked(t))
      BY <1>4, FS_Subset
    <2>2. Cardinality(SnapshotRows(t)) \in Nat /\ Cardinality(Masked(t)) \in Nat
      BY <1>4, <2>1, FS_CardinalityType
    <2>3. QED
      BY <2>2 DEF Eligible
  <1>6. QED
    BY <1>1, <1>2, <1>3, <1>5 DEF Least

LEMMA QueryStep == IInv /\ QueryInv /\ [Next]_vars => QueryInv'
  <1> SUFFICES ASSUME IInv, QueryInv, [Next]_vars PROVE QueryInv'
    OBVIOUS
  <1> DEFINE querying == {"product", "ranking", "readback"}
  <1>1. TypeOK /\ DOMAIN pc = Threads /\ Readers \subseteq Threads
    BY DEF IInv, TypeOK, Threads
  <1>2. ASSUME UNCHANGED <<stamps, top, asked>>,
               \A u \in Readers : pc'[u] = pc[u] \/ (pc[u] \notin querying /\ pc'[u] \notin querying)
        PROVE  QueryInv'
    BY <1>2 DEF QueryInv, SnapshotRows
  <1>3. ASSUME NEW t \in Readers, \A u \in Readers : u # t =>
                   /\ pc'[u] = pc[u] /\ stamps'[u] = stamps[u]
                   /\ top'[u] = top[u] /\ asked'[u] = asked[u],
               /\ pc'[t] \notin querying => SnapshotRows(t)' = {}
               /\ pc'[t] = "readback" => Cardinality(top'[t]) <= asked'[t].top_k
        PROVE  QueryInv'
    BY <1>3 DEF QueryInv, SnapshotRows
  <1>4. ASSUME NEW t \in Writers,
               \/ \E e \in Embedding : AddRefused(t, e) \/ Add(t, e)
               \/ \E i \in Identities : RemoveIdentity(t, i)
               \/ Clear(t)
               \/ EvictOwn(t) \/ EvictOldest(t) \/ WriteRow(t) \/ DropDoomed(t)
        PROVE  QueryInv'
    <2>1. /\ UNCHANGED <<stamps, top, asked>>
          /\ \/ pc' = pc
             \/ /\ pc[t] \in {"idle", "room", "removing"}
                /\ \E p \in {"idle", "room", "removing"} : pc' = [pc EXCEPT ![t] = p]
      BY <1>4 DEF AddRefused, Add, RemoveIdentity, Clear, EvictOwn, EvictOldest, WriteRow,
                  DropDoomed, reading
    <2>2. \A u \in Readers : pc'[u] = pc[u] \/ (pc[u] \notin querying /\ pc'[u] \notin querying)
      BY <1>1, <2>1
    <2>3. QED
      BY <1>2, <2>1, <2>2
  <1>5. ASSUME NEW t \in Readers, NEW q \in Query, QueryEmpty(t, q)
        PROVE  QueryInv'
    <2>1. /\ pc[t] = "idle" /\ UNCHANGED <<pc, stamps, top>>
          /\ asked' = [asked EXCEPT ![t] = q]
      BY <1>5 DEF QueryEmpty
    <2>2. SnapshotRows(t)' = SnapshotRows(t)
      BY <2>1 DEF SnapshotRows
    <2>3. QED
      BY <1>3, <2>1, <2>2 DEF QueryInv
  <1>6. ASSUME NEW t \in Readers, NEW q \in Query, Snapshot(t, q)
        PROVE  QueryInv'
    <2>1. /\ pc' = [pc EXCEPT ![t] = "product"] /\ top' = top
          /\ \A u \in Readers : u # t => stamps'[u] = stamps[u] /\ asked'[u] = asked[u]
      BY <1>6 DEF Snapshot, IInv, TypeOK
    <2>2. QED
      BY <1>1, <1>3, <2>1
  <1>7. ASSUME NEW t \in Readers, Product(t)
        PROVE  QueryInv'
    <2>1. pc' = [pc EXCEPT ![t] = "ranking"] /\ UNCHANGED <<stamps, top, asked>>
      BY <1>7 DEF Product
    <2>2. QED
      BY <1>1, <1>3, <2>1
  <1>8. ASSUME NEW t \in Readers, Rank(t)
        PROVE  QueryInv'
    <2>1. /\ pc' = [pc EXCEPT ![t] = "readback"] /\ UNCHANGED <<stamps, asked>>
          /\ \A u \in Readers : u # t => top'[u] = top[u]
      BY <1>8 DEF Rank
    <2>2. Cardinality(top'[t]) <= asked[t].top_k
      BY <1>1, <1>8, RankFits
    <2>3. QED
      BY <1>1, <1>3, <2>1, <2>2
  <1>9. ASSUME NEW t \in Readers, AllMasked(t) \/ ReadBack(t)
        PROVE  QueryInv'
    <2>1. /\ pc' = [pc EXCEPT ![t] = "idle"] /\ asked' = asked
          /\ stamps' = [stamps EXCEPT ![t] = [r \in Rows |-> NoStamp]]
          /\ top' = [top EXCEPT ![t] = {}]
      BY <1>9 DEF AllMasked, ReadBack, EndQuery
    <2>2. SnapshotRows(t)' = {}
      BY <2>1 DEF SnapshotRows, IInv, TypeOK
    <2>3. QED
      BY <1>1, <1>3, <2>1, <2>2
  <1>10. CASE UNCHANGED vars
    BY <1>2, <1>10 DEF vars, reading
  <1>11. QED
    BY <1>4, <1>5, <1>6, <1>7, <1>8, <1>9, <1>10 DEF Next

(* Steps that do not show: the gallery, the queries in progress and the      *)
(* answers are what they were.                                               *)
LEMMA StutterMaps ==
    ASSUME Stored' = Stored, UNCHANGED <<nextSequence, asked, result>>,
           \A t \in Readers : CandidatesOf(t)' = CandidatesOf(t)
    PROVE  UNCHANGED Contract!vars
  <1>1. [t \in Readers |-> CandidatesOf(t)]' = [t \in Readers |-> CandidatesOf(t)]
    OBVIOUS
  <1>2. [t \in Readers |-> AnswerOf(t)]' = [t \in Readers |-> AnswerOf(t)]
    BY DEF AnswerOf
  <1>3. QED
    BY <1>1, <1>2 DEF Contract!vars, Stored, CandidatesOf, Snapped, AnswerOf

LEMMA ForgetMaps ==
    ASSUME NEW gone, Stored' = Stored \ gone, UNCHANGED <<nextSequence, asked, result>>,
           \A t \in Readers : CandidatesOf(t)' = CandidatesOf(t) \ gone
    PROVE  Contract!Forget(gone)
  <1>1. [t \in Readers |-> CandidatesOf(t)]' = [t \in Readers |-> CandidatesOf(t) \ gone]
    OBVIOUS
  <1>2. [t \in Readers |-> AnswerOf(t)]' = [t \in Readers |-> AnswerOf(t)]
    BY DEF AnswerOf
  <1>3. QED
    BY <1>1, <1>2 DEF Contract!Forget, Stored, CandidatesOf, Snapped, AnswerOf

(* _drop, from any of the three loops, is one entry forgotten.               *)
LEMMA DropForgets ==
    ASSUME IInv, NEW index \in LiveRows, Drop(index), UNCHANGED reading
    PROVE  \E gone \in (SUBSET Stored) \ {{}} : Contract!Forget(gone)
  <1> USE DropShape, Numbers DEF IInv, StoreInv
  <1>1. UNCHANGED <<stamps, asked, result, nextSequence, names>>
    BY DEF Drop, reading
  <1>2. \A r \in LiveRows' : EntryAt(r)' = EntryAt(Source(index, r))
    BY <1>1 DEF EntryAt, NameFor
  <1>3. \A q \in LiveRows : q # index => EntryAt(q) # EntryAt(index)
    BY DEF EntryAt, StampsDistinct
  <1>4. Stored' = Stored \ {EntryAt(index)}
    <2>1. ASSUME NEW e \in Stored'
          PROVE  e \in Stored \ {EntryAt(index)}
      BY <1>2, <1>3 DEF Stored
    <2>2. ASSUME NEW e \in Stored \ {EntryAt(index)}
          PROVE  e \in Stored'
      <3>1. PICK q \in LiveRows : e = EntryAt(q) /\ q # index
        BY DEF Stored
      <3>2. PICK p \in LiveRows' : Source(index, p) = q
        BY <3>1, DropLosesOneRow
      <3>3. QED
        BY <1>2, <3>1, <3>2 DEF Stored
    <2>3. QED
      BY <2>1, <2>2
  <1>5. ASSUME NEW t \in Readers
        PROVE  CandidatesOf(t)' = CandidatesOf(t) \ {EntryAt(index)}
    <2>1. \A r \in LiveRows' : Snapped(t, r)' <=> Snapped(t, Source(index, r))
      BY <1>1 DEF Snapped, SnapshotRows
    <2>2. ASSUME NEW e \in CandidatesOf(t)'
          PROVE  e \in CandidatesOf(t) \ {EntryAt(index)}
      BY <1>2, <1>3, <2>1 DEF CandidatesOf
    <2>3. ASSUME NEW e \in CandidatesOf(t) \ {EntryAt(index)}
          PROVE  e \in CandidatesOf(t)'
      <3>1. PICK q \in LiveRows : e = EntryAt(q) /\ q # index /\ Snapped(t, q)
        BY DEF CandidatesOf
      <3>2. PICK p \in LiveRows' : Source(index, p) = q
        BY <3>1, DropLosesOneRow
      <3>3. QED
        BY <1>2, <2>1, <3>1, <3>2 DEF CandidatesOf
    <2>4. QED
      BY <2>2, <2>3
  <1>6. PICK gone : gone = {EntryAt(index)}
    OBVIOUS
  <1>7. gone \in (SUBSET Stored) \ {{}}
    BY <1>6 DEF Stored
  <1>8. Stored' = Stored \ gone /\ \A t \in Readers : CandidatesOf(t)' = CandidatesOf(t) \ gone
    BY <1>4, <1>5, <1>6
  <1>9. Contract!Forget(gone)
    BY <1>1, <1>8, ForgetMaps
  <1>10. QED
    BY <1>7, <1>9

(* The contract counts with its own instance of Cardinality.                 *)
LEMMA SameCardinality ==
    ASSUME NEW S
    PROVE  Contract!Cardinality(S) = Cardinality(S)
  BY DEF Contract!Cardinality, Cardinality

LEMMA InsertMaps ==
    ASSUME NEW i, NEW c, nextSequence < MaxAdds, Cardinality(Stored) < Capacity,
           Stored' = Stored \cup {[stamp |-> nextSequence, identity |-> i, camera |-> c]},
           nextSequence' = nextSequence + 1, UNCHANGED <<asked, result>>,
           \A t \in Readers : CandidatesOf(t)' = CandidatesOf(t)
    PROVE  Contract!Insert(i, c)
  <1>1. [t \in Readers |-> CandidatesOf(t)]' = [t \in Readers |-> CandidatesOf(t)]
    OBVIOUS
  <1>2. [t \in Readers |-> AnswerOf(t)]' = [t \in Readers |-> AnswerOf(t)]
    BY DEF AnswerOf
  <1>3. PICK held : held = Stored
    OBVIOUS
  <1>4. Contract!Cardinality(held) < Capacity
    BY <1>3, SameCardinality
  <1>5. Contract!Cardinality({EntryAt(r) : r \in LiveRows}) < Capacity
    BY <1>3, <1>4 DEF Stored
  <1>6. QED
    BY <1>1, <1>2, <1>5 DEF Contract!Insert, Stored, CandidatesOf, Snapped, AnswerOf

(* No two live rows are the same entry, so the entries are as many as rows.  *)
LEMMA StoredSize ==
    ASSUME TypeOK
    PROVE  IsFiniteSet(Stored) /\ Cardinality(Stored) <= size /\ Cardinality(Stored) \in Nat
  <1> DEFINE entry == [r \in LiveRows |-> EntryAt(r)]
  <1>1. IsFiniteSet(LiveRows) /\ Cardinality(LiveRows) = size
    <2>1. size \in Nat /\ LiveRows = 0 .. size - 1 /\ size - 1 \in Int
      BY Numbers
    <2>2. /\ IsFiniteSet(0 .. size - 1)
          /\ Cardinality(0 .. size - 1) = IF 0 > size - 1 THEN 0 ELSE (size - 1) - 0 + 1
      BY <2>1, FS_Interval
    <2>3. QED
      BY <2>1, <2>2
  <1>2. Stored = {entry[r] : r \in LiveRows}
    BY DEF Stored
  <1> HIDE DEF entry
  <1>3. IsFiniteSet(Stored) /\ Cardinality(Stored) <= size
    BY <1>1, <1>2, ImageIsNotLarger
  <1>4. QED
    BY <1>3, FS_CardinalityType

(* The row that add writes is one entry inserted.                            *)
LEMMA WriteRowInserts ==
    ASSUME IInv, NEW w \in Writers, WriteRow(w)
    PROVE  \E i \in Identities, c \in Cameras \cup {None} : Contract!Insert(i, c)
  <1> USE Numbers DEF IInv, StoreInv
  <1>1. UNCHANGED <<stamps, asked, result, names>>
    BY DEF WriteRow, reading
  <1>2. PICK row, i, c, code : row = size /\ i = adding.identity /\ c = adding.camera
                               /\ code = adding.code
    OBVIOUS
  <1>3. /\ i \in Identities /\ c \in Cameras \cup {None} /\ NameFor(code) = c
        /\ nextSequence < MaxAdds
    BY <1>2 DEF WriteRow, HolderConsistent, Threads, Added
  <1>4. /\ LiveRows' = LiveRows \cup {row} /\ row \in Rows /\ row \notin LiveRows
        /\ size < Capacity
    BY <1>2 DEF WriteRow, GalleryFull, Rows, LiveRows
  <1>5. /\ \A r \in LiveRows : /\ sequence'[r] = sequence[r] /\ identity'[r] = identity[r]
                               /\ cameraCode'[r] = cameraCode[r]
        /\ sequence'[row] = nextSequence /\ identity'[row] = i /\ cameraCode'[row] = code
    <2>1. /\ sequence' = [sequence EXCEPT ![row] = nextSequence]
          /\ identity' = [identity EXCEPT ![row] = i]
          /\ cameraCode' = [cameraCode EXCEPT ![row] = code]
      BY <1>2 DEF WriteRow
    <2>2. /\ sequence \in [Rows -> Nat] /\ identity \in [Rows -> Identities \cup {None}]
          /\ cameraCode \in [Rows -> Codes]
      BY DEF TypeOK
    <2>3. QED
      BY <1>4, <2>1, <2>2
  <1>6. \A r \in LiveRows : EntryAt(r)' = EntryAt(r)
    BY <1>1, <1>5 DEF EntryAt, NameFor
  <1>7. EntryAt(row)' = [stamp |-> nextSequence, identity |-> i, camera |-> c]
    BY <1>1, <1>3, <1>5 DEF EntryAt, NameFor
  <1>8. Stored' = Stored \cup {[stamp |-> nextSequence, identity |-> i, camera |-> c]}
    BY <1>4, <1>6, <1>7 DEF Stored
  <1>9. ASSUME NEW t \in Readers
        PROVE  CandidatesOf(t)' = CandidatesOf(t)
    <2>1. \A r \in LiveRows : Snapped(t, r)' <=> Snapped(t, r)
      BY <1>1, <1>5 DEF Snapped, SnapshotRows
    <2>2. ~Snapped(t, row)'
      <3>1. \A q \in SnapshotRows(t) : stamps[t][q] < nextSequence /\ stamps[t][q] \in Int
        BY DEF SnapshotInv, StampsMoveDown, SnapshotRows, TypeOK, Stamps, NoStamp
      <3>2. SnapshotRows(t)' = SnapshotRows(t)
        BY <1>1 DEF SnapshotRows
      <3>3. QED
        BY <1>1, <1>5, <3>1, <3>2 DEF Snapped
    <2>3. QED
      BY <1>4, <1>6, <2>1, <2>2 DEF CandidatesOf
  <1>10. Cardinality(Stored) < Capacity
    BY <1>4, StoredSize
  <1>11. nextSequence' = nextSequence + 1
    BY DEF WriteRow
  <1>12. Contract!Insert(i, c)
    BY <1>1, <1>3, <1>8, <1>9, <1>10, <1>11, InsertMaps
  <1>13. QED
    BY <1>3, <1>12

(* clear forgets everything.                                                 *)
LEMMA ClearForgets ==
    ASSUME IInv, NEW w \in Writers, Clear(w)
    PROVE  Contract!Next \/ UNCHANGED Contract!vars
  <1>1. LiveRows' = {} /\ UNCHANGED <<nextSequence, asked, result>>
    BY DEF Clear, LiveRows, reading
  <1>2. Stored' = {} /\ \A t \in Readers : CandidatesOf(t)' = {}
    BY <1>1 DEF Stored, CandidatesOf
  <1>3. \A t \in Readers : CandidatesOf(t) \subseteq Stored
    BY DEF CandidatesOf, Stored
  <1>4. CASE Stored = {}
    <2>1. Stored' = Stored /\ \A t \in Readers : CandidatesOf(t)' = CandidatesOf(t)
      BY <1>2, <1>3, <1>4
    <2>2. QED
      BY <1>1, <2>1, StutterMaps
  <1>5. CASE Stored # {}
    <2>1. PICK gone : gone = Stored
      OBVIOUS
    <2>2. Stored' = Stored \ gone /\ \A t \in Readers : CandidatesOf(t)' = CandidatesOf(t) \ gone
      BY <1>2, <1>3, <2>1
    <2>3. Contract!Forget(gone)
      BY <1>1, <2>2, ForgetMaps
    <2>4. gone \in (SUBSET Stored) \ {{}}
      BY <1>5, <2>1
    <2>5. QED
      BY <2>3, <2>4 DEF Contract!Next, Stored
  <1>6. QED
    BY <1>4, <1>5

(* query, as it is called: from now on what the gallery holds may be told.   *)
LEMMA AskMaps ==
    ASSUME NEW t \in Readers, NEW q \in Query, TypeOK,
           UNCHANGED <<nextSequence>>, Stored' = Stored,
           asked' = [asked EXCEPT ![t] = q], result' = [result EXCEPT ![t] = {}],
           CandidatesOf(t)' = Stored,
           \A u \in Readers : u # t => CandidatesOf(u)' = CandidatesOf(u)
    PROVE  Contract!Ask(t, q)
  <1>1. [u \in Readers |-> CandidatesOf(u)]' =
            [[u \in Readers |-> CandidatesOf(u)] EXCEPT ![t] = Stored]
    OBVIOUS
  <1>2. [u \in Readers |-> AnswerOf(u)]' = [[u \in Readers |-> AnswerOf(u)] EXCEPT ![t] = {}]
    <2>1. result'[t] = {} /\ \A u \in Readers : u # t => result'[u] = result[u]
      BY DEF TypeOK
    <2>2. QED
      BY <2>1 DEF AnswerOf
  <1>3. QED
    BY <1>1, <1>2 DEF Contract!Ask, Stored, CandidatesOf, Snapped, AnswerOf

LEMMA QueryAsks ==
    ASSUME IInv, NEW t \in Readers, NEW q \in Query, QueryEmpty(t, q) \/ Snapshot(t, q)
    PROVE  Contract!Ask(t, q)
  <1> USE Numbers DEF IInv
  <1>1. /\ UNCHANGED <<size, sequence, identity, cameraCode, names, nextSequence>>
        /\ asked' = [asked EXCEPT ![t] = q] /\ result' = [result EXCEPT ![t] = {}]
        /\ \A u \in Readers : u # t => stamps'[u] = stamps[u]
    <2>1. CASE QueryEmpty(t, q)
      BY <2>1 DEF QueryEmpty, gallery, columns
    <2>2. CASE Snapshot(t, q)
      BY <2>2 DEF Snapshot, gallery, columns, TypeOK
    <2>3. QED
      BY <2>1, <2>2
  <1>2. LiveRows' = LiveRows /\ \A r : EntryAt(r)' = EntryAt(r)
    BY <1>1 DEF LiveRows, EntryAt, NameFor
  <1>3. Stored' = Stored
    BY <1>2 DEF Stored
  <1>4. \A u \in Readers : u # t => CandidatesOf(u)' = CandidatesOf(u)
    <2>1. \A u \in Readers : \A l : u # t => (Snapped(u, l)' <=> Snapped(u, l))
      BY <1>1 DEF Snapped, SnapshotRows
    <2>2. QED
      BY <1>2, <2>1 DEF CandidatesOf
  <1>5. CandidatesOf(t)' = Stored
    <2>1. CASE QueryEmpty(t, q)
      <3>1. LiveRows = {}
        BY <2>1 DEF QueryEmpty
      <3>2. QED
        BY <1>2, <3>1 DEF CandidatesOf, Stored
    <2>2. CASE Snapshot(t, q)
      <3>1. stamps'[t] = [r \in Rows |-> IF r < size THEN sequence[r] ELSE NoStamp]
        BY <2>2 DEF Snapshot, TypeOK
      <3>2. ASSUME NEW l \in LiveRows PROVE Snapped(t, l)'
        <4>1. l \in Rows /\ stamps'[t][l] = sequence[l] /\ sequence[l] # NoStamp
          BY <3>1 DEF NoStamp
        <4>2. l \in SnapshotRows(t)'
          BY <4>1 DEF SnapshotRows
        <4>3. sequence'[l] = sequence[l]
          BY <1>1
        <4>4. QED
          BY <4>1, <4>2, <4>3 DEF Snapped
      <3>3. QED
        BY <1>2, <3>2 DEF CandidatesOf, Stored
    <2>3. QED
      BY <2>1, <2>2
  <1>6. QED
    BY <1>1, <1>3, <1>4, <1>5, AskMaps

(* query, as it returns: some of what it may still report, and not too much. *)
LEMMA AnswerMaps ==
    ASSUME NEW t \in Readers, NEW found, TypeOK,
           Stored' = Stored, UNCHANGED <<nextSequence, asked>>,
           found \in SUBSET {e \in CandidatesOf(t) :
                                \/ asked[t].exclude_camera = None
                                \/ e.camera # asked[t].exclude_camera},
           Cardinality(found) <= asked[t].top_k,
           AnswerOf(t)' = found, CandidatesOf(t)' = {},
           \A u \in Readers : u # t => /\ CandidatesOf(u)' = CandidatesOf(u)
                                       /\ AnswerOf(u)' = AnswerOf(u)
    PROVE  Contract!Answer(t)
  <1>1. [u \in Readers |-> CandidatesOf(u)]' =
            [[u \in Readers |-> CandidatesOf(u)] EXCEPT ![t] = {}]
    OBVIOUS
  <1>2. [u \in Readers |-> AnswerOf(u)]' = [[u \in Readers |-> AnswerOf(u)] EXCEPT ![t] = found]
    OBVIOUS
  <1>3. Contract!Cardinality(found) <= asked[t].top_k
    BY SameCardinality
  <1>4. [u \in Readers |-> CandidatesOf(u)][t] = CandidatesOf(t)
    OBVIOUS
  <1>5. QED
    BY <1>1, <1>2, <1>3, <1>4
       DEF Contract!Answer, Contract!NoCandidates, Stored, CandidatesOf, Snapped, AnswerOf

(* What the end of a query leaves: no snapshot, and the gallery as it was.   *)
LEMMA EndQueryShape ==
    ASSUME TypeOK, NEW t \in Readers, NEW matches, EndQuery(t, matches)
    PROVE  /\ Stored' = Stored /\ UNCHANGED <<nextSequence, asked>>
           /\ CandidatesOf(t)' = {} /\ result'[t] = matches
           /\ \A u \in Readers : u # t => /\ CandidatesOf(u)' = CandidatesOf(u)
                                          /\ AnswerOf(u)' = AnswerOf(u)
  <1>1. UNCHANGED <<size, sequence, identity, cameraCode, names, nextSequence, asked>>
    BY DEF EndQuery, gallery, columns
  <1>2. LiveRows' = LiveRows /\ \A r : EntryAt(r)' = EntryAt(r)
    BY <1>1 DEF LiveRows, EntryAt, NameFor
  <1>3. Stored' = Stored
    BY <1>2 DEF Stored
  <1>4. /\ stamps'[t] = [r \in Rows |-> NoStamp] /\ result'[t] = matches
        /\ \A u \in Readers : u # t => stamps'[u] = stamps[u] /\ result'[u] = result[u]
    BY DEF EndQuery, TypeOK
  <1>5. SnapshotRows(t)' = {} /\ \A u \in Readers : u # t => SnapshotRows(u)' = SnapshotRows(u)
    BY <1>4 DEF SnapshotRows
  <1>6. CandidatesOf(t)' = {}
    BY <1>5 DEF CandidatesOf, Snapped
  <1>7. \A u \in Readers : u # t => CandidatesOf(u)' = CandidatesOf(u)
    <2>1. \A u \in Readers : \A l : u # t => (Snapped(u, l)' <=> Snapped(u, l))
      BY <1>1, <1>4, <1>5 DEF Snapped
    <2>2. QED
      BY <1>2, <2>1 DEF CandidatesOf
  <1>8. \A u \in Readers : u # t => AnswerOf(u)' = AnswerOf(u)
    BY <1>4 DEF AnswerOf
  <1>9. QED
    BY <1>1, <1>3, <1>4, <1>6, <1>7, <1>8

LEMMA AllMaskedAnswers ==
    ASSUME IInv, NEW t \in Readers, AllMasked(t)
    PROVE  Contract!Answer(t)
  <1>1. TypeOK /\ EndQuery(t, {})
    BY DEF IInv, AllMasked
  <1>2. AnswerOf(t)' = {}
    BY <1>1, EndQueryShape DEF AnswerOf
  <1>3. Cardinality({}) <= asked[t].top_k
    <2>1. asked[t].top_k \in Nat
      BY <1>1, TopKsAssumption DEF TypeOK, Query
    <2>2. QED
      BY <2>1, FS_EmptySet
  <1>4. QED
    BY <1>1, <1>2, <1>3, EndQueryShape, AnswerMaps

(* Every winner that is reported is an entry of the gallery at the snapshot  *)
(* that is still there, and not of the excluded camera.                      *)
LEMMA ReadBackAnswers ==
    ASSUME IInv, QueryInv, NEW t \in Readers, ReadBack(t)
    PROVE  Contract!Answer(t)
  <1> DEFINE W == {w \in top[t] : Reportable(t, w)}
             match == [r \in W |-> [identity |-> identity[r], camera |-> NameFor(cameraCode[r]),
                                    score |-> scores[t][r], entry_index |-> r]]
             entry == [r \in W |-> EntryAt(r)]
  <1>1. PICK matches : matches = {match[r] : r \in W} /\ EndQuery(t, matches)
    BY DEF ReadBack
  <1>2. TypeOK /\ pc[t] = "readback" /\ top[t] \subseteq SnapshotRows(t)
    BY DEF IInv, ReadBack, SnapshotInv, TopFromSnapshot
  <1>3. ASSUME NEW r \in W
        PROVE  /\ r \in LiveRows /\ Snapped(t, r) /\ scores[t][r] = sequence[r]
               /\ asked[t].exclude_camera # None =>
                      NameFor(cameraCode[r]) # asked[t].exclude_camera
    <2>1. r \in SnapshotRows(t) /\ SameEntry(t, r)
      BY <1>2 DEF Reportable
    <2>2. r \in LiveRows /\ Snapped(t, r)
      BY <1>2, <2>1, Numbers DEF SameEntry, Snapped, SnapshotRows, Rows
    <2>3. scores[t][r] = sequence[r]
      BY <1>2, <2>1 DEF IInv, SnapshotInv, StampVouches
    <2>4. asked[t].exclude_camera # None => NameFor(cameraCode[r]) # asked[t].exclude_camera
      BY <1>2, ReadBackReports
    <2>5. QED
      BY <2>2, <2>3, <2>4
  <1>4. PICK found : found = {entry[r] : r \in W}
    OBVIOUS
  <1>5. AnswerOf(t)' = found
    <2>1. AnswerOf(t)' = {[stamp |-> m.score, identity |-> m.identity, camera |-> m.camera] :
                              m \in matches}
      BY <1>1, <1>2, EndQueryShape DEF AnswerOf
    <2>2. \A r \in W : entry[r] = [stamp |-> match[r].score, identity |-> match[r].identity,
                                   camera |-> match[r].camera]
      BY <1>3 DEF EntryAt
    <2>3. ASSUME NEW e PROVE e \in AnswerOf(t)' <=> \E r \in W : e = entry[r]
      <3>1. e \in AnswerOf(t)' <=>
                \E r \in W : e = [stamp |-> match[r].score, identity |-> match[r].identity,
                                 camera |-> match[r].camera]
        <4> HIDE DEF W, match
        <4>1. QED
          BY <1>1, <2>1
      <3> HIDE DEF W, match, entry
      <3>2. QED
        BY <2>2, <3>1
    <2> HIDE DEF W, match, entry
    <2>4. QED
      BY <1>4, <2>3
  <1>6. found \in SUBSET {e \in CandidatesOf(t) : \/ asked[t].exclude_camera = None
                                                  \/ e.camera # asked[t].exclude_camera}
    <2>1. \A r \in W : /\ entry[r] \in CandidatesOf(t)
                       /\ entry[r].camera = NameFor(cameraCode[r])
      BY <1>3 DEF CandidatesOf, EntryAt
    <2> HIDE DEF W, entry
    <2>2. QED
      BY <1>3, <1>4, <2>1
  <1>7. Cardinality(found) <= asked[t].top_k
    <2>1. IsFiniteSet(top[t]) /\ W \in SUBSET top[t]
      <3>1. IsFiniteSet(Rows)
        BY FS_Interval, CapacityAssumption DEF Rows
      <3>2. top[t] \in SUBSET Rows
        BY <1>2 DEF SnapshotRows
      <3>3. QED
        BY <3>1, <3>2, FS_Subset
    <2>2. Cardinality(top[t]) <= asked[t].top_k
      BY <1>2 DEF QueryInv
    <2> HIDE DEF W, entry
    <2>3. IsFiniteSet(W) /\ Cardinality(W) <= Cardinality(top[t])
      BY <2>1, FS_Subset
    <2>4. Cardinality(found) <= Cardinality(W) /\ IsFiniteSet(found)
      BY <1>4, <2>3, ImageIsNotLarger
    <2>5. asked[t].top_k \in Nat
      BY <1>2, TopKsAssumption DEF TypeOK, Query
    <2>6. QED
      BY <2>1, <2>2, <2>3, <2>4, <2>5, FS_CardinalityType
  <1> HIDE DEF W, match, entry
  <1>8. QED
    BY <1>1, <1>2, <1>5, <1>6, <1>7, EndQueryShape, AnswerMaps

(* A step of the gallery's is one of the contract's, or none.                *)
LEMMA StepMaps ==
    IInv /\ QueryInv /\ [Next]_vars => [Contract!Next]_(Contract!vars)
  <1> SUFFICES ASSUME IInv, QueryInv, [Next]_vars
               PROVE  Contract!Next \/ UNCHANGED Contract!vars
    OBVIOUS
  <1>1. ASSUME UNCHANGED <<size, sequence, identity, cameraCode, names, nextSequence,
                           stamps, asked, result>>
        PROVE  UNCHANGED Contract!vars
    <2>1. LiveRows' = LiveRows /\ \A r : EntryAt(r)' = EntryAt(r)
      BY <1>1 DEF LiveRows, EntryAt, NameFor
    <2>2. \A t \in Readers : \A l : Snapped(t, l)' <=> Snapped(t, l)
      BY <1>1 DEF Snapped, SnapshotRows
    <2>3. Stored' = Stored /\ \A t \in Readers : CandidatesOf(t)' = CandidatesOf(t)
      BY <2>1, <2>2 DEF Stored, CandidatesOf
    <2>4. QED
      BY <1>1, <2>3, StutterMaps
  <1>2. ASSUME NEW index \in LiveRows, Drop(index), UNCHANGED reading
        PROVE  Contract!Next
    BY <1>2, DropForgets DEF Contract!Next, Stored
  <1>3. ASSUME NEW t \in Writers, NEW e \in Embedding, AddRefused(t, e)
        PROVE  UNCHANGED Contract!vars
    BY <1>1, <1>3 DEF AddRefused, columns, reading
  <1>4. ASSUME NEW t \in Writers, NEW e \in Embedding, Add(t, e)
        PROVE  UNCHANGED Contract!vars
    <2>1. UNCHANGED <<size, sequence, identity, cameraCode, nextSequence, stamps, asked, result>>
      BY <1>4 DEF Add, columns, reading
    <2>2. \A r \in LiveRows : NameFor(cameraCode[r])' = NameFor(cameraCode[r])
      BY <1>4, AddKeepsNames
    <2>3. LiveRows' = LiveRows /\ \A r \in LiveRows : EntryAt(r)' = EntryAt(r)
      BY <2>1, <2>2 DEF LiveRows, EntryAt
    <2>4. \A reader \in Readers : \A l : Snapped(reader, l)' <=> Snapped(reader, l)
      BY <2>1 DEF Snapped, SnapshotRows
    <2>5. Stored' = Stored /\ \A reader \in Readers : CandidatesOf(reader)' = CandidatesOf(reader)
      BY <2>3, <2>4 DEF Stored, CandidatesOf
    <2>6. QED
      BY <2>1, <2>5, StutterMaps
  <1>5. ASSUME NEW t \in Writers, NEW i \in Identities, RemoveIdentity(t, i)
        PROVE  UNCHANGED Contract!vars
    BY <1>1, <1>5 DEF RemoveIdentity, gallery, columns, reading
  <1>6. ASSUME NEW t \in Writers, EvictOwn(t) \/ EvictOldest(t) \/ DropDoomed(t)
        PROVE  Contract!Next
    <2>1. UNCHANGED reading
      BY <1>6 DEF EvictOwn, EvictOldest, DropDoomed
    <2>2. \E index \in LiveRows : Drop(index)
      <3>1. CASE EvictOwn(t)
        BY <3>1, EvictOwnDrops DEF IInv, StoreInv
      <3>2. CASE EvictOldest(t)
        BY <3>2 DEF EvictOldest, Oldest
      <3>3. CASE DropDoomed(t)
        BY <3>3 DEF DropDoomed, NextDoomed, IInv, HolderConsistent, Threads
      <3>4. QED
        BY <1>6, <3>1, <3>2, <3>3
    <2>3. QED
      BY <1>2, <2>1, <2>2
  <1>7. ASSUME NEW t \in Writers, WriteRow(t)
        PROVE  Contract!Next
    BY <1>7, WriteRowInserts DEF Contract!Next
  <1>8. ASSUME NEW t \in Writers, Clear(t)
        PROVE  Contract!Next \/ UNCHANGED Contract!vars
    BY <1>8, ClearForgets
  <1>9. ASSUME NEW t \in Readers, NEW q \in Query, QueryEmpty(t, q) \/ Snapshot(t, q)
        PROVE  Contract!Next
    BY <1>9, QueryAsks DEF Contract!Next, Contract!Query, Query
  <1>10. ASSUME NEW t \in Readers, Product(t) \/ Rank(t)
         PROVE  UNCHANGED Contract!vars
    BY <1>1, <1>10 DEF Product, Rank, gallery, columns
  <1>11. ASSUME NEW t \in Readers, AllMasked(t) \/ ReadBack(t)
         PROVE  Contract!Next
    BY <1>11, AllMaskedAnswers, ReadBackAnswers DEF Contract!Next
  <1>12. CASE UNCHANGED vars
    BY <1>1, <1>12 DEF vars, gallery, columns, reading
  <1>13. QED
    BY <1>3, <1>4, <1>5, <1>6, <1>7, <1>8, <1>9, <1>10, <1>11, <1>12 DEF Next

(* The gallery is what its callers may think it is: rows swapped into holes, *)
(* evictions one row at a time, products without the lock and camera codes   *)
(* that restart never show - a query tells some of the entries that were     *)
(* there when it was asked and still are, each as it was stored.             *)
THEOREM ContractImplemented == Spec => ImplementsBaseGallery
  <1>1. Init => QueryInv
    BY DEF Init, QueryInv, SnapshotRows, NoStamp, Threads
  <1>2. Init => Contract!Init
    <2> SUFFICES ASSUME Init PROVE Contract!Init
      OBVIOUS
    <2>1. LiveRows = {} /\ nextSequence = 0 /\ \A t \in Readers : result[t] = {}
      BY DEF Init, LiveRows
    <2>2. asked \in [Readers -> {q \in Query : q.exclude_camera = None}]
      BY DEF Init
    <2>3. QED
      BY <2>1, <2>2 DEF Contract!Init, Contract!NoCandidates, Contract!Query, Query
  <1>3. QED
    BY <1>1, <1>2, InitIInv, IInvStep, QueryStep, StepMaps, PTL
       DEF Spec, ImplementsBaseGallery, Contract!Spec

================================================================================
