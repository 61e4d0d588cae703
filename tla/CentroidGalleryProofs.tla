-------------------------- MODULE CentroidGalleryProofs --------------------------
(***************************************************************************)
(* Theorems about CentroidGallery for any number of threads, identities,    *)
(* cameras and rows, whichever observations an aggregator refuses.  The     *)
(* inductive invariant says what is true of a row while an observation is   *)
(* on its way into it, and that an occupant's stamp is never given twice:   *)
(* so a row that still carries the stamp of a snapshot was refreshed, if it *)
(* was written at all, by the identity that sat there all along.            *)
(***************************************************************************)
EXTENDS CentroidGallery, SequenceTheorems, TLAPS

(* What add works on once the camera has its code.                           *)
Added == [identity : Identities, camera : Cameras \cup {None}, code : Codes, known : BOOLEAN]

TypeOK ==
    /\ size \in 0 .. Capacity
    /\ identity \in [Rows -> Identities \cup {None}]
    /\ centroids \in [Rows -> SUBSET Identities]
    /\ cameraCode \in [Rows -> Codes]
    /\ sequence \in [Rows -> Nat]
    /\ occupant \in [Rows -> Nat]
    /\ rowOf \in [Identities -> Rows \cup {None}]
    /\ nextSequence \in Nat
    /\ nextOccupant \in Nat \ {0}
    /\ names \in Seq(Cameras) /\ Len(names) <= MaxCameras
    /\ lock \in Writers \cup {None}
    /\ pc \in [Threads -> {"idle", "room", "folding", "recording",
                           "product", "ranking", "readback"}]
    /\ asked \in [Readers -> Query]
    /\ stamps \in [Readers -> [Rows -> Nat]]
    /\ exclude \in [Readers -> Nat \cup {None}]
    /\ scores \in [Readers -> [Rows -> SUBSET Identities]]
    /\ inRow \in [Readers -> [Rows -> SUBSET Identities]]
    /\ top \in [Readers -> SUBSET Rows]
    /\ knew \in [Readers -> BOOLEAN]
    /\ DOMAIN result = Readers
    /\ DOMAIN latest = Identities

(* No camera is in the codec's table twice, and every row's code is in it.   *)
CodesMeaningful ==
    /\ \A i, j \in DOMAIN names : names[i] = names[j] => i = j
    /\ \A r \in Rows : cameraCode[r] < Len(names)

(* The next stamp was never given to anybody.                                *)
StampsBehind == \A r \in Rows : occupant[r] < nextOccupant

(* The map and the identity column are inverse to each other, and whoever    *)
(* has no row has no history.                                                *)
Placed ==
    /\ \A r \in LiveRows : identity[r] \in Identities /\ rowOf[identity[r]] = r
    /\ \A i \in Identities : rowOf[i] # None => rowOf[i] < size /\ identity[rowOf[i]] = i
    /\ \A r \in Rows \ LiveRows : identity[r] = None /\ cameraCode[r] = NO_CAMERA
    /\ \A i \in Identities : rowOf[i] = None => latest[i] = Never

(* The first observation of the identity in row r is being folded in.        *)
BeingFilled(r, states) ==
    \E t \in Threads : pc[t] \in states /\ ~adding.known /\ adding.identity = identity[r]

(* The last observation of the identity in row r is what its columns say.    *)
Recorded(r) ==
    /\ NameFor(cameraCode[r]) = latest[identity[r]].camera
    /\ latest[identity[r]] # Never => sequence[r] = latest[identity[r]].sequence

(* The columns of a row are its identity's, but for what add has yet to do.  *)
RowsTrue ==
    \A r \in LiveRows :
        /\ Recorded(r)
        /\ identity[r] \notin refused =>
               /\ centroids[r] = {identity[r]} \/ BeingFilled(r, {"folding"})
               /\ latest[identity[r]] # Never \/ BeingFilled(r, {"folding", "recording"})

(* Only the lock's holder is inside add, and its locals agree with the       *)
(* gallery.                                                                  *)
HolderConsistent ==
    \A t \in Threads :
        /\ pc[t] \in {"room", "folding", "recording"} =>
               /\ lock = t /\ adding \in Added
               /\ adding.code < Len(names) /\ NameFor(adding.code) = adding.camera
        /\ pc[t] = "room" => rowOf[adding.identity] = None /\ ~adding.known
        /\ pc[t] \in {"folding", "recording"} => rowOf[adding.identity] # None

(* Row r is still occupied by whom the snapshot of t saw there.              *)
SameOccupant(t, r) == r < size /\ occupant[r] = stamps[t][r]

(* While it is, the code of the excluded camera still means that camera, and *)
(* what the product read there were that occupant's vectors.                 *)
RowOfSnapshot(t, r) ==
    /\ stamps[t][r] < nextOccupant
    /\ SameOccupant(t, r) =>
           /\ knew[t] => /\ exclude[t] \in 0 .. Len(names) - 1
                         /\ names[exclude[t] + 1] = asked[t].exclude_camera
           /\ identity[r] \notin refused =>
                  /\ pc[t] = "product" => inRow[t][r] = {identity[r]}
                  /\ pc[t] \in {"ranking", "readback"} => scores[t][r] = {identity[r]}

SnapshotsTrue == \A t \in Readers : \A r \in SnapshotRows(t) : RowOfSnapshot(t, r)

TopFromSnapshot ==
    \A t \in Readers : pc[t] = "readback" => top[t] \subseteq SnapshotRows(t)

StoreInv ==
    TypeOK /\ CodesMeaningful /\ StampsBehind /\ Placed /\ RowsTrue /\ HolderConsistent

IInv == StoreInv /\ SnapshotsTrue /\ TopFromSnapshot

--------------------------------------------------------------------------------
(* The numbers behind the columns.                                           *)
LEMMA Numbers ==
    ASSUME TypeOK
    PROVE  /\ size \in Nat /\ size <= Capacity /\ Capacity \in Nat
           /\ LiveRows = 0 .. size - 1 /\ LiveRows \subseteq Rows
           /\ nextSequence \in Nat /\ nextOccupant \in Nat /\ nextOccupant > 0
           /\ \A r \in Rows : /\ r \in Nat /\ cameraCode[r] \in Codes /\ occupant[r] \in Nat
                              /\ r < size <=> r \in LiveRows
  <1>1. /\ size \in Nat /\ size <= Capacity /\ Capacity \in Nat
        /\ nextSequence \in Nat /\ nextOccupant \in Nat /\ nextOccupant > 0
    BY CentroidAssumption DEF TypeOK
  <1>2. LiveRows = 0 .. size - 1 /\ LiveRows \subseteq Rows
    BY <1>1 DEF LiveRows, Rows
  <1>3. \A r \in Rows : r \in Nat /\ (r < size <=> r \in LiveRows)
    BY <1>1 DEF LiveRows, Rows
  <1>4. occupant \in [Rows -> Nat] /\ cameraCode \in [Rows -> Codes]
    BY DEF TypeOK
  <1>5. QED
    BY <1>1, <1>2, <1>3, <1>4

(* A row of a snapshot is a row, and its stamp a number.                     *)
LEMMA SnapshotRowType ==
    ASSUME TypeOK, NEW t \in Readers, NEW r \in SnapshotRows(t)
    PROVE  r \in Rows /\ stamps[t][r] \in Nat /\ (SameOccupant(t, r) => r \in LiveRows)
  <1>1. r \in Rows /\ stamps \in [Readers -> [Rows -> Nat]]
    BY DEF SnapshotRows, TypeOK
  <1>2. QED
    BY <1>1, Numbers DEF SameOccupant

(* Who is inside add is alone there, and has the lock.                       *)
LEMMA HolderAlone ==
    ASSUME HolderConsistent, NEW t \in Threads, pc[t] \in {"room", "folding", "recording"}
    PROVE  /\ lock = t /\ adding \in Added
           /\ adding.identity \in Identities /\ adding.camera \in Cameras \cup {None}
           /\ adding.code \in Codes /\ adding.known \in BOOLEAN
           /\ adding.code < Len(names) /\ NameFor(adding.code) = adding.camera
           /\ \A u \in Threads : pc[u] \in {"room", "folding", "recording"} => u = t
  BY DEF HolderConsistent, Added

LEMMA NobodyInside ==
    ASSUME TypeOK, HolderConsistent, lock = None
    PROVE  \A u \in Threads : pc[u] \notin {"room", "folding", "recording"}
  BY NoneAssumption DEF HolderConsistent, Threads

(* The codec, as the gallery uses it.                                        *)
LEMMA LookupFinds ==
    ASSUME TypeOK, NEW c, Interned(c)
    PROVE  /\ Lookup(c) \in 0 .. Len(names) - 1
           /\ names[Lookup(c) + 1] = c
  BY DEF TypeOK, Interned, Lookup

LEMMA CodeForType ==
    ASSUME TypeOK, NEW c \in Cameras \cup {None}, ~CodecRefuses(c)
    PROVE  CodeFor(c) \in Codes
  BY MaxCamerasAssumption
     DEF CodecRefuses, CodeFor, Lookup, Interned, TypeOK, Codes, NO_CAMERA

(* Interning a camera leaves the names of the codes already given.           *)
LEMMA NamesGrow ==
    ASSUME TypeOK, CodesMeaningful, NEW c \in Cameras \cup {None}, ~CodecRefuses(c),
           names' = NamesWith(c)
    PROVE  /\ \A i, j \in DOMAIN names' : names'[i] = names'[j] => i = j
           /\ names' \in Seq(Cameras) /\ Len(names') <= MaxCameras
           /\ Len(names) <= Len(names') /\ Len(names) \in Nat /\ Len(names') \in Nat
           /\ \A i \in 1 .. Len(names) : names'[i] = names[i]
           /\ CodeFor(c) \in Codes /\ CodeFor(c) < Len(names')
           /\ IF CodeFor(c) = NO_CAMERA THEN c = None ELSE names'[CodeFor(c) + 1] = c
  <1>1. /\ names \in Seq(Cameras) /\ Len(names) \in Nat /\ DOMAIN names = 1 .. Len(names)
        /\ \A i, j \in DOMAIN names : names[i] = names[j] => i = j
        /\ CodeFor(c) \in Codes /\ Len(names) <= MaxCameras /\ MaxCameras \in Nat
    BY CodeForType, MaxCamerasAssumption DEF TypeOK, CodesMeaningful
  <1>2. CASE c = None
    BY <1>1, <1>2 DEF NamesWith, CodeFor, NO_CAMERA
  <1>3. CASE c # None /\ Interned(c)
    <2>1. /\ Lookup(c) \in 0 .. Len(names) - 1 /\ names[Lookup(c) + 1] = c
          /\ names' = names /\ CodeFor(c) = Lookup(c)
      BY <1>3, LookupFinds DEF NamesWith, CodeFor
    <2>2. QED
      BY <1>1, <2>1 DEF NO_CAMERA
  <1>4. CASE c # None /\ ~Interned(c)
    <2>1. names' = Append(names, c) /\ CodeFor(c) = Len(names) /\ c \in Cameras
      BY <1>4 DEF NamesWith, CodeFor
    <2>2. \A i \in DOMAIN names : names[i] # c
      BY <1>4 DEF Interned
    <2>3. Len(names) < MaxCameras
      BY <1>1, <1>4 DEF CodecRefuses
    <2>4. QED
      BY <1>1, <2>1, <2>2, <2>3 DEF NO_CAMERA
  <1>5. QED
    BY <1>2, <1>3, <1>4

(* What the interned camera means for the codes there are.                   *)
LEMMA AddKeepsNames ==
    ASSUME TypeOK, CodesMeaningful, NEW t \in Writers, NEW e \in Embedding, Add(t, e),
           NEW code \in Codes, code < Len(names)
    PROVE  code < Len(names') /\ NameFor(code)' = NameFor(code)
  <1>1. /\ Len(names) <= Len(names') /\ Len(names) \in Nat /\ Len(names') \in Nat
        /\ \A i \in 1 .. Len(names) : names'[i] = names[i]
    BY NamesGrow DEF Add, Embedding
  <1>2. QED
    BY <1>1 DEF NameFor, Codes, NO_CAMERA

(* The row an identity comes from when _drop(row) compacts the columns.      *)
Source(row, r) == IF r = row THEN size - 1 ELSE r

(* Which rows hold what after _drop.                                         *)
LEMMA DropShape ==
    ASSUME TypeOK, NEW row \in LiveRows, Drop(row)
    PROVE  /\ size \in 1 .. Capacity /\ size' = size - 1
           /\ LiveRows' = 0 .. size - 2 /\ LiveRows' \subseteq LiveRows /\ LiveRows \subseteq Rows
           /\ \A r \in LiveRows' :
                 /\ Source(row, r) \in LiveRows /\ Source(row, r) # row
                 /\ identity'[r] = identity[Source(row, r)]
                 /\ centroids'[r] = centroids[Source(row, r)]
                 /\ cameraCode'[r] = cameraCode[Source(row, r)]
                 /\ sequence'[r] = sequence[Source(row, r)]
           /\ identity'[size - 1] = None /\ cameraCode'[size - 1] = NO_CAMERA
           /\ \A r \in Rows \ LiveRows : /\ identity'[r] = identity[r]
                                         /\ cameraCode'[r] = cameraCode[r]
  <1>1. /\ size \in 1 .. Capacity /\ size' = size - 1
        /\ LiveRows' = 0 .. size - 2 /\ LiveRows' \subseteq LiveRows /\ LiveRows \subseteq Rows
        /\ row \in Rows /\ size - 1 \in Rows
    <2>1. size \in Nat /\ size <= Capacity /\ Capacity \in Nat /\ size' = size - 1
      BY CentroidAssumption DEF TypeOK, Drop
    <2>2. row \in 0 .. size - 1
      BY DEF LiveRows
    <2>3. LiveRows' = 0 .. (size - 1) - 1
      BY <2>1 DEF LiveRows
    <2>4. QED
      BY <2>1, <2>2, <2>3 DEF LiveRows, Rows
  <1>2. /\ identity \in [Rows -> Identities \cup {None}] /\ centroids \in [Rows -> SUBSET Identities]
        /\ cameraCode \in [Rows -> Codes] /\ sequence \in [Rows -> Nat]
    BY DEF TypeOK
  <1>3. /\ identity' = [identity EXCEPT ![row] = identity[size - 1], ![size - 1] = None]
        /\ centroids' = [centroids EXCEPT ![row] = centroids[size - 1]]
        /\ cameraCode' = [cameraCode EXCEPT ![row] = cameraCode[size - 1], ![size - 1] = NO_CAMERA]
        /\ sequence' = [sequence EXCEPT ![row] = sequence[size - 1]]
    BY DEF Drop
  <1>4. ASSUME NEW r \in LiveRows'
        PROVE  /\ Source(row, r) \in LiveRows /\ Source(row, r) # row
               /\ r \in Rows /\ r # size - 1
    BY <1>1 DEF Source, LiveRows, Rows
  <1>5. ASSUME NEW r \in LiveRows'
        PROVE  /\ identity'[r] = identity[Source(row, r)]
               /\ centroids'[r] = centroids[Source(row, r)]
               /\ cameraCode'[r] = cameraCode[Source(row, r)]
               /\ sequence'[r] = sequence[Source(row, r)]
    BY <1>1, <1>2, <1>3, <1>4 DEF Source
  <1>6. identity'[size - 1] = None /\ cameraCode'[size - 1] = NO_CAMERA
    BY <1>1, <1>2, <1>3
  <1>7. ASSUME NEW r \in Rows \ LiveRows
        PROVE  identity'[r] = identity[r] /\ cameraCode'[r] = cameraCode[r]
    <2>1. r # row /\ r # size - 1
      BY <1>1, <1>7, Numbers DEF LiveRows
    <2>2. QED
      BY <1>2, <1>3, <1>7, <2>1
  <1>8. QED
    BY <1>1, <1>4, <1>5, <1>6, <1>7

LEMMA ScribbleType ==
    ASSUME inRow \in [Readers -> [Rows -> SUBSET Identities]], NEW row \in Rows,
           NEW vector \in SUBSET Identities, Scribble(row, vector)
    PROVE  inRow' \in [Readers -> [Rows -> SUBSET Identities]]
  <1>1. ASSUME NEW t \in Readers
        PROVE  [inRow[t] EXCEPT ![row] = @ \cup vector] \in [Rows -> SUBSET Identities]
    BY <1>1
  <1>2. QED
    BY <1>1 DEF Scribble

LEMMA DropType ==
    ASSUME TypeOK, NEW row \in LiveRows, Drop(row)
    PROVE  /\ size' \in 0 .. Capacity
           /\ identity' \in [Rows -> Identities \cup {None}]
           /\ centroids' \in [Rows -> SUBSET Identities]
           /\ cameraCode' \in [Rows -> Codes]
           /\ sequence' \in [Rows -> Nat]
           /\ occupant' \in [Rows -> Nat]
           /\ rowOf' \in [Identities -> Rows \cup {None}]
           /\ nextOccupant' \in Nat \ {0} /\ nextOccupant <= nextOccupant'
           /\ inRow' \in [Readers -> [Rows -> SUBSET Identities]]
           /\ DOMAIN latest' = Identities
  <1>1. size' \in 0 .. Capacity /\ size - 1 \in Rows /\ row \in Rows /\ NO_CAMERA \in Codes
    BY DropShape, CentroidAssumption, MaxCamerasAssumption DEF LiveRows, Rows, NO_CAMERA, Codes
  <1>2. /\ identity' \in [Rows -> Identities \cup {None}]
        /\ centroids' \in [Rows -> SUBSET Identities]
        /\ cameraCode' \in [Rows -> Codes]
        /\ sequence' \in [Rows -> Nat]
    BY <1>1 DEF TypeOK, Drop
  <1>3. /\ nextOccupant' \in Nat \ {0} /\ nextOccupant <= nextOccupant'
        /\ occupant' \in [Rows -> Nat]
    <2>1. nextOccupant' = nextOccupant \/ nextOccupant' = nextOccupant + 1
      BY DEF Drop
    <2>2. occupant' = occupant \/ occupant' = [occupant EXCEPT ![row] = nextOccupant]
      BY DEF Drop
    <2>3. nextOccupant \in Nat /\ nextOccupant > 0 /\ occupant \in [Rows -> Nat]
      BY Numbers DEF TypeOK
    <2>4. QED
      BY <1>1, <2>1, <2>2, <2>3
  <1>4. rowOf' \in [Identities -> Rows \cup {None}]
    BY <1>1 DEF Drop, TypeOK
  <1>5. inRow' \in [Readers -> [Rows -> SUBSET Identities]]
    <2>1. inRow' = inRow \/ Scribble(row, centroids[size - 1])
      BY DEF Drop
    <2>2. centroids[size - 1] \in SUBSET Identities
      BY <1>1 DEF TypeOK
    <2>3. inRow \in [Readers -> [Rows -> SUBSET Identities]]
      BY DEF TypeOK
    <2>4. ASSUME Scribble(row, centroids[size - 1])
          PROVE  inRow' \in [Readers -> [Rows -> SUBSET Identities]]
      BY <1>1, <2>2, <2>3, <2>4, ScribbleType
    <2>5. QED
      BY <2>1, <2>3, <2>4
  <1>6. DOMAIN latest' = Identities
    BY DEF Drop, Forgotten, TypeOK
  <1>7. QED
    BY <1>1, <1>2, <1>3, <1>4, <1>5, <1>6

--------------------------------------------------------------------------------
(* Type correctness.                                                         *)

LEMMA TypeStep == StoreInv /\ Next => TypeOK'
  <1> SUFFICES ASSUME StoreInv, Next PROVE TypeOK'
    OBVIOUS
  <1> USE DEF StoreInv, gallery, columns, writing, query, history
  <1>1. ASSUME NEW t \in Writers, NEW e \in Embedding, Add(t, e)
        PROVE  TypeOK'
    <2>1. names' \in Seq(Cameras) /\ Len(names') <= MaxCameras
      BY <1>1, NamesGrow DEF Add, Embedding
    <2>2. lock' \in Writers \cup {None}
      BY <1>1 DEF Add
    <2>3. pc' \in [Threads -> {"idle", "room", "folding", "recording",
                               "product", "ranking", "readback"}]
      BY <1>1 DEF Add, TypeOK
    <2>4. QED
      BY <1>1, <2>1, <2>2, <2>3 DEF Add, TypeOK
  <1>2. ASSUME NEW t \in Writers, NEW row \in LiveRows, Drop(row),
               UNCHANGED <<nextSequence, names, writing, query, pc>>
        PROVE  TypeOK'
    BY <1>2, DropType DEF TypeOK
  <1>3. ASSUME NEW t \in Writers, EvictOldest(t)
        PROVE  TypeOK'
    BY <1>2, <1>3 DEF EvictOldest, LeastRecent
  <1>4. ASSUME NEW t \in Writers, NEW i \in Identities, RemoveIdentity(t, i)
        PROVE  TypeOK'
    <2>1. PICK row : row = rowOf[i]
      OBVIOUS
    <2>2. row \in LiveRows /\ Drop(row)
      BY <1>4, <2>1, Numbers DEF RemoveIdentity, Placed, TypeOK
    <2>3. QED
      BY <1>2, <1>4, <2>2 DEF RemoveIdentity
  <1>5. ASSUME NEW t \in Writers, ClaimRow(t)
        PROVE  TypeOK'
    <2>1. /\ adding.identity \in Identities /\ size \in Rows /\ size' \in 0 .. Capacity
          /\ nextOccupant' \in Nat \ {0}
      BY <1>5, HolderAlone, Numbers DEF ClaimRow, Threads, Rows
    <2>2. /\ identity' \in [Rows -> Identities \cup {None}]
          /\ rowOf' \in [Identities -> Rows \cup {None}]
          /\ occupant' \in [Rows -> Nat]
      BY <1>5, <2>1, Numbers DEF ClaimRow, TypeOK
    <2>3. pc' \in [Threads -> {"idle", "room", "folding", "recording",
                               "product", "ranking", "readback"}]
      BY <1>5 DEF ClaimRow, TypeOK
    <2>4. QED
      BY <1>5, <2>1, <2>2, <2>3 DEF ClaimRow, TypeOK
  <1>6. ASSUME NEW t \in Writers, Fold(t)
        PROVE  TypeOK'
    <2>1. adding.identity \in Identities /\ rowOf[adding.identity] \in Rows
      BY <1>6, HolderAlone DEF Fold, Threads, HolderConsistent, TypeOK
    <2>2. Folded \in SUBSET Identities
      BY <2>1 DEF Folded, TypeOK
    <2>3. centroids' \in [Rows -> SUBSET Identities]
      BY <1>6, <2>1, <2>2 DEF Fold, TypeOK
    <2>4. inRow' \in [Readers -> [Rows -> SUBSET Identities]]
      BY <1>6, <2>1, <2>2, ScribbleType DEF Fold, TypeOK
    <2>5. pc' \in [Threads -> {"idle", "room", "folding", "recording",
                               "product", "ranking", "readback"}]
      BY <1>6 DEF Fold, TypeOK
    <2>6. QED
      BY <1>6, <2>3, <2>4, <2>5 DEF Fold, TypeOK
  <1>7. ASSUME NEW t \in Writers, FoldRefused(t)
        PROVE  TypeOK'
    BY <1>7 DEF FoldRefused, TypeOK
  <1>8. ASSUME NEW t \in Writers, Record(t)
        PROVE  TypeOK'
    <2>1. /\ adding.identity \in Identities /\ adding.code \in Codes
          /\ rowOf[adding.identity] \in Rows
      BY <1>8, HolderAlone DEF Record, Threads, HolderConsistent, TypeOK
    <2>2. /\ cameraCode' \in [Rows -> Codes] /\ sequence' \in [Rows -> Nat]
          /\ nextSequence' \in Nat /\ DOMAIN latest' = Identities
      BY <1>8, <2>1 DEF Record, TypeOK
    <2>3. pc' \in [Threads -> {"idle", "room", "folding", "recording",
                               "product", "ranking", "readback"}]
      BY <1>8 DEF Record, TypeOK
    <2>4. QED
      BY <1>8, <2>2, <2>3 DEF Record, TypeOK
  <1>9. ASSUME NEW t \in Writers, Clear(t)
        PROVE  TypeOK'
    BY <1>9, CentroidAssumption, MaxCamerasAssumption DEF Clear, TypeOK, Codes, NO_CAMERA
  <1>10. ASSUME NEW t \in Readers, NEW q \in Query, QueryEmpty(t, q)
         PROVE  TypeOK'
    BY <1>10 DEF QueryEmpty, TypeOK
  <1>11. ASSUME NEW t \in Readers, NEW q \in Query, Snapshot(t, q)
         PROVE  TypeOK'
    <2>1. /\ asked' \in [Readers -> Query] /\ knew' \in [Readers -> BOOLEAN]
          /\ DOMAIN result' = Readers
      BY <1>11 DEF Snapshot, TypeOK
    <2>2. stamps' \in [Readers -> [Rows -> Nat]]
      BY <1>11 DEF Snapshot, TypeOK, NoStamp
    <2>3. Lookup(q.exclude_camera) \in Nat \cup {None}
      <3>1. CASE Interned(q.exclude_camera)
        BY <3>1, LookupFinds DEF TypeOK
      <3>2. CASE ~Interned(q.exclude_camera)
        BY <3>2 DEF Lookup
      <3>3. QED
        BY <3>1, <3>2
    <2>4. exclude' \in [Readers -> Nat \cup {None}]
      BY <1>11, <2>3 DEF Snapshot, TypeOK
    <2>5. inRow' \in [Readers -> [Rows -> SUBSET Identities]]
      BY <1>11 DEF Snapshot, TypeOK
    <2>6. pc' \in [Threads -> {"idle", "room", "folding", "recording",
                               "product", "ranking", "readback"}]
      BY <1>11 DEF Snapshot, TypeOK
    <2>7. QED
      BY <1>11, <2>1, <2>2, <2>4, <2>5, <2>6 DEF Snapshot, TypeOK
  <1>12. ASSUME NEW t \in Readers, Product(t)
         PROVE  TypeOK'
    <2>1. /\ scores' \in [Readers -> [Rows -> SUBSET Identities]]
          /\ inRow' \in [Readers -> [Rows -> SUBSET Identities]]
      BY <1>12 DEF Product, TypeOK, NoScores
    <2>2. pc' \in [Threads -> {"idle", "room", "folding", "recording",
                               "product", "ranking", "readback"}]
      BY <1>12 DEF Product, TypeOK
    <2>3. QED
      BY <1>12, <2>1, <2>2 DEF Product, TypeOK
  <1>13. ASSUME NEW t \in Readers, Rank(t)
         PROVE  TypeOK'
    <2>1. PICK chosen \in SUBSET Eligible(t) : top' = [top EXCEPT ![t] = chosen]
      BY <1>13 DEF Rank
    <2>2. chosen \in SUBSET Rows
      BY DEF Eligible, SnapshotRows
    <2>3. top' \in [Readers -> SUBSET Rows]
      BY <2>1, <2>2 DEF TypeOK
    <2>4. pc' \in [Threads -> {"idle", "room", "folding", "recording",
                               "product", "ranking", "readback"}]
      BY <1>13 DEF Rank, TypeOK
    <2>5. QED
      BY <1>13, <2>3, <2>4 DEF Rank, TypeOK
  <1>14. ASSUME NEW t \in Readers, ReadBack(t)
         PROVE  TypeOK'
    BY <1>14 DEF ReadBack, TypeOK, NoScores, NoStamp
  <1>15. QED
    BY <1>1, <1>3, <1>4, <1>5, <1>6, <1>7, <1>8, <1>9, <1>10, <1>11, <1>12, <1>13, <1>14
       DEF Next

--------------------------------------------------------------------------------
(* The map, the columns and the codes.                                       *)

(* One identity gone, the last moved into its row.                           *)
LEMMA DropKeepsPlaced ==
    ASSUME TypeOK, CodesMeaningful, Placed, NEW row \in LiveRows, Drop(row), names' = names
    PROVE  Placed' /\ CodesMeaningful'
  <1> USE DropShape
  <1>1. CodesMeaningful'
    <2>1. ASSUME NEW r \in Rows
          PROVE  cameraCode'[r] < Len(names)
      <3>1. CASE r \in LiveRows'
        BY <3>1 DEF CodesMeaningful
      <3>2. CASE r \in Rows \ LiveRows
        BY <3>2 DEF CodesMeaningful
      <3>3. CASE r = size - 1
        <4>1. Len(names) \in Nat
          BY DEF TypeOK
        <4>2. cameraCode'[r] = -1
          BY <3>3 DEF NO_CAMERA
        <4>3. QED
          BY <4>1, <4>2
      <3>4. QED
        BY <3>1, <3>2, <3>3, Numbers
    <2>2. QED
      BY <2>1 DEF CodesMeaningful
  <1>2. rowOf' = [i \in Identities |-> IF i = identity[row] THEN None
                                       ELSE IF i = identity[size - 1] THEN row ELSE rowOf[i]]
    BY DEF Drop
  <1>3. ASSUME NEW r \in LiveRows'
        PROVE  identity'[r] \in Identities /\ rowOf'[identity'[r]] = r
    <2> DEFINE from == Source(row, r)
    <2>1. from \in LiveRows /\ from # row /\ identity'[r] = identity[from]
      OBVIOUS
    <2>2. /\ identity[from] \in Identities /\ rowOf[identity[from]] = from
          /\ rowOf[identity[row]] = row /\ rowOf[identity[size - 1]] = size - 1
      BY <2>1, Numbers DEF Placed
    <2>3. identity[from] # identity[row]
      BY <2>1, <2>2
    <2>4. CASE r = row
      BY <1>2, <2>1, <2>2, <2>3, <2>4 DEF Source
    <2>5. CASE r # row
      <3>1. from = r /\ r # size - 1
        BY <2>5, Numbers DEF Source
      <3>2. QED
        BY <1>2, <2>1, <2>2, <2>3, <3>1
    <2>6. QED
      BY <2>4, <2>5
  <1>4. ASSUME NEW i \in Identities, rowOf'[i] # None
        PROVE  rowOf'[i] < size' /\ identity'[rowOf'[i]] = i
    <2>1. i # identity[row]
      BY <1>2, <1>4
    <2>2. CASE i = identity[size - 1]
      <3>1. rowOf'[i] = row /\ row # size - 1
        BY <1>2, <2>1, <2>2
      <3>2. row \in LiveRows' /\ Source(row, row) = size - 1
        BY <3>1, Numbers DEF Source
      <3>3. QED
        BY <2>2, <3>1, <3>2, Numbers
    <2>3. CASE i # identity[size - 1]
      <3>1. rowOf'[i] = rowOf[i] /\ rowOf[i] < size /\ identity[rowOf[i]] = i
        BY <1>2, <1>4, <2>1, <2>3 DEF Placed
      <3>2. rowOf[i] \in Rows
        BY <1>4, <3>1 DEF TypeOK
      <3>3. rowOf[i] # size - 1 /\ rowOf[i] # row
        BY <2>1, <2>3, <3>1
      <3>4. rowOf[i] \in LiveRows' /\ Source(row, rowOf[i]) = rowOf[i]
        BY <3>1, <3>2, <3>3, Numbers DEF Source
      <3>5. QED
        BY <3>1, <3>4, Numbers
    <2>4. QED
      BY <2>2, <2>3
  <1>5. \A r \in Rows \ LiveRows' : identity'[r] = None /\ cameraCode'[r] = NO_CAMERA
    <2>1. \A r \in Rows \ LiveRows' : r = size - 1 \/ r \in Rows \ LiveRows
      BY Numbers
    <2>2. QED
      BY <2>1 DEF Placed
  <1>6. \A i \in Identities : rowOf'[i] = None => latest'[i] = Never
    <2>1. latest' = [latest EXCEPT ![identity[row]] = Never] /\ DOMAIN latest = Identities
      BY DEF Drop, Forgotten, TypeOK
    <2>2. row # None
      BY NoneAssumption, Numbers
    <2>3. QED
      BY <1>2, <2>1, <2>2 DEF Placed
  <1>7. QED
    BY <1>1, <1>3, <1>4, <1>5, <1>6 DEF Placed

LEMMA InitIInv == Init => IInv
  <1> SUFFICES ASSUME Init PROVE IInv
    OBVIOUS
  <1>1. 0 \in 0 .. Capacity /\ NO_CAMERA \in Codes /\ NO_CAMERA < 0 /\ MaxCameras \in Nat
    BY CentroidAssumption, MaxCamerasAssumption DEF NO_CAMERA, Codes
  <1>2. names \in Seq(Cameras) /\ Len(names) = 0 /\ DOMAIN names = {}
    BY DEF Init
  <1>3. LiveRows = {}
    BY DEF Init, LiveRows
  <1>4. TypeOK
    BY <1>1, <1>2 DEF Init, TypeOK, NoStamp, NoScores, Threads
  <1>5. CodesMeaningful /\ StampsBehind
    BY <1>1, <1>2 DEF Init, CodesMeaningful, StampsBehind, NoStamp
  <1>6. Placed /\ RowsTrue
    BY <1>3 DEF Init, Placed, RowsTrue
  <1>7. HolderConsistent /\ TopFromSnapshot
    BY DEF Init, HolderConsistent, TopFromSnapshot, Threads
  <1>8. SnapshotsTrue
    BY DEF Init, SnapshotsTrue, SnapshotRows, NoStamp
  <1>9. QED
    BY <1>4, <1>5, <1>6, <1>7, <1>8 DEF IInv, StoreInv

(* Stamps are given once.                                                    *)
LEMMA StampsStep == StoreInv /\ Next => StampsBehind' /\ nextOccupant <= nextOccupant'
  <1> SUFFICES ASSUME StoreInv, Next PROVE StampsBehind' /\ nextOccupant <= nextOccupant'
    OBVIOUS
  <1> USE DEF StoreInv
  <1>1. occupant \in [Rows -> Nat] /\ nextOccupant \in Nat
    BY DEF TypeOK
  <1>2. ASSUME NEW row \in Rows, nextOccupant' = nextOccupant + 1,
               occupant' = [occupant EXCEPT ![row] = nextOccupant]
        PROVE  StampsBehind' /\ nextOccupant <= nextOccupant'
    BY <1>1, <1>2 DEF StampsBehind
  <1>3. CASE UNCHANGED <<occupant, nextOccupant>>
    BY <1>1, <1>3 DEF StampsBehind
  <1>4. ASSUME NEW row \in LiveRows, Drop(row)
        PROVE  StampsBehind' /\ nextOccupant <= nextOccupant'
    <2>1. row \in Rows
      BY Numbers
    <2>2. QED
      BY <1>2, <1>3, <1>4, <2>1 DEF Drop
  <1>5. ASSUME NEW t \in Writers, NEW i \in Identities, RemoveIdentity(t, i)
        PROVE  StampsBehind' /\ nextOccupant <= nextOccupant'
    <2>1. PICK row : row = rowOf[i]
      OBVIOUS
    <2>2. row \in LiveRows /\ Drop(row)
      BY <1>5, <2>1, Numbers DEF RemoveIdentity, Placed, TypeOK
    <2>3. QED
      BY <1>4, <2>2
  <1>6. ASSUME NEW t \in Writers, ClaimRow(t)
        PROVE  StampsBehind' /\ nextOccupant <= nextOccupant'
    <2>1. size \in Rows
      BY <1>6, Numbers DEF ClaimRow, Rows
    <2>2. QED
      BY <1>2, <1>6, <2>1 DEF ClaimRow
  <1>7. QED
    BY <1>3, <1>4, <1>5, <1>6
       DEF Next, Add, EvictOldest, LeastRecent, Fold, FoldRefused, Record, Clear, QueryEmpty,
           Snapshot, Product, Rank, ReadBack, gallery, columns

(* The row the observation is on its way into.                               *)
LEMMA FoldedRow ==
    ASSUME StoreInv, NEW t \in Writers, pc[t] \in {"folding", "recording"}
    PROVE  /\ rowOf[adding.identity] \in LiveRows
           /\ identity[rowOf[adding.identity]] = adding.identity
           /\ adding.identity \in Identities
  <1>1. /\ adding.identity \in Identities /\ rowOf[adding.identity] # None
    BY HolderAlone DEF StoreInv, HolderConsistent, Threads
  <1>2. QED
    BY <1>1, Numbers DEF StoreInv, Placed, TypeOK

(* The map and the columns stay inverse, the codes in the table.             *)
LEMMA PlacedStep == StoreInv /\ Next => Placed' /\ CodesMeaningful'
  <1> SUFFICES ASSUME StoreInv, Next PROVE Placed' /\ CodesMeaningful'
    OBVIOUS
  <1> USE DEF StoreInv
  <1>1. CASE UNCHANGED <<size, identity, rowOf, latest, cameraCode, names>>
    BY <1>1 DEF Placed, CodesMeaningful, LiveRows
  <1>2. ASSUME NEW t \in Writers, NEW e \in Embedding, Add(t, e)
        PROVE  Placed' /\ CodesMeaningful'
    <2>1. Placed'
      BY <1>2 DEF Add, Placed, LiveRows, columns, history
    <2>2. /\ \A i, j \in DOMAIN names' : names'[i] = names'[j] => i = j
          /\ Len(names) <= Len(names') /\ Len(names) \in Nat /\ Len(names') \in Nat
      BY <1>2, NamesGrow DEF Add, Embedding
    <2>3. ASSUME NEW r \in Rows
          PROVE  cameraCode'[r] < Len(names')
      <3>1. cameraCode'[r] = cameraCode[r] /\ cameraCode[r] \in Int /\ cameraCode[r] < Len(names)
        BY <1>2, Numbers DEF Add, columns, CodesMeaningful, Codes
      <3>2. QED
        BY <2>2, <3>1
    <2>4. QED
      BY <2>1, <2>2, <2>3 DEF CodesMeaningful
  <1>3. ASSUME NEW t \in Writers, EvictOldest(t)
        PROVE  Placed' /\ CodesMeaningful'
    BY <1>3, DropKeepsPlaced DEF EvictOldest, LeastRecent
  <1>4. ASSUME NEW t \in Writers, NEW i \in Identities, RemoveIdentity(t, i)
        PROVE  Placed' /\ CodesMeaningful'
    <2>1. PICK row : row = rowOf[i]
      OBVIOUS
    <2>2. row \in LiveRows /\ Drop(row) /\ names' = names
      BY <1>4, <2>1, Numbers DEF RemoveIdentity, Placed, TypeOK
    <2>3. QED
      BY <2>2, DropKeepsPlaced
  <1>5. ASSUME NEW t \in Writers, ClaimRow(t)
        PROVE  Placed' /\ CodesMeaningful'
    <2>1. PICK new : new = size
      OBVIOUS
    <2>2. /\ adding.identity \in Identities /\ rowOf[adding.identity] = None
          /\ new \in Rows \ LiveRows /\ LiveRows' = LiveRows \cup {new} /\ new # None
          /\ new \in Nat /\ size' = new + 1
      BY <1>5, <2>1, HolderAlone, Numbers, NoneAssumption
         DEF ClaimRow, Threads, Rows, HolderConsistent, LiveRows
    <2>3. /\ identity' = [identity EXCEPT ![new] = adding.identity]
          /\ rowOf' = [rowOf EXCEPT ![adding.identity] = new]
          /\ UNCHANGED <<cameraCode, names, latest>>
      BY <1>5, <2>1 DEF ClaimRow, history
    <2>4. identity \in [Rows -> Identities \cup {None}] /\ rowOf \in [Identities -> Rows \cup {None}]
      BY DEF TypeOK
    <2>5. CodesMeaningful'
      BY <2>3 DEF CodesMeaningful
    <2>6. ASSUME NEW r \in LiveRows'
          PROVE  identity'[r] \in Identities /\ rowOf'[identity'[r]] = r
      <3>1. CASE r = new
        BY <2>2, <2>3, <2>4, <3>1
      <3>2. CASE r \in LiveRows
        <4>1. r \in Rows /\ r # new /\ identity[r] \in Identities /\ rowOf[identity[r]] = r
          BY <2>2, <3>2, Numbers DEF Placed
        <4>2. identity'[r] = identity[r] /\ r # None
          BY <2>3, <2>4, <4>1, Numbers, NoneAssumption
        <4>3. identity[r] # adding.identity
          BY <2>2, <4>1, <4>2
        <4>4. QED
          BY <2>3, <2>4, <4>1, <4>2, <4>3
      <3>3. QED
        BY <2>2, <3>1, <3>2
    <2>7. ASSUME NEW i \in Identities, rowOf'[i] # None
          PROVE  rowOf'[i] < size' /\ identity'[rowOf'[i]] = i
      <3>1. CASE i = adding.identity
        BY <2>2, <2>3, <2>4, <3>1
      <3>2. CASE i # adding.identity
        <4>1. rowOf'[i] = rowOf[i] /\ rowOf[i] \in Rows /\ rowOf[i] < size /\ identity[rowOf[i]] = i
          BY <2>2, <2>3, <2>4, <2>7, <3>2 DEF Placed
        <4>2. PICK k \in Nat : k = rowOf[i] /\ k < new
          BY <2>1, <4>1 DEF Rows
        <4>3. identity'[rowOf[i]] = identity[rowOf[i]]
          BY <2>2, <2>3, <2>4, <4>1, <4>2
        <4>4. k < new + 1
          BY <2>2, <4>2
        <4>5. QED
          BY <2>2, <4>1, <4>2, <4>3, <4>4
      <3>3. QED
        BY <3>1, <3>2
    <2>8. \A r \in Rows \ LiveRows' : identity'[r] = None /\ cameraCode'[r] = NO_CAMERA
      BY <2>2, <2>3, <2>4 DEF Placed
    <2>9. \A i \in Identities : rowOf'[i] = None => latest'[i] = Never
      BY <2>2, <2>3, <2>4 DEF Placed
    <2>10. QED
      BY <2>5, <2>6, <2>7, <2>8, <2>9 DEF Placed
  <1>6. ASSUME NEW t \in Writers, Record(t)
        PROVE  Placed' /\ CodesMeaningful'
    <2>1. /\ adding.identity \in Identities /\ rowOf[adding.identity] # None
          /\ adding.code < Len(names)
      BY <1>6, HolderAlone DEF Record, Threads, HolderConsistent
    <2>2. Placed'
      <3>1. UNCHANGED <<size, identity, rowOf>> /\ LiveRows' = LiveRows
        BY <1>6 DEF Record, LiveRows
      <3>2. \A r \in Rows \ LiveRows : cameraCode'[r] = cameraCode[r]
        BY <1>6, FoldedRow DEF Record, TypeOK
      <3>3. \A i \in Identities : rowOf[i] = None => latest'[i] = latest[i]
        BY <1>6, <2>1 DEF Record, TypeOK
      <3>4. QED
        BY <3>1, <3>2, <3>3 DEF Placed
    <2>3. CodesMeaningful'
      BY <1>6, <2>1 DEF Record, CodesMeaningful, TypeOK
    <2>4. QED
      BY <2>2, <2>3
  <1>7. ASSUME NEW t \in Writers, Clear(t)
        PROVE  Placed' /\ CodesMeaningful'
    <2>1. LiveRows' = {} /\ Len(names') = 0 /\ DOMAIN names' = {}
      BY <1>7 DEF Clear, LiveRows
    <2>2. QED
      BY <1>7, <2>1 DEF Clear, Placed, CodesMeaningful, NO_CAMERA
  <1>8. QED
    BY <1>1, <1>2, <1>3, <1>4, <1>5, <1>6, <1>7
       DEF Next, Fold, FoldRefused, QueryEmpty, Snapshot, Product, Rank, ReadBack, gallery,
           columns, history

--------------------------------------------------------------------------------
(* What is in a row while nobody, or somebody, is inside add.                *)

(* A row whose identity nobody is adding is finished.                        *)
LEMMA RowFinished ==
    ASSUME HolderConsistent, RowsTrue, NEW r \in LiveRows, identity[r] \notin refused,
           \A t \in Threads : pc[t] \in {"folding", "recording"} =>
               adding.known \/ adding.identity # identity[r]
    PROVE  centroids[r] = {identity[r]} /\ latest[identity[r]] # Never
  BY DEF RowsTrue, BeingFilled

(* Different rows hold different identities.                                 *)
LEMMA RowsDiffer ==
    ASSUME Placed, NEW r \in LiveRows, NEW o \in LiveRows, r # o
    PROVE  identity[r] # identity[o]
  BY DEF Placed

LEMMA RowsTrueStep == StoreInv /\ Next => RowsTrue'
  <1> SUFFICES ASSUME StoreInv, Next PROVE RowsTrue'
    OBVIOUS
  <1> USE DEF StoreInv
  <1> DEFINE busy == {"folding", "recording"}
  <1>1. ASSUME UNCHANGED <<size, identity, centroids, cameraCode, sequence, latest, names,
                           refused, adding>>,
               \A t \in Threads : pc'[t] = pc[t] \/ pc[t] \notin busy
        PROVE  RowsTrue'
    <2>1. ASSUME NEW r \in LiveRows, NEW states \in SUBSET busy, BeingFilled(r, states)
          PROVE  BeingFilled(r, states)'
      BY <1>1, <2>1 DEF BeingFilled
    <2>2. ASSUME NEW r \in LiveRows
          PROVE  Recorded(r)'
      BY <1>1, <2>2 DEF RowsTrue, Recorded, NameFor
    <2>3. QED
      BY <1>1, <2>1, <2>2 DEF RowsTrue, LiveRows
  <1>2. ASSUME NEW t \in Writers, NEW e \in Embedding, Add(t, e)
        PROVE  RowsTrue'
    <2>1. ASSUME NEW r \in LiveRows
          PROVE  NameFor(cameraCode[r])' = NameFor(cameraCode[r])
      <3>1. PICK code : code = cameraCode[r]
        OBVIOUS
      <3>2. code \in Codes /\ code < Len(names) /\ cameraCode'[r] = code
        BY <1>2, <3>1, Numbers DEF CodesMeaningful, Add, columns
      <3>3. NameFor(code)' = NameFor(code)
        BY <1>2, <3>2, AddKeepsNames
      <3>4. QED
        BY <3>1, <3>2, <3>3 DEF NameFor
    <2>2. lock = None
      BY <1>2 DEF Add, Idle
    <2>3. ASSUME NEW r \in LiveRows, identity[r] \notin refused
          PROVE  centroids[r] = {identity[r]} /\ latest[identity[r]] # Never
      BY <2>2, <2>3, NobodyInside, RowFinished
    <2>4. QED
      BY <1>2, <2>1, <2>3 DEF Add, RowsTrue, Recorded, LiveRows, columns, history
  <1>3. ASSUME NEW row \in LiveRows, Drop(row), UNCHANGED <<names, adding, pc>>
        PROVE  RowsTrue'
    <2>1. ASSUME NEW r \in LiveRows'
          PROVE  LET from == Source(row, r) IN
                 /\ from \in LiveRows /\ identity'[r] = identity[from]
                 /\ centroids'[r] = centroids[from] /\ cameraCode'[r] = cameraCode[from]
                 /\ sequence'[r] = sequence[from]
                 /\ latest'[identity[from]] = latest[identity[from]]
                 /\ identity[from] \notin refused' => identity[from] \notin refused
      <3>1. PICK from : from = Source(row, r)
        OBVIOUS
      <3>2. /\ from \in LiveRows /\ from # row /\ identity'[r] = identity[from]
            /\ centroids'[r] = centroids[from] /\ cameraCode'[r] = cameraCode[from]
            /\ sequence'[r] = sequence[from]
        BY <1>3, <3>1, DropShape
      <3>3. identity[from] # identity[row] /\ identity[from] \in Identities
        BY <3>2, RowsDiffer DEF Placed
      <3>4. /\ latest' = [latest EXCEPT ![identity[row]] = Never] /\ DOMAIN latest = Identities
            /\ refused' = refused \ {identity[row]}
        BY <1>3 DEF Drop, Forgotten, TypeOK
      <3>5. QED
        BY <3>1, <3>2, <3>3, <3>4
    <2>2. ASSUME NEW r \in LiveRows', NEW states, BeingFilled(Source(row, r), states)
          PROVE  BeingFilled(r, states)'
      BY <1>3, <2>1, <2>2 DEF BeingFilled
    <2>3. ASSUME NEW r \in LiveRows'
          PROVE  Recorded(r)'
      BY <1>3, <2>1, <2>3 DEF RowsTrue, Recorded, NameFor
    <2>4. ASSUME NEW r \in LiveRows', identity'[r] \notin refused'
          PROVE  /\ centroids'[r] = {identity'[r]} \/ BeingFilled(r, {"folding"})'
                 /\ latest'[identity'[r]] # Never \/ BeingFilled(r, {"folding", "recording"})'
      BY <2>1, <2>2, <2>4 DEF RowsTrue
    <2>5. QED
      BY <1>3, <2>3, <2>4 DEF RowsTrue
  <1>4. ASSUME NEW t \in Writers, EvictOldest(t)
        PROVE  RowsTrue'
    BY <1>3, <1>4 DEF EvictOldest, LeastRecent, writing
  <1>5. ASSUME NEW t \in Writers, NEW i \in Identities, RemoveIdentity(t, i)
        PROVE  RowsTrue'
    <2>1. PICK row : row = rowOf[i]
      OBVIOUS
    <2>2. row \in LiveRows /\ Drop(row) /\ UNCHANGED <<names, adding, pc>>
      BY <1>5, <2>1, Numbers DEF RemoveIdentity, Placed, TypeOK, writing
    <2>3. QED
      BY <1>3, <2>2
  <1>6. ASSUME NEW t \in Writers, ClaimRow(t)
        PROVE  RowsTrue'
    <2>1. PICK new : new = size
      OBVIOUS
    <2>2. /\ t \in Threads /\ adding.identity \in Identities /\ ~adding.known
          /\ rowOf[adding.identity] = None /\ latest[adding.identity] = Never
          /\ \A u \in Threads : pc[u] \notin busy
      BY <1>6, HolderAlone DEF ClaimRow, Threads, HolderConsistent, Placed
    <2>3. /\ new \in Rows \ LiveRows /\ LiveRows' = LiveRows \cup {new}
          /\ identity' = [identity EXCEPT ![new] = adding.identity]
          /\ pc' = [pc EXCEPT ![t] = "folding"]
          /\ UNCHANGED <<centroids, cameraCode, sequence, names, adding, refused, latest>>
      BY <1>6, <2>1, Numbers DEF ClaimRow, writing, history, LiveRows, Rows
    <2>4. /\ \A r \in LiveRows : identity'[r] = identity[r]
          /\ identity'[new] = adding.identity /\ pc'[t] = "folding"
      BY <2>2, <2>3, Numbers DEF TypeOK
    <2>5. BeingFilled(new, {"folding"})' /\ BeingFilled(new, {"folding", "recording"})'
      BY <2>2, <2>3, <2>4 DEF BeingFilled
    <2>6. ASSUME NEW r \in LiveRows, identity[r] \notin refused
          PROVE  centroids[r] = {identity[r]} /\ latest[identity[r]] # Never
      BY <2>2, <2>6, RowFinished
    <2>7. ASSUME NEW r \in LiveRows
          PROVE  Recorded(r)'
      BY <2>3, <2>7 DEF RowsTrue, Recorded, NameFor
    <2>8. Recorded(new)'
      <3>1. cameraCode'[new] = NO_CAMERA /\ latest'[identity'[new]] = Never
        BY <2>2, <2>3, <2>4 DEF Placed
      <3>2. QED
        BY <3>1 DEF Recorded, NameFor, Never
    <2>9. QED
      BY <2>2, <2>3, <2>4, <2>5, <2>6, <2>7, <2>8 DEF RowsTrue
  <1>7. ASSUME NEW t \in Writers, Fold(t)
        PROVE  RowsTrue'
    <2>1. PICK row : row = rowOf[adding.identity]
      OBVIOUS
    <2>2. /\ t \in Threads /\ row \in LiveRows /\ row \in Rows /\ identity[row] = adding.identity
          /\ pc[t] = "folding" /\ \A u \in Threads : pc[u] \in busy => u = t
      BY <1>7, <2>1, FoldedRow, HolderAlone, Numbers DEF Fold, Threads
    <2>3. /\ centroids' = [centroids EXCEPT ![row] = Folded]
          /\ pc' = [pc EXCEPT ![t] = "recording"]
          /\ UNCHANGED <<size, identity, cameraCode, sequence, names, adding, refused,
                         latest>>
      BY <1>7, <2>1 DEF Fold, writing, history
    <2>4. ASSUME NEW r \in LiveRows
          PROVE  Recorded(r)'
      BY <2>3, <2>4 DEF RowsTrue, Recorded, NameFor
    <2>5. ASSUME NEW r \in LiveRows, identity[r] \notin refused
          PROVE  /\ centroids'[r] = {identity[r]}
                 /\ latest[identity[r]] # Never \/ BeingFilled(r, {"folding", "recording"})'
      <3>1. CASE r # row
        <4>1. centroids[r] = {identity[r]} /\ latest[identity[r]] # Never
          BY <2>2, <2>5, <3>1, RowsDiffer, RowFinished
        <4>2. QED
          BY <2>2, <2>3, <3>1, <4>1, Numbers DEF TypeOK
      <3>2. CASE r = row /\ adding.known
        <4>1. centroids[r] = {identity[r]} /\ latest[identity[r]] # Never
          BY <2>2, <2>5, <3>2, RowFinished
        <4>2. Folded = {identity[r]}
          BY <2>1, <2>2, <3>2, <4>1 DEF Folded
        <4>3. QED
          BY <2>2, <2>3, <3>2, <4>1, <4>2 DEF TypeOK
      <3>3. CASE r = row /\ ~adding.known
        <4>1. centroids'[r] = {identity[r]} /\ pc'[t] = "recording"
          BY <2>2, <2>3, <3>3 DEF Folded, TypeOK
        <4>2. BeingFilled(r, {"folding", "recording"})'
          BY <2>2, <2>3, <3>3, <4>1 DEF BeingFilled
        <4>3. QED
          BY <4>1, <4>2
      <3>4. QED
        BY <3>1, <3>2, <3>3
    <2>6. QED
      BY <2>3, <2>4, <2>5 DEF RowsTrue, LiveRows
  <1>8. ASSUME NEW t \in Writers, FoldRefused(t)
        PROVE  RowsTrue'
    <2>1. /\ t \in Threads /\ pc[t] = "folding" /\ refused \subseteq refused'
          /\ ~adding.known => adding.identity \in refused'
          /\ UNCHANGED <<size, columns, names, latest>>
      BY <1>8 DEF FoldRefused, Threads
    <2>2. \A u \in Threads : pc[u] \in busy => u = t
      BY <2>1, HolderAlone
    <2>3. ASSUME NEW r \in LiveRows, identity[r] \notin refused'
          PROVE  centroids[r] = {identity[r]} /\ latest[identity[r]] # Never
      BY <2>1, <2>2, <2>3, RowFinished
    <2>4. ASSUME NEW r \in LiveRows
          PROVE  Recorded(r)'
      BY <2>1, <2>4 DEF RowsTrue, Recorded, NameFor, columns
    <2>5. QED
      BY <2>1, <2>3, <2>4 DEF RowsTrue, LiveRows, columns
  <1>9. ASSUME NEW t \in Writers, Record(t)
        PROVE  RowsTrue'
    <2>1. PICK row : row = rowOf[adding.identity]
      OBVIOUS
    <2>2. /\ t \in Threads /\ row \in LiveRows /\ row \in Rows /\ identity[row] = adding.identity
          /\ adding.identity \in Identities
          /\ pc[t] = "recording" /\ \A u \in Threads : pc[u] \in busy => u = t
          /\ NameFor(adding.code) = adding.camera /\ nextSequence \in Nat
      BY <1>9, <2>1, FoldedRow, HolderAlone, Numbers DEF Record, Threads
    <2>3. /\ cameraCode' = [cameraCode EXCEPT ![row] = adding.code]
          /\ sequence' = [sequence EXCEPT ![row] = nextSequence]
          /\ latest' = [latest EXCEPT ![adding.identity] =
                           [sequence |-> nextSequence, camera |-> adding.camera]]
          /\ UNCHANGED <<size, identity, centroids, names, refused>>
      BY <1>9, <2>1 DEF Record
    <2>4. /\ cameraCode \in [Rows -> Codes] /\ sequence \in [Rows -> Nat]
          /\ DOMAIN latest = Identities
      BY DEF TypeOK
    <2>5. ASSUME NEW r \in LiveRows, r # row
          PROVE  /\ r \in Rows /\ identity[r] # adding.identity
                 /\ latest'[identity[r]] = latest[identity[r]]
                 /\ sequence'[r] = sequence[r] /\ cameraCode'[r] = cameraCode[r]
      BY <2>2, <2>3, <2>4, <2>5, RowsDiffer, Numbers DEF Placed
    <2>6. ASSUME NEW r \in LiveRows
          PROVE  Recorded(r)'
      <3>1. CASE r = row
        BY <2>2, <2>3, <2>4, <3>1 DEF Recorded, NameFor
      <3>2. CASE r # row
        BY <2>3, <2>5, <2>6, <3>2 DEF RowsTrue, Recorded, NameFor
      <3>3. QED
        BY <3>1, <3>2
    <2>7. ASSUME NEW r \in LiveRows, identity[r] \notin refused
          PROVE  centroids[r] = {identity[r]} /\ latest'[identity[r]] # Never
      <3>1. CASE r = row
        <4>1. centroids[r] = {identity[r]}
          BY <2>2, <2>7 DEF RowsTrue, BeingFilled
        <4>2. latest'[identity[r]].sequence # Never.sequence
          BY <2>2, <2>3, <2>4, <3>1 DEF Never
        <4>3. QED
          BY <4>1, <4>2
      <3>2. CASE r # row
        BY <2>2, <2>5, <2>7, <3>2, RowFinished
      <3>3. QED
        BY <3>1, <3>2
    <2>8. QED
      BY <2>3, <2>6, <2>7 DEF RowsTrue, LiveRows
  <1>10. ASSUME NEW t \in Writers, Clear(t)
         PROVE  RowsTrue'
    BY <1>10 DEF Clear, RowsTrue, LiveRows
  <1>11. ASSUME NEW t \in Readers, NEW q \in Query, QueryEmpty(t, q) \/ Snapshot(t, q)
         PROVE  RowsTrue'
    BY <1>1, <1>11 DEF QueryEmpty, Snapshot, Idle, gallery, columns, writing, history, TypeOK
  <1>12. ASSUME NEW t \in Readers, Product(t) \/ Rank(t) \/ ReadBack(t)
         PROVE  RowsTrue'
    BY <1>1, <1>12 DEF Product, Rank, ReadBack, gallery, columns, writing, history, TypeOK
  <1>13. QED
    BY <1>2, <1>4, <1>5, <1>6, <1>7, <1>8, <1>9, <1>10, <1>11, <1>12 DEF Next

--------------------------------------------------------------------------------
(* Who is inside add.                                                        *)
LEMMA HolderStep == StoreInv /\ Next => HolderConsistent'
  <1> SUFFICES ASSUME StoreInv, Next PROVE HolderConsistent'
    OBVIOUS
  <1> USE DEF StoreInv
  <1> DEFINE inside == {"room", "folding", "recording"}
  <1>1. ASSUME \A t \in Threads : pc'[t] \notin inside
        PROVE  HolderConsistent'
    BY <1>1 DEF HolderConsistent
  <1>2. ASSUME UNCHANGED <<lock, adding, names, rowOf>>,
               \A t \in Threads : pc'[t] \in inside => pc'[t] = pc[t]
        PROVE  HolderConsistent'
    BY <1>2 DEF HolderConsistent, NameFor
  <1>3. ASSUME NEW t \in Writers, NEW e \in Embedding, Add(t, e)
        PROVE  HolderConsistent'
    <2>1. /\ CodeFor(e.camera) \in Codes /\ CodeFor(e.camera) < Len(names')
          /\ IF CodeFor(e.camera) = NO_CAMERA THEN e.camera = None
                                              ELSE names'[CodeFor(e.camera) + 1] = e.camera
      BY <1>3, NamesGrow DEF Add, Embedding
    <2>2. \A u \in Threads : pc'[u] \in inside => u = t
      BY <1>3, NobodyInside DEF Add, Idle, TypeOK
    <2>3. /\ adding' \in Added /\ adding'.code = CodeFor(e.camera)
          /\ adding'.camera = e.camera /\ adding'.identity = e.identity
          /\ adding'.known = (rowOf[e.identity] # None)
      BY <1>3, <2>1 DEF Add, Added, Embedding
    <2>4. NameFor(adding.code)' = adding'.camera
      BY <2>1, <2>3 DEF NameFor
    <2>5. /\ lock' = t /\ rowOf' = rowOf /\ t \in Threads
          /\ pc'[t] = IF rowOf[e.identity] # None THEN "folding" ELSE "room"
      BY <1>3 DEF Add, Threads, TypeOK
    <2>6. QED
      BY <2>1, <2>2, <2>3, <2>4, <2>5 DEF HolderConsistent
  <1>4. ASSUME NEW t \in Writers, EvictOldest(t)
        PROVE  HolderConsistent'
    <2>1. PICK row \in LiveRows : Drop(row)
      BY <1>4 DEF EvictOldest, LeastRecent
    <2>2. /\ t \in Threads /\ pc[t] = "room" /\ rowOf[adding.identity] = None
          /\ \A u \in Threads : pc[u] \in inside => u = t
          /\ UNCHANGED <<pc, lock, adding, names>>
      BY <1>4, HolderAlone DEF EvictOldest, Threads, HolderConsistent, writing
    <2>3. adding.identity \in Identities
      BY <2>2, HolderAlone
    <2>4. size - 1 \in LiveRows /\ size - 1 # None
      BY <2>1, DropShape, Numbers, NoneAssumption DEF LiveRows
    <2>5. identity[size - 1] # adding.identity
      BY <2>2, <2>4 DEF Placed
    <2>6. rowOf'[adding.identity] = None
      BY <2>1, <2>2, <2>3, <2>5 DEF Drop
    <2>7. QED
      BY <2>2, <2>6 DEF HolderConsistent, NameFor
  <1>5. ASSUME NEW t \in Writers, NEW i \in Identities, RemoveIdentity(t, i)
        PROVE  HolderConsistent'
    BY <1>1, <1>5, NobodyInside DEF RemoveIdentity, Idle
  <1>6. ASSUME NEW t \in Writers, ClaimRow(t)
        PROVE  HolderConsistent'
    <2>1. /\ t \in Threads /\ pc[t] = "room" /\ adding.identity \in Identities
          /\ \A u \in Threads : pc[u] \in inside => u = t
          /\ UNCHANGED <<lock, adding, names>> /\ pc' = [pc EXCEPT ![t] = "folding"]
      BY <1>6, HolderAlone DEF ClaimRow, Threads, writing
    <2>2. rowOf'[adding.identity] # None
      BY <1>6, <2>1, Numbers, NoneAssumption DEF ClaimRow, TypeOK
    <2>3. \A u \in Threads : pc'[u] \in inside => u = t
      BY <2>1 DEF TypeOK
    <2>4. pc'[t] = "folding"
      BY <2>1 DEF TypeOK
    <2>5. QED
      BY <2>1, <2>2, <2>3, <2>4 DEF HolderConsistent, NameFor
  <1>7. ASSUME NEW t \in Writers, Fold(t)
        PROVE  HolderConsistent'
    <2>1. /\ t \in Threads /\ pc[t] = "folding"
          /\ UNCHANGED <<lock, adding, names, rowOf>> /\ pc' = [pc EXCEPT ![t] = "recording"]
      BY <1>7 DEF Fold, Threads, writing
    <2>2. \A u \in Threads : u # t => pc'[u] = pc[u]
      BY <2>1 DEF TypeOK
    <2>3. pc'[t] = "recording"
      BY <2>1 DEF TypeOK
    <2>4. QED
      BY <2>1, <2>2, <2>3 DEF HolderConsistent, NameFor
  <1>8. ASSUME NEW t \in Writers, FoldRefused(t) \/ Record(t)
        PROVE  HolderConsistent'
    <2>1. t \in Threads /\ pc[t] \in inside /\ pc' = [pc EXCEPT ![t] = "idle"]
      BY <1>8 DEF FoldRefused, Record, Threads
    <2>2. \A u \in Threads : pc[u] \in inside => u = t
      BY <2>1, HolderAlone
    <2>3. QED
      BY <1>1, <2>1, <2>2 DEF TypeOK
  <1>9. ASSUME NEW t \in Writers, Clear(t)
        PROVE  HolderConsistent'
    BY <1>1, <1>9, NobodyInside DEF Clear, Idle
  <1>10. ASSUME NEW t \in Readers, NEW q \in Query, QueryEmpty(t, q) \/ Snapshot(t, q)
         PROVE  HolderConsistent'
    BY <1>2, <1>10 DEF QueryEmpty, Snapshot, gallery, writing, TypeOK
  <1>11. ASSUME NEW t \in Readers, Product(t) \/ Rank(t) \/ ReadBack(t)
         PROVE  HolderConsistent'
    BY <1>2, <1>11 DEF Product, Rank, ReadBack, gallery, writing, TypeOK
  <1>12. QED
    BY <1>3, <1>4, <1>5, <1>6, <1>7, <1>8, <1>9, <1>10, <1>11 DEF Next

LEMMA StoreStep == StoreInv /\ Next => StoreInv'
  BY TypeStep, StampsStep, PlacedStep, RowsTrueStep, HolderStep DEF StoreInv

--------------------------------------------------------------------------------
(* The queries in flight.                                                    *)

(* What no step but the reader's own changes of its query.                   *)
OwnQuery(t) == <<asked[t], stamps[t], exclude[t], scores[t], knew[t]>>

Querying == {"product", "ranking", "readback"}

(* A row nobody moved or wrote stays as the snapshot has it.                 *)
LEMMA RowUntouched ==
    ASSUME StoreInv, NEW t \in Readers, NEW r \in Rows, RowOfSnapshot(t, r),
           nextOccupant' \in Nat, nextOccupant <= nextOccupant',
           UNCHANGED OwnQuery(t),
           pc'[t] \in Querying => pc'[t] = pc[t],
           SameOccupant(t, r)' =>
               /\ SameOccupant(t, r) /\ identity'[r] = identity[r]
               /\ inRow'[t][r] = inRow[t][r] /\ names' = names
               /\ identity[r] \notin refused' => identity[r] \notin refused
    PROVE  RowOfSnapshot(t, r)'
  <1>1. stamps[t][r] \in Nat /\ stamps'[t][r] = stamps[t][r] /\ nextOccupant \in Nat
    BY DEF StoreInv, TypeOK, OwnQuery
  <1>2. stamps'[t][r] < nextOccupant'
    BY <1>1 DEF RowOfSnapshot
  <1>3. ASSUME SameOccupant(t, r)'
        PROVE  /\ knew'[t] => /\ exclude'[t] \in 0 .. Len(names') - 1
                              /\ names'[exclude'[t] + 1] = asked'[t].exclude_camera
               /\ identity'[r] \notin refused' =>
                      /\ pc'[t] = "product" => inRow'[t][r] = {identity'[r]}
                      /\ pc'[t] \in {"ranking", "readback"} => scores'[t][r] = {identity'[r]}
    BY <1>3 DEF RowOfSnapshot, OwnQuery, Querying
  <1>4. QED
    BY <1>2, <1>3 DEF RowOfSnapshot

LEMMA SnapshotsStep == IInv /\ Next => SnapshotsTrue'
  <1> SUFFICES ASSUME IInv, Next PROVE SnapshotsTrue'
    OBVIOUS
  <1> USE DEF IInv
  <1>1. StoreInv /\ StoreInv' /\ nextOccupant <= nextOccupant' /\ nextOccupant' \in Nat
    BY StoreStep, StampsStep DEF StoreInv, TypeOK
  (* A step of another thread, or of one that leaves the query alone.        *)
  <1>2. ASSUME NEW u \in Readers, UNCHANGED OwnQuery(u),
               pc'[u] \in Querying => pc'[u] = pc[u],
               \A r \in SnapshotRows(u) : SameOccupant(u, r)' =>
                   /\ SameOccupant(u, r) /\ identity'[r] = identity[r]
                   /\ inRow'[u][r] = inRow[u][r] /\ names' = names
                   /\ identity[r] \notin refused' => identity[r] \notin refused
        PROVE  \A r \in SnapshotRows(u)' : RowOfSnapshot(u, r)'
    <2>1. SnapshotRows(u)' = SnapshotRows(u) /\ SnapshotRows(u) \subseteq Rows
      BY <1>2 DEF SnapshotRows, OwnQuery
    <2>2. QED
      BY <1>1, <1>2, <2>1, RowUntouched DEF SnapshotsTrue
  <1>3. ASSUME NEW u \in Readers, UNCHANGED OwnQuery(u),
               UNCHANGED <<size, occupant, identity, names>>, inRow'[u] = inRow[u],
               refused \subseteq refused',
               pc'[u] \in Querying => pc'[u] = pc[u]
        PROVE  \A r \in SnapshotRows(u)' : RowOfSnapshot(u, r)'
    BY <1>2, <1>3 DEF SameOccupant, OwnQuery
  <1>4. ASSUME NEW t \in Writers, NEW e \in Embedding, Add(t, e)
        PROVE  SnapshotsTrue'
    <2>1. /\ Len(names) <= Len(names') /\ Len(names) \in Nat /\ Len(names') \in Nat
          /\ \A i \in 1 .. Len(names) : names'[i] = names[i]
      BY <1>1, <1>4, NamesGrow DEF StoreInv, Add, Embedding
    <2>2. ASSUME NEW u \in Readers, NEW r \in SnapshotRows(u)'
          PROVE  RowOfSnapshot(u, r)'
      <3>1. /\ UNCHANGED <<size, identity, occupant, nextOccupant, refused, inRow>>
            /\ UNCHANGED <<asked, stamps, exclude, scores, knew>>
        BY <1>4 DEF Add, columns, query, history
      <3>2. r \in SnapshotRows(u) /\ RowOfSnapshot(u, r)
        BY <3>1 DEF SnapshotRows, SnapshotsTrue
      <3>3. pc'[u] \in Querying => pc'[u] = pc[u]
        BY <1>1, <1>4 DEF Add, Querying, StoreInv, TypeOK, Threads
      <3>4. ASSUME SameOccupant(u, r), knew[u]
            PROVE  /\ exclude[u] \in 0 .. Len(names') - 1
                   /\ names'[exclude[u] + 1] = asked[u].exclude_camera
        BY <2>1, <3>2, <3>4 DEF RowOfSnapshot
      <3>5. QED
        BY <3>1, <3>2, <3>3, <3>4 DEF RowOfSnapshot, SameOccupant, Querying
    <2>3. QED
      BY <2>2 DEF SnapshotsTrue
  <1>5. ASSUME NEW row \in LiveRows, Drop(row), UNCHANGED <<names, query, pc>>
        PROVE  SnapshotsTrue'
    <2>1. /\ row \in Rows /\ size \in Nat /\ size' = size - 1
          /\ \A r \in LiveRows' : r # row => /\ identity'[r] = identity[r]
                                             /\ Source(row, r) = r
      BY <1>1, <1>5, DropShape, Numbers DEF StoreInv, Source
    <2>2. ASSUME NEW u \in Readers, NEW r \in SnapshotRows(u), SameOccupant(u, r)'
          PROVE  /\ SameOccupant(u, r) /\ identity'[r] = identity[r]
                 /\ inRow'[u][r] = inRow[u][r]
                 /\ identity[r] \notin refused' => identity[r] \notin refused
      <3>1. /\ r \in Rows /\ r \in Nat /\ stamps[u][r] \in Nat /\ stamps'[u][r] = stamps[u][r]
            /\ stamps[u][r] < nextOccupant /\ r < size - 1 /\ occupant'[r] = stamps[u][r]
        BY <1>1, <1>5, <2>1, <2>2, SnapshotRowType, Numbers
           DEF StoreInv, SnapshotsTrue, RowOfSnapshot, SameOccupant, query
      <3>2. r # row
        <4>1. CASE row = size - 1
          BY <3>1, <4>1
        <4>2. CASE row # size - 1
          <5>1. occupant'[row] = nextOccupant
            BY <1>1, <1>5, <2>1, <4>2 DEF Drop, StoreInv, TypeOK
          <5>2. QED
            BY <1>1, <3>1, <5>1, Numbers DEF StoreInv
        <4>3. QED
          BY <4>1, <4>2
      <3>3. occupant'[r] = occupant[r] /\ inRow'[u][r] = inRow[u][r]
        <4>1. occupant'[r] = occupant[r]
          BY <1>1, <1>5, <2>1, <3>1, <3>2 DEF Drop, StoreInv, TypeOK
        <4>2. inRow' = inRow \/ Scribble(row, centroids[size - 1])
          BY <1>5 DEF Drop
        <4>3. inRow[u] \in [Rows -> SUBSET Identities]
          BY <1>1 DEF StoreInv, TypeOK
        <4>4. QED
          BY <3>1, <3>2, <4>1, <4>2, <4>3 DEF Scribble
      <3>4. r \in LiveRows' /\ r < size
        BY <2>1, <3>1 DEF LiveRows
      <3>5. refused' = refused \ {identity[row]} /\ identity[r] # identity[row]
        <4>1. r \in LiveRows
          BY <1>1, <3>1, <3>4, Numbers DEF StoreInv
        <4>2. QED
          BY <1>1, <1>5, <3>2, <4>1, RowsDiffer DEF Drop, Forgotten, StoreInv
      <3>6. QED
        BY <2>1, <3>1, <3>2, <3>3, <3>4, <3>5 DEF SameOccupant
    <2>3. ASSUME NEW u \in Readers
          PROVE  UNCHANGED OwnQuery(u) /\ pc'[u] = pc[u]
      BY <1>5 DEF OwnQuery, query
    <2>4. QED
      BY <1>2, <1>5, <2>2, <2>3 DEF SnapshotsTrue
  <1>6. ASSUME NEW t \in Writers, EvictOldest(t)
        PROVE  SnapshotsTrue'
    BY <1>5, <1>6 DEF EvictOldest, LeastRecent, writing
  <1>7. ASSUME NEW t \in Writers, NEW i \in Identities, RemoveIdentity(t, i)
        PROVE  SnapshotsTrue'
    <2>1. PICK row : row = rowOf[i]
      OBVIOUS
    <2>2. row \in LiveRows /\ Drop(row) /\ UNCHANGED <<names, query, pc>>
      BY <1>1, <1>7, <2>1, Numbers DEF RemoveIdentity, StoreInv, Placed, TypeOK, writing
    <2>3. QED
      BY <1>5, <2>2
  <1>8. ASSUME NEW t \in Writers, ClaimRow(t)
        PROVE  SnapshotsTrue'
    <2>1. PICK new : new = size
      OBVIOUS
    <2>2. /\ new \in Rows /\ new \in Nat /\ size' = new + 1
          /\ identity' = [identity EXCEPT ![new] = adding.identity]
          /\ occupant' = [occupant EXCEPT ![new] = nextOccupant]
          /\ UNCHANGED <<names, refused, query, inRow>>
      BY <1>1, <1>8, <2>1, Numbers DEF ClaimRow, StoreInv, Rows, writing, history
    <2>3. ASSUME NEW u \in Readers, NEW r \in SnapshotRows(u), SameOccupant(u, r)'
          PROVE  SameOccupant(u, r) /\ identity'[r] = identity[r]
      <3>1. /\ r \in Rows /\ r \in Nat /\ stamps[u][r] \in Nat /\ stamps'[u][r] = stamps[u][r]
            /\ stamps[u][r] < nextOccupant /\ r < new + 1 /\ occupant'[r] = stamps[u][r]
        BY <1>1, <2>2, <2>3, SnapshotRowType, Numbers
           DEF StoreInv, SnapshotsTrue, RowOfSnapshot, SameOccupant, query
      <3>2. r # new
        BY <1>1, <2>2, <3>1, Numbers DEF StoreInv, TypeOK
      <3>3. occupant'[r] = occupant[r] /\ identity'[r] = identity[r]
        BY <1>1, <2>2, <3>1, <3>2 DEF StoreInv, TypeOK
      <3>4. r < new
        BY <2>2, <3>1, <3>2
      <3>5. QED
        BY <2>1, <3>1, <3>3, <3>4 DEF SameOccupant
    <2>4. ASSUME NEW u \in Readers
          PROVE  /\ UNCHANGED OwnQuery(u)
                 /\ pc'[u] \in Querying => pc'[u] = pc[u]
      BY <1>1, <1>8, <2>2 DEF ClaimRow, OwnQuery, query, Querying, StoreInv, TypeOK, Threads
    <2>5. QED
      BY <1>2, <2>2, <2>3, <2>4 DEF SnapshotsTrue
  <1>9. ASSUME NEW t \in Writers, Fold(t)
        PROVE  SnapshotsTrue'
    <2>1. PICK row : row = rowOf[adding.identity]
      OBVIOUS
    <2>2. /\ row \in LiveRows /\ row \in Rows /\ identity[row] = adding.identity
          /\ t \in Threads /\ \A u \in Threads : pc[u] \in {"folding", "recording"} => u = t
      BY <1>1, <1>9, <2>1, FoldedRow, HolderAlone, Numbers DEF Fold, Threads, StoreInv
    <2>3. identity[row] \notin refused => Folded = {identity[row]}
      <3>1. ASSUME identity[row] \notin refused, adding.known
            PROVE  centroids[row] = {identity[row]}
        BY <1>1, <2>2, <3>1, RowFinished DEF StoreInv
      <3>2. QED
        BY <2>1, <2>2, <3>1 DEF Folded
    <2>4. /\ Scribble(row, Folded) /\ pc' = [pc EXCEPT ![t] = "recording"]
          /\ UNCHANGED <<size, identity, occupant, nextOccupant, names, refused, query>>
      BY <1>9, <2>1 DEF Fold, writing, history
    <2>5. ASSUME NEW u \in Readers, NEW r \in SnapshotRows(u)'
          PROVE  RowOfSnapshot(u, r)'
      <3>1. UNCHANGED <<asked, stamps, exclude, scores, knew>>
        BY <2>4 DEF query
      <3>2. r \in SnapshotRows(u) /\ r \in Rows /\ RowOfSnapshot(u, r)
        BY <3>1 DEF SnapshotRows, SnapshotsTrue
      <3>3. pc'[u] \in Querying => pc'[u] = pc[u]
        BY <1>1, <2>4 DEF Querying, StoreInv, TypeOK, Threads
      <3>4. inRow[u] \in [Rows -> SUBSET Identities]
        BY <1>1 DEF StoreInv, TypeOK
      <3>5. ASSUME identity[r] \notin refused, pc[u] = "product", inRow[u][r] = {identity[r]}
            PROVE  inRow'[u][r] = {identity[r]}
        <4>1. inRow'[u] = [inRow[u] EXCEPT ![row] = @ \cup Folded]
          BY <2>4, <3>5 DEF Scribble
        <4>2. QED
          BY <2>2, <2>3, <3>2, <3>4, <3>5, <4>1
      <3>6. QED
        BY <2>4, <3>1, <3>2, <3>3, <3>5 DEF RowOfSnapshot, SameOccupant, Querying
    <2>6. QED
      BY <2>5 DEF SnapshotsTrue
  <1>10. ASSUME NEW t \in Writers, FoldRefused(t) \/ Record(t)
         PROVE  SnapshotsTrue'
    <2>1. ASSUME NEW u \in Readers
          PROVE  /\ UNCHANGED OwnQuery(u)
                 /\ UNCHANGED <<size, occupant, identity, names>> /\ inRow'[u] = inRow[u]
                 /\ refused \subseteq refused'
                 /\ pc'[u] \in Querying => pc'[u] = pc[u]
      BY <1>1, <1>10
         DEF FoldRefused, Record, OwnQuery, query, columns, history, Querying, StoreInv, TypeOK, Threads
    <2>2. QED
      BY <1>3, <2>1 DEF SnapshotsTrue
  <1>11. ASSUME NEW t \in Writers, Clear(t)
         PROVE  SnapshotsTrue'
    <2>1. ASSUME NEW u \in Readers
          PROVE  UNCHANGED <<OwnQuery(u), pc>>
      BY <1>11 DEF Clear, OwnQuery, query, writing
    <2>2. ASSUME NEW u \in Readers, NEW r \in SnapshotRows(u)
          PROVE  ~SameOccupant(u, r)'
      <3>1. size' = 0 /\ r \in Nat
        BY <1>1, <1>11, SnapshotRowType, Numbers DEF Clear, StoreInv
      <3>2. QED
        BY <3>1 DEF SameOccupant
    <2>3. QED
      BY <1>2, <2>1, <2>2 DEF SnapshotsTrue
  <1>12. ASSUME NEW t \in Readers, NEW q \in Query, QueryEmpty(t, q)
         PROVE  SnapshotsTrue'
    <2>1. ASSUME NEW u \in Readers, NEW r \in SnapshotRows(u)'
          PROVE  RowOfSnapshot(u, r)'
      <3>1. UNCHANGED <<size, nextOccupant, stamps>> /\ size = 0
        BY <1>12 DEF QueryEmpty, gallery
      <3>2. r \in SnapshotRows(u) /\ stamps[u][r] < nextOccupant
        BY <3>1 DEF SnapshotRows, SnapshotsTrue, RowOfSnapshot
      <3>3. r \in Nat
        BY <1>1, <3>2, SnapshotRowType, Numbers DEF StoreInv
      <3>4. ~SameOccupant(u, r)'
        BY <3>1, <3>3 DEF SameOccupant
      <3>5. QED
        BY <3>1, <3>2, <3>4 DEF RowOfSnapshot
    <2>2. QED
      BY <2>1 DEF SnapshotsTrue
  <1>13. ASSUME NEW t \in Readers, NEW q \in Query, Snapshot(t, q)
         PROVE  SnapshotsTrue'
    <2>1. ASSUME NEW u \in Readers, u # t
          PROVE  \A r \in SnapshotRows(u)' : RowOfSnapshot(u, r)'
      <3>1. /\ UNCHANGED OwnQuery(u)
            /\ UNCHANGED <<size, occupant, identity, names>> /\ inRow'[u] = inRow[u]
            /\ refused \subseteq refused'
            /\ pc'[u] = pc[u]
        BY <1>1, <1>13, <2>1
           DEF Snapshot, OwnQuery, gallery, columns, history, StoreInv, TypeOK, Threads
      <3>2. QED
        BY <1>3, <3>1
    <2>2. ASSUME NEW r \in SnapshotRows(t)'
          PROVE  RowOfSnapshot(t, r)'
      <3>1. /\ stamps'[t] = [o \in Rows |-> IF o < size THEN occupant[o] ELSE NoStamp]
            /\ inRow'[t] = [o \in Rows |-> IF o < size THEN centroids[o] ELSE {}]
            /\ exclude'[t] = IF q.exclude_camera = None THEN None ELSE Lookup(q.exclude_camera)
            /\ knew'[t] = (q.exclude_camera # None /\ Interned(q.exclude_camera))
            /\ asked'[t] = q /\ pc'[t] = "product"
            /\ UNCHANGED <<size, identity, occupant, names, nextOccupant, refused>>
            /\ lock = None
        BY <1>1, <1>13
           DEF Snapshot, Idle, gallery, columns, history, StoreInv, TypeOK, Threads
      <3>2. r \in Rows /\ r \in LiveRows /\ stamps'[t][r] = occupant[r] /\ r < size
        BY <1>1, <3>1, Numbers DEF SnapshotRows, StoreInv
      <3>3. stamps'[t][r] < nextOccupant
        BY <1>1, <3>2 DEF StoreInv, StampsBehind
      <3>4. knew'[t] => /\ exclude'[t] \in 0 .. Len(names) - 1
                        /\ names[exclude'[t] + 1] = asked'[t].exclude_camera
        <4>1. ASSUME Interned(q.exclude_camera)
              PROVE  /\ Lookup(q.exclude_camera) \in 0 .. Len(names) - 1
                     /\ names[Lookup(q.exclude_camera) + 1] = q.exclude_camera
          BY <1>1, <4>1, LookupFinds DEF StoreInv
        <4>2. QED
          BY <3>1, <4>1
      <3>5. identity[r] \notin refused => inRow'[t][r] = {identity[r]}
        BY <1>1, <3>1, <3>2, NobodyInside, RowFinished DEF StoreInv
      <3>6. QED
        BY <3>1, <3>3, <3>4, <3>5 DEF RowOfSnapshot
    <2>3. QED
      BY <2>1, <2>2 DEF SnapshotsTrue
  <1>14. ASSUME NEW t \in Readers, Product(t) \/ Rank(t) \/ ReadBack(t)
         PROVE  SnapshotsTrue'
    <2>1. ASSUME NEW u \in Readers, u # t
          PROVE  \A r \in SnapshotRows(u)' : RowOfSnapshot(u, r)'
      <3>1. /\ UNCHANGED OwnQuery(u)
            /\ UNCHANGED <<size, occupant, identity, names>> /\ inRow'[u] = inRow[u]
            /\ refused \subseteq refused'
            /\ pc'[u] = pc[u]
        BY <1>1, <1>14, <2>1
           DEF Product, Rank, ReadBack, OwnQuery, gallery, columns, history, StoreInv, TypeOK,
               Threads
      <3>2. QED
        BY <1>3, <3>1
    <2>2. CASE ReadBack(t)
      <3>1. SnapshotRows(t)' = {}
        BY <1>1, <2>2 DEF ReadBack, SnapshotRows, StoreInv, TypeOK
      <3>2. QED
        BY <2>1, <3>1 DEF SnapshotsTrue
    <2>3. CASE Product(t) \/ Rank(t)
      <3>1. /\ UNCHANGED <<stamps, asked, exclude, knew, refused>>
            /\ UNCHANGED <<size, occupant, nextOccupant, identity, names>>
        BY <2>3 DEF Product, Rank, gallery, columns, history
      <3>2. ASSUME NEW r \in SnapshotRows(t)'
            PROVE  RowOfSnapshot(t, r)'
        <4>1. r \in SnapshotRows(t) /\ r \in Rows /\ RowOfSnapshot(t, r)
          BY <3>1, <3>2 DEF SnapshotRows, SnapshotsTrue
        <4>2. CASE Product(t)
          <5>1. pc[t] = "product" /\ pc'[t] = "ranking" /\ scores'[t][r] = inRow[t][r]
            BY <1>1, <4>1, <4>2 DEF Product, StoreInv, TypeOK, Threads
          <5>2. QED
            BY <3>1, <4>1, <5>1 DEF RowOfSnapshot, SameOccupant
        <4>3. CASE Rank(t)
          <5>1. pc[t] = "ranking" /\ pc'[t] = "readback" /\ scores' = scores
            BY <1>1, <4>3 DEF Rank, StoreInv, TypeOK, Threads
          <5>2. QED
            BY <3>1, <4>1, <5>1 DEF RowOfSnapshot, SameOccupant
        <4>4. QED
          BY <2>3, <4>2, <4>3
      <3>3. QED
        BY <2>1, <3>2 DEF SnapshotsTrue
    <2>4. QED
      BY <1>14, <2>2, <2>3
  <1>15. QED
    BY <1>4, <1>6, <1>7, <1>8, <1>9, <1>10, <1>11, <1>12, <1>13, <1>14 DEF Next

LEMMA TopStep == IInv /\ Next => TopFromSnapshot'
  <1> SUFFICES ASSUME IInv, Next PROVE TopFromSnapshot'
    OBVIOUS
  <1>1. StoreInv /\ TopFromSnapshot
    BY DEF IInv
  <1>2. ASSUME UNCHANGED <<top, stamps>>, \A u \in Readers : pc'[u] = "readback" => pc'[u] = pc[u]
        PROVE  TopFromSnapshot'
    BY <1>1, <1>2 DEF TopFromSnapshot, SnapshotRows
  <1>3. ASSUME NEW t \in Writers,
               \/ \E e \in Embedding : Add(t, e)
               \/ EvictOldest(t) \/ ClaimRow(t) \/ Fold(t) \/ FoldRefused(t) \/ Record(t)
               \/ \E i \in Identities : RemoveIdentity(t, i)
               \/ Clear(t)
        PROVE  TopFromSnapshot'
    BY <1>1, <1>2, <1>3
       DEF Add, EvictOldest, ClaimRow, Fold, FoldRefused, Record, RemoveIdentity, Clear, query,
           StoreInv, TypeOK, Threads
  <1>4. ASSUME NEW t \in Readers, NEW q \in Query, QueryEmpty(t, q)
        PROVE  TopFromSnapshot'
    BY <1>2, <1>4 DEF QueryEmpty
  <1>5. ASSUME NEW t \in Readers, NEW q \in Query, Snapshot(t, q)
        PROVE  TopFromSnapshot'
    <2>1. \A u \in Readers : pc'[u] = "readback" => /\ pc[u] = "readback" /\ top'[u] = top[u]
                                                    /\ stamps'[u] = stamps[u]
      BY <1>1, <1>5 DEF Snapshot, StoreInv, TypeOK, Threads
    <2>2. QED
      BY <1>1, <2>1 DEF TopFromSnapshot, SnapshotRows
  <1>6. ASSUME NEW t \in Readers, Product(t)
        PROVE  TopFromSnapshot'
    BY <1>1, <1>2, <1>6 DEF Product, StoreInv, TypeOK, Threads
  <1>7. ASSUME NEW t \in Readers, Rank(t)
        PROVE  TopFromSnapshot'
    <2>1. PICK chosen \in SUBSET Eligible(t) : top' = [top EXCEPT ![t] = chosen]
      BY <1>7 DEF Rank
    <2>2. \A u \in Readers : u # t => top'[u] = top[u] /\ pc'[u] = pc[u]
      BY <1>1, <1>7, <2>1 DEF Rank, StoreInv, TypeOK, Threads
    <2>3. top'[t] \subseteq SnapshotRows(t)
      BY <1>1, <2>1 DEF Eligible, StoreInv, TypeOK
    <2>4. stamps' = stamps
      BY <1>7 DEF Rank
    <2>5. QED
      BY <1>1, <2>2, <2>3, <2>4 DEF TopFromSnapshot, SnapshotRows
  <1>8. ASSUME NEW t \in Readers, ReadBack(t)
        PROVE  TopFromSnapshot'
    <2>1. \A u \in Readers : pc'[u] = "readback" => /\ pc[u] = "readback" /\ top'[u] = top[u]
                                                    /\ stamps'[u] = stamps[u]
      BY <1>1, <1>8 DEF ReadBack, StoreInv, TypeOK, Threads
    <2>2. QED
      BY <1>1, <2>1 DEF TopFromSnapshot, SnapshotRows
  <1>9. QED
    BY <1>3, <1>4, <1>5, <1>6, <1>7, <1>8 DEF Next

LEMMA StutterIInv == IInv /\ UNCHANGED vars => IInv'
  <1> SUFFICES ASSUME IInv, UNCHANGED vars PROVE IInv'
    OBVIOUS
  <1> USE DEF vars, gallery, columns, writing, query, history
  <1>1. TypeOK' /\ CodesMeaningful' /\ StampsBehind'
    BY DEF IInv, StoreInv, TypeOK, CodesMeaningful, StampsBehind
  <1>2. Placed' /\ HolderConsistent'
    BY DEF IInv, StoreInv, Placed, HolderConsistent, LiveRows, NameFor
  <1>3. RowsTrue'
    BY DEF IInv, StoreInv, RowsTrue, Recorded, LiveRows, NameFor, BeingFilled
  <1>4. SnapshotsTrue' /\ TopFromSnapshot'
    BY DEF IInv, SnapshotsTrue, TopFromSnapshot, SnapshotRows, RowOfSnapshot, SameOccupant
  <1>5. QED
    BY <1>1, <1>2, <1>3, <1>4 DEF IInv, StoreInv

LEMMA InvariantHolds == Spec => []IInv
  <1>1. IInv /\ [Next]_vars => IInv'
    BY StoreStep, SnapshotsStep, TopStep, StutterIInv DEF IInv
  <1>2. QED
    BY <1>1, InitIInv, PTL DEF Spec

--------------------------------------------------------------------------------
(* The theorems.                                                             *)

(* For any number of threads, identities, cameras and rows: the map and the  *)
(* identity column stay inverse to each other through every add, eviction,   *)
(* removal and clear, and between two calls the columns of a row are those   *)
(* of the identity in it, whichever adds were refused half-way - but for the *)
(* vector and the recency of an identity that was given its row for one.     *)
THEOREM RowsAlwaysAgree == Spec => []RowsAgree
  <1>1. IInv => RowsAgree
    <2> SUFFICES ASSUME IInv PROVE RowsAgree
      OBVIOUS
    <2> USE DEF IInv, StoreInv
    <2>1. \A r \in LiveRows : identity[r] # None
      BY NoneAssumption DEF Placed
    <2>2. ASSUME lock = None, NEW r \in LiveRows
          PROVE  /\ Recorded(r)
                 /\ identity[r] \notin refused =>
                        latest[identity[r]] # Never /\ centroids[r] = {identity[r]}
      BY <2>2, NobodyInside, RowFinished DEF RowsTrue
    <2>3. QED
      BY <2>1, <2>2 DEF RowsAgree, Recorded, Placed
  <1>2. QED
    BY <1>1, InvariantHolds, PTL

(* An answer never carries the score of whoever sat in the row before: what  *)
(* is read back under the stamp of the snapshot was written by nobody but    *)
(* the identity reported - unless the identity's row was claimed for an      *)
(* observation that was refused, which may leave the former vector there.    *)
THEOREM NobodyMisattributed == Spec => []NoMisattribution
  <1>1. Init => NoMisattribution
    BY DEF Init, NoMisattribution
  <1>2. IInv /\ NoMisattribution /\ [Next]_vars => NoMisattribution'
    <2> SUFFICES ASSUME IInv, NoMisattribution, [Next]_vars PROVE NoMisattribution'
      OBVIOUS
    <2>1. ASSUME UNCHANGED result
          PROVE  NoMisattribution'
      BY <2>1 DEF NoMisattribution
    <2>2. ASSUME NEW t \in Readers, NEW q \in Query, QueryEmpty(t, q) \/ Snapshot(t, q)
          PROVE  NoMisattribution'
      BY <2>2 DEF QueryEmpty, Snapshot, writing, NoMisattribution, IInv, StoreInv, TypeOK
    <2>3. ASSUME NEW t \in Readers, ReadBack(t)
          PROVE  NoMisattribution'
      <3>1. result' = [result EXCEPT ![t] =
                {[identity |-> identity[r], camera |-> NameFor(cameraCode[r]),
                  score |-> scores[t][r],
                  vouched |-> identity[r] \notin refused] : r \in {w \in top[t] : Reportable(t, w)}}]
            /\ pc[t] = "readback" /\ DOMAIN result = Readers
        BY <2>3 DEF ReadBack, writing, IInv, StoreInv, TypeOK
      <3>2. ASSUME NEW r \in top[t], Reportable(t, r), identity[r] \notin refused
            PROVE  scores[t][r] = {identity[r]}
        BY <3>1, <3>2
           DEF IInv, TopFromSnapshot, SnapshotsTrue, RowOfSnapshot, SameOccupant, Reportable
      <3>3. ASSUME NEW u \in Readers, NEW m \in result'[u], m.vouched
            PROVE  m.score = {m.identity}
        <4>1. CASE u = t
          <5>1. PICK r \in top[t] :
                    /\ Reportable(t, r)
                    /\ m = [identity |-> identity[r], camera |-> NameFor(cameraCode[r]),
                            score |-> scores[t][r],
                            vouched |-> identity[r] \notin refused]
            BY <3>1, <3>3, <4>1
          <5>2. QED
            BY <3>2, <3>3, <5>1
        <4>2. CASE u # t
          BY <3>1, <3>3, <4>2 DEF NoMisattribution
        <4>3. QED
          BY <4>1, <4>2
      <3>4. QED
        BY <3>1, <3>3 DEF NoMisattribution
    <2>4. QED
      BY <2>1, <2>2, <2>3
         DEF Next, Add, EvictOldest, ClaimRow, Fold, FoldRefused, Record, RemoveIdentity, Clear,
             Product, Rank, query, writing, vars
  <1>3. QED
    BY <1>1, <1>2, InvariantHolds, PTL DEF Spec

(* A query from a camera the gallery knew when it was asked is never         *)
(* answered with an identity seen last by that camera, although the camera's *)
(* code may have been forgotten and given to another one while the product   *)
(* ran: no row of the snapshot survives the forgetting.                      *)
THEOREM KnownCameraStaysOut == Spec => []KnownCameraExcluded
  <1>1. Init => KnownCameraExcluded
    BY DEF Init, KnownCameraExcluded
  <1>2. IInv /\ KnownCameraExcluded /\ [Next]_vars => KnownCameraExcluded'
    <2> SUFFICES ASSUME IInv, KnownCameraExcluded, [Next]_vars PROVE KnownCameraExcluded'
      OBVIOUS
    <2>1. ASSUME UNCHANGED <<result, knew, asked>>
          PROVE  KnownCameraExcluded'
      BY <2>1 DEF KnownCameraExcluded
    <2>2. ASSUME NEW t \in Readers, NEW q \in Query, QueryEmpty(t, q) \/ Snapshot(t, q)
          PROVE  KnownCameraExcluded'
      <3>1. /\ result'[t] = {}
            /\ \A u \in Readers : u # t => UNCHANGED <<result[u], knew[u], asked[u]>>
        BY <2>2 DEF QueryEmpty, Snapshot, IInv, StoreInv, TypeOK
      <3>2. QED
        BY <3>1 DEF KnownCameraExcluded
    <2>3. ASSUME NEW t \in Readers, ReadBack(t)
          PROVE  KnownCameraExcluded'
      <3>1. result' = [result EXCEPT ![t] =
                {[identity |-> identity[r], camera |-> NameFor(cameraCode[r]),
                  score |-> scores[t][r],
                  vouched |-> identity[r] \notin refused] : r \in {w \in top[t] : Reportable(t, w)}}]
            /\ UNCHANGED <<knew, asked>> /\ pc[t] = "readback" /\ DOMAIN result = Readers
        BY <2>3 DEF ReadBack, IInv, StoreInv, TypeOK
      <3>2. ASSUME NEW r \in top[t], Reportable(t, r), knew[t]
            PROVE  NameFor(cameraCode[r]) # asked[t].exclude_camera
        <4>1. /\ exclude[t] \in 0 .. Len(names) - 1
              /\ names[exclude[t] + 1] = asked[t].exclude_camera
              /\ r \in SnapshotRows(t)
          BY <3>1, <3>2
             DEF IInv, TopFromSnapshot, SnapshotsTrue, RowOfSnapshot, SameOccupant, Reportable
        <4>2. /\ cameraCode[r] \in Codes /\ cameraCode[r] < Len(names)
              /\ Len(names) \in Nat /\ DOMAIN names = 1 .. Len(names)
              /\ \A i \in 1 .. Len(names) : names[i] # None
          <5>1. r \in Rows
            BY <4>1, SnapshotRowType DEF IInv, StoreInv
          <5>2. /\ cameraCode \in [Rows -> Codes] /\ names \in Seq(Cameras)
                /\ \A w \in Rows : cameraCode[w] < Len(names)
            BY DEF IInv, StoreInv, TypeOK, CodesMeaningful
          <5>3. \A i \in 1 .. Len(names) : names[i] # None
            BY ONLY <5>2, NoneAssumption
          <5>4. Len(names) \in Nat /\ DOMAIN names = 1 .. Len(names)
            BY ONLY <5>2
          <5> QED BY ONLY <5>1, <5>2, <5>3, <5>4
        <4>3. exclude[t] # None /\ cameraCode[r] # exclude[t]
          BY <3>2, <4>1, NoneAssumption DEF Reportable
        <4>4. CASE cameraCode[r] = NO_CAMERA
          BY <4>1, <4>2, <4>4 DEF NameFor
        <4>5. CASE cameraCode[r] # NO_CAMERA
          <5>1. PICK i, j \in 1 .. Len(names) : i = cameraCode[r] + 1 /\ j = exclude[t] + 1
            BY <4>1, <4>2, <4>5 DEF Codes, NO_CAMERA
          <5>2. i # j
            BY <4>1, <4>2, <4>3, <5>1 DEF Codes, NO_CAMERA
          <5>3. names[i] # names[j]
            BY <4>2, <5>2 DEF IInv, StoreInv, CodesMeaningful
          <5>4. QED
            BY <4>1, <4>5, <5>1, <5>3 DEF NameFor
        <4>6. QED
          BY <4>4, <4>5
      <3>3. ASSUME NEW u \in Readers, NEW m \in result'[u], knew'[u]
            PROVE  m.camera # asked'[u].exclude_camera
        <4>1. CASE u = t
          <5>1. PICK r \in top[t] :
                    /\ Reportable(t, r)
                    /\ m = [identity |-> identity[r], camera |-> NameFor(cameraCode[r]),
                            score |-> scores[t][r],
                            vouched |-> identity[r] \notin refused]
            BY <3>1, <3>3, <4>1
          <5>2. QED
            BY <3>1, <3>2, <3>3, <4>1, <5>1
        <4>2. CASE u # t
          BY <3>1, <3>3, <4>2 DEF KnownCameraExcluded
        <4>3. QED
          BY <4>1, <4>2
      <3>4. QED
        BY <3>3 DEF KnownCameraExcluded
    <2>4. QED
      BY <2>1, <2>2, <2>3
         DEF Next, Add, EvictOldest, ClaimRow, Fold, FoldRefused, Record, RemoveIdentity, Clear,
             Product, Rank, query, vars
  <1>3. QED
    BY <1>1, <1>2, InvariantHolds, PTL DEF Spec

================================================================================
