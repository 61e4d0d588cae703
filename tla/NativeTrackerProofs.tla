-------------------------- MODULE NativeTrackerProofs --------------------------
(***************************************************************************)
(* Theorems about NativeTracker: the two maps the Python side keeps beside  *)
(* a compiled pool - ids and appearances - follow that pool, whichever      *)
(* algorithm drives it, for any number of trackers, frames and detections.  *)
(*                                                                          *)
(* First what each operator of NativePool does to the list of tracks, which *)
(* is all the maps look at; then that every update() of every algorithm     *)
(* gives each row at most one detection and leaves it written down in       *)
(* last_match; then that absorb, reading last_match from the rows that      *)
(* survived, blends what those very tracks were given.                      *)
(***************************************************************************)
EXTENDS NativeTracker, FiniteSetTheorems, SequenceTheorems, WellFoundedInduction, TLAPS

--------------------------------------------------------------------------------
(* Counting.                                                                 *)

LEMMA CountingUp ==
    ASSUME NEW P, 0 \in P, \A n \in Nat : n \in P => n + 1 \in P
    PROVE  \A n \in Nat : n \in P
  <1> DEFINE bad == {n \in Nat : n \notin P}
  <1> SUFFICES ASSUME bad # {} PROVE FALSE
    OBVIOUS
  <1>1. \E n \in bad : \A m \in bad : ~ (<<m, n>> \in OpToRel(<, Nat))
    <2>1. bad \subseteq Nat
      OBVIOUS
    <2> HIDE DEF bad
    <2> QED BY <2>1, NatLessThanWellFounded, WFMin
  <1>2. PICK n \in bad : \A m \in bad : ~ (m < n)
    BY <1>1 DEF OpToRel
  <1>3. n \in Nat /\ n # 0 /\ n - 1 \in Nat /\ n - 1 < n /\ (n - 1) + 1 = n
    OBVIOUS
  <1>4. n - 1 \in P
    BY <1>2, <1>3
  <1> QED BY <1>3, <1>4

LEMMA NextOrBefore ==
    ASSUME NEW m \in Nat
    PROVE  /\ 0 .. (m + 1) = (0 .. m) \cup {m + 1}
           /\ m + 1 \notin 0 .. m /\ 0 \in 0 .. m /\ m \in 0 .. m
           /\ \A i \in 1 .. (m + 1) : i - 1 \in 0 .. m /\ (i \in 1 .. m \/ i = m + 1)
           /\ \A i \in 1 .. m : i \in 0 .. m
  OBVIOUS

LEMMA Parts ==
    ASSUME NEW T, IsFiniteSet(T), NEW S \in SUBSET T
    PROVE  IsFiniteSet(S) /\ Cardinality(S) \in Nat /\ Cardinality(S) <= Cardinality(T)
  BY FS_Subset, FS_CardinalityType

LEMMA OneMore ==
    ASSUME NEW S, IsFiniteSet(S), NEW x, x \notin S
    PROVE  /\ IsFiniteSet(S \cup {x}) /\ Cardinality(S) \in Nat
           /\ Cardinality(S \cup {x}) = Cardinality(S) + 1
  BY FS_AddElement, FS_CardinalityType

LEMMA Numbers ==
    ASSUME NEW n \in Nat
    PROVE  IsFiniteSet(1 .. n) /\ Cardinality(1 .. n) = n
  <1>1. 1 \in Int /\ n \in Int
    OBVIOUS
  <1> QED BY <1>1, FS_Interval

--------------------------------------------------------------------------------
(* Lists.                                                                    *)

LEMMA OneMoreMember ==
    ASSUME NEW S, NEW list \in Seq(S), NEW x \in S
    PROVE  Append(list, x) \in Seq(S) /\ Range(Append(list, x)) = Range(list) \cup {x}
  <1>1. <<x>> \in Seq(S) /\ Len(<<x>>) = 1 /\ <<x>>[1] = x
    OBVIOUS
  <1>2. Range(<<x>>) = {x}
    <2>1. Range(<<x>>) = {<<x>>[i] : i \in 1 .. 1}
      BY <1>1, RangeEquality
    <2>2. \A i \in 1 .. 1 : i = 1
      OBVIOUS
    <2> QED BY <1>1, <2>1, <2>2
  <1>3. Append(list, x) = list \o <<x>>
    BY AppendIsConcat
  <1>4. Range(list \o <<x>>) = Range(list) \cup Range(<<x>>)
    BY <1>1, RangeConcatenation, ZenonT(40)
  <1> QED BY <1>2, <1>3, <1>4

Found(list, chosen, i, before) ==
    IF list[i] \in chosen THEN Append(before, list[i]) ELSE before

FoundBy(f, list, chosen, n) ==
    /\ f[0] = <<>>
    /\ \A i \in 1 .. n : f[i] = Found(list, chosen, i, f[i - 1])
    /\ Among(list, chosen) = f[n]

Finding(f, list, chosen, m) ==
    /\ DOMAIN f = 0 .. m /\ f = [i \in 0 .. m |-> f[i]] /\ f[0] = <<>>
    /\ \A i \in 1 .. m : f[i] = Found(list, chosen, i, f[i - 1])

LEMMA AmongIs ==
    ASSUME NEW list, NEW chosen, Len(list) \in Nat
    PROVE  \E f : FoundBy(f, list, chosen, Len(list))
  <1>0. PICK n \in Nat : Len(list) = n
    OBVIOUS
  <1> DEFINE P == {m \in Nat : \E f : Finding(f, list, chosen, m)}
  <1>1. 0 \in P
    <2>1. PICK f : f = [i \in 0 .. 0 |-> <<>>]
      OBVIOUS
    <2>2. DOMAIN f = 0 .. 0 /\ f[0] = <<>> /\ 1 .. 0 = {} /\ f = [i \in 0 .. 0 |-> f[i]]
      BY <2>1
    <2> QED BY <2>2 DEF Finding
  <1>2. ASSUME NEW m \in Nat, m \in P PROVE m + 1 \in P
    <2>1. PICK g : Finding(g, list, chosen, m)
      BY <1>2
    <2>2. PICK f : f = [i \in 0 .. (m + 1) |->
                          IF i = m + 1 THEN Found(list, chosen, m + 1, g[m]) ELSE g[i]]
      OBVIOUS
    <2>3. /\ DOMAIN f = 0 .. (m + 1) /\ f = [i \in 0 .. (m + 1) |-> f[i]]
          /\ f[m + 1] = Found(list, chosen, m + 1, g[m]) /\ \A i \in 0 .. m : f[i] = g[i]
      BY <2>2, NextOrBefore
    <2>4. ASSUME NEW i \in 1 .. (m + 1) PROVE f[i] = Found(list, chosen, i, f[i - 1])
      <3>1. CASE i \in 1 .. m
        <4>1. f[i] = g[i] /\ f[i - 1] = g[i - 1]
          BY <2>3, <3>1, NextOrBefore
        <4> QED BY <2>1, <3>1, <4>1 DEF Finding
      <3>2. CASE i = m + 1
        <4>1. i - 1 = m /\ m \in 0 .. m
          BY <3>2
        <4> QED BY <2>3, <3>2, <4>1
      <3> QED BY <3>1, <3>2, NextOrBefore
    <2>5. f[0] = <<>>
      BY <2>1, <2>3, NextOrBefore DEF Finding
    <2>6. Finding(f, list, chosen, m + 1)
      BY <2>3, <2>4, <2>5 DEF Finding
    <2> QED BY <2>6
  <1>3. n \in P
    <2> HIDE DEF P
    <2> QED BY <1>1, <1>2, CountingUp
  <1>4. PICK f : Finding(f, list, chosen, n)
    BY <1>3
  <1> DEFINE Is(g) == g = [i \in 0 .. Len(list) |->
                             IF i = 0 THEN <<>>
                             ELSE IF list[i] \in chosen THEN Append(g[i - 1], list[i]) ELSE g[i - 1]]
  <1>5. Is(f)
    <2>1. ASSUME NEW i \in 0 .. n
          PROVE  f[i] = IF i = 0 THEN <<>>
                        ELSE IF list[i] \in chosen THEN Append(f[i - 1], list[i]) ELSE f[i - 1]
      <3>1. CASE i = 0
        BY <1>4, <3>1 DEF Finding
      <3>2. CASE i # 0
        <4>1. i \in 1 .. n
          BY <3>2
        <4> QED BY <1>4, <3>2, <4>1 DEF Found, Finding
      <3> QED BY <3>1, <3>2
    <2> QED BY <1>0, <1>4, <2>1 DEF Finding
  <1>6. Is(CHOOSE g : Is(g))
    <2> HIDE DEF Is
    <2> QED BY <1>5
  <1>7. PICK g : g = CHOOSE h : Is(h)
    OBVIOUS
  <1>8. Among(list, chosen) = g[n]
    BY <1>0, <1>7 DEF Among
  <1>9. Is(g)
    <2> HIDE DEF Is
    <2> QED BY <1>6, <1>7
  <1>10. g = [i \in 0 .. n |-> IF i = 0 THEN <<>>
                               ELSE IF list[i] \in chosen THEN Append(g[i - 1], list[i]) ELSE g[i - 1]]
    BY <1>0, <1>9
  <1>11. g[0] = <<>>
    BY <1>10, NextOrBefore
  <1>12. ASSUME NEW i \in 1 .. n PROVE g[i] = Found(list, chosen, i, g[i - 1])
    <2>1. i \in 0 .. n /\ i # 0
      OBVIOUS
    <2> QED BY <1>10, <2>1 DEF Found
  <1>13. FoundBy(g, list, chosen, n)
    BY <1>8, <1>11, <1>12 DEF FoundBy
  <1> QED BY <1>0, <1>13

(* A list with the given members, and no others.                             *)
ListOf(list, members, S) == list \in Seq(S) /\ Range(list) = members

First(list, m) == {list[i] : i \in 1 .. m}

LEMMA FirstGrows ==
    ASSUME NEW list, NEW m \in Nat
    PROVE  First(list, m + 1) = First(list, m) \cup {list[m + 1]}
  <1>1. \A i : i \in 1 .. (m + 1) <=> i \in 1 .. m \/ i = m + 1
    OBVIOUS
  <1> QED BY <1>1 DEF First

LEMMA AmongFacts ==
    ASSUME NEW S, NEW list \in Seq(S), NEW chosen
    PROVE  ListOf(Among(list, chosen), Range(list) \cap chosen, S)
  <1>1. PICK n \in Nat : n = Len(list) /\ DOMAIN list = 1 .. n
    BY LenProperties
  <1>a. PICK f : FoundBy(f, list, chosen, Len(list))
    BY <1>1, AmongIs
  <1>2. /\ f[0] = <<>> /\ Among(list, chosen) = f[n]
        /\ \A i \in 1 .. n : f[i] = Found(list, chosen, i, f[i - 1])
    BY <1>1, <1>a DEF FoundBy
  <1> DEFINE P == {m \in Nat : m <= n => ListOf(f[m], First(list, m) \cap chosen, S)}
  <1>3. 0 \in P
    <2>1. <<>> \in Seq(S) /\ Range(<<>>) = {}
      BY EmptySeq DEF Range
    <2>2. First(list, 0) = {}
      BY DEF First
    <2> QED BY <1>2, <2>1, <2>2 DEF ListOf
  <1>4. ASSUME NEW m \in Nat, m \in P PROVE m + 1 \in P
    <2> SUFFICES ASSUME m + 1 <= n PROVE ListOf(f[m + 1], First(list, m + 1) \cap chosen, S)
      OBVIOUS
    <2>1. f[m] \in Seq(S) /\ Range(f[m]) = First(list, m) \cap chosen
      BY <1>4 DEF ListOf
    <2>2. m + 1 \in 1 .. n /\ (m + 1) - 1 = m
      OBVIOUS
    <2>3. f[m + 1] = Found(list, chosen, m + 1, f[m]) /\ list[m + 1] \in S
      BY <1>1, <1>2, <2>2, ElementOfSeq
    <2>4. First(list, m + 1) = First(list, m) \cup {list[m + 1]}
      BY FirstGrows
    <2>5. CASE list[m + 1] \in chosen
      <3>1. f[m + 1] = Append(f[m], list[m + 1])
        BY <2>3, <2>5 DEF Found
      <3>2. PICK x \in S : x = list[m + 1]
        BY <2>3
      <3>3. PICK before \in Seq(S) : before = f[m]
        BY <2>1
      <3>4. Append(before, x) \in Seq(S) /\ Range(Append(before, x)) = Range(before) \cup {x}
        BY OneMoreMember
      <3> QED BY <2>1, <2>4, <2>5, <3>1, <3>2, <3>3, <3>4 DEF ListOf
    <2>6. CASE list[m + 1] \notin chosen
      <3>1. f[m + 1] = f[m]
        BY <2>3, <2>6 DEF Found
      <3> QED BY <2>1, <2>4, <2>6, <3>1 DEF ListOf
    <2> QED BY <2>5, <2>6
  <1>5. n \in P
    <2> HIDE DEF P
    <2> QED BY <1>3, <1>4, CountingUp
  <1>6. Range(list) = First(list, n)
    BY <1>1 DEF Range, First
  <1> QED BY <1>2, <1>5, <1>6

LEMMA WithoutFacts ==
    ASSUME NEW S, NEW list \in Seq(S), NEW taken
    PROVE  ListOf(Without(list, taken), Range(list) \ taken, S)
  <1>1. ListOf(Among(list, Range(list) \ taken), Range(list) \cap (Range(list) \ taken), S)
    BY AmongFacts
  <1>2. Range(list) \cap (Range(list) \ taken) = Range(list) \ taken
    OBVIOUS
  <1> QED BY <1>1, <1>2 DEF Without

LEMMA TogetherFacts ==
    ASSUME NEW S, NEW a, NEW b, NEW A, NEW B, ListOf(a, A, S), ListOf(b, B, S)
    PROVE  ListOf(a \o b, A \cup B, S)
  BY ConcatProperties, RangeConcatenation DEF ListOf

--------------------------------------------------------------------------------
(* What the operators of NativePool do to the list of tracks.                *)

TrackStates == {"tentative", "confirmed", "lost", "removed"}

Tracks == [track_id : Nat, state : TrackStates, age : Nat, hits : Nat,
           time_since_update : Nat, last_match : Nat]

Fields == {"history", "reUpdate", "lastTrackId", "tracks", "states", "observedStates",
           "observed", "observations"}

Pool(p, n) == DOMAIN p = Fields /\ p.tracks \in [1 .. n -> Tracks]

LEMMA RowsArePlaces ==
    ASSUME NEW n \in Nat, NEW p, Pool(p, n)
    PROVE  Rows(p) = 1 .. n /\ p.tracks \in Seq(Tracks) /\ Len(p.tracks) = n
  BY SeqDef DEF Pool, Rows

(* sweep, a row at a time.                                                   *)
Ending(end) ==
    [end.p EXCEPT !.tracks = SubSeq(@, 1, end.kept), !.states = SubSeq(@, 1, end.kept),
                  !.observedStates = SubSeq(@, 1, end.kept), !.observed = SubSeq(@, 1, end.kept),
                  !.observations = SubSeq(@, 1, end.kept)]

Moving(f, pool, m) ==
    /\ DOMAIN f = 0 .. m /\ f = [i \in 0 .. m |-> f[i]] /\ f[0] = [kept |-> 0, p |-> pool]
    /\ \A i \in 1 .. m : f[i] = Visited(f[i - 1], i)

SweptBy(f, pool, n) ==
    /\ f[0] = [kept |-> 0, p |-> pool]
    /\ \A i \in 1 .. n : f[i] = Visited(f[i - 1], i)
    /\ Sweep(pool) = Ending(f[n])

LEMMA SweepIs ==
    ASSUME NEW pool, Len(pool.tracks) \in Nat
    PROVE  \E f : SweptBy(f, pool, Len(pool.tracks))
  <1>0. PICK n \in Nat : Len(pool.tracks) = n
    OBVIOUS
  <1> DEFINE P == {m \in Nat : \E f : Moving(f, pool, m)}
  <1>1. 0 \in P
    <2>1. PICK f : f = [i \in 0 .. 0 |-> [kept |-> 0, p |-> pool]]
      OBVIOUS
    <2>2. /\ DOMAIN f = 0 .. 0 /\ f[0] = [kept |-> 0, p |-> pool] /\ 1 .. 0 = {}
          /\ f = [i \in 0 .. 0 |-> f[i]]
      BY <2>1
    <2> QED BY <2>2 DEF Moving
  <1>2. ASSUME NEW m \in Nat, m \in P PROVE m + 1 \in P
    <2>1. PICK g : Moving(g, pool, m)
      BY <1>2
    <2>2. PICK f : f = [i \in 0 .. (m + 1) |-> IF i = m + 1 THEN Visited(g[m], m + 1) ELSE g[i]]
      OBVIOUS
    <2>3. /\ DOMAIN f = 0 .. (m + 1) /\ f = [i \in 0 .. (m + 1) |-> f[i]]
          /\ f[m + 1] = Visited(g[m], m + 1) /\ \A i \in 0 .. m : f[i] = g[i]
      BY <2>2, NextOrBefore
    <2>4. ASSUME NEW i \in 1 .. (m + 1) PROVE f[i] = Visited(f[i - 1], i)
      <3>1. CASE i \in 1 .. m
        <4>1. f[i] = g[i] /\ f[i - 1] = g[i - 1]
          BY <2>3, <3>1, NextOrBefore
        <4> QED BY <2>1, <3>1, <4>1 DEF Moving
      <3>2. CASE i = m + 1
        <4>1. i - 1 = m /\ m \in 0 .. m
          BY <3>2
        <4>2. f[i - 1] = g[m]
          BY <2>3, <4>1
        <4> QED BY <2>3, <3>2, <4>2
      <3> QED BY <3>1, <3>2, NextOrBefore
    <2>5. f[0] = [kept |-> 0, p |-> pool]
      BY <2>1, <2>3, NextOrBefore DEF Moving
    <2>6. Moving(f, pool, m + 1)
      BY <2>3, <2>4, <2>5 DEF Moving
    <2> QED BY <2>6
  <1>3. n \in P
    <2> HIDE DEF P
    <2> QED BY <1>1, <1>2, CountingUp
  <1>4. PICK f : Moving(f, pool, n)
    BY <1>3
  <1> DEFINE Is(g) == g = [i \in 0 .. Len(pool.tracks) |->
                             IF i = 0 THEN [kept |-> 0, p |-> pool] ELSE Visited(g[i - 1], i)]
  <1>5. Is(f)
    <2>1. ASSUME NEW i \in 0 .. n
          PROVE  f[i] = IF i = 0 THEN [kept |-> 0, p |-> pool] ELSE Visited(f[i - 1], i)
      <3>1. CASE i = 0
        BY <1>4, <3>1 DEF Moving
      <3>2. CASE i # 0
        <4>1. i \in 1 .. n
          BY <3>2
        <4> QED BY <1>4, <3>2, <4>1 DEF Moving
      <3> QED BY <3>1, <3>2
    <2>2. f = [i \in 0 .. n |-> IF i = 0 THEN [kept |-> 0, p |-> pool] ELSE Visited(f[i - 1], i)]
      BY <1>4, <2>1 DEF Moving
    <2> QED BY <1>0, <2>2
  <1>6. Is(CHOOSE g : Is(g))
    <2> HIDE DEF Is
    <2> QED BY <1>5
  <1>7. PICK g : g = CHOOSE h : Is(h)
    OBVIOUS
  <1>8. Sweep(pool) = Ending(g[n])
    BY <1>0, <1>7 DEF Sweep, Ending
  <1>9. Is(g)
    <2> HIDE DEF Is
    <2> QED BY <1>6, <1>7
  <1>10. g = [i \in 0 .. n |-> IF i = 0 THEN [kept |-> 0, p |-> pool] ELSE Visited(g[i - 1], i)]
    BY <1>0, <1>9
  <1> HIDE DEF Is
  <1>11. g[0] = [kept |-> 0, p |-> pool]
    BY <1>10, NextOrBefore
  <1>12. ASSUME NEW i \in 1 .. n PROVE g[i] = Visited(g[i - 1], i)
    <2>1. i \in 0 .. n /\ i # 0
      OBVIOUS
    <2> QED BY <1>10, <2>1
  <1>13. SweptBy(g, pool, n)
    BY <1>8, <1>11, <1>12 DEF SweptBy
  <1> QED BY <1>0, <1>13

Stays(p, i) == p.tracks[i].state # "removed"

LEMMA VisitedRow ==
    ASSUME NEW n \in Nat, NEW seen, Pool(seen.p, n), NEW i \in 1 .. n, seen.kept \in 0 .. (i - 1)
    PROVE  LET next == Visited(seen, i) IN
           /\ Pool(next.p, n) /\ next.p.lastTrackId = seen.p.lastTrackId
           /\ ~Stays(seen.p, i) => next = seen
           /\ Stays(seen.p, i) =>
                /\ next.kept = seen.kept + 1
                /\ \A r \in 1 .. n : next.p.tracks[r] = IF r = seen.kept + 1 THEN seen.p.tracks[i]
                                                                       ELSE seen.p.tracks[r]
  <1> DEFINE to == seen.kept + 1
             next == Visited(seen, i)
  <1>1. to \in 1 .. n /\ DOMAIN seen.p.tracks = 1 .. n
    BY DEF Pool
  <1>2. CASE ~Stays(seen.p, i)
    BY <1>2 DEF Visited, Stays
  <1>3. CASE Stays(seen.p, i) /\ to = i
    <2>1. next = [kept |-> to, p |-> seen.p]
      BY <1>3 DEF Visited, Stays
    <2> QED BY <1>1, <1>3, <2>1
  <1>4. CASE Stays(seen.p, i) /\ to # i
    <2>1. next = [kept |-> to, p |-> CopyDown(seen.p, i, to)]
      BY <1>4 DEF Visited, Stays
    <2>2. /\ DOMAIN CopyDown(seen.p, i, to) = Fields
          /\ CopyDown(seen.p, i, to).tracks = [seen.p.tracks EXCEPT ![to] = seen.p.tracks[i]]
          /\ CopyDown(seen.p, i, to).lastTrackId = seen.p.lastTrackId
      BY DEF CopyDown, Pool, Fields
    <2>3. seen.p.tracks[i] \in Tracks /\ seen.p.tracks \in [1 .. n -> Tracks]
      BY DEF Pool
    <2>4. PICK q : q = CopyDown(seen.p, i, to)
      OBVIOUS
    <2>5. PICK t \in 1 .. n : t = to
      BY <1>1
    <2>6. q.tracks = [seen.p.tracks EXCEPT ![t] = seen.p.tracks[i]]
      BY <2>2, <2>4, <2>5
    <2>7. /\ q.tracks \in [1 .. n -> Tracks]
          /\ \A r \in 1 .. n : q.tracks[r] = IF r = t THEN seen.p.tracks[i] ELSE seen.p.tracks[r]
      BY <2>3, <2>6
    <2>8. Pool(q, n)
      BY <2>2, <2>4, <2>7 DEF Pool
    <2>9. next.kept = to /\ next.p = q
      BY <2>1, <2>4
    <2> HIDE DEF to, next
    <2>10. /\ Pool(next.p, n) /\ next.p.lastTrackId = seen.p.lastTrackId
           /\ next.kept = to
           /\ \A r \in 1 .. n : next.p.tracks[r] = IF r = to THEN seen.p.tracks[i] ELSE seen.p.tracks[r]
      BY <2>2, <2>4, <2>5, <2>7, <2>8, <2>9
    <2> QED BY <1>4, <2>10 DEF to, next
  <1> QED BY <1>2, <1>3, <1>4

(* The rows looked at so far: those that stay have moved to their places.    *)
Sifted(end, p, n, place, i) ==
    /\ Pool(end.p, n) /\ end.p.lastTrackId = p.lastTrackId
    /\ end.kept = place[i] /\ place[i] \in 0 .. i
    /\ \A r \in (i + 1) .. n : end.p.tracks[r] = p.tracks[r]
    /\ \A r \in 1 .. i : Stays(p, r) => place[r] \in 1 .. place[i] /\ end.p.tracks[place[r]] = p.tracks[r]
    /\ \A j \in 1 .. place[i] : \E r \in 1 .. i : Stays(p, r) /\ place[r] = j

LEMMA SiftOne ==
    ASSUME NEW n \in Nat, NEW p, NEW i \in 1 .. n, NEW seen, NEW place,
           Sifted(seen, p, n, place, i - 1), place[i] = Visited(seen, i).kept
    PROVE  /\ Sifted(Visited(seen, i), p, n, place, i)
           /\ place[i] = IF Stays(p, i) THEN place[i - 1] + 1 ELSE place[i - 1]
  <1>1. /\ Pool(seen.p, n) /\ seen.p.lastTrackId = p.lastTrackId
        /\ seen.kept = place[i - 1] /\ place[i - 1] \in 0 .. (i - 1)
        /\ \A r \in i .. n : seen.p.tracks[r] = p.tracks[r]
        /\ \A r \in 1 .. (i - 1) :
              Stays(p, r) => place[r] \in 1 .. place[i - 1] /\ seen.p.tracks[place[r]] = p.tracks[r]
        /\ \A j \in 1 .. place[i - 1] : \E r \in 1 .. (i - 1) : Stays(p, r) /\ place[r] = j
    <2>1. (i - 1) + 1 = i
      OBVIOUS
    <2> QED BY <2>1 DEF Sifted
  <1>2. PICK next : next = Visited(seen, i)
    OBVIOUS
  <1>3. /\ Pool(next.p, n) /\ next.p.lastTrackId = seen.p.lastTrackId
        /\ ~Stays(seen.p, i) => next = seen
        /\ Stays(seen.p, i) =>
             /\ next.kept = seen.kept + 1
             /\ \A r \in 1 .. n : next.p.tracks[r] = IF r = seen.kept + 1 THEN seen.p.tracks[i]
                                                                    ELSE seen.p.tracks[r]
    BY <1>1, <1>2, VisitedRow
  <1>4. Stays(seen.p, i) <=> Stays(p, i)
    <2>1. i \in i .. n
      OBVIOUS
    <2> QED BY <1>1, <2>1 DEF Stays
  <1>5. \A r \in 1 .. i : r \in 1 .. (i - 1) \/ r = i
    OBVIOUS
  <1>6. CASE ~Stays(p, i)
    <2>1. next = seen /\ place[i] = place[i - 1]
      BY <1>1, <1>2, <1>3, <1>4, <1>6
    <2>2. \A r \in (i + 1) .. n : r \in i .. n
      OBVIOUS
    <2>3. place[i] \in 0 .. i
      BY <1>1, <2>1
    <2>4. \A r \in 1 .. i : Stays(p, r) => r \in 1 .. (i - 1)
      BY <1>5, <1>6
    <2>5. \A r \in 1 .. (i - 1) : r \in 1 .. i
      OBVIOUS
    <2>6. Sifted(next, p, n, place, i)
      BY <1>1, <2>1, <2>2, <2>3, <2>4, <2>5 DEF Sifted
    <2> QED BY <1>2, <1>6, <2>1, <2>6
  <1>7. CASE Stays(p, i)
    <2>1. PICK m \in 0 .. (i - 1) : m = place[i - 1]
      BY <1>1
    <2>2. /\ next.kept = m + 1 /\ place[i] = m + 1
          /\ \A r \in 1 .. n : next.p.tracks[r] = IF r = m + 1 THEN seen.p.tracks[i]
                                                              ELSE seen.p.tracks[r]
      BY <1>1, <1>2, <1>3, <1>4, <1>7, <2>1
    <2>3. m + 1 \in 0 .. i /\ m + 1 \in 1 .. (m + 1) /\ m + 1 \in 1 .. n
      OBVIOUS
    <2>4. ASSUME NEW r \in (i + 1) .. n PROVE next.p.tracks[r] = p.tracks[r]
      <3>1. r \in 1 .. n /\ r # m + 1 /\ r \in i .. n
        OBVIOUS
      <3> QED BY <1>1, <2>2, <3>1
    <2>5. ASSUME NEW r \in 1 .. i, Stays(p, r)
          PROVE  place[r] \in 1 .. place[i] /\ next.p.tracks[place[r]] = p.tracks[r]
      <3>1. CASE r = i
        <4>1. i \in i .. n
          OBVIOUS
        <4>2. next.p.tracks[m + 1] = p.tracks[i]
          BY <1>1, <2>2, <2>3, <4>1
        <4> QED BY <2>2, <2>3, <3>1, <4>2
      <3>2. CASE r # i
        <4>1. r \in 1 .. (i - 1)
          BY <3>2
        <4>2. place[r] \in 1 .. m /\ seen.p.tracks[place[r]] = p.tracks[r]
          BY <1>1, <2>1, <2>5, <4>1
        <4>3. place[r] \in 1 .. (m + 1) /\ place[r] \in 1 .. n /\ place[r] # m + 1
          BY <4>2
        <4> QED BY <2>2, <4>2, <4>3
      <3> QED BY <3>1, <3>2
    <2>6. ASSUME NEW j \in 1 .. place[i] PROVE \E r \in 1 .. i : Stays(p, r) /\ place[r] = j
      <3>1. j \in 1 .. m \/ j = m + 1
        BY <2>2
      <3>2. CASE j \in 1 .. m
        <4>1. PICK r \in 1 .. (i - 1) : Stays(p, r) /\ place[r] = j
          BY <1>1, <2>1, <3>2
        <4>2. r \in 1 .. i
          OBVIOUS
        <4> QED BY <4>1, <4>2
      <3>3. CASE j = m + 1
        <4>1. i \in 1 .. i
          OBVIOUS
        <4> QED BY <1>7, <2>2, <3>3, <4>1
      <3> QED BY <3>1, <3>2, <3>3
    <2>7. Sifted(next, p, n, place, i)
      BY <1>1, <1>3, <2>2, <2>3, <2>4, <2>5, <2>6 DEF Sifted
    <2> QED BY <1>2, <1>7, <2>1, <2>2, <2>7
  <1> QED BY <1>6, <1>7

(* The rows that stay, each in its place, and nothing else.                  *)
Thinned(q, p, n, place) ==
    /\ place \in [0 .. n -> Nat] /\ place[0] = 0
    /\ \A i \in 1 .. n : place[i] = IF Stays(p, i) THEN place[i - 1] + 1 ELSE place[i - 1]
    /\ Pool(q, place[n]) /\ q.lastTrackId = p.lastTrackId
    /\ \A r \in 1 .. n : Stays(p, r) => place[r] \in 1 .. place[n] /\ q.tracks[place[r]] = p.tracks[r]
    /\ \A j \in 1 .. place[n] : \E r \in 1 .. n : Stays(p, r) /\ place[r] = j

LEMMA EndingRows ==
    ASSUME NEW n \in Nat, NEW end, Pool(end.p, n), end.kept \in 0 .. n
    PROVE  /\ Pool(Ending(end), end.kept) /\ Ending(end).lastTrackId = end.p.lastTrackId
           /\ \A j \in 1 .. end.kept : Ending(end).tracks[j] = end.p.tracks[j]
  <1>1. PICK c \in 0 .. n : c = end.kept
    OBVIOUS
  <1>2. PICK t \in [1 .. n -> Tracks] : t = end.p.tracks
    BY DEF Pool
  <1>3. /\ DOMAIN Ending(end) = Fields /\ Ending(end).lastTrackId = end.p.lastTrackId
        /\ Ending(end).tracks = SubSeq(t, 1, c)
    BY <1>1, <1>2 DEF Ending, Pool, Fields
  <1>4. t \in Seq(Tracks) /\ Len(t) = n
    BY SeqDef
  <1>5. SubSeq(t, 1, c) \in [1 .. c -> Tracks] /\ \A j \in 1 .. c : SubSeq(t, 1, c)[j] = t[j]
    <2>1. 1 \in 1 .. (Len(t) + 1) /\ c \in (1 - 1) .. Len(t) /\ c - 1 + 1 = c
      BY <1>4
    <2>2. /\ SubSeq(t, 1, c) \in Seq(Tracks) /\ Len(SubSeq(t, 1, c)) = c - 1 + 1
          /\ \A j \in 1 .. (c - 1 + 1) : SubSeq(t, 1, c)[j] = t[1 + j - 1]
      BY <1>4, <2>1, SubSeqProperties
    <2>3. \A j \in 1 .. c : 1 + j - 1 = j
      OBVIOUS
    <2>4. SubSeq(t, 1, c) \in [1 .. Len(SubSeq(t, 1, c)) -> Tracks]
      BY <2>2, LenProperties
    <2> QED BY <2>1, <2>2, <2>3, <2>4
  <1> QED BY <1>1, <1>2, <1>3, <1>5 DEF Pool

LEMMA SweepRows ==
    ASSUME NEW n \in Nat, NEW p, Pool(p, n)
    PROVE  \E place : Thinned(Sweep(p), p, n, place)
  <1>1. Len(p.tracks) = n
    BY RowsArePlaces
  <1>2. PICK f : SweptBy(f, p, n)
    BY <1>1, SweepIs
  <1>3. /\ f[0] = [kept |-> 0, p |-> p] /\ Sweep(p) = Ending(f[n])
        /\ \A i \in 1 .. n : f[i] = Visited(f[i - 1], i)
    BY <1>2 DEF SweptBy
  <1>4. PICK place : place = [i \in 0 .. n |-> f[i].kept]
    OBVIOUS
  <1>5. place[0] = 0 /\ f[0].p = p /\ f[0].kept = 0
    BY <1>3, <1>4
  <1> DEFINE P == {i \in Nat : i <= n => Sifted(f[i], p, n, place, i)}
  <1>6. 0 \in P
    <2>1. 0 \in 0 .. 0 /\ 1 .. 0 = {}
      OBVIOUS
    <2>2. Sifted(f[0], p, n, place, 0)
      BY <1>5, <2>1 DEF Sifted
    <2> QED BY <2>2
  <1>7. ASSUME NEW i \in Nat, i \in P PROVE i + 1 \in P
    <2> SUFFICES ASSUME i + 1 <= n PROVE Sifted(f[i + 1], p, n, place, i + 1)
      OBVIOUS
    <2>1. i + 1 \in 1 .. n /\ i + 1 \in 0 .. n /\ (i + 1) - 1 = i
      OBVIOUS
    <2>2. f[i + 1] = Visited(f[i], i + 1) /\ place[i + 1] = f[i + 1].kept
      BY <1>3, <1>4, <2>1
    <2>3. Sifted(f[i], p, n, place, i)
      BY <1>7
    <2>4. PICK h \in 1 .. n : h = i + 1
      BY <2>1
    <2>5. Sifted(Visited(f[i], h), p, n, place, h)
      BY <2>1, <2>2, <2>3, <2>4, SiftOne
    <2> QED BY <2>2, <2>4, <2>5
  <1>8. \A i \in Nat : i \in P
    <2> HIDE DEF P
    <2> QED BY <1>6, <1>7, CountingUp
  <1>9. \A i \in 0 .. n : Sifted(f[i], p, n, place, i)
    <2>1. \A i \in 0 .. n : i \in Nat /\ i <= n
      OBVIOUS
    <2> QED BY <1>8, <2>1
  <1> HIDE DEF P
  <1>10. place \in [0 .. n -> Nat]
    <2>1. ASSUME NEW i \in 0 .. n PROVE f[i].kept \in Nat
      <3>1. place[i] = f[i].kept /\ place[i] \in 0 .. i
        BY <1>4, <1>9 DEF Sifted
      <3> QED BY <3>1
    <2> QED BY <1>4, <2>1
  <1>11. ASSUME NEW i \in 1 .. n
         PROVE  place[i] = IF Stays(p, i) THEN place[i - 1] + 1 ELSE place[i - 1]
    <2>1. i - 1 \in 0 .. n /\ i \in 0 .. n
      OBVIOUS
    <2>2. Sifted(f[i - 1], p, n, place, i - 1)
      BY <1>9, <2>1
    <2>3. place[i] = Visited(f[i - 1], i).kept
      BY <1>3, <1>4, <2>1
    <2> QED BY <2>2, <2>3, SiftOne
  <1>12. Sifted(f[n], p, n, place, n)
    BY <1>9
  <1>13. /\ Pool(f[n].p, n) /\ f[n].p.lastTrackId = p.lastTrackId
         /\ f[n].kept = place[n] /\ place[n] \in 0 .. n
         /\ \A r \in 1 .. n : Stays(p, r) =>
               place[r] \in 1 .. place[n] /\ f[n].p.tracks[place[r]] = p.tracks[r]
         /\ \A j \in 1 .. place[n] : \E r \in 1 .. n : Stays(p, r) /\ place[r] = j
    BY <1>12 DEF Sifted
  <1>14. /\ Pool(Sweep(p), place[n]) /\ Sweep(p).lastTrackId = p.lastTrackId
         /\ \A j \in 1 .. place[n] : Sweep(p).tracks[j] = f[n].p.tracks[j]
    BY <1>3, <1>13, EndingRows
  <1>15. Thinned(Sweep(p), p, n, place)
    BY <1>5, <1>10, <1>11, <1>13, <1>14 DEF Thinned
  <1> QED BY <1>15

(* The rows at the end that all stay are at the end afterwards.              *)
TailKept(q, p, n, m, place) ==
    /\ place[n] \in Nat /\ place[n + m] = place[n] + m
    /\ \A j \in 1 .. m : /\ place[n] + j \in 1 .. place[n + m]
                         /\ q.tracks[place[n] + j] = p.tracks[n + j]
    /\ \A j \in 1 .. place[n] : \E r \in 1 .. n : Stays(p, r) /\ place[r] = j

LEMMA TailStays ==
    ASSUME NEW n \in Nat, NEW m \in Nat, NEW p, NEW q, NEW place, Thinned(q, p, n + m, place),
           \A j \in 1 .. m : Stays(p, n + j)
    PROVE  TailKept(q, p, n, m, place)
  <1> DEFINE P == {j \in Nat : j <= m => place[n + j] = place[n] + j}
  <1>1. place \in [0 .. (n + m) -> Nat] /\ n \in 0 .. (n + m) /\ n + m \in 0 .. (n + m)
    BY DEF Thinned
  <1>2. place[n] \in Nat
    BY <1>1
  <1>3. 0 \in P
    BY <1>2
  <1>4. ASSUME NEW j \in Nat, j \in P PROVE j + 1 \in P
    <2> SUFFICES ASSUME j + 1 <= m PROVE place[n + (j + 1)] = place[n] + (j + 1)
      OBVIOUS
    <2>1. n + (j + 1) \in 1 .. (n + m) /\ (n + (j + 1)) - 1 = n + j /\ j + 1 \in 1 .. m
      OBVIOUS
    <2>2. place[n + j] = place[n] + j
      BY <1>4
    <2>3. place[n + (j + 1)] = place[n + j] + 1
      BY <2>1 DEF Thinned
    <2> QED BY <1>2, <2>2, <2>3
  <1>5. \A j \in Nat : j \in P
    <2> HIDE DEF P
    <2> QED BY <1>3, <1>4, CountingUp
  <1>6. \A j \in Nat : j <= m => place[n + j] = place[n] + j
    BY <1>5
  <1>7. ASSUME NEW j \in 1 .. m
        PROVE  /\ place[n] + j \in 1 .. place[n + m]
               /\ q.tracks[place[n] + j] = p.tracks[n + j]
    <2>1. n + j \in 1 .. (n + m) /\ j \in Nat /\ j <= m
      OBVIOUS
    <2>2. place[n + j] = place[n] + j
      BY <1>6, <2>1
    <2> QED BY <2>1, <2>2 DEF Thinned
  <1>8. ASSUME NEW j \in 1 .. place[n] PROVE \E r \in 1 .. n : Stays(p, r) /\ place[r] = j
    <2>1. place[n + m] = place[n] + m
      BY <1>6
    <2>2. j \in 1 .. place[n + m]
      BY <1>2, <2>1
    <2>3. PICK r \in 1 .. (n + m) : Stays(p, r) /\ place[r] = j
      BY <2>2 DEF Thinned
    <2>4. r \in 1 .. n
      <3>1. ASSUME r > n PROVE FALSE
        <4>1. r - n \in Nat /\ r - n <= m /\ n + (r - n) = r /\ r - n >= 1
          BY <3>1
        <4>2. place[n + (r - n)] = place[n] + (r - n)
          BY <1>6, <4>1
        <4>3. j = place[n] + (r - n)
          BY <2>3, <4>1, <4>2
        <4> QED BY <1>2, <4>1, <4>3
      <3> QED BY <3>1
    <2> QED BY <2>3, <2>4
  <1>9. place[n + m] = place[n] + m
    BY <1>6
  <1> QED BY <1>2, <1>7, <1>8, <1>9 DEF TailKept

(* One row, whatever is written to it.                                       *)
LEMMA TrackFields ==
    ASSUME NEW t \in Tracks
    PROVE  /\ t.track_id \in Nat /\ t.state \in TrackStates /\ t.age \in Nat /\ t.hits \in Nat
           /\ t.time_since_update \in Nat /\ t.last_match \in Nat
           /\ DOMAIN t = {"track_id", "state", "age", "hits", "time_since_update", "last_match"}
  BY DEF Tracks

Opened(t) == [t EXCEPT !.age = @ + 1, !.last_match = 0]

LEMMA OpenedTrack ==
    ASSUME NEW t \in Tracks
    PROVE  /\ Opened(t) \in Tracks /\ Opened(t).track_id = t.track_id
           /\ Opened(t).last_match = 0
  <1>1. PICK a \in Nat : a = t.age + 1
    BY TrackFields
  <1>2. PICK u : u = [t EXCEPT !.age = a, !.last_match = 0]
    OBVIOUS
  <1>3. u \in Tracks /\ u.track_id = t.track_id /\ u.last_match = 0
    BY <1>2 DEF Tracks
  <1>4. Opened(t) = u
    BY <1>1, <1>2 DEF Opened
  <1> QED BY <1>3, <1>4

LEMMA PromotedTrack ==
    ASSUME NEW t \in Tracks
    PROVE  /\ PromoteIfEarned(t) \in Tracks /\ PromoteIfEarned(t).track_id = t.track_id
           /\ PromoteIfEarned(t).last_match = t.last_match
           /\ PromoteIfEarned(t).state = t.state \/ PromoteIfEarned(t).state = "confirmed"
  <1>1. PICK u : u = [t EXCEPT !.state = "confirmed"]
    OBVIOUS
  <1>2. /\ u \in Tracks /\ u.track_id = t.track_id /\ u.last_match = t.last_match
        /\ u.state = "confirmed"
    BY <1>1 DEF Tracks, TrackStates
  <1>3. PromoteIfEarned(t) = t \/ PromoteIfEarned(t) = u
    BY <1>1 DEF PromoteIfEarned
  <1> QED BY <1>2, <1>3

LEMMA CorrectedTrack ==
    ASSUME NEW t \in Tracks, NEW column \in Nat
    PROVE  /\ Corrected(t, column) \in Tracks /\ Corrected(t, column).track_id = t.track_id
           /\ Corrected(t, column).last_match = column
  <1>1. PICK h \in Nat : h = t.hits + 1
    BY TrackFields
  <1>2. PICK hit : hit = [t EXCEPT !.hits = h, !.time_since_update = 0, !.last_match = column]
    OBVIOUS
  <1>3. hit \in Tracks /\ hit.track_id = t.track_id /\ hit.last_match = column
    BY <1>2 DEF Tracks
  <1>4. PICK found : found = [hit EXCEPT !.state = "confirmed"]
    OBVIOUS
  <1>5. found \in Tracks /\ found.track_id = hit.track_id /\ found.last_match = hit.last_match
    BY <1>3, <1>4 DEF Tracks, TrackStates
  <1>6. Corrected(t, column) = IF hit.state = "lost" THEN found ELSE PromoteIfEarned(hit)
    BY <1>1, <1>2, <1>4 DEF Corrected
  <1> QED BY <1>3, <1>5, <1>6, PromotedTrack

LEMMA MissedTrack ==
    ASSUME NEW t \in Tracks
    PROVE  /\ Missed(t) \in Tracks /\ Missed(t).track_id = t.track_id
           /\ Missed(t).last_match = t.last_match
  <1>1. PICK m \in Nat : m = t.time_since_update + 1
    BY TrackFields
  <1>2. PICK late : late = [t EXCEPT !.time_since_update = m]
    OBVIOUS
  <1>3. /\ late \in Tracks /\ late.track_id = t.track_id /\ late.last_match = t.last_match
    BY <1>2 DEF Tracks
  <1>4. PICK state \in TrackStates :
           state = IF late.state = "tentative" \/ late.time_since_update > MaxAge
                   THEN "removed" ELSE "lost"
    BY DEF TrackStates
  <1>5. Missed(t) = [late EXCEPT !.state = state]
    BY <1>1, <1>2, <1>4 DEF Missed
  <1> QED BY <1>3, <1>5 DEF Tracks

LEMMA NewbornTrack ==
    ASSUME NEW local \in Nat, NEW column \in Nat
    PROVE  /\ Newborn(local, column) \in Tracks /\ Newborn(local, column).track_id = local
           /\ Newborn(local, column).last_match = column
           /\ Newborn(local, column).state # "removed"
  <1>1. PICK t : t = [track_id |-> local, state |-> "tentative", age |-> 1, hits |-> 1,
                      time_since_update |-> 0, last_match |-> column]
    OBVIOUS
  <1>2. t \in Tracks /\ t.track_id = local /\ t.last_match = column /\ t.state = "tentative"
    BY <1>1 DEF Tracks, TrackStates
  <1>3. Newborn(local, column) = PromoteIfEarned(t)
    BY <1>1 DEF Newborn
  <1> QED BY <1>2, <1>3, PromotedTrack

--------------------------------------------------------------------------------
(* What a frame has given the rows so far.                                   *)

(* Pairs of a row and a position in the frame, one at most for each row.     *)
Pairs(pairs, n, columns) ==
    /\ pairs \subseteq (1 .. n) \X columns
    /\ \A x, y \in pairs : x[1] = y[1] => x = y

(* The tracks are those of p, and last_match says what they have been given. *)
Given(q, p, n, pairs) ==
    /\ Pool(q, n) /\ q.lastTrackId = p.lastTrackId
    /\ \A i \in 1 .. n : q.tracks[i].track_id = p.tracks[i].track_id
    /\ \A x \in pairs : q.tracks[x[1]].last_match = x[2]
    /\ \A i \in 1 .. n : (\A x \in pairs : x[1] # i) => q.tracks[i].last_match = 0

LEMMA PredictRows ==
    ASSUME NEW n \in Nat, NEW p, Pool(p, n)
    PROVE  Given(Predict(p), p, n, {})
  <1>1. PICK q : q = Predict(p)
    OBVIOUS
  <1>2. DOMAIN q = Fields /\ q.lastTrackId = p.lastTrackId
    BY <1>1 DEF Predict, Pool, Fields
  <1>3. q.tracks = [i \in Rows(p) |-> Opened(p.tracks[i])]
    BY <1>1 DEF Predict, Pool, Fields, Opened
  <1>4. ASSUME NEW i \in 1 .. n
        PROVE  /\ q.tracks[i] \in Tracks /\ q.tracks[i].track_id = p.tracks[i].track_id
               /\ q.tracks[i].last_match = 0
    <2>1. PICK t \in Tracks : t = p.tracks[i]
      BY DEF Pool
    <2>2. q.tracks[i] = Opened(t)
      BY <1>3, <2>1, RowsArePlaces
    <2> QED BY <2>1, <2>2, OpenedTrack
  <1>5. q.tracks \in [1 .. n -> Tracks]
    BY <1>3, <1>4, RowsArePlaces
  <1> QED BY <1>1, <1>2, <1>4, <1>5 DEF Given, Pool

LEMMA MotionRows ==
    ASSUME NEW n \in Nat, NEW p, NEW q, NEW pairs, Given(q, p, n, pairs), NEW motion
    PROVE  Given(ApplyCameraMotion(q, motion), p, n, pairs)
  <1>1. PICK r : r = ApplyCameraMotion(q, motion)
    OBVIOUS
  <1>2. DOMAIN r = Fields /\ r.lastTrackId = q.lastTrackId /\ r.tracks = q.tracks
    BY <1>1 DEF ApplyCameraMotion, Given, Pool, Fields
  <1> QED BY <1>1, <1>2 DEF Given, Pool

LEMMA MissRows ==
    ASSUME NEW n \in Nat, NEW p, NEW q, NEW pairs, Given(q, p, n, pairs),
           pairs \subseteq (1 .. n) \X Nat, NEW missed
    PROVE  Given(MarkMissed(q, missed), p, n, pairs)
  <1>1. PICK r : r = MarkMissed(q, missed)
    OBVIOUS
  <1>a. Pool(q, n)
    BY DEF Given
  <1>2. /\ DOMAIN r = Fields /\ r.lastTrackId = q.lastTrackId
        /\ r.tracks = [i \in 1 .. n |-> IF i \in Range(missed) THEN Missed(q.tracks[i])
                                                             ELSE q.tracks[i]]
    BY <1>1, <1>a, RowsArePlaces DEF MarkMissed, Pool, Fields
  <1>3. ASSUME NEW i \in 1 .. n
        PROVE  /\ r.tracks[i] \in Tracks /\ r.tracks[i].track_id = q.tracks[i].track_id
               /\ r.tracks[i].last_match = q.tracks[i].last_match
    <2>1. q.tracks[i] \in Tracks
      BY <1>a DEF Pool
    <2> QED BY <1>2, <2>1, MissedTrack
  <1>4. r.tracks \in [1 .. n -> Tracks]
    BY <1>2, <1>3
  <1>5. Pool(r, n)
    BY <1>2, <1>4 DEF Pool
  <1>6. \A x \in pairs : x[1] \in 1 .. n
    OBVIOUS
  <1>7. Given(r, p, n, pairs)
    BY <1>2, <1>3, <1>5, <1>6 DEF Given
  <1> QED BY <1>1, <1>7

LEMMA MatchRows ==
    ASSUME NEW n \in Nat, NEW p, NEW q, NEW before, Given(q, p, n, before),
           Pairs(before, n, Nat), NEW matches, Pairs(Range(matches), n, Nat),
           \A x \in before, y \in Range(matches) : x[1] # y[1],
           NEW detections, NEW position
    PROVE  Given(ApplyMatches(q, matches, detections, position), p, n, before \cup Range(matches))
  <1> DEFINE M == Range(matches)
  <1>a. M = Range(matches)
    OBVIOUS
  <1>b. PICK column : column = ColumnsOf(matches)
    OBVIOUS
  <1>c. PICK r : r = ApplyMatches(q, matches, detections, position)
    OBVIOUS
  <1>d. Pool(q, n) /\ Rows(q) = 1 .. n
    BY RowsArePlaces DEF Given
  <1>1. /\ DOMAIN r = Fields /\ r.lastTrackId = q.lastTrackId
        /\ r.tracks = Written(q.tracks, [row \in DOMAIN column |-> Corrected(q.tracks[row], column[row])])
    BY <1>b, <1>c, <1>d DEF ApplyMatches, Pool, Fields
  <1>f. r.tracks = [row \in 1 .. n |-> IF row \in DOMAIN column
                                       THEN Corrected(q.tracks[row], column[row])
                                       ELSE q.tracks[row]]
    <2>1. DOMAIN q.tracks = 1 .. n
      BY <1>d DEF Pool
    <2> QED BY <1>1, <2>1 DEF Written
  <1>g. column = [row \in {m[1] : m \in M} |-> (CHOOSE m \in M : m[1] = row)[2]]
    BY <1>b DEF ColumnsOf
  <1> HIDE DEF M
  <1>e. Pairs(M, n, Nat) /\ \A x \in before, y \in M : x[1] # y[1]
    BY <1>a
  <1>2. ASSUME NEW y \in M PROVE y[1] \in DOMAIN column /\ column[y[1]] = y[2] /\ y[2] \in Nat
    <2>1. PICK m : m = CHOOSE z \in M : z[1] = y[1]
      OBVIOUS
    <2>2. m \in M /\ m[1] = y[1]
      BY <2>1
    <2>3. m = y
      BY <1>e, <2>2 DEF Pairs
    <2>4. y[1] \in {z[1] : z \in M}
      OBVIOUS
    <2>5. column[y[1]] = m[2]
      BY <1>g, <2>1, <2>4
    <2>6. y[1] \in DOMAIN column
      BY <1>g, <2>4
    <2> QED BY <1>e, <2>6, <2>3, <2>4, <2>5 DEF Pairs
  <1>3. ASSUME NEW y \in M
        PROVE  /\ r.tracks[y[1]] \in Tracks /\ r.tracks[y[1]].track_id = q.tracks[y[1]].track_id
               /\ r.tracks[y[1]].last_match = y[2]
    <2>1. PICK i \in 1 .. n, c \in Nat : i = y[1] /\ c = y[2]
      BY <1>e DEF Pairs
    <2>2. q.tracks[i] \in Tracks
      BY <1>d DEF Pool
    <2>3. i \in DOMAIN column /\ column[i] = c
      BY <1>2, <2>1
    <2>4. r.tracks[i] = Corrected(q.tracks[i], c)
      BY <1>f, <2>3
    <2>5. PICK t \in Tracks : t = q.tracks[i]
      BY <2>2
    <2>6. PICK u : u = Corrected(t, c)
      OBVIOUS
    <2>7. u \in Tracks /\ u.track_id = t.track_id /\ u.last_match = c
      BY <2>6, CorrectedTrack
    <2> QED BY <2>1, <2>4, <2>5, <2>6, <2>7
  <1>4. ASSUME NEW i \in 1 .. n, \A y \in M : y[1] # i PROVE r.tracks[i] = q.tracks[i]
    <2>1. i \notin DOMAIN column
      BY <1>g, <1>4
    <2> QED BY <1>f, <2>1
  <1>5. ASSUME NEW i \in 1 .. n
        PROVE  r.tracks[i] \in Tracks /\ r.tracks[i].track_id = q.tracks[i].track_id
    <2>1. CASE \E y \in M : y[1] = i
      BY <1>3, <2>1
    <2>2. CASE \A y \in M : y[1] # i
      BY <1>4, <1>d, <2>2 DEF Pool
    <2> QED BY <2>1, <2>2
  <1>6. r.tracks \in [1 .. n -> Tracks]
    BY <1>f, <1>5
  <1>7. Pool(r, n)
    BY <1>1, <1>6 DEF Pool
  <1>8. ASSUME NEW x \in before \cup M PROVE r.tracks[x[1]].last_match = x[2]
    <2>1. CASE x \in M
      BY <1>3, <2>1
    <2>2. CASE x \in before
      <3>1. x[1] \in 1 .. n
        BY <2>2 DEF Pairs
      <3>2. r.tracks[x[1]] = q.tracks[x[1]]
        BY <1>4, <1>e, <2>2, <3>1
      <3> QED BY <2>2, <3>2 DEF Given
    <2> QED BY <2>1, <2>2
  <1>9. ASSUME NEW i \in 1 .. n, \A x \in before \cup M : x[1] # i
        PROVE  r.tracks[i].last_match = 0
    <2>1. r.tracks[i] = q.tracks[i]
      BY <1>4, <1>9
    <2> QED BY <1>9, <2>1 DEF Given
  <1>10. r.lastTrackId = p.lastTrackId
    BY <1>1 DEF Given
  <1>11. \A i \in 1 .. n : r.tracks[i].track_id = p.tracks[i].track_id
    BY <1>5 DEF Given
  <1>12. Given(r, p, n, before \cup M)
    BY <1>7, <1>8, <1>9, <1>10, <1>11 DEF Given
  <1> QED BY <1>c, <1>12 DEF M

Spawned(s, q, n, columns) ==
    /\ Pool(s, n + Len(columns)) /\ s.lastTrackId = q.lastTrackId + Len(columns)
    /\ \A i \in 1 .. n : s.tracks[i] = q.tracks[i]
    /\ \A j \in 1 .. Len(columns) : s.tracks[n + j] = Newborn(q.lastTrackId + j, columns[j])

LEMMA SpawnRows ==
    ASSUME NEW n \in Nat, NEW q, Pool(q, n), q.lastTrackId \in Nat,
           NEW columns \in Seq(Nat), NEW detections, NEW position
    PROVE  Spawned(Spawn(q, detections, columns, position), q, n, columns)
  <1>1. PICK s : s = Spawn(q, detections, columns, position)
    OBVIOUS
  <1>2. PICK m \in Nat : m = Len(columns) /\ DOMAIN columns = 1 .. m
    BY LenProperties
  <1>3. PICK born : born = [j \in 1 .. m |-> Newborn(q.lastTrackId + j, columns[j])]
    OBVIOUS
  <1>4. /\ DOMAIN s = Fields /\ s.lastTrackId = q.lastTrackId + m
        /\ s.tracks = q.tracks \o born
    BY <1>1, <1>2, <1>3 DEF Spawn, Pool, Fields
  <1>5. born \in [1 .. m -> Tracks]
    <2>1. ASSUME NEW j \in 1 .. m PROVE Newborn(q.lastTrackId + j, columns[j]) \in Tracks
      <3>1. columns[j] \in Nat /\ q.lastTrackId + j \in Nat
        BY <1>2, ElementOfSeq
      <3> QED BY <3>1, NewbornTrack
    <2> QED BY <1>3, <2>1
  <1>6. q.tracks \in [1 .. n -> Tracks] /\ q.tracks \in Seq(Tracks) /\ Len(q.tracks) = n
    BY RowsArePlaces DEF Pool
  <1>7. born \in Seq(Tracks) /\ Len(born) = m
    BY <1>5, SeqDef
  <1>8. /\ s.tracks \in Seq(Tracks) /\ Len(s.tracks) = n + m
        /\ \A i \in 1 .. n + m : s.tracks[i] = IF i <= n THEN q.tracks[i] ELSE born[i - n]
    <2>1. PICK a \in Seq(Tracks), b \in Seq(Tracks) : a = q.tracks /\ b = born
      BY <1>6, <1>7
    <2>2. PICK c : c = a \o b
      OBVIOUS
    <2>3. /\ c \in Seq(Tracks) /\ Len(c) = Len(a) + Len(b)
          /\ \A i \in 1 .. Len(a) + Len(b) : c[i] = IF i <= Len(a) THEN a[i] ELSE b[i - Len(a)]
      BY <2>2, ConcatProperties
    <2>4. s.tracks = c /\ Len(a) = n /\ Len(b) = m
      BY <1>4, <1>6, <1>7, <2>1, <2>2
    <2> QED BY <2>1, <2>3, <2>4
  <1>9. s.tracks \in [1 .. n + m -> Tracks]
    <2>1. s.tracks \in [1 .. Len(s.tracks) -> Tracks]
      BY <1>8, LenProperties
    <2> QED BY <1>8, <2>1
  <1>10. ASSUME NEW i \in 1 .. n PROVE s.tracks[i] = q.tracks[i]
    <2>1. i \in 1 .. n + m /\ i <= n
      OBVIOUS
    <2> QED BY <1>8, <2>1
  <1>11. ASSUME NEW j \in 1 .. m PROVE s.tracks[n + j] = Newborn(q.lastTrackId + j, columns[j])
    <2>1. n + j \in 1 .. n + m /\ ~(n + j <= n) /\ (n + j) - n = j
      OBVIOUS
    <2>2. s.tracks[n + j] = born[j]
      BY <1>8, <2>1
    <2> QED BY <1>3, <2>2
  <1>12. Pool(s, n + m)
    BY <1>4, <1>9 DEF Pool
  <1> QED BY <1>1, <1>2, <1>4, <1>10, <1>11, <1>12 DEF Spawned

--------------------------------------------------------------------------------
(* The end of a frame.                                                       *)

(* A pool between two frames: ids its counter has given, each once.          *)
Sound(p, n) ==
    /\ Pool(p, n) /\ p.lastTrackId \in Nat
    /\ \A i \in 1 .. n : p.tracks[i].track_id \in 1 .. p.lastTrackId
    /\ \A i, j \in 1 .. n : p.tracks[i].track_id = p.tracks[j].track_id => i = j

(* A row of the pool of before, with what the frame has given it.            *)
Follows(track, p, pairs, r) ==
    /\ track.track_id = p.tracks[r].track_id
    /\ \A x \in pairs : x[1] = r => track.last_match = x[2]
    /\ (\A x \in pairs : x[1] # r) => track.last_match = 0

(* Rows that were there before, then the newborn.                            *)
Closed(q, p, n, pairs, leftovers, c) ==
    /\ Sound(q, c + Len(leftovers)) /\ q.lastTrackId = p.lastTrackId + Len(leftovers)
    /\ \A i \in 1 .. c : \E r \in 1 .. n : Follows(q.tracks[i], p, pairs, r)
    /\ \A j \in 1 .. Len(leftovers) : /\ q.tracks[c + j].track_id = p.lastTrackId + j
                                      /\ q.tracks[c + j].last_match = leftovers[j]

LEMMA ClosedRows ==
    ASSUME NEW n \in Nat, NEW p, Sound(p, n), NEW corrected, NEW pairs,
           Given(corrected, p, n, pairs), Pairs(pairs, n, Nat),
           NEW leftovers \in Seq(Nat), NEW detections, NEW missed, NEW now
    PROVE  \E c \in Nat :
              Closed(Sweep(Spawn(MarkMissed(corrected, missed), detections, leftovers, now)),
                     p, n, pairs, leftovers, c)
  <1>1. PICK m \in Nat : m = Len(leftovers) /\ DOMAIN leftovers = 1 .. m
    BY LenProperties
  <1>2. PICK marked : marked = MarkMissed(corrected, missed)
    OBVIOUS
  <1>3. Given(marked, p, n, pairs)
    <2>1. pairs \subseteq (1 .. n) \X Nat
      BY DEF Pairs
    <2> QED BY <1>2, <2>1, MissRows
  <1>4. PICK grown : grown = Spawn(marked, detections, leftovers, now)
    OBVIOUS
  <1>5. PICK last \in Nat : last = p.lastTrackId
    BY DEF Sound
  <1>6. Pool(marked, n) /\ marked.lastTrackId = last
    BY <1>3, <1>5 DEF Given
  <1>7. /\ Pool(grown, n + m) /\ grown.lastTrackId = last + m
        /\ \A i \in 1 .. n : grown.tracks[i] = marked.tracks[i]
        /\ \A j \in 1 .. m : grown.tracks[n + j] = Newborn(last + j, leftovers[j])
    <2>1. Spawned(grown, marked, n, leftovers)
      BY <1>4, <1>5, <1>6, SpawnRows
    <2> QED BY <1>1, <1>6, <2>1 DEF Spawned
  <1>8. ASSUME NEW j \in 1 .. m
        PROVE  /\ grown.tracks[n + j].track_id = last + j
               /\ grown.tracks[n + j].last_match = leftovers[j]
               /\ Stays(grown, n + j)
    <2>0. leftovers[j] \in Nat /\ last + j \in Nat
      BY <1>1, ElementOfSeq
    <2>1. PICK a \in Nat, b \in Nat : a = last + j /\ b = leftovers[j]
      BY <2>0
    <2>2. PICK t : t = Newborn(a, b)
      OBVIOUS
    <2>3. t.track_id = a /\ t.last_match = b /\ t.state # "removed"
      BY <2>2, NewbornTrack
    <2>4. grown.tracks[n + j] = t
      BY <1>7, <2>1, <2>2
    <2> QED BY <2>1, <2>3, <2>4 DEF Stays
  <1>9. PICK q : q = Sweep(grown)
    OBVIOUS
  <1>10. PICK place : Thinned(q, grown, n + m, place)
    <2>1. PICK all \in Nat : all = n + m
      OBVIOUS
    <2>2. \E place : Thinned(q, grown, all, place)
      BY <1>7, <1>9, <2>1, SweepRows
    <2> QED BY <2>1, <2>2
  <1>11. /\ place[n] \in Nat /\ place[n + m] = place[n] + m
         /\ \A j \in 1 .. m : /\ place[n] + j \in 1 .. place[n + m]
                              /\ q.tracks[place[n] + j] = grown.tracks[n + j]
         /\ \A j \in 1 .. place[n] : \E r \in 1 .. n : Stays(grown, r) /\ place[r] = j
    <2>1. TailKept(q, grown, n, m, place)
      BY <1>8, <1>10, TailStays
    <2> QED BY <2>1 DEF TailKept
  <1>12. PICK c \in Nat : c = place[n]
    BY <1>11
  <1>13. ASSUME NEW j \in 1 .. m
         PROVE  q.tracks[c + j].track_id = last + j /\ q.tracks[c + j].last_match = leftovers[j]
    BY <1>8, <1>11, <1>12
  <1>14. ASSUME NEW i \in 1 .. c
         PROVE  \E r \in 1 .. n : place[r] = i /\ Follows(q.tracks[i], p, pairs, r)
    <2>1. PICK r \in 1 .. n : Stays(grown, r) /\ place[r] = i
      BY <1>11, <1>12
    <2>2. r \in 1 .. (n + m)
      OBVIOUS
    <2>3. q.tracks[i] = grown.tracks[r]
      BY <1>10, <2>1, <2>2 DEF Thinned
    <2>4. q.tracks[i] = marked.tracks[r]
      BY <1>7, <2>3
    <2>5. Follows(marked.tracks[r], p, pairs, r)
      BY <1>3 DEF Given, Follows
    <2> QED BY <2>1, <2>4, <2>5
  <1>15. \A i \in 1 .. (c + m) : i \in 1 .. c \/ \E j \in 1 .. m : i = c + j
    <2>1. ASSUME NEW i \in 1 .. (c + m), i \notin 1 .. c PROVE \E j \in 1 .. m : i = c + j
      <3>1. i - c \in 1 .. m /\ i = c + (i - c)
        BY <2>1
      <3> QED BY <3>1
    <2> QED BY <2>1
  <1>16. ASSUME NEW i \in 1 .. c PROVE q.tracks[i].track_id \in 1 .. last
    <2>1. PICK r \in 1 .. n : Follows(q.tracks[i], p, pairs, r)
      BY <1>14
    <2> QED BY <1>5, <2>1 DEF Follows, Sound
  <1>17. ASSUME NEW i \in 1 .. (c + m) PROVE q.tracks[i].track_id \in 1 .. (last + m)
    <2>1. CASE i \in 1 .. c
      BY <1>16, <2>1
    <2>2. CASE \E j \in 1 .. m : i = c + j
      <3>1. PICK j \in 1 .. m : i = c + j
        BY <2>2
      <3>2. q.tracks[i].track_id = last + j
        BY <1>13, <3>1
      <3> QED BY <3>2
    <2> QED BY <1>15, <2>1, <2>2
  <1>18. ASSUME NEW i \in 1 .. (c + m), NEW j \in 1 .. (c + m),
                q.tracks[i].track_id = q.tracks[j].track_id
         PROVE  i = j
    <2>1. CASE i \in 1 .. c /\ j \in 1 .. c
      <3>1. PICK r \in 1 .. n : place[r] = i /\ Follows(q.tracks[i], p, pairs, r)
        BY <1>14, <2>1
      <3>2. PICK s \in 1 .. n : place[s] = j /\ Follows(q.tracks[j], p, pairs, s)
        BY <1>14, <2>1
      <3>3. p.tracks[r].track_id = p.tracks[s].track_id
        BY <1>18, <3>1, <3>2 DEF Follows
      <3>4. r = s
        BY <3>3 DEF Sound
      <3> QED BY <3>1, <3>2, <3>4
    <2>2. CASE i \in 1 .. c /\ \E x \in 1 .. m : j = c + x
      <3>1. PICK x \in 1 .. m : j = c + x
        BY <2>2
      <3>2. q.tracks[j].track_id = last + x /\ q.tracks[i].track_id \in 1 .. last
        BY <1>13, <1>16, <2>2, <3>1
      <3> QED BY <1>18, <3>2
    <2>3. CASE j \in 1 .. c /\ \E x \in 1 .. m : i = c + x
      <3>1. PICK x \in 1 .. m : i = c + x
        BY <2>3
      <3>2. q.tracks[i].track_id = last + x /\ q.tracks[j].track_id \in 1 .. last
        BY <1>13, <1>16, <2>3, <3>1
      <3> QED BY <1>18, <3>2
    <2>4. CASE (\E x \in 1 .. m : i = c + x) /\ (\E y \in 1 .. m : j = c + y)
      <3>1. PICK x \in 1 .. m, y \in 1 .. m : i = c + x /\ j = c + y
        BY <2>4
      <3>2. q.tracks[i].track_id = last + x /\ q.tracks[j].track_id = last + y
        BY <1>13, <3>1
      <3> QED BY <1>18, <3>1, <3>2
    <2> QED BY <1>15, <2>1, <2>2, <2>3, <2>4
  <1>19. Pool(q, c + m) /\ q.lastTrackId = last + m
    BY <1>7, <1>10, <1>11, <1>12 DEF Thinned
  <1>20. Sound(q, c + m)
    <2>1. q.lastTrackId \in Nat
      BY <1>19
    <2>2. \A i \in 1 .. (c + m) : q.tracks[i].track_id \in 1 .. q.lastTrackId
      BY <1>17, <1>19
    <2>3. \A i, j \in 1 .. (c + m) : q.tracks[i].track_id = q.tracks[j].track_id => i = j
      BY <1>18
    <2> QED BY <1>19, <2>1, <2>2, <2>3, ZenonT(40) DEF Sound
  <1>21. Closed(q, p, n, pairs, leftovers, c)
    BY <1>1, <1>5, <1>13, <1>14, <1>19, <1>20 DEF Closed
  <1> QED BY <1>2, <1>4, <1>9, <1>21

--------------------------------------------------------------------------------
(* A frame's detections.                                                     *)

Tiers == {"high", "low", "noise"}

Detections == [camera : Cameras, frame : 1 .. MaxFrame, column : Nat, tier : Tiers]

Sightings == [frame : Nat, det : Detections]

(* A frame of n detections in the tiers that are said.                       *)
Framed(detections, tiers, n) ==
    /\ detections \in [1 .. n -> Detections]
    /\ \A j \in 1 .. n : detections[j].tier = tiers[j]

LEMMA FrameFacts ==
    ASSUME NEW tag \in Python!Tags, NEW n \in Nat, NEW tiers \in [1 .. n -> Tiers]
    PROVE  Framed(Frame(tag, tiers), tiers, n)
  <1> DEFINE Tier(name) == {j \in 1 .. n : tiers[j] = name}
             Place(j) == Cardinality({i \in Tier(tiers[j]) : i <= j})
                            + IF tiers[j] = "low" THEN Cardinality(Tier("high")) ELSE 0
  <1>1. PICK f : f = Frame(tag, tiers)
    OBVIOUS
  <1>2. f = [j \in 1 .. n |-> Python!Detection(tag, Place(j), tiers[j])]
    BY <1>1 DEF Frame
  <1>3. ASSUME NEW j \in 1 .. n PROVE Place(j) \in Nat
    <2>1. IsFiniteSet(1 .. n)
      BY Numbers
    <2>2. /\ {i \in Tier(tiers[j]) : i <= j} \in SUBSET (1 .. n)
          /\ Tier("high") \in SUBSET (1 .. n)
      OBVIOUS
    <2>3. /\ Cardinality({i \in Tier(tiers[j]) : i <= j}) \in Nat
          /\ Cardinality(Tier("high")) \in Nat
      <3> HIDE DEF Tier
      <3> QED BY <2>1, <2>2, Parts
    <2> HIDE DEF Tier
    <2> QED BY <2>3
  <1> HIDE DEF Place, Tier
  <1>4. ASSUME NEW j \in 1 .. n PROVE f[j] \in Detections /\ f[j].tier = tiers[j]
    <2>1. PICK column \in Nat : column = Place(j)
      BY <1>3
    <2>2. tag.camera \in Cameras /\ tag.frame \in 1 .. MaxFrame /\ tiers[j] \in Tiers
      BY DEF Python!Tags
    <2>3. f[j] = [camera |-> tag.camera, frame |-> tag.frame, column |-> column,
                  tier |-> tiers[j]]
      BY <1>2, <2>1 DEF Python!Detection
    <2> QED BY <2>2, <2>3 DEF Detections
  <1>5. f \in [1 .. n -> Detections]
    BY <1>2, <1>4
  <1> QED BY <1>1, <1>4, <1>5 DEF Framed

LEMMA ScoreFacts ==
    ASSUME NEW ranges \in SUBSET Tiers, NEW most \in Nat, NEW tiers \in Scores(ranges, most)
    PROVE  \E n \in Nat : tiers \in [1 .. n -> Tiers]
  <1>1. PICK n \in 0 .. most : tiers \in [1 .. n -> ranges]
    BY DEF Scores
  <1> QED BY <1>1

(* The positions of a tier, as a set.                                        *)
Tier(tiers, n, name) == {j \in 1 .. n : tiers[j] = name}

LEMMA ColumnFacts ==
    ASSUME NEW n \in Nat, NEW tiers \in [1 .. n -> Tiers], NEW name
    PROVE  Columns(tiers, name) \in Seq(Tier(tiers, n, name))
  <1>1. PICK all : all = [j \in 1 .. n |-> j]
    OBVIOUS
  <1>2. all \in Seq(1 .. n)
    BY <1>1, SeqDef
  <1>3. PICK chosen : chosen = Tier(tiers, n, name)
    OBVIOUS
  <1>4. PICK list : list = Among(all, chosen)
    OBVIOUS
  <1>5. list \in Seq(1 .. n) /\ Range(list) \subseteq chosen
    BY <1>2, <1>4, AmongFacts DEF ListOf
  <1>6. Columns(tiers, name) = list
    BY <1>1, <1>3, <1>4 DEF Columns, Tier
  <1>7. list \in [1 .. Len(list) -> chosen] /\ Len(list) \in Nat
    BY <1>5, LenProperties DEF Range
  <1>8. list \in Seq(chosen)
    BY <1>7, SeqDef
  <1> QED BY <1>3, <1>6, <1>8

--------------------------------------------------------------------------------
(* The appearance of a track, and what it was seen as.                       *)

Clear(seen) == {j \in DOMAIN seen : seen[j].det.tier # "low"}

UpTo(set, j) == {i \in set : i <= j}

Trail(blended, seen) ==
    /\ blended \in Seq(Detections) /\ seen \in Seq(Sightings)
    /\ Len(blended) = Cardinality(Clear(seen))
    /\ \A j \in Clear(seen) : blended[Cardinality(UpTo(Clear(seen), j))] = seen[j].det

LEMMA TrailStarts ==
    ASSUME NEW x \in Sightings, x.det.tier # "low"
    PROVE  Trail(<<x.det>>, <<x>>)
  <1>1. x.det \in Detections
    BY DEF Sightings
  <1>2. PICK d \in Detections : d = x.det
    BY <1>1
  <1>3. /\ <<d>> \in Seq(Detections) /\ Len(<<d>>) = 1 /\ <<d>>[1] = d
        /\ <<x>> \in Seq(Sightings) /\ DOMAIN <<x>> = 1 .. 1 /\ <<x>>[1] = x
    OBVIOUS
  <1>4. Clear(<<x>>) = {1}
    BY <1>3 DEF Clear
  <1>5. UpTo({1}, 1) = {1} /\ Cardinality({1}) = 1
    BY FS_Singleton DEF UpTo
  <1> QED BY <1>2, <1>3, <1>4, <1>5 DEF Trail

(* One sighting more.                                                        *)
LEMMA ClearGrows ==
    ASSUME NEW seen \in Seq(Sightings), NEW x \in Sightings
    PROVE  /\ DOMAIN seen = 1 .. Len(seen) /\ Len(seen) \in Nat
           /\ \A j \in 1 .. Len(seen) : Append(seen, x)[j] = seen[j]
           /\ Append(seen, x)[Len(seen) + 1] = x
           /\ Clear(Append(seen, x)) = IF x.det.tier = "low" THEN Clear(seen)
                                       ELSE Clear(seen) \cup {Len(seen) + 1}
  <1>1. PICK n \in Nat : n = Len(seen)
    OBVIOUS
  <1>2. PICK longer : longer = Append(seen, x)
    OBVIOUS
  <1>3. /\ DOMAIN seen = 1 .. n /\ DOMAIN longer = 1 .. (n + 1)
        /\ longer[n + 1] = x /\ \A j \in 1 .. n : longer[j] = seen[j]
    BY <1>1, <1>2, AppendProperties
  <1>4. \A j : j \in 1 .. (n + 1) <=> j \in 1 .. n \/ j = n + 1
    OBVIOUS
  <1>5. Clear(longer) = IF x.det.tier = "low" THEN Clear(seen) ELSE Clear(seen) \cup {n + 1}
    BY <1>3, <1>4 DEF Clear
  <1> QED BY <1>1, <1>2, <1>3, <1>5

LEMMA TrailStays ==
    ASSUME NEW blended, NEW seen, Trail(blended, seen), NEW x \in Sightings, x.det.tier = "low"
    PROVE  Trail(blended, Append(seen, x))
  <1>1. seen \in Seq(Sightings)
    BY DEF Trail
  <1>2. PICK longer : longer = Append(seen, x)
    OBVIOUS
  <1>3. /\ longer \in Seq(Sightings) /\ Clear(longer) = Clear(seen)
        /\ \A j \in Clear(seen) : longer[j] = seen[j]
    BY <1>1, <1>2, ClearGrows, AppendProperties DEF Clear
  <1> QED BY <1>2, <1>3 DEF Trail

LEMMA TrailGrows ==
    ASSUME NEW blended, NEW seen, Trail(blended, seen), NEW x \in Sightings, x.det.tier # "low"
    PROVE  Trail(Append(blended, x.det), Append(seen, x))
  <1>1. PICK a \in Seq(Detections) : a = blended
    BY DEF Trail
  <1>2. PICK b \in Seq(Sightings) : b = seen
    BY DEF Trail
  <1>3. PICK d \in Detections : d = x.det
    BY DEF Sightings
  <1>4. PICK n \in Nat : n = Len(b) /\ DOMAIN b = 1 .. n
    OBVIOUS
  <1>5. PICK c : c = Clear(b)
    OBVIOUS
  <1>6. PICK a1 : a1 = Append(a, d)
    OBVIOUS
  <1>7. PICK b1 : b1 = Append(b, x)
    OBVIOUS
  <1>8. c \subseteq 1 .. n /\ n + 1 \notin c
    BY <1>4, <1>5 DEF Clear
  <1>9. /\ Clear(b1) = c \cup {n + 1}
        /\ b1 \in Seq(Sightings)
        /\ \A j \in c : b1[j] = b[j]
        /\ b1[n + 1] = x
    BY <1>4, <1>5, <1>7, <1>8, ClearGrows, AppendProperties
  <1>10. PICK s \in Nat : s = Cardinality(c)
    <2>1. IsFiniteSet(1 .. n)
      BY Numbers
    <2> QED BY <1>8, <2>1, Parts
  <1>11. IsFiniteSet(c)
    <2>1. IsFiniteSet(1 .. n)
      BY Numbers
    <2> QED BY <1>8, <2>1, Parts
  <1>12. Cardinality(c \cup {n + 1}) = s + 1
    BY <1>8, <1>10, <1>11, OneMore
  <1>13. /\ Len(a) = s
         /\ \A j \in c : a[Cardinality(UpTo(c, j))] = b[j].det
    BY <1>1, <1>2, <1>5, <1>10 DEF Trail
  <1>14. /\ a1 \in Seq(Detections) /\ Len(a1) = s + 1 /\ a1[s + 1] = d
         /\ \A j \in 1 .. s : a1[j] = a[j]
    BY <1>6, <1>13, AppendProperties
  <1>15. ASSUME NEW j \in c PROVE a1[Cardinality(UpTo(c \cup {n + 1}, j))] = b1[j].det
    <2>1. UpTo(c \cup {n + 1}, j) = UpTo(c, j)
      BY <1>8 DEF UpTo
    <2>2. UpTo(c, j) \in SUBSET c /\ UpTo(c, j) # {}
      BY <1>8 DEF UpTo
    <2>3. Cardinality(UpTo(c, j)) \in 1 .. s
      <3>1. PICK e : e = UpTo(c, j)
        OBVIOUS
      <3>2. IsFiniteSet(e) /\ Cardinality(e) \in Nat /\ Cardinality(e) <= s
        BY <1>10, <1>11, <2>2, <3>1, Parts
      <3>3. Cardinality(e) # 0
        BY <2>2, <3>1, <3>2, FS_EmptySet
      <3> QED BY <3>1, <3>2, <3>3
    <2> QED BY <1>9, <1>13, <1>14, <2>1, <2>3
  <1>16. a1[Cardinality(UpTo(c \cup {n + 1}, n + 1))] = b1[n + 1].det
    <2>1. UpTo(c \cup {n + 1}, n + 1) = c \cup {n + 1}
      <3>1. \A i \in c : i \in 1 .. n
        BY <1>8
      <3>2. \A i \in 1 .. n : i <= n + 1
        OBVIOUS
      <3>3. \A i \in c \cup {n + 1} : i <= n + 1
        BY <3>1, <3>2
      <3> QED BY <3>3 DEF UpTo
    <2> QED BY <1>3, <1>9, <1>12, <1>14, <2>1
  <1>17. Trail(a1, b1)
    BY <1>9, <1>12, <1>14, <1>15, <1>16 DEF Trail
  <1> QED BY <1>1, <1>2, <1>3, <1>6, <1>7, <1>17

--------------------------------------------------------------------------------
(* What an association comes to: each of the rows at most once, each of the  *)
(* columns offered, and the rows left.                                       *)

Owners(pairs) == {x[1] : x \in pairs}

Paired(list, members, S, T) ==
    /\ list \in Seq(S \X T) /\ Range(list) \subseteq members \X T
    /\ \A x, y \in Range(list) : x[1] = y[1] => x = y

Chosen(one, members, S, T) ==
    /\ Paired(one.matches, members, S, T)
    /\ ListOf(one.unmatchedRows, members \ Owners(Range(one.matches)), S)
    /\ one.unmatchedColumns \in Seq(T)

LEMMA AssociationFacts ==
    ASSUME NEW S, NEW T, NEW members, NEW rows, ListOf(rows, members, S),
           NEW columns \in Seq(T), NEW one \in Associations(rows, columns)
    PROVE  Chosen(one, members, S, T)
  <1>1. PICK m \in Python!Matchings(Range(rows), Range(columns)) :
           one = LET paired == Among(rows, DOMAIN m) IN
                 [matches |-> [i \in DOMAIN paired |-> <<paired[i], m[paired[i]]>>],
                  unmatchedRows |-> Without(rows, DOMAIN m),
                  unmatchedColumns |-> Without(columns, {m[r] : r \in DOMAIN m})]
    BY DEF Associations
  <1>2. PICK paired : paired = Among(rows, DOMAIN m)
    OBVIOUS
  <1>3. PICK pairs : pairs = [i \in DOMAIN paired |-> <<paired[i], m[paired[i]]>>]
    OBVIOUS
  <1>4. /\ one.matches = pairs /\ one.unmatchedRows = Without(rows, DOMAIN m)
        /\ one.unmatchedColumns = Without(columns, {m[r] : r \in DOMAIN m})
    BY <1>1, <1>2, <1>3
  <1>5. rows \in Seq(S) /\ Range(rows) = members
    BY DEF ListOf
  <1>6. DOMAIN m \subseteq members /\ \A r \in DOMAIN m : m[r] \in T
    <2>1. \A c \in Range(columns) : c \in T
      <3>1. columns \in [1 .. Len(columns) -> T]
        BY LenProperties
      <3> QED BY <3>1 DEF Range
    <2>2. PICK R \in SUBSET Range(rows) : m \in [R -> Range(columns)]
      BY DEF Python!Matchings
    <2> QED BY <1>5, <2>1, <2>2
  <1>7. paired \in Seq(S) /\ Range(paired) = DOMAIN m
    <2>1. ListOf(paired, Range(rows) \cap DOMAIN m, S)
      BY <1>2, <1>5, AmongFacts
    <2> QED BY <1>5, <1>6, <2>1 DEF ListOf
  <1>8. PICK n \in Nat : n = Len(paired) /\ paired \in [1 .. n -> S]
    BY <1>7, LenProperties
  <1>9. \A i \in 1 .. n : paired[i] \in DOMAIN m
    BY <1>7, <1>8 DEF Range
  <1>10. pairs \in [1 .. n -> S \X T]
    BY <1>3, <1>6, <1>8, <1>9
  <1>11. pairs \in Seq(S \X T)
    BY <1>10, SeqDef
  <1>12. Range(pairs) = {<<r, m[r]>> : r \in DOMAIN m}
    <2>1. \A x : x \in Range(pairs) <=> \E i \in 1 .. n : x = <<paired[i], m[paired[i]]>>
      BY <1>3, <1>8 DEF Range
    <2>2. \A r : r \in DOMAIN m <=> \E i \in 1 .. n : r = paired[i]
      BY <1>7, <1>8 DEF Range
    <2> QED BY <2>1, <2>2
  <1>13. Owners(Range(pairs)) = DOMAIN m
    <2>1. \A r : r \in Owners(Range(pairs)) <=> \E x \in Range(pairs) : r = x[1]
      BY DEF Owners
    <2>2. \A r \in DOMAIN m : <<r, m[r]>> \in Range(pairs) /\ <<r, m[r]>>[1] = r
      BY <1>12
    <2>3. \A x \in Range(pairs) : x[1] \in DOMAIN m
      BY <1>12
    <2> QED BY <2>1, <2>2, <2>3
  <1>14. /\ Range(pairs) \subseteq members \X T
         /\ \A x, y \in Range(pairs) : x[1] = y[1] => x = y
    BY <1>6, <1>12
  <1>15. ListOf(one.unmatchedRows, members \ Owners(Range(pairs)), S)
    <2>1. ListOf(Without(rows, DOMAIN m), Range(rows) \ DOMAIN m, S)
      BY <1>5, WithoutFacts
    <2> QED BY <1>4, <1>5, <1>13, <2>1
  <1>16. one.unmatchedColumns \in Seq(T)
    <2>1. PICK taken : taken = {m[r] : r \in DOMAIN m}
      OBVIOUS
    <2>2. ListOf(Without(columns, taken), Range(columns) \ taken, T)
      BY WithoutFacts
    <2> QED BY <1>4, <2>1, <2>2 DEF ListOf
  <1> QED BY <1>4, <1>11, <1>14, <1>15, <1>16 DEF Chosen, Paired

(* The same pairs, out of more columns.                                      *)
LEMMA PairedAmongMore ==
    ASSUME NEW S, NEW T, NEW U, T \subseteq U, NEW A, NEW list, Paired(list, A, S, T)
    PROVE  Paired(list, A, S, U)
  <1>1. list \in [1 .. Len(list) -> S \X T] /\ Len(list) \in Nat
    BY LenProperties DEF Paired
  <1>2. list \in [1 .. Len(list) -> S \X U]
    BY <1>1
  <1>3. list \in Seq(S \X U)
    BY <1>1, <1>2, SeqDef
  <1> QED BY <1>3 DEF Paired

(* A second association, over rows the first one left.                       *)
Joined(a, b, A, B, S, T) ==
    /\ Paired(a \o b, A \cup B, S, T)
    /\ Range(a \o b) = Range(a) \cup Range(b)
    /\ Owners(Range(a \o b)) = Owners(Range(a)) \cup Owners(Range(b))
    /\ \A x \in Range(a), y \in Range(b) : x[1] # y[1]

LEMMA ThenAnother ==
    ASSUME NEW S, NEW T, NEW a, NEW b, NEW A, NEW B, Paired(a, A, S, T), Paired(b, B, S, T),
           B \cap Owners(Range(a)) = {}
    PROVE  Joined(a, b, A, B, S, T)
  <1>0. /\ a \in Seq(S \X T) /\ Range(a) \subseteq A \X T
        /\ \A x, y \in Range(a) : x[1] = y[1] => x = y
        /\ b \in Seq(S \X T) /\ Range(b) \subseteq B \X T
        /\ \A x, y \in Range(b) : x[1] = y[1] => x = y
    BY DEF Paired
  <1>1. a \o b \in Seq(S \X T) /\ Range(a \o b) = Range(a) \cup Range(b)
    BY <1>0, ConcatProperties, RangeConcatenation
  <1>2. \A x \in Range(a), y \in Range(b) : x[1] # y[1]
    BY <1>0 DEF Owners
  <1>3. \A x, y \in Range(a) \cup Range(b) : x[1] = y[1] => x = y
    BY <1>0, <1>2
  <1>4. Range(a) \cup Range(b) \subseteq (A \cup B) \X T
    BY <1>0
  <1>5. Owners(Range(a) \cup Range(b)) = Owners(Range(a)) \cup Owners(Range(b))
    BY DEF Owners
  <1> QED BY <1>1, <1>2, <1>3, <1>4, <1>5 DEF Paired, Joined

LEMMA PairedIsPairs ==
    ASSUME NEW n \in Nat, NEW d \in Nat, NEW S, NEW A \in SUBSET (1 .. n), NEW list,
           Paired(list, A, S, 1 .. d)
    PROVE  Pairs(Range(list), n, Nat) /\ Pairs(Range(list), n, 1 .. d)
  <1>1. PICK all : all = Range(list)
    OBVIOUS
  <1>2. all \subseteq A \X (1 .. d) /\ \A x, y \in all : x[1] = y[1] => x = y
    BY <1>1 DEF Paired
  <1>3. (1 .. d) \subseteq Nat
    OBVIOUS
  <1>4. all \subseteq (1 .. n) \X (1 .. d)
    BY <1>2
  <1>5. all \subseteq (1 .. n) \X Nat
    BY <1>3, <1>4
  <1> QED BY <1>1, <1>2, <1>4, <1>5 DEF Pairs

(* What a correction leaves, when nothing had been given yet and when it is  *)
(* not the first.                                                            *)
LEMMA FirstMatches ==
    ASSUME NEW n \in Nat, NEW d \in Nat, NEW p, NEW q, Given(q, p, n, {}),
           NEW A \in SUBSET (1 .. n), NEW a, Paired(a, A, 1 .. n, 1 .. d),
           NEW detections, NEW position
    PROVE  Given(ApplyMatches(q, a, detections, position), p, n, Range(a))
  <1>1. Pairs({}, n, Nat)
    BY DEF Pairs
  <1>2. Pairs(Range(a), n, Nat)
    BY PairedIsPairs
  <1>3. Given(ApplyMatches(q, a, detections, position), p, n, {} \cup Range(a))
    BY <1>1, <1>2, MatchRows
  <1>4. {} \cup Range(a) = Range(a)
    OBVIOUS
  <1> QED BY <1>3, <1>4

LEMMA MoreMatches ==
    ASSUME NEW n \in Nat, NEW d \in Nat, NEW p, NEW q, NEW a, Given(q, p, n, Range(a)),
           NEW A \in SUBSET (1 .. n), Paired(a, A, 1 .. n, 1 .. d),
           NEW B \in SUBSET (1 .. n), NEW b, Paired(b, B, 1 .. n, 1 .. d),
           B \cap Owners(Range(a)) = {}, NEW detections, NEW position
    PROVE  Given(ApplyMatches(q, b, detections, position), p, n, Range(a \o b))
  <1>1. Pairs(Range(a), n, Nat) /\ Pairs(Range(b), n, Nat)
    BY PairedIsPairs
  <1>2. /\ \A x \in Range(a), y \in Range(b) : x[1] # y[1]
        /\ Range(a \o b) = Range(a) \cup Range(b)
    <2>1. PICK S, T : S = 1 .. n /\ T = 1 .. d
      OBVIOUS
    <2>2. Paired(a, A, S, T) /\ Paired(b, B, S, T)
      BY <2>1
    <2>3. Joined(a, b, A, B, S, T)
      BY <2>2, ThenAnother
    <2> QED BY <2>3 DEF Joined
  <1>3. Given(ApplyMatches(q, b, detections, position), p, n, Range(a) \cup Range(b))
    BY <1>1, <1>2, MatchRows
  <1> QED BY <1>2, <1>3

--------------------------------------------------------------------------------
(* Absorb: the two maps after a frame.                                       *)

(* Who is alive after a frame: rows of before, and the newborn.              *)
Survived(q, p, c, m) ==
    /\ Rows(q) = 1 .. (c + m)
    /\ \A i \in 1 .. (c + m) : i \in 1 .. c \/ \E j \in 1 .. m : i = c + j
    /\ \A i \in 1 .. (c + m) : q.tracks[i].track_id \in Live(q)
    /\ \A i, j \in 1 .. (c + m) : q.tracks[i].track_id = q.tracks[j].track_id => i = j
    /\ \A local \in Live(q) : \E i \in 1 .. (c + m) : local = q.tracks[i].track_id
    /\ \A i \in 1 .. c : q.tracks[i].track_id \in Live(p)
    /\ \A j \in 1 .. m : /\ c + j \in 1 .. (c + m) /\ q.tracks[c + j].track_id \notin Live(p)
                         /\ q.tracks[c + j].track_id = p.lastTrackId + j

LEMMA SurvivedRows ==
    ASSUME NEW n \in Nat, NEW p, Sound(p, n), NEW q, NEW pairs, NEW leftovers, NEW c \in Nat,
           NEW m \in Nat, Len(leftovers) = m, Closed(q, p, n, pairs, leftovers, c)
    PROVE  Survived(q, p, c, m)
  <1>1. PICK all \in Nat : all = c + m
    OBVIOUS
  <1>2. PICK last \in Nat : last = p.lastTrackId
    BY DEF Sound
  <1>3. Sound(q, all)
    BY <1>1 DEF Closed
  <1>4. Rows(q) = 1 .. all
    BY <1>3, RowsArePlaces DEF Sound
  <1>5. Rows(p) = 1 .. n
    BY RowsArePlaces DEF Sound
  <1>6. Live(q) = {q.tracks[i].track_id : i \in 1 .. all}
    BY <1>4 DEF Live
  <1>7. Live(p) = {p.tracks[i].track_id : i \in 1 .. n}
    BY <1>5 DEF Live
  <1>8. ASSUME NEW i \in 1 .. c PROVE q.tracks[i].track_id \in Live(p)
    <2>1. PICK r \in 1 .. n : Follows(q.tracks[i], p, pairs, r)
      BY DEF Closed
    <2> QED BY <1>7, <2>1 DEF Follows
  <1>9. ASSUME NEW j \in 1 .. m
        PROVE  /\ c + j \in 1 .. all /\ q.tracks[c + j].track_id = last + j
               /\ q.tracks[c + j].track_id \notin Live(p)
    <2>1. q.tracks[c + j].track_id = last + j
      BY <1>2 DEF Closed
    <2>2. \A i \in 1 .. n : p.tracks[i].track_id \in 1 .. last
      BY <1>2 DEF Sound
    <2>3. last + j \notin 1 .. last /\ c + j \in 1 .. all
      BY <1>1
    <2> QED BY <1>7, <2>1, <2>2, <2>3
  <1>10. ASSUME NEW i \in 1 .. all, i \notin 1 .. c PROVE \E j \in 1 .. m : i = c + j
    <2>1. i - c \in 1 .. m /\ i = c + (i - c)
      BY <1>1, <1>10
    <2> QED BY <2>1
  <1>11. \A i, j \in 1 .. all : q.tracks[i].track_id = q.tracks[j].track_id => i = j
    BY <1>3 DEF Sound
  <1> QED BY <1>1, <1>2, <1>4, <1>6, <1>8, <1>9, <1>10, <1>11 DEF Survived

LEMMA Renamed ==
    ASSUME NEW c \in Nat, NEW m \in Nat, NEW q, NEW p, Survived(q, p, c, m),
           p.lastTrackId \in Nat
    PROVE  Cardinality(Live(q) \ Live(p)) = m
  <1>1. PICK last \in Nat : last = p.lastTrackId
    OBVIOUS
  <1>2. ASSUME NEW x \in Live(q) \ Live(p) PROVE x \in (last + 1) .. (last + m)
    <2>1. PICK i \in 1 .. (c + m) : x = q.tracks[i].track_id
      BY DEF Survived
    <2>2. i \notin 1 .. c
      BY <2>1 DEF Survived
    <2>3. PICK j \in 1 .. m : i = c + j
      BY <2>2 DEF Survived
    <2>4. x = last + j
      BY <1>1, <2>1, <2>3 DEF Survived
    <2> QED BY <2>4
  <1>3. ASSUME NEW x \in (last + 1) .. (last + m) PROVE x \in Live(q) \ Live(p)
    <2>1. PICK j \in 1 .. m : x = last + j
      <3>1. x - last \in 1 .. m /\ x = last + (x - last)
        OBVIOUS
      <3> QED BY <3>1
    <2>2. x = q.tracks[c + j].track_id /\ c + j \in 1 .. (c + m)
      BY <1>1, <2>1 DEF Survived
    <2> QED BY <2>2 DEF Survived
  <1>4. Live(q) \ Live(p) = (last + 1) .. (last + m)
    BY <1>2, <1>3
  <1>5. Cardinality((last + 1) .. (last + m)) = m
    <2>1. last + 1 \in Int /\ last + m \in Int
      OBVIOUS
    <2>2. Cardinality((last + 1) .. (last + m))
            = IF last + 1 > last + m THEN 0 ELSE (last + m) - (last + 1) + 1
      BY <2>1, FS_Interval
    <2> QED BY <2>2
  <1> QED BY <1>4, <1>5

(* The names after a frame.                                                  *)
Renumbered(named, map, q, c, m) ==
    /\ DOMAIN named = Live(q)
    /\ \A i \in 1 .. c : named[q.tracks[i].track_id] = map[q.tracks[i].track_id]
    /\ \A j \in 1 .. m : named[q.tracks[c + j].track_id] = issued + j

LEMMA NumberedRows ==
    ASSUME NEW c \in Nat, NEW m \in Nat, NEW q, NEW p, Survived(q, p, c, m),
           NEW map, DOMAIN map = Live(p), issued \in Nat,
           NEW named, named = Numbered(Evicted(map, Live(q)), q)
    PROVE  Renumbered(named, map, q, c, m)
  <1>1. PICK old : old = Evicted(map, Live(q))
    OBVIOUS
  <1>2. /\ DOMAIN old = Live(p) \cap Live(q)
        /\ \A local \in Live(p) \cap Live(q) : old[local] = map[local]
    BY <1>1 DEF Evicted
  <1>3. PICK new : new = {i \in Rows(q) : q.tracks[i].track_id \notin DOMAIN old}
    OBVIOUS
  <1>4. PICK given : given =
           [local \in {q.tracks[i].track_id : i \in new} |->
               issued + Cardinality({i \in new : i <= RowOf(q, new, local)})]
    OBVIOUS
  <1>5. named = Over(given, old)
    BY <1>1, <1>3, <1>4 DEF Numbered
  <1>6. ASSUME NEW i \in 1 .. (c + m) PROVE i \in new <=> i \notin 1 .. c
    <2>1. CASE i \in 1 .. c
      BY <1>2, <1>3, <2>1 DEF Survived
    <2>2. CASE i \notin 1 .. c
      <3>1. PICK j \in 1 .. m : i = c + j
        BY <2>2 DEF Survived
      <3>2. q.tracks[i].track_id \notin Live(p)
        BY <3>1 DEF Survived
      <3>3. i \in Rows(q)
        BY DEF Survived
      <3> QED BY <1>2, <1>3, <2>2, <3>2, <3>3
    <2> QED BY <2>1, <2>2
  <1>7. new \subseteq 1 .. (c + m)
    BY <1>3 DEF Survived
  <1>8. new = (c + 1) .. (c + m)
    <2>1. \A i : i \in (c + 1) .. (c + m) <=> i \in 1 .. (c + m) /\ i \notin 1 .. c
      OBVIOUS
    <2> QED BY <1>6, <1>7, <2>1
  <1>9. ASSUME NEW j \in 1 .. m
        PROVE  /\ q.tracks[c + j].track_id \in DOMAIN given
               /\ given[q.tracks[c + j].track_id] = issued + j
    <2>1. c + j \in new
      BY <1>8
    <2>2. PICK i : i = RowOf(q, new, q.tracks[c + j].track_id)
      OBVIOUS
    <2>3. i \in new /\ q.tracks[i].track_id = q.tracks[c + j].track_id
      BY <2>1, <2>2 DEF RowOf
    <2>4. i = c + j
      BY <1>7, <2>1, <2>3 DEF Survived
    <2>5. q.tracks[c + j].track_id \in DOMAIN given
      BY <1>4, <2>1
    <2>6. given[q.tracks[c + j].track_id] = issued + Cardinality({x \in new : x <= c + j})
      BY <1>4, <2>2, <2>4, <2>5
    <2>7. {x \in new : x <= c + j} = (c + 1) .. (c + j)
      <3>1. \A x : x \in (c + 1) .. (c + m) /\ x <= c + j <=> x \in (c + 1) .. (c + j)
        OBVIOUS
      <3> QED BY <1>8, <3>1
    <2>8. Cardinality((c + 1) .. (c + j)) = j
      <3>1. c + 1 \in Int /\ c + j \in Int
        OBVIOUS
      <3>2. Cardinality((c + 1) .. (c + j))
              = IF c + 1 > c + j THEN 0 ELSE (c + j) - (c + 1) + 1
        BY <3>1, FS_Interval
      <3> QED BY <3>2
    <2> QED BY <2>5, <2>6, <2>7, <2>8
  <1>10. ASSUME NEW i \in 1 .. c
         PROVE  q.tracks[i].track_id \notin DOMAIN given
    <2>1. i \in 1 .. (c + m) /\ i \notin new
      BY <1>8
    <2>2. \A x \in new : x \in 1 .. (c + m) /\ q.tracks[x].track_id # q.tracks[i].track_id
      BY <1>7, <2>1 DEF Survived
    <2> QED BY <1>4, <2>2
  <1>11. DOMAIN named = Live(q)
    <2>1. DOMAIN named = DOMAIN given \cup (Live(p) \cap Live(q))
      BY <1>2, <1>5 DEF Over
    <2>2. DOMAIN given \subseteq Live(q)
      BY <1>4, <1>7 DEF Survived
    <2>3. ASSUME NEW local \in Live(q) PROVE local \in DOMAIN named
      <3>1. PICK i \in 1 .. (c + m) : local = q.tracks[i].track_id
        BY DEF Survived
      <3>2. CASE i \in 1 .. c
        BY <2>1, <3>1, <3>2 DEF Survived
      <3>3. CASE \E j \in 1 .. m : i = c + j
        BY <1>9, <2>1, <3>1, <3>3
      <3> QED BY <3>2, <3>3 DEF Survived
    <2> QED BY <2>1, <2>2, <2>3
  <1>12. ASSUME NEW i \in 1 .. c
         PROVE  named[q.tracks[i].track_id] = map[q.tracks[i].track_id]
    <2>1. i \in 1 .. (c + m)
      OBVIOUS
    <2>2. q.tracks[i].track_id \in Live(p) \cap Live(q)
      BY <2>1 DEF Survived
    <2> QED BY <1>2, <1>5, <1>10, <2>2 DEF Over
  <1>13. ASSUME NEW j \in 1 .. m PROVE named[q.tracks[c + j].track_id] = issued + j
    BY <1>5, <1>9 DEF Over
  <1> QED BY <1>11, <1>12, <1>13 DEF Renumbered

(* The row brought a crop to be blended.                                     *)
Crop(q, detections, i) ==
    q.tracks[i].last_match # 0 /\ detections[q.tracks[i].last_match].tier # "low"

(* The appearance of a row after a frame, given the one of its track before. *)
Grown(blended, q, detections, i) ==
    IF Crop(q, detections, i) THEN Append(blended, detections[q.tracks[i].last_match])
                              ELSE blended

(* The appearances after a frame.                                            *)
Reblended(after, blend, q, detections, c, m) ==
    /\ DOMAIN after = Live(q)
    /\ \A i \in 1 .. c :
          after[q.tracks[i].track_id] = Grown(blend[q.tracks[i].track_id], q, detections, i)
    /\ \A j \in 1 .. m :
          after[q.tracks[c + j].track_id] =
              Append(<<>>, detections[q.tracks[c + j].last_match])

LEMMA BlendedRows ==
    ASSUME NEW c \in Nat, NEW m \in Nat, NEW q, NEW p, Survived(q, p, c, m),
           NEW old, DOMAIN old = Live(p), NEW detections,
           \A j \in 1 .. m : Crop(q, detections, c + j),
           NEW blend, blend = Evicted(Blended(old, q, detections), Live(q))
    PROVE  Reblended(blend, old, q, detections, c, m)
  <1>1. PICK crops : crops = Crops(q, detections)
    OBVIOUS
  <1>2. PICK new : new =
           [local \in {q.tracks[i].track_id : i \in crops} |->
               Append(Before(old, local), detections[q.tracks[RowOf(q, crops, local)].last_match])]
    OBVIOUS
  <1>3. PICK both : both = Over(new, old)
    OBVIOUS
  <1>4. blend = [local \in DOMAIN both \cap Live(q) |-> both[local]]
    BY <1>1, <1>2, <1>3 DEF Evicted, Blended
  <1>5. crops = {i \in 1 .. (c + m) : Crop(q, detections, i)}
    BY <1>1 DEF Survived, Crops, Crop
  <1>6. ASSUME NEW i \in 1 .. (c + m), Crop(q, detections, i)
        PROVE  /\ q.tracks[i].track_id \in DOMAIN new
               /\ new[q.tracks[i].track_id] =
                     Append(Before(old, q.tracks[i].track_id), detections[q.tracks[i].last_match])
    <2>1. i \in crops
      BY <1>5, <1>6
    <2>2. PICK x : x = RowOf(q, crops, q.tracks[i].track_id)
      OBVIOUS
    <2>3. x \in crops /\ q.tracks[x].track_id = q.tracks[i].track_id
      BY <2>1, <2>2 DEF RowOf
    <2>4. x = i
      BY <1>5, <2>1, <2>3 DEF Survived
    <2>5. q.tracks[i].track_id \in DOMAIN new
      BY <1>2, <2>1
    <2> QED BY <1>2, <2>2, <2>4, <2>5
  <1>7. ASSUME NEW i \in 1 .. (c + m), ~ Crop(q, detections, i)
        PROVE  q.tracks[i].track_id \notin DOMAIN new
    <2>1. \A x \in crops : x \in 1 .. (c + m) /\ q.tracks[x].track_id # q.tracks[i].track_id
      BY <1>5, <1>7 DEF Survived
    <2> QED BY <1>2, <2>1
  <1>8. ASSUME NEW i \in 1 .. c PROVE i \in 1 .. (c + m)
    OBVIOUS
  <1>9. DOMAIN both = DOMAIN new \cup Live(p)
    BY <1>3 DEF Over
  <1>10. DOMAIN blend = Live(q)
    <2>1. ASSUME NEW local \in Live(q) PROVE local \in DOMAIN both
      <3>1. PICK i \in 1 .. (c + m) : local = q.tracks[i].track_id
        BY DEF Survived
      <3>2. CASE i \in 1 .. c
        BY <1>9, <3>1, <3>2 DEF Survived
      <3>3. CASE i \notin 1 .. c
        <4>1. PICK j \in 1 .. m : i = c + j
          BY <3>3 DEF Survived
        <4> QED BY <1>6, <1>9, <3>1, <4>1
      <3> QED BY <3>2, <3>3
    <2> QED BY <1>4, <2>1
  <1>11. ASSUME NEW i \in 1 .. (c + m)
         PROVE  q.tracks[i].track_id \in Live(q) /\ blend[q.tracks[i].track_id] = both[q.tracks[i].track_id]
    <2>1. q.tracks[i].track_id \in Live(q)
      BY DEF Survived
    <2> QED BY <1>4, <1>10, <2>1
  <1>12. ASSUME NEW i \in 1 .. c
         PROVE  blend[q.tracks[i].track_id] =
                     IF Crop(q, detections, i)
                     THEN Append(old[q.tracks[i].track_id], detections[q.tracks[i].last_match])
                     ELSE old[q.tracks[i].track_id]
    <2>1. q.tracks[i].track_id \in DOMAIN both /\ q.tracks[i].track_id \in DOMAIN old
      BY <1>9 DEF Survived
    <2>2. Before(old, q.tracks[i].track_id) = old[q.tracks[i].track_id]
      BY <2>1 DEF Before
    <2>3. both[q.tracks[i].track_id] = IF q.tracks[i].track_id \in DOMAIN new
                                       THEN new[q.tracks[i].track_id]
                                       ELSE old[q.tracks[i].track_id]
      BY <1>3, <2>1 DEF Over
    <2>4. CASE Crop(q, detections, i)
      BY <1>6, <1>8, <1>11, <2>2, <2>3, <2>4
    <2>5. CASE ~ Crop(q, detections, i)
      BY <1>7, <1>8, <1>11, <2>3, <2>5
    <2> QED BY <2>4, <2>5
  <1>13. ASSUME NEW j \in 1 .. m
         PROVE  blend[q.tracks[c + j].track_id] =
                     Append(<<>>, detections[q.tracks[c + j].last_match])
    <2>1. c + j \in 1 .. (c + m) /\ q.tracks[c + j].track_id \notin DOMAIN old
      BY DEF Survived
    <2>2. Before(old, q.tracks[c + j].track_id) = <<>>
      BY <2>1 DEF Before
    <2>3. /\ q.tracks[c + j].track_id \in DOMAIN new
          /\ new[q.tracks[c + j].track_id] =
                     Append(Before(old, q.tracks[c + j].track_id), detections[q.tracks[c + j].last_match])
      BY <1>6, <2>1
    <2>4. both[q.tracks[c + j].track_id] = new[q.tracks[c + j].track_id]
      BY <1>3, <2>3 DEF Over
    <2> QED BY <1>11, <2>1, <2>2, <2>3, <2>4
  <1> QED BY <1>10, <1>12, <1>13 DEF Reblended, Grown

(* The tracks given something in a frame are those of its pairs.             *)
EachGiven(given, map, p, pairs, detections, frame) ==
    /\ \A x \in pairs :
          /\ map[p.tracks[x[1]].track_id] \in DOMAIN given
          /\ given[map[p.tracks[x[1]].track_id]] = [frame |-> frame, det |-> detections[x[2]]]
    /\ \A id \in DOMAIN given : \E x \in pairs : id = map[p.tracks[x[1]].track_id]

Injective(map, locals) == \A l, m \in locals : map[l] = map[m] => l = m

LEMMA GivenRows ==
    ASSUME NEW n \in Nat, NEW p, Sound(p, n), NEW corrected, NEW matches,
           Given(corrected, p, n, Range(matches)), NEW d \in Nat,
           Pairs(Range(matches), n, 1 .. d),
           NEW map, Injective(map, Live(p)),
           NEW detections, NEW frame,
           NEW given, given = GivenTo(map, corrected, matches, detections, frame)
    PROVE  EachGiven(given, map, p, Range(matches), detections, frame)
  <1>1. PICK all : all = Range(matches)
    OBVIOUS
  <1>2. given = [id \in {Name(map, corrected, x) : x \in all} |->
                   [frame |-> frame, det |-> detections[MatchOf(map, corrected, matches, id)[2]]]]
    BY <1>1 DEF GivenTo
  <1>3. ASSUME NEW x \in all
        PROVE  x[1] \in 1 .. n /\ Name(map, corrected, x) = map[p.tracks[x[1]].track_id]
    <2>1. x[1] \in 1 .. n
      BY <1>1 DEF Pairs
    <2> QED BY <2>1 DEF Given, Name
  <1>4. ASSUME NEW x \in all
        PROVE  MatchOf(map, corrected, matches, map[p.tracks[x[1]].track_id]) = x
    <2>1. PICK y : y = MatchOf(map, corrected, matches, map[p.tracks[x[1]].track_id])
      OBVIOUS
    <2>2. y \in all /\ Name(map, corrected, y) = map[p.tracks[x[1]].track_id]
      BY <1>1, <1>3, <2>1 DEF MatchOf
    <2>3. map[p.tracks[y[1]].track_id] = map[p.tracks[x[1]].track_id]
      BY <1>3, <2>2
    <2>4. p.tracks[y[1]].track_id \in Live(p) /\ p.tracks[x[1]].track_id \in Live(p)
      <3>1. Rows(p) = 1 .. n
        BY RowsArePlaces DEF Sound
      <3> QED BY <1>3, <2>2, <3>1 DEF Live
    <2>5. p.tracks[y[1]].track_id = p.tracks[x[1]].track_id
      BY <2>3, <2>4 DEF Injective
    <2>6. y[1] = x[1]
      BY <1>3, <2>2, <2>5 DEF Sound
    <2>7. y = x
      BY <1>1, <2>2, <2>6 DEF Pairs
    <2> QED BY <2>1, <2>7
  <1>5. ASSUME NEW x \in all
        PROVE  /\ map[p.tracks[x[1]].track_id] \in DOMAIN given
               /\ given[map[p.tracks[x[1]].track_id]]
                     = [frame |-> frame, det |-> detections[x[2]]]
    <2>1. map[p.tracks[x[1]].track_id] \in {Name(map, corrected, y) : y \in all}
      BY <1>3
    <2>2. map[p.tracks[x[1]].track_id] \in DOMAIN given
      BY <1>2, <2>1
    <2> QED BY <1>2, <1>4, <2>1, <2>2
  <1>6. ASSUME NEW id \in DOMAIN given
        PROVE  \E x \in all : id = map[p.tracks[x[1]].track_id]
    <2>1. PICK x \in all : id = Name(map, corrected, x)
      BY <1>2
    <2> QED BY <1>3, <2>1
  <1> QED BY <1>1, <1>5, <1>6 DEF EachGiven

(* A tracker whose maps follow its pool.                                     *)
Followed(p, n, map, blend, seen) ==
    /\ Sound(p, n)
    /\ DOMAIN map = Live(p) /\ DOMAIN blend = Live(p)
    /\ \A l \in Live(p) : map[l] \in DOMAIN seen /\ Trail(blend[l], seen[map[l]])
    /\ \A l, m \in Live(p) : map[l] = map[m] => l = m

(* What has been seen after a frame, of those named before it and of those   *)
(* it names.                                                                 *)
Recorded(next, seen, given, detections, leftovers, frame, m) ==
    /\ DOMAIN next = 1 .. issued + m
    /\ \A id \in 1 .. issued :
          next[id] = IF id \in DOMAIN given THEN Append(seen[id], given[id]) ELSE seen[id]
    /\ \A j \in 1 .. m :
          next[issued + j] = <<[frame |-> frame, det |-> detections[leftovers[j]]]>>

(* The track a row of before still holds.                                    *)
LEMMA SurvivorFollowed ==
    ASSUME NEW n \in Nat, NEW p, NEW map, NEW blend, NEW seen, Followed(p, n, map, blend, seen),
           issued \in Nat, DOMAIN seen = 1 .. issued,
           NEW d \in Nat, NEW tiers \in [1 .. d -> Tiers], NEW detections,
           Framed(detections, tiers, d), NEW frame \in Nat,
           NEW corrected, NEW matches, Given(corrected, p, n, Range(matches)),
           Pairs(Range(matches), n, 1 .. d), NEW leftovers, NEW m \in Nat,
           NEW given, given = GivenTo(map, corrected, matches, detections, frame),
           NEW next, Recorded(next, seen, given, detections, leftovers, frame, m),
           NEW q, NEW i, NEW r \in 1 .. n, Follows(q.tracks[i], p, Range(matches), r),
           NEW after, after = Grown(blend[q.tracks[i].track_id], q, detections, i)
    PROVE  Trail(after, next[map[q.tracks[i].track_id]])
  <1>1. PICK all : all = Range(matches)
    OBVIOUS
  <1>2. /\ \A x \in all : /\ map[p.tracks[x[1]].track_id] \in DOMAIN given
                          /\ given[map[p.tracks[x[1]].track_id]]
                                = [frame |-> frame, det |-> detections[x[2]]]
        /\ \A id \in DOMAIN given : \E x \in all : id = map[p.tracks[x[1]].track_id]
    <2>1. Sound(p, n) /\ Injective(map, Live(p))
      BY DEF Followed, Injective
    <2>2. EachGiven(given, map, p, Range(matches), detections, frame)
      BY <2>1, GivenRows
    <2>3. EachGiven(given, map, p, all, detections, frame)
      BY <1>1, <2>2
    <2> QED BY <2>3 DEF EachGiven
  <1>3. PICK id : id = q.tracks[i].track_id
    OBVIOUS
  <1>4. id = p.tracks[r].track_id
    BY <1>3 DEF Follows
  <1>5. \A s \in 1 .. n : p.tracks[s].track_id \in Live(p)
    <2>1. Rows(p) = 1 .. n
      BY RowsArePlaces DEF Followed, Sound
    <2> QED BY <2>1 DEF Live
  <1>6. id \in Live(p)
    BY <1>4, <1>5
  <1>7. PICK name \in 1 .. issued : name = map[id]
    BY <1>6 DEF Followed
  <1>a. map[q.tracks[i].track_id] = name
    BY <1>3, <1>7
  <1>8. Trail(blend[id], seen[name])
    BY <1>6, <1>7 DEF Followed
  <1>9. next[name] = IF name \in DOMAIN given THEN Append(seen[name], given[name]) ELSE seen[name]
    BY DEF Recorded
  <1>10. CASE \E x \in all : x[1] = r
    <2>1. PICK x \in all : x[1] = r
      BY <1>10
    <2>2. PICK column \in 1 .. d : column = x[2]
      BY <1>1 DEF Pairs
    <2>3. q.tracks[i].last_match = column /\ column # 0
      BY <1>1, <2>1, <2>2 DEF Follows
    <2>4. PICK s : s = [frame |-> frame, det |-> detections[column]]
      OBVIOUS
    <2>5. /\ s \in Sightings /\ s.det = detections[column]
      <3>1. detections[column] \in Detections
        BY DEF Framed
      <3> QED BY <2>4, <3>1 DEF Sightings
    <2>6. next[name] = Append(seen[name], s)
      <3>1. map[p.tracks[x[1]].track_id] = name
        BY ONLY <1>4, <1>7, <2>1
      <3>2. x \in all
        OBVIOUS
      <3>3. name \in DOMAIN given /\ given[name] = s
        BY ONLY <1>2, <2>2, <2>4, <3>1, <3>2
      <3> QED BY ONLY <1>9, <3>3
    <2>7. Crop(q, detections, i) <=> s.det.tier # "low"
      BY <2>3, <2>5 DEF Crop
    <2>8. CASE s.det.tier = "low"
      <3>1. after = blend[id]
        BY <1>3, <2>7, <2>8 DEF Grown
      <3>2. Trail(blend[id], Append(seen[name], s))
        BY <1>8, <2>5, <2>8, TrailStays
      <3> QED BY ONLY <1>a, <2>6, <3>1, <3>2
    <2>9. CASE s.det.tier # "low"
      <3>1. after = Append(blend[id], s.det)
        BY <1>3, <2>3, <2>5, <2>7, <2>9 DEF Grown
      <3>2. Trail(Append(blend[id], s.det), Append(seen[name], s))
        BY <1>8, <2>5, <2>9, TrailGrows
      <3> QED BY ONLY <1>a, <2>6, <3>1, <3>2
    <2> QED BY <2>8, <2>9
  <1>11. CASE \A x \in all : x[1] # r
    <2>1. q.tracks[i].last_match = 0
      BY <1>1, <1>11 DEF Follows
    <2>2. after = blend[id]
      BY <1>3, <2>1 DEF Crop, Grown
    <2>3. name \notin DOMAIN given
      <3>1. SUFFICES ASSUME name \in DOMAIN given PROVE FALSE
        OBVIOUS
      <3>2. PICK x \in all : name = map[p.tracks[x[1]].track_id]
        BY <1>2, <3>1
      <3>3. x[1] \in 1 .. n
        BY <1>1 DEF Pairs
      <3>4. p.tracks[x[1]].track_id = p.tracks[r].track_id
        BY <1>4, <1>5, <1>6, <1>7, <3>2, <3>3 DEF Followed
      <3>5. x[1] = r
        BY <3>3, <3>4 DEF Followed, Sound
      <3> QED BY <1>11, <3>5
    <2> QED BY <1>3, <1>7, <1>8, <1>9, <2>2, <2>3
  <1> QED BY <1>10, <1>11

(* The track a newborn row holds.                                            *)
LEMMA NewbornFollowed ==
    ASSUME NEW d \in Nat, NEW tiers \in [1 .. d -> Tiers], NEW detections,
           Framed(detections, tiers, d), NEW frame \in Nat, NEW column \in 1 .. d,
           tiers[column] = "high"
    PROVE  Trail(Append(<<>>, detections[column]),
                 <<[frame |-> frame, det |-> detections[column]]>>)
  <1>1. PICK s : s = [frame |-> frame, det |-> detections[column]]
    OBVIOUS
  <1>2. s \in Sightings /\ s.det = detections[column] /\ s.det.tier # "low"
    <2>1. detections[column] \in Detections /\ detections[column].tier = "high"
      BY DEF Framed
    <2> QED BY <1>1, <2>1 DEF Sightings
  <1>3. Trail(<<s.det>>, <<s>>)
    BY <1>2, TrailStarts
  <1>4. Append(<<>>, s.det) = <<s.det>>
    OBVIOUS
  <1> QED BY <1>1, <1>2, <1>3, <1>4

(* The ids a frame leaves: those of before, and new ones.                    *)
Named(named, map, q, p, m) ==
    \A l \in Live(q) : (l \in Live(p) /\ named[l] = map[l]) \/ named[l] \in (issued + 1) .. (issued + m)

Continued(q, t, named, after, next, map, p, m) ==
    Followed(q, t, named, after, next) /\ Named(named, map, q, p, m)

LEMMA FrameFollowed ==
    ASSUME NEW n \in Nat, NEW p, NEW map, NEW blend, NEW seen, Followed(p, n, map, blend, seen),
           issued \in Nat, DOMAIN seen = 1 .. issued,
           NEW d \in Nat, NEW tiers \in [1 .. d -> Tiers], NEW detections,
           Framed(detections, tiers, d), NEW frame \in Nat,
           NEW corrected, NEW matches, Given(corrected, p, n, Range(matches)),
           Pairs(Range(matches), n, 1 .. d), NEW leftovers, NEW m \in Nat, Len(leftovers) = m,
           leftovers \in Seq(Tier(tiers, d, "high")), NEW c \in Nat,
           NEW q, Closed(q, p, n, Range(matches), leftovers, c),
           NEW given, given = GivenTo(map, corrected, matches, detections, frame),
           NEW next, Recorded(next, seen, given, detections, leftovers, frame, m),
           NEW named, named = Numbered(Evicted(map, Live(q)), q),
           NEW after, after = Evicted(Blended(blend, q, detections), Live(q)),
           NEW t, t = c + m
    PROVE  Continued(q, t, named, after, next, map, p, m)
  <1>1. Sound(p, n) /\ DOMAIN map = Live(p) /\ DOMAIN blend = Live(p)
    BY DEF Followed
  <1>2. Survived(q, p, c, m)
    BY <1>1, SurvivedRows
  <1>3. /\ DOMAIN named = Live(q)
        /\ \A i \in 1 .. c : named[q.tracks[i].track_id] = map[q.tracks[i].track_id]
        /\ \A j \in 1 .. m : named[q.tracks[c + j].track_id] = issued + j
    <2>1. Renumbered(named, map, q, c, m)
      BY <1>1, <1>2, NumberedRows
    <2> QED BY <2>1 DEF Renumbered
  <1>4. ASSUME NEW j \in 1 .. m
        PROVE  /\ q.tracks[c + j].last_match = leftovers[j]
               /\ leftovers[j] \in 1 .. d /\ tiers[leftovers[j]] = "high"
               /\ Crop(q, detections, c + j)
    <2>1. q.tracks[c + j].last_match = leftovers[j]
      BY DEF Closed
    <2>2. leftovers[j] \in Tier(tiers, d, "high")
      BY ElementOfSeq
    <2>3. leftovers[j] \in 1 .. d /\ tiers[leftovers[j]] = "high"
      BY <2>2 DEF Tier
    <2>4. detections[leftovers[j]].tier = "high"
      BY <2>3 DEF Framed
    <2> QED BY <2>1, <2>3, <2>4 DEF Crop
  <1>5. /\ DOMAIN after = Live(q)
        /\ \A i \in 1 .. c :
              after[q.tracks[i].track_id] = Grown(blend[q.tracks[i].track_id], q, detections, i)
        /\ \A j \in 1 .. m :
              after[q.tracks[c + j].track_id] =
                  Append(<<>>, detections[q.tracks[c + j].last_match])
    <2>1. Reblended(after, blend, q, detections, c, m)
      BY <1>1, <1>2, <1>4, BlendedRows
    <2> QED BY <2>1 DEF Reblended
  <1>6. ASSUME NEW i \in 1 .. c
        PROVE  /\ q.tracks[i].track_id \in Live(p)
               /\ named[q.tracks[i].track_id] = map[q.tracks[i].track_id]
               /\ map[q.tracks[i].track_id] \in 1 .. issued
               /\ Trail(after[q.tracks[i].track_id], next[named[q.tracks[i].track_id]])
    <2>1. q.tracks[i].track_id \in Live(p)
      BY <1>2 DEF Survived
    <2>2. PICK r \in 1 .. n : Follows(q.tracks[i], p, Range(matches), r)
      BY DEF Closed
    <2>3. after[q.tracks[i].track_id] = Grown(blend[q.tracks[i].track_id], q, detections, i)
      BY <1>5
    <2>4. PICK x : x = after[q.tracks[i].track_id]
      OBVIOUS
    <2>5. Trail(x, next[map[q.tracks[i].track_id]])
      BY <2>2, <2>3, <2>4, SurvivorFollowed, ZenonT(40)
    <2> QED BY <1>3, <2>1, <2>4, <2>5 DEF Followed
  <1>7. ASSUME NEW j \in 1 .. m
        PROVE  /\ named[q.tracks[c + j].track_id] = issued + j
               /\ Trail(after[q.tracks[c + j].track_id], next[named[q.tracks[c + j].track_id]])
    <2>1. PICK column \in 1 .. d : column = leftovers[j] /\ tiers[column] = "high"
      BY <1>4
    <2>2. Trail(Append(<<>>, detections[column]),
                <<[frame |-> frame, det |-> detections[column]]>>)
      BY <2>1, NewbornFollowed
    <2>3. next[issued + j] = <<[frame |-> frame, det |-> detections[column]]>>
      BY <2>1 DEF Recorded
    <2>4. after[q.tracks[c + j].track_id] = Append(<<>>, detections[column])
      <3>1. q.tracks[c + j].last_match = column
        BY <1>4, <2>1
      <3> QED BY <1>5, <3>1
    <2>5. named[q.tracks[c + j].track_id] = issued + j
      BY <1>3
    <2> QED BY ONLY <2>2, <2>3, <2>4, <2>5
  <1>8. ASSUME NEW l \in Live(q)
        PROVE  (\E i \in 1 .. c : l = q.tracks[i].track_id)
                  \/ (\E j \in 1 .. m : l = q.tracks[c + j].track_id)
    <2>1. PICK i \in 1 .. (c + m) : l = q.tracks[i].track_id
      BY <1>2 DEF Survived
    <2>2. i \in 1 .. c \/ \E j \in 1 .. m : i = c + j
      BY <1>2 DEF Survived
    <2> QED BY <2>1, <2>2
  <1>9. ASSUME NEW l \in Live(q)
        PROVE  /\ (l \in Live(p) /\ named[l] = map[l] /\ named[l] \in 1 .. issued)
                     \/ named[l] \in (issued + 1) .. (issued + m)
               /\ Trail(after[l], next[named[l]])
    <2>1. CASE \E i \in 1 .. c : l = q.tracks[i].track_id
      <3>1. PICK i \in 1 .. c : l = q.tracks[i].track_id
        BY <2>1
      <3> QED BY <1>6, <3>1
    <2>2. CASE \E j \in 1 .. m : l = q.tracks[c + j].track_id
      <3>1. PICK j \in 1 .. m : l = q.tracks[c + j].track_id
        BY <2>2
      <3>2. issued + j \in (issued + 1) .. (issued + m)
        OBVIOUS
      <3> QED BY <1>7, <3>1, <3>2
    <2> QED BY <1>8, <2>1, <2>2
  <1>10. ASSUME NEW l \in Live(q) PROVE named[l] \in DOMAIN next
    <2>1. \A x : x \in 1 .. issued \/ x \in (issued + 1) .. (issued + m) => x \in 1 .. (issued + m)
      OBVIOUS
    <2> QED BY <1>9, <2>1 DEF Recorded
  <1>11. ASSUME NEW l \in Live(q), NEW o \in Live(q), named[l] = named[o]
         PROVE  l = o
    <2>1. CASE /\ \E i \in 1 .. c : l = q.tracks[i].track_id
               /\ \E i \in 1 .. c : o = q.tracks[i].track_id
      <3>1. PICK i \in 1 .. c, j \in 1 .. c : l = q.tracks[i].track_id /\ o = q.tracks[j].track_id
        BY <2>1
      <3>2. l \in Live(p) /\ o \in Live(p) /\ map[l] = map[o]
        BY <1>6, <1>11, <3>1
      <3> QED BY <3>2 DEF Followed
    <2>2. CASE /\ \E i \in 1 .. c : l = q.tracks[i].track_id
               /\ \E j \in 1 .. m : o = q.tracks[c + j].track_id
      <3>1. PICK i \in 1 .. c, j \in 1 .. m :
               l = q.tracks[i].track_id /\ o = q.tracks[c + j].track_id
        BY <2>2
      <3>2. named[l] \in 1 .. issued /\ named[o] = issued + j
        BY <1>6, <1>7, <3>1
      <3> QED BY <1>11, <3>2
    <2>3. CASE /\ \E j \in 1 .. m : l = q.tracks[c + j].track_id
               /\ \E i \in 1 .. c : o = q.tracks[i].track_id
      <3>1. PICK i \in 1 .. c, j \in 1 .. m :
               o = q.tracks[i].track_id /\ l = q.tracks[c + j].track_id
        BY <2>3
      <3>2. named[o] \in 1 .. issued /\ named[l] = issued + j
        BY <1>6, <1>7, <3>1
      <3> QED BY <1>11, <3>2
    <2>4. CASE /\ \E j \in 1 .. m : l = q.tracks[c + j].track_id
               /\ \E j \in 1 .. m : o = q.tracks[c + j].track_id
      <3>1. PICK i \in 1 .. m, j \in 1 .. m :
               l = q.tracks[c + i].track_id /\ o = q.tracks[c + j].track_id
        BY <2>4
      <3>2. issued + i = issued + j
        BY <1>7, <1>11, <3>1
      <3>3. i = j
        BY <3>2
      <3> QED BY <3>1, <3>3
    <2> QED BY <1>8, <2>1, <2>2, <2>3, <2>4
  <1>12. Sound(q, c + m)
    BY DEF Closed
  <1>13. Followed(q, c + m, named, after, next)
    BY <1>3, <1>5, <1>9, <1>10, <1>11, <1>12 DEF Followed
  <1>14. Named(named, map, q, p, m)
    BY <1>9 DEF Named
  <1> QED BY <1>13, <1>14 DEF Continued

--------------------------------------------------------------------------------
(* Every update comes to absorb with at most one detection for each row,     *)
(* written down in it, and leftovers of high confidence.                     *)

Outcome(k, n) ==
    \E d \in Nat : \E tiers \in [1 .. d -> Tiers] :
    \E detections, corrected, matches, missed, leftovers, now :
        /\ Framed(detections, tiers, d)
        /\ Given(corrected, session[k], n, Range(matches))
        /\ Pairs(Range(matches), n, 1 .. d)
        /\ leftovers \in Seq(Tier(tiers, d, "high"))
        /\ Absorb(k, detections, corrected, matches, missed, leftovers, now)

LEMMA AllRowsFacts ==
    ASSUME NEW n \in Nat, NEW q, Pool(q, n)
    PROVE  ListOf(AllRows(q), 1 .. n, 1 .. n)
  <1>1. PICK f : f = [i \in 1 .. n |-> i]
    OBVIOUS
  <1>2. f \in Seq(1 .. n)
    BY <1>1, SeqDef
  <1>3. Range(f) = 1 .. n
    BY <1>1 DEF Range
  <1>4. AllRows(q) = f
    BY <1>1, RowsArePlaces DEF AllRows
  <1> QED BY <1>2, <1>3, <1>4 DEF ListOf

LEMMA SomeRows ==
    ASSUME NEW S, NEW A, NEW rows, ListOf(rows, A, S), NEW chosen
    PROVE  ListOf(Among(rows, chosen), A \cap chosen, S)
  BY AmongFacts DEF ListOf

LEMMA OtherRows ==
    ASSUME NEW S, NEW A, NEW rows, ListOf(rows, A, S), NEW taken
    PROVE  ListOf(Without(rows, taken), A \ taken, S)
  BY WithoutFacts DEF ListOf

LEMMA TierOfFrame ==
    ASSUME NEW d \in Nat, NEW tiers, NEW name
    PROVE  Tier(tiers, d, name) \subseteq 1 .. d
  BY DEF Tier

(* An association of a frame with n rows and d detections.                   *)
LEMMA RowsChoose ==
    ASSUME NEW n, NEW d, NEW T, T \subseteq 1 .. d, NEW A, NEW rows, ListOf(rows, A, 1 .. n),
           NEW columns \in Seq(T), NEW one \in Associations(rows, columns)
    PROVE  /\ Chosen(one, A, 1 .. n, T)
           /\ Paired(one.matches, A, 1 .. n, 1 .. d)
           /\ ListOf(one.unmatchedRows, A \ Owners(Range(one.matches)), 1 .. n)
           /\ one.unmatchedColumns \in Seq(T)
  <1>1. PICK S, U : S = 1 .. n /\ U = 1 .. d
    OBVIOUS
  <1>2. Chosen(one, A, S, T)
    BY <1>1, AssociationFacts
  <1>3. Paired(one.matches, A, S, T)
    BY <1>2 DEF Chosen
  <1>4. Paired(one.matches, A, S, U)
    BY <1>1, <1>3, PairedAmongMore
  <1> QED BY <1>1, <1>2, <1>4 DEF Chosen

LEMMA SortOutcome ==
    ASSUME NEW k, NEW n \in Nat, Sound(session[k], n), SortUpdate(k)
    PROVE  Outcome(k, n)
  <1>1. PICK opened : opened = Predict(session[k])
    OBVIOUS
  <1>2. PICK tag \in Python!Tags, tiers \in Scores({"high", "noise"}, MaxDetections) :
        \E one \in Associations(AllRows(opened), Columns(tiers, "high")) :
            Absorb(k, Frame(tag, tiers), ApplyMatches(opened, one.matches, Frame(tag, tiers), 0),
                   one.matches, one.unmatchedRows, one.unmatchedColumns, 0)
    BY <1>1 DEF SortUpdate
  <1>3. PICK d \in Nat : tiers \in [1 .. d -> Tiers]
    <2>1. MaxDetections \in Nat /\ {"high", "noise"} \in SUBSET Tiers
      BY NativeAssumption DEF Tiers
    <2> QED BY <2>1, ScoreFacts
  <1>4. PICK detections : detections = Frame(tag, tiers)
    OBVIOUS
  <1>5. PICK columns : columns = Columns(tiers, "high")
    OBVIOUS
  <1>6. PICK one \in Associations(AllRows(opened), columns) :
            Absorb(k, detections, ApplyMatches(opened, one.matches, detections, 0),
                   one.matches, one.unmatchedRows, one.unmatchedColumns, 0)
    BY <1>2, <1>4, <1>5
  <1>7. Framed(detections, tiers, d)
    BY <1>3, <1>4, FrameFacts
  <1>8. Given(opened, session[k], n, {}) /\ Pool(opened, n)
    BY <1>1, PredictRows DEF Given, Sound
  <1>9. PICK high : high = Tier(tiers, d, "high")
    OBVIOUS
  <1>10. columns \in Seq(high) /\ high \subseteq 1 .. d
    BY <1>3, <1>5, <1>9, ColumnFacts, TierOfFrame
  <1>11. /\ Paired(one.matches, 1 .. n, 1 .. n, 1 .. d)
         /\ one.unmatchedColumns \in Seq(high)
    <2>1. ListOf(AllRows(opened), 1 .. n, 1 .. n)
      BY <1>8, AllRowsFacts
    <2> QED BY <1>6, <1>10, <2>1, RowsChoose
  <1>12. PICK corrected : corrected = ApplyMatches(opened, one.matches, detections, 0)
    OBVIOUS
  <1>13. Given(corrected, session[k], n, Range(one.matches))
    BY <1>8, <1>11, <1>12, FirstMatches
  <1>14. Pairs(Range(one.matches), n, 1 .. d)
    BY <1>11, PairedIsPairs
  <1> QED BY <1>3, <1>6, <1>7, <1>9, <1>11, <1>12, <1>13, <1>14 DEF Outcome

Together(both, a, b, C, n, d) ==
    /\ Paired(both, C, 1 .. n, 1 .. d) /\ Pairs(Range(both), n, 1 .. d)
    /\ Owners(Range(both)) = Owners(Range(a)) \cup Owners(Range(b))

LEMMA PairsTogether ==
    ASSUME NEW n \in Nat, NEW d \in Nat, NEW A \in SUBSET (1 .. n), NEW a,
           Paired(a, A, 1 .. n, 1 .. d), NEW B \in SUBSET (1 .. n), NEW b,
           Paired(b, B, 1 .. n, 1 .. d), B \cap Owners(Range(a)) = {},
           NEW both, both = a \o b, NEW C, C = A \cup B
    PROVE  Together(both, a, b, C, n, d)
  <1>1. PICK S, T : S = 1 .. n /\ T = 1 .. d
    OBVIOUS
  <1>2. Paired(a, A, S, T) /\ Paired(b, B, S, T)
    BY <1>1
  <1>3. /\ Paired(a \o b, A \cup B, S, T)
        /\ Owners(Range(a \o b)) = Owners(Range(a)) \cup Owners(Range(b))
    <2>1. Joined(a, b, A, B, S, T)
      BY <1>2, ThenAnother
    <2> QED BY <2>1 DEF Joined
  <1>4. C \in SUBSET (1 .. n)
    OBVIOUS
  <1>5. Paired(both, C, 1 .. n, 1 .. d)
    BY <1>1, <1>3
  <1>6. Pairs(Range(both), n, 1 .. d)
    BY <1>4, <1>5, PairedIsPairs
  <1> QED BY <1>3, <1>5, <1>6 DEF Together

LEMMA BothGiven ==
    ASSUME NEW n \in Nat, NEW d \in Nat, NEW p, NEW q, Given(q, p, n, {}),
           NEW a, Paired(a, 1 .. n, 1 .. n, 1 .. d),
           NEW B \in SUBSET (1 .. n), NEW b, Paired(b, B, 1 .. n, 1 .. d),
           B \cap Owners(Range(a)) = {}, NEW detections, NEW position,
           NEW once, once = ApplyMatches(q, a, detections, position),
           NEW twice, twice = ApplyMatches(once, b, detections, position)
    PROVE  Given(twice, p, n, Range(a \o b)) /\ Pairs(Range(a \o b), n, 1 .. d)
  <1>1. PICK A \in SUBSET (1 .. n) : A = 1 .. n
    OBVIOUS
  <1>2. Given(once, p, n, Range(a))
    BY <1>1, FirstMatches
  <1>3. Given(twice, p, n, Range(a \o b))
    BY <1>1, <1>2, MoreMatches
  <1>4. Pairs(Range(a \o b), n, 1 .. d)
    <2>1. PICK both, C : both = a \o b /\ C = A \cup B
      OBVIOUS
    <2>2. Together(both, a, b, C, n, d)
      BY <1>1, <2>1, PairsTogether
    <2> QED BY <2>1, <2>2 DEF Together
  <1> QED BY <1>3, <1>4

LEMMA TwoTiersOutcome ==
    ASSUME NEW k, NEW n \in Nat, Sound(session[k], n), NEW tag \in Python!Tags,
           NEW d \in Nat, NEW tiers \in [1 .. d -> Tiers], NEW opened,
           Given(opened, session[k], n, {}), NEW now, TwoTiers(k, opened, tag, tiers, now)
    PROVE  Outcome(k, n)
  <1>1. PICK detections : detections = Frame(tag, tiers)
    OBVIOUS
  <1>2. PICK columns : columns = Columns(tiers, "high")
    OBVIOUS
  <1>3. PICK doubtful : doubtful = Columns(tiers, "low")
    OBVIOUS
  <1>4. PICK first \in Associations(AllRows(opened), columns) :
        LET once == ApplyMatches(opened, first.matches, detections, now)
            eligible == Trusted(once, first.unmatchedRows)
        IN \E second \in Associations(eligible, doubtful) :
            Absorb(k, detections, ApplyMatches(once, second.matches, detections, now),
                   first.matches \o second.matches,
                   second.unmatchedRows \o Untrusted(once, first.unmatchedRows),
                   first.unmatchedColumns, now)
    BY <1>1, <1>2, <1>3 DEF TwoTiers
  <1>5. PICK once : once = ApplyMatches(opened, first.matches, detections, now)
    OBVIOUS
  <1>6. PICK eligible : eligible = Trusted(once, first.unmatchedRows)
    OBVIOUS
  <1>7. PICK second \in Associations(eligible, doubtful) :
            Absorb(k, detections, ApplyMatches(once, second.matches, detections, now),
                   first.matches \o second.matches,
                   second.unmatchedRows \o Untrusted(once, first.unmatchedRows),
                   first.unmatchedColumns, now)
    BY <1>4, <1>5, <1>6
  <1>8. PICK twice : twice = ApplyMatches(once, second.matches, detections, now)
    OBVIOUS
  <1>9. PICK high, low : high = Tier(tiers, d, "high") /\ low = Tier(tiers, d, "low")
    OBVIOUS
  <1>10. /\ columns \in Seq(high) /\ high \subseteq 1 .. d
         /\ doubtful \in Seq(low) /\ low \subseteq 1 .. d
    BY <1>2, <1>3, <1>9, ColumnFacts, TierOfFrame
  <1>11. PICK A : A = 1 .. n \ Owners(Range(first.matches))
    OBVIOUS
  <1>12. /\ Paired(first.matches, 1 .. n, 1 .. n, 1 .. d)
         /\ ListOf(first.unmatchedRows, A, 1 .. n)
         /\ first.unmatchedColumns \in Seq(high)
    <2>1. ListOf(AllRows(opened), 1 .. n, 1 .. n)
      BY AllRowsFacts DEF Given
    <2> QED BY <1>4, <1>10, <1>11, <2>1, RowsChoose
  <1>13. PICK B \in SUBSET A : ListOf(eligible, B, 1 .. n)
    <2>1. PICK trusted : eligible = Among(first.unmatchedRows, trusted)
      BY <1>6 DEF Trusted
    <2>2. ListOf(eligible, A \cap trusted, 1 .. n)
      BY <1>12, <2>1, SomeRows
    <2> QED BY <2>2
  <1>14. Paired(second.matches, B, 1 .. n, 1 .. d)
    BY <1>7, <1>10, <1>13, RowsChoose
  <1>15. B \in SUBSET (1 .. n) /\ B \cap Owners(Range(first.matches)) = {}
    BY <1>11
  <1>16. /\ Given(twice, session[k], n, Range(first.matches \o second.matches))
         /\ Pairs(Range(first.matches \o second.matches), n, 1 .. d)
    BY <1>5, <1>8, <1>12, <1>14, <1>15, BothGiven
  <1>17. Framed(detections, tiers, d)
    BY <1>1, FrameFacts
  <1> QED BY <1>7, <1>8, <1>9, <1>12, <1>16, <1>17 DEF Outcome

LEMMA ByteTrackOutcome ==
    ASSUME NEW k, NEW n \in Nat, Sound(session[k], n), ByteTrackUpdate(k)
    PROVE  Outcome(k, n)
  <1>1. PICK opened : opened = Predict(session[k])
    OBVIOUS
  <1>2. PICK tag \in Python!Tags, tiers \in Scores({"high", "low", "noise"}, MaxDetections) :
           TwoTiers(k, opened, tag, tiers, 0)
    BY <1>1 DEF ByteTrackUpdate
  <1>3. PICK d \in Nat : tiers \in [1 .. d -> Tiers]
    <2>1. MaxDetections \in Nat /\ {"high", "low", "noise"} \in SUBSET Tiers
      BY NativeAssumption DEF Tiers
    <2> QED BY <2>1, ScoreFacts
  <1>4. Given(opened, session[k], n, {})
    BY <1>1, PredictRows DEF Sound
  <1> QED BY <1>2, <1>3, <1>4, TwoTiersOutcome

LEMMA BotSortOutcome ==
    ASSUME NEW k, NEW n \in Nat, Sound(session[k], n), BotSortUpdate(k)
    PROVE  Outcome(k, n)
  <1>1. PICK still : still = Predict(session[k])
    OBVIOUS
  <1>2. PICK tag \in Python!Tags, tiers \in Scores({"high", "low", "noise"}, MaxMoving) :
           \E estimate, now : TwoTiers(k, ApplyCameraMotion(still, estimate), tag, tiers, now)
    BY <1>1 DEF BotSortUpdate
  <1>a. PICK estimate, now : TwoTiers(k, ApplyCameraMotion(still, estimate), tag, tiers, now)
    BY <1>2
  <1>3. PICK d \in Nat : tiers \in [1 .. d -> Tiers]
    <2>1. MaxMoving \in Nat /\ {"high", "low", "noise"} \in SUBSET Tiers
      BY NativeAssumption DEF Tiers
    <2> QED BY <2>1, ScoreFacts
  <1>4. Given(still, session[k], n, {})
    BY <1>1, PredictRows DEF Sound
  <1>5. PICK opened : opened = ApplyCameraMotion(still, estimate)
    OBVIOUS
  <1>6. Given(opened, session[k], n, {})
    BY <1>4, <1>5, MotionRows
  <1> QED BY <1>a, <1>3, <1>5, <1>6, TwoTiersOutcome

LEMMA OcSortOutcome ==
    ASSUME NEW k, NEW n \in Nat, Sound(session[k], n), OcSortUpdate(k)
    PROVE  Outcome(k, n)
  <1>1. PICK opened : opened = Predict(session[k])
    OBVIOUS
  <1>2. PICK tag \in Python!Tags, tiers \in Scores({"high", "noise"}, MaxDetections) :
        \E primary \in Associations(AllRows(opened), Columns(tiers, "high")) :
        LET once == ApplyMatches(opened, primary.matches, Frame(tag, tiers), 0)
            eligible == Trusted(once, primary.unmatchedRows)
        IN \E recovered \in Associations(eligible, primary.unmatchedColumns) :
            Absorb(k, Frame(tag, tiers),
                   ApplyMatches(once, recovered.matches, Frame(tag, tiers), 0),
                   primary.matches \o recovered.matches,
                   recovered.unmatchedRows \o Untrusted(once, primary.unmatchedRows),
                   recovered.unmatchedColumns, 0)
    BY <1>1 DEF OcSortUpdate
  <1>3. PICK d \in Nat : tiers \in [1 .. d -> Tiers]
    <2>1. MaxDetections \in Nat /\ {"high", "noise"} \in SUBSET Tiers
      BY NativeAssumption DEF Tiers
    <2> QED BY <2>1, ScoreFacts
  <1>4. PICK detections : detections = Frame(tag, tiers)
    OBVIOUS
  <1>5. PICK columns : columns = Columns(tiers, "high")
    OBVIOUS
  <1>6. PICK primary \in Associations(AllRows(opened), columns) :
        LET once == ApplyMatches(opened, primary.matches, detections, 0)
            eligible == Trusted(once, primary.unmatchedRows)
        IN \E recovered \in Associations(eligible, primary.unmatchedColumns) :
            Absorb(k, detections, ApplyMatches(once, recovered.matches, detections, 0),
                   primary.matches \o recovered.matches,
                   recovered.unmatchedRows \o Untrusted(once, primary.unmatchedRows),
                   recovered.unmatchedColumns, 0)
    BY <1>2, <1>4, <1>5
  <1>7. PICK once : once = ApplyMatches(opened, primary.matches, detections, 0)
    OBVIOUS
  <1>8. PICK eligible : eligible = Trusted(once, primary.unmatchedRows)
    OBVIOUS
  <1>9. PICK recovered \in Associations(eligible, primary.unmatchedColumns) :
            Absorb(k, detections, ApplyMatches(once, recovered.matches, detections, 0),
                   primary.matches \o recovered.matches,
                   recovered.unmatchedRows \o Untrusted(once, primary.unmatchedRows),
                   recovered.unmatchedColumns, 0)
    BY <1>6, <1>7, <1>8
  <1>10. PICK twice : twice = ApplyMatches(once, recovered.matches, detections, 0)
    OBVIOUS
  <1>11. PICK high : high = Tier(tiers, d, "high")
    OBVIOUS
  <1>12. columns \in Seq(high) /\ high \subseteq 1 .. d
    BY <1>3, <1>5, <1>11, ColumnFacts, TierOfFrame
  <1>13. PICK A : A = 1 .. n \ Owners(Range(primary.matches))
    OBVIOUS
  <1>14. Given(opened, session[k], n, {})
    BY <1>1, PredictRows DEF Sound
  <1>15. /\ Paired(primary.matches, 1 .. n, 1 .. n, 1 .. d)
         /\ ListOf(primary.unmatchedRows, A, 1 .. n)
         /\ primary.unmatchedColumns \in Seq(high)
    <2>1. ListOf(AllRows(opened), 1 .. n, 1 .. n)
      BY <1>14, AllRowsFacts DEF Given
    <2> QED BY <1>6, <1>12, <1>13, <2>1, RowsChoose
  <1>16. PICK B \in SUBSET A : ListOf(eligible, B, 1 .. n)
    <2>1. PICK trusted : eligible = Among(primary.unmatchedRows, trusted)
      BY <1>8 DEF Trusted
    <2>2. ListOf(eligible, A \cap trusted, 1 .. n)
      BY <1>15, <2>1, SomeRows
    <2> QED BY <2>2
  <1>17. Paired(recovered.matches, B, 1 .. n, 1 .. d) /\ recovered.unmatchedColumns \in Seq(high)
    BY <1>9, <1>12, <1>15, <1>16, RowsChoose
  <1>18. B \in SUBSET (1 .. n) /\ B \cap Owners(Range(primary.matches)) = {}
    BY <1>13
  <1>19. /\ Given(twice, session[k], n, Range(primary.matches \o recovered.matches))
         /\ Pairs(Range(primary.matches \o recovered.matches), n, 1 .. d)
    BY <1>7, <1>10, <1>14, <1>15, <1>17, <1>18, BothGiven
  <1>20. Framed(detections, tiers, d)
    BY <1>3, <1>4, FrameFacts
  <1> QED BY <1>3, <1>9, <1>10, <1>11, <1>17, <1>19, <1>20 DEF Outcome

LEMMA OwnersAreOffered ==
    ASSUME NEW S, NEW T, NEW A, NEW list, Paired(list, A, S, T)
    PROVE  Owners(Range(list)) \subseteq A
  BY DEF Owners, Paired

(* The four associations of DeepSORT, each over rows none before it took.    *)
LEMMA FourTogether ==
    ASSUME NEW n \in Nat, NEW e \in Nat,
           NEW A \in SUBSET (1 .. n), NEW a, Paired(a, A, 1 .. n, 1 .. e),
           NEW B \in SUBSET (1 .. n), NEW b, Paired(b, B, 1 .. n, 1 .. e),
           NEW C \in SUBSET (1 .. n), NEW c, Paired(c, C, 1 .. n, 1 .. e),
           NEW D \in SUBSET (1 .. n), NEW d, Paired(d, D, 1 .. n, 1 .. e),
           B \cap Owners(Range(a)) = {},
           C \cap (Owners(Range(a)) \cup Owners(Range(b))) = {},
           D \cap (Owners(Range(a)) \cup Owners(Range(b)) \cup Owners(Range(c))) = {}
    PROVE  /\ Paired(a \o b \o c \o d, 1 .. n, 1 .. n, 1 .. e)
           /\ Pairs(Range(a \o b \o c \o d), n, 1 .. e)
  <1>1. PICK ab : ab = a \o b
    OBVIOUS
  <1>2. PICK AB \in SUBSET (1 .. n) : AB = A \cup B
    OBVIOUS
  <1>3. /\ Paired(ab, AB, 1 .. n, 1 .. e)
        /\ Owners(Range(ab)) = Owners(Range(a)) \cup Owners(Range(b))
    <2>1. Together(ab, a, b, AB, n, e)
      BY <1>1, <1>2, PairsTogether
    <2> QED BY <2>1 DEF Together
  <1>4. PICK abc : abc = ab \o c
    OBVIOUS
  <1>5. PICK ABC \in SUBSET (1 .. n) : ABC = AB \cup C
    OBVIOUS
  <1>6. C \cap Owners(Range(ab)) = {}
    BY <1>3
  <1>7. /\ Paired(abc, ABC, 1 .. n, 1 .. e)
        /\ Owners(Range(abc)) = Owners(Range(ab)) \cup Owners(Range(c))
    <2>1. Together(abc, ab, c, ABC, n, e)
      BY <1>3, <1>4, <1>5, <1>6, PairsTogether
    <2> QED BY <2>1 DEF Together
  <1>8. D \cap Owners(Range(abc)) = {}
    BY <1>3, <1>7
  <1>9. PICK all : all = abc \o d
    OBVIOUS
  <1>10. Paired(all, ABC \cup D, 1 .. n, 1 .. e) /\ Pairs(Range(all), n, 1 .. e)
    <2>1. PICK everyone : everyone = ABC \cup D
      OBVIOUS
    <2>2. Together(all, abc, d, everyone, n, e)
      BY <1>7, <1>8, <1>9, <2>1, PairsTogether
    <2> QED BY <2>1, <2>2 DEF Together
  <1>11. Paired(all, 1 .. n, 1 .. n, 1 .. e)
    <2>1. ABC \cup D \subseteq 1 .. n
      OBVIOUS
    <2>2. Range(all) \subseteq (1 .. n) \X (1 .. e)
      BY <1>10, <2>1 DEF Paired
    <2> QED BY <1>10, <2>2 DEF Paired
  <1> QED BY <1>1, <1>4, <1>9, <1>10, <1>11

LEMMA DeepSortOutcome ==
    ASSUME NEW k, NEW n \in Nat, Sound(session[k], n), DeepSortV2Update(k)
    PROVE  Outcome(k, n)
  <1>1. PICK opened : opened = Predict(session[k])
    OBVIOUS
  <1>2. PICK rows : rows = AllRows(opened)
    OBVIOUS
  <1>3. PICK recent : recent = Recent(opened)
    OBVIOUS
  <1>4. PICK trusted : trusted = {r \in Rows(opened) :
                                     opened.tracks[r].state \in {"confirmed", "lost"}}
    OBVIOUS
  <1>5. PICK doubted : doubted = {r \in Rows(opened) : opened.tracks[r].state = "tentative"}
    OBVIOUS
  <1>6. PICK tentative : tentative = Untrusted(opened, rows)
    OBVIOUS
  <1>7. PICK first : first = Trusted(opened, rows)
    OBVIOUS
  <1>8. PICK tag \in Python!Tags, tiers \in Scores({"high", "noise"}, MaxDetections) :
        \E a \in Associations(first, Columns(tiers, "high")) :
        \E b \in Associations(Among(a.unmatchedRows, recent), a.unmatchedColumns) :
        LET left == Without(a.unmatchedRows, recent) \o b.unmatchedRows IN
        \E edge \in SUBSET Range(left) :
        \E c \in Associations(Without(left, edge), b.unmatchedColumns) :
        \E d \in Associations(tentative, c.unmatchedColumns) :
            LET matches == a.matches \o b.matches \o c.matches \o d.matches IN
            Absorb(k, Frame(tag, tiers), ApplyMatches(opened, matches, Frame(tag, tiers), 0),
                   matches, c.unmatchedRows \o d.unmatchedRows \o Among(left, edge),
                   d.unmatchedColumns, 0)
    BY <1>1, <1>2, <1>3, <1>6, <1>7 DEF DeepSortV2Update
  <1>9. PICK e \in Nat : tiers \in [1 .. e -> Tiers]
    <2>1. MaxDetections \in Nat /\ {"high", "noise"} \in SUBSET Tiers
      BY NativeAssumption DEF Tiers
    <2> QED BY <2>1, ScoreFacts
  <1>10. PICK detections : detections = Frame(tag, tiers)
    OBVIOUS
  <1>11. PICK columns : columns = Columns(tiers, "high")
    OBVIOUS
  <1>12. PICK a \in Associations(first, columns) :
        \E b \in Associations(Among(a.unmatchedRows, recent), a.unmatchedColumns) :
        LET left == Without(a.unmatchedRows, recent) \o b.unmatchedRows IN
        \E edge \in SUBSET Range(left) :
        \E c \in Associations(Without(left, edge), b.unmatchedColumns) :
        \E d \in Associations(tentative, c.unmatchedColumns) :
            LET matches == a.matches \o b.matches \o c.matches \o d.matches IN
            Absorb(k, detections, ApplyMatches(opened, matches, detections, 0),
                   matches, c.unmatchedRows \o d.unmatchedRows \o Among(left, edge),
                   d.unmatchedColumns, 0)
    BY <1>8, <1>10, <1>11
  <1>13. PICK b \in Associations(Among(a.unmatchedRows, recent), a.unmatchedColumns) :
        LET left == Without(a.unmatchedRows, recent) \o b.unmatchedRows IN
        \E edge \in SUBSET Range(left) :
        \E c \in Associations(Without(left, edge), b.unmatchedColumns) :
        \E d \in Associations(tentative, c.unmatchedColumns) :
            LET matches == a.matches \o b.matches \o c.matches \o d.matches IN
            Absorb(k, detections, ApplyMatches(opened, matches, detections, 0),
                   matches, c.unmatchedRows \o d.unmatchedRows \o Among(left, edge),
                   d.unmatchedColumns, 0)
    BY <1>12
  <1>14. PICK left : left = Without(a.unmatchedRows, recent) \o b.unmatchedRows
    OBVIOUS
  <1>15. PICK edge \in SUBSET Range(left) :
        \E c \in Associations(Without(left, edge), b.unmatchedColumns) :
        \E d \in Associations(tentative, c.unmatchedColumns) :
            LET matches == a.matches \o b.matches \o c.matches \o d.matches IN
            Absorb(k, detections, ApplyMatches(opened, matches, detections, 0),
                   matches, c.unmatchedRows \o d.unmatchedRows \o Among(left, edge),
                   d.unmatchedColumns, 0)
    BY <1>13, <1>14
  <1>a. PICK c \in Associations(Without(left, edge), b.unmatchedColumns) :
        \E d \in Associations(tentative, c.unmatchedColumns) :
            LET matches == a.matches \o b.matches \o c.matches \o d.matches IN
            Absorb(k, detections, ApplyMatches(opened, matches, detections, 0),
                   matches, c.unmatchedRows \o d.unmatchedRows \o Among(left, edge),
                   d.unmatchedColumns, 0)
    BY <1>15
  <1>16. PICK d \in Associations(tentative, c.unmatchedColumns) :
            LET matches == a.matches \o b.matches \o c.matches \o d.matches IN
            Absorb(k, detections, ApplyMatches(opened, matches, detections, 0),
                   matches, c.unmatchedRows \o d.unmatchedRows \o Among(left, edge),
                   d.unmatchedColumns, 0)
    BY <1>a
  <1>17. PICK matches : matches = a.matches \o b.matches \o c.matches \o d.matches
    OBVIOUS
  <1>18. PICK missed :
            Absorb(k, detections, ApplyMatches(opened, matches, detections, 0),
                   matches, missed, d.unmatchedColumns, 0)
    BY <1>16, <1>17
  <1>19. PICK high : high = Tier(tiers, e, "high")
    OBVIOUS
  <1>20. columns \in Seq(high) /\ high \subseteq 1 .. e
    BY <1>9, <1>11, <1>19, ColumnFacts, TierOfFrame
  <1>21. Given(opened, session[k], n, {})
    BY <1>1, PredictRows DEF Sound
  <1>22. ListOf(rows, 1 .. n, 1 .. n)
    BY <1>2, <1>21, AllRowsFacts DEF Given
  <1>23. PICK A \in SUBSET (1 .. n) : A = 1 .. n \cap trusted
    OBVIOUS
  <1>24. PICK D \in SUBSET (1 .. n) : D = 1 .. n \cap doubted
    OBVIOUS
  <1>25. ListOf(first, A, 1 .. n) /\ ListOf(tentative, D, 1 .. n) /\ A \cap D = {}
    <2>1. ListOf(Among(rows, trusted), 1 .. n \cap trusted, 1 .. n)
      BY <1>22, SomeRows
    <2>2. ListOf(Among(rows, doubted), 1 .. n \cap doubted, 1 .. n)
      BY <1>22, SomeRows
    <2>3. A \cap D = {}
      BY <1>4, <1>5, <1>23, <1>24
    <2>4. first = Among(rows, trusted) /\ tentative = Among(rows, doubted)
      BY <1>4, <1>5, <1>6, <1>7 DEF Trusted, Untrusted
    <2> QED BY <1>23, <1>24, <2>1, <2>2, <2>3, <2>4
  <1>26. PICK U : U = A \ Owners(Range(a.matches))
    OBVIOUS
  <1>27. /\ Paired(a.matches, A, 1 .. n, 1 .. e)
         /\ ListOf(a.unmatchedRows, U, 1 .. n) /\ a.unmatchedColumns \in Seq(high)
    BY <1>12, <1>20, <1>25, <1>26, RowsChoose
  <1>28. PICK B \in SUBSET (1 .. n) : B = U \cap recent
    BY <1>26
  <1>29. ListOf(Among(a.unmatchedRows, recent), B, 1 .. n)
    BY <1>27, <1>28, SomeRows
  <1>30. /\ Paired(b.matches, B, 1 .. n, 1 .. e)
         /\ ListOf(b.unmatchedRows, B \ Owners(Range(b.matches)), 1 .. n)
         /\ b.unmatchedColumns \in Seq(high)
    BY <1>13, <1>20, <1>27, <1>29, RowsChoose
  <1>31. PICK V \in SUBSET (1 .. n) : V = (U \ recent) \cup (B \ Owners(Range(b.matches)))
    BY <1>26, <1>28
  <1>32. ListOf(left, V, 1 .. n)
    <2>1. ListOf(Without(a.unmatchedRows, recent), U \ recent, 1 .. n)
      BY <1>27, OtherRows
    <2> QED BY <1>14, <1>30, <1>31, <2>1, TogetherFacts
  <1>33. PICK C \in SUBSET (1 .. n) : C = V \ edge
    BY <1>31
  <1>34. ListOf(Without(left, edge), C, 1 .. n)
    BY <1>32, <1>33, OtherRows
  <1>35. Paired(c.matches, C, 1 .. n, 1 .. e) /\ c.unmatchedColumns \in Seq(high)
    BY <1>a, <1>20, <1>30, <1>34, RowsChoose
  <1>36. Paired(d.matches, D, 1 .. n, 1 .. e) /\ d.unmatchedColumns \in Seq(high)
    BY <1>16, <1>20, <1>25, <1>35, RowsChoose
  <1>37. /\ Owners(Range(a.matches)) \subseteq A /\ Owners(Range(b.matches)) \subseteq B
         /\ Owners(Range(c.matches)) \subseteq C
    BY <1>27, <1>30, <1>35, OwnersAreOffered
  <1>38. /\ B \cap Owners(Range(a.matches)) = {}
         /\ C \cap (Owners(Range(a.matches)) \cup Owners(Range(b.matches))) = {}
         /\ B \subseteq A /\ C \subseteq A
    BY <1>26, <1>28, <1>31, <1>33, <1>37
  <1>39. D \cap (Owners(Range(a.matches)) \cup Owners(Range(b.matches))
                     \cup Owners(Range(c.matches))) = {}
    BY <1>25, <1>37, <1>38
  <1>40. Paired(matches, 1 .. n, 1 .. n, 1 .. e) /\ Pairs(Range(matches), n, 1 .. e)
    BY <1>17, <1>27, <1>30, <1>35, <1>36, <1>38, <1>39, FourTogether
  <1>41. PICK corrected : corrected = ApplyMatches(opened, matches, detections, 0)
    OBVIOUS
  <1>42. Given(corrected, session[k], n, Range(matches))
    BY <1>21, <1>40, <1>41, FirstMatches
  <1>43. Framed(detections, tiers, e)
    BY <1>9, <1>10, FrameFacts
  <1> QED BY <1>9, <1>18, <1>19, <1>36, <1>40, <1>41, <1>42, <1>43 DEF Outcome

--------------------------------------------------------------------------------
(* The invariant, and what keeps it.                                         *)

Typed ==
    /\ issued \in Nat /\ DOMAIN sightings = 1 .. issued
    /\ DOMAIN session = Trackers /\ DOMAIN ids = Trackers /\ DOMAIN embeddings = Trackers
    /\ completed \in [Trackers -> Nat]

(* Each tracker by itself.                                                   *)
EachFollows ==
    \A k \in Trackers : \E n \in Nat :
        Followed(session[k], n, ids[k], embeddings[k], sightings)

(* No two trackers have an id in common: else one would blend the crops of   *)
(* another.                                                                  *)
NamesApart ==
    \A g, h \in Trackers : g # h =>
        \A l \in DOMAIN ids[g], m \in DOMAIN ids[h] : ids[g][l] # ids[h][m]

MapsFollow == Typed /\ EachFollows /\ NamesApart

LEMMA AbsorbKeeps ==
    ASSUME MapsFollow, NEW k \in Trackers, NEW n \in Nat,
           Followed(session[k], n, ids[k], embeddings[k], sightings), Outcome(k, n)
    PROVE  MapsFollow'
  <1>a. PICK d \in Nat : \E tiers \in [1 .. d -> Tiers] :
        \E detections, corrected, matches, missed, leftovers, now :
            /\ Framed(detections, tiers, d)
            /\ Given(corrected, session[k], n, Range(matches))
            /\ Pairs(Range(matches), n, 1 .. d)
            /\ leftovers \in Seq(Tier(tiers, d, "high"))
            /\ Absorb(k, detections, corrected, matches, missed, leftovers, now)
    BY DEF Outcome
  <1>1. PICK tiers \in [1 .. d -> Tiers] :
        \E detections, corrected, matches, missed, leftovers, now :
            /\ Framed(detections, tiers, d)
            /\ Given(corrected, session[k], n, Range(matches))
            /\ Pairs(Range(matches), n, 1 .. d)
            /\ leftovers \in Seq(Tier(tiers, d, "high"))
            /\ Absorb(k, detections, corrected, matches, missed, leftovers, now)
    BY <1>a
  <1>2. PICK detections, corrected, matches, missed, leftovers, now :
            /\ Framed(detections, tiers, d)
            /\ Given(corrected, session[k], n, Range(matches))
            /\ Pairs(Range(matches), n, 1 .. d)
            /\ leftovers \in Seq(Tier(tiers, d, "high"))
            /\ Absorb(k, detections, corrected, matches, missed, leftovers, now)
    BY <1>1
  <1>3. PICK q : q = Sweep(Spawn(MarkMissed(corrected, missed), detections, leftovers, now))
    OBVIOUS
  <1>4. PICK frame : frame = completed[k] + 1
    OBVIOUS
  <1>5. PICK given : given = GivenTo(ids[k], corrected, matches, detections, frame)
    OBVIOUS
  <1>6. PICK named : named = Numbered(Evicted(ids[k], Live(q)), q)
    OBVIOUS
  <1>7. PICK after : after = Evicted(Blended(embeddings[k], q, detections), Live(q))
    OBVIOUS
  <1>8. PICK born : born = issued + Cardinality(Live(q) \ DOMAIN ids[k])
    OBVIOUS
  <1>9. /\ session' = [session EXCEPT ![k] = q]
        /\ ids' = [ids EXCEPT ![k] = named]
        /\ embeddings' = [embeddings EXCEPT ![k] = after]
        /\ issued' = born
        /\ completed' = [completed EXCEPT ![k] = frame]
        /\ sightings' = [id \in 1 .. born |->
              IF id > issued
              THEN <<[frame |-> frame, det |-> detections[leftovers[id - issued]]]>>
              ELSE IF id \in DOMAIN given THEN Append(sightings[id], given[id])
              ELSE sightings[id]]
    BY <1>2, <1>3, <1>4, <1>5, <1>6, <1>7, <1>8 DEF Absorb
  <1>10. Sound(session[k], n) /\ DOMAIN ids[k] = Live(session[k])
    BY DEF Followed
  <1>11. PICK m \in Nat : m = Len(leftovers)
    BY <1>2, LenProperties
  <1>12. leftovers \in Seq(Nat)
    <2>1. leftovers \in [1 .. m -> Tier(tiers, d, "high")]
      BY <1>2, <1>11, LenProperties
    <2>2. Tier(tiers, d, "high") \subseteq Nat
      BY DEF Tier
    <2>3. leftovers \in [1 .. m -> Nat]
      BY <2>1, <2>2
    <2> QED BY <2>3, SeqDef
  <1>13. Pairs(Range(matches), n, Nat)
    <2>1. (1 .. n) \X (1 .. d) \subseteq (1 .. n) \X Nat
      OBVIOUS
    <2> QED BY <1>2, <2>1 DEF Pairs
  <1>14. PICK c \in Nat : Closed(q, session[k], n, Range(matches), leftovers, c)
    <2>1. PICK pairs : pairs = Range(matches)
      OBVIOUS
    <2> QED BY <1>2, <1>3, <1>10, <1>12, <1>13, <2>1, ClosedRows
  <1>15. born = issued + m
    <2>1. Survived(q, session[k], c, m)
      BY <1>10, <1>11, <1>14, SurvivedRows
    <2>2. session[k].lastTrackId \in Nat
      BY <1>10 DEF Sound
    <2> QED BY <1>8, <1>10, <2>1, <2>2, Renamed
  <1>16. issued \in Nat /\ DOMAIN sightings = 1 .. issued /\ frame \in Nat
    BY <1>4 DEF MapsFollow, Typed
  <1>17. PICK next : next = sightings'
    OBVIOUS
  <1>18. Recorded(next, sightings, given, detections, leftovers, frame, m)
    <2>1. /\ \A id \in 1 .. issued : id \in 1 .. born /\ ~ (id > issued)
          /\ \A j \in 1 .. m : /\ issued + j \in 1 .. born /\ issued + j > issued
                               /\ (issued + j) - issued = j
      BY <1>15, <1>16
    <2> QED BY <1>9, <1>15, <1>17, <2>1 DEF Recorded
  <1>19. /\ Followed(q, c + m, named, after, next)
         /\ Named(named, ids[k], q, session[k], m)
    <2>1. PICK p, map, blend, seen : /\ p = session[k] /\ map = ids[k] /\ blend = embeddings[k]
                                     /\ seen = sightings
      OBVIOUS
    <2>2. PICK t : t = c + m
      OBVIOUS
    <2>3. Followed(p, n, map, blend, seen)
      BY <2>1
    <2>4. Given(corrected, p, n, Range(matches)) /\ Closed(q, p, n, Range(matches), leftovers, c)
      BY <1>2, <1>14, <2>1
    <2>5. /\ given = GivenTo(map, corrected, matches, detections, frame)
          /\ named = Numbered(Evicted(map, Live(q)), q)
          /\ after = Evicted(Blended(blend, q, detections), Live(q))
          /\ DOMAIN seen = 1 .. issued
          /\ Recorded(next, seen, given, detections, leftovers, frame, m)
      BY <1>5, <1>6, <1>7, <1>16, <1>18, <2>1
    <2>6. Continued(q, t, named, after, next, map, p, m)
      BY <1>2, <1>11, <1>16, <2>2, <2>3, <2>4, <2>5, FrameFollowed
    <2> QED BY <2>1, <2>2, <2>6 DEF Continued
  <1>20. /\ DOMAIN session = Trackers /\ DOMAIN ids = Trackers /\ DOMAIN embeddings = Trackers
         /\ completed \in [Trackers -> Nat] /\ EachFollows /\ NamesApart
    BY DEF MapsFollow, Typed
  <1>21. /\ session'[k] = q /\ ids'[k] = named /\ embeddings'[k] = after
         /\ \A h \in Trackers : h # k => /\ session'[h] = session[h] /\ ids'[h] = ids[h]
                                         /\ embeddings'[h] = embeddings[h]
    BY <1>9, <1>20
  <1>22. Typed'
    <2>1. issued' \in Nat /\ DOMAIN sightings' = 1 .. issued'
      BY <1>9, <1>15, <1>16
    <2>2. /\ DOMAIN session' = Trackers /\ DOMAIN ids' = Trackers
          /\ DOMAIN embeddings' = Trackers
      BY <1>9, <1>20
    <2>3. completed' \in [Trackers -> Nat]
      BY <1>9, <1>16, <1>20
    <2> QED BY <2>1, <2>2, <2>3 DEF Typed
  <1>23. ASSUME NEW id \in DOMAIN given PROVE \E l \in DOMAIN ids[k] : id = ids[k][l]
    <2>1. PICK pairs : pairs = Range(matches)
      OBVIOUS
    <2>2. Injective(ids[k], Live(session[k]))
      BY DEF Followed, Injective
    <2>3. PICK x \in pairs : id = ids[k][session[k].tracks[x[1]].track_id]
      <3>1. PICK p, map : p = session[k] /\ map = ids[k]
        OBVIOUS
      <3>2. EachGiven(given, map, p, Range(matches), detections, frame)
        BY <1>2, <1>5, <1>10, <2>2, <3>1, GivenRows
      <3> QED BY <2>1, <3>1, <3>2 DEF EachGiven
    <2>4. x[1] \in 1 .. n
      BY <1>2, <2>1 DEF Pairs
    <2>5. session[k].tracks[x[1]].track_id \in Live(session[k])
      <3>1. Rows(session[k]) = 1 .. n
        BY <1>10, RowsArePlaces DEF Sound
      <3> QED BY <2>4, <3>1 DEF Live
    <2> QED BY <1>10, <2>3, <2>5
  <1>24. ASSUME NEW h \in Trackers, h # k
         PROVE  \E o \in Nat : Followed(session[h], o, ids[h], embeddings[h], next)
    <2>1. PICK o \in Nat : Followed(session[h], o, ids[h], embeddings[h], sightings)
      BY <1>20 DEF EachFollows
    <2>2. ASSUME NEW l \in Live(session[h])
          PROVE  /\ ids[h][l] \in DOMAIN next /\ next[ids[h][l]] = sightings[ids[h][l]]
      <3>1. l \in DOMAIN ids[h] /\ ids[h][l] \in 1 .. issued
        BY <1>16, <2>1 DEF Followed
      <3>2. ids[h][l] \notin DOMAIN given
        BY <1>20, <1>23, <1>24, <3>1 DEF NamesApart
      <3>3. ids[h][l] \in 1 .. issued + m
        BY <1>16, <3>1
      <3> QED BY <1>18, <3>1, <3>2, <3>3 DEF Recorded
    <2>3. Followed(session[h], o, ids[h], embeddings[h], next)
      BY <2>1, <2>2 DEF Followed
    <2> QED BY <2>3
  <1>25. EachFollows'
    <2>1. PICK t \in Nat : t = c + m
      OBVIOUS
    <2>2. ASSUME NEW h \in Trackers
          PROVE  \E o \in Nat : Followed(session'[h], o, ids'[h], embeddings'[h], next)
      <3>1. CASE h = k
        BY <1>19, <1>21, <2>1, <3>1
      <3>2. CASE h # k
        BY <1>21, <1>24, <3>2
      <3> QED BY <3>1, <3>2
    <2> QED BY <1>17, <2>2 DEF EachFollows
  <1>26. NamesApart'
    <2>1. ASSUME NEW h \in Trackers, h # k, NEW l \in DOMAIN ids[h], NEW o \in DOMAIN named
          PROVE  ids[h][l] # named[o]
      <3>1. PICK r \in Nat : Followed(session[h], r, ids[h], embeddings[h], sightings)
        BY <1>20 DEF EachFollows
      <3>2. ids[h][l] \in 1 .. issued
        BY <1>16, <3>1 DEF Followed
      <3>3. o \in Live(q)
        BY <1>19 DEF Followed
      <3>4. CASE o \in Live(session[k]) /\ named[o] = ids[k][o]
        BY <1>10, <1>20, <2>1, <3>4 DEF NamesApart
      <3>5. CASE named[o] \in (issued + 1) .. (issued + m)
        BY <1>16, <3>2, <3>5
      <3> QED BY <1>19, <3>3, <3>4, <3>5 DEF Named
    <2>2. ASSUME NEW g \in Trackers, NEW h \in Trackers, g # h,
                 NEW l \in DOMAIN ids'[g], NEW o \in DOMAIN ids'[h]
          PROVE  ids'[g][l] # ids'[h][o]
      <3>1. CASE g = k
        BY <1>21, <2>1, <2>2, <3>1
      <3>2. CASE h = k
        BY <1>21, <2>1, <2>2, <3>2
      <3>3. CASE g # k /\ h # k
        BY <1>20, <1>21, <2>2, <3>3 DEF NamesApart
      <3> QED BY <3>1, <3>2, <3>3
    <2> QED BY <2>2 DEF NamesApart
  <1> QED BY <1>22, <1>25, <1>26 DEF MapsFollow

LEMMA EmptyFollowed ==
    ASSUME NEW p, DOMAIN p = Fields, p.tracks = <<>>, p.lastTrackId \in Nat, NEW seen
    PROVE  Followed(p, 0, Nothing, Nothing, seen)
  <1>1. 1 .. 0 = {} /\ p.tracks \in [1 .. 0 -> Tracks]
    OBVIOUS
  <1>2. Pool(p, 0)
    BY <1>1 DEF Pool
  <1>3. Live(p) = {}
    <2>1. Rows(p) = 1 .. 0
      BY <1>2, RowsArePlaces
    <2> QED BY <1>1, <2>1 DEF Live
  <1>4. DOMAIN Nothing = {}
    BY DEF Nothing
  <1>5. Sound(p, 0)
    BY <1>1, <1>2 DEF Sound
  <1> QED BY <1>3, <1>4, <1>5 DEF Followed

LEMMA InitFollows == Init => MapsFollow
  <1> SUFFICES ASSUME Init PROVE MapsFollow
    OBVIOUS
  <1>1. /\ session = [k \in Trackers |-> NewPool(History(algorithm[k]), ReUpdates(algorithm[k]))]
        /\ ids = [k \in Trackers |-> Nothing] /\ embeddings = [k \in Trackers |-> Nothing]
        /\ issued = 0 /\ completed = [k \in Trackers |-> 0] /\ sightings = <<>>
    BY DEF Init
  <1>2. Typed
    <2>1. DOMAIN sightings = 1 .. issued
      BY <1>1
    <2>2. completed \in [Trackers -> Nat]
      BY <1>1
    <2> QED BY <1>1, <2>1, <2>2 DEF Typed
  <1>3. EachFollows
    <2>1. ASSUME NEW k \in Trackers
          PROVE  Followed(session[k], 0, ids[k], embeddings[k], sightings)
      <3>1. PICK h, u : h = History(algorithm[k]) /\ u = ReUpdates(algorithm[k])
        OBVIOUS
      <3>2. PICK p : p = NewPool(h, u)
        OBVIOUS
      <3>3. DOMAIN p = Fields /\ p.tracks = <<>> /\ p.lastTrackId = 0
        BY <3>2 DEF NewPool, Fields
      <3>4. session[k] = p /\ ids[k] = Nothing /\ embeddings[k] = Nothing
        BY <1>1, <3>1, <3>2
      <3>5. Followed(p, 0, Nothing, Nothing, sightings)
        BY <3>3, EmptyFollowed
      <3> QED BY <3>4, <3>5
    <2> QED BY <2>1 DEF EachFollows
  <1>4. NamesApart
    <2>1. \A k \in Trackers : DOMAIN ids[k] = {}
      BY <1>1 DEF Nothing
    <2> QED BY <2>1 DEF NamesApart
  <1> QED BY <1>2, <1>3, <1>4 DEF MapsFollow

LEMMA SamePools ==
    ASSUME MapsFollow, UNCHANGED <<session, ids, embeddings, issued, completed, sightings>>
    PROVE  MapsFollow'
  <1>1. Typed'
    BY DEF MapsFollow, Typed
  <1>2. EachFollows'
    BY DEF MapsFollow, EachFollows
  <1>3. NamesApart'
    BY DEF MapsFollow, NamesApart
  <1> QED BY <1>1, <1>2, <1>3 DEF MapsFollow

(* reset leaves neither rows nor entries.                                    *)
LEMMA ResetKeeps ==
    ASSUME MapsFollow, NEW k \in Trackers, Reset(k)
    PROVE  MapsFollow'
  <1>1. /\ session' = [session EXCEPT ![k] = Cleared(@)]
        /\ ids' = [ids EXCEPT ![k] = Nothing] /\ embeddings' = [embeddings EXCEPT ![k] = Nothing]
        /\ issued' = issued /\ completed' = completed /\ sightings' = sightings
    BY DEF Reset
  <1>2. Typed /\ EachFollows /\ NamesApart
    BY DEF MapsFollow
  <1>3. /\ session'[k] = Cleared(session[k]) /\ ids'[k] = Nothing /\ embeddings'[k] = Nothing
        /\ \A h \in Trackers : h # k => /\ session'[h] = session[h] /\ ids'[h] = ids[h]
                                        /\ embeddings'[h] = embeddings[h]
    BY <1>1, <1>2 DEF Typed
  <1>4. Typed'
    BY <1>1, <1>2 DEF Typed
  <1>5. ASSUME NEW h \in Trackers
        PROVE  \E n \in Nat : Followed(session'[h], n, ids'[h], embeddings'[h], sightings)
    <2>1. PICK n \in Nat : Followed(session[h], n, ids[h], embeddings[h], sightings)
      BY <1>2 DEF EachFollows
    <2>2. CASE h # k
      BY <1>3, <2>1, <2>2
    <2>3. CASE h = k
      <3>1. PICK p : p = session[k]
        OBVIOUS
      <3>2. PICK fresh : fresh = NewPool(p.history, p.reUpdate)
        OBVIOUS
      <3>3. DOMAIN fresh = Fields /\ fresh.tracks = <<>>
        BY <3>2 DEF NewPool, Fields
      <3>4. PICK q : q = [fresh EXCEPT !.lastTrackId = p.lastTrackId]
        OBVIOUS
      <3>5. p.lastTrackId \in Nat
        BY <2>1, <2>3, <3>1 DEF Followed, Sound
      <3>6. DOMAIN q = Fields /\ q.tracks = <<>> /\ q.lastTrackId \in Nat
        BY <3>3, <3>4, <3>5 DEF Fields
      <3>7. session'[k] = q
        BY <1>3, <3>1, <3>2, <3>4 DEF Cleared
      <3>8. Followed(q, 0, Nothing, Nothing, sightings)
        BY <3>6, EmptyFollowed
      <3> QED BY <1>3, <2>3, <3>7, <3>8
    <2> QED BY <2>2, <2>3
  <1>6. EachFollows'
    BY <1>1, <1>5 DEF EachFollows
  <1>7. NamesApart'
    <2>1. DOMAIN ids'[k] = {}
      BY <1>3 DEF Nothing
    <2>2. ASSUME NEW g \in Trackers, NEW h \in Trackers, g # h,
                 NEW l \in DOMAIN ids'[g], NEW o \in DOMAIN ids'[h]
          PROVE  ids'[g][l] # ids'[h][o]
      <3>1. g # k /\ h # k
        BY <2>1, <2>2
      <3> QED BY <1>2, <1>3, <2>2, <3>1 DEF NamesApart
    <2> QED BY <2>2 DEF NamesApart
  <1> QED BY <1>4, <1>6, <1>7 DEF MapsFollow

LEMMA NextKeeps == MapsFollow /\ [Next]_vars => MapsFollow'
  <1> SUFFICES ASSUME MapsFollow, [Next]_vars PROVE MapsFollow'
    OBVIOUS
  <1>1. CASE UNCHANGED vars
    <2>1. UNCHANGED <<session, ids, embeddings, issued, completed, sightings>>
      BY <1>1 DEF vars, native
    <2> QED BY <2>1, SamePools
  <1>2. ASSUME NEW k \in Trackers,
               \/ SortUpdate(k) \/ ByteTrackUpdate(k) \/ OcSortUpdate(k)
               \/ DeepSortV2Update(k) \/ BotSortUpdate(k)
        PROVE  MapsFollow'
    <2>1. PICK n \in Nat : Followed(session[k], n, ids[k], embeddings[k], sightings)
      BY DEF MapsFollow, EachFollows
    <2>2. Sound(session[k], n)
      BY <2>1 DEF Followed
    <2>3. Outcome(k, n)
      BY <1>2, <2>2, SortOutcome, ByteTrackOutcome, OcSortOutcome, DeepSortOutcome, BotSortOutcome
    <2> QED BY <2>1, <2>3, AbsorbKeeps
  <1>3. ASSUME NEW k \in Trackers, BotSortRaise(k) \/ Refuse(k) PROVE MapsFollow'
    <2>1. UNCHANGED <<session, ids, embeddings, issued, completed, sightings>>
      BY <1>3 DEF BotSortRaise, Refuse, native
    <2> QED BY <2>1, SamePools
  <1>4. ASSUME NEW k \in Trackers, Reset(k) PROVE MapsFollow'
    BY <1>4, ResetKeeps
  <1>5. CASE Next
    <2>1. PICK k \in Trackers :
              \/ SortUpdate(k) \/ ByteTrackUpdate(k) \/ OcSortUpdate(k)
              \/ DeepSortV2Update(k) \/ BotSortUpdate(k)
              \/ BotSortRaise(k) \/ Refuse(k) \/ Reset(k)
      BY <1>5 DEF Next
    <2> QED BY <1>2, <1>3, <1>4, <2>1
  <1> QED BY <1>1, <1>5

LEMMA FollowingIsEnough == MapsFollow => AppearanceFollows
  <1> SUFFICES ASSUME MapsFollow, NEW k \in Trackers
               PROVE  /\ DOMAIN ids[k] = Live(session[k]) /\ DOMAIN embeddings[k] = Live(session[k])
                      /\ \A l, m \in DOMAIN ids[k] : l # m => ids[k][l] # ids[k][m]
                      /\ \A local \in DOMAIN ids[k] :
                            LET seen == sightings[ids[k][local]]
                                clear == {j \in DOMAIN seen : seen[j].det.tier # "low"}
                                blended == embeddings[k][local]
                            IN /\ Len(blended) = Cardinality(clear)
                               /\ \A j \in clear :
                                     blended[Cardinality({i \in clear : i <= j})] = seen[j].det
    BY DEF AppearanceFollows
  <1>1. PICK n \in Nat : Followed(session[k], n, ids[k], embeddings[k], sightings)
    BY DEF MapsFollow, EachFollows
  <1>2. /\ DOMAIN ids[k] = Live(session[k]) /\ DOMAIN embeddings[k] = Live(session[k])
        /\ \A l, m \in DOMAIN ids[k] : l # m => ids[k][l] # ids[k][m]
    BY <1>1 DEF Followed
  <1>3. ASSUME NEW local \in DOMAIN ids[k]
        PROVE  LET seen == sightings[ids[k][local]]
                   clear == {j \in DOMAIN seen : seen[j].det.tier # "low"}
                   blended == embeddings[k][local]
               IN /\ Len(blended) = Cardinality(clear)
                  /\ \A j \in clear : blended[Cardinality({i \in clear : i <= j})] = seen[j].det
    <2>1. PICK seen, blended : seen = sightings[ids[k][local]] /\ blended = embeddings[k][local]
      OBVIOUS
    <2>2. Trail(blended, seen)
      BY <1>1, <1>2, <2>1 DEF Followed
    <2>3. /\ Len(blended) = Cardinality(Clear(seen))
          /\ \A j \in Clear(seen) : blended[Cardinality(UpTo(Clear(seen), j))] = seen[j].det
      BY <2>2 DEF Trail
    <2> QED BY <2>1, <2>3 DEF Clear, UpTo
  <1> QED BY <1>2, <1>3

(* The names and the appearances kept beside a compiled pool follow it: one  *)
(* entry for each live track and no other, no name twice, and an appearance  *)
(* blended from the crops of that very track, each once and in order,        *)
(* through every algorithm's associations, the sweep of the rows and the     *)
(* resets of any of the trackers (native.py absorb, pool.cpp last_match).    *)
THEOREM AppearancesFollow == Spec => []AppearanceFollows
  <1>1. Init => MapsFollow
    BY InitFollows
  <1>2. MapsFollow /\ [Next]_vars => MapsFollow'
    BY NextKeeps
  <1>3. MapsFollow => AppearanceFollows
    BY FollowingIsEnough
  <1> QED BY <1>1, <1>2, <1>3, PTL DEF Spec

================================================================================
