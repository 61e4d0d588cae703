------------------------- MODULE GlobalIdAssignerProofs -------------------------
(***************************************************************************)
(* Theorems about GlobalIdAssigner for any number of tracks, cameras and    *)
(* instants and any limits.  The inductive invariant says that `members' is *)
(* the inverse of `owner', who the tracks waiting for a place and those     *)
(* that lost one are, and how far a call may already be from what the       *)
(* register last published.                                                 *)
(***************************************************************************)
EXTENDS GlobalIdAssigner, FiniteSetTheorems, WellFoundedInduction, TLAPS

TypeOK ==
    /\ counter \in Nat /\ step \in Nat
    /\ owner \in [Keys -> Nat \cup {None}]
    /\ hits \in [Keys -> Nat]
    /\ lastSeen \in [Keys -> Nat]
    /\ pc \in Resting \cup Working

(* The two maps are each other's inverse.                                   *)
Inverted ==
    /\ Live = {owner[k] : k \in Owned}
    /\ \A g \in Live : members[g] = {k \in Keys : owner[k] = g}

(* Nobody owns an id that is still to be issued, and stamps are of the past. *)
IdsIssued == \A k \in Owned : owner[k] < counter
StampsPast == \A k \in Keys : lastSeen[k] <= step
OwnedAreTracked == Owned \subseteq Tracked

(* While clusters are being taken, the instant's tracks are those stamped   *)
(* with it, and the clusters are made of them.                              *)
InstantConsistent ==
    pc \in {"grouping", "placing"} =>
        /\ observed = {k \in Keys : lastSeen[k] = step}
        /\ step > 0
        /\ \A c \in clusters : c \subseteq observed

(* While a cluster is being placed: its target is alive, the challengers    *)
(* are not in it and the losers still are.                                  *)
PlacingConsistent ==
    pc = "placing" =>
        /\ target \in Live
        /\ challengers \subseteq observed
        /\ \A k \in challengers : owner[k] # target
        /\ \A k \in displaced : k \in observed /\ owner[k] = target

(* One track per camera and identity, losers of a contest aside.            *)
OnePerCamera ==
    \A j, k \in Owned :
        j # k /\ SameCamera(j, k) /\ owner[j] = owner[k] =>
            /\ pc = "placing" /\ owner[j] = target
            /\ j \in displaced \/ k \in displaced

StoreInv == /\ TypeOK
            /\ Inverted
            /\ IdsIssued
            /\ StampsPast
            /\ OwnedAreTracked
            /\ InstantConsistent
            /\ PlacingConsistent
            /\ OnePerCamera

(* Ids a call may give: those held when it began and those it issues.       *)
KnownIds == {known[k] : k \in {j \in Keys : known[j] # None}}
Givable == KnownIds \cup issued .. counter - 1

(* Between calls the register is what `owner' says; during one, tracks the  *)
(* instant does not see keep their id or lose it, and every id is givable;  *)
(* once the answer is out a track keeps the one answered or loses it.       *)
AheadOfRegister ==
    /\ issued \in Nat /\ issued <= counter
    /\ known \in [Keys -> Nat \cup {None}]
    /\ pc \in Resting => known = owner
    /\ pc \in Working =>
           /\ observed \subseteq Keys
           /\ \A k \in Keys \ observed : owner[k] \in {known[k], None}
           /\ \A k \in Owned : owner[k] \in Givable
    /\ pc \in {"ageing", "trimming", "capping"} =>
           /\ DOMAIN published = observed
           /\ \A k \in observed : /\ published[k] \in Givable
                                  /\ owner[k] \in {published[k], None}
           /\ \A j, k \in observed : j # k /\ SameCamera(j, k) => published[j] # published[k]

(* The tracks of the instant have their answer and carry its stamp, and no  *)
(* other track does.                                                        *)
AnsweredStay == \A k \in observed : owner[k] = published[k] /\ lastSeen[k] = step
StampedAreSeen == step > 0 /\ \A k \in Keys : lastSeen[k] = step => k \in observed

(* What an eviction finds: stamps without an owner only if the call did,    *)
(* and the instant's tracks where the answer put them, until the limits     *)
(* leave no room for them.                                                  *)
EvictionInv ==
    /\ pc \in {"grouping", "placing"} => orphans \/ Tracked \subseteq Owned \cup observed
    /\ pc \in {"ageing", "trimming", "capping"} => StampedAreSeen
    /\ pc \in {"ageing", "trimming"} => /\ orphans \/ Tracked \subseteq Owned
                                       /\ AnsweredStay
    /\ pc = "capping" => /\ orphans \/ Cardinality(Owned) <= MaxTracks
                         /\ Cardinality(observed) <= MaxTracks => AnsweredStay
    /\ SeenOnesStay

--------------------------------------------------------------------------------
(* Identities move                                                          *)

LEMMA NoneIsNoId == None \notin Nat
  BY NoneAssumption

(* What _detach leaves and _adopt adds, when the maps agree: the lists of    *)
(* the new owners.                                                           *)
LEMMA RehomeKeepsInverse ==
    ASSUME TypeOK, Inverted, NEW gone, NEW grant,
           DOMAIN grant \subseteq Keys, \A k \in DOMAIN grant : grant[k] \in Nat,
           gone \cap DOMAIN grant = {},
           Rehome(gone, grant)
    PROVE  Inverted'
  <1> USE NoneIsNoId
  <1> DEFINE keys == gone \cup DOMAIN grant
             D == Detached(keys)
  <1>1. \A k \in Keys : owner'[k] = IF k \in gone THEN None
                                    ELSE IF k \in DOMAIN grant THEN grant[k] ELSE owner[k]
    BY DEF Rehome
  <1>2. \A g \in Live : {k \in members[g] : ~(k \in keys /\ owner[k] = g)}
                            = {k \in Keys \ keys : owner[k] = g}
    BY DEF Inverted
  <1>3. /\ DOMAIN D = {g \in Live : \E k \in Keys \ keys : owner[k] = g}
        /\ \A g \in DOMAIN D : D[g] = {k \in Keys \ keys : owner[k] = g}
    BY <1>2 DEF Detached
  <1>4. members' = Listed(D, grant)
    BY DEF Rehome
  <1> HIDE DEF D
  <1>5. /\ Live' = DOMAIN D \cup Range(grant)
        /\ \A g \in Live' : members'[g] = (IF g \in DOMAIN D THEN D[g] ELSE {})
                                             \cup {k \in DOMAIN grant : grant[k] = g}
    BY <1>4 DEF Listed, Live
  <1>6. ASSUME NEW g \in Live'
        PROVE  members'[g] = {k \in Keys : owner'[k] = g}
    <2>1. g # None
      BY <1>5, <1>3 DEF Inverted, Owned, TypeOK, Range
    <2>2. {k \in Keys : owner'[k] = g} = {k \in Keys \ keys : owner[k] = g}
                                             \cup {k \in DOMAIN grant : grant[k] = g}
      BY <2>1, <1>1
    <2>3. g \notin DOMAIN D => {k \in Keys \ keys : owner[k] = g} = {}
      BY <1>3, <2>1 DEF Inverted, Owned
    <2>4. QED
      BY <2>2, <2>3, <1>3, <1>5
  <1>7. Live' \subseteq {owner'[k] : k \in Owned'}
    <2> SUFFICES ASSUME NEW g \in Live'
                 PROVE  \E k \in Keys : owner'[k] = g /\ g # None
      BY DEF Owned
    <2>1. CASE g \in DOMAIN D
      BY <2>1, <1>3, <1>1 DEF Inverted, Owned
    <2>2. CASE g \in Range(grant)
      BY <2>2, <1>1 DEF Range
    <2>3. QED
      BY <2>1, <2>2, <1>5
  <1>8. {owner'[k] : k \in Owned'} \subseteq Live'
    <2> SUFFICES ASSUME NEW k \in Keys, owner'[k] # None
                 PROVE  owner'[k] \in Live'
      BY DEF Owned
    <2>1. k \notin gone
      BY <1>1
    <2>2. CASE k \in DOMAIN grant
      BY <2>1, <2>2, <1>1, <1>5 DEF Range
    <2>3. CASE k \notin DOMAIN grant
      BY <2>1, <2>3, <1>1, <1>5, <1>3 DEF Inverted, Owned
    <2>4. QED
      BY <2>2, <2>3
  <1>9. QED
    BY <1>6, <1>7, <1>8 DEF Inverted

(* Who owns what, and when it was seen, after the move.                      *)
Moved(gone, grant) ==
    \A k \in Keys :
        /\ owner'[k] = IF k \in gone THEN None
                       ELSE IF k \in DOMAIN grant THEN grant[k] ELSE owner[k]
        /\ lastSeen'[k] = IF k \in gone THEN Unseen ELSE lastSeen[k]

(* A move of tracks that have a stamp to ids that are issued keeps what the  *)
(* store is.                                                                 *)
LEMMA RehomeKeepsStore ==
    ASSUME TypeOK, Inverted, IdsIssued, StampsPast, OwnedAreTracked,
           NEW gone, NEW grant, Rehome(gone, grant),
           DOMAIN grant \subseteq Tracked, gone \cap DOMAIN grant = {},
           counter' \in Nat, counter' >= counter,
           \A k \in DOMAIN grant : grant[k] \in Nat /\ grant[k] < counter',
           step' = step, pc' \in Resting \cup Working
    PROVE  /\ TypeOK' /\ Inverted' /\ IdsIssued' /\ StampsPast' /\ OwnedAreTracked'
           /\ Moved(gone, grant)
  <1> USE NoneIsNoId DEF Unseen
  <1>1. DOMAIN grant \subseteq Keys
    BY DEF Tracked
  <1>2. Moved(gone, grant)
    BY DEF Moved, Rehome
  <1>3. Inverted'
    BY <1>1, RehomeKeepsInverse
  <1>4. TypeOK'
    <2>1. owner' \in [Keys -> Nat \cup {None}]
      BY <1>1 DEF Rehome, TypeOK
    <2>2. hits' \in [Keys -> Nat] /\ lastSeen' \in [Keys -> Nat]
      BY DEF Rehome, TypeOK
    <2>3. QED
      BY <2>1, <2>2 DEF TypeOK
  <1>5. IdsIssued'
    BY <1>2 DEF IdsIssued, Moved, Owned, TypeOK
  <1>6. StampsPast'
    BY <1>2 DEF StampsPast, Moved, TypeOK
  <1>7. OwnedAreTracked'
    BY <1>2 DEF OwnedAreTracked, Moved, Owned, Tracked
  <1>8. QED
    BY <1>2, <1>3, <1>4, <1>5, <1>6, <1>7

--------------------------------------------------------------------------------
(* Which identity a cluster claims                                           *)

(* A strict order on a finite set has a first element.  (No induction        *)
(* theorem is needed: strict inclusion of finite sets is well-founded.)      *)
LEMMA FirstExists ==
    ASSUME NEW S, IsFiniteSet(S), S # {}, NEW R,
           \A x \in S : <<x, x>> \notin R,
           \A x, y, z \in S : <<x, y>> \in R /\ <<y, z>> \in R => <<x, z>> \in R
    PROVE  \E x \in S : \A y \in S : <<y, x>> \notin R
  <1> DEFINE before(x) == {y \in S : <<y, x>> \in R}
             Q == StrictSubsetOrdering(S)
             T == {before(x) : x \in S}
  <1>1. IsWellFoundedOn(Q, SUBSET S)
    BY FS_StrictSubsetOrderingWellFounded, FS_FiniteSubsetsOfFinite
  <1>2. \A x \in S : before(x) \in SUBSET S
    OBVIOUS
  <1>3. T \subseteq SUBSET S /\ T # {}
    <2> HIDE DEF before
    <2> QED BY <1>2
  <1>4. \E U \in T : \A V \in T : ~ (<<V, U>> \in Q)
    <2> HIDE DEF Q, T
    <2> QED BY <1>1, <1>3, WFMin
  <1>5. PICK x \in S : \A y \in S : ~ (<<before(y), before(x)>> \in Q)
    <2> HIDE DEF before, Q
    <2> QED BY <1>4
  <1>6. ASSUME NEW y \in S, <<y, x>> \in R PROVE FALSE
    <2>1. before(y) \subseteq before(x)
      BY <1>6
    <2>2. y \in before(x) /\ y \notin before(y)
      BY <1>6
    <2>3. <<before(y), before(x)>> \in Q
      BY <2>1, <2>2 DEF StrictSubsetOrdering
    <2> QED BY <2>3, <1>5
  <1> QED BY <1>6

(* A ranking of a finite set has a greatest element.                         *)
LEMMA GreatestExists ==
    ASSUME NEW S, IsFiniteSet(S), S # {}, NEW rank \in [S -> Int]
    PROVE  \E x \in S : \A y \in S : rank[y] <= rank[x]
  <1> DEFINE R == {p \in S \X S : rank[p[1]] > rank[p[2]]}
  <1>1. \A x, y \in S : <<x, y>> \in R <=> rank[x] > rank[y]
    OBVIOUS
  <1>2. \E x \in S : \A y \in S : <<y, x>> \notin R
    <2>1. \A x \in S : <<x, x>> \notin R
      BY <1>1
    <2>2. \A x, y, z \in S : <<x, y>> \in R /\ <<y, z>> \in R => <<x, z>> \in R
      BY <1>1
    <2> HIDE DEF R
    <2> QED BY <2>1, <2>2, FirstExists
  <1>3. PICK x \in S : \A y \in S : ~(rank[y] > rank[x])
    BY <1>1, <1>2
  <1> QED BY <1>3

(* The least of a set of naturals, and from it induction for sets.           *)
LEMMA LeastNatural ==
    ASSUME NEW T \in SUBSET Nat, T # {}
    PROVE  \E x \in T : \A y \in T : x <= y
  <1>1. PICK n \in T : TRUE
    OBVIOUS
  <1> DEFINE S == {t \in T : t <= n}
             rank == [t \in S |-> -t]
  <1>2. S \in SUBSET Nat /\ S # {} /\ \A s \in S : s <= n
    <2>1. n \in S
      BY <1>1
    <2> QED BY <2>1
  <1>3. IsFiniteSet(S)
    <2> HIDE DEF S
    <2> QED BY <1>2, FS_BoundedSetOfNaturals
  <1>4. rank \in [S -> Int]
    <2> HIDE DEF S
    <2> QED BY <1>2
  <1>5. PICK x \in S : \A y \in S : rank[y] <= rank[x]
    <2> HIDE DEF S, rank
    <2> QED BY <1>2, <1>3, <1>4, GreatestExists
  <1>6. QED
    BY <1>5

LEMMA SetInduction ==
    ASSUME NEW P \in SUBSET Nat, 0 \in P, \A n \in P : n + 1 \in P
    PROVE  P = Nat
  <1> SUFFICES ASSUME Nat \ P # {} PROVE FALSE
    OBVIOUS
  <1>1. PICK x \in Nat \ P : \A y \in Nat \ P : x <= y
    BY LeastNatural
  <1>2. x # 0 /\ x - 1 \in Nat
    OBVIOUS
  <1>3. x - 1 \in P
    BY <1>1, <1>2
  <1>4. QED
    BY <1>2, <1>3

(* A total order on a finite set has a first n.                              *)
LEMMA FirstSomeExist ==
    ASSUME NEW S, IsFiniteSet(S), NEW n \in 0 .. Cardinality(S), NEW R,
           \A x \in S : <<x, x>> \notin R,
           \A x, y, z \in S : <<x, y>> \in R /\ <<y, z>> \in R => <<x, z>> \in R,
           \A x, y \in S : x = y \/ <<x, y>> \in R \/ <<y, x>> \in R
    PROVE  \E T \in SUBSET S : Cardinality(T) = n /\ \A x \in T, y \in S \ T : <<x, y>> \in R
  <1> DEFINE Firsts(m) == {T \in SUBSET S : Cardinality(T) = m /\ \A x \in T, y \in S \ T : <<x, y>> \in R}
             P == {m \in Nat : m <= Cardinality(S) => Firsts(m) # {}}
  <1>1. Cardinality(S) \in Nat
    BY FS_CardinalityType
  <1>2. 0 \in P
    <2>1. {} \in Firsts(0)
      BY FS_EmptySet
    <2> QED BY <2>1
  <1>3. ASSUME NEW m \in P, m + 1 <= Cardinality(S) PROVE Firsts(m + 1) # {}
    <2>1. m \in Nat /\ m <= Cardinality(S)
      BY <1>1, <1>3
    <2>2. PICK T \in Firsts(m) : TRUE
      BY <1>3, <2>1
    <2>3. T \in SUBSET S /\ Cardinality(T) = m /\ \A x \in T, y \in S \ T : <<x, y>> \in R
      BY <2>2
    <2>4. IsFiniteSet(T) /\ IsFiniteSet(S \ T) /\ S \ T # {}
      BY <2>3, <1>3, <1>1, <2>1, FS_Subset
    <2>5. PICK x \in S \ T : \A y \in S \ T : <<y, x>> \notin R
      <3> DEFINE U == S \ T
      <3>1. \A v \in U : v \in S
        OBVIOUS
      <3> HIDE DEF U
      <3>2. IsFiniteSet(U) /\ U # {}
        BY <2>4 DEF U
      <3>3. \E v \in U : \A y \in U : <<y, v>> \notin R
        BY <3>1, <3>2, FirstExists
      <3> QED BY <3>3 DEF U
    <2>6. Cardinality(T \cup {x}) = m + 1
      BY <2>3, <2>4, <2>5, FS_AddElement
    <2>7. \A u \in T \cup {x}, y \in S \ (T \cup {x}) : <<u, y>> \in R
      BY <2>3, <2>5
    <2>8. T \cup {x} \in Firsts(m + 1)
      BY <2>3, <2>5, <2>6, <2>7
    <2> QED BY <2>8
  <1>4. \A m \in P : m + 1 \in P
    <2> HIDE DEF Firsts
    <2> QED BY <1>3
  <1>5. P = Nat
    <2>1. P \in SUBSET Nat
      OBVIOUS
    <2> HIDE DEF P
    <2> QED BY <2>1, <1>2, <1>4, SetInduction
  <1>6. n \in P /\ n <= Cardinality(S)
    BY <1>1, <1>5
  <1>7. Firsts(n) # {}
    <2> HIDE DEF Firsts
    <2> QED BY <1>6
  <1> QED BY <1>7

(* What a function makes of a finite set is finite.                          *)
LEMMA FiniteImage ==
    ASSUME NEW f, NEW S, IsFiniteSet(S)
    PROVE  IsFiniteSet({f[x] : x \in S})
  <1> DEFINE T == {f[x] : x \in S}
             onto == [x \in S |-> f[x]]
  <1>1. onto \in Surjection(S, T)
    BY DEF Surjection
  <1> HIDE DEF T, onto
  <1>2. IsFiniteSet(T)
    BY <1>1, FS_Surjection
  <1> QED BY <1>2 DEF T

(* So Max is what it says.                                                   *)
LEMMA MaxOfFinite ==
    ASSUME NEW S \in SUBSET Int, IsFiniteSet(S), S # {}
    PROVE  Max(S) \in S /\ \A y \in S : y <= Max(S)
  <1> DEFINE rank == [x \in S |-> x]
  <1>1. rank \in [S -> Int]
    OBVIOUS
  <1>2. \E x \in S : \A y \in S : rank[y] <= rank[x]
    <2> HIDE DEF rank
    <2> QED BY <1>1, GreatestExists
  <1>3. \E x \in S : \A y \in S : x >= y
    BY <1>2
  <1> QED BY <1>3 DEF Max

LEMMA AgeIsNatural ==
    ASSUME TypeOK, Inverted, NEW g
    PROVE  Age(g) \in Nat
  <1> DEFINE ages == {hits[k] : k \in MembersOf(g)} \cup {0}
  <1>1. MembersOf(g) \subseteq Keys
    BY DEF MembersOf, Inverted
  <1>2. IsFiniteSet(MembersOf(g))
    BY <1>1, KeysAssumption, FS_Subset
  <1>3. IsFiniteSet({hits[k] : k \in MembersOf(g)})
    BY <1>2, FiniteImage
  <1>4. IsFiniteSet(ages)
    BY <1>3, FS_AddElement
  <1>5. ages \in SUBSET Nat /\ ages # {}
    BY <1>1 DEF TypeOK
  <1> HIDE DEF ages
  <1>6. Max(ages) \in ages
    BY <1>4, <1>5, MaxOfFinite
  <1> QED BY <1>5, <1>6 DEF Age, ages

(* _select_by_oldest returns one of the candidates.                          *)
LEMMA SelectByOldestChooses ==
    ASSUME TypeOK, Inverted, NEW ids \in SUBSET Nat, IsFiniteSet(ids), ids # {}
    PROVE  SelectByOldest(ids) \in ids
  <1> DEFINE rank == [g \in ids |-> Age(g)]
             oldest == {g \in ids : \A h \in ids : rank[h] <= rank[g]}
             low == [g \in oldest |-> -g]
  <1>1. rank \in [ids -> Int] /\ \A g \in ids : rank[g] = Age(g)
    BY AgeIsNatural
  <1>2. oldest # {} /\ IsFiniteSet(oldest)
    <2>1. \E g \in ids : \A h \in ids : rank[h] <= rank[g]
      BY <1>1, GreatestExists
    <2> QED BY <2>1, FS_Subset
  <1>3. low \in [oldest -> Int] /\ \A h \in oldest : h \in Nat /\ low[h] = -h
    <2>1. \A h \in oldest : h \in Nat
      OBVIOUS
    <2> HIDE DEF oldest
    <2> QED BY <2>1
  <1>4. PICK g \in oldest : \A h \in oldest : low[h] <= low[g]
    <2> HIDE DEF oldest, low
    <2> QED BY <1>2, <1>3, GreatestExists
  <1>5. \A h \in ids : Age(h) < Age(g) \/ (Age(h) = Age(g) /\ g <= h)
    <2> TAKE h \in ids
    <2>1. Age(h) <= Age(g) /\ Age(h) \in Nat /\ Age(g) \in Nat
      BY <1>1, AgeIsNatural
    <2>2. CASE Age(h) = Age(g)
      <3>1. h \in oldest
        BY <2>2, <1>1
      <3> HIDE DEF oldest, low
      <3>2. low[h] <= low[g] /\ low[h] = -h /\ low[g] = -g /\ g \in Nat /\ h \in Nat
        BY <3>1, <1>4, <1>3
      <3> QED BY <3>2, <2>2
    <2>3. CASE Age(h) < Age(g)
      BY <2>3
    <2> QED BY <2>1, <2>2, <2>3
  <1>6. \E i \in ids : \A h \in ids : Age(h) < Age(i) \/ (Age(h) = Age(i) /\ i <= h)
    BY <1>5
  <1> QED BY <1>6 DEF SelectByOldest

(* The candidates are live identities.                                       *)
LEMMA CandidatesAreLive ==
    ASSUME TypeOK, Inverted, NEW cluster \in SUBSET Keys
    PROVE  /\ Candidates(cluster) \subseteq Live
           /\ Candidates(cluster) \in SUBSET Nat
           /\ IsFiniteSet(Candidates(cluster))
  <1> DEFINE ids == {owner[k] : k \in cluster \cap Owned}
  <1>1. Candidates(cluster) \subseteq ids
    BY DEF Candidates
  <1>2. ids \subseteq Live /\ ids \subseteq Nat
    BY DEF Inverted, Owned, TypeOK
  <1>3. IsFiniteSet(cluster \cap Owned)
    BY KeysAssumption, FS_Subset
  <1>4. IsFiniteSet(ids)
    BY <1>3, FiniteImage
  <1> HIDE DEF ids
  <1> QED BY <1>1, <1>2, <1>4, FS_Subset

--------------------------------------------------------------------------------
(* Each step keeps the store                                                 *)

(* Which clusters an instant may have: sets of the tracks seen.              *)
LEMMA ClustersAreSeen ==
    ASSUME NEW seen \in SUBSET Keys, NEW groups \in Clusterings[seen], NEW c \in groups
    PROVE  c \subseteq seen
  <1>1. PICK labels \in [seen -> 1 .. Cardinality(seen)] : groups = Clusters(labels)
    BY DEF Clusterings
  <1>2. QED
    BY <1>1 DEF Clusters

LEMMA ObserveKeepsStamps ==
    ASSUME TypeOK, StampsPast, OwnedAreTracked, NEW seen \in SUBSET Keys,
           step' = step + 1, Observe(seen), owner' = owner
    PROVE  /\ hits' \in [Keys -> Nat] /\ lastSeen' \in [Keys -> Nat]
           /\ StampsPast' /\ OwnedAreTracked'
           /\ seen = {k \in Keys : lastSeen'[k] = step'}
  <1>1. \A k \in Keys : lastSeen'[k] = IF k \in seen THEN step + 1 ELSE lastSeen[k]
    BY DEF Observe
  <1>2. hits' \in [Keys -> Nat] /\ lastSeen' \in [Keys -> Nat]
    BY DEF Observe, TypeOK
  <1>3. StampsPast'
    BY <1>1 DEF StampsPast, TypeOK
  <1>4. OwnedAreTracked'
    BY <1>1 DEF OwnedAreTracked, Owned, Tracked, Unseen, TypeOK
  <1>5. seen = {k \in Keys : lastSeen'[k] = step'}
    BY <1>1 DEF StampsPast, TypeOK
  <1>6. QED
    BY <1>2, <1>3, <1>4, <1>5

LEMMA AssignKeepsStore ==
    ASSUME StoreInv, NEW seen \in SUBSET Keys, NEW groups \in Clusterings[seen],
           Assign(seen, groups)
    PROVE  StoreInv'
  <1> USE DEF StoreInv
  <1>1. /\ pc \in Resting /\ pc' = "grouping" /\ owner' = owner /\ members' = members
        /\ counter' = counter /\ step' = step + 1 /\ Observe(seen)
        /\ observed' = seen /\ clusters' = groups
    BY DEF Assign
  <1>2. /\ hits' \in [Keys -> Nat] /\ lastSeen' \in [Keys -> Nat]
        /\ StampsPast' /\ OwnedAreTracked'
        /\ seen = {k \in Keys : lastSeen'[k] = step'}
    BY <1>1, ObserveKeepsStamps
  <1>3. TypeOK'
    BY <1>1, <1>2 DEF TypeOK, Working
  <1>4. Inverted' /\ IdsIssued'
    BY <1>1 DEF Inverted, IdsIssued, Live, Owned
  <1>5. InstantConsistent'
    BY <1>1, <1>2, ClustersAreSeen DEF InstantConsistent, TypeOK
  <1>6. PlacingConsistent'
    BY <1>1 DEF PlacingConsistent
  <1>7. OnePerCamera'
    BY <1>1 DEF OnePerCamera, Owned, Resting
  <1>8. QED
    BY <1>2, <1>3, <1>4, <1>5, <1>6, <1>7

LEMMA AssignFailsKeepsStore ==
    ASSUME StoreInv, NEW recorded \in SUBSET Keys, AssignFails(recorded)
    PROVE  StoreInv'
  <1> USE DEF StoreInv
  <1>1. /\ pc \in Resting /\ pc' = "idle" /\ owner' = owner /\ members' = members
        /\ counter' = counter /\ step' = step + 1 /\ Observe(recorded)
    BY DEF AssignFails
  <1>2. /\ hits' \in [Keys -> Nat] /\ lastSeen' \in [Keys -> Nat]
        /\ StampsPast' /\ OwnedAreTracked'
    BY <1>1, ObserveKeepsStamps
  <1>3. TypeOK'
    BY <1>1, <1>2 DEF TypeOK, Resting
  <1>4. Inverted' /\ IdsIssued'
    BY <1>1 DEF Inverted, IdsIssued, Live, Owned
  <1>5. InstantConsistent' /\ PlacingConsistent'
    BY <1>1 DEF InstantConsistent, PlacingConsistent
  <1>6. OnePerCamera'
    BY <1>1 DEF OnePerCamera, Owned, Resting
  <1>7. QED
    BY <1>2, <1>3, <1>4, <1>5, <1>6

LEMMA ResetKeepsStore ==
    ASSUME StoreInv, Reset
    PROVE  StoreInv'
  <1> USE NoneIsNoId DEF StoreInv, Reset
  <1>1. \A k \in Keys : owner'[k] = None /\ lastSeen'[k] = Unseen
    OBVIOUS
  <1>2. TypeOK'
    BY DEF TypeOK, Resting, Unseen
  <1>3. Owned' = {} /\ Live' = {}
    BY <1>1 DEF Owned, Live
  <1>4. Inverted' /\ IdsIssued' /\ OwnedAreTracked' /\ OnePerCamera'
    BY <1>3 DEF Inverted, IdsIssued, OwnedAreTracked, OnePerCamera
  <1>5. StampsPast'
    BY <1>1 DEF StampsPast, Unseen, TypeOK
  <1>6. InstantConsistent' /\ PlacingConsistent'
    BY DEF InstantConsistent, PlacingConsistent
  <1>7. QED
    BY <1>2, <1>4, <1>5, <1>6

(* Nothing moves: the rest of the store stays what it is.                    *)
LEMMA QuietStepKeepsStore ==
    ASSUME TypeOK, Inverted, IdsIssued, StampsPast, OwnedAreTracked,
           UNCHANGED <<counter, step, maps>>, pc' \in Resting \cup Working
    PROVE  TypeOK' /\ Inverted' /\ IdsIssued' /\ StampsPast' /\ OwnedAreTracked'
  <1>1. TypeOK'
    BY DEF TypeOK, maps
  <1>2. Inverted' /\ IdsIssued' /\ StampsPast' /\ OwnedAreTracked'
    BY DEF Inverted, IdsIssued, StampsPast, OwnedAreTracked, Live, Owned, Tracked, maps
  <1>3. QED
    BY <1>1, <1>2

LEMMA LeaveClusterKeepsStore ==
    ASSUME StoreInv, NEW cluster \in clusters, LeaveCluster(cluster)
    PROVE  StoreInv'
  <1> USE DEF StoreInv, LeaveCluster
  <1>1. TypeOK' /\ Inverted' /\ IdsIssued' /\ StampsPast' /\ OwnedAreTracked'
    BY QuietStepKeepsStore DEF Working
  <1>2. InstantConsistent' /\ PlacingConsistent'
    BY DEF InstantConsistent, PlacingConsistent, maps
  <1>3. OnePerCamera'
    BY DEF OnePerCamera, Owned, maps
  <1>4. QED
    BY <1>1, <1>2, <1>3

LEMMA ClaimIdentityKeepsStore ==
    ASSUME StoreInv, NEW cluster \in clusters, ClaimIdentity(cluster)
    PROVE  StoreInv'
  <1> USE DEF StoreInv, ClaimIdentity
  <1>1. TypeOK' /\ Inverted' /\ IdsIssued' /\ StampsPast' /\ OwnedAreTracked'
    BY QuietStepKeepsStore DEF Working
  <1>2. cluster \subseteq observed /\ observed \subseteq Keys
    BY DEF InstantConsistent
  <1>3. target' \in Live
    BY <1>2, CandidatesAreLive, SelectByOldestChooses
  <1>4. \A k \in challengers' : owner[k] # target'
    BY <1>2, <1>3 DEF MembersOf, Inverted
  <1>5. PlacingConsistent'
    <2>1. challengers' \subseteq observed' /\ displaced' = {} /\ owner' = owner
      BY <1>2 DEF maps
    <2>2. Live' = Live
      BY DEF Live, maps
    <2>3. QED
      BY <1>3, <1>4, <2>1, <2>2 DEF PlacingConsistent
  <1>6. InstantConsistent'
    BY DEF InstantConsistent, maps
  <1>7. OnePerCamera'
    BY DEF OnePerCamera, Owned, maps
  <1>8. QED
    BY <1>1, <1>5, <1>6, <1>7

(* What _issue hands out: ids from `first' on, each once.                    *)
LEMMA FreshIds ==
    ASSUME NEW keys, IsFiniteSet(keys), NEW first \in Nat, NEW grant \in Fresh(keys, first)
    PROVE  /\ Cardinality(keys) \in Nat
           /\ DOMAIN grant = keys
           /\ \A k \in keys : /\ grant[k] \in Nat /\ first <= grant[k]
                              /\ grant[k] < first + Cardinality(keys)
           /\ \A j, k \in keys : grant[j] = grant[k] => j = k
  <1>1. Cardinality(keys) \in Nat
    BY FS_CardinalityType
  <1>2. grant \in [keys -> first .. first + Cardinality(keys) - 1] /\ IsInjective(grant)
    BY DEF Fresh, Bijection, Injection
  <1>3. QED
    BY <1>1, <1>2 DEF IsInjective

(* The instant's tracks have stamps.                                         *)
LEMMA ObservedAreTracked ==
    ASSUME TypeOK, InstantConsistent, pc \in {"grouping", "placing"}
    PROVE  observed \subseteq Tracked /\ IsFiniteSet(observed) /\ observed \subseteq Keys
  <1>1. observed \subseteq Tracked /\ observed \subseteq Keys
    BY DEF InstantConsistent, Tracked, Unseen
  <1>2. QED
    BY <1>1, KeysAssumption, FS_Subset

LEMMA FoundIdentityKeepsStore ==
    ASSUME StoreInv, NEW cluster \in clusters, FoundIdentity(cluster)
    PROVE  StoreInv'
  <1> USE NoneIsNoId DEF StoreInv
  <1> DEFINE fresh == cluster \ Owned
  <1>1. /\ pc = "grouping" /\ pc' = pc /\ step' = step /\ observed' = observed
        /\ clusters' = clusters \ {cluster}
    BY DEF FoundIdentity
  <1>2. PICK roster \in SUBSET fresh :
            /\ IsRoster(roster, fresh)
            /\ \E own \in Fresh(fresh \ roster, counter + 1) :
                   Rehome({}, [k \in fresh |-> IF k \in roster THEN counter ELSE own[k]])
            /\ counter' = counter + 1 + Cardinality(fresh \ roster)
    BY DEF FoundIdentity
  <1>3. PICK own \in Fresh(fresh \ roster, counter + 1) :
            Rehome({}, [k \in fresh |-> IF k \in roster THEN counter ELSE own[k]])
    BY <1>2
  <1> DEFINE grant == [k \in fresh |-> IF k \in roster THEN counter ELSE own[k]]
  <1>4. fresh \subseteq observed /\ fresh \subseteq Tracked /\ fresh \subseteq Keys
    BY <1>1, ObservedAreTracked DEF InstantConsistent
  <1> DEFINE others == fresh \ roster
  <1>5. IsFiniteSet(others)
    BY <1>4, KeysAssumption, FS_Subset
  <1>6. counter \in Nat /\ counter + 1 \in Nat /\ own \in Fresh(others, counter + 1)
    BY DEF TypeOK
  <1>7. /\ Cardinality(others) \in Nat
        /\ \A k \in others : /\ own[k] \in Nat /\ counter + 1 <= own[k]
                             /\ own[k] < counter + 1 + Cardinality(others)
        /\ \A j, k \in others : own[j] = own[k] => j = k
    <2> HIDE DEF others
    <2> QED BY <1>5, <1>6, FreshIds
  <1>8. /\ DOMAIN grant = fresh /\ counter' \in Nat /\ counter' >= counter
        /\ \A k \in fresh : /\ grant[k] = IF k \in roster THEN counter ELSE own[k]
                            /\ grant[k] \in Nat /\ counter <= grant[k] /\ grant[k] < counter'
    <2>1. counter' = counter + 1 + Cardinality(others)
      BY <1>2
    <2>2. /\ DOMAIN grant = fresh
          /\ \A k \in fresh : grant[k] = IF k \in roster THEN counter ELSE own[k]
      OBVIOUS
    <2>3. \A k \in fresh : k \in roster \/ k \in others
      OBVIOUS
    <2> HIDE DEF grant, others
    <2>4. QED
      BY <1>6, <1>7, <2>1, <2>2, <2>3
  <1> HIDE DEF grant
  <1>9. Rehome({}, grant)
    BY <1>3 DEF grant
  <1>10. /\ TypeOK' /\ Inverted' /\ IdsIssued' /\ StampsPast' /\ OwnedAreTracked'
         /\ Moved({}, grant)
    BY <1>1, <1>4, <1>8, <1>9, RehomeKeepsStore DEF Working
  <1>11. InstantConsistent' /\ PlacingConsistent'
    BY <1>1, <1>10 DEF InstantConsistent, PlacingConsistent, Moved
  <1>12. OnePerCamera'
    <2> SUFFICES ASSUME NEW j \in Keys, NEW k \in Keys, owner'[j] # None,
                        j # k, SameCamera(j, k), owner'[j] = owner'[k]
                 PROVE  FALSE
      BY DEF OnePerCamera, Owned
    <2>1. /\ j \in fresh => owner'[j] = grant[j] /\ owner'[j] >= counter
          /\ k \in fresh => owner'[k] = grant[k] /\ owner'[k] >= counter
          /\ j \notin fresh => owner'[j] = owner[j]
          /\ k \notin fresh => owner'[k] = owner[k]
      BY <1>8, <1>10 DEF Moved
    <2>2. CASE j \notin fresh /\ k \notin fresh
      BY <2>1, <2>2, <1>1 DEF OnePerCamera, Owned
    <2>3. CASE j \in fresh /\ k \in fresh
      <3>1. grant[j] = grant[k]
        BY <2>1, <2>3
      <3>2. j \in roster /\ k \in roster
        BY <3>1, <2>3, <1>7, <1>8, <1>6
      <3>3. QED
        BY <3>2, <1>2 DEF IsRoster
    <2>4. CASE j \in fresh /\ k \notin fresh
      BY <2>1, <2>4, <1>6 DEF IdsIssued, Owned, TypeOK
    <2>5. CASE j \notin fresh /\ k \in fresh
      BY <2>1, <2>5, <1>6 DEF IdsIssued, Owned, TypeOK
    <2>6. QED
      BY <2>2, <2>3, <2>4, <2>5
  <1>13. QED
    BY <1>10, <1>11, <1>12

(* A challenger takes a place of the target.  Whoever held the place for its *)
(* camera is either forgotten, and then not of this instant, or has lost it. *)
LEMMA PlacedKeepsStore ==
    ASSUME StoreInv, NEW key \in challengers, Places(key),
           NEW gone, NEW lost, Rehome(gone, OneGrant(key, target)),
           gone \cap observed = {},
           \A m \in lost : m \in observed /\ owner[m] = target,
           Incumbents(key) \subseteq gone \cup lost,
           displaced' = displaced \cup lost, counter' = counter
    PROVE  StoreInv'
  <1> USE NoneIsNoId DEF StoreInv
  <1> DEFINE grant == OneGrant(key, target)
  <1>1. /\ pc = "placing" /\ pc' = pc /\ step' = step /\ observed' = observed
        /\ clusters' = clusters /\ target' = target /\ challengers' = challengers \ {key}
    BY DEF Places
  <1>2. key \in observed /\ key \in Tracked /\ key \in Keys /\ key \notin gone /\ owner[key] # target
    BY <1>1, ObservedAreTracked DEF PlacingConsistent
  <1>3. target \in Live /\ target \in Nat /\ target < counter /\ counter \in Nat
    BY <1>1 DEF PlacingConsistent, Inverted, Owned, TypeOK, IdsIssued
  <1>4. DOMAIN grant = {key} /\ grant[key] = target
    BY DEF OneGrant
  <1> HIDE DEF grant
  <1>5. /\ TypeOK' /\ Inverted' /\ IdsIssued' /\ StampsPast' /\ OwnedAreTracked'
        /\ Moved(gone, grant)
    <2>1. /\ DOMAIN grant \subseteq Tracked /\ gone \cap DOMAIN grant = {}
          /\ counter' \in Nat /\ counter' >= counter
          /\ \A k \in DOMAIN grant : grant[k] \in Nat /\ grant[k] < counter'
          /\ pc' \in Resting \cup Working
      BY <1>1, <1>2, <1>3, <1>4 DEF Working
    <2>2. Rehome(gone, grant)
      BY DEF grant
    <2>3. QED
      BY <1>1, <2>1, <2>2, RehomeKeepsStore
  <1>6. \A k \in Keys : owner'[k] = IF k \in gone THEN None
                                    ELSE IF k = key THEN target ELSE owner[k]
    BY <1>4, <1>5 DEF Moved
  <1>7. InstantConsistent'
    BY <1>1, <1>5 DEF InstantConsistent, Moved, Unseen
  <1>8. PlacingConsistent'
    <2>1. \A k \in challengers' : k \in observed /\ owner'[k] # target
      BY <1>1, <1>2, <1>6, ObservedAreTracked DEF PlacingConsistent
    <2>2. \A k \in displaced' : k \in observed /\ owner'[k] = target
      BY <1>1, <1>2, <1>6, ObservedAreTracked DEF PlacingConsistent
    <2>3. target \in Live'
      BY <1>2, <1>3, <1>5, <1>6 DEF Inverted, Owned
    <2>4. QED
      BY <1>1, <2>1, <2>2, <2>3 DEF PlacingConsistent
  <1>9. OnePerCamera'
    <2>1. ASSUME NEW k \in Keys, k # key, SameCamera(k, key), owner'[k] = target
          PROVE  k \in displaced'
      <3>1. owner[k] = target /\ k \notin gone
        BY <2>1, <1>6, <1>3
      <3>2. k \in MembersOf(target)
        BY <3>1, <1>3 DEF MembersOf, Inverted
      <3>3. k \in displaced \/ k \in Incumbents(key)
        BY <3>2, <2>1 DEF Incumbents
      <3>4. QED
        BY <3>1, <3>3
    <2>2. ASSUME NEW j \in Keys, NEW k \in Keys, j # k, j # key, k # key, owner'[j] # None,
                 SameCamera(j, k), owner'[j] = owner'[k]
          PROVE  owner'[j] = target /\ (j \in displaced \/ k \in displaced)
      <3>1. owner[j] = owner'[j] /\ owner[k] = owner'[k]
        BY <2>2, <1>6
      <3>2. QED
        BY <2>2, <3>1 DEF OnePerCamera, Owned
    <2>3. owner'[key] = target
      BY <1>2, <1>6
    <2>4. ASSUME NEW j \in Owned', NEW k \in Owned', j # k, SameCamera(j, k),
                 owner'[j] = owner'[k]
          PROVE  owner'[j] = target /\ (j \in displaced' \/ k \in displaced')
      <3>1. CASE j = key
        BY <3>1, <2>1, <2>3, <2>4 DEF Owned, SameCamera
      <3>2. CASE k = key
        BY <3>2, <2>1, <2>3, <2>4 DEF Owned
      <3>3. CASE j # key /\ k # key
        BY <3>3, <2>2, <2>4 DEF Owned
      <3>4. QED
        BY <3>1, <3>2, <3>3
    <2>5. QED
      BY <1>1, <2>4 DEF OnePerCamera
  <1>10. QED
    BY <1>5, <1>7, <1>8, <1>9

(* The incumbents of a challenger are the target's own, and there is one.    *)
LEMMA IncumbentIsOne ==
    ASSUME StoreInv, pc = "placing", NEW key \in Keys, NEW m \in Incumbents(key)
    PROVE  /\ m \in Keys /\ owner[m] = target
           /\ Incumbents(key) = {m}
  <1> USE NoneIsNoId DEF StoreInv
  <1>1. target \in Live /\ target # None
    BY DEF PlacingConsistent, Inverted, Owned
  <1>2. \A n \in Incumbents(key) : /\ n \in Keys /\ owner[n] = target
                                   /\ n \notin displaced /\ SameCamera(n, key)
    BY <1>1 DEF Incumbents, MembersOf, Inverted
  <1>3. ASSUME NEW n \in Incumbents(key), n # m PROVE FALSE
    <2>1. m \in Owned /\ n \in Owned /\ SameCamera(n, m) /\ owner[n] = owner[m]
      BY <1>1, <1>2 DEF Owned, SameCamera
    <2>2. QED
      BY <2>1, <1>2, <1>3 DEF OnePerCamera
  <1>4. QED
    BY <1>2, <1>3

LEMMA JoinKeepsStore ==
    ASSUME StoreInv, NEW key \in challengers, Join(key) \/ Defect(key)
    PROVE  StoreInv'
  <1>1. /\ Places(key) /\ Incumbents(key) = {} /\ Rehome({}, OneGrant(key, target))
        /\ counter' = counter /\ displaced' = displaced \cup {}
    BY DEF Join, Defect, Vacant
  <1>2. QED
    BY <1>1, PlacedKeepsStore

LEMMA ReplaceStaleKeepsStore ==
    ASSUME StoreInv, NEW key \in challengers, ReplaceStale(key)
    PROVE  StoreInv'
  <1>1. PICK m \in Incumbents(key) : IsStale(m) /\ Rehome({m}, OneGrant(key, target))
    BY DEF ReplaceStale
  <1>2. Places(key) /\ counter' = counter /\ displaced' = displaced \cup {} /\ pc = "placing"
    BY DEF ReplaceStale, Places
  <1>3. key \in Keys
    BY <1>2, ObservedAreTracked DEF StoreInv, PlacingConsistent
  <1>4. Incumbents(key) = {m} /\ m \in Keys
    BY <1>1, <1>2, <1>3, IncumbentIsOne
  <1>5. {m} \cap observed = {}
    BY <1>1, <1>2, <1>4 DEF IsStale, StoreInv, InstantConsistent, TypeOK
  <1>6. QED
    BY <1>1, <1>2, <1>4, <1>5, PlacedKeepsStore

LEMMA WinPlaceKeepsStore ==
    ASSUME StoreInv, NEW key \in challengers, WinPlace(key)
    PROVE  StoreInv'
  <1>1. PICK m \in Incumbents(key) : ~IsStale(m) /\ displaced' = displaced \cup {m}
    BY DEF WinPlace
  <1>2. /\ Places(key) /\ counter' = counter /\ Rehome({}, OneGrant(key, target))
        /\ pc = "placing"
    BY DEF WinPlace, Places
  <1>3. key \in Keys
    BY <1>2, ObservedAreTracked DEF StoreInv, PlacingConsistent
  <1>4. Incumbents(key) = {m} /\ m \in Keys /\ owner[m] = target
    BY <1>1, <1>2, <1>3, IncumbentIsOne
  <1>5. m \in observed
    BY <1>1, <1>2, <1>4 DEF IsStale, StoreInv, InstantConsistent, StampsPast, TypeOK
  <1>6. QED
    BY <1>1, <1>2, <1>4, <1>5, PlacedKeepsStore

LEMMA StayKeepsStore ==
    ASSUME StoreInv, NEW key \in challengers, Stay(key)
    PROVE  StoreInv'
  <1> USE DEF StoreInv
  <1>1. /\ pc = "placing" /\ pc' = pc /\ UNCHANGED <<counter, step, maps>>
        /\ UNCHANGED <<observed, clusters, target, displaced>>
        /\ challengers' = challengers \ {key}
    BY DEF Stay, Places
  <1>2. TypeOK' /\ Inverted' /\ IdsIssued' /\ StampsPast' /\ OwnedAreTracked'
    BY <1>1, QuietStepKeepsStore DEF Working
  <1>3. InstantConsistent' /\ PlacingConsistent'
    BY <1>1 DEF InstantConsistent, PlacingConsistent, Live, maps
  <1>4. OnePerCamera'
    BY <1>1 DEF OnePerCamera, Owned, maps
  <1>5. QED
    BY <1>2, <1>3, <1>4

(* Tracks of the instant move to ids of their own.                           *)
LEMMA ApartKeepsStore ==
    ASSUME StoreInv, NEW S \in SUBSET Tracked, NEW grant \in Fresh(S, counter),
           Rehome({}, grant), counter' = counter + Cardinality(S), step' = step,
           pc' \in Resting \cup Working
    PROVE  /\ TypeOK' /\ Inverted' /\ IdsIssued' /\ StampsPast' /\ OwnedAreTracked'
           /\ Moved({}, grant) /\ DOMAIN grant = S
           /\ \A k \in S : /\ owner'[k] = grant[k] /\ grant[k] \in Nat
                          /\ grant[k] >= counter /\ grant[k] < counter'
           /\ \A k \in Keys \ S : owner'[k] = owner[k]
           /\ \A j, k \in Keys : j # k /\ owner'[j] = owner'[k] /\ owner'[j] # None =>
                  j \notin S /\ k \notin S
           /\ counter' \in Nat /\ counter' >= counter
  <1> USE NoneIsNoId DEF StoreInv
  <1>1. S \subseteq Keys /\ IsFiniteSet(S) /\ counter \in Nat
    BY KeysAssumption, FS_Subset DEF Tracked, TypeOK
  <1>2. /\ Cardinality(S) \in Nat /\ DOMAIN grant = S
        /\ \A k \in S : grant[k] \in Nat /\ counter <= grant[k]
                        /\ grant[k] < counter + Cardinality(S)
        /\ \A j, k \in S : grant[j] = grant[k] => j = k
    BY <1>1, FreshIds
  <1>3. /\ counter' \in Nat /\ counter' >= counter
        /\ \A k \in S : grant[k] \in Nat /\ grant[k] >= counter /\ grant[k] < counter'
    BY <1>1, <1>2
  <1>4. /\ TypeOK' /\ Inverted' /\ IdsIssued' /\ StampsPast' /\ OwnedAreTracked'
        /\ Moved({}, grant)
    BY <1>2, <1>3, RehomeKeepsStore
  <1>5. \A k \in Keys : owner'[k] = IF k \in S THEN grant[k] ELSE owner[k]
    BY <1>2, <1>4 DEF Moved
  <1>6. \A k \in Keys \ S : owner'[k] = owner[k] /\ (owner[k] # None => owner[k] < counter)
    BY <1>5 DEF IdsIssued, Owned
  <1>7. ASSUME NEW j \in Keys, NEW k \in Keys, j # k, owner'[j] = owner'[k], owner'[j] # None
        PROVE  j \notin S /\ k \notin S
    <2>1. j \in S => k \in S
      BY <1>1, <1>3, <1>5, <1>6, <1>7 DEF TypeOK
    <2>2. k \in S => j \in S
      BY <1>1, <1>3, <1>5, <1>6, <1>7 DEF TypeOK
    <2>3. ~(j \in S /\ k \in S)
      BY <1>2, <1>5, <1>7
    <2>4. QED
      BY <2>1, <2>2, <2>3
  <1>8. QED
    BY <1>1, <1>2, <1>3, <1>4, <1>5, <1>7

LEMMA LosePlaceKeepsStore ==
    ASSUME StoreInv, NEW key \in challengers, LosePlace(key)
    PROVE  StoreInv'
  <1> USE NoneIsNoId DEF StoreInv
  <1> DEFINE grant == OneGrant(key, counter)
             S == {key}
  <1>1. /\ pc = "placing" /\ pc' = pc /\ step' = step
        /\ UNCHANGED <<observed, clusters, target, displaced>>
        /\ challengers' = challengers \ {key} /\ owner[key] = None
        /\ counter' = counter + 1 /\ Rehome({}, grant)
    BY DEF LosePlace, Places
  <1>2. key \in Tracked /\ key \in Keys /\ counter \in Nat /\ Cardinality(S) = 1
    BY <1>1, ObservedAreTracked, FS_Singleton DEF PlacingConsistent, TypeOK
  <1>3. grant \in Fresh(S, counter)
    <2>1. counter .. counter + Cardinality(S) - 1 = {counter}
      BY <1>2
    <2>2. grant \in Bijection(S, {counter})
      BY DEF Bijection, Injection, Surjection, IsInjective, OneGrant
    <2>3. QED
      BY <2>1, <2>2 DEF Fresh
  <1> HIDE DEF grant, S
  <1>4. S \in SUBSET Tracked /\ counter' = counter + Cardinality(S) /\ pc' \in Resting \cup Working
    BY <1>1, <1>2 DEF S, Working
  <1>5. /\ TypeOK' /\ Inverted' /\ IdsIssued' /\ StampsPast' /\ OwnedAreTracked'
        /\ Moved({}, grant)
        /\ \A k \in S : owner'[k] = grant[k] /\ grant[k] >= counter /\ grant[k] < counter'
        /\ \A k \in Keys \ S : owner'[k] = owner[k]
        /\ \A j, k \in Keys : j # k /\ owner'[j] = owner'[k] /\ owner'[j] # None =>
               j \notin S /\ k \notin S
    BY <1>1, <1>3, <1>4, ApartKeepsStore
  <1>6. InstantConsistent'
    BY <1>1, <1>5 DEF InstantConsistent, Moved
  <1>7. target # None /\ key \notin displaced
    BY <1>1 DEF PlacingConsistent, Inverted, Owned
  <1>8. PlacingConsistent'
    <2>1. \A k \in challengers' : k \in observed /\ owner'[k] # target
      BY <1>1, <1>2, <1>5, ObservedAreTracked DEF PlacingConsistent, S
    <2>2. \A k \in displaced' : k \in observed /\ owner'[k] = target
      BY <1>1, <1>5, <1>7, ObservedAreTracked DEF PlacingConsistent, S
    <2>3. PICK k \in Keys : owner[k] = target
      BY <1>1 DEF PlacingConsistent, Inverted, Owned
    <2>4. owner'[k] = target /\ target \in Live'
      BY <2>3, <1>1, <1>5, <1>7 DEF S, Inverted, Owned
    <2>5. QED
      BY <1>1, <2>1, <2>2, <2>4 DEF PlacingConsistent
  <1>9. OnePerCamera'
    BY <1>1, <1>5 DEF OnePerCamera, Owned
  <1>10. QED
    BY <1>5, <1>6, <1>8, <1>9

LEMMA MoveLosersKeepsStore ==
    ASSUME StoreInv, MoveLosers
    PROVE  StoreInv'
  <1> USE NoneIsNoId DEF StoreInv
  <1>1. /\ pc = "placing" /\ pc' = "grouping" /\ step' = step
        /\ UNCHANGED <<observed, clusters>> /\ counter' = counter + Cardinality(Losers)
    BY DEF MoveLosers
  <1>2. PICK grant \in Fresh(Losers, counter) : Rehome({}, grant)
    BY DEF MoveLosers
  <1>3. Losers = displaced /\ Losers \in SUBSET Tracked /\ pc' \in Resting \cup Working
    BY <1>1, ObservedAreTracked DEF Losers, PlacingConsistent, Working
  <1>4. /\ TypeOK' /\ Inverted' /\ IdsIssued' /\ StampsPast' /\ OwnedAreTracked'
        /\ Moved({}, grant)
        /\ \A k \in Keys \ Losers : owner'[k] = owner[k]
        /\ \A j, k \in Keys : j # k /\ owner'[j] = owner'[k] /\ owner'[j] # None =>
               j \notin Losers /\ k \notin Losers
    BY <1>1, <1>2, <1>3, ApartKeepsStore
  <1>5. InstantConsistent' /\ PlacingConsistent'
    BY <1>1, <1>4 DEF InstantConsistent, PlacingConsistent, Moved
  <1>6. OnePerCamera'
    BY <1>1, <1>3, <1>4 DEF OnePerCamera, Owned
  <1>7. QED
    BY <1>4, <1>5, <1>6

LEMMA PublishKeepsStore ==
    ASSUME StoreInv, Publish
    PROVE  StoreInv'
  <1> USE NoneIsNoId DEF StoreInv
  <1> DEFINE S == observed \ Owned
  <1>1. /\ pc = "grouping" /\ pc' = "ageing" /\ step' = step
        /\ counter' = counter + Cardinality(S)
    BY DEF Publish
  <1>2. PICK grant \in Fresh(S, counter) : Rehome({}, grant)
    BY DEF Publish
  <1>3. S \in SUBSET Tracked /\ pc' \in Resting \cup Working
    BY <1>1, ObservedAreTracked DEF Working
  <1> HIDE DEF S
  <1>4. /\ TypeOK' /\ Inverted' /\ IdsIssued' /\ StampsPast' /\ OwnedAreTracked'
        /\ \A k \in Keys \ S : owner'[k] = owner[k]
        /\ \A j, k \in Keys : j # k /\ owner'[j] = owner'[k] /\ owner'[j] # None =>
               j \notin S /\ k \notin S
    BY <1>1, <1>2, <1>3, ApartKeepsStore
  <1>5. InstantConsistent' /\ PlacingConsistent'
    BY <1>1 DEF InstantConsistent, PlacingConsistent
  <1>6. OnePerCamera'
    BY <1>1, <1>4 DEF OnePerCamera, Owned
  <1>7. QED
    BY <1>4, <1>5, <1>6

(* Whatever is evicted: an eviction only takes tracks out.                   *)
LEMMA EvictionKeepsStore ==
    ASSUME StoreInv, NEW gone, Rehome(gone, <<>>), pc \in {"ageing", "trimming", "capping"},
           counter' = counter, step' = step, pc' \in {"trimming", "capping", "returned"}
    PROVE  StoreInv' /\ Moved(gone, <<>>)
  <1> USE NoneIsNoId DEF StoreInv
  <1>1. counter \in Nat /\ pc' \in Resting \cup Working
    BY DEF TypeOK, Resting, Working
  <1>2. DOMAIN <<>> = {}
    OBVIOUS
  <1>3. /\ TypeOK' /\ Inverted' /\ IdsIssued' /\ StampsPast' /\ OwnedAreTracked'
        /\ Moved(gone, <<>>)
    BY <1>1, <1>2, RehomeKeepsStore
  <1>4. InstantConsistent' /\ PlacingConsistent'
    BY DEF InstantConsistent, PlacingConsistent
  <1>5. OnePerCamera'
    BY <1>2, <1>3 DEF OnePerCamera, Owned, Moved
  <1>6. QED
    BY <1>3, <1>4, <1>5

LEMMA EvictKeepsStore ==
    ASSUME StoreInv, AgeOut \/ TrimTracks \/ TrimIdentities
    PROVE  StoreInv'
  <1>1. CASE AgeOut
    BY <1>1, EvictionKeepsStore DEF AgeOut
  <1>2. CASE TrimTracks
    BY <1>2, EvictionKeepsStore DEF TrimTracks
  <1>3. CASE TrimIdentities
    BY <1>3, EvictionKeepsStore DEF TrimIdentities
  <1>4. QED
    BY <1>1, <1>2, <1>3

LEMMA InitStore == Init => StoreInv
  <1> SUFFICES ASSUME Init PROVE StoreInv
    OBVIOUS
  <1> USE NoneIsNoId DEF Init
  <1>1. TypeOK
    BY DEF TypeOK, Resting, Unseen
  <1>2. Owned = {} /\ Live = {}
    BY DEF Owned, Live
  <1>3. Inverted /\ IdsIssued /\ OwnedAreTracked /\ OnePerCamera
    BY <1>2 DEF Inverted, IdsIssued, OwnedAreTracked, OnePerCamera
  <1>4. StampsPast /\ InstantConsistent /\ PlacingConsistent
    BY DEF StampsPast, InstantConsistent, PlacingConsistent, Unseen
  <1>5. QED
    BY <1>1, <1>3, <1>4 DEF StoreInv

LEMMA StepKeepsStore == StoreInv /\ [Next]_vars => StoreInv'
  <1> SUFFICES ASSUME StoreInv, [Next]_vars PROVE StoreInv'
    OBVIOUS
  <1>1. ASSUME NEW seen \in SUBSET Keys, NEW groups \in Clusterings[seen], Assign(seen, groups)
        PROVE  StoreInv'
    BY <1>1, AssignKeepsStore
  <1>2. ASSUME NEW recorded \in SUBSET Keys, AssignFails(recorded)
        PROVE  StoreInv'
    BY <1>2, AssignFailsKeepsStore
  <1>3. ASSUME NEW cluster \in clusters,
               LeaveCluster(cluster) \/ FoundIdentity(cluster) \/ ClaimIdentity(cluster)
        PROVE  StoreInv'
    BY <1>3, LeaveClusterKeepsStore, FoundIdentityKeepsStore, ClaimIdentityKeepsStore
  <1>4. ASSUME NEW key \in challengers,
               \/ Join(key) \/ Defect(key) \/ Stay(key)
               \/ ReplaceStale(key) \/ WinPlace(key) \/ LosePlace(key)
        PROVE  StoreInv'
    BY <1>4, JoinKeepsStore, StayKeepsStore, ReplaceStaleKeepsStore, WinPlaceKeepsStore,
       LosePlaceKeepsStore
  <1>5. CASE MoveLosers \/ Publish
    BY <1>5, MoveLosersKeepsStore, PublishKeepsStore
  <1>6. CASE AgeOut \/ TrimTracks \/ TrimIdentities
    BY <1>6, EvictKeepsStore
  <1>7. CASE Reset
    BY <1>7, ResetKeepsStore
  <1>8. CASE UNCHANGED vars
    <2> USE <1>8 DEF StoreInv, vars, maps, claim, call, history
    <2>1. TypeOK' /\ Inverted' /\ IdsIssued' /\ StampsPast' /\ OwnedAreTracked'
      BY QuietStepKeepsStore DEF TypeOK
    <2>2. InstantConsistent' /\ PlacingConsistent' /\ OnePerCamera'
      BY DEF InstantConsistent, PlacingConsistent, OnePerCamera, Live, Owned
    <2>3. QED
      BY <2>1, <2>2
  <1>9. CASE Resolve
    BY <1>9, <1>3, <1>4, <1>5, <1>6 DEF Resolve
  <1>10. QED
    BY <1>1, <1>2, <1>6, <1>7, <1>8, <1>9 DEF Next

LEMMA StoreAgrees == StoreInv => MapsAgree
  <1> SUFFICES ASSUME StoreInv PROVE MapsAgree
    OBVIOUS
  <1> USE NoneIsNoId DEF StoreInv
  <1>1. \A k \in Keys, g \in Live : k \in members[g] <=> owner[k] = g
    BY DEF Inverted
  <1>2. \A k \in Owned : owner[k] \in Live
    BY DEF Inverted
  <1>3. \A g \in Live : members[g] # {}
    BY DEF Inverted, Owned
  <1>4. ASSUME NEW g \in Live, NEW j \in members[g], NEW k \in members[g],
               j # k, SameCamera(j, k)
        PROVE  pc = "placing" /\ g = target /\ (j \in displaced \/ k \in displaced)
    BY <1>4 DEF OnePerCamera, Inverted, Owned
  <1>5. QED
    BY <1>1, <1>2, <1>3, <1>4 DEF MapsAgree, OwnedAreTracked

(* `_owner' and `_members' are one fact stored twice and always agree, no    *)
(* identity is empty, a track with an identity can be evicted, and an        *)
(* identity has one track per camera but for the losers of the contests      *)
(* being held: for any tracks, cameras, clusters and limits, between the     *)
(* steps of a call too (GlobalIdAssigner.validate).                          *)
THEOREM MapsAlwaysAgree == Spec => []MapsAgree
  <1>1. StoreInv /\ [Next]_vars => StoreInv'
    BY StepKeepsStore
  <1>2. QED
    BY InitStore, <1>1, StoreAgrees, PTL DEF Spec

--------------------------------------------------------------------------------
(* How far a call is ahead of the register                                   *)

LEMMA LongerInterval ==
    ASSUME NEW i \in Nat, NEW m \in Nat, NEW n \in Nat, i <= m, m <= n
    PROVE  /\ i .. m - 1 \subseteq i .. n - 1
           /\ \A g \in Nat : m <= g /\ g < n => g \in i .. n - 1
  OBVIOUS

(* Ids that may be given stay so while the counter runs.                     *)
LEMMA GivableGrows ==
    ASSUME issued \in Nat, counter \in Nat, counter' \in Nat, counter' >= counter,
           known' = known, issued' = issued, issued <= counter
    PROVE  /\ Givable \subseteq Givable'
           /\ \A g \in Nat : counter <= g /\ g < counter' => g \in Givable'
  <1>1. KnownIds' = KnownIds
    BY DEF KnownIds
  <1>2. /\ issued .. counter - 1 \subseteq issued .. counter' - 1
        /\ \A g \in Nat : counter <= g /\ g < counter' => g \in issued .. counter' - 1
    BY LongerInterval
  <1>3. QED
    BY <1>1, <1>2 DEF Givable

(* A step of a call that only touches the tracks of the instant.             *)
LEMMA InsideCall ==
    ASSUME AheadOfRegister, pc \in {"grouping", "placing"}, pc' \in {"grouping", "placing"},
           known' = known, issued' = issued, observed' = observed,
           counter \in Nat, counter' \in Nat, counter' >= counter,
           \A k \in Keys \ observed : owner'[k] \in {owner[k], None},
           \A k \in Keys : \/ owner'[k] = None \/ owner'[k] \in Givable
                           \/ owner'[k] \in Nat /\ counter <= owner'[k] /\ owner'[k] < counter'
    PROVE  AheadOfRegister'
  <1>1. Givable \subseteq Givable' /\ \A g \in Nat : counter <= g /\ g < counter' => g \in Givable'
    BY GivableGrows DEF AheadOfRegister
  <1>2. pc \in Working /\ pc' \in Working /\ pc' \notin Resting
        /\ pc' \notin {"ageing", "trimming", "capping"}
    BY DEF Working, Resting
  <1>3. \A k \in Keys \ observed : owner'[k] \in {known[k], None}
    BY <1>2 DEF AheadOfRegister
  <1>4. \A k \in Owned' : owner'[k] \in Givable'
    BY <1>1 DEF Owned
  <1>5. issued \in Nat /\ issued <= counter' /\ known \in [Keys -> Nat \cup {None}]
        /\ observed \subseteq Keys
    BY <1>2 DEF AheadOfRegister
  <1>6. QED
    BY <1>2, <1>3, <1>4, <1>5 DEF AheadOfRegister

LEMMA StartsAtRegister ==
    ASSUME StoreInv, AheadOfRegister, pc \in Resting, known' = known, issued' = issued,
           counter' = counter, owner' = owner,
           \/ pc' = "idle"
           \/ pc' = "grouping" /\ observed' \subseteq Keys
    PROVE  AheadOfRegister'
  <1>1. known = owner /\ issued \in Nat /\ issued <= counter /\ known \in [Keys -> Nat \cup {None}]
    BY DEF AheadOfRegister
  <1>2. pc' \notin {"ageing", "trimming", "capping"}
    OBVIOUS
  <1>3. \A k \in Owned' : owner'[k] \in Givable'
    BY <1>1 DEF Owned, Givable, KnownIds
  <1>4. pc' \in Resting => pc' = "idle"
    BY DEF Resting
  <1>5. pc' \in Working => observed' \subseteq Keys
    BY DEF Working
  <1>6. QED
    BY <1>1, <1>2, <1>3, <1>4, <1>5 DEF AheadOfRegister

(* While a cluster is placed, every place given is the target's.             *)
LEMMA TargetIsGivable ==
    ASSUME StoreInv, AheadOfRegister, pc = "placing"
    PROVE  target \in Givable
  BY DEF StoreInv, PlacingConsistent, Inverted, AheadOfRegister, Working

LEMMA OwnedAreGivable ==
    ASSUME AheadOfRegister, pc \in Working
    PROVE  \A k \in Keys : owner[k] = None \/ owner[k] \in Givable
  BY DEF AheadOfRegister, Owned

LEMMA PlacingAhead ==
    ASSUME StoreInv, AheadOfRegister, NEW key \in challengers,
           \/ Join(key) \/ Defect(key) \/ Stay(key)
           \/ ReplaceStale(key) \/ WinPlace(key) \/ LosePlace(key)
    PROVE  AheadOfRegister'
  <1>1. /\ pc = "placing" /\ pc' = "placing" /\ known' = known /\ issued' = issued
        /\ observed' = observed
    BY DEF Join, Defect, Stay, ReplaceStale, WinPlace, LosePlace, Places, history
  <1>2. key \in observed /\ counter \in Nat /\ target \in Givable
    BY <1>1, TargetIsGivable DEF StoreInv, PlacingConsistent, TypeOK
  <1>3. \A k \in Keys : owner[k] = None \/ owner[k] \in Givable
    BY <1>1, OwnedAreGivable DEF Working
  <1>4. CASE \/ Join(key) \/ Defect(key) \/ ReplaceStale(key) \/ WinPlace(key)
    <2>1. PICK gone : Rehome(gone, OneGrant(key, target))
      BY <1>4 DEF Join, Defect, ReplaceStale, WinPlace
    <2>2. \A k \in Keys : owner'[k] = IF k \in gone THEN None
                                      ELSE IF k = key THEN target ELSE owner[k]
      BY <2>1 DEF Rehome, OneGrant
    <2>3. counter' = counter
      BY <1>4 DEF Join, Defect, ReplaceStale, WinPlace
    <2>4. QED
      BY <1>1, <1>2, <1>3, <2>2, <2>3, InsideCall
  <1>5. CASE Stay(key)
    BY <1>1, <1>2, <1>3, <1>5, InsideCall DEF Stay, maps
  <1>6. CASE LosePlace(key)
    <2>1. counter' = counter + 1 /\ Rehome({}, OneGrant(key, counter))
      BY <1>6 DEF LosePlace
    <2>2. \A k \in Keys : owner'[k] = IF k = key THEN counter ELSE owner[k]
      BY <2>1 DEF Rehome, OneGrant
    <2>3. QED
      BY <1>1, <1>2, <1>3, <2>1, <2>2, InsideCall
  <1>7. QED
    BY <1>4, <1>5, <1>6

LEMMA GroupingAhead ==
    ASSUME StoreInv, StoreInv', AheadOfRegister, NEW cluster \in clusters,
           LeaveCluster(cluster) \/ FoundIdentity(cluster) \/ ClaimIdentity(cluster)
    PROVE  AheadOfRegister'
  <1>1. /\ pc = "grouping" /\ pc' \in {"grouping", "placing"} /\ known' = known
        /\ issued' = issued /\ observed' = observed
    BY DEF LeaveCluster, FoundIdentity, ClaimIdentity, history
  <1>2. cluster \subseteq observed /\ counter \in Nat /\ counter' \in Nat
    BY <1>1 DEF StoreInv, InstantConsistent, TypeOK
  <1>3. \A k \in Keys : owner[k] = None \/ owner[k] \in Givable
    BY <1>1, OwnedAreGivable DEF Working
  <1>4. CASE LeaveCluster(cluster) \/ ClaimIdentity(cluster)
    BY <1>1, <1>2, <1>3, <1>4, InsideCall DEF LeaveCluster, ClaimIdentity, maps
  <1>5. CASE FoundIdentity(cluster)
    <2> DEFINE fresh == cluster \ Owned
    <2>1. PICK roster \in SUBSET fresh :
              /\ \E own \in Fresh(fresh \ roster, counter + 1) :
                     Rehome({}, [k \in fresh |-> IF k \in roster THEN counter ELSE own[k]])
              /\ counter' = counter + 1 + Cardinality(fresh \ roster)
      BY <1>5 DEF FoundIdentity
    <2>2. PICK own \in Fresh(fresh \ roster, counter + 1) :
              Rehome({}, [k \in fresh |-> IF k \in roster THEN counter ELSE own[k]])
      BY <2>1
    <2> DEFINE others == fresh \ roster
    <2>3. IsFiniteSet(others)
      BY <1>1, <1>2, ObservedAreTracked, FS_Subset DEF StoreInv
    <2>4. /\ Cardinality(others) \in Nat
          /\ \A k \in others : /\ own[k] \in Nat /\ counter + 1 <= own[k]
                               /\ own[k] < counter + 1 + Cardinality(others)
      <3>1. own \in Fresh(others, counter + 1) /\ counter + 1 \in Nat
        BY <1>2
      <3> HIDE DEF others
      <3>2. QED
        BY <2>3, <3>1, FreshIds
    <2>5. \A k \in Keys : owner'[k] = IF k \in fresh
                                      THEN IF k \in roster THEN counter ELSE own[k]
                                      ELSE owner[k]
      BY <2>2 DEF Rehome
    <2>6. counter' = counter + 1 + Cardinality(others)
      BY <2>1
    <2>7. fresh \subseteq observed /\ \A k \in fresh : k \in roster \/ k \in others
      BY <1>2
    <2> HIDE DEF fresh, others
    <2>8. counter' >= counter
      BY <1>2, <2>4, <2>6
    <2>9. \A k \in fresh : \/ owner'[k] = counter /\ counter < counter'
                           \/ owner'[k] \in Nat /\ counter <= owner'[k] /\ owner'[k] < counter'
      <3>1. \A k \in fresh : k \in Keys
        BY <2>7, <1>1, ObservedAreTracked DEF StoreInv
      <3>2. QED
        BY <3>1, <1>2, <2>4, <2>5, <2>6, <2>7
    <2>10. \A k \in Keys : \/ owner'[k] = None \/ owner'[k] \in Givable
                           \/ owner'[k] \in Nat /\ counter <= owner'[k] /\ owner'[k] < counter'
      BY <1>2, <1>3, <2>5, <2>9
    <2>11. \A k \in Keys \ observed : owner'[k] = owner[k]
      BY <2>5, <2>7
    <2>12. QED
      BY <1>1, <1>2, <2>8, <2>10, <2>11, InsideCall
  <1>6. QED
    BY <1>4, <1>5

LEMMA MoveLosersAhead ==
    ASSUME StoreInv, AheadOfRegister, MoveLosers
    PROVE  AheadOfRegister'
  <1>1. /\ pc = "placing" /\ pc' = "grouping" /\ step' = step /\ observed' = observed
        /\ known' = known /\ issued' = issued /\ counter' = counter + Cardinality(Losers)
    BY DEF MoveLosers, history
  <1>2. PICK grant \in Fresh(Losers, counter) : Rehome({}, grant)
    BY DEF MoveLosers
  <1>3. /\ Losers \subseteq observed /\ Losers \in SUBSET Tracked
        /\ pc' \in Resting \cup Working /\ counter \in Nat
    BY <1>1, ObservedAreTracked DEF Losers, StoreInv, PlacingConsistent, Working, TypeOK
  <1>4. /\ counter' \in Nat /\ counter' >= counter /\ TypeOK'
        /\ \A k \in Losers : owner'[k] = grant[k] /\ grant[k] >= counter /\ grant[k] < counter'
        /\ \A k \in Keys \ Losers : owner'[k] = owner[k]
    BY <1>1, <1>2, <1>3, ApartKeepsStore
  <1>5. \A k \in Keys : owner[k] = None \/ owner[k] \in Givable
    BY <1>1, OwnedAreGivable DEF Working
  <1>6. \A k \in Keys : \/ owner'[k] = None \/ owner'[k] \in Givable
                        \/ owner'[k] \in Nat /\ counter <= owner'[k] /\ owner'[k] < counter'
    BY <1>4, <1>5 DEF TypeOK
  <1>7. QED
    BY <1>1, <1>3, <1>4, <1>6, InsideCall

LEMMA PublishAhead ==
    ASSUME StoreInv, StoreInv', AheadOfRegister, Publish
    PROVE  AheadOfRegister'
  <1> DEFINE S == observed \ Owned
  <1>1. /\ pc = "grouping" /\ pc' = "ageing" /\ step' = step /\ observed' = observed
        /\ known' = known /\ issued' = issued /\ counter' = counter + Cardinality(S)
    BY DEF Publish, history
  <1>2. PICK grant \in Fresh(S, counter) :
            /\ Rehome({}, grant)
            /\ published' = [k \in observed |-> IF k \in Owned THEN owner[k] ELSE grant[k]]
    BY DEF Publish
  <1>3. /\ S \in SUBSET Tracked /\ pc' \in Resting \cup Working /\ counter \in Nat
        /\ observed \subseteq Keys
    BY <1>1, ObservedAreTracked DEF StoreInv, Working, TypeOK
  <1> HIDE DEF S
  <1>4. /\ counter' \in Nat /\ counter' >= counter /\ DOMAIN grant = S
        /\ \A k \in S : /\ owner'[k] = grant[k] /\ grant[k] \in Nat
                        /\ grant[k] >= counter /\ grant[k] < counter'
        /\ \A k \in Keys \ S : owner'[k] = owner[k]
    BY <1>1, <1>2, <1>3, ApartKeepsStore
  <1>5. \A k \in Keys : owner[k] = None \/ owner[k] \in Givable
    BY <1>1, OwnedAreGivable DEF Working
  <1>6. /\ Givable \subseteq Givable'
        /\ \A g \in Nat : counter <= g /\ g < counter' => g \in Givable'
        /\ issued \in Nat /\ issued <= counter
    BY <1>1, <1>3, <1>4, GivableGrows DEF AheadOfRegister
  <1>7. \A k \in Keys : owner'[k] = None \/ owner'[k] \in Givable'
    BY <1>4, <1>5, <1>6 DEF StoreInv, TypeOK
  <1>8. \A k \in observed : published'[k] = owner'[k] /\ owner'[k] # None
    <2>1. \A k \in observed : k \in S <=> k \notin Owned
      BY DEF S
    <2>2. \A k \in S : owner'[k] # None
      BY <1>4, NoneIsNoId
    <2>3. QED
      BY <1>2, <1>3, <1>4, <2>1, <2>2 DEF Owned
  <1>9. \A j, k \in observed : j # k /\ SameCamera(j, k) => published'[j] # published'[k]
    BY <1>1, <1>3, <1>8 DEF StoreInv, OnePerCamera, Owned
  <1>10. \A k \in Keys \ observed : owner'[k] \in {known[k], None}
    BY <1>1, <1>4 DEF AheadOfRegister, Working, S
  <1>11. pc' \notin Resting
    BY <1>1 DEF Resting
  <1>12. DOMAIN published' = observed
    BY <1>2
  <1>13. /\ issued' \in Nat /\ issued' <= counter' /\ known' \in [Keys -> Nat \cup {None}]
         /\ observed' \subseteq Keys
    BY <1>1, <1>3, <1>4, <1>6 DEF AheadOfRegister
  <1>14. \A k \in Owned' : owner'[k] \in Givable'
    BY <1>7 DEF Owned
  <1>15. \A k \in observed : published'[k] \in Givable' /\ owner'[k] \in {published'[k], None}
    BY <1>3, <1>7, <1>8
  <1>16. QED
    BY <1>1, <1>9, <1>10, <1>11, <1>12, <1>13, <1>14, <1>15 DEF AheadOfRegister

LEMMA EvictionAhead ==
    ASSUME StoreInv, AheadOfRegister, AgeOut \/ TrimTracks \/ TrimIdentities
    PROVE  /\ AheadOfRegister'
           /\ \A k \in Keys : owner'[k] \in {owner[k], None}
  <1>1. PICK gone : Rehome(gone, <<>>)
    BY DEF AgeOut, TrimTracks, TrimIdentities
  <1>2. \A k \in Keys : owner'[k] \in {owner[k], None}
    BY <1>1 DEF Rehome
  <1>3. /\ pc \in {"ageing", "trimming", "capping"} /\ counter' = counter
        /\ observed' = observed /\ published' = published /\ owner' \in [Keys -> Nat \cup {None}]
    <2>1. owner' \in [Keys -> Nat \cup {None}]
      BY <1>1 DEF Rehome, StoreInv, TypeOK
    <2>2. QED
      BY <2>1 DEF AgeOut, TrimTracks, TrimIdentities, call
  <1>4. pc \in Working /\ counter \in Nat
    BY <1>3 DEF Working, StoreInv, TypeOK
  <1>5. CASE AgeOut \/ TrimTracks
    <2>1. /\ pc' \in {"ageing", "trimming", "capping"} /\ known' = known /\ issued' = issued
          /\ pc' \notin Resting
      BY <1>5 DEF AgeOut, TrimTracks, history, Resting
    <2>2. Givable' = Givable
      BY <1>3, <2>1 DEF Givable, KnownIds
    <2>3. /\ \A k \in Keys \ observed : owner'[k] \in {known[k], None}
          /\ \A k \in Owned' : owner'[k] \in Givable
      BY <1>2, <1>4 DEF AheadOfRegister, Owned
    <2>4. \A k \in observed : owner'[k] \in {published[k], None}
      BY <1>2, <1>3, <1>4 DEF AheadOfRegister
    <2>5. /\ issued \in Nat /\ issued <= counter /\ known \in [Keys -> Nat \cup {None}]
          /\ observed \subseteq Keys /\ DOMAIN published = observed
          /\ \A k \in observed : published[k] \in Givable
          /\ \A j, k \in observed : j # k /\ SameCamera(j, k) => published[j] # published[k]
      BY <1>3, <1>4 DEF AheadOfRegister
    <2>6. pc' \notin Resting
      BY <2>1
    <2>7. issued' \in Nat /\ issued' <= counter' /\ known' \in [Keys -> Nat \cup {None}]
      BY <1>3, <2>1, <2>5
    <2>8. /\ observed' \subseteq Keys
          /\ \A k \in Keys \ observed' : owner'[k] \in {known'[k], None}
          /\ \A k \in Owned' : owner'[k] \in Givable'
      BY <1>3, <2>1, <2>2, <2>3, <2>5
    <2>9. /\ DOMAIN published' = observed'
          /\ \A k \in observed' : /\ published'[k] \in Givable'
                                   /\ owner'[k] \in {published'[k], None}
          /\ \A j, k \in observed' : j # k /\ SameCamera(j, k) => published'[j] # published'[k]
      BY <1>3, <2>1, <2>2, <2>4, <2>5
    <2>10. QED
      BY <1>2, <2>6, <2>7, <2>8, <2>9 DEF AheadOfRegister
  <1>6. CASE TrimIdentities
    <2>1. known' = owner' /\ issued' = counter /\ pc' = "returned"
      BY <1>6 DEF TrimIdentities
    <2>2. pc' \notin Working /\ pc' \notin {"ageing", "trimming", "capping"}
      BY <2>1 DEF Working
    <2>3. issued' \in Nat /\ issued' <= counter' /\ known' \in [Keys -> Nat \cup {None}]
      BY <1>3, <1>4, <2>1
    <2>4. QED
      BY <1>2, <2>1, <2>2, <2>3 DEF AheadOfRegister
  <1>7. QED
    BY <1>2, <1>5, <1>6

LEMMA StepKeepsAhead ==
    ASSUME StoreInv, StoreInv', AheadOfRegister, [Next]_vars
    PROVE  AheadOfRegister'
  <1>1. ASSUME NEW seen \in SUBSET Keys, NEW groups \in Clusterings[seen], Assign(seen, groups)
        PROVE  AheadOfRegister'
    BY <1>1, StartsAtRegister DEF Assign
  <1>2. ASSUME NEW recorded \in SUBSET Keys, AssignFails(recorded)
        PROVE  AheadOfRegister'
    BY <1>2, StartsAtRegister DEF AssignFails
  <1>3. ASSUME NEW cluster \in clusters,
               LeaveCluster(cluster) \/ FoundIdentity(cluster) \/ ClaimIdentity(cluster)
        PROVE  AheadOfRegister'
    BY <1>3, GroupingAhead
  <1>4. ASSUME NEW key \in challengers,
               \/ Join(key) \/ Defect(key) \/ Stay(key)
               \/ ReplaceStale(key) \/ WinPlace(key) \/ LosePlace(key)
        PROVE  AheadOfRegister'
    BY <1>4, PlacingAhead
  <1>5. CASE MoveLosers \/ Publish
    BY <1>5, MoveLosersAhead, PublishAhead
  <1>6. CASE AgeOut \/ TrimTracks \/ TrimIdentities
    BY <1>6, EvictionAhead
  <1>7. CASE Reset
    <2>1. /\ pc' = "idle" /\ known' = owner' /\ issued' = issued /\ counter' = counter
      BY <1>7 DEF Reset
    <2>2. pc' \notin Working /\ pc' \notin {"ageing", "trimming", "capping"}
      BY <2>1 DEF Working
    <2>3. QED
      BY <2>1, <2>2 DEF AheadOfRegister, StoreInv, TypeOK
  <1>8. CASE UNCHANGED vars
    BY <1>8 DEF vars, maps, claim, call, history, AheadOfRegister, Owned, Givable, KnownIds
  <1>9. CASE Resolve
    BY <1>9, <1>3, <1>4, <1>5, <1>6 DEF Resolve
  <1>10. QED
    BY <1>1, <1>2, <1>6, <1>7, <1>8, <1>9 DEF Next

LEMMA InitAhead == Init => AheadOfRegister
  <1> SUFFICES ASSUME Init PROVE AheadOfRegister
    OBVIOUS
  <1>1. pc \notin Working /\ pc \notin {"ageing", "trimming", "capping"}
    BY DEF Init, Working
  <1>2. known = owner /\ known \in [Keys -> Nat \cup {None}] /\ issued = 0 /\ counter = 0
    BY DEF Init
  <1>3. QED
    BY <1>1, <1>2 DEF AheadOfRegister

--------------------------------------------------------------------------------
(* The call implements one step of the register                              *)

LEMMA InitRegisters == Init => Register!Init
  BY DEF Init, Register!Init

(* Two tracks of one camera never share an id, in the register's words.      *)
LEMMA OwnersApart ==
    ASSUME StoreInv, pc # "placing"
    PROVE  Register!Apart(owner)
  BY DEF StoreInv, OnePerCamera, Owned, SameCamera, Register!Apart, TypeOK

(* A call that begins, or fails: the answer is withdrawn.                    *)
LEMMA WithdrawnRegisters ==
    ASSUME StoreInv, AheadOfRegister, pc \in Resting, pc' # "returned",
           known' = known, issued' = issued
    PROVE  [Register!Next]_(Register!vars)
  <1>1. CASE pc # "returned"
    BY <1>1 DEF Register!vars
  <1>2. CASE pc = "returned"
    <2>1. known = owner /\ issued \in Nat /\ Register!Apart(owner)
      BY <1>2, OwnersApart DEF AheadOfRegister
    <2>2. Register!Instant({})
      BY <2>1, <1>2 DEF Register!Instant, Register!Apart, StoreInv, TypeOK
    <2>3. QED
      BY <2>2 DEF Register!Next
  <1>3. QED
    BY <1>1, <1>2

LEMMA ReturnRegisters ==
    ASSUME StoreInv, StoreInv', AheadOfRegister, TrimIdentities
    PROVE  Register!Next
  <1>1. /\ pc = "capping" /\ pc' = "returned" /\ known' = owner' /\ issued' = counter
        /\ published' = published
    BY DEF TrimIdentities, call
  <1>2. /\ issued \in Nat /\ issued <= counter /\ counter \in Nat
        /\ observed \subseteq Keys /\ DOMAIN published = observed
        /\ \A k \in observed : published[k] \in Givable /\ owner[k] \in {published[k], None}
        /\ \A j, k \in observed : j # k /\ SameCamera(j, k) => published[j] # published[k]
        /\ \A k \in Keys \ observed : owner[k] \in {known[k], None}
    BY <1>1 DEF AheadOfRegister, Working, StoreInv, TypeOK
  <1>3. \A k \in Keys : owner'[k] \in {owner[k], None}
    BY EvictionAhead
  <1>4. Register!Held = KnownIds
    BY DEF Register!Held, KnownIds
  <1>5. \A k \in observed : /\ published[k] \in Register!Held \cup (issued .. counter - 1)
                            /\ owner'[k] \in {published[k], None}
    BY <1>2, <1>3, <1>4 DEF Givable
  <1>6. \A k \in Keys \ observed : owner'[k] \in {known[k], None}
    BY <1>2, <1>3
  <1>7. DOMAIN owner' = Keys
    BY DEF StoreInv, TypeOK
  <1>8. \A j, k \in Keys : j # k /\ CameraOf[j] = CameraOf[k] =>
            owner'[j] # owner'[k] \/ owner'[j] = None
    BY <1>1 DEF StoreInv, OnePerCamera, Owned, SameCamera
  <1>9. Register!Instant(observed)
    BY <1>1, <1>2, <1>5, <1>6, <1>7, <1>8 DEF Register!Instant, Register!Apart, SameCamera
  <1>10. QED
    BY <1>2, <1>9 DEF Register!Next

LEMMA StepRegisters ==
    ASSUME StoreInv, StoreInv', AheadOfRegister, [Next]_vars
    PROVE  [Register!Next]_(Register!vars)
  <1>1. ASSUME NEW seen \in SUBSET Keys, NEW groups \in Clusterings[seen], Assign(seen, groups)
        PROVE  [Register!Next]_(Register!vars)
    BY <1>1, WithdrawnRegisters DEF Assign
  <1>2. ASSUME NEW recorded \in SUBSET Keys, AssignFails(recorded)
        PROVE  [Register!Next]_(Register!vars)
    BY <1>2, WithdrawnRegisters DEF AssignFails
  <1>3. CASE Resolve
    <2>1. pc # "returned" /\ pc' # "returned" /\ known' = known /\ issued' = issued
      BY <1>3 DEF Resolve, LeaveCluster, FoundIdentity, ClaimIdentity, Join, Defect, Stay,
                  ReplaceStale, WinPlace, LosePlace, Places, MoveLosers, Publish, AgeOut,
                  TrimTracks, history
    <2>2. QED
      BY <2>1 DEF Register!vars
  <1>4. CASE TrimIdentities
    BY <1>4, ReturnRegisters
  <1>5. CASE Reset
    <2>1. /\ known' = [k \in Keys |-> None] /\ issued' = issued /\ pc' = "idle"
      BY <1>5 DEF Reset
    <2>2. Register!Reset
      BY <2>1 DEF Register!Reset
    <2>3. QED
      BY <2>2 DEF Register!Next
  <1>6. CASE UNCHANGED vars
    BY <1>6 DEF vars, call, history, Register!vars
  <1>7. QED
    BY <1>1, <1>2, <1>3, <1>4, <1>5, <1>6 DEF Next

(* The whole call, clusters and contests and evictions included, is one step *)
(* of the register, taken when it returns: every track seen is answered,     *)
(* tracks of one camera differently, no track that was not seen changes its  *)
(* identity, and an id nobody holds never comes back.                        *)
THEOREM RegisterImplemented == Spec => ImplementsRegister
  <1>1. Init => StoreInv /\ AheadOfRegister /\ Register!Init
    BY InitStore, InitAhead, InitRegisters
  <1>2. StoreInv /\ AheadOfRegister /\ [Next]_vars => StoreInv' /\ AheadOfRegister'
    BY StepKeepsStore, StepKeepsAhead
  <1>3. StoreInv /\ StoreInv' /\ AheadOfRegister /\ [Next]_vars => [Register!Next]_(Register!vars)
    BY StepRegisters
  <1>4. QED
    BY <1>1, <1>2, <1>3, PTL DEF Spec, ImplementsRegister, Register!Spec

--------------------------------------------------------------------------------
(* What an eviction takes                                                    *)

(* The tracks trimmed are the ones seen longest ago.                         *)
LEMMA SurplusTracksAreOldest ==
    ASSUME TypeOK, OwnedAreTracked, Cardinality(Owned) > MaxTracks
    PROVE  /\ SurplusTracks \in SUBSET Tracked
           /\ Cardinality(SurplusTracks) = Cardinality(Owned) - MaxTracks
           /\ \A x \in SurplusTracks, y \in Tracked \ SurplusTracks : lastSeen[x] <= lastSeen[y]
  <1> DEFINE n == Cardinality(Owned) - MaxTracks
             R == {p \in Tracked \X Tracked : SeenBefore(p[1], p[2])}
  <1>1. IsFiniteSet(Tracked) /\ IsFiniteSet(Owned) /\ MaxTracks \in Nat
    BY KeysAssumption, LimitsAssumption, FS_Subset DEF Tracked, Owned
  <1>2. Cardinality(Owned) \in Nat /\ Cardinality(Tracked) \in Nat
        /\ Cardinality(Owned) <= Cardinality(Tracked)
    BY <1>1, FS_CardinalityType, FS_Subset DEF OwnedAreTracked
  <1>3. n \in 0 .. Cardinality(Tracked)
    BY <1>1, <1>2
  <1>4. \A x \in Tracked : x \in Int /\ lastSeen[x] \in Nat
    BY KeysAssumption DEF Tracked, TypeOK
  <1>5. \A x, y \in Tracked : <<x, y>> \in R <=> SeenBefore(x, y)
    OBVIOUS
  <1>6. \E T \in SUBSET Tracked :
            Cardinality(T) = n /\ \A x \in T, y \in Tracked \ T : SeenBefore(x, y)
    <2>1. \A x \in Tracked : <<x, x>> \notin R
      BY <1>4, <1>5 DEF SeenBefore
    <2>2. \A x, y, z \in Tracked : <<x, y>> \in R /\ <<y, z>> \in R => <<x, z>> \in R
      BY <1>4, <1>5 DEF SeenBefore
    <2>3. \A x, y \in Tracked : x = y \/ <<x, y>> \in R \/ <<y, x>> \in R
      <3>1. \A x, y \in Tracked : x = y \/ SeenBefore(x, y) \/ SeenBefore(y, x)
        BY <1>4 DEF SeenBefore
      <3> QED BY <1>5, <3>1
    <2>4. \E T \in SUBSET Tracked :
              Cardinality(T) = n /\ \A x \in T, y \in Tracked \ T : <<x, y>> \in R
      <3> HIDE DEF R, n
      <3> QED BY <1>1, <1>3, <2>1, <2>2, <2>3, FirstSomeExist
    <2> HIDE DEF R, n
    <2> QED BY <2>4, <1>5
  <1>7. /\ SurplusTracks \in SUBSET Tracked /\ Cardinality(SurplusTracks) = n
        /\ \A x \in SurplusTracks, y \in Tracked \ SurplusTracks : SeenBefore(x, y)
    BY <1>6 DEF SurplusTracks, FirstOf
  <1>8. \A x \in SurplusTracks, y \in Tracked \ SurplusTracks : lastSeen[x] <= lastSeen[y]
    BY <1>4, <1>7 DEF SeenBefore
  <1> QED BY <1>7, <1>8

(* An identity is as recent as its latest track.                             *)
LEMMA RecencyIsLatest ==
    ASSUME TypeOK, Inverted, NEW g \in Live
    PROVE  /\ Recency(g) \in Nat
           /\ \E k \in Keys : owner[k] = g /\ lastSeen[k] = Recency(g)
           /\ \A k \in Keys : owner[k] = g => lastSeen[k] <= Recency(g)
  <1> DEFINE stamps == {lastSeen[k] : k \in members[g]}
  <1>1. members[g] = {k \in Keys : owner[k] = g} /\ members[g] # {}
    BY DEF Inverted, Owned
  <1>2. IsFiniteSet(members[g])
    BY <1>1, KeysAssumption, FS_Subset
  <1>3. IsFiniteSet(stamps)
    BY <1>2, FiniteImage
  <1>4. stamps \in SUBSET Nat /\ stamps # {}
    <2>1. lastSeen \in [Keys -> Nat]
      BY DEF TypeOK
    <2>2. members[g] \subseteq Keys
      BY <1>1
    <2> QED BY ONLY <1>1, <2>1, <2>2
  <1>5. Recency(g) \in stamps /\ \A s \in stamps : s <= Recency(g)
    <2> HIDE DEF stamps
    <2>1. Max(stamps) \in stamps /\ \A s \in stamps : s <= Max(stamps)
      BY <1>3, <1>4, MaxOfFinite
    <2> QED BY <2>1 DEF Recency, stamps
  <1> QED BY <1>1, <1>4, <1>5

(* The identities dropped are the ones used longest ago.                     *)
LEMMA SurplusIdentitiesAreOldest ==
    ASSUME TypeOK, Inverted, Cardinality(Live) > Capacity
    PROVE  /\ SurplusIdentities \in SUBSET Live
           /\ Cardinality(SurplusIdentities) = Cardinality(Live) - Capacity
           /\ \A g \in SurplusIdentities, h \in Live \ SurplusIdentities :
                  Recency(g) <= Recency(h)
  <1> DEFINE n == Cardinality(Live) - Capacity
             R == {p \in Live \X Live : UsedBefore(p[1], p[2])}
  <1>1. IsFiniteSet(Live) /\ Capacity \in Nat
    <2>1. IsFiniteSet(Owned)
      BY KeysAssumption, FS_Subset DEF Owned
    <2> QED BY <2>1, FiniteImage, LimitsAssumption DEF Inverted
  <1>2. Cardinality(Live) \in Nat
    BY <1>1, FS_CardinalityType
  <1>3. n \in 0 .. Cardinality(Live)
    BY <1>1, <1>2
  <1>4. \A g \in Live : g \in Nat /\ Recency(g) \in Nat
    BY RecencyIsLatest DEF Inverted, Owned, TypeOK
  <1>5. \A g, h \in Live : <<g, h>> \in R <=> UsedBefore(g, h)
    OBVIOUS
  <1>6. \E T \in SUBSET Live : Cardinality(T) = n /\ \A g \in T, h \in Live \ T : UsedBefore(g, h)
    <2>1. \A x \in Live : <<x, x>> \notin R
      BY <1>4, <1>5 DEF UsedBefore
    <2>2. \A x, y, z \in Live : <<x, y>> \in R /\ <<y, z>> \in R => <<x, z>> \in R
      BY <1>4, <1>5 DEF UsedBefore
    <2>3. \A x, y \in Live : x = y \/ <<x, y>> \in R \/ <<y, x>> \in R
      <3>1. \A x, y \in Live : x = y \/ UsedBefore(x, y) \/ UsedBefore(y, x)
        BY <1>4 DEF UsedBefore
      <3> QED BY <1>5, <3>1
    <2>4. \E T \in SUBSET Live :
              Cardinality(T) = n /\ \A x \in T, y \in Live \ T : <<x, y>> \in R
      <3> DEFINE ids == Live
      <3>1. /\ IsFiniteSet(ids) /\ n \in 0 .. Cardinality(ids)
            /\ \A x \in ids : <<x, x>> \notin R
            /\ \A x, y, z \in ids : <<x, y>> \in R /\ <<y, z>> \in R => <<x, z>> \in R
            /\ \A x, y \in ids : x = y \/ <<x, y>> \in R \/ <<y, x>> \in R
        BY <1>1, <1>3, <2>1, <2>2, <2>3
      <3> HIDE DEF R, n, ids
      <3>2. \E T \in SUBSET ids :
                Cardinality(T) = n /\ \A x \in T, y \in ids \ T : <<x, y>> \in R
        BY <3>1, FirstSomeExist
      <3> QED BY <3>2 DEF ids
    <2> HIDE DEF R, n
    <2> QED BY <2>4, <1>5
  <1>7. /\ SurplusIdentities \in SUBSET Live /\ Cardinality(SurplusIdentities) = n
        /\ \A g \in SurplusIdentities, h \in Live \ SurplusIdentities : UsedBefore(g, h)
    BY <1>6 DEF SurplusIdentities, FirstOf
  <1>8. \A g \in SurplusIdentities, h \in Live \ SurplusIdentities : Recency(g) <= Recency(h)
    BY <1>4, <1>7 DEF UsedBefore
  <1> QED BY <1>7, <1>8

(* Taking the first n of a finite set leaves the rest.                       *)
LEMMA CardinalityLeft ==
    ASSUME NEW S, IsFiniteSet(S), NEW T \in SUBSET S
    PROVE  /\ Cardinality(S \ T) = Cardinality(S) - Cardinality(T)
           /\ Cardinality(S \ T) \in Nat /\ Cardinality(S) \in Nat /\ Cardinality(T) \in Nat
  <1>1. S \cap T = T /\ IsFiniteSet(T)
    BY FS_Subset
  <1> QED BY <1>1, FS_Difference, FS_CardinalityType

(* A set that lies in a finite set of at most m, one element of which is     *)
(* not in it, has less than m.                                               *)
LEMMA StrictlyFewer ==
    ASSUME NEW S, IsFiniteSet(S), NEW x \in S, NEW T \in SUBSET (S \ {x})
    PROVE  Cardinality(T) \in Nat /\ Cardinality(T) < Cardinality(S) /\ Cardinality(S) \in Nat
  <1>1. IsFiniteSet(S \ {x}) /\ Cardinality(S \ {x}) = Cardinality(S) - 1
    BY FS_RemoveElement
  <1>2. Cardinality(T) <= Cardinality(S \ {x}) /\ IsFiniteSet(T)
    BY <1>1, FS_Subset
  <1> QED BY <1>1, <1>2, FS_CardinalityType

(* While clusters are taken, a track that keeps its stamp keeps an owner.    *)
LEMMA ResolvingKeepsEviction ==
    ASSUME EvictionInv, pc \in {"grouping", "placing"}, pc' \in {"grouping", "placing"},
           orphans' = orphans, observed' = observed,
           \A k \in Keys : \/ lastSeen'[k] = Unseen
                           \/ /\ lastSeen'[k] = lastSeen[k]
                              /\ owner[k] # None => owner'[k] # None
    PROVE  EvictionInv'
  <1>1. orphans \/ Tracked \subseteq Owned \cup observed
    BY DEF EvictionInv
  <1>2. orphans' \/ Tracked' \subseteq Owned' \cup observed'
    BY <1>1 DEF Tracked, Owned
  <1>3. pc' \notin {"ageing", "trimming", "capping", "returned"}
    OBVIOUS
  <1> QED BY <1>2, <1>3 DEF EvictionInv, SeenOnesStay

LEMMA PlacingKeepsEviction ==
    ASSUME StoreInv, EvictionInv, NEW key \in challengers,
           \/ Join(key) \/ Defect(key) \/ Stay(key)
           \/ ReplaceStale(key) \/ WinPlace(key) \/ LosePlace(key)
    PROVE  EvictionInv'
  <1>1. /\ pc = "placing" /\ pc' = "placing" /\ observed' = observed /\ orphans' = orphans
    BY DEF Join, Defect, Stay, ReplaceStale, WinPlace, LosePlace, Places, history
  <1>2. target # None /\ counter # None
    BY <1>1, NoneIsNoId DEF StoreInv, PlacingConsistent, TypeOK, Inverted, Owned
  <1>3. CASE Stay(key)
    BY <1>1, <1>3, ResolvingKeepsEviction DEF Stay, maps
  <1>4. CASE \/ Join(key) \/ Defect(key) \/ ReplaceStale(key) \/ WinPlace(key) \/ LosePlace(key)
    <2>1. PICK gone : \/ Rehome(gone, OneGrant(key, target))
                      \/ Rehome(gone, OneGrant(key, counter))
      <3>1. CASE Join(key)
        BY <3>1 DEF Join
      <3>2. CASE Defect(key)
        BY <3>2 DEF Defect
      <3>3. CASE ReplaceStale(key)
        BY <3>3 DEF ReplaceStale
      <3>4. CASE WinPlace(key)
        BY <3>4 DEF WinPlace
      <3>5. CASE LosePlace(key)
        BY <3>5 DEF LosePlace
      <3> QED BY <1>4, <3>1, <3>2, <3>3, <3>4, <3>5
    <2>2. \A k \in Keys : \/ k \in gone /\ lastSeen'[k] = Unseen
                          \/ /\ lastSeen'[k] = lastSeen[k]
                             /\ owner'[k] \in {owner[k], target, counter}
      BY <2>1 DEF Rehome, OneGrant
    <2> QED BY <1>1, <1>2, <2>2, ResolvingKeepsEviction
  <1> QED BY <1>3, <1>4

LEMMA GroupingKeepsEviction ==
    ASSUME StoreInv, StoreInv', EvictionInv, NEW cluster \in clusters,
           LeaveCluster(cluster) \/ FoundIdentity(cluster) \/ ClaimIdentity(cluster)
    PROVE  EvictionInv'
  <1>1. /\ pc = "grouping" /\ pc' \in {"grouping", "placing"} /\ observed' = observed
        /\ orphans' = orphans
    BY DEF LeaveCluster, FoundIdentity, ClaimIdentity, history
  <1>2. CASE LeaveCluster(cluster) \/ ClaimIdentity(cluster)
    BY <1>1, <1>2, ResolvingKeepsEviction DEF LeaveCluster, ClaimIdentity, maps
  <1>3. CASE FoundIdentity(cluster)
    <2>1. PICK grant : Rehome({}, grant) /\ DOMAIN grant = cluster \ Owned
      BY <1>3 DEF FoundIdentity
    <2>2. \A k \in Keys : /\ lastSeen'[k] = lastSeen[k]
                          /\ owner[k] # None => owner'[k] = owner[k]
      BY <2>1 DEF Rehome, Owned
    <2> QED BY <1>1, <2>2, ResolvingKeepsEviction
  <1> QED BY <1>2, <1>3

LEMMA MoveLosersKeepsEviction ==
    ASSUME StoreInv, EvictionInv, MoveLosers
    PROVE  EvictionInv'
  <1>1. /\ pc = "placing" /\ pc' = "grouping" /\ step' = step /\ observed' = observed
        /\ orphans' = orphans /\ counter' = counter + Cardinality(Losers)
    BY DEF MoveLosers, history
  <1>2. PICK grant \in Fresh(Losers, counter) : Rehome({}, grant)
    BY DEF MoveLosers
  <1>3. Losers \in SUBSET Tracked /\ pc' \in Resting \cup Working
    BY <1>1, ObservedAreTracked DEF Losers, StoreInv, PlacingConsistent, Working
  <1>4. /\ \A k \in Losers : owner'[k] = grant[k] /\ grant[k] \in Nat
        /\ \A k \in Keys \ Losers : owner'[k] = owner[k]
        /\ Moved({}, grant)
    BY <1>1, <1>2, <1>3, ApartKeepsStore
  <1>5. \A k \in Keys : /\ lastSeen'[k] = lastSeen[k]
                        /\ owner[k] # None => owner'[k] # None
    BY <1>4, NoneIsNoId DEF Moved
  <1> QED BY <1>1, <1>5, ResolvingKeepsEviction

LEMMA PublishKeepsEviction ==
    ASSUME StoreInv, EvictionInv, Publish
    PROVE  EvictionInv'
  <1> DEFINE S == observed \ Owned
  <1>1. /\ pc = "grouping" /\ pc' = "ageing" /\ step' = step /\ observed' = observed
        /\ orphans' = orphans /\ counter' = counter + Cardinality(S)
    BY DEF Publish, history
  <1>2. PICK grant \in Fresh(S, counter) :
            /\ Rehome({}, grant)
            /\ published' = [k \in observed |-> IF k \in Owned THEN owner[k] ELSE grant[k]]
    BY DEF Publish
  <1>3. S \in SUBSET Tracked /\ pc' \in Resting \cup Working /\ observed \subseteq Keys
    BY <1>1, ObservedAreTracked DEF StoreInv, Working
  <1>4. \A k \in observed : k \in S <=> k \notin Owned
    OBVIOUS
  <1> HIDE DEF S
  <1>5. /\ DOMAIN grant = S /\ Moved({}, grant)
        /\ \A k \in S : owner'[k] = grant[k] /\ grant[k] \in Nat
        /\ \A k \in Keys \ S : owner'[k] = owner[k]
    BY <1>1, <1>2, <1>3, ApartKeepsStore
  <1>6. \A k \in Keys : lastSeen'[k] = lastSeen[k]
    BY <1>5 DEF Moved
  <1>7. /\ observed = {k \in Keys : lastSeen[k] = step} /\ step > 0
    BY <1>1 DEF StoreInv, InstantConsistent
  <1>8. AnsweredStay'
    BY <1>1, <1>2, <1>3, <1>4, <1>5, <1>6, <1>7 DEF AnsweredStay
  <1>9. StampedAreSeen'
    BY <1>1, <1>6, <1>7 DEF StampedAreSeen
  <1>10. orphans' \/ Tracked' \subseteq Owned'
    <2>1. \A k \in observed : owner'[k] # None
      BY <1>3, <1>4, <1>5, NoneIsNoId DEF Owned
    <2>2. \A k \in Owned : owner'[k] # None
      BY <1>5, NoneIsNoId DEF Owned
    <2>3. Tracked' = Tracked
      BY <1>6 DEF Tracked
    <2> QED BY <1>1, <2>1, <2>2, <2>3 DEF EvictionInv, Owned, Tracked
  <1> QED BY <1>1, <1>8, <1>9, <1>10 DEF EvictionInv, SeenOnesStay

(* An eviction of tracks not of this instant.                                *)
LEMMA SparedStay ==
    ASSUME AnsweredStay, NEW gone, Rehome(gone, <<>>), observed \subseteq Keys,
           step' = step, observed' = observed, published' = published,
           gone \cap observed = {}
    PROVE  AnsweredStay'
  BY DEF AnsweredStay, Rehome

LEMMA StampsStaySeen ==
    ASSUME StampedAreSeen, NEW gone, Rehome(gone, <<>>), step' = step, observed' = observed
    PROVE  StampedAreSeen'
  BY DEF StampedAreSeen, Rehome, Unseen

LEMMA AgeOutKeepsEviction ==
    ASSUME StoreInv, AheadOfRegister, EvictionInv, AgeOut
    PROVE  EvictionInv'
  <1>1. /\ pc = "ageing" /\ pc' = "trimming" /\ step' = step /\ observed' = observed
        /\ published' = published /\ orphans' = orphans /\ Rehome(Stale, <<>>)
    BY DEF AgeOut, call, history
  <1>2. observed \subseteq Keys /\ StampedAreSeen /\ AnsweredStay
    BY <1>1 DEF AheadOfRegister, Working, EvictionInv
  <1>3. Stale \cap observed = {}
    <2>1. \A k \in observed : lastSeen[k] = step
      BY <1>1, <1>2 DEF AnsweredStay, EvictionInv
    <2>2. ~ (step < step - MaxAge)
      <3>1. MaxAge \in Nat /\ step \in Nat
        BY LimitsAssumption DEF StoreInv, TypeOK
      <3> QED BY <3>1
    <2>3. \A k \in Stale : lastSeen[k] < step - MaxAge
      BY DEF Stale
    <2> QED BY <2>1, <2>2, <2>3
  <1>4. AnsweredStay' /\ StampedAreSeen'
    BY <1>1, <1>2, <1>3, SparedStay, StampsStaySeen
  <1>5. orphans' \/ Tracked' \subseteq Owned'
    <2>1. orphans \/ Tracked \subseteq Owned
      BY <1>1 DEF EvictionInv
    <2>2. \A k \in Keys : \/ k \in Stale /\ lastSeen'[k] = Unseen
                          \/ lastSeen'[k] = lastSeen[k] /\ owner'[k] = owner[k]
      BY <1>1 DEF Rehome
    <2> QED BY <1>1, <2>1, <2>2 DEF Tracked, Owned
  <1> QED BY <1>1, <1>4, <1>5 DEF EvictionInv, SeenOnesStay

LEMMA TrimTracksKeepsEviction ==
    ASSUME StoreInv, AheadOfRegister, EvictionInv, TrimTracks
    PROVE  EvictionInv'
  <1>1. /\ pc = "trimming" /\ pc' = "capping" /\ step' = step /\ observed' = observed
        /\ published' = published /\ orphans' = orphans /\ Rehome(SurplusTracks, <<>>)
    BY DEF TrimTracks, call, history
  <1>2. observed \subseteq Keys /\ StampedAreSeen /\ AnsweredStay
    BY <1>1 DEF AheadOfRegister, Working, EvictionInv
  <1>3. /\ IsFiniteSet(Tracked) /\ IsFiniteSet(Owned) /\ IsFiniteSet(observed)
        /\ MaxTracks \in Nat
    BY <1>2, KeysAssumption, LimitsAssumption, FS_Subset DEF Tracked, Owned
  <1>4. Owned' = Owned \ SurplusTracks
    BY <1>1 DEF Rehome, Owned
  <1>5. Owned \subseteq Tracked
    BY DEF StoreInv, OwnedAreTracked
  <1>6. Cardinality(Owned) > MaxTracks =>
            /\ SurplusTracks \in SUBSET Tracked
            /\ Cardinality(SurplusTracks) = Cardinality(Owned) - MaxTracks
            /\ \A x \in SurplusTracks, y \in Tracked \ SurplusTracks : lastSeen[x] <= lastSeen[y]
    BY SurplusTracksAreOldest DEF StoreInv
  <1>7. Cardinality(Owned) <= MaxTracks => SurplusTracks = {}
    BY <1>3, FS_CardinalityType DEF SurplusTracks
  <1>8. Cardinality(Owned) \in Nat /\ Cardinality(Tracked) \in Nat
        /\ Cardinality(Owned) <= Cardinality(Tracked)
    BY <1>3, <1>5, FS_CardinalityType, FS_Subset
  <1>9. orphans' \/ Cardinality(Owned') <= MaxTracks
    <2>1. CASE Cardinality(Owned) <= MaxTracks
      BY <2>1, <1>4, <1>7
    <2>2. CASE Cardinality(Owned) > MaxTracks /\ ~orphans
      <3>1. Tracked = Owned
        BY <2>2, <1>1, <1>5 DEF EvictionInv
      <3>2. Cardinality(Owned \ SurplusTracks) = Cardinality(Owned) - Cardinality(SurplusTracks)
        BY <1>3, <1>6, <2>2, <3>1, CardinalityLeft
      <3> QED BY <3>2, <1>3, <1>4, <1>6, <1>8, <2>2
    <2> QED BY <2>1, <2>2, <1>1, <1>3, <1>8
  <1>10. ASSUME Cardinality(observed) <= MaxTracks PROVE SurplusTracks \cap observed = {}
    <2>1. SUFFICES ASSUME NEW x \in SurplusTracks, x \in observed PROVE FALSE
      OBVIOUS
    <2>2. Cardinality(Owned) > MaxTracks
      BY <2>1, <1>3, <1>7, <1>8
    <2>3. \A y \in Tracked \ SurplusTracks : y \in observed
      BY <2>1, <2>2, <1>2, <1>6 DEF AnsweredStay, StampedAreSeen, StoreInv, StampsPast, Tracked, TypeOK
    <2>4. Tracked \ SurplusTracks \in SUBSET (observed \ {x})
      BY <2>1, <2>3
    <2>5. Cardinality(Tracked \ SurplusTracks) < Cardinality(observed) /\ Cardinality(observed) \in Nat
      BY <2>1, <2>4, <1>3, StrictlyFewer
    <2>6. Cardinality(Tracked \ SurplusTracks) = Cardinality(Tracked) - Cardinality(SurplusTracks)
      BY <1>3, <1>6, <2>2, CardinalityLeft
    <2> QED BY <1>3, <1>6, <1>8, <1>10, <2>2, <2>5, <2>6
  <1>11. Cardinality(observed') <= MaxTracks => AnsweredStay'
    BY <1>1, <1>2, <1>10, SparedStay
  <1>12. StampedAreSeen'
    BY <1>1, <1>2, StampsStaySeen
  <1> QED BY <1>1, <1>9, <1>11, <1>12 DEF EvictionInv, SeenOnesStay

(* The identities over capacity are dropped, the oldest first: what is left  *)
(* fits, and an identity answered this instant would only have gone if the   *)
(* ones answered did not fit.                                                *)
LEMMA TrimIdentitiesKeepsEviction ==
    ASSUME StoreInv, StoreInv', AheadOfRegister, EvictionInv, TrimIdentities
    PROVE  EvictionInv'
  <1> DEFINE S == SurplusIdentities
             gone == UNION {members[g] : g \in S}
  <1>1. /\ pc = "capping" /\ pc' = "returned" /\ step' = step /\ observed' = observed
        /\ published' = published /\ orphans' = orphans /\ Rehome(gone, <<>>)
    BY DEF TrimIdentities, call
  <1>2. /\ DOMAIN published = observed /\ observed \subseteq Keys /\ StampedAreSeen
        /\ orphans \/ Cardinality(Owned) <= MaxTracks
        /\ Cardinality(observed) <= MaxTracks => AnsweredStay
    BY <1>1 DEF AheadOfRegister, Working, EvictionInv
  <1>3. /\ TypeOK /\ Inverted /\ StampsPast /\ Capacity \in Nat /\ MaxTracks \in Nat
        /\ step \in Nat
    BY LimitsAssumption DEF StoreInv, TypeOK
  <1>4. /\ IsFiniteSet(Owned) /\ IsFiniteSet(observed) /\ IsFiniteSet(Live)
        /\ Cardinality(Live) \in Nat /\ Cardinality(Owned) \in Nat
    <2>1. IsFiniteSet(Owned) /\ IsFiniteSet(observed)
      BY <1>2, KeysAssumption, FS_Subset DEF Owned
    <2>2. IsFiniteSet(Live)
      BY <1>3, <2>1, FiniteImage DEF Inverted
    <2> QED BY <2>1, <2>2, FS_CardinalityType
  <1>5. Cardinality(Live) <= Capacity => S = {}
    BY <1>3, <1>4 DEF SurplusIdentities
  <1>6. Cardinality(Live) > Capacity =>
            /\ S \in SUBSET Live
            /\ Cardinality(S) = Cardinality(Live) - Capacity
            /\ \A g \in S, h \in Live \ S : Recency(g) <= Recency(h)
    BY <1>3, SurplusIdentitiesAreOldest
  <1>7. S \subseteq Live
    BY <1>3, <1>4, <1>5, <1>6
  <1> HIDE DEF S
  <1>8. \A k \in Keys : owner'[k] = IF owner[k] \in S THEN None ELSE owner[k]
    <2>1. \A k \in Keys : k \in gone <=> owner[k] \in S
      BY <1>3, <1>7 DEF Inverted
    <2>2. \A k \in Keys : owner'[k] = IF k \in gone THEN None ELSE owner[k]
      BY <1>1 DEF Rehome
    <2> QED BY <2>1, <2>2
  <1>9. Live' = Live \ S
    <2>1. Live' = {owner'[k] : k \in Owned'} /\ Live = {owner[k] : k \in Owned}
      BY <1>3 DEF StoreInv, Inverted
    <2> QED BY <2>1, <1>8 DEF Owned
  <1>10. Cardinality(Live) > Capacity => Cardinality(Live \ S) = Capacity
    <2> DEFINE ids == Live
    <2>1. IsFiniteSet(ids) /\ (Cardinality(Live) > Capacity => S \in SUBSET ids)
      BY <1>4, <1>6
    <2>2. Cardinality(Live) > Capacity =>
              Cardinality(ids \ S) = Cardinality(ids) - Cardinality(S)
      <3> HIDE DEF ids
      <3> QED BY <2>1, CardinalityLeft
    <2> QED BY <1>3, <1>4, <1>6, <2>2
  <1>11. Cardinality(Live') <= Capacity
    BY <1>3, <1>4, <1>5, <1>9, <1>10
  <1>12. orphans' \/ Cardinality(Owned') <= MaxTracks
    <2>1. Owned' \subseteq Owned
      BY <1>8 DEF Owned
    <2>2. Cardinality(Owned') <= Cardinality(Owned) /\ Cardinality(Owned') \in Nat
      BY <2>1, <1>4, FS_Subset, FS_CardinalityType
    <2> QED BY <1>1, <1>2, <1>3, <1>4, <2>2
  <1>13. ASSUME Cardinality(observed) <= MaxTracks, Cardinality(Range(published)) <= Capacity,
                NEW k \in observed
         PROVE  owner'[k] = published[k]
    <2> DEFINE answers == {published[j] : j \in observed}
    <2>1. AnsweredStay /\ k \in Keys
      BY <1>2, <1>13
    <2>2. Range(published) = answers
      BY <1>2 DEF Range
    <2>3. IsFiniteSet(answers)
      BY <1>4, FiniteImage
    <2>4. owner[k] \notin S
      <3> SUFFICES ASSUME owner[k] \in S PROVE FALSE
        OBVIOUS
      <3>1. Cardinality(Live) > Capacity
        BY <1>3, <1>4, <1>5
      <3>2. owner[k] \in Live /\ owner[k] \in answers /\ lastSeen[k] = step
        BY <1>7, <2>1 DEF AnsweredStay
      <3>3. Recency(owner[k]) \in Nat /\ step <= Recency(owner[k])
        BY <1>3, <2>1, <3>2, RecencyIsLatest
      <3>4. ASSUME NEW h \in Live \ S PROVE h \in answers /\ h # owner[k]
        <4>1. Recency(owner[k]) <= Recency(h)
          BY <1>6, <3>1
        <4>2. PICK m \in Keys : owner[m] = h /\ lastSeen[m] = Recency(h)
          BY <1>3, RecencyIsLatest
        <4>3. lastSeen[m] = step
          BY <1>3, <3>3, <4>1, <4>2 DEF StampsPast, TypeOK
        <4>4. m \in observed
          BY <1>2, <4>3 DEF StampedAreSeen
        <4> QED BY <2>1, <4>2, <4>4 DEF AnsweredStay
      <3>5. Live \ S \in SUBSET (answers \ {owner[k]})
        BY <3>4
      <3>6. Cardinality(Live \ S) < Cardinality(answers) /\ Cardinality(answers) \in Nat
        <4> HIDE DEF answers
        <4> QED BY <2>3, <3>2, <3>5, StrictlyFewer
      <3> QED BY <1>3, <1>10, <1>13, <2>2, <3>1, <3>6
    <2> QED BY <1>8, <2>1, <2>4 DEF AnsweredStay
  <1>14. SeenOnesStay'
    BY <1>1, <1>11, <1>12, <1>13 DEF SeenOnesStay
  <1> QED BY <1>1, <1>14 DEF EvictionInv

(* At the start of a call: unless it finds orphans, what has a stamp has an  *)
(* owner or is of the instant.                                               *)
LEMMA StartKeepsEviction ==
    ASSUME EvictionInv,
           \/ \E seen \in SUBSET Keys : \E groups \in Clusterings[seen] : Assign(seen, groups)
           \/ \E recorded \in SUBSET Keys : AssignFails(recorded)
           \/ Reset
    PROVE  EvictionInv'
  <1>1. ASSUME NEW seen \in SUBSET Keys, NEW groups \in Clusterings[seen], Assign(seen, groups)
        PROVE  EvictionInv'
    <2>1. /\ pc' = "grouping" /\ observed' = seen /\ owner' = owner
          /\ orphans' = ~(Tracked \subseteq Owned \cup seen) /\ Observe(seen)
      BY <1>1 DEF Assign
    <2>2. Owned' = Owned /\ Tracked' \subseteq Tracked \cup seen
      BY <2>1 DEF Owned, Tracked, Observe
    <2> QED BY <2>1, <2>2 DEF EvictionInv, SeenOnesStay
  <1>2. ASSUME pc' = "idle" PROVE EvictionInv'
    BY <1>2 DEF EvictionInv, SeenOnesStay
  <1> QED BY <1>1, <1>2 DEF AssignFails, Reset

LEMMA StutterKeepsEviction ==
    ASSUME EvictionInv, UNCHANGED vars
    PROVE  EvictionInv'
  BY DEF EvictionInv, SeenOnesStay, StampedAreSeen, AnsweredStay, vars, maps, call, history,
         Tracked, Owned, Live

LEMMA InitEviction == Init => EvictionInv
  BY DEF Init, EvictionInv, SeenOnesStay

LEMMA StepKeepsEviction ==
    StoreInv /\ StoreInv' /\ AheadOfRegister /\ EvictionInv /\ [Next]_vars => EvictionInv'
  <1> SUFFICES ASSUME StoreInv, StoreInv', AheadOfRegister, EvictionInv, [Next]_vars
               PROVE  EvictionInv'
    OBVIOUS
  <1>1. CASE Resolve
    <2>1. ASSUME NEW cluster \in clusters,
                 LeaveCluster(cluster) \/ FoundIdentity(cluster) \/ ClaimIdentity(cluster)
          PROVE  EvictionInv'
      BY <2>1, GroupingKeepsEviction
    <2>2. ASSUME NEW key \in challengers,
                 \/ Join(key) \/ Defect(key) \/ Stay(key)
                 \/ ReplaceStale(key) \/ WinPlace(key) \/ LosePlace(key)
          PROVE  EvictionInv'
      BY <2>2, PlacingKeepsEviction
    <2>3. CASE MoveLosers
      BY <2>3, MoveLosersKeepsEviction
    <2>4. CASE Publish
      BY <2>4, PublishKeepsEviction
    <2>5. CASE AgeOut
      BY <2>5, AgeOutKeepsEviction
    <2>6. CASE TrimTracks
      BY <2>6, TrimTracksKeepsEviction
    <2> QED BY <1>1, <2>1, <2>2, <2>3, <2>4, <2>5, <2>6 DEF Resolve
  <1>2. CASE TrimIdentities
    BY <1>2, TrimIdentitiesKeepsEviction
  <1>3. CASE \/ \E seen \in SUBSET Keys : \E groups \in Clusterings[seen] : Assign(seen, groups)
             \/ \E recorded \in SUBSET Keys : AssignFails(recorded)
             \/ Reset
    BY <1>3, StartKeepsEviction
  <1>4. CASE UNCHANGED vars
    BY <1>4, StutterKeepsEviction
  <1> QED BY <1>1, <1>2, <1>3, <1>4 DEF Next

(* However many tracks and identities there are and whatever the limits:     *)
(* eviction keeps them - the one on tracks unless the call found stamps      *)
(* without an owner - and takes nothing of this instant while this instant   *)
(* fits.                                                                     *)
THEOREM EvictionTakesTheOldest == Spec => []SeenOnesStay
  <1>1. Init => StoreInv /\ AheadOfRegister /\ EvictionInv
    BY InitStore, InitAhead, InitEviction
  <1>2. StoreInv /\ AheadOfRegister /\ EvictionInv /\ [Next]_vars
            => StoreInv' /\ AheadOfRegister' /\ EvictionInv'
    BY StepKeepsStore, StepKeepsAhead, StepKeepsEviction
  <1>3. EvictionInv => SeenOnesStay
    BY DEF EvictionInv
  <1>4. QED
    BY <1>1, <1>2, <1>3, PTL DEF Spec

--------------------------------------------------------------------------------
(* Nothing steals an identity from the cluster with first claim on it        *)

SameKnown(c, k) == {j \in c : known[j] = known[k]}

(* First claim of k's cluster on k's identity, read off what was known when  *)
(* the call began.                                                           *)
HasFirstClaim(c, k) ==
    /\ SameKnown(c, k) \subseteq entitled
    /\ \A j \in c : known[j] \in Nat /\ known[j] # known[k] =>
           Cardinality(SameKnown(c, j)) < Cardinality(SameKnown(c, k))
    /\ \A d \in clusters \ {c} : SameKnown(d, k) # {} => Cardinality(d) < Cardinality(c)
    /\ \A i, j \in c : SameCamera(i, j) => i = j

Waiting == UNION clusters

(* The clusters not taken yet are as the call found them, but for tracks     *)
(* that lost their place elsewhere and were given an id of their own.        *)
WaitingAsKnown ==
    /\ \A c, d \in clusters : c # d => c \cap d = {}
    /\ \A k \in Waiting : owner[k] # known[k] =>
           known[k] \in Nat /\ owner[k] \in Nat /\ owner[k] >= issued
    /\ \A j, k \in Waiting : j # k /\ owner[j] = owner[k] /\ owner[j] \in Nat => owner[j] < issued

(* An entitled track has its identity, and nobody else has taken it before   *)
(* the track's cluster does; after that the track is never contested.        *)
EntitledKeep ==
    \A k \in entitled :
        /\ k \in observed /\ known[k] \in Nat /\ owner[k] = known[k] /\ k \notin displaced
        /\ \A c \in clusters : k \in c => HasFirstClaim(c, k) /\ known[k] \notin matched
        /\ k \notin Waiting => known[k] \in matched
        /\ pc = "placing" => /\ k \notin challengers
                             /\ known[k] = target =>
                                    \A key \in challengers : ~SameCamera(k, key)

ClaimInv ==
    /\ \A k \in Keys : known[k] \in Nat => known[k] < issued
    /\ pc \in Resting => issued = counter
    /\ pc = "placing" => target \in matched /\ challengers \cap Waiting = {}
    /\ pc # "placing" => displaced = {}
    /\ pc \in {"grouping", "placing"} => WaitingAsKnown /\ EntitledKeep
    /\ FirstClaimHolds

LEMMA ClustersAreDisjoint ==
    ASSUME NEW seen \in SUBSET Keys, NEW groups \in Clusterings[seen],
           NEW c \in groups, NEW d \in groups, c # d
    PROVE  c \cap d = {}
  <1>1. PICK labels \in [seen -> 1 .. Cardinality(seen)] : groups = Clusters(labels)
    BY DEF Clusterings
  <1>2. QED
    BY <1>1 DEF Clusters

(* At the start of the call first claim is what it is in the code's terms.   *)
LEMMA FirstClaimIsKnown ==
    ASSUME StoreInv, AheadOfRegister, pc \in Resting,
           NEW seen \in SUBSET Keys, NEW groups \in Clusterings[seen], Assign(seen, groups),
           NEW k \in entitled', NEW c \in groups, k \in c
    PROVE  HasFirstClaim(c, k)'
  <1>1. /\ known = owner /\ known' = known /\ clusters' = groups
        /\ entitled' = {j \in seen \cap Owned :
                            \E d \in groups : j \in d /\ FirstClaim(d, owner[j], groups)}
    BY DEF Assign, AheadOfRegister
  <1>2. \A d \in groups : d \subseteq seen /\ d \subseteq Keys /\ IsFiniteSet(d)
    BY ClustersAreSeen, KeysAssumption, FS_Subset
  <1>3. FirstClaim(c, owner[k], groups)
    <2>1. PICK d \in groups : k \in d /\ FirstClaim(d, owner[k], groups)
      BY <1>1
    <2>2. d = c
      BY <2>1, ClustersAreDisjoint
    <2> QED BY <2>1, <2>2
  <1>4. \A j, d : SameKnown(d, j)' = {i \in d : owner[i] = owner[j]}
    BY <1>1 DEF SameKnown
  <1>5. \A j, d : Cardinality({i \in d : owner[i] = owner[j]}) = Share(d, owner[j])
    BY DEF Share
  <1>6. SameKnown(c, k)' \subseteq entitled'
    BY <1>1, <1>2, <1>3, <1>4 DEF Owned
  <1>7. ASSUME NEW j \in c, known'[j] \in Nat, known'[j] # known'[k]
        PROVE  Cardinality(SameKnown(c, j)') < Cardinality(SameKnown(c, k)')
    <2>1. owner[j] \in Live \ {owner[k]}
      BY <1>1, <1>2, <1>7, NoneIsNoId DEF StoreInv, Inverted, Owned
    <2>2. Share(c, owner[j]) < Share(c, owner[k])
      BY <1>3, <2>1 DEF FirstClaim
    <2> QED BY <1>4, <1>5, <2>2
  <1>8. ASSUME NEW d \in groups \ {c}, SameKnown(d, k)' # {}
        PROVE  Cardinality(d) < Cardinality(c)
    <2>1. IsFiniteSet({i \in d : owner[i] = owner[k]}) /\ {i \in d : owner[i] = owner[k]} # {}
      BY <1>2, <1>4, <1>8, FS_Subset
    <2>2. Share(d, owner[k]) > 0
      BY <2>1, FS_EmptySet, FS_CardinalityType DEF Share
    <2> QED BY <1>3, <2>2 DEF FirstClaim
  <1>9. \A i, j \in c : SameCamera(i, j) => i = j
    BY <1>3 DEF FirstClaim
  <1> QED BY <1>1, <1>6, <1>7, <1>8, <1>9 DEF HasFirstClaim

LEMMA AssignKeepsClaims ==
    ASSUME StoreInv, AheadOfRegister, ClaimInv,
           NEW seen \in SUBSET Keys, NEW groups \in Clusterings[seen], Assign(seen, groups)
    PROVE  ClaimInv'
  <1>1. /\ pc \in Resting /\ pc' = "grouping" /\ owner' = owner /\ observed' = seen
        /\ known' = known /\ known = owner /\ issued' = issued /\ issued = counter
        /\ clusters' = groups /\ matched' = {} /\ displaced' = {}
        /\ entitled' = {k \in seen \cap Owned :
                            \E c \in groups : k \in c /\ FirstClaim(c, owner[k], groups)}
    BY DEF Assign, AheadOfRegister, ClaimInv, claim, Resting
  <1>2. \A c \in groups : c \subseteq seen /\ c \subseteq Keys
    BY ClustersAreSeen
  <1>3. \A k \in Keys : owner[k] \in Nat => owner[k] < issued
    BY <1>1, NoneIsNoId DEF StoreInv, IdsIssued, Owned
  <1>4. WaitingAsKnown'
    <2>1. \A c, d \in groups : c # d => c \cap d = {}
      BY ClustersAreDisjoint
    <2>2. \A k \in Waiting' : k \in Keys
      BY <1>1, <1>2 DEF Waiting
    <2> QED BY <1>1, <1>3, <2>1, <2>2 DEF WaitingAsKnown
  <1>5. EntitledKeep'
    <2> SUFFICES ASSUME NEW k \in entitled'
                 PROVE  /\ k \in observed' /\ known'[k] \in Nat /\ owner'[k] = known'[k]
                        /\ \A c \in clusters' : k \in c => HasFirstClaim(c, k)'
                        /\ k \in Waiting'
      BY <1>1 DEF EntitledKeep
    <2>1. k \in seen /\ k \in Owned /\ \E c \in groups : k \in c
      BY <1>1
    <2>2. \A c \in groups : k \in c => HasFirstClaim(c, k)'
      BY <1>1, FirstClaimIsKnown
    <2> QED BY <1>1, <2>1, <2>2 DEF Waiting, Owned, StoreInv, TypeOK
  <1> QED BY <1>1, <1>4, <1>5 DEF ClaimInv, Resting, FirstClaimHolds

(* A first claim outlives the clusters that are taken.                       *)
LEMMA ClaimsOutlive ==
    ASSUME clusters' \subseteq clusters, known' = known, entitled' = entitled,
           NEW c, NEW k, HasFirstClaim(c, k)
    PROVE  HasFirstClaim(c, k)'
  BY DEF HasFirstClaim, SameKnown

(* A waiting track has an identity of old only if it always had it.          *)
LEMMA WaitingHaveKnown ==
    ASSUME ClaimInv, AheadOfRegister, WaitingAsKnown, NEW k \in Waiting,
           owner[k] \in Nat, owner[k] < issued
    PROVE  known[k] = owner[k]
  BY DEF WaitingAsKnown, AheadOfRegister

(* The only candidate of a cluster with an entitled track is its identity.   *)
LEMMA EntitledIsCandidate ==
    ASSUME StoreInv, AheadOfRegister, ClaimInv, pc = "grouping",
           NEW cluster \in clusters, NEW k \in entitled \cap cluster
    PROVE  Candidates(cluster) = {known[k]}
  <1>1. /\ WaitingAsKnown /\ EntitledKeep /\ cluster \subseteq Waiting
        /\ \A j \in Keys : known[j] \in Nat => known[j] < issued
        /\ issued \in Nat
    BY DEF ClaimInv, Waiting, AheadOfRegister
  <1>2. cluster \subseteq Keys /\ IsFiniteSet(cluster)
    <2>1. cluster \subseteq Keys
      BY DEF StoreInv, InstantConsistent
    <2> QED BY <2>1, KeysAssumption, FS_Subset
  <1> DEFINE g == known[k]
             shared == {owner[j] : j \in cluster \cap Owned} \ matched
  <1>3. /\ g \in Nat /\ owner[k] = g /\ HasFirstClaim(cluster, k) /\ g \notin matched /\ g < issued
        /\ k \in Keys
    BY <1>1, <1>2 DEF EntitledKeep
  <1>4. g \in shared
    BY <1>2, <1>3, NoneIsNoId DEF Owned
  <1>5. {j \in cluster : owner[j] = g} = SameKnown(cluster, k)
    <2>1. ASSUME NEW j \in cluster, owner[j] = g PROVE known[j] = g
      BY <1>1, <1>3, <2>1, WaitingHaveKnown
    <2>2. ASSUME NEW j \in cluster, known[j] = g PROVE owner[j] = g
      <3>1. j \in entitled
        BY <1>3, <2>2 DEF HasFirstClaim, SameKnown
      <3> QED BY <1>1, <2>2, <3>1 DEF EntitledKeep
    <2> QED BY <2>1, <2>2 DEF SameKnown
  <1>6. \A j \in cluster : IsFiniteSet(SameKnown(cluster, j)) /\ Cardinality(SameKnown(cluster, j)) \in Nat
    <2>1. \A j \in cluster : IsFiniteSet(SameKnown(cluster, j))
      BY <1>2, FS_Subset DEF SameKnown
    <2> QED BY <2>1, FS_CardinalityType
  <1>7. ASSUME NEW h \in shared, h # g
        PROVE  Share(cluster, h) \in Nat /\ Share(cluster, h) < Share(cluster, g)
    <2>1. PICK j \in cluster : j \in Keys /\ owner[j] = h /\ h \in Nat
      BY <1>2, <1>7, NoneIsNoId DEF Owned, StoreInv, TypeOK
    <2>2. known[j] \in Nat /\ known[j] # g
      <3>1. known[j] \in Nat
        BY <1>1, <2>1 DEF WaitingAsKnown
      <3>2. known[j] # g
        BY <1>5, <1>7, <2>1 DEF SameKnown
      <3> QED BY <3>1, <3>2
    <2>3. Cardinality(SameKnown(cluster, j)) < Share(cluster, g)
      BY <1>3, <1>5, <2>2 DEF HasFirstClaim, Share
    <2>4. CASE h < issued
      <3>1. known[j] = h
        BY <1>1, <2>1, <2>4, WaitingHaveKnown
      <3>2. {i \in cluster : owner[i] = h} \subseteq SameKnown(cluster, j)
        BY <1>1, <2>1, <2>4, <3>1, WaitingHaveKnown DEF SameKnown
      <3>3. Share(cluster, h) <= Cardinality(SameKnown(cluster, j)) /\ Share(cluster, h) \in Nat
        BY <1>6, <3>2, FS_Subset, FS_CardinalityType DEF Share
      <3> QED BY <1>3, <1>5, <1>6, <2>3, <3>3 DEF Share
    <2>5. CASE ~(h < issued)
      <3>1. {i \in cluster : owner[i] = h} = {j}
        BY <1>1, <2>1, <2>5 DEF WaitingAsKnown
      <3>2. Share(cluster, h) = 1
        BY <3>1, FS_Singleton DEF Share
      <3>3. SameKnown(cluster, j) # {}
        BY DEF SameKnown
      <3>4. Cardinality(SameKnown(cluster, j)) # 0
        BY <1>6, <3>3, FS_EmptySet
      <3> QED BY <1>3, <1>5, <1>6, <2>3, <3>2, <3>4 DEF Share
    <2> QED BY <2>4, <2>5
  <1>8. Share(cluster, g) \in Nat
    BY <1>3, <1>5, <1>6 DEF Share
  <1>9. Candidates(cluster) = {x \in shared : \A h \in shared : Share(cluster, h) <= Share(cluster, x)}
    BY DEF Candidates
  <1> HIDE DEF shared, g
  <1>10. \A x \in shared : x # g => ~(Share(cluster, g) <= Share(cluster, x))
    BY <1>7, <1>8
  <1>11. \A h \in shared : Share(cluster, h) <= Share(cluster, g)
    BY <1>7, <1>8
  <1>12. Candidates(cluster) = {g}
    BY <1>4, <1>9, <1>10, <1>11
  <1> QED BY <1>12 DEF g

(* A cluster nobody is entitled through is left alone or founds an identity. *)
LEMMA UnclaimedKeepsClaims ==
    ASSUME StoreInv, AheadOfRegister, ClaimInv, NEW cluster \in clusters,
           LeaveCluster(cluster) \/ FoundIdentity(cluster)
    PROVE  ClaimInv'
  <1>1. /\ pc = "grouping" /\ pc' = pc /\ clusters' = clusters \ {cluster}
        /\ matched' \subseteq matched \cup {counter} /\ matched \subseteq matched'
        /\ observed' = observed /\ displaced' = displaced /\ known' = known
        /\ issued' = issued /\ entitled' = entitled /\ published' = published
        /\ Candidates(cluster) = {}
    BY DEF LeaveCluster, FoundIdentity, claim, history
  <1>2. WaitingAsKnown /\ EntitledKeep /\ issued \in Nat /\ issued <= counter /\ counter \in Nat
    BY <1>1 DEF ClaimInv, AheadOfRegister, StoreInv, TypeOK
  <1>3. \A k \in entitled : k \notin cluster
    BY <1>1, EntitledIsCandidate
  <1>4. \A k \in Keys : owner'[k] = owner[k] \/ (k \in cluster /\ owner[k] = None)
    <2>1. CASE LeaveCluster(cluster)
      BY <2>1 DEF LeaveCluster, maps
    <2>2. CASE FoundIdentity(cluster)
      <3>1. PICK grant : Rehome({}, grant) /\ DOMAIN grant = cluster \ Owned
        <4> DEFINE fresh == cluster \ Owned
                   granted(roster, own) == [k \in fresh |-> IF k \in roster THEN counter ELSE own[k]]
        <4>1. \E roster, own : Rehome({}, granted(roster, own))
          BY ONLY <2>2 DEF FoundIdentity
        <4>2. \A roster, own : DOMAIN granted(roster, own) = fresh
          OBVIOUS
        <4> HIDE DEF granted
        <4> QED BY ONLY <4>1, <4>2 DEF fresh
      <3> QED BY <3>1 DEF Rehome, Owned
    <2> QED BY <2>1, <2>2
  <1>5. /\ Waiting' \subseteq Waiting /\ Waiting' \subseteq Keys
        /\ \A k \in Waiting : k \in cluster \/ k \in Waiting'
        /\ \A k \in Waiting' : k \notin cluster
    <2>1. \A c \in clusters : c \subseteq Keys
      BY <1>1 DEF StoreInv, InstantConsistent
    <2> QED BY <1>1, <1>2, <2>1 DEF Waiting, WaitingAsKnown
  <1>6. WaitingAsKnown'
    BY <1>1, <1>2, <1>4, <1>5 DEF WaitingAsKnown
  <1>7. EntitledKeep'
    <2> SUFFICES ASSUME NEW k \in entitled
                 PROVE  /\ k \in observed /\ known[k] \in Nat /\ owner'[k] = known[k]
                        /\ k \notin displaced
                        /\ \A c \in clusters' : k \in c =>
                               HasFirstClaim(c, k)' /\ known[k] \notin matched'
                        /\ k \notin Waiting' => known[k] \in matched'
      BY <1>1 DEF EntitledKeep
    <2>1. /\ k \in observed /\ known[k] \in Nat /\ owner[k] = known[k] /\ k \notin displaced
          /\ \A c \in clusters : k \in c => HasFirstClaim(c, k) /\ known[k] \notin matched
          /\ k \notin Waiting => known[k] \in matched
      BY <1>2 DEF EntitledKeep
    <2>2. k \in Keys /\ known[k] # counter /\ k \notin cluster
      <3>1. k \in Keys
        BY <1>1, <2>1 DEF StoreInv, InstantConsistent
      <3>2. known[k] < issued
        BY <2>1, <3>1 DEF ClaimInv
      <3> QED BY <1>2, <1>3, <2>1, <3>1, <3>2
    <2>3. owner'[k] = known[k]
      BY <1>4, <2>1, <2>2
    <2>4. \A c \in clusters' : k \in c => HasFirstClaim(c, k)'
      BY <1>1, <2>1, ClaimsOutlive
    <2> QED BY <1>1, <1>5, <2>1, <2>2, <2>3, <2>4
  <1> QED BY <1>1, <1>6, <1>7 DEF ClaimInv, Resting, FirstClaimHolds

(* A cluster that claims an identity: the one entitled to it, if there is a  *)
(* cluster waiting that is.                                                  *)
LEMMA ClaimTakesOwn ==
    ASSUME StoreInv, AheadOfRegister, ClaimInv, NEW cluster \in clusters,
           ClaimIdentity(cluster), NEW k \in entitled
    PROVE  /\ target' \notin matched /\ target' \in Live
           /\ k \in cluster => known[k] = target'
           /\ k \notin cluster => known[k] # target'
  <1>1. /\ pc = "grouping" /\ cluster \in Largest(clusters) /\ Candidates(cluster) # {}
        /\ target' = SelectByOldest(Candidates(cluster))
    BY DEF ClaimIdentity
  <1>2. WaitingAsKnown /\ EntitledKeep /\ cluster \subseteq Waiting /\ cluster \subseteq Keys
        /\ \A c \in clusters : c \subseteq Keys /\ c \subseteq observed
    BY <1>1 DEF ClaimInv, StoreInv, InstantConsistent, Waiting
  <1>3. target' \in Candidates(cluster) /\ target' \in Live
    <2>1. TypeOK /\ Inverted
      BY DEF StoreInv
    <2> QED BY <1>1, <1>2, <2>1, CandidatesAreLive, SelectByOldestChooses
  <1>4. target' \notin matched /\ \E j \in cluster : owner[j] = target'
    BY <1>3 DEF Candidates
  <1>5. ASSUME k \in cluster PROVE known[k] = target'
    BY <1>1, <1>3, <1>5, EntitledIsCandidate
  <1>6. ASSUME k \notin cluster, known[k] = target' PROVE FALSE
    <2>1. k \in Waiting
      BY <1>2, <1>4, <1>6 DEF EntitledKeep
    <2>2. PICK c \in clusters : k \in c
      BY <2>1 DEF Waiting
    <2>3. HasFirstClaim(c, k) /\ c # cluster /\ known[k] \in Nat /\ k \in Keys
      BY <1>2, <1>6, <2>2 DEF EntitledKeep
    <2>4. PICK j \in cluster : owner[j] = known[k]
      BY <1>4, <1>6
    <2>5. known[k] < issued
      BY <2>3 DEF ClaimInv
    <2>6. known[j] = known[k]
      BY <1>2, <2>3, <2>4, <2>5, WaitingHaveKnown
    <2>7. Cardinality(cluster) < Cardinality(c)
      BY <2>3, <2>6 DEF HasFirstClaim, SameKnown
    <2>8. Cardinality(c) <= Cardinality(cluster)
      BY <1>1 DEF Largest
    <2>9. Cardinality(c) \in Nat /\ Cardinality(cluster) \in Nat
      BY <1>2, KeysAssumption, FS_Subset, FS_CardinalityType
    <2> QED BY <2>7, <2>8, <2>9
  <1> QED BY <1>3, <1>4, <1>5, <1>6

LEMMA ClaimIdentityKeepsClaims ==
    ASSUME StoreInv, AheadOfRegister, ClaimInv, NEW cluster \in clusters, ClaimIdentity(cluster)
    PROVE  ClaimInv'
  <1>1. /\ pc = "grouping" /\ pc' = "placing" /\ clusters' = clusters \ {cluster}
        /\ matched' = matched \cup {target'} /\ displaced' = {}
        /\ challengers' = cluster \ MembersOf(target')
        /\ observed' = observed /\ known' = known /\ owner' = owner
        /\ issued' = issued /\ entitled' = entitled /\ published' = published
    BY DEF ClaimIdentity, maps, history
  <1>2. WaitingAsKnown /\ EntitledKeep
        /\ \A c \in clusters : c \subseteq Keys
    BY <1>1 DEF ClaimInv, StoreInv, InstantConsistent
  <1>3. /\ Waiting' \subseteq Waiting
        /\ \A k \in Waiting : k \in cluster \/ k \in Waiting'
        /\ \A k \in Waiting' : k \notin cluster
    BY <1>1, <1>2 DEF Waiting, WaitingAsKnown
  <1>4. WaitingAsKnown'
    BY <1>1, <1>2, <1>3 DEF WaitingAsKnown
  <1>5. EntitledKeep'
    <2> SUFFICES ASSUME NEW k \in entitled
                 PROVE  /\ k \in observed /\ known[k] \in Nat /\ owner[k] = known[k]
                        /\ \A c \in clusters' : k \in c =>
                               HasFirstClaim(c, k)' /\ known[k] \notin matched'
                        /\ k \notin Waiting' => known[k] \in matched'
                        /\ k \notin challengers'
                        /\ known[k] = target' =>
                               \A key \in challengers' : ~SameCamera(k, key)
      BY <1>1 DEF EntitledKeep
    <2>1. /\ k \in observed /\ known[k] \in Nat /\ owner[k] = known[k]
          /\ \A c \in clusters : k \in c => HasFirstClaim(c, k) /\ known[k] \notin matched
          /\ k \notin Waiting => known[k] \in matched
      BY <1>2 DEF EntitledKeep
    <2>2. /\ target' \notin matched /\ target' \in Live
          /\ k \in cluster => known[k] = target'
          /\ k \notin cluster => known[k] # target'
      BY ClaimTakesOwn
    <2>3. \A c \in clusters' : k \in c => HasFirstClaim(c, k)'
      BY <1>1, <2>1, ClaimsOutlive
    <2>4. \A c \in clusters' : k \in c => known[k] \notin matched'
      BY <1>1, <1>3, <2>1, <2>2 DEF Waiting
    <2>5. k \notin Waiting' => known[k] \in matched'
      BY <1>1, <1>3, <2>1, <2>2
    <2>6. k \in cluster => k \in MembersOf(target')
      <3>1. ASSUME k \in cluster PROVE k \in MembersOf(target')
        <4>1. k \in Keys /\ owner[k] = target'
          BY <1>2, <2>1, <2>2, <3>1
        <4>2. MembersOf(target') = {j \in Keys : owner[j] = target'}
          BY <2>2 DEF MembersOf, StoreInv, Inverted
        <4> QED BY <4>1, <4>2
      <3> QED BY <3>1
    <2>7. ASSUME known[k] = target', NEW key \in challengers' PROVE ~SameCamera(k, key)
      <3>1. k \in cluster /\ key \in cluster /\ key # k
        BY <1>1, <2>2, <2>6, <2>7
      <3> QED BY <2>1, <3>1 DEF HasFirstClaim
    <2> QED BY <1>1, <2>1, <2>3, <2>4, <2>5, <2>6, <2>7
  <1>6. challengers' \cap Waiting' = {}
    BY <1>1, <1>3
  <1> QED BY <1>1, <1>4, <1>5, <1>6 DEF ClaimInv, Resting, FirstClaimHolds

(* A track is placed: only its owner changes, among those seen, and only     *)
(* the holder of its camera's place in the identity loses it.                *)
LEMMA PlacedKeepsClaims ==
    ASSUME StoreInv, AheadOfRegister, ClaimInv, NEW key \in challengers, Places(key),
           \A k \in observed \ {key} : owner'[k] = owner[k],
           \A m \in displaced' : m \in displaced \/ m \in Incumbents(key)
    PROVE  ClaimInv'
  <1>1. /\ pc = "placing" /\ pc' = pc /\ challengers' = challengers \ {key}
        /\ observed' = observed /\ clusters' = clusters /\ matched' = matched
        /\ target' = target /\ published' = published /\ entitled' = entitled
        /\ known' = known /\ issued' = issued
    BY DEF Places, history
  <1>2. /\ WaitingAsKnown /\ EntitledKeep /\ target \in matched /\ challengers \cap Waiting = {}
        /\ \A c \in clusters : c \subseteq observed
    BY <1>1 DEF ClaimInv, StoreInv, InstantConsistent
  <1>3. Waiting' = Waiting /\ \A k \in Waiting : owner'[k] = owner[k]
    BY <1>1, <1>2 DEF Waiting
  <1>4. WaitingAsKnown'
    BY <1>1, <1>2, <1>3 DEF WaitingAsKnown
  <1>5. EntitledKeep'
    <2> SUFFICES ASSUME NEW k \in entitled
                 PROVE  /\ k \in observed /\ known[k] \in Nat /\ owner'[k] = known[k]
                        /\ k \notin displaced'
                        /\ \A c \in clusters : k \in c =>
                               HasFirstClaim(c, k)' /\ known[k] \notin matched
                        /\ k \notin Waiting => known[k] \in matched
                        /\ k \notin challengers
                        /\ known[k] = target =>
                               \A j \in challengers : ~SameCamera(k, j)
      BY <1>1, <1>3 DEF EntitledKeep
    <2>1. /\ k \in observed /\ known[k] \in Nat /\ owner[k] = known[k] /\ k \notin displaced
          /\ \A c \in clusters : k \in c => HasFirstClaim(c, k) /\ known[k] \notin matched
          /\ k \notin Waiting => known[k] \in matched
          /\ k \notin challengers
          /\ known[k] = target => \A j \in challengers : ~SameCamera(k, j)
      BY <1>1, <1>2 DEF EntitledKeep
    <2>2. owner'[k] = known[k]
      BY <2>1
    <2>3. k \notin Incumbents(key)
      <3>1. ASSUME k \in Incumbents(key) PROVE FALSE
        <4>1. key \in Keys
          BY <1>1 DEF StoreInv, InstantConsistent, PlacingConsistent
        <4>2. owner[k] = target /\ SameCamera(k, key)
          BY <1>1, <3>1, <4>1, IncumbentIsOne DEF Incumbents
        <4> QED BY <2>1, <4>2
      <3> QED BY <3>1
    <2>4. \A c \in clusters : k \in c => HasFirstClaim(c, k)'
      BY <1>1, <2>1, ClaimsOutlive
    <2> QED BY <2>1, <2>2, <2>3, <2>4
  <1> QED BY <1>1, <1>2, <1>3, <1>4, <1>5 DEF ClaimInv, Resting, FirstClaimHolds

LEMMA PlacingKeepsClaims ==
    ASSUME StoreInv, AheadOfRegister, ClaimInv, NEW key \in challengers,
           \/ Join(key) \/ Defect(key) \/ Stay(key)
           \/ ReplaceStale(key) \/ WinPlace(key) \/ LosePlace(key)
    PROVE  ClaimInv'
  <1>1. Places(key)
    BY DEF Join, Defect, Stay, ReplaceStale, WinPlace, LosePlace
  <1>2. observed \subseteq Keys /\ \A k \in observed : lastSeen[k] = step
    BY <1>1 DEF Places, StoreInv, InstantConsistent
  <1>3. ASSUME NEW gone, NEW g, Rehome(gone, OneGrant(key, g)), gone \cap observed = {}
        PROVE  \A k \in observed \ {key} : owner'[k] = owner[k]
    BY <1>2, <1>3 DEF Rehome, OneGrant
  <1>4. CASE Join(key)
    <2>1. Rehome({}, OneGrant(key, target)) /\ displaced' = displaced
      BY <1>4 DEF Join
    <2> QED BY <1>1, <1>3, <2>1, PlacedKeepsClaims
  <1>5. CASE Defect(key)
    <2>1. Rehome({}, OneGrant(key, target)) /\ displaced' = displaced
      BY <1>5 DEF Defect
    <2> QED BY <1>1, <1>3, <2>1, PlacedKeepsClaims
  <1>6. CASE Stay(key)
    <2>1. owner' = owner /\ displaced' = displaced
      BY <1>6 DEF Stay, maps
    <2> QED BY <1>1, <2>1, PlacedKeepsClaims
  <1>7. CASE ReplaceStale(key)
    <2>1. PICK m : IsStale(m) /\ Rehome({m}, OneGrant(key, target))
      BY <1>7 DEF ReplaceStale
    <2>2. displaced' = displaced
      BY <1>7 DEF ReplaceStale
    <2>3. {m} \cap observed = {}
      <3>1. ~(step < step)
        BY DEF StoreInv, TypeOK
      <3> QED BY <1>2, <2>1, <3>1 DEF IsStale
    <2> QED BY <1>1, <1>3, <2>1, <2>2, <2>3, PlacedKeepsClaims
  <1>8. CASE WinPlace(key)
    <2>1. /\ Rehome({}, OneGrant(key, target))
          /\ \E m \in Incumbents(key) : displaced' = displaced \cup {m}
      BY <1>8 DEF WinPlace
    <2> QED BY <1>1, <1>3, <2>1, PlacedKeepsClaims
  <1>9. CASE LosePlace(key)
    <2>1. Rehome({}, OneGrant(key, counter)) /\ displaced' = displaced
      BY <1>9 DEF LosePlace
    <2> QED BY <1>1, <1>3, <2>1, PlacedKeepsClaims
  <1> QED BY <1>4, <1>5, <1>6, <1>7, <1>8, <1>9

(* The losers leave, each for an id nobody has.                              *)
LEMMA MoveLosersKeepsClaims ==
    ASSUME StoreInv, AheadOfRegister, ClaimInv, MoveLosers
    PROVE  ClaimInv'
  <1>1. /\ pc = "placing" /\ pc' = "grouping" /\ step' = step /\ observed' = observed
        /\ clusters' = clusters /\ matched' = matched /\ displaced' = {}
        /\ published' = published /\ entitled' = entitled /\ known' = known
        /\ issued' = issued /\ counter' = counter + Cardinality(Losers)
    BY DEF MoveLosers, history
  <1>2. PICK grant \in Fresh(Losers, counter) : Rehome({}, grant)
    BY DEF MoveLosers
  <1>3. /\ WaitingAsKnown /\ EntitledKeep /\ issued \in Nat /\ issued <= counter /\ counter \in Nat
        /\ \A c \in clusters : c \subseteq observed
    BY <1>1 DEF ClaimInv, StoreInv, InstantConsistent, AheadOfRegister, TypeOK
  <1>4. Losers \in SUBSET Tracked /\ observed \subseteq Keys /\ pc' \in Resting \cup Working
    BY <1>1, ObservedAreTracked DEF Losers, StoreInv, PlacingConsistent, Working
  <1>5. /\ \A k \in Losers : owner'[k] \in Nat /\ owner'[k] >= counter
        /\ \A k \in Keys \ Losers : owner'[k] = owner[k]
        /\ \A j, k \in Keys : j # k /\ owner'[j] = owner'[k] /\ owner'[j] # None =>
                  j \notin Losers /\ k \notin Losers
    BY <1>1, <1>2, <1>4, ApartKeepsStore
  <1>6. Waiting' = Waiting /\ Waiting \subseteq Keys
    BY <1>1, <1>3, <1>4 DEF Waiting
  <1>7. \A k \in Losers : owner[k] = target /\ target \in Nat /\ k \in displaced
    BY <1>1, NoneIsNoId DEF Losers, StoreInv, PlacingConsistent, Inverted, Owned, TypeOK
  <1>8. WaitingAsKnown'
    <2>1. \A c, d \in clusters' : c # d => c \cap d = {}
      BY <1>1, <1>3 DEF WaitingAsKnown
    <2>2. ASSUME NEW k \in Waiting, owner'[k] # known[k]
          PROVE  known[k] \in Nat /\ owner'[k] \in Nat /\ owner'[k] >= issued
      <3>1. CASE k \in Losers
        <4>1. known[k] \in Nat
          BY <1>3, <1>7, <2>2, <3>1 DEF WaitingAsKnown
        <4> QED BY <1>3, <1>5, <3>1, <4>1
      <3>2. CASE k \notin Losers
        BY <1>3, <1>5, <1>6, <2>2, <3>2 DEF WaitingAsKnown
      <3> QED BY <3>1, <3>2
    <2>3. ASSUME NEW j \in Waiting, NEW k \in Waiting, j # k, owner'[j] = owner'[k],
                 owner'[j] \in Nat
          PROVE  owner'[j] < issued
      <3>1. j \notin Losers /\ k \notin Losers
        BY <1>5, <1>6, <2>3, NoneIsNoId
      <3> QED BY <1>3, <1>5, <1>6, <2>3, <3>1 DEF WaitingAsKnown
    <2> QED BY <1>1, <1>6, <2>1, <2>2, <2>3 DEF WaitingAsKnown
  <1>9. EntitledKeep'
    <2> SUFFICES ASSUME NEW k \in entitled
                 PROVE  /\ k \in observed /\ known[k] \in Nat /\ owner'[k] = known[k]
                        /\ \A c \in clusters : k \in c =>
                               HasFirstClaim(c, k)' /\ known[k] \notin matched
                        /\ k \notin Waiting => known[k] \in matched
      BY <1>1, <1>6 DEF EntitledKeep
    <2>1. /\ k \in observed /\ known[k] \in Nat /\ owner[k] = known[k] /\ k \notin displaced
          /\ \A c \in clusters : k \in c => HasFirstClaim(c, k) /\ known[k] \notin matched
          /\ k \notin Waiting => known[k] \in matched
      BY <1>3 DEF EntitledKeep
    <2>2. owner'[k] = known[k]
      BY <1>4, <1>5, <1>7, <2>1
    <2>3. \A c \in clusters : k \in c => HasFirstClaim(c, k)'
      BY <1>1, <2>1, ClaimsOutlive
    <2> QED BY <2>1, <2>2, <2>3
  <1> QED BY <1>1, <1>8, <1>9 DEF ClaimInv, Resting, FirstClaimHolds

(* The answer: what every entitled track was known by.                       *)
LEMMA PublishKeepsClaims ==
    ASSUME StoreInv, ClaimInv, Publish
    PROVE  ClaimInv'
  <1>1. /\ pc = "grouping" /\ pc' = "ageing" /\ known' = known /\ issued' = issued
        /\ entitled' = entitled /\ displaced' = displaced
        /\ \E grant : published' = [k \in observed |-> IF k \in Owned THEN owner[k] ELSE grant[k]]
    BY DEF Publish, claim, history
  <1>2. EntitledKeep /\ observed \subseteq Keys
    BY <1>1 DEF ClaimInv, StoreInv, InstantConsistent
  <1>3. \A k \in entitled : published'[k] = known[k]
    BY <1>1, <1>2, NoneIsNoId DEF EntitledKeep, Owned
  <1> QED BY <1>1, <1>3 DEF ClaimInv, Resting, FirstClaimHolds

LEMMA EvictionKeepsClaims ==
    ASSUME StoreInv, StoreInv', ClaimInv, AgeOut \/ TrimTracks \/ TrimIdentities
    PROVE  ClaimInv'
  <1>1. CASE AgeOut \/ TrimTracks
    <2>1. /\ pc \in {"ageing", "trimming"} /\ pc' \in {"trimming", "capping"} /\ known' = known
          /\ issued' = issued /\ entitled' = entitled /\ published' = published
          /\ displaced' = displaced
      BY <1>1 DEF AgeOut, TrimTracks, call, claim, history
    <2> QED BY <2>1 DEF ClaimInv, Resting, FirstClaimHolds
  <1>2. CASE TrimIdentities
    <2>1. /\ pc = "capping" /\ pc' = "returned" /\ known' = owner' /\ issued' = counter
          /\ counter' = counter /\ displaced' = displaced
      BY <1>2 DEF TrimIdentities, call, claim
    <2>2. \A k \in Keys : owner'[k] \in Nat => owner'[k] < counter'
      BY NoneIsNoId DEF StoreInv, IdsIssued, Owned
    <2> QED BY <2>1, <2>2 DEF ClaimInv, Resting, FirstClaimHolds
  <1> QED BY <1>1, <1>2

LEMMA StepKeepsClaims ==
    StoreInv /\ StoreInv' /\ AheadOfRegister /\ ClaimInv /\ [Next]_vars => ClaimInv'
  <1> SUFFICES ASSUME StoreInv, StoreInv', AheadOfRegister, ClaimInv, [Next]_vars
               PROVE  ClaimInv'
    OBVIOUS
  <1>1. ASSUME NEW seen \in SUBSET Keys, NEW groups \in Clusterings[seen], Assign(seen, groups)
        PROVE  ClaimInv'
    BY <1>1, AssignKeepsClaims
  <1>2. ASSUME NEW recorded \in SUBSET Keys, AssignFails(recorded)
        PROVE  ClaimInv'
    <2>1. /\ pc \in Resting /\ pc' = "idle" /\ known' = known /\ issued' = issued
          /\ counter' = counter /\ displaced' = displaced
      BY <1>2 DEF AssignFails, claim
    <2> QED BY <2>1 DEF ClaimInv, Resting, FirstClaimHolds
  <1>3. CASE Resolve
    <2>1. ASSUME NEW cluster \in clusters,
                 LeaveCluster(cluster) \/ FoundIdentity(cluster)
          PROVE  ClaimInv'
      BY <2>1, UnclaimedKeepsClaims
    <2>2. ASSUME NEW cluster \in clusters, ClaimIdentity(cluster)
          PROVE  ClaimInv'
      BY <2>2, ClaimIdentityKeepsClaims
    <2>3. ASSUME NEW key \in challengers,
                 \/ Join(key) \/ Defect(key) \/ Stay(key)
                 \/ ReplaceStale(key) \/ WinPlace(key) \/ LosePlace(key)
          PROVE  ClaimInv'
      BY <2>3, PlacingKeepsClaims
    <2>4. CASE MoveLosers
      BY <2>4, MoveLosersKeepsClaims
    <2>5. CASE Publish
      BY <2>5, PublishKeepsClaims
    <2>6. CASE AgeOut \/ TrimTracks
      BY <2>6, EvictionKeepsClaims
    <2> QED BY <1>3, <2>1, <2>2, <2>3, <2>4, <2>5, <2>6 DEF Resolve
  <1>4. CASE TrimIdentities
    BY <1>4, EvictionKeepsClaims
  <1>5. CASE Reset
    <2>1. /\ pc \in Resting /\ pc' = "idle" /\ known' = [k \in Keys |-> None]
          /\ issued' = issued /\ counter' = counter /\ displaced' = displaced
      BY <1>5 DEF Reset, claim
    <2> QED BY <2>1, NoneIsNoId DEF ClaimInv, Resting, FirstClaimHolds
  <1>6. CASE UNCHANGED vars
    BY <1>6 DEF vars, maps, claim, call, history, ClaimInv, WaitingAsKnown, EntitledKeep,
                HasFirstClaim, SameKnown, Waiting, FirstClaimHolds
  <1> QED BY <1>1, <1>2, <1>3, <1>4, <1>5, <1>6 DEF Next

LEMMA InitClaims == Init => ClaimInv
  BY NoneIsNoId DEF Init, ClaimInv, Resting, FirstClaimHolds

(* However many clusters an instant has, whatever identities they want and   *)
(* whoever wins the contests they hold: the largest cluster with the most    *)
(* tracks of an identity gives it back to the tracks that brought it.        *)
THEOREM FirstClaimAlwaysHolds == Spec => []FirstClaimHolds
  <1>1. Init => StoreInv /\ AheadOfRegister /\ ClaimInv
    BY InitStore, InitAhead, InitClaims
  <1>2. StoreInv /\ AheadOfRegister /\ ClaimInv /\ [Next]_vars
            => StoreInv' /\ AheadOfRegister' /\ ClaimInv'
    BY StepKeepsStore, StepKeepsAhead, StepKeepsClaims
  <1>3. ClaimInv => FirstClaimHolds
    BY DEF ClaimInv
  <1>4. QED
    BY <1>1, <1>2, <1>3, PTL DEF Spec

================================================================================
