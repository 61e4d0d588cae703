---------------------------- MODULE GlobalIdAssigner ----------------------------
(***************************************************************************)
(* shipvision/mtmc/identity.py: the instant's clusters of look-alike tracks *)
(* reconciled with the identities already known.  A cluster claims the      *)
(* identity it shares most tracks with, one track per camera: tracks of one *)
(* camera contest a place, a live track replaces one nobody saw, losers are *)
(* moved out last; then old tracks and identities are evicted.              *)
(*                                                                          *)
(* What is abstracted.  Appearance: whether a challenger looks more like an *)
(* identity than the holder of its camera's place does, or than its own     *)
(* identity, is either way.  The order of the observations inside an        *)
(* instant is any order.  The stored vectors come and go together with the  *)
(* hit counts and the last-seen stamps and have no variable of their own.   *)
(*                                                                          *)
(* Granularity.  One call runs at a time (its tracker holds a lock); inside *)
(* a call there is a step per cluster taken and per track placed, because   *)
(* each of them reads what the one before it left.                          *)
(***************************************************************************)
EXTENDS Integers, FiniteSets, Functions, FiniteSetsExt

CONSTANTS Keys,        \* the tracks, numbered in the order TrackKey sorts them
          Cameras,
          CameraOf,    \* track -> its camera
          None,        \* Python's None: no identity
          MaxAge, Capacity, MaxTracks,
          Unembedded,  \* whether a track without an embedding may reach `assign'
          MaxSteps     \* bound: how many instants are assigned

ASSUME KeysAssumption == Keys \subseteq Int /\ IsFiniteSet(Keys)
ASSUME CameraAssumption == CameraOf \in [Keys -> Cameras]
ASSUME LimitsAssumption == {MaxAge, Capacity, MaxTracks} \subseteq Nat \ {0}
ASSUME StepsAssumption == MaxSteps \in Nat
ASSUME FlagAssumption == Unembedded \in BOOLEAN
ASSUME NoneAssumption == None \notin Int

VARIABLES
    counter, step, members, owner, hits, lastSeen,
    pc,           \* where the call is; "idle" and "returned" between calls
    observed,     \* the tracks of this instant
    clusters,     \* its clusters not taken yet
    matched,      \* the identities this instant's clusters took
    target,       \* the identity being claimed
    challengers,  \* tracks of the cluster not placed yet (`non_overlap')
    displaced,    \* tracks that lost their place and have still to leave
    published,    \* what the call returns
    entitled,     \* history: tracks whose cluster has first claim on their identity
    known,        \* history: `owner' as the last finished call left it
    issued,       \* history: `counter' as the last finished call left it
    orphans       \* history: whether the call found stamps without an owner

maps == <<owner, members, hits, lastSeen>>
claim == <<target, challengers, displaced>>
call == <<observed, clusters, matched, claim, published>>
history == <<entitled, known, issued, orphans>>
vars == <<counter, step, maps, pc, call, history>>

Resting == {"idle", "returned"}
Working == {"grouping", "placing", "ageing", "trimming", "capping"}

(* `lastSeen' of a track the assigner does not know: instants start at 1.    *)
Unseen == 0

Live == DOMAIN members
MembersOf(g) == IF g \in Live THEN members[g] ELSE {}
Owned == {k \in Keys : owner[k] # None}
Tracked == {k \in Keys : lastSeen[k] # Unseen}
SameCamera(j, k) == CameraOf[j] = CameraOf[k]

Init ==
    /\ counter = 0
    /\ step = 0
    /\ members = <<>>
    /\ owner = [k \in Keys |-> None]
    /\ hits = [k \in Keys |-> 0]
    /\ lastSeen = [k \in Keys |-> Unseen]
    /\ pc = "idle"
    /\ observed = {}
    /\ clusters = {}
    /\ matched = {}
    /\ target = None
    /\ challengers = {}
    /\ displaced = {}
    /\ published = <<>>
    /\ entitled = {}
    /\ known = owner
    /\ issued = 0
    /\ orphans = FALSE

--------------------------------------------------------------------------------
(* Storage: _adopt, _move, _place, _detach and _forget                       *)

(* _detach: the keys leave the identity that owns them, and an identity that *)
(* empties is dropped.                                                       *)
Detached(keys) ==
    LET left(g) == {k \in members[g] : ~(k \in keys /\ owner[k] = g)}
    IN  [g \in {h \in Live : left(h) # {}} |-> left(g)]

(* _adopt: every key of `grant' is listed by the identity granted to it.     *)
Listed(lists, grant) ==
    [g \in DOMAIN lists \cup Range(grant) |->
        (IF g \in DOMAIN lists THEN lists[g] ELSE {}) \cup {k \in DOMAIN grant : grant[k] = g}]

(* The tracks `gone' are forgotten (_forget); those `grant' is a function    *)
(* over leave their identity, if they have one, for the one granted (_place).*)
Rehome(gone, grant) ==
    /\ members' = Listed(Detached(gone \cup DOMAIN grant), grant)
    /\ owner' = [k \in Keys |-> IF k \in gone THEN None
                                ELSE IF k \in DOMAIN grant THEN grant[k] ELSE owner[k]]
    /\ hits' = [k \in Keys |-> IF k \in gone THEN 0 ELSE hits[k]]
    /\ lastSeen' = [k \in Keys |-> IF k \in gone THEN Unseen ELSE lastSeen[k]]

(* One track is given the identity g (_place).                               *)
OneGrant(key, g) == [k \in {key} |-> g]

(* _issue, once per key: distinct ids never issued before, in any order.     *)
Fresh(keys, first) == Bijection(keys, first .. first + Cardinality(keys) - 1)

--------------------------------------------------------------------------------
(* The call starts                                                           *)

(* _observe: this instant's stamps and consecutive-hit counts.               *)
Observe(seen) ==
    /\ lastSeen' = [k \in Keys |-> IF k \in seen THEN step + 1 ELSE lastSeen[k]]
    /\ hits' = [k \in Keys |-> IF k \notin seen THEN hits[k]
                               ELSE IF lastSeen[k] = step THEN hits[k] + 1 ELSE 1]

(* _ordered_groups reads nothing of the labels but which are equal.          *)
Clusters(labels) == {{k \in DOMAIN labels : labels[k] = l} : l \in Range(labels)}
Clusterings == [seen \in SUBSET Keys |->
                   {Clusters(labels) : labels \in [seen -> 1 .. Cardinality(seen)]}]

Share(cluster, g) == Cardinality({k \in cluster : owner[k] = g})

(* The cluster shares most with g, no other cluster that shares with g is as *)
(* large, and it has one track per camera.                                   *)
FirstClaim(cluster, g, groups) ==
    /\ Share(cluster, g) > 0
    /\ \A h \in Live \ {g} : Share(cluster, h) < Share(cluster, g)
    /\ \A d \in groups \ {cluster} :
           Share(d, g) > 0 => Cardinality(d) < Cardinality(cluster)
    /\ \A j, k \in cluster : SameCamera(j, k) => j = k

(* assign, up to the first cluster.                                          *)
Assign(seen, groups) ==
    /\ pc \in Resting
    /\ step < MaxSteps
    /\ step' = step + 1
    /\ Observe(seen)
    /\ observed' = seen
    /\ clusters' = groups
    /\ matched' = {}
    /\ published' = <<>>
    /\ entitled' = {k \in seen \cap Owned :
                        \E c \in groups : k \in c /\ FirstClaim(c, owner[k], groups)}
    /\ orphans' = ~(Tracked \subseteq Owned \cup seen)
    /\ pc' = "grouping"
    /\ UNCHANGED <<counter, owner, members, claim, known, issued>>

(* assign, when _observe comes to a track without an embedding: it raises,   *)
(* and the instant and the tracks before that one stay recorded.             *)
AssignFails(recorded) ==
    /\ Unembedded
    /\ pc \in Resting
    /\ step < MaxSteps
    /\ recorded # Keys
    /\ step' = step + 1
    /\ Observe(recorded)
    /\ observed' = {}
    /\ published' = <<>>
    /\ entitled' = {}
    /\ orphans' = FALSE
    /\ pc' = "idle"
    /\ UNCHANGED <<counter, owner, members, clusters, matched, claim, known, issued>>

--------------------------------------------------------------------------------
(* One cluster: _assign_group                                                *)

(* _candidate_ids: the identities that share most with the cluster.          *)
Candidates(cluster) ==
    LET shared == {owner[k] : k \in cluster \cap Owned} \ matched
    IN  {g \in shared : \A h \in shared : Share(cluster, h) <= Share(cluster, g)}

(* _select_by_oldest: longest-confirmed member first, then the lowest id.    *)
Age(g) == Max({hits[k] : k \in MembersOf(g)} \cup {0})
SelectByOldest(ids) ==
    IF Cardinality(ids) = 1 THEN CHOOSE g \in ids : TRUE
    ELSE CHOOSE g \in ids : \A h \in ids : Age(h) < Age(g) \/ (Age(h) = Age(g) /\ g <= h)

(* Mutant of Largest: the clusters are taken in any order.                   *)
AnyOrder(groups) == groups

Largest(groups) == {c \in groups : \A d \in groups : Cardinality(d) <= Cardinality(c)}

(* No identity wants the cluster and every track of it has one: left alone.  *)
LeaveCluster(cluster) ==
    /\ pc = "grouping"
    /\ cluster \in Largest(clusters)
    /\ Candidates(cluster) = {}
    /\ cluster \subseteq Owned
    /\ clusters' = clusters \ {cluster}
    /\ UNCHANGED <<counter, step, maps, pc, observed, matched, claim, published, history>>

(* A roster holds the first track of each camera.                            *)
IsRoster(roster, fresh) ==
    /\ roster \subseteq fresh
    /\ \A k \in fresh : \E r \in roster : SameCamera(r, k)
    /\ \A j, k \in roster : SameCamera(j, k) => j = k

(* No identity wants the cluster: its tracks without one found a new one, a  *)
(* second track of a camera one of its own.                                  *)
FoundIdentity(cluster) ==
    /\ pc = "grouping"
    /\ cluster \in Largest(clusters)
    /\ Candidates(cluster) = {}
    /\ LET fresh == cluster \ Owned
       IN  /\ fresh # {}
           /\ \E roster \in SUBSET fresh :
                  /\ IsRoster(roster, fresh)
                  /\ \E own \in Fresh(fresh \ roster, counter + 1) :
                         Rehome({}, [k \in fresh |-> IF k \in roster THEN counter ELSE own[k]])
                  /\ counter' = counter + 1 + Cardinality(fresh \ roster)
    /\ matched' = matched \cup {counter}
    /\ clusters' = clusters \ {cluster}
    /\ UNCHANGED <<step, pc, observed, claim, published, history>>

(* An identity is claimed: the cluster's other tracks challenge for a place. *)
ClaimIdentity(cluster) ==
    /\ pc = "grouping"
    /\ cluster \in Largest(clusters)
    /\ Candidates(cluster) # {}
    /\ target' = SelectByOldest(Candidates(cluster))
    /\ matched' = matched \cup {target'}
    /\ challengers' = cluster \ MembersOf(target')
    /\ displaced' = {}
    /\ clusters' = clusters \ {cluster}
    /\ pc' = "placing"
    /\ UNCHANGED <<counter, step, maps, observed, published, history>>

(* Mutant of Incumbents: a challenger contests the track the cluster started *)
(* with, although that one has lost already.                                 *)
IncumbentsAtTheStart(key) ==
    LET all == {m \in MembersOf(target) : SameCamera(m, key)}
    IN  IF all \cap displaced # {} THEN all \cap displaced ELSE all

(* _member_from_camera: who holds the camera's place in the identity now.    *)
Incumbents(key) == {m \in MembersOf(target) : SameCamera(m, key) /\ m \notin displaced}

Vacant(key) == Incumbents(key) = {}
Places(key) == /\ pc = "placing"
               /\ key \in challengers
               /\ challengers' = challengers \ {key}
               /\ UNCHANGED <<step, pc, observed, clusters, matched, target, published, history>>

(* The place is vacant and the track has no identity.                        *)
Join(key) ==
    /\ Places(key)
    /\ Vacant(key) /\ owner[key] = None
    /\ Rehome({}, OneGrant(key, target))
    /\ UNCHANGED <<counter, displaced>>

(* The place is vacant and the track looks more like the target than like    *)
(* the rest of its identity (_resolve_between_identities).                   *)
Defect(key) ==
    /\ Places(key)
    /\ Vacant(key) /\ owner[key] # None
    /\ Rehome({}, OneGrant(key, target))
    /\ UNCHANGED <<counter, displaced>>

(* Or it does not, or it lost a contest and has an identity to stay with.    *)
Stay(key) ==
    /\ Places(key)
    /\ owner[key] # None
    /\ Vacant(key) \/ \E m \in Incumbents(key) : lastSeen[m] = step
    /\ UNCHANGED <<counter, maps, displaced>>

IsStale(m) == lastSeen[m] < step

(* The place is held by a track nobody has seen this instant: it goes.       *)
ReplaceStale(key) ==
    /\ Places(key)
    /\ \E m \in Incumbents(key) : IsStale(m) /\ Rehome({m}, OneGrant(key, target))
    /\ UNCHANGED <<counter, displaced>>

(* A contest won: the holder leaves later.                                   *)
WinPlace(key) ==
    /\ Places(key)
    /\ \E m \in Incumbents(key) : ~IsStale(m) /\ displaced' = displaced \cup {m}
    /\ Rehome({}, OneGrant(key, target))
    /\ UNCHANGED counter

(* A contest lost by a track without an identity: it gets one of its own.    *)
LosePlace(key) ==
    /\ Places(key)
    /\ owner[key] = None
    /\ \E m \in Incumbents(key) : ~IsStale(m)
    /\ Rehome({}, OneGrant(key, counter))
    /\ counter' = counter + 1
    /\ UNCHANGED displaced

Losers == {k \in displaced : owner[k] = target}

(* The cluster is done: the losers leave, each for an identity of its own.   *)
MoveLosers ==
    /\ pc = "placing"
    /\ challengers = {}
    /\ \E grant \in Fresh(Losers, counter) : Rehome({}, grant)
    /\ counter' = counter + Cardinality(Losers)
    /\ target' = None
    /\ displaced' = {}
    /\ pc' = "grouping"
    /\ UNCHANGED <<step, observed, clusters, matched, challengers, published, history>>

--------------------------------------------------------------------------------
(* The call ends                                                             *)

(* The answer is read off `owner'; a track without an identity is adopted.   *)
Publish ==
    /\ pc = "grouping"
    /\ clusters = {}
    /\ \E grant \in Fresh(observed \ Owned, counter) :
           /\ Rehome({}, grant)
           /\ published' = [k \in observed |-> IF k \in Owned THEN owner[k] ELSE grant[k]]
    /\ counter' = counter + Cardinality(observed \ Owned)
    /\ matched' = {}
    /\ pc' = "ageing"
    /\ UNCHANGED <<step, observed, clusters, claim, history>>

(* _evict, first part: tracks unseen for more than MaxAge instants.          *)
Stale == {k \in Tracked : lastSeen[k] < step - MaxAge}

AgeOut ==
    /\ pc = "ageing"
    /\ Rehome(Stale, <<>>)
    /\ pc' = "trimming"
    /\ UNCHANGED <<counter, step, call, history>>

(* The first n of a set in an order that is total on it.                     *)
FirstOf(n, S, Before(_, _)) ==
    CHOOSE T \in SUBSET S : Cardinality(T) = n /\ \A x \in T, y \in S \ T : Before(x, y)

(* Mutant of SeenBefore: the most recently seen track goes first.            *)
SeenAfter(j, k) == lastSeen[j] > lastSeen[k] \/ (lastSeen[j] = lastSeen[k] /\ j < k)

SeenBefore(j, k) == lastSeen[j] < lastSeen[k] \/ (lastSeen[j] = lastSeen[k] /\ j < k)

(* Second part: the tracks over the limit, the least recently seen of those  *)
(* with a last-seen stamp.                                                   *)
SurplusTracks ==
    IF Cardinality(Owned) > MaxTracks
    THEN FirstOf(Cardinality(Owned) - MaxTracks, Tracked, SeenBefore) ELSE {}

TrimTracks ==
    /\ pc = "trimming"
    /\ Rehome(SurplusTracks, <<>>)
    /\ pc' = "capping"
    /\ UNCHANGED <<counter, step, call, history>>

(* Third part: the identities over capacity, the one whose latest track is   *)
(* oldest first, and of equals the one issued last.                          *)
Recency(g) == Max({lastSeen[k] : k \in members[g]})

(* Mutant of UsedBefore: the identity used last goes first.                  *)
UsedAfter(g, h) == Recency(g) > Recency(h) \/ (Recency(g) = Recency(h) /\ g > h)

UsedBefore(g, h) == Recency(g) < Recency(h) \/ (Recency(g) = Recency(h) /\ g > h)

SurplusIdentities ==
    IF Cardinality(Live) > Capacity
    THEN FirstOf(Cardinality(Live) - Capacity, Live, UsedBefore) ELSE {}

(* And the call returns.                                                     *)
TrimIdentities ==
    /\ pc = "capping"
    /\ Rehome(UNION {members[g] : g \in SurplusIdentities}, <<>>)
    /\ known' = owner'
    /\ issued' = counter
    /\ pc' = "returned"
    /\ UNCHANGED <<counter, step, call, entitled, orphans>>

(* Mutant of Reset: the id space starts over.                                *)
ResetRewinding ==
    /\ pc \in Resting
    /\ members' = <<>>
    /\ owner' = [k \in Keys |-> None]
    /\ hits' = [k \in Keys |-> 0]
    /\ lastSeen' = [k \in Keys |-> Unseen]
    /\ counter' = 0
    /\ pc' = "idle"
    /\ observed' = {}
    /\ published' = <<>>
    /\ entitled' = {}
    /\ known' = owner'
    /\ issued' = 0
    /\ orphans' = FALSE
    /\ UNCHANGED <<step, clusters, matched, claim>>

(* reset: everybody is forgotten, the id counter and the clock go on.        *)
Reset ==
    /\ pc \in Resting
    /\ members' = <<>>
    /\ owner' = [k \in Keys |-> None]
    /\ hits' = [k \in Keys |-> 0]
    /\ lastSeen' = [k \in Keys |-> Unseen]
    /\ pc' = "idle"
    /\ observed' = {}
    /\ published' = <<>>
    /\ entitled' = {}
    /\ known' = owner'
    /\ orphans' = FALSE
    /\ UNCHANGED <<counter, step, clusters, matched, claim, issued>>
--------------------------------------------------------------------------------
(* Inside a call, up to its last step.                                       *)
Resolve ==
    \/ \E cluster \in clusters : LeaveCluster(cluster)
    \/ \E cluster \in clusters : FoundIdentity(cluster)
    \/ \E cluster \in clusters : ClaimIdentity(cluster)
    \/ \E key \in challengers : Join(key)
    \/ \E key \in challengers : Defect(key)
    \/ \E key \in challengers : Stay(key)
    \/ \E key \in challengers : ReplaceStale(key)
    \/ \E key \in challengers : WinPlace(key)
    \/ \E key \in challengers : LosePlace(key)
    \/ MoveLosers
    \/ Publish
    \/ AgeOut
    \/ TrimTracks

Next ==
    \/ \E seen \in SUBSET Keys : \E groups \in Clusterings[seen] : Assign(seen, groups)
    \/ \E recorded \in SUBSET Keys : AssignFails(recorded)
    \/ Resolve
    \/ TrimIdentities
    \/ Reset

Spec == Init /\ [][Next]_vars

--------------------------------------------------------------------------------
(* Properties                                                                *)

(* `_owner' and `_members' are one fact stored twice: a track is listed by   *)
(* the identity that owns it and by no other, no identity is empty, and a    *)
(* track with an identity has a last-seen instant, without which it could    *)
(* never be evicted; and an identity has one track per camera, whatever the  *)
(* clusters, where only a track that has lost its place may still be listed  *)
(* beside the one that won it (validate, in every state and not only after a *)
(* call).                                                                    *)
MapsAgree ==
    /\ \A k \in Keys, g \in Live : k \in members[g] <=> owner[k] = g
    /\ \A k \in Owned : owner[k] \in Live
    /\ \A g \in Live : members[g] # {}
    /\ Owned \subseteq Tracked
    /\ \A g \in Live : \A j, k \in members[g] :
           j # k /\ SameCamera(j, k) =>
               /\ pc = "placing" /\ g = target
               /\ j \in displaced \/ k \in displaced

(* "Largest clusters first": a cluster with first claim on an identity keeps *)
(* it for the tracks that brought it, whatever the other clusters of the     *)
(* instant do - nothing can steal an id from the group that carries it.      *)
FirstClaimHolds ==
    pc \in {"ageing", "trimming", "capping"} =>
        \A k \in entitled : published[k] = known[k]

(* validate: a stored feature without an owner is never left behind.         *)
NothingOrphaned == pc = "returned" => Tracked \subseteq Owned

(* Eviction keeps the limits and takes what was seen longest ago: when this  *)
(* instant's tracks and their identities fit, none of them is evicted,       *)
(* however many older ones have to go.  (The limit on tracks is not kept by  *)
(* a call that finds stamps without an owner, which a call that raised has   *)
(* left: they are trimmed in the place of tracks with one.)                  *)
SeenOnesStay ==
    pc = "returned" =>
        /\ Cardinality(Live) <= Capacity
        /\ orphans \/ Cardinality(Owned) <= MaxTracks
        /\ Cardinality(observed) <= MaxTracks /\ Cardinality(Range(published)) <= Capacity =>
               \A k \in observed : owner[k] = published[k]

(* What other components may rely on: IdentityRegister, of which the whole   *)
(* call is one step - the one in which it returns.                           *)
Register == INSTANCE IdentityRegister
    WITH owner <- known,
         answer <- IF pc = "returned" THEN published ELSE <<>>

ImplementsRegister == Register!Spec
================================================================================
