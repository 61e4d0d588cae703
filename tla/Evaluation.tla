------------------------------- MODULE Evaluation -------------------------------
(***************************************************************************)
(* shipvision/eval: a tracker is run over annotated sequences (runner.py),  *)
(* each frame's predictions are cleared of those that landed on a           *)
(* distractor and lined up with the ground truth (association.py), CLEAR,   *)
(* identity and HOTA tallies are taken (metrics), and the tallies of the    *)
(* sequences are added.                                                     *)
(*                                                                          *)
(* A box is a place on a line.  IoU is counted in halves: 2 for the same    *)
(* place, 1 for neighbours, which is the threshold of 0.5 exactly.  The      *)
(* alignment of a frame depends on nothing before it, so the frames a case   *)
(* may bring are what alignment can make of any annotation and any output.   *)
(***************************************************************************)
EXTENDS Assignments, Sequences, SequencesExt

CONSTANTS Pedestrians,  \* annotated class 1 with conf 1: what is scored
          Distractors,  \* DISTRACTOR_CLASSES: they absorb a prediction
          Unscored,     \* the rest: occluders, vehicles, unmarked pedestrians
          Predictions,  \* identities a tracker gives
          BoxSpots,     \* where a box may be
          MaxFrames,    \* bound: frames of all the sequences
          MaxSequences, \* bound: sequences
          MaxBoxes      \* bound: boxes of all the frames, one less after each sequence

VARIABLES frames,    \* the frames aligned so far, with CLEAR's matches in each
          clear,     \* the state of clear_counts between two frames
          totals     \* the results of the sequences so far, combined

evaluation == <<frames, clear, totals>>

ASSUME EvaluationAssumption ==
    IsFiniteSet(Pedestrians) /\ IsFiniteSet(Predictions) /\ MaxBoxes \in Nat

Objects == Pedestrians \cup Distractors \cup Unscored

(* The sequence at hand.                                                     *)
Current == totals.sequences + 1

(* iou_similarity, in halves: the row is the ground truth.                   *)
Similarity(boxes, predicted) ==
    [pair \in (DOMAIN boxes) \X (DOMAIN predicted) |->
        LET a == boxes[pair[1]] b == predicted[pair[2]]
        IN IF a = b THEN 2 ELSE IF a - b \in {-1, 1} THEN 1 ELSE 0]

Threshold == 1

RowIds(score) == {pair[1] : pair \in DOMAIN score}
ColumnIds(score) == {pair[2] : pair \in DOMAIN score}

(* solve_maximum: the weak pairs are dropped after the solve.                *)
SolveMaximum(score) ==
    {{pair \in way : score[pair] > 0} : way \in Best(score, RowIds(score), ColumnIds(score))}

(* Mutant of Bonus: what a carried match is worth is not scaled to the frame *)
FlatBonus(similarity) == 1

(* "strictly more than the largest total IoU any assignment can reach".      *)
Bonus(similarity) ==
    2 * (1 + Min({Cardinality(RowIds(similarity)), Cardinality(ColumnIds(similarity))}))

(* What a pair is worth: nothing unless it is admissible, and more if it was *)
(* matched in the previous frame.                                            *)
Preference(similarity, previous) ==
    [pair \in DOMAIN similarity |->
        IF similarity[pair] < Threshold THEN 0
        ELSE similarity[pair] + IF pair[1] \in DOMAIN previous /\ previous[pair[1]] = pair[2]
                                 THEN Bonus(similarity) ELSE 0]

MatchPreferring(similarity, previous) == SolveMaximum(Preference(similarity, previous))

(* drop_predictions_matching: every annotated box competes, and only the     *)
(* predictions that fall to an ignored one are removed.                      *)
DropPredictionsMatching(predicted, ignored, competing) ==
    IF DOMAIN predicted = {} \/ DOMAIN ignored = {} THEN {predicted}
    ELSE LET similarity == Similarity(ignored @@ competing, predicted)
             score == [pair \in DOMAIN similarity |->
                          IF similarity[pair] >= Threshold THEN similarity[pair] ELSE 0]
             fallen(way) == {pair[2] : pair \in {p \in way : p[1] \in DOMAIN ignored}}
         IN {Restrict(predicted, DOMAIN predicted \ fallen(way)) : way \in SolveMaximum(score)}

(* The boxes of some identities in one frame: an ObjectFrame.                *)
ObjectFrames(ids) == UNION {[present -> BoxSpots] : present \in SUBSET ids}

(* load_ground_truth: the annotations of a frame by what they are for.       *)
Of(boxes, ids) == Restrict(boxes, DOMAIN boxes \cap ids)

(* align, for one frame.                                                     *)
Align(boxes, output) ==
    {[scored |-> DOMAIN boxes \cap Pedestrians,
      predicted |-> DOMAIN predicted,
      overlap |-> Similarity(Of(boxes, Pedestrians), predicted)] :
        predicted \in DropPredictionsMatching(output, Of(boxes, Distractors),
                                              Of(boxes, Pedestrians \cup Unscored))}

(* Every frame of an AlignedSequence, and the quiet one it does not store.   *)
AlignedFrames ==
    UNION {Align(boxes, output) : boxes \in ObjectFrames(Objects),
                                  output \in ObjectFrames(Predictions)}

FramesWithin ==
    [n \in 0 .. MaxBoxes |->
        {f \in AlignedFrames : Cardinality(f.scored) + Cardinality(f.predicted) <= n}]

------------------------------------------------------------------------------
(* clear_counts before the first frame, and what a fresh ClearCounts adds.   *)
NoTallies == [truePositives |-> 0, falsePositives |-> 0, falseNegatives |-> 0,
              idSwitches |-> 0, overlapSum |-> 0]

ClearStart == [tallies |-> NoTallies,
               appearances |-> <<>>, matches |-> <<>>, segments |-> <<>>,
               lastMatched |-> <<>>, matchedPrevious |-> <<>>]

(* A per-trajectory counter, zero for a trajectory not seen before.          *)
At(tally, id) == IF id \in DOMAIN tally THEN tally[id] ELSE 0

Counted(tally, ids) ==
    [id \in DOMAIN tally \cup ids |-> At(tally, id) + IF id \in ids THEN 1 ELSE 0]

(* Mutant of LastMatched: a trajectory not matched in this frame is          *)
(* forgotten.                                                                *)
OnlyThisFrame(c, mates) == mates

(* What a trajectory was matched to last, however long ago.                  *)
LastMatched(c, mates) == mates @@ c.lastMatched

(* One round of the loop of clear_counts, for a frame with something on both *)
(* sides.                                                                    *)
ClearFrame(c, frame, way) ==
    LET mates == [id \in {pair[1] : pair \in way} |-> (CHOOSE p \in way : p[1] = id)[2]]
        hit == DOMAIN mates
        switched == {id \in hit \cap DOMAIN c.lastMatched : c.lastMatched[id] # mates[id]}
        found == Cardinality(way)
    IN [tallies |->
          [truePositives |-> c.tallies.truePositives + found,
           falsePositives |-> c.tallies.falsePositives + Cardinality(frame.predicted) - found,
           falseNegatives |-> c.tallies.falseNegatives + Cardinality(frame.scored) - found,
           idSwitches |-> c.tallies.idSwitches + Cardinality(switched),
           overlapSum |-> c.tallies.overlapSum + Worth(frame.overlap, way)],
        appearances |-> Counted(c.appearances, frame.scored),
        matches |-> Counted(c.matches, hit),
        segments |-> Counted(c.segments, hit \ DOMAIN c.matchedPrevious),
        lastMatched |-> LastMatched(c, mates),
        matchedPrevious |-> mates]

(* A frame CLEAR matches; one that a side has nothing in leaves the          *)
(* preference alone.                                                         *)
TwoSided(frame) == frame.scored # {} /\ frame.predicted # {}

ClearOneSided(c, frame) ==
    [c EXCEPT !.tallies = [@ EXCEPT !.falsePositives = @ + Cardinality(frame.predicted),
                                    !.falseNegatives = @ + Cardinality(frame.scored)],
              !.appearances = Counted(@, frame.scored)]

(* The ids a frame's rows prefer: the columns of the previous frame.         *)
Preferred(c, frame) ==
    Restrict(c.matchedPrevious, frame.scored \cap DOMAIN c.matchedPrevious)

MostlyTracked(c) ==
    {id \in DOMAIN c.appearances : 10 * At(c.matches, id) > 8 * c.appearances[id]}
AtLeastPartly(c) ==
    {id \in DOMAIN c.appearances : 10 * At(c.matches, id) >= 2 * c.appearances[id]}

(* What clear_counts returns.                                                *)
ClearCounts(c, length) ==
    c.tallies @@
    [numFrames |-> length,
     numGtIds |-> Cardinality(DOMAIN c.appearances),
     mostlyTracked |-> Cardinality(MostlyTracked(c)),
     partlyTracked |-> Cardinality(AtLeastPartly(c)) - Cardinality(MostlyTracked(c)),
     mostlyLost |-> Cardinality(DOMAIN c.appearances \ AtLeastPartly(c)),
     fragmentations |-> SumFunction([id \in DOMAIN c.segments |-> Max({c.segments[id] - 1, 0})])]

------------------------------------------------------------------------------
(* What every metric reads: the frames of a sequence and its trajectories.   *)
Sides(aligned, side) == UNION {aligned[t][side] : t \in DOMAIN aligned}

Length(aligned, side, id) == Cardinality({t \in DOMAIN aligned : id \in aligned[t][side]})

Detections(aligned, side) ==
    SumFunction([t \in DOMAIN aligned |-> Cardinality(aligned[t][side])])

(* The frames in which both boxes of a pair are there.                       *)
Together(aligned, pair) == {t \in DOMAIN aligned : pair \in DOMAIN aligned[t].overlap}

TrajectoryPairs(aligned) == Sides(aligned, "scored") \X Sides(aligned, "predicted")

(* identity_counts: one matching of trajectories over the whole sequence.    *)
CoOccurrence(aligned) ==
    [pair \in TrajectoryPairs(aligned) |->
        Cardinality({t \in Together(aligned, pair) : aligned[t].overlap[pair] >= Threshold})]

IdentityTruePositives(aligned) ==
    Max({Worth(CoOccurrence(aligned), way) :
            way \in Ways(Sides(aligned, "scored"), Sides(aligned, "predicted"))})

IdentityCounts(aligned) ==
    LET true == IdentityTruePositives(aligned)
    IN [truePositives |-> true,
        falsePositives |-> Detections(aligned, "predicted") - true,
        falseNegatives |-> Detections(aligned, "scored") - true]

(* The same function, its values computed once (TLC).                        *)
Tabulated(f) == f @@ <<>>

(* Shares of a frame are sixtieths: a frame here has at most two a side.     *)
Sixty == 60

(* _global_alignment: how much the sequence agrees that two trajectories are *)
(* one object, in millionths.                                                *)
GlobalAlignment(aligned) ==
    LET Row(overlap, id) == SumFunction([p \in {q \in DOMAIN overlap : q[1] = id} |-> overlap[p]])
        Column(overlap, id) == SumFunction([p \in {q \in DOMAIN overlap : q[2] = id} |-> overlap[p]])
        Share(overlap, pair) ==
            LET rest == Row(overlap, pair[1]) + Column(overlap, pair[2]) - overlap[pair]
            IN IF rest = 0 THEN 0 ELSE (overlap[pair] * Sixty) \div rest
        potential == Tabulated([pair \in TrajectoryPairs(aligned) |->
                         SumFunction([t \in Together(aligned, pair) |-> Share(aligned[t].overlap, pair)])])
    IN [pair \in TrajectoryPairs(aligned) |->
           (potential[pair] * 1000000)
             \div (Sixty * (Length(aligned, "scored", pair[1]) + Length(aligned, "predicted", pair[2]))
                     - potential[pair])]

(* The matchings of one frame, alignment breaking its ties; two totals whose *)
(* difference is below the precision of the alignment count as equal.        *)
HotaMatchings(alignment, frame) ==
    LET score == Tabulated([pair \in DOMAIN frame.overlap |-> alignment[pair] * frame.overlap[pair]])
        ways == Ways(frame.scored, frame.predicted)
        most == Max({Worth(score, way) : way \in ways})
    IN {way \in ways : Worth(score, way) >= most - 8}

(* ALPHAS fall into those up to one half and those above.                    *)
Levels == {1, 2}

(* hota_counts, with a matching chosen for each frame: only the acceptance   *)
(* varies with the level.                                                    *)
HotaTallies(aligned, chosen) ==
    [level \in Levels |->
        LET accepted == Tabulated([t \in DOMAIN aligned |->
                                      {pair \in chosen[t] : aligned[t].overlap[pair] >= level}])
            true == SumFunction([t \in DOMAIN aligned |-> Cardinality(accepted[t])])
            count == Tabulated([pair \in TrajectoryPairs(aligned) |->
                                   Cardinality({t \in DOMAIN aligned : pair \in accepted[t]})])
            gt(pair) == Length(aligned, "scored", pair[1])
            pred(pair) == Length(aligned, "predicted", pair[2])
            Weighed(Total(_)) ==
                SumFunction([pair \in TrajectoryPairs(aligned) |->
                                (count[pair] * count[pair] * Sixty) \div Max({1, Total(pair)})])
        IN [truePositives |-> true,
            falseNegatives |-> Detections(aligned, "scored") - true,
            falsePositives |-> Detections(aligned, "predicted") - true,
            association |-> Weighed(LAMBDA pair : gt(pair) + pred(pair) - count[pair]),
            associationRecall |-> Weighed(gt),
            associationPrecision |-> Weighed(pred),
            overlap |-> SumFunction([t \in DOMAIN aligned |->
                                        Worth(aligned[t].overlap, accepted[t])])]]

(* Every result of hota_counts: the solver chooses among equals.             *)
HotaCounts(aligned) ==
    LET alignment == Tabulated(GlobalAlignment(aligned))
        matchings == Tabulated([t \in DOMAIN aligned |-> HotaMatchings(alignment, aligned[t])])
    IN {HotaTallies(aligned, chosen) :
          chosen \in {c \in [DOMAIN aligned -> UNION {matchings[t] : t \in DOMAIN aligned}] :
                        \A t \in DOMAIN aligned : c[t] \in matchings[t]}}

------------------------------------------------------------------------------
NoHota == [level \in Levels |->
             [truePositives |-> 0, falseNegatives |-> 0, falsePositives |-> 0, association |-> 0,
              associationRecall |-> 0, associationPrecision |-> 0, overlap |-> 0]]

NoResult == [clear |-> ClearCounts(ClearStart, 0),
             identity |-> [truePositives |-> 0, falsePositives |-> 0, falseNegatives |-> 0],
             hota |-> NoHota]

(* __add__ of the tallies.                                                   *)
Plus(a, b) == [name \in DOMAIN a |-> a[name] + b[name]]

(* combine: SequenceResult.__add__, one result after the other.              *)
Combined(a, b) ==
    [clear |-> Plus(a.clear, b.clear),
     identity |-> Plus(a.identity, b.identity),
     hota |-> [level \in Levels |-> Plus(a.hota[level], b.hota[level])]]

EvaluationInit == /\ frames = <<>> /\ clear = [state |-> ClearStart, length |-> 0]
                  /\ totals = [sequences |-> 0, result |-> NoResult]

(* Ids are numbers, and a sequence numbers its own in the order they appear. *)
NumberedInOrder(appeared, ids) == \A i \in appeared, j \in ids : j < i => j \in appeared

(* A frame that has something is kept, with what CLEAR matched in it.        *)
Store(frame, matches, state) ==
    /\ frames' = Append(frames, [sequence |-> Current, scored |-> frame.scored,
                                 predicted |-> frame.predicted, overlap |-> frame.overlap,
                                 matches |-> matches])
    /\ clear' = [state |-> state, length |-> clear.length + 1]

(* A frame of the case: what of the tracker's output is left once the        *)
(* distractors took theirs, and the round of clear_counts it makes.          *)
EvaluateFrame ==
    /\ Current <= MaxSequences
    /\ totals.result.clear.numFrames + clear.length < MaxFrames
    /\ LET aligned == SelectSeq(frames, LAMBDA f : f.sequence = Current)
           left == MaxBoxes - totals.sequences
                     - Detections(frames, "scored") - Detections(frames, "predicted")
           already == [side \in {"scored", "predicted"} |-> Sides(aligned, side)]
       IN /\ left >= 0
          /\ \E frame \in FramesWithin[left] :
             /\ NumberedInOrder(already.scored \cup frame.scored, Pedestrians)
             /\ NumberedInOrder(already.predicted \cup frame.predicted, Predictions)
             /\ IF frame.scored = {} /\ frame.predicted = {}
                THEN clear' = [clear EXCEPT !.length = @ + 1] /\ UNCHANGED frames
                ELSE IF ~ TwoSided(frame) THEN Store(frame, {}, ClearOneSided(clear.state, frame))
                ELSE \E way \in MatchPreferring(frame.overlap, Preferred(clear.state, frame)) :
                        Store(frame, way, ClearFrame(clear.state, frame, way))
    /\ UNCHANGED totals

(* The sequence is over: score, and its result joins the others'.            *)
EndSequence ==
    /\ clear.length > 0
    /\ LET aligned == SelectSeq(frames, LAMBDA f : f.sequence = Current)
       IN \E hota \in HotaCounts(aligned) :
          totals' = [sequences |-> Current,
                     result |-> Combined(totals.result,
                         [clear |-> ClearCounts(clear.state, clear.length),
                          identity |-> IdentityCounts(aligned), hota |-> hota])]
    /\ clear' = [state |-> ClearStart, length |-> 0]
    /\ UNCHANGED frames

EvaluationNext == EvaluateFrame \/ EndSequence

EvaluationSpec == EvaluationInit /\ [][EvaluationNext]_evaluation

------------------------------------------------------------------------------
Admissible(frame) == {pair \in DOMAIN frame.overlap : frame.overlap[pair] >= Threshold}

(* u is the last frame before t in which there was something to match.       *)
Precedes(u, t) ==
    /\ u < t /\ frames[u].sequence = frames[t].sequence /\ TwoSided(frames[u])
    /\ \A v \in u + 1 .. t - 1 : ~ TwoSided(frames[v])

(* A match that is still admissible in the next frame with something on both *)
(* sides is kept there, whatever a swap would gain in overlap ("prefer"      *)
(* being absolute, match_preferring), and no admissible pair is left with    *)
(* both of its sides free.                                                   *)
MatchesPersist ==
    \A t \in DOMAIN frames : TwoSided(frames[t]) =>
        /\ \A u \in DOMAIN frames : Precedes(u, t) =>
              frames[u].matches \cap Admissible(frames[t]) \subseteq frames[t].matches
        /\ \A pair \in Admissible(frames[t]) :
              \E match \in frames[t].matches : match[1] = pair[1] \/ match[2] = pair[2]

(* The sequences one after the other, nobody of one being in the other.      *)
Concatenated ==
    LET Named(f, ids) == {<<f.sequence, id>> : id \in ids}
        Renamed(f, pairs) == {<<<<f.sequence, p[1]>>, <<f.sequence, p[2]>>>> : p \in pairs}
    IN [t \in DOMAIN frames |->
          LET f == frames[t]
          IN [scored |-> Named(f, f.scored), predicted |-> Named(f, f.predicted),
              matches |-> Renamed(f, f.matches),
              overlap |-> [pair \in Renamed(f, DOMAIN f.overlap) |->
                              f.overlap[<<pair[1][2], pair[2][2]>>]]]]

(* The prediction a trajectory was matched to last before a frame.           *)
Earlier(whole, t, id) ==
    LET times == {u \in 1 .. t - 1 : \E pair \in whole[u].matches : pair[1] = id}
    IN {pair[2] : pair \in UNION {{p \in whole[u].matches : p[1] = id /\ u = Max(times)} : u \in times}}

(* The tallies as their documentation words them, over a whole history; but  *)
(* of the fragmentations, where the code does otherwise: only frames with    *)
(* objects and published boxes can interrupt a trajectory (an early exit).   *)
ClearByHistory(whole) ==
    LET ids == Sides(whole, "scored")
        two == SelectSeq(whole, TwoSided)
        All == {<<t, pair>> : t \in DOMAIN whole, pair \in UNION {whole[t].matches : t \in DOMAIN whole}}
        Matched == {m \in All : m[2] \in whole[m[1]].matches}
        Frames(id) == {t \in DOMAIN two : \E pair \in two[t].matches : pair[1] = id}
        Found(id) == 10 * Cardinality(Frames(id))
        Resumed(id) == {t \in Frames(id) : t - 1 \notin Frames(id)}
    IN [truePositives |-> Cardinality(Matched),
        falsePositives |-> Detections(whole, "predicted") - Cardinality(Matched),
        falseNegatives |-> Detections(whole, "scored") - Cardinality(Matched),
        idSwitches |-> Cardinality({m \in Matched :
                           \E other \in Earlier(whole, m[1], m[2][1]) : other # m[2][2]}),
        overlapSum |-> SumFunction([m \in Matched |-> whole[m[1]].overlap[m[2]]]),
        numGtIds |-> Cardinality(ids),
        mostlyTracked |-> Cardinality({id \in ids : Found(id) > 8 * Length(whole, "scored", id)}),
        partlyTracked |-> Cardinality({id \in ids : /\ Found(id) <= 8 * Length(whole, "scored", id)
                                                    /\ Found(id) >= 2 * Length(whole, "scored", id)}),
        mostlyLost |-> Cardinality({id \in ids : Found(id) < 2 * Length(whole, "scored", id)}),
        fragmentations |-> SumFunction([id \in ids |-> Max({0, Cardinality(Resumed(id)) - 1})])]

(* The fewest identity errors any one-to-one pairing of trajectories, whole  *)
(* or partial, can leave.                                                    *)
FewestIdentityErrors(whole) ==
    LET co == CoOccurrence(whole)
        all == Detections(whole, "scored") + Detections(whole, "predicted")
        pairings == {m \in SUBSET {pair \in TrajectoryPairs(whole) : co[pair] > 0} :
                        \A p, q \in m : p # q => p[1] # q[1] /\ p[2] # q[2]}
    IN Min({all - 2 * Worth(co, m) : m \in pairings})

(* Adding the tallies of sequences is scoring them as one, in what combine   *)
(* and SequenceResult.__add__ say of it: the switches counted against the    *)
(* last match ever, the trajectory rates, the identity errors of the best    *)
(* global pairing, and the association terms of HOTA weighed by detection.   *)
CombiningIsConcatenating ==
    clear.length = 0 =>
    LET whole == Concatenated
        sum == totals.result
        byHistory == ClearByHistory(whole)
    IN /\ \A tally \in DOMAIN byHistory : sum.clear[tally] = byHistory[tally]
       /\ sum.identity.falsePositives + sum.identity.falseNegatives
            = FewestIdentityErrors(whole)
       /\ sum.identity.truePositives + sum.identity.falseNegatives
            = Detections(whole, "scored")
       /\ sum.hota \in HotaCounts(whole)
================================================================================
