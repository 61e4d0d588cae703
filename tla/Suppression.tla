------------------------------ MODULE Suppression ------------------------------
(***************************************************************************)
(* The decode of one image by shipvision/detection/heads/base.py and the    *)
(* non-maximum suppression of shipvision/imgproc/nms under it: proposals    *)
(* are admitted, suppressed class by class with one of five methods, sorted *)
(* and capped.  A direct call of ImageOps.nms, by the shared loop or by the *)
(* device's sweep, is one group and cuts the picks to its budget.           *)
(*                                                                          *)
(* A proposal is a box on a line with a class and a score.  Scores are      *)
(* integers, overlaps are in twentieths.                                    *)
(***************************************************************************)
EXTENDS Integers, Sequences, FiniteSets, FiniteSetsExt, Functions, SequencesExt

CONSTANTS Proposals,      \* bound: rows of the model's output
          BoxPlaces,      \* where a box may be
          Confidences,    \* what the model may say of one
          ConfThreshold,  \* conf_threshold of a head, score_threshold of a call
          IouThreshold,   \* iou_threshold, in twentieths
          Classes,        \* decoded class ids
          MinScoreSum,    \* min_score_sum, where a neighbour is asked for
          Budgets         \* max_detections of a head, max_output of a call

(* What is no probability is refused apart; a caller may ask for no result.  *)
ASSUME SuppressionAssumption ==
    /\ Proposals \in Nat /\ BoxPlaces \subseteq Int /\ Classes \subseteq Int
    /\ Confidences \subseteq Nat /\ Budgets \subseteq Nat
    /\ ConfThreshold \in Int /\ IouThreshold \in Int /\ MinScoreSum \in Int

VARIABLES request,     \* the rows and the parameters of the call
          waiting,   \* groups not begun
          pool,      \* the live rows of the group at hand -> working score
          picked,    \* <<row, score>>, in the order they were picked
          output,    \* what the caller gets
          decoding   \* "admit", "suppress", "done" or "refused"

suppression == <<request, waiting, pool, picked, output, decoding>>

Proposed == DOMAIN request.rows

Score(r) == request.rows[r].score

(* iou_matrix of two boxes three cells wide.                                 *)
Overlap(r, s) ==
    LET apart == request.rows[r].place - request.rows[s].place
    IN CASE apart = 0 -> 20 [] apart \in {-1, 1} -> 10 [] apart \in {-2, 2} -> 4 [] OTHER -> 0

(* The head with its grouping, and ImageOps.nms by either way.               *)
Callers == {"per_class", "agnostic", "shared", "device"}

Heads == {"per_class", "agnostic"}

(* METHODS                                                                   *)
Methods == {"none", "classic", "linear", "gauss", "neighborhood"}

(* Of the rest: only grouping looks at a class, only classic has a kernel,   *)
(* a head passes no neighbourhood.                                           *)
SuppressionInit ==
    /\ request \in [rows : [1 .. Proposals -> [place : BoxPlaces, class : Classes,
                                             score : Confidences]],
                  insane : {{}, {1}}, caller : Callers, method : Methods,
                  neighbors : {0, 1}, budget : Budgets]
    /\ \E r \in Proposed : request.rows[r].place = Min(BoxPlaces)   \* up to a shift of all
    /\ request.caller # "per_class" => \A r \in Proposed : request.rows[r].class = Min(Classes)
    /\ request.caller = "device" => request.method = "classic"
    /\ request.neighbors = 1 => request.method = "neighborhood" /\ request.caller = "shared"
    /\ request.insane # {} => request.caller = "agnostic" /\ request.method = "none"
    /\ waiting = {} /\ pool = <<>> /\ picked = <<>> /\ output = <<>> /\ decoding = "admit"

(* prepare, and the head before it: inclusive.                               *)
Admitted == {r \in Proposed : Score(r) >= ConfThreshold}

(* The groups of _suppress.                                                  *)
Groups ==
    IF request.caller = "per_class"
    THEN {{r \in Admitted : request.rows[r].class = c} : c \in {request.rows[r].class : r \in Admitted}}
    ELSE {Admitted} \ {{}}

(* _candidates up to its suppression: one admitted row with a confidence     *)
(* that is no probability or a class there is none of refuses the image.     *)
Admit ==
    /\ decoding = "admit"
    /\ IF request.insane \cap Admitted # {}
       THEN decoding' = "refused" /\ UNCHANGED waiting
       ELSE decoding' = "suppress" /\ waiting' = Groups
    /\ UNCHANGED <<request, pool, picked, output>>

ClassOf(group) == request.rows[Min(group)].class

NextGroup ==
    /\ decoding = "suppress" /\ request.caller # "device" /\ DOMAIN pool = {}
    /\ \E group \in waiting :
          /\ \A other \in waiting : ClassOf(group) <= ClassOf(other)
          /\ pool' = [r \in group |-> Score(r)]
          /\ waiting' = waiting \ {group}
    /\ UNCHANGED <<request, picked, output, decoding>>

(* The stable descending order of picks, and of the admitted.                *)
Better(a, b) == a[2] > b[2] \/ (a[2] = b[2] /\ a[1] < b[1])

Scored(r) == <<r, Score(r)>>

Before(r, s) == Better(Scored(r), Scored(s))

Ranked(picks) ==
    CHOOSE list \in [1 .. Cardinality(picks) -> picks] :
        \A i, j \in DOMAIN list : i < j => Better(list[i], list[j])

(* argmax of the working scores takes the first in that order.               *)
Foremost ==
    CHOOSE r \in DOMAIN pool : \A s \in DOMAIN pool \ {r} :
        pool[r] > pool[s] \/ (pool[r] = pool[s] /\ Before(r, s))

(* decay_weights, in twentieths.                                             *)
DecayWeight(overlap) ==
    CASE request.method = "linear" -> 20 - overlap
      [] request.method = "gauss" -> CASE overlap = 20 -> 3 [] overlap = 10 -> 12
                                     [] overlap = 4 -> 18 [] OTHER -> 20
      [] OTHER -> 0

(* Mutant of Punished: gauss acts above the threshold only, as linear does.  *)
PunishedAbove(r, s) == request.method # "none" /\ Overlap(r, s) > IouThreshold

(* Whether a pick acts on one of the rest: strictly above the threshold, and *)
(* everywhere for gauss.                                                     *)
Punished(r, s) ==
    \/ request.method = "gauss"
    \/ request.method # "none" /\ Overlap(r, s) > IouThreshold

Decayed(score, r, s) ==
    IF Punished(r, s) THEN (score * DecayWeight(Overlap(r, s))) \div 20 ELSE score

(* The test of neighborhood, over an anchor and what it consumes.            *)
AgreedOn(best, hit) ==
    request.neighbors = 1 =>
        /\ Cardinality(hit) >= 1
        /\ SumFunction([s \in hit \cup {best} |-> pool[s]]) >= MinScoreSum

(* greedy and neighborhood: the best is picked, what it overlaps is punished,*)
(* and what falls below the threshold or is worth nothing leaves.            *)
Pick ==
    /\ decoding = "suppress" /\ DOMAIN pool # {}
    /\ LET best == Foremost
           rest == DOMAIN pool \ {best}
           hit == {s \in rest : Punished(best, s)}
           after == [s \in rest |-> Decayed(pool[s], best, s)]
       IN /\ pool' = Restrict(after, {s \in rest :
                                s \in hit => after[s] >= ConfThreshold /\ after[s] > 0})
          /\ picked' = picked \o IF AgreedOn(best, hit) THEN <<<<best, pool[best]>>>> ELSE <<>>
    /\ UNCHANGED <<request, waiting, output, decoding>>

(* The sweep over the device's mask: rows in stable order, until the budget. *)
Swept(order) ==
    LET kept[i \in 0 .. Len(order)] ==
            IF i = 0 THEN <<>>
            ELSE IF Len(kept[i - 1]) < request.budget
                    /\ \A k \in ToSet(kept[i - 1]) : ~Punished(k[1], order[i][1])
            THEN Append(kept[i - 1], order[i])
            ELSE kept[i - 1]
    IN kept[Len(order)]

Sweep ==
    /\ decoding = "suppress" /\ request.caller = "device"
    /\ output' = Swept(Ranked({Scored(r) : r \in Admitted}))
    /\ waiting' = {} /\ decoding' = "done"
    /\ UNCHANGED <<request, pool, picked>>

(* A head sorts what its groups give before it cuts; a call only cuts.       *)
Capped(picks) ==
    SubSeq(IF request.caller \in Heads THEN Ranked(ToSet(picks)) ELSE picks,
           1, Min({request.budget, Len(picks)}))

Finish ==
    /\ decoding = "suppress" /\ request.caller # "device"
    /\ DOMAIN pool = {} /\ waiting = {}
    /\ output' = Capped(picked)
    /\ decoding' = "done"
    /\ UNCHANGED <<request, waiting, pool, picked>>

SuppressionNext == Admit \/ NextGroup \/ Pick \/ Sweep \/ Finish

SuppressionSpec == SuppressionInit /\ [][SuppressionNext]_suppression

------------------------------------------------------------------------------
(* Two rows one of which may suppress the other.                             *)
Rivals(r, s) ==
    /\ request.caller = "per_class" => request.rows[r].class = request.rows[s].class
    /\ Overlap(r, s) > IouThreshold

(* What suppression that removes keeps: the one set of admitted rows in      *)
(* which every row is kept unless a better kept one overlaps it.             *)
Anchors ==
    CHOOSE K \in SUBSET Admitted : \A r \in Admitted :
        r \in K <=> ~\E k \in K : Before(k, r) /\ Rivals(k, r)

(* The rows an anchor speaks for.                                            *)
Cluster(a) == {a} \cup {r \in Admitted \ Anchors :
                  /\ Rivals(a, r) /\ Before(a, r)
                  /\ \A b \in Anchors : Rivals(b, r) /\ Before(b, r) => b = a \/ Before(a, b)}

Hard ==
    CASE request.method = "none" -> Admitted
      [] request.neighbors = 1 ->
            {a \in Anchors : /\ Cardinality(Cluster(a)) > 1
                             /\ SumFunction([r \in Cluster(a) |-> Score(r)]) >= MinScoreSum}
      [] OTHER -> Anchors

(* Whether a soft method lets a pick decay a row's score: linear is the      *)
(* identity up to the threshold, gauss has none.                             *)
Acts(k, r) ==
    /\ request.caller = "per_class" => request.rows[k].class = request.rows[r].class
    /\ request.method = "gauss" \/ Overlap(k, r) > IouThreshold

(* What it makes of the score by and by: every such pick decays it once.     *)
Softened(picks, r) ==
    LET after[i \in 0 .. Len(picks)] ==
            IF i = 0 THEN Score(r)
            ELSE IF Acts(picks[i][1], r)
            THEN (after[i - 1] * DecayWeight(Overlap(picks[i][1], r))) \div 20
            ELSE after[i - 1]
    IN after

(* The picks before the row's own, and what they leave of its score.         *)
Earlier(picks, r) ==
    LET own == {i \in DOMAIN picks : picks[i][1] = r}
    IN IF own = {} THEN Len(picks) ELSE Min(own) - 1

SoftScore(picks, r) == Softened(picks, r)[Earlier(picks, r)]

Survives(picks, r) ==
    \/ \A i \in 1 .. Earlier(picks, r) : ~Acts(picks[i][1], r)
    \/ SoftScore(picks, r) >= Max({1, ConfThreshold})

(* All of the methods return what their paper or their definition says, in   *)
(* descending order of the score they return, by any route: nothing is lost  *)
(* or kept against it, the device's early stop cuts the same list at the     *)
(* same place, and a head's cap falls on the best of all its classes         *)
(* (suppress, nms_with_scores, _suppress).                                   *)
SurvivorsExplained ==
    decoding = "done" =>
    LET soft == request.method \in {"linear", "gauss"}
        all == IF request.caller = "device"
               THEN Ranked({Scored(r) : r \in Hard})
               ELSE picked
    IN /\ ToSet(all) = IF soft
                       THEN {<<r, SoftScore(all, r)>> : r \in {s \in Admitted : Survives(all, s)}}
                       ELSE {Scored(r) : r \in Hard}
       /\ \A i, j \in DOMAIN output : i < j => output[i][2] >= output[j][2]
       /\ Len(output) = Min({request.budget, Len(all)})
       /\ ToSet(output) \subseteq ToSet(all)
       /\ \A a \in ToSet(output), b \in ToSet(all) \ ToSet(output) :
             IF soft /\ request.caller \notin Heads THEN a[2] >= b[2] ELSE Better(a, b)
================================================================================
