------------------------------- MODULE Association -------------------------------
(***************************************************************************)
(* csrc/shipvision/mot/association.cpp: the matching cascade, band after    *)
(* band of rows of increasing age, each band an optimal assignment on the   *)
(* columns the younger ones left, then a threshold.  The cascade of         *)
(* shipvision/mot/association/solver.py is the same around SciPy's solver;  *)
(* the other stages of every tracker are one band of it.  McByte            *)
(* (shipvision/mot/trackers/mcbyte) decides the pairs nothing else bids for *)
(* before a stage is solved.                                                *)
(*                                                                          *)
(* A solve is the code's shortest augmenting path, one iteration of its     *)
(* loops a step, over positions in the sub-problem (0 is its sentinel).     *)
(***************************************************************************)
EXTENDS Assignments, Sequences, SequencesExt

CONSTANTS MaxRows,     \* bound: tracks
          MaxColumns,  \* bound: detections
          Costs,       \* what a pair may cost
          MaxCost,     \* max_cost: a pair above it is no evidence
          Stride,      \* stride: ages in a band
          MaxDepth     \* max_depth: bands stop at this age

ASSUME CascadeAssumption ==
    /\ MaxRows \in Nat /\ MaxColumns \in Nat
    /\ Costs \subseteq Int /\ MaxCost \in Int
    /\ Stride \in Nat \ {0} /\ MaxDepth \in Nat

VARIABLES cost,        \* the matrix, by the caller's rows and columns
          offered,     \* the caller's columns
          ages,        \* time_since_update of each row
          locking,     \* lock_clear_matches, and there is a pair to lock
          start,       \* the youngest age of the band at hand
          band,        \* the rows of the band, in the caller's order
          remaining,   \* the columns left for it
          matches,     \* the pairs so far
          stage,          \* "lock", "band", "search", "flip", "settle" or "done"
          row, column, mate, path, shortest, visited, potentialRow, potentialColumn

problem == <<cost, offered, ages, locking>>
cascade == <<start, band, remaining, matches>>
solver == <<row, column, mate, path, shortest, visited, potentialRow, potentialColumn>>
association == <<problem, cascade, stage, solver>>

(* kInfinity: a way to a column is the set of its length, none is known yet. *)
NoWay == {}

AllRows == DOMAIN ages

(* A solve that is not running.                                              *)
Unsolved == /\ row = 0 /\ column = 0 /\ mate = <<>> /\ path = <<>> /\ shortest = <<>>
        /\ visited = {} /\ potentialRow = <<>> /\ potentialColumn = <<>>

Affordable(r, c) == cost[r][c] <= MaxCost

(* clear_matches: the only affordable candidate on both sides.               *)
ClearMatches ==
    {pair \in AllRows \X ToSet(offered) :
        /\ Affordable(pair[1], pair[2])
        /\ Cardinality({c \in ToSet(offered) : Affordable(pair[1], c)}) = 1
        /\ Cardinality({r \in AllRows : Affordable(r, pair[2])}) = 1}

(* A matrix with several bands is at most six pairs; a stage of McByte is    *)
(* one band, and without a clear pair it is the stage of every tracker.      *)
CascadeInit ==
    \E n \in 0 .. MaxRows, m \in 0 .. MaxColumns :
    /\ cost \in [1 .. n -> [1 .. m -> Costs]]
    /\ ages \in [1 .. n -> 0 .. MaxDepth]
    /\ n * m > 6 => \A r \in 1 .. n : ages[r] = 0
    /\ offered = [j \in 1 .. m |-> j] /\ remaining = offered
    /\ locking \in BOOLEAN
    /\ locking => ClearMatches # {} /\ \A r \in 1 .. n : ages[r] = 0
    /\ stage = IF locking THEN "lock" ELSE "band"
    /\ start = 0 /\ band = <<>> /\ matches = {}
    /\ Unsolved

MatchedRows == {pair[1] : pair \in matches}

(* Rows or columns in the caller's order, which numbers them.                *)
Listed(indices) ==
    CHOOSE list \in [1 .. Cardinality(indices) -> indices] :
        \A i, j \in DOMAIN list : i < j => list[i] < list[j]

(* What pairs leave of the rows or columns (side 1 or 2), in their order.    *)
Kept(indices, pairs, side) == Listed(indices \ {pair[side] : pair \in pairs})

(* reduce_problem: clear pairs are matched, and leave the problem.           *)
LockClearMatches ==
    /\ stage = "lock"
    /\ matches' = ClearMatches
    /\ remaining' = Kept(ToSet(remaining), ClearMatches, 2)
    /\ stage' = "band"
    /\ UNCHANGED <<problem, start, band, solver>>

(* The rows of the band that starts at an age, without the locked ones.      *)
BandAt(age) ==
    Kept({r \in AllRows : ages[r] >= age /\ ages[r] < age + Stride}, matches, 1)

(* The augmenting-path formulation needs as many columns as rows: a tall    *)
(* sub-problem is solved the other way round.                                *)
Transposed == Len(band) > Len(remaining)

SolverRows == IF Transposed THEN Len(remaining) ELSE Len(band)
SolverColumns == IF Transposed THEN Len(band) ELSE Len(remaining)

(* Position i, j of the solver as the caller's row and column.               *)
PairAt(i, j) == IF Transposed THEN <<band[j], remaining[i]>> ELSE <<band[i], remaining[j]>>

CostAt(i, j) == LET pair == PairAt(i, j) IN cost[pair[1]][pair[2]]

(* The loop's head: it ends, or skips a band nobody is in, or solves one.    *)
EndCascade ==
    /\ stage = "band"
    /\ \/ start >= Max({MaxDepth, 1}) \/ remaining = <<>>
       \/ Cardinality(MatchedRows) = Cardinality(AllRows)
    /\ stage' = "done"
    /\ UNCHANGED <<problem, cascade, solver>>

Open == /\ stage = "band" /\ start < Max({MaxDepth, 1}) /\ remaining # <<>>
        /\ Cardinality(MatchedRows) < Cardinality(AllRows)

SkipBand ==
    /\ Open /\ BandAt(start) = <<>>
    /\ start' = start + Stride
    /\ UNCHANGED <<problem, band, remaining, matches, stage, solver>>

(* solve_assignment up to its loop: no potentials, nobody has a mate.        *)
OpenBand ==
    /\ Open /\ BandAt(start) # <<>>
    /\ band' = BandAt(start)
    /\ LET n == Len(BandAt(start))
           wide == 0 .. Max({n, Len(remaining)})
           narrow == 0 .. Min({n, Len(remaining)})
       IN /\ potentialRow' = [i \in narrow |-> 0]
          /\ potentialColumn' = [j \in wide |-> 0]
          /\ mate' = [j \in wide |-> IF j = 0 THEN 1 ELSE 0]
          /\ path' = [j \in wide |-> 0]
          /\ shortest' = [j \in wide |-> NoWay]
    /\ row' = 1 /\ column' = 0 /\ visited' = {} /\ stage' = "search"
    /\ UNCHANGED <<problem, start, remaining, matches>>

(* What a pair costs beyond what its row and its column are worth.           *)
Reduced(i, j) == CostAt(i, j) - potentialRow[i] - potentialColumn[j]

(* Every row on the search tree is worth delta more.                         *)
Repriced(seen, delta) ==
    [i \in DOMAIN potentialRow |->
        potentialRow[i] + IF i \in {mate[j] : j \in seen} THEN delta ELSE 0]

(* Mutant of NextFree: the first free column, however far it is.             *)
NextFreeByOrder(free, way, delta) == Min(free)

(* The first free column that is no further than delta.                      *)
NextFree(free, way, delta) == Min({j \in free : way[j] = delta})

(* The search for a free column: the column at hand joins the tree, its row  *)
(* shortens the way to the others, and the nearest is next.                  *)
Search ==
    /\ stage = "search"
    /\ LET seen == visited \cup {column}
           current == mate[column]
           free == (1 .. SolverColumns) \ seen
           closer == {j \in free : \A length \in shortest[j] : Reduced(current, j) < length}
           way == [j \in free |-> IF j \in closer THEN Reduced(current, j)
                                  ELSE CHOOSE length \in shortest[j] : TRUE]
           delta == Min({way[j] : j \in free})
           next == NextFree(free, way, delta)
       IN /\ visited' = seen
          /\ path' = [j \in DOMAIN path |-> IF j \in closer THEN column ELSE path[j]]
          /\ shortest' = [j \in DOMAIN shortest |->
                             IF j \in free THEN {way[j] - delta} ELSE shortest[j]]
          /\ potentialRow' = Repriced(seen, delta)
          /\ potentialColumn' = [j \in DOMAIN potentialColumn |->
                                    potentialColumn[j] - IF j \in seen THEN delta ELSE 0]
          /\ column' = next
          /\ stage' = IF mate[next] = 0 THEN "flip" ELSE "search"
    /\ UNCHANGED <<problem, cascade, row, mate>>

(* One edge of the alternating path is flipped; at its root the next row is  *)
(* placed, or the solve is over.                                             *)
Flip ==
    /\ stage = "flip"
    /\ LET previous == path[column]
           flipped == [mate EXCEPT ![column] = mate[previous]]
       IN /\ column' = previous
          /\ IF previous # 0
             THEN mate' = flipped /\ UNCHANGED <<row, shortest, visited, stage>>
             ELSE IF row = SolverRows
             THEN mate' = flipped /\ stage' = "settle" /\ UNCHANGED <<row, shortest, visited>>
             ELSE /\ mate' = [flipped EXCEPT ![0] = row + 1]
                  /\ row' = row + 1
                  /\ shortest' = [j \in DOMAIN shortest |-> NoWay]
                  /\ visited' = {}
                  /\ stage' = "search"
    /\ UNCHANGED <<problem, cascade, path, potentialRow, potentialColumn>>

(* The solver's pairs, in the caller's rows and columns.                    *)
Assigned == {PairAt(mate[j], j) : j \in {c \in 1 .. SolverColumns : mate[c] # 0}}

(* associate: the threshold comes after the solve.                           *)
Evidence(pairs) == {pair \in pairs : Affordable(pair[1], pair[2])}

Settle ==
    /\ stage = "settle"
    /\ matches' = matches \cup Evidence(Assigned)
    /\ remaining' = Kept(ToSet(remaining), Evidence(Assigned), 2)
    /\ start' = start + Stride
    /\ band' = <<>>
    /\ stage' = "band"
    /\ row' = 0 /\ column' = 0 /\ mate' = <<>> /\ path' = <<>> /\ shortest' = <<>>
    /\ visited' = {} /\ potentialRow' = <<>> /\ potentialColumn' = <<>>
    /\ UNCHANGED problem

CascadeNext == LockClearMatches \/ EndCascade \/ SkipBand \/ OpenBand \/ Search \/ Flip \/ Settle

CascadeSpec == CascadeInit /\ [][CascadeNext]_association

------------------------------------------------------------------------------
(* The assignments of least total cost.                                      *)
Least(R, C) == Best([pair \in R \X C |-> -cost[pair[1]][pair[2]]], R, C)

(* The pairs above which no solve may trade: each is affordable, and shares  *)
(* neither its row nor its column with another that is.                      *)
WithoutRivals ==
    LET affordable == {pair \in AllRows \X ToSet(offered) : Affordable(pair[1], pair[2])}
    IN {p \in affordable : \A q \in affordable \ {p} : p[1] # q[1] /\ p[2] # q[2]}

(* solve_assignment returns an assignment of least total cost - the          *)
(* potentials stay feasible through every repricing and flip, also when the  *)
(* sub-problem is solved transposed - and "recently-seen tracks choose       *)
(* first" (solver.py, cascade_associate): in the caller's rows and columns,  *)
(* each band's matches are a least assignment on what the younger bands and  *)
(* the locked pairs left, without its pairs that cost too much; the rest of  *)
(* the columns is handed on, and rows beyond the depth get nothing.  Where   *)
(* McByte locks, no pair without rivals is traded away (mcbyte/tracker.py).  *)
BandsChooseInOrder ==
    /\ stage = "settle" => Assigned \in Least(ToSet(band), ToSet(remaining))
    /\ stage = "done" =>
       LET certain == IF locking THEN WithoutRivals ELSE {}
           Of(age) == {r \in AllRows : ages[r] \in age .. age + Stride - 1}
           Before(age) == {pair \in matches : ages[pair[1]] < age}
           Left(age) == ToSet(offered) \ {pair[2] : pair \in Before(age) \cup certain}
           Bidding(age) == Of(age) \ {pair[1] : pair \in certain}
           Chosen(age) == {pair \in matches : pair[1] \in Of(age)} \ certain
       IN /\ certain \subseteq matches
          /\ \A age \in {a \in 0 .. MaxDepth : a % Stride = 0} :
               IF age < Max({MaxDepth, 1})
               THEN \E way \in Least(Bidding(age), Left(age)) : Chosen(age) = Evidence(way)
               ELSE Chosen(age) = {}
          /\ ToSet(remaining) = ToSet(offered) \ {pair[2] : pair \in matches}
================================================================================
