------------------------------ MODULE Assignments ------------------------------
(***************************************************************************)
(* What scipy.optimize.linear_sum_assignment promises its callers: an       *)
(* assignment of the smaller side whose total is best.  Which one of equals *)
(* it returns is its own affair, so the callers here may get any of them.   *)
(* A score is a function on the pairs of the two sides.                     *)
(***************************************************************************)
EXTENDS Integers, FiniteSets, FiniteSetsExt, Functions

(* Every way to give each member of the smaller side a partner of its own.   *)
Ways(R, C) ==
    IF Cardinality(R) <= Cardinality(C)
    THEN {{<<r, f[r]>> : r \in R} : f \in Injection(R, C)}
    ELSE {{<<f[c], c>> : c \in C} : f \in Injection(C, R)}

Worth(score, way) == SumFunction([pair \in way |-> score[pair]])

(* linear_sum_assignment(-score).                                            *)
Best(score, R, C) ==
    LET ways == Ways(R, C)
        most == Max({Worth(score, way) : way \in ways})
    IN {way \in ways : Worth(score, way) = most}
================================================================================
