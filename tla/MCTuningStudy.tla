------------------------------ MODULE MCTuningStudy ------------------------------
(* The spaces a study is run with: one of the ranges declared for bytetrack, *)
(* one that is refused, and one with a constant that refuses some samples.   *)
EXTENDS TuningStudy

MCSpaces == {[ranges |-> [track |-> <<30, 80>>], constants |-> <<>>],
             [ranges |-> [track |-> <<40, 40>>], constants |-> <<>>],
             [ranges |-> [low |-> <<20, 95>>], constants |-> [track |-> 40]]}
================================================================================
