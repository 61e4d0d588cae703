----------------------------- MODULE MCMtmcAndTools -----------------------------
(* A behaviour is one of the multi-camera tracker with its log               *)
(* (MCMTMCTracker), of the matching it hands an instant to, or of one of the *)
(* tools: the engine build, the tuning study, the evaluation.  These share   *)
(* nothing, and while one is at work the others stay at an initial state.    *)
EXTENDS MCMTMCTracker, CrossCameraMatching, EngineBuild, MCTuningStudy, Evaluation

MCTracks == 1 .. 4
MCSeenBy == <<"a", "a", "b", "c">>
MCCalibrations == [a |-> 1, b |-> 2, c |-> 0]
MCBatches == <<2, 1, 3>>

VARIABLE part

SomeScene == [matcher |-> "appearance", looks |-> [t \in Tracks |-> 0],
              feet |-> [t \in Tracks |-> Min(Feet)],
              sizes |-> [c \in {"a", "b"} |-> 1], bare |-> {}]
SomeDeployment == [overwrite |-> FALSE, int8 |-> FALSE, calibrate |-> FALSE,
                   cached |-> FALSE, timed |-> FALSE]

PartsInit ==
    /\ part \in {"tracker", "matching", "build", "study", "evaluation"}
    /\ LoggedInit /\ StudyInit /\ EvaluationInit
    /\ part # "matching" => scene = SomeScene
    /\ MatchingInit
    /\ part # "build" => deployment = SomeDeployment
    /\ BuildInit

Still(p) ==
    /\ p # "tracker" => UNCHANGED <<tracker, log>>
    /\ p # "matching" => UNCHANGED matching
    /\ p # "build" => UNCHANGED building
    /\ p # "study" => UNCHANGED study
    /\ p # "evaluation" => UNCHANGED evaluation

(* Only the tracker can never stop.                                          *)
PartsNext ==
    /\ UNCHANGED part
    /\ \/ part = "tracker" /\ LoggedNext
       \/ part = "matching" /\ MatchingNext
       \/ part = "build" /\ BuildNext
       \/ part = "study" /\ StudyNext
       \/ part = "evaluation" /\ EvaluationNext
       \/ part # "tracker" /\ UNCHANGED <<tracker, log, matching, building, study, evaluation>>
    /\ Still(part)

PartsSpec ==
    /\ PartsInit
    /\ [][PartsNext]_<<part, tracker, log, matching, building, study, evaluation>>
    /\ WF_building(part = "build" /\ Steps)
================================================================================
