------------------------------ MODULE TuningStudy ------------------------------
(***************************************************************************)
(* shipvision/tune: a study samples configurations of a tracker, threads    *)
(* score them case by case, and the trials may live in a storage that a     *)
(* later call of run_study resumes.  Optuna is external: what it suggests,  *)
(* when it prunes (with prune off, never) and when time is out is open.     *)
(*                                                                          *)
(* A configuration gives each keyword a number, thresholds in hundredths; a *)
(* space has ranges and constants.  The evaluation of a tracker is a module *)
(* of its own: here a configuration just has a worth.                       *)
(***************************************************************************)
EXTENDS Integers, Sequences, FiniteSets, Functions

CONSTANTS Jobs,          \* the threads of optimize
          Cases,         \* sequences a trial is scored on
          Spaces,        \* records: ranges, constants; the declared and a caller's
          TrialsPerCall, \* bound
          MaxRuns,      \* bound: run_study called with the same study name
          MaxCrashes     \* bound: processes that die

(* An objective over no sequences is refused; ranges and constants are of    *)
(* numbers.                                                                  *)
ASSUME TuningAssumption ==
    /\ Cases \in Nat \ {0}
    /\ \A space \in Spaces :
          /\ \A k \in DOMAIN space.ranges : Range(space.ranges[k]) \subseteq Int
          /\ \A k \in DOMAIN space.constants : space.constants[k] \in Int

VARIABLES trials,  \* of the study, in the order they were asked for
          opened,    \* the run_study at hand
          jobs,    \* Jobs -> the trial a thread is in, and how far
          report,  \* what the last call returned
          abandoned, \* history: the trials a process was in when it died
          runs, crashes

study == <<trials, opened, jobs, report, abandoned, runs, crashes>>

(* The trackers' own, of bytetrack.                                          *)
Shipped == [track |-> 60, low |-> 10]

Keywords == DOMAIN Shipped

(* What the ranges refuse: names the constructor does not take, no range at  *)
(* all, a collapsed one.                                                     *)
Acceptable(space) ==
    /\ DOMAIN space.ranges # {}
    /\ DOMAIN space.ranges \cup DOMAIN space.constants \subseteq Keywords
    /\ \A k \in DOMAIN space.ranges : space.ranges[k][1] < space.ranges[k][2]

(* What a sampler may suggest: the ends of a range stand for the rest.       *)
Suggestions(space) ==
    {s \in [DOMAIN space.ranges -> UNION {Range(r) : r \in Range(space.ranges)}] :
        \A k \in DOMAIN s : s[k] \in Range(space.ranges[k])}

(* The constants win, and the defaults of the tracker stand in for the rest. *)
Configured(sampled, constants) ==
    [k \in Keywords |-> IF k \in DOMAIN constants THEN constants[k]
                        ELSE IF k \in DOMAIN sampled THEN sampled[k] ELSE Shipped[k]]

(* The constructor of bytetrack.                                             *)
Rejected(config) == ~(config.low < config.track /\ config.track <= 100)

(* The score of a configuration, and whether a metric wants much or little:  *)
(* any two configurations differ.                                            *)
Value(config, direction) == direction * (1000 * config.track + config.low)

NoCall == [at |-> "none"]

(* A thread in no trial; at counts cases, and Cases + 1 is a tagged trial.    *)
AtRest == [j \in Jobs |-> [trial |-> 0, at |-> 0]]

StudyInit ==
    /\ trials = <<>> /\ jobs = AtRest /\ report = NoCall /\ opened = NoCall
    /\ abandoned = {} /\ runs = 0 /\ crashes = 0

(* run_study: a study in memory starts empty, one in a storage goes on.      *)
RunStudy ==
    /\ opened.at = "none" /\ runs < MaxRuns
    /\ \E space \in {s \in Spaces : Acceptable(s)}, direction \in {1, -1},
          stored \in BOOLEAN :
          /\ runs > 0 => stored /\ direction = report.direction
          /\ opened' = [at |-> "running", space |-> space, direction |-> direction,
                      stored |-> stored, left |-> TrialsPerCall, failed |-> FALSE]
          /\ report' = [at |-> "running", direction |-> direction]
    /\ runs' = runs + 1 /\ trials' = trials
    /\ UNCHANGED <<jobs, abandoned, crashes>>

(* A thread asks for a trial; suggest adds the constants, which the trial    *)
(* keeps as history only.                                                    *)
Ask(j) ==
    /\ opened.at = "running" /\ jobs[j].trial = 0 /\ opened.left > 0
    /\ \E sampled \in Suggestions(opened.space) :
          trials' = Append(trials, [sampled |-> sampled, invalid |-> FALSE, state |-> "running",
                                    config |-> Configured(sampled, opened.space.constants),
                                    constants |-> opened.space.constants])
    /\ jobs' = [jobs EXCEPT ![j] = [trial |-> Len(trials) + 1, at |-> 0]]
    /\ opened' = [opened EXCEPT !.left = @ - 1]
    /\ UNCHANGED <<report, abandoned, runs, crashes>>

Ended(j, state) ==
    /\ trials' = [trials EXCEPT ![jobs[j].trial].state = state]
    /\ jobs' = [jobs EXCEPT ![j] = AtRest[j]]

(* Objective.run, a case: a refused configuration is tagged before anything  *)
(* ran; after a case the pruner is asked, but for the first (warmup); the    *)
(* last completes the trial.                                                 *)
RunCase(j) ==
    /\ jobs[j].trial # 0 /\ jobs[j].at < Cases
    /\ LET trial == trials[jobs[j].trial]
       IN IF Rejected(trial.config)
          THEN /\ trials' = [trials EXCEPT ![jobs[j].trial].invalid = TRUE]
               /\ jobs' = [jobs EXCEPT ![j].at = Cases + 1]
          ELSE \/ /\ jobs' = [jobs EXCEPT ![j].at = @ + 1]
                  /\ UNCHANGED trials
               \/ /\ jobs[j].at > 0
                  /\ Ended(j, "pruned")
    /\ UNCHANGED <<opened, report, abandoned, runs, crashes>>

(* The trial returns its score, or, tagged, raises TrialPruned.              *)
Tell(j) ==
    /\ jobs[j].at >= Cases
    /\ Ended(j, IF jobs[j].at = Cases THEN "complete" ELSE "pruned")
    /\ UNCHANGED <<opened, report, abandoned, runs, crashes>>

(* Any other exception of a trial ends optimize.                             *)
Raise(j) ==
    /\ jobs[j].trial # 0 /\ jobs[j].at < Cases /\ crashes < MaxCrashes
    /\ ~Rejected(trials[jobs[j].trial].config)
    /\ Ended(j, "fail")
    /\ opened' = [opened EXCEPT !.left = 0, !.failed = TRUE]
    /\ crashes' = crashes + 1
    /\ UNCHANGED <<report, abandoned, runs>>

TimeOut ==
    /\ opened.at = "running" /\ opened.left > 0
    /\ opened' = [opened EXCEPT !.left = 0]
    /\ UNCHANGED <<trials, jobs, report, abandoned, runs, crashes>>

(* The process dies: what was running in the storage stays so.               *)
Die ==
    /\ opened.at = "running" /\ crashes < MaxCrashes
    /\ opened' = NoCall /\ jobs' = AtRest /\ crashes' = crashes + 1
    /\ IF opened.stored
       THEN /\ abandoned' = abandoned \cup {t \in DOMAIN trials : \E j \in Jobs : jobs[j].trial = t}
            /\ UNCHANGED <<trials, runs>>
       ELSE trials' = <<>> /\ abandoned' = {} /\ runs' = MaxRuns
    /\ report' = [at |-> "died", direction |-> opened.direction]

In(state) == {t \in DOMAIN trials : trials[t].state = state}

Tagged == {t \in DOMAIN trials : trials[t].invalid}

(* study.best_trial: the first of the best.                                  *)
BestTrial ==
    CHOOSE t \in In("complete") : \A u \in In("complete") :
        LET a == Value(trials[t].config, opened.direction)
            b == Value(trials[u].config, opened.direction)
        IN a > b \/ (a = b /\ t <= u)

(* Mutant of BestParameters: what Optuna was asked to suggest, alone.        *)
BestParametersSampled == Configured(trials[BestTrial].sampled, <<>>)

(* The sampled half of the best trial, and the constants of this call.      *)
BestParameters == Configured(trials[BestTrial].sampled, opened.space.constants)

(* The tail of run_study: no finding without a completed trial, and both the *)
(* shipped configuration and the best are scored anew.                       *)
Conclude ==
    /\ opened.at = "running" /\ opened.left = 0 /\ \A j \in Jobs : jobs[j].trial = 0
    /\ LET baseline == Configured(<<>>, opened.space.constants)
           pruned   == Cardinality(In("pruned")) - Cardinality(Tagged)
       IN report' = IF \/ opened.failed \/ In("complete") = {}
                       \/ Rejected(baseline) \/ Rejected(BestParameters)
                    THEN [at |-> "refused", direction |-> opened.direction]
                    ELSE [at |-> "result", direction |-> opened.direction, best |-> BestParameters,
                          baseline |-> baseline, trials |-> Cardinality(In("complete")),
                          pruned |-> IF pruned > 0 THEN pruned ELSE 0,
                          invalid |-> Cardinality(Tagged), constants |-> opened.space.constants]
    /\ opened' = NoCall
    /\ runs' = IF opened.stored THEN runs ELSE MaxRuns
    /\ UNCHANGED <<trials, jobs, abandoned, crashes>>

StudyNext ==
    \/ RunStudy \/ TimeOut \/ Die \/ Conclude
    \/ \E j \in Jobs : Ask(j) \/ RunCase(j) \/ Tell(j) \/ Raise(j)

StudySpec == StudyInit /\ [][StudyNext]_study

------------------------------------------------------------------------------
(* A result is about what ran, whichever call or thread ran it and whichever *)
(* process died: the best of the completed trials is reported, with the      *)
(* configuration it ran with wherever this call's constants do not decide;   *)
(* only the refused are tagged, and a tag on a trial that never ended is one *)
(* a dead process left; and of the trials the pruner stopped the tallies     *)
(* lose at most one for each such tag.                                       *)
ReportsWhatRan ==
    report.at = "result" =>
      LET left    == Tagged \ In("pruned")
          stopped == Cardinality(In("pruned") \ Tagged)
      IN /\ \E t \in In("complete") :
               /\ \A u \in In("complete") : Value(trials[u].config, report.direction)
                                              <= Value(trials[t].config, report.direction)
               /\ trials[t].constants = report.constants => report.best = trials[t].config
               /\ \A k \in Keywords \ (DOMAIN trials[t].constants \cup DOMAIN report.constants) :
                     report.best[k] = trials[t].config[k]
         /\ left \subseteq abandoned
         /\ report.trials = Cardinality(In("complete"))
         /\ report.invalid = Cardinality(Tagged \cap In("pruned")) + Cardinality(left)
         /\ report.pruned \in stopped - Cardinality(left) .. stopped

(* "The three tallies below always describe the same set": the pruned ones   *)
(* are the trials that were pruned without having been refused.              *)
TalliesDescribeTrials ==
    report.at = "result" => report.pruned = Cardinality(In("pruned") \ Tagged)
================================================================================
