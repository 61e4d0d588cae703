------------------------------ MODULE EngineBuild ------------------------------
(***************************************************************************)
(* shipvision/detection/engine_build.py with the calibration it drives      *)
(* (backends/tensorrt/calibration.py): an ONNX becomes an engine file, by   *)
(* way of a calibration cache and a timing cache that outlive the process.  *)
(* A write truncates its file first and nothing is renamed into place, so a *)
(* process that dies inside of one leaves an empty file or a part.          *)
(*                                                                          *)
(* A network is a number, the export it came from; so are scales, which     *)
(* belong to one.  The builder and the parser are external: either may      *)
(* fail.                                                                    *)
(***************************************************************************)
EXTENDS Integers, Sequences, FiniteSets, FiniteSetsExt, SequencesExt

CONSTANTS MaxExports,    \* bound: networks the operator exports
          MaxFaults,     \* bound: builds that die or that a library refuses
          BatchSize,     \* batch_shape[0] of the calibration
          SourceBatches, \* the calibration set: images in each of its batches
          Limit          \* of the feeder

(* The feeder refuses another shape and another limit, and a batch of no     *)
(* images; that there is a batch at all is up to the caller.                 *)
ASSUME CalibrationAssumption ==
    /\ BatchSize \in Nat \ {0} /\ Limit \in Nat \ {0}
    /\ SourceBatches \in Seq(Nat \ {0}) /\ SourceBatches # <<>>

VARIABLES deployment, \* the arguments its builds are called with
          onnx,       \* the network in the ONNX
          files,      \* the engine, the calibration cache and the timing cache
          build,      \* how far the call at hand is, and what it has
          fed,        \* images the calibrator has shown the builder, <<batch, image>>
          served,     \* batches of the feeder
          faults

building == <<deployment, onnx, files, build, fed, served, faults>>

File(state, net, scales) == [state |-> state, net |-> net, scales |-> scales]

Absent == File("absent", 0, {})

Empty == File("empty", 0, {})

(* What a write that was cut off leaves: nothing, or the first of it.        *)
Torn(net, scales) == {Empty, File("part", net, scales \cap {<<net, <<1, 1>>>>})}

Idle == [at |-> "idle", net |-> 0, scales |-> {}]

(* int8_calibration without int8 is refused before anything else.            *)
BuildInit ==
    /\ deployment \in [overwrite : BOOLEAN, int8 : BOOLEAN, calibrate : BOOLEAN,
                       cached : BOOLEAN, timed : BOOLEAN]
    /\ deployment.cached => deployment.calibrate
    /\ deployment.calibrate => deployment.int8
    /\ onnx = 1
    /\ files = [f \in {"engine", "scales", "timings"} |-> Absent]
    /\ build = Idle /\ fed = {} /\ served = 0 /\ faults = 0

(* The operator exports again, and invalidates the calibration cache.        *)
Export ==
    /\ build.at = "idle" /\ onnx < MaxExports
    /\ onnx' = onnx + 1
    /\ files' = [files EXCEPT !["scales"] = Absent]
    /\ UNCHANGED <<deployment, build, fed, served, faults>>

(* Mutant of MayWrite: an engine that is there is never replaced.            *)
MayWriteOnce == files["engine"].state = "absent"

(* The refusal to overwrite; an engine cut off is there like any other.      *)
MayWrite == deployment.overwrite \/ files["engine"].state = "absent"

(* build_engine with a feeder of its own, up to the builder: it parses,      *)
(* applies precision and profiles and loads the timing cache.                *)
Start ==
    /\ build.at = "idle" /\ MayWrite
    /\ files["engine"] # File("whole", onnx, files["engine"].scales)
    /\ build' = [at |-> IF deployment.calibrate THEN "calibrate" ELSE "tactics",
                 net |-> onnx, scales |-> {}]
    /\ fed' = {} /\ served' = 0
    /\ UNCHANGED <<deployment, onnx, files, faults>>

(* Mutant of CacheHit: a file that is there is a hit.                        *)
CacheHitOnEmpty == files["scales"].state # "absent"

(* CalibrationCache.read: an interrupted write left nothing, or a part.      *)
CacheHit == files["scales"].state \in {"whole", "part"}

ReadCache ==
    /\ build.at = "calibrate" /\ served = 0
    /\ deployment.cached /\ CacheHit
    /\ build' = [build EXCEPT !.at = "tactics", !.scales = files["scales"].scales]
    /\ UNCHANGED <<deployment, onnx, files, fed, served, faults>>

(* next_batch: a short batch is filled by repeating its own images, a long   *)
(* one is cut.                                                               *)
NextBatch(images) == [i \in 1 .. BatchSize |-> ((i - 1) % images) + 1]

(* get_batch, until the limit or the end of the source.                      *)
Feed ==
    /\ build.at = "calibrate" /\ (served = 0 => ~(deployment.cached /\ CacheHit))
    /\ served < Min({Limit, Len(SourceBatches)})
    /\ served' = served + 1
    /\ fed' = fed \cup {<<served', i>> : i \in Range(NextBatch(SourceBatches[served']))}
    /\ UNCHANGED <<deployment, onnx, files, build, faults>>

(* write_calibration_cache, if there is one.                                 *)
CacheScales ==
    /\ build.at = "calibrate" /\ served = Min({Limit, Len(SourceBatches)})
    /\ build' = [build EXCEPT !.scales = {build.net} \X fed,
                              !.at = IF deployment.cached THEN "scales" ELSE "tactics"]
    /\ files' = IF deployment.cached THEN [files EXCEPT !["scales"] = Empty] ELSE files
    /\ UNCHANGED <<deployment, onnx, fed, served, faults>>

(* build_serialized_network gave a plan; the caches are written before it.   *)
Tactics ==
    /\ build.at = "tactics"
    /\ LET next == IF deployment.timed THEN "timings" ELSE "engine"
       IN build' = [build EXCEPT !.at = next] /\ files' = [files EXCEPT ![next] = Empty]
    /\ UNCHANGED <<deployment, onnx, fed, served, faults>>

(* A file that was opened, and so is empty, is written to the end.           *)
Write ==
    /\ build.at \in {"scales", "timings", "engine"}
    /\ LET next == CASE build.at = "scales" -> "tactics" [] build.at = "timings" -> "engine"
                     [] OTHER -> "idle"
           whole == [files EXCEPT ![build.at] = File("whole", build.net, build.scales)]
       IN /\ files' = IF next = "engine" THEN [whole EXCEPT !["engine"] = Empty] ELSE whole
          /\ build' = IF next = "idle" THEN Idle ELSE [build EXCEPT !.at = next]
    /\ UNCHANGED <<deployment, onnx, fed, served, faults>>

(* A library refuses: an exception, and nothing half done.                   *)
BuildRefused ==
    /\ build.at \in {"calibrate", "tactics"} /\ faults < MaxFaults
    /\ build' = Idle /\ faults' = faults + 1
    /\ UNCHANGED <<deployment, onnx, files, fed, served>>

(* The process dies.                                                         *)
Crash ==
    /\ build.at # "idle" /\ faults < MaxFaults
    /\ build' = Idle /\ faults' = faults + 1
    /\ IF build.at \in DOMAIN files
       THEN \E left \in Torn(build.net, build.scales) : files' = [files EXCEPT ![build.at] = left]
       ELSE UNCHANGED files
    /\ UNCHANGED <<deployment, onnx, fed, served>>

Steps == Start \/ ReadCache \/ Feed \/ CacheScales \/ Tactics \/ Write

BuildNext == Steps \/ Export \/ BuildRefused \/ Crash

(* A deployment that builds until it has an engine.                          *)
BuildFairness == WF_building(Steps)

BuildSpec == BuildInit /\ [][BuildNext]_building /\ BuildFairness

------------------------------------------------------------------------------
(* What the calibration of a network should have seen.                       *)
CalibrationSet ==
    UNION {{b} \X (1 .. Min({BatchSize, SourceBatches[b]})) :
              b \in 1 .. Min({Limit, Len(SourceBatches)})}

(* An engine is never built on no scales, or on those of another network,     *)
(* whatever was interrupted before, in this build or in another; and on those *)
(* of its whole calibration set, but that the code takes a cache cut off in   *)
(* the middle for a hit.                                                      *)
ScalesAreTheNetworks ==
    LET engine == files["engine"]
        whole  == {engine.net} \X CalibrationSet
    IN engine.state = "whole" /\ deployment.calibrate =>
          /\ engine.scales # {} /\ engine.scales \subseteq whole
          /\ \/ engine.scales = whole
             \/ deployment.cached /\ faults > 0

(* Retrying gets there: with overwrite, a deployment ends with a whole       *)
(* engine of the network exported last, whatever the builds that died left.  *)
RetriedBuildPublishes ==
    deployment.overwrite ~> [](files["engine"].state = "whole" /\ files["engine"].net = onnx)
================================================================================
