--------------------------- MODULE StandaloneProofs ---------------------------
(***************************************************************************)
(* Theorems about the components that share no state with another: the      *)
(* engine build, the batches of the detectors, the tuning study, the        *)
(* registry and suppression.  Each property comes with the inductive        *)
(* invariant it needs, and each component with the lemmas about its         *)
(* operators.                                                               *)
(***************************************************************************)
EXTENDS EngineBuild, DetectorBatching, TuningStudy, Registry, Suppression, TLAPS,
        FiniteSetTheorems, SequenceTheorems, WellFoundedInduction

(* The least of two numbers.                                                 *)
LEMMA LeastOfTwo ==
    ASSUME NEW a \in Int, NEW b \in Int
    PROVE  Min({a, b}) = IF a <= b THEN a ELSE b
  <1>1. \E x \in {a, b} : \A y \in {a, b} : x <= y
    <2>1. CASE a <= b
      BY <2>1
    <2>2. CASE ~(a <= b)
      BY <2>2
    <2> QED BY <2>1, <2>2
  <1>2. Min({a, b}) \in {a, b} /\ \A y \in {a, b} : Min({a, b}) <= y
    BY <1>1 DEF Min
  <1> QED BY <1>2

------------------------------------------------------------------------------
(* The engine build.                                                         *)

(* A batch shows the builder its first images, all of them or as many as fit.*)
LEMMA BatchShown ==
    ASSUME NEW images \in Nat \ {0}
    PROVE  Range(NextBatch(images)) = 1 .. Min({BatchSize, images})
  <1>1. BatchSize \in Nat \ {0}
    BY CalibrationAssumption
  <1> DEFINE shown(i) == ((i - 1) % images) + 1
  <1>2. Range(NextBatch(images)) = {shown(i) : i \in 1 .. BatchSize}
    BY DEF Range, NextBatch
  <1>3. ASSUME NEW i \in 1 .. BatchSize PROVE shown(i) \in 1 .. images
    BY <1>1
  <1>4. ASSUME NEW i \in 1 .. BatchSize, i <= images PROVE shown(i) = i
    BY <1>1, <1>4
  <1>5. ASSUME NEW i \in 1 .. BatchSize PROVE shown(i) <= BatchSize
    BY <1>1, <1>3, <1>4
  <1>6. Min({BatchSize, images}) = IF BatchSize <= images THEN BatchSize ELSE images
    BY <1>1, LeastOfTwo
  <1> HIDE DEF shown
  <1>7. ASSUME NEW i \in 1 .. BatchSize PROVE shown(i) \in 1 .. Min({BatchSize, images})
    BY <1>1, <1>3, <1>5, <1>6
  <1>8. ASSUME NEW i \in 1 .. Min({BatchSize, images})
        PROVE  i \in 1 .. BatchSize /\ shown(i) = i
    BY <1>1, <1>4, <1>6
  <1> QED BY <1>2, <1>7, <1>8

(* The batches one calibration feeds, and what the first of them show.       *)
Batches == Min({Limit, Len(SourceBatches)})

ShownBy(n) == {shown \in CalibrationSet : shown[1] <= n}

LEMMA SomeBatches ==
    /\ Batches \in Nat \ {0} /\ Batches <= Len(SourceBatches)
    /\ \A b \in 1 .. Batches : SourceBatches[b] \in Nat \ {0}
  <1>1. Len(SourceBatches) \in Nat \ {0} /\ Limit \in Nat \ {0}
    BY CalibrationAssumption
  <1>2. Batches = IF Limit <= Len(SourceBatches) THEN Limit ELSE Len(SourceBatches)
    BY <1>1, LeastOfTwo DEF Batches
  <1> QED BY <1>1, <1>2, CalibrationAssumption

LEMMA InCalibrationSet ==
    ASSUME NEW shown
    PROVE  shown \in CalibrationSet <=>
             \E b \in 1 .. Batches : \E i \in 1 .. Min({BatchSize, SourceBatches[b]}) : shown = <<b, i>>
  <1>1. shown \in CalibrationSet <=>
          \E b \in 1 .. Batches : shown \in {b} \X (1 .. Min({BatchSize, SourceBatches[b]}))
    BY DEF CalibrationSet, Batches
  <1>2. ASSUME NEW b
        PROVE  shown \in {b} \X (1 .. Min({BatchSize, SourceBatches[b]})) <=>
                 \E i \in 1 .. Min({BatchSize, SourceBatches[b]}) : shown = <<b, i>>
    OBVIOUS
  <1> QED BY <1>1, <1>2

(* The first image of the first batch is always shown.                       *)
LEMMA FirstShown == <<1, 1>> \in CalibrationSet
  <1>1. 1 \in 1 .. Batches /\ SourceBatches[1] \in Nat \ {0}
    BY SomeBatches
  <1>2. 1 \in 1 .. Min({BatchSize, SourceBatches[1]})
    BY <1>1, LeastOfTwo, CalibrationAssumption
  <1> QED BY <1>1, <1>2, InCalibrationSet

LEMMA ShownInABatch ==
    ASSUME NEW shown \in CalibrationSet
    PROVE  shown[1] \in 1 .. Batches
  <1>1. PICK b \in 1 .. Batches : \E i \in 1 .. Min({BatchSize, SourceBatches[b]}) : shown = <<b, i>>
    BY InCalibrationSet
  <1> QED BY <1>1

LEMMA NothingShown == ShownBy(0) = {}
  <1>1. ASSUME NEW shown \in CalibrationSet PROVE ~(shown[1] <= 0)
    BY ShownInABatch
  <1> QED BY <1>1 DEF ShownBy

LEMMA AllShown == ShownBy(Batches) = CalibrationSet
  <1>1. ASSUME NEW shown \in CalibrationSet PROVE shown[1] <= Batches
    BY ShownInABatch, SomeBatches
  <1> QED BY <1>1 DEF ShownBy

LEMMA OneMoreShown ==
    ASSUME NEW n \in Nat, n < Batches
    PROVE  ShownBy(n + 1) = ShownBy(n) \cup {<<n + 1, i>> : i \in Range(NextBatch(SourceBatches[n + 1]))}
  <1>1. n + 1 \in 1 .. Batches
    BY SomeBatches
  <1>2. Range(NextBatch(SourceBatches[n + 1])) = 1 .. Min({BatchSize, SourceBatches[n + 1]})
    BY <1>1, SomeBatches, BatchShown
  <1>3. ASSUME NEW shown \in ShownBy(n + 1), shown \notin ShownBy(n)
        PROVE  \E i \in 1 .. Min({BatchSize, SourceBatches[n + 1]}) : shown = <<n + 1, i>>
    <2>1. PICK b \in 1 .. Batches : \E i \in 1 .. Min({BatchSize, SourceBatches[b]}) : shown = <<b, i>>
      BY InCalibrationSet DEF ShownBy
    <2>2. b <= n + 1 /\ ~(b <= n)
      BY <1>3, <2>1 DEF ShownBy
    <2>3. b = n + 1
      BY <2>2, SomeBatches
    <2> QED BY <2>1, <2>3
  <1>4. ASSUME NEW i \in 1 .. Min({BatchSize, SourceBatches[n + 1]})
        PROVE  <<n + 1, i>> \in ShownBy(n + 1)
    <2>1. <<n + 1, i>> \in CalibrationSet
      BY <1>1, InCalibrationSet
    <2>2. <<n + 1, i>>[1] <= n + 1
      OBVIOUS
    <2> QED BY <2>1, <2>2 DEF ShownBy
  <1>5. ASSUME NEW shown \in ShownBy(n) PROVE shown \in ShownBy(n + 1)
    <2>1. shown \in CalibrationSet /\ shown[1] <= n
      BY DEF ShownBy
    <2>2. shown[1] <= n + 1
      BY <2>1, ShownInABatch, SomeBatches
    <2> QED BY <2>1, <2>2 DEF ShownBy
  <1> QED BY <1>2, <1>3, <1>4, <1>5

(* Scales that an engine of the network may be built on: of its whole        *)
(* calibration set, or, from a cache that was cut off, of a part of it.      *)
Vouched(scales, net) ==
    /\ scales # {} /\ scales \subseteq {net} \X CalibrationSet
    /\ scales = {net} \X CalibrationSet \/ (deployment.cached /\ faults > 0)

BuildTypes ==
    /\ onnx \in Nat /\ served \in Nat /\ faults \in Nat
    /\ DOMAIN files = {"engine", "scales", "timings"}
    /\ build.at \in {"idle", "calibrate", "tactics", "scales", "timings", "engine"}

(* What the call at hand has, stage by stage.                                *)
CallInv ==
    /\ build.at # "idle" => build.net = onnx
    /\ build.at = "calibrate" => served <= Batches /\ fed = ShownBy(served)
    /\ build.at = "scales" => deployment.cached /\ build.scales = {onnx} \X CalibrationSet
    /\ build.at \in {"tactics", "timings", "engine"} /\ deployment.calibrate
          => Vouched(build.scales, onnx)

(* What the files hold: the cache is the network's that was exported last,   *)
(* for an export invalidates it; the engine may be of an earlier one.        *)
FilesInv ==
    /\ CacheHit => Vouched(files["scales"].scales, onnx)
    /\ files["engine"].state = "whole" /\ deployment.calibrate
          => Vouched(files["engine"].scales, files["engine"].net)

BuildInv == BuildTypes /\ CallInv /\ FilesInv

LEMMA BuildInvInit == BuildInit => BuildInv
  BY DEF BuildInit, BuildInv, BuildTypes, CallInv, FilesInv, CacheHit, Absent, File, Idle

LEMMA WholeVouched ==
    ASSUME NEW net
    PROVE  Vouched({net} \X CalibrationSet, net)
  <1>1. <<net, <<1, 1>>>> \in {net} \X CalibrationSet
    BY FirstShown
  <1> QED BY <1>1 DEF Vouched

(* A fault more takes nothing back.                                          *)
LEMMA VouchedStays ==
    ASSUME faults \in Nat, deployment' = deployment, faults' \in {faults, faults + 1},
           NEW scales, NEW net, Vouched(scales, net)
    PROVE  Vouched(scales, net)'
  <1>1. faults > 0 => faults' > 0
    OBVIOUS
  <1> QED BY <1>1 DEF Vouched

(* What is left of the network's scales when their write is cut off.         *)
LEMMA TornScales ==
    ASSUME faults \in Nat, deployment' = deployment, deployment.cached, faults' = faults + 1,
           NEW net, NEW left \in Torn(net, {net} \X CalibrationSet), left.state \in {"whole", "part"}
    PROVE  Vouched(left.scales, net)'
  <1>1. left.scales = ({net} \X CalibrationSet) \cap {<<net, <<1, 1>>>>}
    BY DEF Torn, Empty, File
  <1>2. <<net, <<1, 1>>>> \in {net} \X CalibrationSet
    BY FirstShown
  <1>3. left.scales # {} /\ left.scales \subseteq {net} \X CalibrationSet
    BY <1>1, <1>2
  <1>4. faults' > 0
    OBVIOUS
  <1> QED BY <1>3, <1>4 DEF Vouched

LEMMA BuildInvNext ==
    ASSUME BuildInv, [BuildNext]_building
    PROVE  BuildInv'
  <1>0. /\ BuildTypes /\ CallInv /\ FilesInv
        /\ faults \in Nat /\ onnx \in Nat /\ served \in Nat
        /\ DOMAIN files = {"engine", "scales", "timings"}
    BY DEF BuildInv, BuildTypes
  <1>1. CASE Export
    <2>1. BuildTypes' /\ CallInv'
      BY <1>0, <1>1 DEF Export, BuildTypes, CallInv
    <2>2. ~CacheHit'
      BY <1>0, <1>1 DEF Export, CacheHit, Absent, File
    <2>3. files'["engine"] = files["engine"]
      BY <1>0, <1>1 DEF Export
    <2>4. deployment' = deployment /\ faults' = faults
      BY <1>1 DEF Export
    <2>5. FilesInv'
      BY <1>0, <2>2, <2>3, <2>4, VouchedStays DEF FilesInv
    <2> QED BY <2>1, <2>5 DEF BuildInv
  <1>2. CASE Start
    <2>1. UNCHANGED <<deployment, onnx, files, faults>>
      BY <1>2 DEF Start
    <2>2. BuildTypes'
      BY <1>0, <1>2 DEF Start, BuildTypes
    <2>3. /\ build'.net = onnx /\ build'.at \in {"calibrate", "tactics"}
          /\ deployment.calibrate => build'.at = "calibrate"
          /\ served' = 0 /\ fed' = {}
      BY <1>2 DEF Start
    <2>4. CallInv'
      BY <2>1, <2>3, NothingShown, SomeBatches DEF CallInv, ShownBy
    <2>5. FilesInv'
      BY <1>0, <2>1, VouchedStays DEF FilesInv, CacheHit
    <2> QED BY <2>2, <2>4, <2>5 DEF BuildInv
  <1>3. CASE ReadCache
    <2>1. UNCHANGED <<deployment, onnx, files, faults>> /\ served' = served
      BY <1>3 DEF ReadCache
    <2>2. CacheHit /\ build.net = onnx
      BY <1>0, <1>3 DEF ReadCache, CallInv
    <2>3. build' = [build EXCEPT !.at = "tactics", !.scales = files["scales"].scales]
      BY <1>3 DEF ReadCache
    <2>4. Vouched(files["scales"].scales, onnx)'
      BY <1>0, <2>1, <2>2, VouchedStays DEF FilesInv
    <2>5. FilesInv'
      BY <1>0, <2>1, VouchedStays DEF FilesInv, CacheHit
    <2> QED BY <1>0, <2>1, <2>2, <2>3, <2>4, <2>5 DEF BuildInv, BuildTypes, CallInv
  <1>4. CASE Feed
    <2>1. /\ UNCHANGED <<deployment, onnx, files, build, faults>>
          /\ build.at = "calibrate" /\ served < Batches /\ served' = served + 1
          /\ fed' = fed \cup {<<served + 1, i>> : i \in Range(NextBatch(SourceBatches[served + 1]))}
      BY <1>4 DEF Feed, Batches
    <2>2. fed = ShownBy(served)
      BY <1>0, <2>1 DEF CallInv
    <2>3. fed' = ShownBy(served')
      BY <1>0, <2>1, <2>2, OneMoreShown
    <2>4. CallInv'
      <3>1. build.net = onnx
        BY <1>0, <2>1 DEF CallInv
      <3>2. /\ build'.at = "calibrate" /\ build'.net = onnx' /\ served' <= Batches
            /\ fed' = ShownBy(served')
        BY <1>0, <2>1, <2>3, <3>1, SomeBatches
      <3>3. Batches' = Batches /\ ShownBy(served') = ShownBy(served)'
        BY DEF Batches, ShownBy
      <3> QED BY <3>2, <3>3 DEF CallInv
    <2>5. FilesInv'
      BY <1>0, <2>1, VouchedStays DEF FilesInv, CacheHit
    <2>6. BuildTypes'
      BY <1>0, <2>1 DEF BuildTypes
    <2> QED BY <2>4, <2>5, <2>6 DEF BuildInv
  <1>5. CASE CacheScales
    <2>1. /\ UNCHANGED <<deployment, onnx, fed, served, faults>>
          /\ build.at = "calibrate" /\ served = Batches
          /\ build' = [build EXCEPT !.scales = {build.net} \X fed,
                                    !.at = IF deployment.cached THEN "scales" ELSE "tactics"]
      BY <1>5 DEF CacheScales, Batches
    <2>2. build.net = onnx /\ fed = CalibrationSet
      BY <1>0, <2>1, AllShown DEF CallInv
    <2>3. Vouched({onnx} \X CalibrationSet, onnx)'
      <3>1. PICK net : net = onnx
        OBVIOUS
      <3>2. Vouched({net} \X CalibrationSet, net)
        BY WholeVouched
      <3>3. Vouched({net} \X CalibrationSet, net)'
        BY <1>0, <2>1, <3>2, VouchedStays
      <3> QED BY <2>1, <3>1, <3>3
    <2>4. files'["engine"] = files["engine"] /\ DOMAIN files' = DOMAIN files
          /\ (files'["scales"] = files["scales"] \/ files'["scales"].state = "empty")
      BY <1>0, <1>5 DEF CacheScales, Empty, File
    <2>5. FilesInv'
      <3>1. CacheHit' => CacheHit /\ files'["scales"] = files["scales"]
        BY <2>4 DEF CacheHit
      <3> QED BY <1>0, <2>1, <2>4, <3>1, VouchedStays DEF FilesInv
    <2>6. /\ build'.at = (IF deployment.cached THEN "scales" ELSE "tactics")
          /\ build'.scales = {onnx} \X CalibrationSet
          /\ build'.net = onnx
      <3>1. build' = [build EXCEPT !.scales = {onnx} \X CalibrationSet,
                                   !.at = IF deployment.cached THEN "scales" ELSE "tactics"]
        BY <2>1, <2>2
      <3> QED BY <2>2, <3>1
    <2>7. CallInv'
      BY <2>1, <2>3, <2>6 DEF CallInv
    <2>8. BuildTypes'
      BY <1>0, <2>1, <2>4, <2>6 DEF BuildTypes
    <2> QED BY <2>5, <2>7, <2>8 DEF BuildInv
  <1>6. CASE Tactics
    <2>1. /\ UNCHANGED <<deployment, onnx, fed, served, faults>> /\ build.at = "tactics"
      BY <1>6 DEF Tactics
    <2>2. PICK next \in {"timings", "engine"} :
            build' = [build EXCEPT !.at = next] /\ files' = [files EXCEPT ![next] = Empty]
      BY <1>6 DEF Tactics
    <2>3. /\ files'["scales"] = files["scales"] /\ DOMAIN files' = DOMAIN files
          /\ files'["engine"] = files["engine"] \/ files'["engine"].state = "empty"
      BY <1>0, <2>2 DEF Empty, File
    <2>4. build'.at = next /\ build'.net = build.net /\ build'.scales = build.scales
      BY <2>2
    <2>5. BuildTypes'
      BY <1>0, <2>1, <2>3, <2>4 DEF BuildTypes
    <2>6. CallInv'
      BY <1>0, <2>1, <2>4, VouchedStays DEF CallInv
    <2>7. FilesInv'
      BY <1>0, <2>1, <2>3, VouchedStays DEF FilesInv, CacheHit
    <2> QED BY <2>5, <2>6, <2>7 DEF BuildInv
  <1>7. CASE Write
    <2> DEFINE at == build.at
               next == CASE at = "scales" -> "tactics" [] at = "timings" -> "engine" [] OTHER -> "idle"
               whole == [files EXCEPT ![at] = File("whole", build.net, build.scales)]
    <2>1. /\ UNCHANGED <<deployment, onnx, fed, served, faults>>
          /\ at \in {"scales", "timings", "engine"}
          /\ files' = IF next = "engine" THEN [whole EXCEPT !["engine"] = Empty] ELSE whole
          /\ build' = IF next = "idle" THEN Idle ELSE [build EXCEPT !.at = next]
      BY <1>7 DEF Write
    <2>2. build.net = onnx
      BY <1>0, <2>1 DEF CallInv
    <2>3. /\ build'.at = next /\ next \in {"tactics", "engine", "idle"}
          /\ next # "idle" => build'.net = onnx /\ build'.scales = build.scales
      BY <2>1, <2>2 DEF Idle
    <2>4. DOMAIN files' = DOMAIN files
      BY <1>0, <2>1
    <2>5. /\ at = "scales" => files'["scales"] = File("whole", onnx, build.scales)
          /\ at # "scales" => files'["scales"] = files["scales"]
      BY <1>0, <2>1, <2>2
    <2>6. /\ at = "scales" => files'["engine"] = files["engine"]
          /\ at = "timings" => files'["engine"] = Empty
          /\ at = "engine" => files'["engine"] = File("whole", onnx, build.scales)
      BY <1>0, <2>1, <2>2
    <2>7. at # "scales" /\ deployment.calibrate => Vouched(build.scales, onnx)
      BY <1>0, <2>1 DEF CallInv
    <2>8. at = "scales" => Vouched(build.scales, onnx)
      <3>1. at = "scales" => build.scales = {onnx} \X CalibrationSet
        BY <1>0 DEF CallInv
      <3> QED BY <3>1, WholeVouched
    <2> HIDE DEF next, whole
    <2>9. BuildTypes'
      BY <1>0, <2>1, <2>3, <2>4 DEF BuildTypes
    <2>10. CallInv'
      <3>1. build'.at # "calibrate" /\ build'.at # "scales"
        BY <2>3
      <3>2. PICK scales : scales = build.scales
        OBVIOUS
      <3>3. ASSUME deployment.calibrate PROVE Vouched(scales, onnx)'
        <4>1. Vouched(scales, onnx)
          BY <2>1, <2>7, <2>8, <3>2, <3>3
        <4>2. Vouched(scales, onnx)'
          <5>1. PICK net : net = onnx
            OBVIOUS
          <5>2. Vouched(scales, net)'
            BY <1>0, <2>1, <4>1, <5>1, VouchedStays
          <5> QED BY <2>1, <5>1, <5>2
        <4> QED BY <4>2
      <3>4. build'.at # "idle" => build'.net = onnx' /\ build'.scales = scales
        BY <2>1, <2>3, <3>2
      <3>5. deployment' = deployment
        BY <2>1
      <3> QED BY <3>1, <3>3, <3>4, <3>5 DEF CallInv
    <2>11. FilesInv'
      <3>1. (CacheHit => Vouched(files["scales"].scales, onnx))'
        BY <1>0, <2>1, <2>5, <2>8, VouchedStays DEF FilesInv, CacheHit, File
      <3>2. (files["engine"].state = "whole" /\ deployment.calibrate
               => Vouched(files["engine"].scales, files["engine"].net))'
        BY <1>0, <2>1, <2>6, <2>7, VouchedStays DEF FilesInv, File, Empty
      <3> QED BY <3>1, <3>2 DEF FilesInv
    <2> QED BY <2>9, <2>10, <2>11 DEF BuildInv
  <1>8. CASE BuildRefused
    <2>1. UNCHANGED <<deployment, onnx, files>> /\ faults' = faults + 1 /\ build' = Idle /\ served' = served
      BY <1>8 DEF BuildRefused
    <2>2. CallInv' /\ BuildTypes'
      BY <1>0, <2>1 DEF CallInv, BuildTypes, Idle
    <2>3. FilesInv'
      BY <1>0, <2>1, VouchedStays DEF FilesInv, CacheHit
    <2> QED BY <2>2, <2>3 DEF BuildInv
  <1>9. CASE Crash
    <2>1. /\ UNCHANGED <<deployment, onnx>> /\ faults' = faults + 1 /\ build' = Idle /\ served' = served
          /\ build.at # "idle"
      BY <1>9 DEF Crash
    <2>2. build.net = onnx
      BY <1>0, <2>1 DEF CallInv
    <2>3. CASE build.at \notin DOMAIN files
      <3>1. files' = files
        BY <1>9, <2>3 DEF Crash
      <3>2. CallInv' /\ BuildTypes'
        BY <1>0, <2>1, <3>1 DEF CallInv, BuildTypes, Idle
      <3>3. FilesInv'
        BY <1>0, <2>1, <3>1, VouchedStays DEF FilesInv, CacheHit
      <3> QED BY <3>2, <3>3 DEF BuildInv
    <2>4. CASE build.at \in DOMAIN files
      <3>1. PICK left \in Torn(onnx, build.scales) : files' = [files EXCEPT ![build.at] = left]
        BY <1>9, <2>2, <2>4 DEF Crash
      <3>2. left.state \in {"empty", "part"}
        BY DEF Torn, Empty, File
      <3>3. /\ DOMAIN files' = DOMAIN files
            /\ files'["scales"] = IF build.at = "scales" THEN left ELSE files["scales"]
            /\ files'["engine"] = IF build.at = "engine" THEN left ELSE files["engine"]
        BY <1>0, <3>1
      <3>4. CallInv' /\ BuildTypes'
        BY <1>0, <2>1, <3>3 DEF CallInv, BuildTypes, Idle
      <3>5. (CacheHit => Vouched(files["scales"].scales, onnx))'
        <4>1. CASE build.at = "scales"
          <5>1. deployment.cached /\ build.scales = {onnx} \X CalibrationSet
            BY <1>0, <4>1 DEF CallInv
          <5>2. left.state \in {"whole", "part"} => Vouched(left.scales, onnx)'
            BY <1>0, <2>1, <3>1, <5>1, TornScales
          <5> QED BY <2>1, <3>3, <4>1, <5>2 DEF CacheHit
        <4>2. CASE build.at # "scales"
          BY <1>0, <2>1, <3>3, <4>2, VouchedStays DEF FilesInv, CacheHit
        <4> QED BY <4>1, <4>2
      <3>6. (files["engine"].state = "whole" /\ deployment.calibrate
               => Vouched(files["engine"].scales, files["engine"].net))'
        BY <1>0, <2>1, <3>2, <3>3, VouchedStays DEF FilesInv
      <3> QED BY <3>4, <3>5, <3>6 DEF BuildInv, FilesInv
    <2> QED BY <2>3, <2>4
  <1>10. CASE UNCHANGED building
    BY <1>0, <1>10 DEF building, BuildInv, BuildTypes, CallInv, FilesInv, Vouched, CacheHit, ShownBy
  <1> QED BY <1>1, <1>2, <1>3, <1>4, <1>5, <1>6, <1>7, <1>8, <1>9, <1>10 DEF BuildNext, Steps

(* Whatever was interrupted and retried, an engine that is calibrated is     *)
(* built on scales of its own network, and on those of its whole calibration *)
(* set unless a cache was cut off (CalibrationCache, build_engine).          *)
THEOREM ScalesBelongToTheNetwork == BuildSpec => []ScalesAreTheNetworks
  <1>1. BuildInit => BuildInv
    BY BuildInvInit
  <1>2. BuildInv /\ [BuildNext]_building => BuildInv'
    BY BuildInvNext
  <1>3. BuildInv => ScalesAreTheNetworks
    BY DEF BuildInv, FilesInv, Vouched, ScalesAreTheNetworks
  <1> QED BY <1>1, <1>2, <1>3, PTL DEF BuildSpec

------------------------------------------------------------------------------
(* The batches of the detectors and extractors.                              *)

(* The result that is about one frame, and all of it.                        *)
Answer(frame) == [tag |-> frame, geometry |-> frame, pixels |-> frame, basis |-> frame]

Answers == [tag : Nat, geometry : Nat, pixels : Nat, basis : Nat]

Answered(n) ==
    /\ results \in Seq(Answers) /\ Len(results) = n
    /\ \A i \in 1 .. n : results[i] = Answer(call[i])

(* The rows of a buffer that the chunk at hand is about are the chunk's.     *)
Holds(device) == \A i \in 1 .. Len(Chunk) : device[i] = Chunk[i]

RunnerTypes ==
    /\ "rows" \in DOMAIN runner
    /\ runner.kind \in TensorRT \cup {"torch", "mock"} /\ runner.fixed \in BOOLEAN
    /\ runner.engine \in Nat \ {0} /\ runner.least \in Nat \ {0} /\ runner.least <= runner.engine
    /\ runner.requested \in Nat
    /\ runner.kind = "torch" => runner.requested # NotAsked

BatchTypes ==
    /\ RunnerTypes
    /\ calls \in Nat /\ call \in Seq(Nat) /\ done \in Nat
    /\ shape = 0 \/ shape \in runner.least .. runner.engine
    /\ running \in {"load", "ready", "chunk", "execute", "decode", "returned", "failed", "refused"}

(* What the constructor leaves: never more rows than the engine runs.        *)
LoadedInv ==
    running \notin {"load", "refused"} =>
        /\ runner.rows \in Nat \ {0}
        /\ runner.kind \in TensorRT =>
              /\ runner.rows <= runner.engine
              /\ DOMAIN deviceIn = 1 .. runner.rows
              /\ DOMAIN deviceOut = 1 .. IF runner.fixed THEN runner.engine ELSE runner.rows

(* How far the call is, and whose rows the buffers hold.  A context that was *)
(* not set is left at a shape that covers the chunk, or was never set.       *)
CallsInv ==
    /\ running \in {"chunk", "execute", "decode"} => done < Len(call) /\ Answered(done)
    /\ running = "returned" => Answered(Len(call))
    /\ running = "failed" => results = <<>>
    /\ running = "execute" =>
          /\ runner.kind \in TensorRT /\ Holds(deviceIn)
          /\ runner.fixed \/ shape = 0 \/ Len(Chunk) <= shape
    /\ running = "decode" => Holds(deviceOut)

BatchInv == BatchTypes /\ LoadedInv /\ CallsInv

LEMMA ChunkFacts ==
    ASSUME call \in Seq(Nat), done \in Nat, done < Len(call), runner.rows \in Nat \ {0}
    PROVE  /\ Chunk \in Seq(Nat) /\ Len(Chunk) \in 1 .. runner.rows /\ done + Len(Chunk) <= Len(call)
           /\ \A i \in 1 .. Len(Chunk) : Chunk[i] = call[done + i] /\ Chunk[i] \in Nat
  <1> DEFINE last == Min({done + runner.rows, Len(call)})
  <1>1. last = IF done + runner.rows <= Len(call) THEN done + runner.rows ELSE Len(call)
    <2>1. PICK a \in Int, b \in Int : a = done + runner.rows /\ b = Len(call)
      OBVIOUS
    <2>2. Min({a, b}) = IF a <= b THEN a ELSE b
      BY LeastOfTwo
    <2> QED BY <2>1, <2>2
  <1>2. last \in Nat /\ done + 1 <= last /\ last <= Len(call) /\ last <= done + runner.rows
    BY <1>1
  <1> HIDE DEF last
  <1>3. \A i \in done + 1 .. last : call[i] \in Nat
    BY <1>2
  <1>4. /\ SubSeq(call, done + 1, last) \in Seq(Nat)
        /\ Len(SubSeq(call, done + 1, last)) = last - done
        /\ \A i \in 1 .. last - done : SubSeq(call, done + 1, last)[i] = call[done + i]
    <2>1. PICK from \in Int, to \in Int : from = done + 1 /\ to = last
      BY <1>2
    <2>2. \A i \in from .. to : call[i] \in Nat
      BY <1>3, <2>1
    <2>3. /\ SubSeq(call, from, to) \in Seq(Nat)
          /\ Len(SubSeq(call, from, to)) = IF from <= to THEN to - from + 1 ELSE 0
          /\ \A i \in 1 .. to - from + 1 : SubSeq(call, from, to)[i] = call[from + i - 1]
      BY <2>2, SubSeqProperties
    <2>4. from <= to /\ to - from + 1 = last - done
      BY <1>2, <2>1
    <2>5. \A i \in 1 .. last - done : from + i - 1 = done + i
      BY <1>2, <2>1
    <2> QED BY <2>1, <2>3, <2>4, <2>5
  <1>5. Chunk = SubSeq(call, done + 1, last)
    BY DEF Chunk, last
  <1>6. \A i \in 1 .. last - done : done + i \in done + 1 .. last
    BY <1>2
  <1> QED BY <1>2, <1>3, <1>4, <1>5, <1>6

LEMMA BatchInvInit == BatchingInit => BatchInv
  <1>1. BatchingInit => RunnerTypes
    <2> SUFFICES ASSUME BatchingInit PROVE RunnerTypes
      OBVIOUS
    <2>1. /\ runner.kind \in TensorRT \cup {"torch", "mock"} /\ runner.fixed \in BOOLEAN
          /\ runner.engine \in EngineBatches /\ runner.least \in {1, 2}
          /\ runner.requested \in MaxBatches
      BY DEF BatchingInit
    <2>2. runner.least <= runner.engine /\ (runner.kind = "torch" => runner.requested # NotAsked)
      BY DEF BatchingInit
    <2>0. "rows" \in DOMAIN runner
      BY DEF BatchingInit
    <2>3. /\ runner.engine \in Nat \ {0} /\ runner.requested \in Nat
          /\ runner.least \in Nat \ {0} /\ runner.least <= runner.engine
      <3>1. /\ runner.engine \in EngineBatches /\ runner.least \in {1, 2}
            /\ runner.requested \in MaxBatches /\ runner.least <= runner.engine
        BY <2>1, <2>2
      <3>2. runner.engine \in Nat \ {0}
        BY ONLY <3>1, BatchAssumption
      <3>3. runner.requested \in Nat
        BY ONLY <3>1, BatchAssumption
      <3>4. runner.least \in Nat \ {0}
        BY ONLY <3>1
      <3> QED BY <3>1, <3>2, <3>3, <3>4
    <2> QED BY ONLY <2>0, <2>1, <2>2, <2>3 DEF RunnerTypes
  <1>2. BatchingInit => BatchTypes
    <2>1. <<>> \in Seq(Nat)
      OBVIOUS
    <2>2. BatchingInit => calls = 0 /\ call = <<>> /\ done = 0 /\ shape = 0 /\ running = "load"
      BY DEF BatchingInit
    <2> QED BY ONLY <1>1, <2>1, <2>2 DEF BatchTypes
  <1>3. BatchingInit => LoadedInv /\ CallsInv
    BY DEF BatchingInit, LoadedInv, CallsInv
  <1> QED BY <1>2, <1>3 DEF BatchInv

(* A detector takes the smaller of what was asked for and the engine's, and  *)
(* an extractor the same or neither.                                         *)
LEMMA RowsOfARunner ==
    ASSUME RunnerTypes, ResolveMaxBatch(runner) # 0
    PROVE  /\ ResolveMaxBatch(runner) \in Nat \ {0}
           /\ runner.kind \in TensorRT => ResolveMaxBatch(runner) <= runner.engine
  <1>1. /\ runner.engine \in Nat \ {0} /\ runner.requested \in Nat
        /\ runner.kind = "torch" => runner.requested # 0
        /\ runner.kind \in TensorRT => runner.kind # "torch"
    BY DEF RunnerTypes, TensorRT, NotAsked
  <1>2. Min({runner.requested, runner.engine}) =
          IF runner.requested <= runner.engine THEN runner.requested ELSE runner.engine
    BY <1>1, LeastOfTwo
  <1> QED BY <1>1, <1>2 DEF ResolveMaxBatch, NotAsked

LEMMA LoadStep ==
    ASSUME BatchInv, Load
    PROVE  BatchInv'
  <1>1. /\ running = "load" /\ UNCHANGED <<calls, call, done, shape, results>>
        /\ calls \in Nat /\ call \in Seq(Nat) /\ done \in Nat /\ RunnerTypes
        /\ shape = 0 \/ shape \in runner.least .. runner.engine
    BY DEF Load, BatchInv, BatchTypes
  <1>2. CASE running' = "refused" /\ UNCHANGED <<runner, deviceIn, deviceOut>>
    BY <1>1, <1>2 DEF BatchInv, BatchTypes, RunnerTypes, LoadedInv, CallsInv
  <1>3. CASE ~(running' = "refused" /\ UNCHANGED <<runner, deviceIn, deviceOut>>)
    <2> DEFINE rows == IF runner.kind = "mock" THEN 1 ELSE ResolveMaxBatch(runner)
               head == IF runner.ranks = <<2>> THEN "embedding"
                       ELSE ResolveHead(runner.ranks, runner.pinned)
               buffers == IF runner.kind \in TensorRT THEN rows ELSE 0
    <2>1. /\ rows # 0 /\ running' = "ready"
          /\ runner' = [runner EXCEPT !.rows = rows, !.head = head]
          /\ deviceIn' = [i \in 1 .. buffers |-> 0]
          /\ deviceOut' = [i \in 1 .. IF runner.fixed THEN runner.engine ELSE buffers |-> 0]
      BY <1>3 DEF Load
    <2>2. rows \in Nat \ {0} /\ (runner.kind \in TensorRT => rows <= runner.engine)
      BY <1>1, <2>1, RowsOfARunner DEF TensorRT
    <2> HIDE DEF rows, head
    <2>3. /\ runner'.kind = runner.kind /\ runner'.fixed = runner.fixed
          /\ runner'.engine = runner.engine /\ runner'.least = runner.least
          /\ runner'.requested = runner.requested
      BY <2>1
    <2>4. RunnerTypes'
      BY <1>1, <2>1, <2>3 DEF RunnerTypes
    <2>5. BatchTypes'
      BY <1>1, <2>1, <2>3, <2>4 DEF BatchTypes
    <2>6. runner'.rows = rows
      BY <1>1, <2>1 DEF RunnerTypes
    <2>7. LoadedInv'
      BY <2>1, <2>2, <2>3, <2>6 DEF LoadedInv
    <2>8. CallsInv'
      BY <2>1 DEF CallsInv
    <2> QED BY <2>5, <2>7, <2>8 DEF BatchInv
  <1> QED BY <1>2, <1>3

LEMMA DetectStep ==
    ASSUME BatchInv, Detect
    PROVE  BatchInv'
  <1>1. /\ BatchTypes /\ LoadedInv /\ running \notin {"load", "refused"}
        /\ UNCHANGED <<runner, shape, deviceIn, deviceOut>>
        /\ calls \in Nat /\ calls' = calls + 1 /\ done' = 0 /\ results' = <<>>
    BY DEF BatchInv, BatchTypes, Detect
  <1>2. PICK n \in 0 .. MaxCallFrames :
          /\ call' = [i \in 1 .. n |-> calls * MaxCallFrames + i]
          /\ running' = IF n = 0 THEN "returned" ELSE "chunk"
    BY DEF Detect
  <1>3. MaxCallFrames \in Nat /\ n \in Nat
    BY BatchAssumption
  <1>4. call' \in Seq(Nat) /\ Len(call') = n
    <2>1. calls * MaxCallFrames \in Nat
      BY <1>1, <1>3
    <2> HIDE DEF BatchInv
    <2>2. \A i \in 1 .. n : calls * MaxCallFrames + i \in Nat
      BY <1>3, <2>1
    <2> QED BY <1>2, <1>3, <2>2
  <1>5. BatchTypes'
    BY <1>1, <1>2, <1>4 DEF BatchTypes, RunnerTypes
  <1>6. LoadedInv'
    BY <1>1 DEF LoadedInv
  <1>7. <<>> \in Seq(Answers) /\ Len(<<>>) = 0
    OBVIOUS
  <1>8. Answered(0)'
    BY <1>1, <1>7 DEF Answered
  <1>9. CallsInv'
    <2>1. running' \in {"chunk", "returned"} /\ (running' = "chunk" <=> n # 0)
      BY <1>2
    <2>2. running' = "returned" => Len(call') = 0 /\ Answered(Len(call))'
      BY <1>4, <1>8, <2>1 DEF Answered
    <2>3. running' = "chunk" => done' < Len(call') /\ Answered(done)'
      BY <1>1, <1>3, <1>4, <1>8, <2>1 DEF Answered
    <2> QED BY <2>1, <2>2, <2>3 DEF CallsInv
  <1> QED BY <1>5, <1>6, <1>9 DEF BatchInv

(* A call that fails answers nothing.                                        *)
LEMMA FailStep ==
    ASSUME BatchInv, Fail, running \notin {"load", "refused"},
           UNCHANGED <<runner, calls, call, done, deviceOut>>,
           deviceIn' = deviceIn \/ DOMAIN deviceIn' = DOMAIN deviceIn,
           shape' \in {shape} \cup runner.least .. runner.engine
    PROVE  BatchInv'
  <1>1. BatchTypes' /\ LoadedInv'
    BY DEF BatchInv, BatchTypes, RunnerTypes, LoadedInv, Fail
  <1>2. CallsInv'
    BY DEF CallsInv, Fail
  <1> QED BY <1>1, <1>2 DEF BatchInv

(* A frame answered, after the others.                                       *)
LEMMA OneMoreAnswered ==
    ASSUME NEW n \in Nat, Answered(n), call \in Seq(Nat), n < Len(call), call' = call,
           results' = Append(results, Answer(call[n + 1]))
    PROVE  Answered(n + 1)'
  <1>1. results \in Seq(Answers) /\ Len(results) = n /\ \A i \in 1 .. n : results[i] = Answer(call[i])
    BY DEF Answered
  <1>2. call[n + 1] \in Nat
    OBVIOUS
  <1>3. PICK one : one = Answer(call[n + 1])
    OBVIOUS
  <1>4. one \in Answers
    BY <1>2, <1>3 DEF Answer, Answers
  <1>5. /\ results' \in Seq(Answers) /\ Len(results') = n + 1 /\ results'[n + 1] = one
        /\ \A i \in 1 .. n : results'[i] = results[i]
    BY <1>1, <1>3, <1>4, AppendProperties
  <1>6. ASSUME NEW i \in 1 .. n + 1 PROVE results'[i] = Answer(call[i])
    <2>1. CASE i = n + 1
      BY <1>3, <1>5, <2>1
    <2>2. CASE i # n + 1
      <3>1. i \in 1 .. n
        BY <2>2
      <3> QED BY <1>1, <1>5, <3>1
    <2> QED BY <2>1, <2>2
  <1> QED BY <1>5, <1>6 DEF Answered, Answer

(* So many frames answered at once.                                          *)
LEMMA ChunkAnswered ==
    ASSUME NEW n \in Nat, Answered(n), call \in Seq(Nat), call' = call,
           NEW m \in Nat, n + m <= Len(call),
           NEW more, more = [i \in 1 .. m |-> Answer(call[n + i])], results' = results \o more
    PROVE  Answered(n + m)'
  <1>1. results \in Seq(Answers) /\ Len(results) = n /\ \A i \in 1 .. n : results[i] = Answer(call[i])
    BY DEF Answered
  <1>2. \A i \in 1 .. m : Answer(call[n + i]) \in Answers
    <2>1. ASSUME NEW i \in 1 .. m PROVE call[n + i] \in Nat
      <3>1. n + i \in 1 .. Len(call)
        BY <2>1
      <3> QED BY ONLY call \in Seq(Nat), <3>1
    <2> QED BY <2>1 DEF Answer, Answers
  <1>3. more \in Seq(Answers) /\ Len(more) = m
    BY <1>2
  <1>4. /\ results' \in Seq(Answers) /\ Len(results') = n + m
        /\ \A i \in 1 .. n + m : results'[i] = IF i <= n THEN results[i] ELSE more[i - n]
    <2>1. /\ results \o more \in Seq(Answers)
          /\ Len(results \o more) = Len(results) + Len(more)
          /\ \A i \in 1 .. Len(results) + Len(more) :
                (results \o more)[i] = IF i <= Len(results) THEN results[i] ELSE more[i - Len(results)]
      BY ONLY <1>1, <1>3, ConcatProperties
    <2> QED BY ONLY <1>1, <1>3, <2>1, results' = results \o more
  <1>5. ASSUME NEW i \in 1 .. n + m PROVE results'[i] = Answer(call[i])
    <2>1. CASE i <= n
      BY <1>1, <1>4, <2>1
    <2>2. CASE ~(i <= n)
      <3>1. i - n \in 1 .. m /\ n + (i - n) = i
        BY <2>2
      <3>2. more[i - n] = Answer(call[n + (i - n)])
        BY <3>1
      <3> QED BY <1>4, <2>2, <3>1, <3>2
    <2> QED BY <2>1, <2>2
  <1> QED BY <1>4, <1>5 DEF Answered, Answer

(* A call goes on to the next chunk, or returns.                             *)
LEMMA ProgressStep ==
    ASSUME BatchInv, UNCHANGED <<runner, calls, call, shape, deviceIn, deviceOut>>,
           running \in {"chunk", "decode"}, done' \in Nat, done' <= Len(call), Answered(done)',
           running' = IF done' = Len(call) THEN "returned" ELSE "chunk"
    PROVE  BatchInv'
  <1>1. BatchTypes'
    BY DEF BatchInv, BatchTypes, RunnerTypes
  <1>2. LoadedInv'
    BY DEF BatchInv, LoadedInv
  <1>3. call \in Seq(Nat)
    BY DEF BatchInv, BatchTypes
  <1>4. CASE done' = Len(call)
    <2>1. Answered(Len(call))'
      BY <1>4 DEF Answered
    <2> QED BY <1>1, <1>2, <1>4, <2>1 DEF BatchInv, CallsInv
  <1>5. CASE done' # Len(call)
    <2>1. done' < Len(call)
      BY <1>3, <1>5
    <2> QED BY <1>1, <1>2, <1>5, <2>1 DEF BatchInv, CallsInv
  <1> QED BY <1>4, <1>5

LEMMA MockStep ==
    ASSUME BatchInv, DetectMock
    PROVE  BatchInv'
  <1>1. /\ running = "chunk" /\ UNCHANGED <<runner, calls, call, shape, deviceIn, deviceOut>>
        /\ call \in Seq(Nat) /\ done \in Nat /\ done < Len(call) /\ Answered(done)
    BY DEF BatchInv, BatchTypes, CallsInv, DetectMock
  <1>2. CASE Fail /\ UNCHANGED done
    BY <1>1, <1>2, FailStep
  <1>3. CASE ~(Fail /\ UNCHANGED done)
    <2>1. /\ results' = Append(results, Answer(call[done + 1])) /\ done' = done + 1
          /\ running' = IF done' = Len(call) THEN "returned" ELSE "chunk"
      BY <1>3 DEF DetectMock, Answer
    <2>2. PICK n \in Nat : n = done
      BY <1>1
    <2>3. Answered(n + 1)'
      BY <1>1, <2>1, <2>2, OneMoreAnswered
    <2>4. Answered(done)'
      BY <2>1, <2>2, <2>3 DEF Answered
    <2> QED BY <1>1, <2>1, <2>4, ProgressStep
  <1> QED BY <1>2, <1>3

(* What is known while a chunk is on its way.                                *)
LEMMA OnItsWay ==
    ASSUME BatchInv, running \in {"chunk", "execute", "decode"}
    PROVE  /\ call \in Seq(Nat) /\ done \in Nat /\ done < Len(call) /\ Answered(done)
           /\ runner.rows \in Nat \ {0}
           /\ Chunk \in Seq(Nat) /\ Len(Chunk) \in 1 .. runner.rows /\ done + Len(Chunk) <= Len(call)
           /\ \A i \in 1 .. Len(Chunk) : Chunk[i] = call[done + i] /\ Chunk[i] \in Nat
  <1>1. /\ call \in Seq(Nat) /\ done \in Nat /\ done < Len(call) /\ Answered(done)
        /\ runner.rows \in Nat \ {0}
    BY DEF BatchInv, BatchTypes, LoadedInv, CallsInv
  <1> QED BY <1>1, ChunkFacts

LEMMA SameChunk ==
    ASSUME UNCHANGED <<runner, call, done>>
    PROVE  Chunk' = Chunk
  BY DEF Chunk

LEMMA UploadStep ==
    ASSUME BatchInv, Upload
    PROVE  BatchInv'
  <1> DEFINE rows == Len(Chunk)
             taken == rows \in runner.least .. runner.engine
  <1>1. /\ running = "chunk" /\ runner.kind \in TensorRT
        /\ UNCHANGED <<runner, calls, call, done, deviceOut>>
        /\ deviceIn' = [i \in DOMAIN deviceIn |-> IF i <= rows THEN Chunk[i] ELSE deviceIn[i]]
        /\ shape' = IF ~runner.fixed /\ taken THEN rows ELSE shape
    BY DEF Upload
  <1>2. /\ rows \in 1 .. runner.rows /\ runner.rows \in Nat \ {0} /\ Answered(done) /\ done < Len(call)
    BY <1>1, OnItsWay
  <1>3. /\ runner.rows <= runner.engine /\ DOMAIN deviceIn = 1 .. runner.rows
        /\ runner.engine \in Nat \ {0} /\ runner.least \in Nat \ {0}
        /\ shape = 0 \/ shape \in runner.least .. runner.engine
    BY <1>1 DEF BatchInv, BatchTypes, RunnerTypes, LoadedInv
  <1>4. shape' = 0 \/ shape' \in runner.least .. runner.engine
    BY <1>1, <1>3
  <1>5. DOMAIN deviceIn' = DOMAIN deviceIn
    BY <1>1
  <1>6. CASE Fail
    <2>1. shape' \in {shape} \cup runner.least .. runner.engine
      BY <1>1
    <2> QED BY <1>1, <1>5, <1>6, <2>1, FailStep
  <1>7. CASE ~Fail
    <2>1. running' = "execute" /\ results' = results
      BY <1>7 DEF Upload
    <2>2. BatchTypes'
      BY <1>1, <1>4, <2>1 DEF BatchInv, BatchTypes, RunnerTypes
    <2>3. LoadedInv'
      BY <1>1, <1>5, <2>1 DEF BatchInv, LoadedInv
    <2>4. Chunk' = Chunk
      BY <1>1, SameChunk
    <2>5. \A i \in 1 .. rows : deviceIn'[i] = Chunk[i]
      <3>1. \A i \in 1 .. rows : i \in DOMAIN deviceIn /\ i <= rows
        BY <1>2, <1>3
      <3> QED BY <1>1, <3>1
    <2>6. Holds(deviceIn)'
      BY <2>4, <2>5 DEF Holds
    <2>7. runner.fixed \/ shape' = 0 \/ rows <= shape'
      <3>1. CASE ~runner.fixed /\ taken
        BY <1>1, <1>2, <3>1
      <3>2. CASE ~taken
        <4>1. rows < runner.least
          BY <1>2, <1>3, <3>2
        <4>2. shape' = shape
          BY <1>1, <3>2
        <4> QED BY <1>2, <1>3, <4>1, <4>2
      <3> QED BY <3>1, <3>2
    <2>8. Answered(done)'
      BY <1>1, <1>2, <2>1 DEF Answered
    <2>9. CallsInv'
      BY <1>1, <1>2, <2>1, <2>4, <2>6, <2>7, <2>8 DEF CallsInv
    <2> QED BY <2>2, <2>3, <2>9 DEF BatchInv
  <1> QED BY <1>6, <1>7

LEMMA ExecuteStep ==
    ASSUME BatchInv, Execute
    PROVE  BatchInv'
  <1>1. /\ running = "execute" /\ UNCHANGED <<runner, calls, call, done, shape, deviceIn>>
    BY DEF Execute
  <1>2. CASE Fail /\ UNCHANGED deviceOut
    BY <1>1, <1>2, FailStep
  <1>3. CASE ~(Fail /\ UNCHANGED deviceOut)
    <2>1. /\ Executed > 0 /\ running' = "decode" /\ results' = results
          /\ deviceOut' = [i \in DOMAIN deviceOut |->
                 CASE i > Executed -> deviceOut[i]
                   [] i \in DOMAIN deviceIn -> deviceIn[i]
                   [] OTHER -> 0]
      BY <1>3 DEF Execute
    <2>2. /\ Len(Chunk) \in 1 .. runner.rows /\ runner.rows \in Nat \ {0}
          /\ Answered(done) /\ done < Len(call)
      BY <1>1, OnItsWay
    <2>3. /\ runner.kind \in TensorRT /\ runner.rows <= runner.engine /\ runner.engine \in Nat \ {0}
          /\ DOMAIN deviceIn = 1 .. runner.rows
          /\ DOMAIN deviceOut = 1 .. IF runner.fixed THEN runner.engine ELSE runner.rows
          /\ Holds(deviceIn) /\ (runner.fixed \/ shape = 0 \/ Len(Chunk) <= shape)
          /\ shape \in Nat
      BY <1>1 DEF BatchInv, BatchTypes, RunnerTypes, LoadedInv, CallsInv
    <2>4. Executed \in Nat /\ Len(Chunk) <= Executed
      BY <2>1, <2>2, <2>3 DEF Executed
    <2>5. \A i \in 1 .. Len(Chunk) : i \in DOMAIN deviceIn /\ i \in DOMAIN deviceOut /\ ~(i > Executed)
      BY <2>2, <2>3, <2>4
    <2>6. \A i \in 1 .. Len(Chunk) : deviceOut'[i] = Chunk[i]
      BY <2>1, <2>3, <2>5 DEF Holds
    <2>7. Chunk' = Chunk
      BY <1>1, SameChunk
    <2>8. Holds(deviceOut)'
      BY <2>6, <2>7 DEF Holds
    <2>9. BatchTypes'
      BY <1>1, <2>1 DEF BatchInv, BatchTypes, RunnerTypes
    <2>10. DOMAIN deviceOut' = DOMAIN deviceOut
      BY <2>1
    <2>11. LoadedInv'
      BY <1>1, <2>1, <2>10 DEF BatchInv, LoadedInv
    <2>12. Answered(done)'
      BY <1>1, <2>1, <2>2 DEF Answered
    <2>13. CallsInv'
      BY <1>1, <2>1, <2>2, <2>8, <2>12 DEF CallsInv
    <2> QED BY <2>9, <2>11, <2>13 DEF BatchInv
  <1> QED BY <1>2, <1>3

LEMMA ForwardStep ==
    ASSUME BatchInv, Forward
    PROVE  BatchInv'
  <1>1. /\ running = "chunk" /\ runner.kind = "torch"
        /\ UNCHANGED <<runner, calls, call, done, shape, deviceIn>>
    BY DEF Forward
  <1>2. CASE Fail /\ UNCHANGED deviceOut
    BY <1>1, <1>2, FailStep
  <1>3. CASE ~(Fail /\ UNCHANGED deviceOut)
    <2>1. deviceOut' = Chunk /\ running' = "decode" /\ results' = results
      BY <1>3 DEF Forward
    <2>2. Answered(done) /\ done < Len(call)
      BY <1>1, OnItsWay
    <2>3. Holds(deviceOut)'
      BY <1>1, <2>1, SameChunk DEF Holds
    <2>4. BatchTypes'
      BY <1>1, <2>1 DEF BatchInv, BatchTypes, RunnerTypes
    <2>5. LoadedInv'
      BY <1>1, <2>1 DEF BatchInv, LoadedInv, TensorRT
    <2>6. Answered(done)'
      BY <1>1, <2>1, <2>2 DEF Answered
    <2>7. CallsInv'
      BY <1>1, <2>1, <2>2, <2>3, <2>6 DEF CallsInv
    <2> QED BY <2>4, <2>5, <2>7 DEF BatchInv
  <1> QED BY <1>2, <1>3

(* A head that does not refuse decodes every frame with its own basis: one   *)
(* of several is the frame's own, and the only one of a batch of one too.    *)
LEMMA OwnBasis ==
    ASSUME NEW n \in Nat \ {0}, NEW i \in 1 .. n, runner.basis # "one",
           BasisOf(BasisRows(n), n, i) # 0
    PROVE  BasisOf(BasisRows(n), n, i) = i
  <1>1. Min({2, n}) = IF 2 <= n THEN 2 ELSE n
    BY LeastOfTwo
  <1>2. BasisRows(n) \in {n, 2}
    BY <1>1 DEF BasisRows
  <1>3. BasisRows(n) = n
    <2>1. BasisRows(n) = n \/ BasisRows(n) = 1
      BY <1>2 DEF BasisOf
    <2> QED BY <1>2, <2>1
  <1> QED BY <1>3 DEF BasisOf

LEMMA DecodeStep ==
    ASSUME BatchInv, Decode
    PROVE  BatchInv'
  <1> DEFINE n == Len(Chunk)
             masks == runner.head = "yolo26_seg"
             basis == [i \in 1 .. n |-> IF masks THEN BasisOf(BasisRows(n), n, i) ELSE i]
             more == [i \in 1 .. n |->
                         [tag |-> Chunk[i], geometry |-> Chunk[i], pixels |-> deviceOut[i],
                          basis |-> IF masks /\ runner.basis = "one" THEN Chunk[i]
                                    ELSE deviceOut[basis[i]]]]
  <1>1. running = "decode" /\ UNCHANGED <<runner, calls, call, shape, deviceIn, deviceOut>>
    BY DEF Decode
  <1>2. CASE Fail /\ UNCHANGED done
    BY <1>1, <1>2, FailStep
  <1>3. CASE ~(Fail /\ UNCHANGED done)
    <2>1. /\ \A i \in 1 .. n : basis[i] # 0
          /\ results' = results \o more /\ done' = done + n
          /\ running' = IF done' = Len(call) THEN "returned" ELSE "chunk"
      BY <1>3 DEF Decode
    <2>2. /\ call \in Seq(Nat) /\ done \in Nat /\ Answered(done)
          /\ n \in Nat \ {0} /\ done + n <= Len(call)
          /\ \A i \in 1 .. n : Chunk[i] = call[done + i]
      BY <1>1, OnItsWay
    <2>3. \A i \in 1 .. n : deviceOut[i] = Chunk[i]
      BY <1>1 DEF BatchInv, CallsInv, Holds
    <2>4. ASSUME NEW i \in 1 .. n PROVE more[i] = Answer(call[done + i])
      <3>1. basis[i] = IF masks THEN BasisOf(BasisRows(n), n, i) ELSE i
        OBVIOUS
      <3>2. (masks /\ runner.basis = "one") \/ basis[i] = i
        BY <2>1, <2>2, <3>1, OwnBasis
      <3>3. more[i] = [tag |-> Chunk[i], geometry |-> Chunk[i], pixels |-> deviceOut[i],
                       basis |-> IF masks /\ runner.basis = "one" THEN Chunk[i]
                                 ELSE deviceOut[basis[i]]]
        OBVIOUS
      <3> HIDE DEF more, basis, masks
      <3>4. deviceOut[i] = Chunk[i] /\ Chunk[i] = call[done + i]
        BY <2>2, <2>3
      <3> QED BY <3>2, <3>3, <3>4 DEF Answer
    <2>5. more = [i \in 1 .. n |-> more[i]]
      OBVIOUS
    <2> HIDE DEF more, basis, masks
    <2>6. PICK m, k : m = n /\ k = done
      OBVIOUS
    <2>7. PICK some : some = more
      OBVIOUS
    <2>8. some = [i \in 1 .. m |-> Answer(call[k + i])]
      BY <2>4, <2>5, <2>6, <2>7
    <2>9. Answered(k + m)'
      <3>1. m \in Nat /\ k \in Nat /\ Answered(k) /\ k + m <= Len(call)
        BY <2>2, <2>6
      <3> QED BY <1>1, <2>1, <2>2, <2>7, <2>8, <3>1, ChunkAnswered
    <2>10. Answered(done)' /\ done' \in Nat /\ done' <= Len(call)
      <3>1. done' = k + m
        BY <2>1, <2>6
      <3>2. done' \in Nat /\ done' <= Len(call)
        BY <2>2, <2>6, <3>1
      <3>3. Answered(done)'
        BY <2>9, <3>1 DEF Answered
      <3> QED BY <3>2, <3>3
    <2> QED BY <1>1, <2>1, <2>10, ProgressStep
  <1> QED BY <1>2, <1>3

LEMMA BatchInvNext ==
    ASSUME BatchInv, [BatchingNext]_batching
    PROVE  BatchInv'
  <1>1. CASE UNCHANGED batching
    <2>1. UNCHANGED <<runner, calls, call, done, shape, deviceIn, deviceOut, results, running>>
      BY <1>1 DEF batching
    <2>2. BatchTypes' /\ LoadedInv'
      BY <2>1 DEF BatchInv, BatchTypes, RunnerTypes, LoadedInv
    <2>3. CallsInv'
      BY <2>1 DEF BatchInv, CallsInv, Answered, Holds, Chunk
    <2> QED BY <2>2, <2>3 DEF BatchInv
  <1>2. CASE BatchingNext
    BY <1>2, LoadStep, DetectStep, MockStep, UploadStep, ExecuteStep, ForwardStep, DecodeStep
    DEF BatchingNext
  <1> QED BY <1>1, <1>2

(* Whatever the chunks, the shape a context was left in and the rows earlier *)
(* chunks, calls and failures left in the buffers, for every batch an engine *)
(* may have: a call answers every frame with its own, or nothing.            *)
THEOREM EveryFrameGetsItsOwn == BatchingSpec => []ResultsFindTheirFrame
  <1>1. BatchingInit => BatchInv
    BY BatchInvInit
  <1>2. BatchInv /\ [BatchingNext]_batching => BatchInv'
    BY BatchInvNext
  <1>3. BatchInv => ResultsFindTheirFrame
    <2> SUFFICES ASSUME BatchInv PROVE ResultsFindTheirFrame
      OBVIOUS
    <2>1. ASSUME running = "returned"
          PROVE  /\ Len(results) = Len(call)
                 /\ \A i \in DOMAIN results : results[i] = Answer(call[i])
      BY <2>1 DEF BatchInv, CallsInv, Answered
    <2>2. running = "failed" => results = <<>>
      BY DEF BatchInv, CallsInv
    <2> QED BY <2>1, <2>2 DEF ResultsFindTheirFrame, Answer
  <1> QED BY <1>1, <1>2, <1>3, PTL DEF BatchingSpec

------------------------------------------------------------------------------
(* The tuning study.                                                         *)

(* A finite set that is strictly ordered has a first element: the one with   *)
(* the least set of elements before it.                                      *)
LEMMA FirstOfFinite ==
    ASSUME NEW S, IsFiniteSet(S), S # {}, NEW R,
           \A x \in S : <<x, x>> \notin R,
           \A x, y, z \in S : <<x, y>> \in R /\ <<y, z>> \in R => <<x, z>> \in R
    PROVE  \E x \in S : \A y \in S : <<y, x>> \notin R
  <1> DEFINE earlier(x) == {y \in S : <<y, x>> \in R}
             smaller == StrictSubsetOrdering(S)
             sets == {earlier(x) : x \in S}
  <1>1. IsWellFoundedOn(smaller, SUBSET S)
    BY FS_StrictSubsetOrderingWellFounded, FS_FiniteSubsetsOfFinite
  <1>2. sets \subseteq SUBSET S /\ sets # {}
    <2>1. \A x \in S : earlier(x) \in SUBSET S
      OBVIOUS
    <2> HIDE DEF earlier
    <2> QED BY <2>1
  <1>3. \E U \in sets : \A V \in sets : ~ (<<V, U>> \in smaller)
    <2> HIDE DEF smaller, sets
    <2> QED BY <1>1, <1>2, WFMin
  <1>4. PICK x \in S : \A y \in S : ~ (<<earlier(y), earlier(x)>> \in smaller)
    <2> HIDE DEF earlier, smaller
    <2> QED BY <1>3
  <1>5. ASSUME NEW y \in S, <<y, x>> \in R PROVE FALSE
    <2>1. earlier(y) \subseteq earlier(x) /\ y \in earlier(x) /\ y \notin earlier(y)
      BY <1>5
    <2>2. <<earlier(y), earlier(x)>> \in smaller
      BY <2>1 DEF StrictSubsetOrdering
    <2> QED BY <1>4, <2>2
  <1> QED BY <1>5

(* What a trial is a record of, with the configuration its sample and the    *)
(* constants of its call make.                                               *)
Configs == [Keywords -> Int]

Samples == UNION {[K -> Int] : K \in SUBSET Keywords}

Trials == {t \in [sampled : Samples, invalid : BOOLEAN, config : Configs,
                  constants : {space.constants : space \in Spaces},
                  state : {"running", "complete", "pruned", "fail"}] :
              t.config = Configured(t.sampled, t.constants)}

Directions == {1, -1}

StudyTypes ==
    /\ trials \in Seq(Trials) /\ jobs \in [Jobs -> [trial : Nat, at : Nat]]
    /\ opened.at \in {"none", "running"}
    /\ opened.at = "running" => opened.space \in {s \in Spaces : Acceptable(s)}
    /\ opened.at = "running" => opened.direction \in Directions
    /\ runs > 0 => report.direction \in Directions

(* A thread has a trial of its own, that is still running and, up to its     *)
(* last case, not tagged; between two calls no thread has one.               *)
ThreadsInv ==
    /\ \A j \in Jobs : jobs[j].trial # 0 =>
          /\ jobs[j].trial \in DOMAIN trials /\ trials[jobs[j].trial].state = "running"
          /\ jobs[j].at <= Cases + 1
          /\ jobs[j].at <= Cases => ~trials[jobs[j].trial].invalid
    /\ \A j \in Jobs : jobs[j].trial = 0 => jobs[j].at = 0
    /\ \A i, j \in Jobs : jobs[i].trial # 0 /\ jobs[i].trial = jobs[j].trial => i = j
    /\ opened.at = "none" => \A j \in Jobs : jobs[j].trial = 0

(* A trial that was tagged ends pruned or not at all.                        *)
TagsInv == \A t \in DOMAIN trials : trials[t].invalid => trials[t].state \in {"running", "pruned"}

(* A running trial has its thread, or had one in a process that died.        *)
HeldInv ==
    \A t \in DOMAIN trials : trials[t].state = "running" =>
        t \in abandoned \/ \E j \in Jobs : jobs[j].trial = t

(* The last result is about the trials as they are: there is no call at hand.*)
ReportInv == report.at = "result" => opened.at = "none" /\ ReportsWhatRan

StudyInv == StudyTypes /\ ThreadsInv /\ TagsInv /\ HeldInv /\ ReportInv

LEMMA StudyInvInit == StudyInit => StudyInv
  <1> SUFFICES ASSUME StudyInit PROVE StudyInv
    OBVIOUS
  <1>1. /\ trials = <<>> /\ jobs = AtRest /\ report = NoCall /\ opened = NoCall /\ runs = 0
    BY DEF StudyInit
  <1>2. trials \in Seq(Trials) /\ DOMAIN trials = {}
    BY <1>1
  <1>3. \A j \in Jobs : jobs[j].trial = 0 /\ jobs[j].at = 0
    BY <1>1 DEF AtRest
  <1>4. jobs \in [Jobs -> [trial : Nat, at : Nat]]
    BY <1>1 DEF AtRest
  <1>5. opened.at = "none" /\ report.at = "none"
    BY <1>1 DEF NoCall
  <1> QED BY <1>1, <1>2, <1>3, <1>4, <1>5
          DEF StudyInv, StudyTypes, ThreadsInv, TagsInv, HeldInv, ReportInv

(* What is sampled is in the ranges, and a configuration gives each keyword  *)
(* a number.                                                                 *)
LEMMA ConfiguredType ==
    ASSUME NEW space \in Spaces, Acceptable(space), NEW sampled \in Samples
    PROVE  Configured(sampled, space.constants) \in Configs
  <1>1. \A k \in DOMAIN sampled : sampled[k] \in Int
    BY DEF Samples
  <1>2. \A k \in Keywords : Shipped[k] \in Int
    BY DEF Keywords, Shipped
  <1>3. \A k \in DOMAIN space.constants : space.constants[k] \in Int
    BY TuningAssumption
  <1> QED BY <1>1, <1>2, <1>3 DEF Configured, Configs

LEMMA SuggestionsType ==
    ASSUME NEW space \in Spaces, Acceptable(space), NEW sampled \in Suggestions(space)
    PROVE  sampled \in Samples
  <1> DEFINE K == DOMAIN space.ranges
  <1>1. K \in SUBSET Keywords
    BY DEF Acceptable
  <1>2. /\ sampled \in [K -> UNION {Range(r) : r \in Range(space.ranges)}]
        /\ \A k \in DOMAIN sampled : sampled[k] \in Range(space.ranges[k])
    BY DEF Suggestions
  <1>3. \A k \in K : sampled[k] \in Int
    BY <1>2, TuningAssumption
  <1>4. sampled \in [K -> Int]
    BY <1>2, <1>3
  <1> QED BY <1>1, <1>4 DEF Samples

(* The shipped configuration with the constants of the call over it.         *)
LEMMA NothingSampled == <<>> \in Samples
  <1>1. <<>> \in [{} -> Int]
    OBVIOUS
  <1> QED BY <1>1 DEF Samples

(* A call begins, and the result of the last one is gone.                    *)
LEMMA RunStudyStep ==
    ASSUME StudyInv, RunStudy
    PROVE  StudyInv'
  <1>1. PICK space \in {s \in Spaces : Acceptable(s)}, direction \in Directions, stored \in BOOLEAN :
          /\ opened' = [at |-> "running", space |-> space, direction |-> direction,
                        stored |-> stored, left |-> TrialsPerCall, failed |-> FALSE]
          /\ report' = [at |-> "running", direction |-> direction]
    BY DEF RunStudy, Directions
  <1>2. UNCHANGED <<trials, jobs, abandoned>>
    BY DEF RunStudy
  <1>3. /\ opened'.at = "running" /\ opened'.space = space /\ opened'.direction = direction
        /\ report'.at = "running" /\ report'.direction = direction
    BY <1>1
  <1>4. StudyTypes'
    BY <1>1, <1>2, <1>3 DEF StudyInv, StudyTypes
  <1>5. ThreadsInv' /\ TagsInv' /\ HeldInv'
    BY <1>2, <1>3 DEF StudyInv, ThreadsInv, TagsInv, HeldInv
  <1> QED BY <1>3, <1>4, <1>5 DEF StudyInv, ReportInv

LEMMA TimeOutStep ==
    ASSUME StudyInv, TimeOut
    PROVE  StudyInv'
  <1>1. /\ opened.at = "running" /\ opened' = [opened EXCEPT !.left = 0]
        /\ UNCHANGED <<trials, jobs, report, abandoned, runs>>
    BY DEF TimeOut
  <1>2. opened'.at = opened.at /\ opened'.space = opened.space /\ opened'.direction = opened.direction
    BY <1>1
  <1>3. StudyTypes' /\ ThreadsInv' /\ TagsInv' /\ HeldInv'
    BY <1>1, <1>2 DEF StudyInv, StudyTypes, ThreadsInv, TagsInv, HeldInv
  <1>4. report'.at # "result"
    BY <1>1 DEF StudyInv, ReportInv
  <1> QED BY <1>3, <1>4 DEF StudyInv, ReportInv

LEMMA DieStep ==
    ASSUME StudyInv, Die
    PROVE  StudyInv'
  <1>1. /\ opened.at = "running" /\ opened' = NoCall /\ jobs' = AtRest
        /\ \/ /\ trials' = trials
              /\ abandoned' = abandoned \cup
                                {t \in DOMAIN trials : \E j \in Jobs : jobs[j].trial = t}
           \/ trials' = <<>>
        /\ report' = [at |-> "died", direction |-> opened.direction]
    BY DEF Die
  <1>2. opened'.at = "none" /\ report'.at = "died" /\ report'.direction = opened.direction
    BY <1>1 DEF NoCall
  <1>3. \A j \in Jobs : jobs'[j].trial = 0 /\ jobs'[j].at = 0
    BY <1>1 DEF AtRest
  <1>4. jobs' \in [Jobs -> [trial : Nat, at : Nat]]
    BY <1>1 DEF AtRest
  <1>5. trials' \in Seq(Trials)
    <2>1. <<>> \in Seq(Trials)
      OBVIOUS
    <2> QED BY <1>1, <2>1 DEF StudyInv, StudyTypes
  <1>6. opened.direction \in Directions
    BY <1>1 DEF StudyInv, StudyTypes
  <1>7. StudyTypes'
    BY <1>2, <1>4, <1>5, <1>6 DEF StudyTypes
  <1>8. ThreadsInv'
    BY <1>3 DEF ThreadsInv
  <1>9. TagsInv' /\ HeldInv'
    BY <1>1 DEF StudyInv, TagsInv, HeldInv
  <1> QED BY <1>2, <1>7, <1>8, <1>9 DEF StudyInv, ReportInv

LEMMA AskStep ==
    ASSUME StudyInv, NEW j \in Jobs, Ask(j)
    PROVE  StudyInv'
  <1>1. /\ opened.at = "running" /\ jobs[j].trial = 0 /\ UNCHANGED <<report, abandoned, runs>>
        /\ jobs' = [jobs EXCEPT ![j] = [trial |-> Len(trials) + 1, at |-> 0]]
        /\ opened' = [opened EXCEPT !.left = @ - 1]
    BY DEF Ask
  <1>2. PICK sampled \in Suggestions(opened.space) :
          trials' = Append(trials, [sampled |-> sampled, invalid |-> FALSE, state |-> "running",
                                    config |-> Configured(sampled, opened.space.constants),
                                    constants |-> opened.space.constants])
    BY DEF Ask
  <1>3. opened'.at = "running" /\ opened'.space = opened.space /\ opened'.direction = opened.direction
    BY <1>1
  <1>4. /\ trials \in Seq(Trials) /\ opened.space \in Spaces /\ Acceptable(opened.space)
        /\ jobs \in [Jobs -> [trial : Nat, at : Nat]] /\ Cases \in Nat
    BY <1>1, TuningAssumption DEF StudyInv, StudyTypes
  <1>5. PICK one \in Trials : /\ trials' = Append(trials, one)
                              /\ one.state = "running" /\ one.invalid = FALSE
    <2>1. sampled \in Samples
      BY <1>4, SuggestionsType
    <2>2. Configured(sampled, opened.space.constants) \in Configs
      BY <1>4, <2>1, ConfiguredType
    <2>3. [sampled |-> sampled, invalid |-> FALSE, state |-> "running",
           config |-> Configured(sampled, opened.space.constants),
           constants |-> opened.space.constants] \in Trials
      BY <1>4, <2>1, <2>2 DEF Trials
    <2> QED BY <1>2, <2>3
  <1>6. PICK n \in Nat : n = Len(trials) /\ DOMAIN trials = 1 .. n
    BY <1>4
  <1>7. /\ trials' \in Seq(Trials) /\ DOMAIN trials' = 1 .. n + 1 /\ trials'[n + 1] = one
        /\ \A t \in 1 .. n : trials'[t] = trials[t]
    BY <1>4, <1>5, <1>6, AppendProperties
  <1>8. /\ jobs' \in [Jobs -> [trial : Nat, at : Nat]]
        /\ jobs'[j].trial = n + 1 /\ jobs'[j].at = 0
        /\ \A i \in Jobs : i # j => jobs'[i] = jobs[i]
    BY <1>1, <1>4, <1>6
  <1>9. StudyTypes'
    BY <1>1, <1>3, <1>7, <1>8 DEF StudyInv, StudyTypes
  <1>10. TagsInv'
    BY <1>5, <1>6, <1>7 DEF StudyInv, TagsInv
  <1>11. ThreadsInv'
    <2>1. ASSUME NEW i \in Jobs, jobs'[i].trial # 0
          PROVE  /\ jobs'[i].trial \in DOMAIN trials' /\ trials'[jobs'[i].trial].state = "running"
                 /\ jobs'[i].at <= Cases + 1
                 /\ jobs'[i].at <= Cases => ~trials'[jobs'[i].trial].invalid
      <3>1. CASE i = j
        BY <1>4, <1>5, <1>6, <1>7, <1>8, <3>1
      <3>2. CASE i # j
        <4>1. jobs[i].trial # 0 /\ jobs'[i] = jobs[i]
          BY <1>8, <2>1, <3>2
        <4>2. /\ jobs[i].trial \in 1 .. n /\ trials[jobs[i].trial].state = "running"
              /\ jobs[i].at <= Cases + 1 /\ (jobs[i].at <= Cases => ~trials[jobs[i].trial].invalid)
          BY <1>6, <4>1 DEF StudyInv, ThreadsInv
        <4> QED BY <1>6, <1>7, <4>1, <4>2
      <3> QED BY <3>1, <3>2
    <2>2. \A i \in Jobs : jobs'[i].trial = 0 => jobs'[i].at = 0
      BY <1>8 DEF StudyInv, ThreadsInv
    <2>3. ASSUME NEW i \in Jobs, NEW k \in Jobs, jobs'[i].trial # 0, jobs'[i].trial = jobs'[k].trial
          PROVE  i = k
      <3>1. \A h \in Jobs : h # j => jobs'[h].trial # n + 1
        BY <1>6, <1>8 DEF StudyInv, ThreadsInv
      <3>2. CASE i # j /\ k # j
        BY <1>8, <2>3, <3>2 DEF StudyInv, ThreadsInv
      <3> QED BY <1>8, <2>3, <3>1, <3>2
    <2> QED BY <1>3, <2>1, <2>2, <2>3 DEF ThreadsInv
  <1>12. report'.at # "result"
    BY <1>1 DEF StudyInv, ReportInv
  <1>13. HeldInv'
    <2>1. ASSUME NEW t \in 1 .. n, trials[t].state = "running", t \notin abandoned
          PROVE  \E i \in Jobs : jobs'[i].trial = t
      <3>1. PICK i \in Jobs : jobs[i].trial = t
        BY <1>6, <2>1 DEF StudyInv, HeldInv
      <3>2. i # j
        BY <1>1, <3>1
      <3> QED BY <1>8, <3>1, <3>2
    <2>2. \A t \in DOMAIN trials' : t \in 1 .. n \/ t = n + 1
      BY <1>6, <1>7
    <2> QED BY <1>1, <1>7, <1>8, <2>1, <2>2 DEF HeldInv
  <1> QED BY <1>9, <1>10, <1>11, <1>12, <1>13 DEF StudyInv, ReportInv

(* A trial ends, and its thread is free: a tagged one does not complete.     *)
LEMMA EndedStep ==
    ASSUME StudyInv, NEW j \in Jobs, jobs[j].trial # 0,
           NEW state \in {"complete", "pruned", "fail"}, Ended(j, state),
           state # "pruned" => ~trials[jobs[j].trial].invalid,
           opened'.at = opened.at, opened'.space = opened.space, opened'.direction = opened.direction,
           UNCHANGED <<report, abandoned, runs>>
    PROVE  StudyInv'
  <1>1. /\ trials \in Seq(Trials) /\ jobs \in [Jobs -> [trial : Nat, at : Nat]]
        /\ jobs[j].trial \in DOMAIN trials /\ opened.at = "running"
    BY DEF StudyInv, StudyTypes, ThreadsInv
  <1>2. PICK t \in DOMAIN trials : t = jobs[j].trial
    BY <1>1
  <1>3. /\ trials' = [trials EXCEPT ![t].state = state]
        /\ jobs' = [jobs EXCEPT ![j] = AtRest[j]]
    BY <1>2 DEF Ended
  <1>4. AtRest[j] = [trial |-> 0, at |-> 0]
    BY DEF AtRest
  <1>5. /\ jobs' \in [Jobs -> [trial : Nat, at : Nat]]
        /\ jobs'[j].trial = 0 /\ jobs'[j].at = 0
        /\ \A i \in Jobs : i # j => jobs'[i] = jobs[i]
    BY <1>1, <1>3, <1>4
  <1>6. trials[t] \in Trials
    BY <1>1
  <1>7. PICK one : one = [trials[t] EXCEPT !.state = state]
    OBVIOUS
  <1>8. one \in Trials /\ one.state = state /\ one.invalid = trials[t].invalid
    BY <1>6, <1>7 DEF Trials
  <1>9. trials' = [trials EXCEPT ![t] = one]
    BY <1>3, <1>7
  <1>10. /\ trials' \in Seq(Trials) /\ DOMAIN trials' = DOMAIN trials /\ trials'[t] = one
         /\ \A u \in DOMAIN trials : u # t => trials'[u] = trials[u]
    BY <1>1, <1>2, <1>8, <1>9
  <1>11. StudyTypes'
    BY <1>5, <1>10 DEF StudyInv, StudyTypes
  <1>12. TagsInv'
    BY <1>2, <1>8, <1>10 DEF StudyInv, TagsInv
  <1>13. ThreadsInv'
    <2>1. ASSUME NEW i \in Jobs, jobs'[i].trial # 0
          PROVE  i # j /\ jobs'[i] = jobs[i] /\ jobs[i].trial # 0 /\ jobs[i].trial # t
      BY <1>2, <1>5, <2>1 DEF StudyInv, ThreadsInv
    <2>2. ASSUME NEW i \in Jobs, jobs'[i].trial # 0
          PROVE  /\ jobs'[i].trial \in DOMAIN trials' /\ trials'[jobs'[i].trial].state = "running"
                 /\ jobs'[i].at <= Cases + 1
                 /\ jobs'[i].at <= Cases => ~trials'[jobs'[i].trial].invalid
      <3>1. i # j /\ jobs'[i] = jobs[i] /\ jobs[i].trial # 0 /\ jobs[i].trial # t
        BY <2>1, <2>2
      <3>2. /\ jobs[i].trial \in DOMAIN trials /\ trials[jobs[i].trial].state = "running"
            /\ jobs[i].at <= Cases + 1 /\ (jobs[i].at <= Cases => ~trials[jobs[i].trial].invalid)
        BY <3>1 DEF StudyInv, ThreadsInv
      <3> QED BY <1>10, <3>1, <3>2
    <2>3. \A i \in Jobs : jobs'[i].trial = 0 => jobs'[i].at = 0
      BY <1>5 DEF StudyInv, ThreadsInv
    <2>4. ASSUME NEW i \in Jobs, NEW k \in Jobs, jobs'[i].trial # 0, jobs'[i].trial = jobs'[k].trial
          PROVE  i = k
      BY <2>1, <2>4 DEF StudyInv, ThreadsInv
    <2> QED BY <1>1, <2>2, <2>3, <2>4 DEF ThreadsInv
  <1>14. report'.at # "result"
    BY <1>1 DEF StudyInv, ReportInv
  <1>15. HeldInv'
    <2>1. ASSUME NEW u \in DOMAIN trials, trials'[u].state = "running", u \notin abandoned
          PROVE  \E i \in Jobs : jobs'[i].trial = u
      <3>1. u # t /\ trials[u].state = "running"
        BY <1>8, <1>10, <2>1
      <3>2. PICK i \in Jobs : jobs[i].trial = u
        BY <2>1, <3>1 DEF StudyInv, HeldInv
      <3>3. i # j
        BY <1>2, <3>1, <3>2
      <3> QED BY <1>5, <3>2, <3>3
    <2> QED BY <1>10, <2>1 DEF HeldInv
  <1> QED BY <1>11, <1>12, <1>13, <1>14, <1>15 DEF StudyInv, ReportInv

(* A thread goes on with its trial, which may just have been tagged.         *)
LEMMA GoesOnStep ==
    ASSUME StudyInv, NEW j \in Jobs, jobs[j].trial # 0,
           NEW at \in Nat, at <= Cases + 1, jobs' = [jobs EXCEPT ![j].at = at],
           \/ trials' = trials /\ (at <= Cases => jobs[j].at <= Cases)
           \/ trials' = [trials EXCEPT ![jobs[j].trial].invalid = TRUE] /\ at = Cases + 1,
           UNCHANGED <<opened, report, abandoned, runs>>
    PROVE  StudyInv'
  <1>1. /\ trials \in Seq(Trials) /\ jobs \in [Jobs -> [trial : Nat, at : Nat]]
        /\ jobs[j].trial \in DOMAIN trials /\ opened.at = "running" /\ Cases \in Nat
        /\ trials[jobs[j].trial].state = "running"
    BY TuningAssumption DEF StudyInv, StudyTypes, ThreadsInv
  <1>2. PICK t \in DOMAIN trials : t = jobs[j].trial
    BY <1>1
  <1>3. /\ jobs' \in [Jobs -> [trial : Nat, at : Nat]]
        /\ jobs'[j].trial = t /\ jobs'[j].at = at
        /\ \A i \in Jobs : i # j => jobs'[i] = jobs[i]
    BY <1>1, <1>2
  <1>4. trials[t] \in Trials
    BY <1>1
  <1>5. PICK one \in Trials :
          /\ trials' = [trials EXCEPT ![t] = one] /\ one.state = "running"
          /\ at <= Cases => ~one.invalid
    <2>1. CASE trials' = trials /\ (at <= Cases => jobs[j].at <= Cases)
      <3>1. trials' = [trials EXCEPT ![t] = trials[t]]
        BY <1>1, <2>1
      <3>2. at <= Cases => ~trials[t].invalid
        BY <1>2, <2>1 DEF StudyInv, ThreadsInv
      <3> QED BY <1>1, <1>2, <1>4, <3>1, <3>2
    <2>2. CASE trials' = [trials EXCEPT ![jobs[j].trial].invalid = TRUE] /\ at = Cases + 1
      <3>1. PICK one : one = [trials[t] EXCEPT !.invalid = TRUE]
        OBVIOUS
      <3>2. one \in Trials /\ one.state = trials[t].state
        BY <1>4, <3>1 DEF Trials
      <3>3. trials' = [trials EXCEPT ![t] = one]
        BY <1>2, <2>2, <3>1
      <3>4. ~(at <= Cases)
        BY <1>1, <2>2
      <3> QED BY <1>1, <1>2, <3>2, <3>3, <3>4
    <2> QED BY <2>1, <2>2
  <1>6. /\ trials' \in Seq(Trials) /\ DOMAIN trials' = DOMAIN trials /\ trials'[t] = one
        /\ \A u \in DOMAIN trials : u # t => trials'[u] = trials[u]
    BY <1>1, <1>2, <1>5
  <1>7. StudyTypes'
    BY <1>3, <1>6 DEF StudyInv, StudyTypes
  <1>8. TagsInv'
    BY <1>5, <1>6 DEF StudyInv, TagsInv
  <1>9. ThreadsInv'
    <2>1. \A i \in Jobs : jobs'[i].trial = jobs[i].trial
      BY <1>2, <1>3
    <2>2. ASSUME NEW i \in Jobs, jobs'[i].trial # 0
          PROVE  /\ jobs'[i].trial \in DOMAIN trials' /\ trials'[jobs'[i].trial].state = "running"
                 /\ jobs'[i].at <= Cases + 1
                 /\ jobs'[i].at <= Cases => ~trials'[jobs'[i].trial].invalid
      <3>1. CASE i = j
        BY <1>2, <1>3, <1>5, <1>6, <3>1
      <3>2. CASE i # j
        <4>1. jobs'[i] = jobs[i] /\ jobs[i].trial # 0 /\ jobs[i].trial # t
          BY <1>2, <1>3, <2>2, <3>2 DEF StudyInv, ThreadsInv
        <4>2. /\ jobs[i].trial \in DOMAIN trials /\ trials[jobs[i].trial].state = "running"
              /\ jobs[i].at <= Cases + 1 /\ (jobs[i].at <= Cases => ~trials[jobs[i].trial].invalid)
          BY <4>1 DEF StudyInv, ThreadsInv
        <4> QED BY <1>6, <4>1, <4>2
      <3> QED BY <3>1, <3>2
    <2>3. \A i \in Jobs : jobs'[i].trial = 0 => jobs'[i].at = 0
      <3>1. \A i \in Jobs : jobs'[i].trial = 0 => i # j
        BY <1>2, <1>3
      <3> QED BY <1>3, <3>1 DEF StudyInv, ThreadsInv
    <2>4. \A i, k \in Jobs : jobs'[i].trial # 0 /\ jobs'[i].trial = jobs'[k].trial => i = k
      BY <2>1 DEF StudyInv, ThreadsInv
    <2> QED BY <1>1, <2>2, <2>3, <2>4 DEF ThreadsInv
  <1>10. report'.at # "result"
    BY <1>1 DEF StudyInv, ReportInv
  <1>11. HeldInv'
    <2>1. \A i \in Jobs : jobs'[i].trial = jobs[i].trial
      BY <1>2, <1>3
    <2>2. \A u \in DOMAIN trials : trials'[u].state = trials[u].state
      BY <1>1, <1>2, <1>5, <1>6
    <2> QED BY <1>6, <2>1, <2>2 DEF StudyInv, HeldInv
  <1> QED BY <1>7, <1>8, <1>9, <1>10, <1>11 DEF StudyInv, ReportInv

(* A case: a refused configuration is tagged, and after the last case the    *)
(* trial was never tagged.                                                   *)
LEMMA RunCaseStep ==
    ASSUME StudyInv, NEW j \in Jobs, RunCase(j)
    PROVE  StudyInv'
  <1>1. /\ jobs[j].trial # 0 /\ jobs[j].at < Cases /\ UNCHANGED <<opened, report, abandoned, runs>>
        /\ \/ /\ trials' = [trials EXCEPT ![jobs[j].trial].invalid = TRUE]
              /\ jobs' = [jobs EXCEPT ![j].at = Cases + 1]
           \/ jobs' = [jobs EXCEPT ![j].at = @ + 1] /\ trials' = trials
           \/ Ended(j, "pruned")
    BY DEF RunCase
  <1>2. jobs \in [Jobs -> [trial : Nat, at : Nat]] /\ Cases \in Nat
    BY TuningAssumption DEF StudyInv, StudyTypes
  <1>3. PICK at \in Nat : at = jobs[j].at
    BY <1>2
  <1>4. CASE /\ trials' = [trials EXCEPT ![jobs[j].trial].invalid = TRUE]
             /\ jobs' = [jobs EXCEPT ![j].at = Cases + 1]
    <2>1. Cases + 1 \in Nat /\ Cases + 1 <= Cases + 1
      BY <1>2
    <2> QED BY <1>1, <1>4, <2>1, GoesOnStep
  <1>5. CASE jobs' = [jobs EXCEPT ![j].at = @ + 1] /\ trials' = trials
    <2>1. at + 1 \in Nat /\ at + 1 <= Cases + 1 /\ jobs[j].at <= Cases
      BY <1>1, <1>2, <1>3
    <2>2. jobs' = [jobs EXCEPT ![j].at = at + 1]
      BY <1>3, <1>5
    <2> QED BY <1>1, <1>5, <2>1, <2>2, GoesOnStep
  <1>6. CASE Ended(j, "pruned")
    BY <1>1, <1>6, EndedStep
  <1> QED BY <1>1, <1>4, <1>5, <1>6

LEMMA TellStep ==
    ASSUME StudyInv, NEW j \in Jobs, Tell(j)
    PROVE  StudyInv'
  <1>1. /\ jobs[j].at >= Cases /\ UNCHANGED <<opened, report, abandoned, runs>>
        /\ Ended(j, IF jobs[j].at = Cases THEN "complete" ELSE "pruned")
    BY DEF Tell
  <1>2. Cases \in Nat \ {0}
    BY TuningAssumption
  <1>3. jobs[j].trial # 0
    BY <1>1, <1>2 DEF StudyInv, ThreadsInv
  <1>4. PICK state \in {"complete", "pruned", "fail"} :
          state = IF jobs[j].at = Cases THEN "complete" ELSE "pruned"
    OBVIOUS
  <1>5. state # "pruned" => ~trials[jobs[j].trial].invalid
    <2>1. state # "pruned" => jobs[j].at <= Cases
      BY <1>2, <1>4
    <2> QED BY <1>3, <2>1 DEF StudyInv, ThreadsInv
  <1>6. Ended(j, state)
    BY <1>1, <1>4
  <1> QED BY <1>1, <1>3, <1>5, <1>6, EndedStep

LEMMA RaiseStep ==
    ASSUME StudyInv, NEW j \in Jobs, Raise(j)
    PROVE  StudyInv'
  <1>1. /\ jobs[j].trial # 0 /\ Ended(j, "fail") /\ UNCHANGED <<report, abandoned, runs>>
        /\ jobs[j].at < Cases
        /\ opened' = [opened EXCEPT !.left = 0, !.failed = TRUE]
    BY DEF Raise
  <1>2. opened'.at = opened.at /\ opened'.space = opened.space /\ opened'.direction = opened.direction
    BY <1>1
  <1>3. jobs[j].at <= Cases
    BY <1>1, TuningAssumption DEF StudyInv, StudyTypes
  <1>4. ~trials[jobs[j].trial].invalid
    BY <1>1, <1>3 DEF StudyInv, ThreadsInv
  <1> QED BY <1>1, <1>2, <1>4, EndedStep

(* The best of the trials that completed is one of them, and none of them    *)
(* has a greater value.                                                      *)
LEMMA BestIsBest ==
    ASSUME trials \in Seq(Trials), In("complete") # {}, opened.direction \in Directions
    PROVE  /\ BestTrial \in In("complete")
           /\ \A u \in In("complete") : Value(trials[u].config, opened.direction)
                                          <= Value(trials[BestTrial].config, opened.direction)
  <1> DEFINE V(t) == Value(trials[t].config, opened.direction)
             Worse == {p \in In("complete") \X In("complete") :
                           V(p[1]) > V(p[2]) \/ (V(p[1]) = V(p[2]) /\ p[1] < p[2])}
  <1>1. PICK n \in Nat : DOMAIN trials = 1 .. n
    OBVIOUS
  <1>2. In("complete") \subseteq 1 .. n
    BY <1>1 DEF In
  <1>3. IsFiniteSet(In("complete"))
    BY <1>1, <1>2, FS_Interval, FS_Subset
  <1>4. ASSUME NEW t \in In("complete") PROVE V(t) \in Int /\ t \in Nat
    <2>1. trials[t].config \in Configs
      <3>1. t \in DOMAIN trials
        BY DEF In
      <3>2. trials[t] \in Trials
        BY <3>1
      <3> QED BY <3>2 DEF Trials
    <2>2. PICK c \in Configs, d \in {1, -1} : c = trials[t].config /\ d = opened.direction
      BY <2>1 DEF Directions
    <2>3. c.track \in Int /\ c.low \in Int
      BY <2>2 DEF Configs, Keywords, Shipped
    <2>4. Value(c, d) \in Int
      <3>1. PICK track \in Int, low \in Int : track = c.track /\ low = c.low
        BY <2>3
      <3>2. d * (1000 * track + low) \in Int
        <4>1. d = 1 \/ d = -1
          OBVIOUS
        <4> QED BY <4>1
      <3> QED BY <3>1, <3>2 DEF Value
    <2> QED BY <1>2, <2>2, <2>4
  <1>5. \A x, y \in In("complete") : <<x, y>> \in Worse
            <=> (V(x) > V(y) \/ (V(x) = V(y) /\ x < y))
    OBVIOUS
  <1> HIDE DEF V, Worse
  <1>6. \A x \in In("complete") : <<x, x>> \notin Worse
    BY <1>4, <1>5
  <1>7. \A x, y, z \in In("complete") :
            <<x, y>> \in Worse /\ <<y, z>> \in Worse => <<x, z>> \in Worse
    BY <1>4, <1>5
  <1>8. \E x \in In("complete") : \A y \in In("complete") : <<y, x>> \notin Worse
    BY <1>3, <1>6, <1>7, FirstOfFinite
  <1>9. PICK x \in In("complete") : \A y \in In("complete") : V(x) > V(y) \/ (V(x) = V(y) /\ x <= y)
    <2>1. PICK x \in In("complete") : \A y \in In("complete") : <<y, x>> \notin Worse
      BY <1>8
    <2>2. ASSUME NEW y \in In("complete") PROVE V(x) > V(y) \/ (V(x) = V(y) /\ x <= y)
      <3>1. ~ (V(y) > V(x) \/ (V(y) = V(x) /\ y < x))
        BY <1>5, <2>1
      <3>2. V(x) \in Int /\ V(y) \in Int /\ x \in Nat /\ y \in Nat
        BY <1>4
      <3> QED BY <3>1, <3>2
    <2> QED BY <2>2
  <1>10. BestTrial = CHOOSE t \in In("complete") : \A u \in In("complete") :
                        V(t) > V(u) \/ (V(t) = V(u) /\ t <= u)
    BY DEF BestTrial, V
  <1>11. /\ BestTrial \in In("complete")
         /\ \A u \in In("complete") : V(BestTrial) > V(u) \/ (V(BestTrial) = V(u) /\ BestTrial <= u)
    BY <1>9, <1>10
  <1>12. \A u \in In("complete") : V(u) <= V(BestTrial)
    BY <1>4, <1>11
  <1> QED BY <1>11, <1>12 DEF V

(* What the pruner stopped and what was tagged, from the two the code counts.*)
LEMMA TalliesAdd ==
    ASSUME trials \in Seq(Trials)
    PROVE  \E p, t, both \in Nat :
              /\ p = Cardinality(In("pruned")) /\ t = Cardinality(Tagged)
              /\ both = Cardinality(Tagged \cap In("pruned")) /\ both <= p /\ both <= t
              /\ Cardinality(In("pruned") \ Tagged) = p - both
              /\ Cardinality(Tagged \ In("pruned")) = t - both
  <1>1. PICK n \in Nat : DOMAIN trials = 1 .. n
    OBVIOUS
  <1>2. PICK P, T : P = In("pruned") /\ T = Tagged
    OBVIOUS
  <1>3. P \subseteq 1 .. n /\ T \subseteq 1 .. n
    BY <1>1, <1>2 DEF In, Tagged
  <1>4. IsFiniteSet(P) /\ IsFiniteSet(T)
    <2>1. IsFiniteSet(1 .. n)
      BY FS_Interval
    <2> QED BY <1>3, <2>1, FS_Subset
  <1>5. PICK B : B = T \cap P
    OBVIOUS
  <1>6. IsFiniteSet(B) /\ Cardinality(B) <= Cardinality(P) /\ Cardinality(B) <= Cardinality(T)
    BY <1>4, <1>5, FS_Subset
  <1>7. Cardinality(P) \in Nat /\ Cardinality(T) \in Nat /\ Cardinality(B) \in Nat
    BY <1>4, <1>6, FS_CardinalityType
  <1>8. /\ Cardinality(P \ T) = Cardinality(P) - Cardinality(P \cap T)
        /\ Cardinality(T \ P) = Cardinality(T) - Cardinality(T \cap P)
    BY <1>4, FS_Difference
  <1>9. P \cap T = B /\ T \cap P = B
    BY <1>5
  <1> QED BY <1>2, <1>6, <1>7, <1>8, <1>9

(* A call ends: refused, or with a result the trials bear out.               *)
LEMMA ConcludeStep ==
    ASSUME StudyInv, Conclude
    PROVE  StudyInv'
  <1> DEFINE refused == \/ opened.failed \/ In("complete") = {}
                        \/ Rejected(Configured(<<>>, opened.space.constants))
                        \/ Rejected(BestParameters)
             surplus == Cardinality(In("pruned")) - Cardinality(Tagged)
  <1>1. /\ opened.at = "running" /\ \A j \in Jobs : jobs[j].trial = 0
        /\ opened' = NoCall /\ UNCHANGED <<trials, jobs, abandoned>>
    BY DEF Conclude
  <1>2. report' = IF refused
                  THEN [at |-> "refused", direction |-> opened.direction]
                  ELSE [at |-> "result", direction |-> opened.direction, best |-> BestParameters,
                        baseline |-> Configured(<<>>, opened.space.constants),
                        trials |-> Cardinality(In("complete")),
                        pruned |-> IF surplus > 0 THEN surplus ELSE 0,
                        invalid |-> Cardinality(Tagged), constants |-> opened.space.constants]
    BY DEF Conclude
  <1>3. opened.direction \in Directions /\ trials \in Seq(Trials) /\ TagsInv /\ HeldInv
    BY <1>1 DEF StudyInv, StudyTypes
  <1>4. report'.direction = opened.direction
    <2> HIDE DEF refused, surplus
    <2> QED BY <1>2
  <1>5. report'.at = "result" =>
          /\ ~refused /\ report'.best = BestParameters /\ report'.constants = opened.space.constants
          /\ report'.trials = Cardinality(In("complete")) /\ report'.invalid = Cardinality(Tagged)
          /\ report'.pruned = IF surplus > 0 THEN surplus ELSE 0
    <2> HIDE DEF refused, surplus
    <2> QED BY <1>2
  <1>6. opened'.at = "none"
    BY <1>1 DEF NoCall
  <1>7. StudyTypes' /\ ThreadsInv' /\ TagsInv' /\ HeldInv'
    BY <1>1, <1>3, <1>4, <1>6 DEF StudyInv, StudyTypes, ThreadsInv, TagsInv, HeldInv
  <1>8. ASSUME report'.at = "result" PROVE ReportsWhatRan'
    <2>1. In("complete") # {} /\ BestTrial \in In("complete")
      BY <1>3, <1>5, <1>8, BestIsBest
    <2>2. PICK best : best = BestTrial
      OBVIOUS
    <2>3. PICK r : r = report'
      OBVIOUS
    <2>4. /\ r.best = Configured(trials[best].sampled, r.constants)
          /\ r.direction = opened.direction
      BY <1>4, <1>5, <1>8, <2>2, <2>3 DEF BestParameters
    <2>5. /\ best \in In("complete")
          /\ \A u \in In("complete") : Value(trials[u].config, r.direction)
                                         <= Value(trials[best].config, r.direction)
      BY <1>3, <2>1, <2>2, <2>4, BestIsBest
    <2>6. /\ trials[best].constants = r.constants => r.best = trials[best].config
          /\ \A k \in Keywords \ (DOMAIN trials[best].constants \cup DOMAIN r.constants) :
                r.best[k] = trials[best].config[k]
      <3>1. best \in DOMAIN trials
        BY <2>5 DEF In
      <3>2. trials[best] \in Trials
        BY <1>3, <3>1
      <3>3. trials[best].config = Configured(trials[best].sampled, trials[best].constants)
        BY <3>2 DEF Trials
      <3> QED BY <2>4, <3>3 DEF Configured
    <2>7. Tagged \ In("pruned") \subseteq abandoned
      <3>1. ASSUME NEW t \in Tagged, t \notin In("pruned")
            PROVE  t \in abandoned
        <4>1. t \in DOMAIN trials /\ trials[t].state = "running"
          BY <1>3, <3>1 DEF Tagged, In, TagsInv
        <4>2. 0 \notin DOMAIN trials
          BY <1>3
        <4> QED BY <1>1, <1>3, <4>1, <4>2 DEF HeldInv
      <3> QED BY <3>1
    <2>8. /\ r.trials = Cardinality(In("complete"))
          /\ r.invalid = Cardinality(Tagged \cap In("pruned")) + Cardinality(Tagged \ In("pruned"))
          /\ r.pruned \in Cardinality(In("pruned") \ Tagged) - Cardinality(Tagged \ In("pruned"))
                             .. Cardinality(In("pruned") \ Tagged)
      <3>1. PICK p, t, both \in Nat :
              /\ p = Cardinality(In("pruned")) /\ t = Cardinality(Tagged)
              /\ both = Cardinality(Tagged \cap In("pruned")) /\ both <= p /\ both <= t
              /\ Cardinality(In("pruned") \ Tagged) = p - both
              /\ Cardinality(Tagged \ In("pruned")) = t - both
        BY <1>3, TalliesAdd
      <3>2. /\ r.trials = Cardinality(In("complete")) /\ r.invalid = t
            /\ r.pruned = IF p - t > 0 THEN p - t ELSE 0
        BY <1>5, <1>8, <2>3, <3>1
      <3>3. t = both + (t - both) /\ r.pruned \in (p - both) - (t - both) .. p - both
        BY <3>1, <3>2
      <3> QED BY <3>1, <3>2, <3>3
    <2>9. /\ In("complete")' = In("complete") /\ In("pruned")' = In("pruned")
          /\ Tagged' = Tagged /\ trials' = trials /\ abandoned' = abandoned
      BY <1>1 DEF In, Tagged
    <2> HIDE DEF refused, surplus
    <2> QED BY <2>3, <2>5, <2>6, <2>7, <2>8, <2>9 DEF ReportsWhatRan
  <1> QED BY <1>6, <1>7, <1>8 DEF StudyInv, ReportInv

LEMMA StudyInvNext ==
    ASSUME StudyInv, [StudyNext]_study
    PROVE  StudyInv'
  <1>1. CASE UNCHANGED study
    <2>1. UNCHANGED <<trials, opened, jobs, report, abandoned, runs>>
      BY <1>1 DEF study
    <2>2. StudyTypes' /\ ThreadsInv' /\ TagsInv' /\ HeldInv'
      BY <2>1 DEF StudyInv, StudyTypes, ThreadsInv, TagsInv, HeldInv
    <2>3. ReportInv'
      BY <2>1 DEF StudyInv, ReportInv, ReportsWhatRan, In, Tagged
    <2> QED BY <2>2, <2>3 DEF StudyInv
  <1>2. CASE StudyNext
    BY <1>2, RunStudyStep, TimeOutStep, DieStep, ConcludeStep, AskStep, RunCaseStep, TellStep,
       RaiseStep DEF StudyNext
  <1> QED BY <1>1, <1>2

(* Whatever the threads interleave, the sampler suggests, the pruner stops,  *)
(* a process leaves behind when it dies and a later call resumes, with other *)
(* constants or not: a study reports the best of the trials that completed,  *)
(* with what it ran with wherever this call's constants do not decide; every *)
(* tag on a trial that never ended was left by a dead process, and the       *)
(* tallies miss at most one trial the pruner stopped for each of those.      *)
THEOREM StudyReportsWhatRan == StudySpec => []ReportsWhatRan
  <1>1. StudyInit => StudyInv
    BY StudyInvInit
  <1>2. StudyInv /\ [StudyNext]_study => StudyInv'
    BY StudyInvNext
  <1>3. StudyInv => ReportsWhatRan
    <2> SUFFICES ASSUME StudyInv, report.at = "result" PROVE ReportsWhatRan
      BY DEF ReportsWhatRan
    <2> QED BY DEF StudyInv, ReportInv
  <1> QED BY <1>1, <1>2, <1>3, PTL DEF StudySpec

------------------------------------------------------------------------------
(* The registry: no registration makes another unreachable, for any names,   *)
(* backends and order of imports.  EveryNameReachable is inductive: what a   *)
(* build imports was registered before it, so only a registration changes    *)
(* the names.                                                                *)

(* The names that keys stand for.                                           *)
LEMMA NamesGrow ==
    ASSUME NEW name, NEW backend, Registered' = Registered \cup {<<name, backend>>}
    PROVE  Names' = Names \cup {name}
  <1>1. <<name, backend>>[1] = name
    OBVIOUS
  <1> QED BY <1>1 DEF Names

(* Importing what is lazy leaves what is registered.                        *)
LEMMA ImportKeeps ==
    ASSUME NEW keys, keys \subseteq Registered, Imported(keys)
    PROVE  Registered' = Registered
  BY DEF Imported, Registered

(* What is asked for by name and backend, and there.                        *)
LEMMA PinnedKeeps == BuildPinned => Registered' = Registered /\ aliases' = aliases
  <1> SUFFICES ASSUME BuildPinned PROVE Registered' = Registered /\ aliases' = aliases
    OBVIOUS
  <1>1. PICK name \in Spellings, backend \in Backends :
            Imported({<<Resolve(name), backend>>} \cap Registered)
    BY DEF BuildPinned
  <1>2. Registered' = Registered
    BY <1>1, ImportKeeps
  <1> QED BY <1>2 DEF BuildPinned

(* What a fall-through tries are candidates.                                *)
LEMMA BuildKeeps == Build => Registered' = Registered /\ aliases' = aliases
  <1> SUFFICES ASSUME Build PROVE Registered' = Registered /\ aliases' = aliases
    OBVIOUS
  <1>1. PICK name \in Spellings :
            LET able == {i \in Candidates(name) : Runs(Preference[i])}
                tried == {Preference[i] : i \in {j \in Candidates(name) : \A k \in able : j <= k}}
            IN Imported({Resolve(name)} \X tried)
    BY DEF Build
  <1> DEFINE able == {i \in Candidates(name) : Runs(Preference[i])}
             tried == {Preference[i] : i \in {j \in Candidates(name) : \A k \in able : j <= k}}
  <1>2. \A b \in tried : <<Resolve(name), b>> \in Registered
    BY DEF Candidates
  <1>3. {Resolve(name)} \X tried \subseteq Registered
    BY <1>2
  <1>4. Imported({Resolve(name)} \X tried)
    BY <1>1
  <1>5. Registered' = Registered
    BY <1>3, <1>4, ImportKeeps
  <1> QED BY <1>5 DEF Build

(* A registration that is claimed adds one name, and aliases of it that no   *)
(* other name or alias has.                                                  *)
LEMMA RegisterReaches == EveryNameReachable /\ Register => EveryNameReachable'
  <1> SUFFICES ASSUME EveryNameReachable, Register PROVE EveryNameReachable'
    OBVIOUS
  <1>1. PICK name \in Spellings, backend \in Backends, wanted \in SUBSET Spellings, isLazy \in BOOLEAN :
            /\ Claimable(name, backend, wanted)
            /\ aliases' = [a \in DOMAIN aliases \cup wanted |-> IF a \in wanted THEN name ELSE aliases[a]]
            /\ entries' = IF isLazy THEN entries ELSE entries \cup {<<name, backend>>}
            /\ lazy' = IF isLazy THEN lazy \cup {<<name, backend>>} ELSE lazy
    BY DEF Register
  <1>2. Registered' = Registered \cup {<<name, backend>>}
    BY <1>1 DEF Registered
  <1>3. Names' = Names \cup {name}
    BY <1>2, NamesGrow
  <1>4. ASSUME NEW n \in Names' PROVE Resolve(n)' = n
    <2>1. CASE n \in wanted
      <3>1. n = name
        BY <1>1, <1>3, <2>1 DEF Claimable, Shadows
      <3>2. aliases'[n] = name /\ n \in DOMAIN aliases'
        BY <1>1, <2>1
      <3> QED BY <3>1, <3>2 DEF Resolve
    <2>2. CASE n \notin wanted /\ n \in DOMAIN aliases
      <3>1. aliases[n] = n
        BY <1>1, <1>3, <2>2 DEF Claimable, Shadows, EveryNameReachable, Resolve
      <3>2. aliases'[n] = aliases[n]
        BY <1>1, <2>2
      <3> QED BY <3>1, <3>2 DEF Resolve
    <2>3. CASE n \notin wanted /\ n \notin DOMAIN aliases
      <3>1. n \notin DOMAIN aliases'
        BY <1>1, <2>3
      <3> QED BY <3>1 DEF Resolve
    <2> QED BY <2>1, <2>2, <2>3
  <1>5. ASSUME NEW a \in DOMAIN aliases' PROVE aliases'[a] \in Names'
    BY <1>1, <1>3 DEF EveryNameReachable
  <1> QED BY <1>4, <1>5 DEF EveryNameReachable

(* A listed name is always found under its own spelling and an alias always  *)
(* leads to a listed name, whatever was imported in whatever order: the      *)
(* check of _claim (shipvision/registry.py) sees both directions.            *)
THEOREM AlwaysReachable == RegistrySpec => []EveryNameReachable
  <1>1. RegistryInit => EveryNameReachable
    BY DEF RegistryInit, EveryNameReachable, Names, Registered
  <1>2. EveryNameReachable /\ [RegistryNext]_registry => EveryNameReachable'
    <2> SUFFICES ASSUME EveryNameReachable, [RegistryNext]_registry PROVE EveryNameReachable'
      OBVIOUS
    <2>1. CASE Register
      BY <2>1, RegisterReaches
    <2>2. ASSUME Registered' = Registered, aliases' = aliases PROVE EveryNameReachable'
      BY <2>2 DEF EveryNameReachable, Names, Resolve
    <2>3. CASE SetEnvironment
      BY <2>2, <2>3 DEF SetEnvironment, Registered
    <2>4. CASE BuildPinned
      BY <2>2, <2>4, PinnedKeeps
    <2>5. CASE Build
      BY <2>2, <2>5, BuildKeeps
    <2>6. CASE UNCHANGED registry
      BY <2>2, <2>6 DEF registry, Registered
    <2> QED BY <2>1, <2>3, <2>4, <2>5, <2>6 DEF RegistryNext
  <1> QED BY <1>1, <1>2, PTL DEF RegistrySpec

------------------------------------------------------------------------------
(* Suppression: numbers one after the other, and what recurs along them.     *)
LEMMA EveryNumber ==
    ASSUME NEW P, 0 \in P, \A n \in Nat : n \in P => n + 1 \in P
    PROVE  \A n \in Nat : n \in P
  <1> DEFINE bad == {n \in Nat : n \notin P}
  <1> SUFFICES ASSUME bad # {} PROVE FALSE
    OBVIOUS
  <1>1. \E n \in bad : \A m \in bad : ~ (<<m, n>> \in OpToRel(<, Nat))
    <2>1. bad \subseteq Nat
      OBVIOUS
    <2> HIDE DEF bad
    <2> QED BY <2>1, NatLessThanWellFounded, WFMin
  <1>2. PICK n \in bad : \A m \in bad : ~ (m < n)
    BY <1>1 DEF OpToRel
  <1>3. n \in Nat /\ n # 0 /\ n - 1 \in Nat /\ n - 1 < n /\ (n - 1) + 1 = n
    OBVIOUS
  <1>4. n - 1 \in P
    BY <1>2, <1>3
  <1> QED BY <1>3, <1>4

LEMMA AsLong ==
    ASSUME NEW m \in Nat, NEW n \in Nat, 1 .. m = 1 .. n
    PROVE  m = n
  <1>1. m # 0 => m \in 1 .. m
    OBVIOUS
  <1>2. n # 0 => n \in 1 .. n
    OBVIOUS
  <1>3. m # 0 => m \in 1 .. n
    BY <1>1
  <1>4. n # 0 => n \in 1 .. m
    BY <1>2
  <1>5. m <= n /\ n <= m
    BY <1>3, <1>4
  <1> QED BY <1>5

Recurs(f, n, a, step) == f[0] = a /\ \A i \in 1 .. n : f[i] = step[<<i, f[i - 1]>>]

LEMMA RecurrenceExists ==
    ASSUME NEW n \in Nat, NEW V, NEW a \in V, NEW step \in [(1 .. n) \X V -> V]
    PROVE  \E f \in [0 .. n -> V] : Recurs(f, n, a, step)
  <1> DEFINE P == {m \in Nat : m <= n => \E f \in [0 .. m -> V] : Recurs(f, m, a, step)}
  <1>1. 0 \in P
    <2>1. PICK f : f = [i \in 0 .. 0 |-> a]
      OBVIOUS
    <2>2. f \in [0 .. 0 -> V] /\ f[0] = a /\ 1 .. 0 = {}
      BY <2>1
    <2> QED BY <2>2 DEF Recurs
  <1>2. ASSUME NEW m \in Nat, m \in P PROVE m + 1 \in P
    <2> SUFFICES ASSUME m + 1 <= n PROVE \E f \in [0 .. (m + 1) -> V] : Recurs(f, m + 1, a, step)
      OBVIOUS
    <2>1. PICK g \in [0 .. m -> V] : Recurs(g, m, a, step)
      BY <1>2
    <2>2. PICK f : f = [i \in 0 .. (m + 1) |-> IF i = m + 1 THEN step[<<m + 1, g[m]>>] ELSE g[i]]
      OBVIOUS
    <2>3. g[m] \in V /\ m + 1 \in 1 .. n
      OBVIOUS
    <2>4. step[<<m + 1, g[m]>>] \in V
      BY <2>3
    <2>5. \A i \in 0 .. m : i \in 0 .. (m + 1) /\ i # m + 1 /\ f[i] = g[i]
      BY <2>2
    <2>6. f[m + 1] = step[<<m + 1, f[m]>>]
      <3>1. m \in 0 .. m /\ m + 1 \in 0 .. (m + 1)
        OBVIOUS
      <3>2. f[m] = g[m]
        BY <2>5, <3>1
      <3>3. f[m + 1] = step[<<m + 1, g[m]>>]
        BY <2>2, <3>1
      <3> QED BY <3>2, <3>3
    <2>7. f \in [0 .. (m + 1) -> V]
      <3>1. \A i \in 0 .. (m + 1) : i # m + 1 => i \in 0 .. m
        OBVIOUS
      <3> QED BY <2>2, <2>4, <3>1
    <2>8. ASSUME NEW i \in 1 .. (m + 1) PROVE f[i] = step[<<i, f[i - 1]>>]
      <3>1. CASE i = m + 1
        <4>1. i - 1 = m
          BY <3>1
        <4> QED BY <2>6, <3>1, <4>1
      <3>2. CASE i # m + 1
        <4>1. i \in 1 .. m /\ i \in 0 .. m /\ i - 1 \in 0 .. m
          BY <3>2
        <4>2. g[i] = step[<<i, g[i - 1]>>]
          BY <2>1, <4>1 DEF Recurs
        <4> QED BY <2>5, <4>1, <4>2
      <3> QED BY <3>1, <3>2
    <2>9. f[0] = a
      <3>1. g[0] = a /\ 0 \in 0 .. m
        BY <2>1 DEF Recurs
      <3> QED BY <2>5, <3>1
    <2> QED BY <2>7, <2>8, <2>9 DEF Recurs
  <1>3. \A m \in Nat : m \in P
    <2> HIDE DEF P
    <2> QED BY <1>1, <1>2, EveryNumber
  <1> QED BY <1>3

(* An order by score and row has a first, and a list of all.                 *)
LEMMA BetterOrders ==
    ASSUME NEW S, S \subseteq Int \X Int
    PROVE  /\ \A a \in S : ~Better(a, a)
           /\ \A a, b, c \in S : Better(a, b) /\ Better(b, c) => Better(a, c)
           /\ \A a, b \in S : a = b \/ Better(a, b) \/ Better(b, a)
           /\ \A a, b \in S : Better(a, b) => ~Better(b, a)
  <1>1. \A a \in S : a = <<a[1], a[2]>> /\ a[1] \in Int /\ a[2] \in Int
    OBVIOUS
  <1> QED BY <1>1 DEF Better

LEMMA BestOfSome ==
    ASSUME NEW S, IsFiniteSet(S), S # {}, S \subseteq Int \X Int
    PROVE  \E a \in S : \A b \in S \ {a} : Better(a, b)
  <1>1. PICK R : R = {p \in S \X S : Better(p[1], p[2])}
    OBVIOUS
  <1>2. \A x, y \in S : <<x, y>> \in R <=> Better(x, y)
    BY <1>1
  <1>3. (\A x \in S : <<x, x>> \notin R)
        /\ (\A x, y, z \in S : <<x, y>> \in R /\ <<y, z>> \in R => <<x, z>> \in R)
    BY <1>2, BetterOrders
  <1>4. PICK a \in S : \A y \in S : <<y, a>> \notin R
    BY <1>3, FirstOfFinite
  <1> QED BY <1>2, <1>4, BetterOrders

LEMMA LastOfSome ==
    ASSUME NEW S, IsFiniteSet(S), S # {}, S \subseteq Int \X Int
    PROVE  \E a \in S : \A b \in S \ {a} : Better(b, a)
  <1>1. PICK R : R = {p \in S \X S : Better(p[2], p[1])}
    OBVIOUS
  <1>2. \A x, y \in S : <<x, y>> \in R <=> Better(y, x)
    BY <1>1
  <1>3. (\A x \in S : <<x, x>> \notin R)
        /\ (\A x, y, z \in S : <<x, y>> \in R /\ <<y, z>> \in R => <<x, z>> \in R)
    BY <1>2, BetterOrders
  <1>4. PICK a \in S : \A y \in S : <<y, a>> \notin R
    BY <1>3, FirstOfFinite
  <1> QED BY <1>2, <1>4, BetterOrders

(* A list from the best to the last.                                         *)
Descends(list, n, S) ==
    list \in [1 .. n -> S] /\ \A i, j \in 1 .. n : i < j => Better(list[i], list[j])

LEMMA DescendingExists ==
    ASSUME NEW I, IsFiniteSet(I), I \subseteq Int \X Int
    PROVE  \E list : Descends(list, Cardinality(I), I)
  <1> DEFINE P == {n \in Nat : \A S \in SUBSET I : Cardinality(S) = n => \E list : Descends(list, n, S)}
  <1>1. \A S \in SUBSET I : IsFiniteSet(S) /\ Cardinality(S) \in Nat
    BY FS_Subset, FS_CardinalityType
  <1>2. 0 \in P
    <2> SUFFICES ASSUME NEW S \in SUBSET I, Cardinality(S) = 0 PROVE \E list : Descends(list, 0, S)
      OBVIOUS
    <2>1. PICK list : list = [i \in 1 .. 0 |-> i]
      OBVIOUS
    <2>2. 1 .. 0 = {}
      OBVIOUS
    <2>3. list \in [1 .. 0 -> S]
      BY <2>1, <2>2
    <2> QED BY <2>2, <2>3 DEF Descends
  <1>3. ASSUME NEW n \in Nat, n \in P PROVE n + 1 \in P
    <2> SUFFICES ASSUME NEW S \in SUBSET I, Cardinality(S) = n + 1
                 PROVE  \E list : Descends(list, n + 1, S)
      OBVIOUS
    <2>1. S # {}
      BY FS_EmptySet
    <2>2. PICK a \in S : \A b \in S \ {a} : Better(a, b)
      <3>1. IsFiniteSet(S) /\ S \subseteq Int \X Int
        BY <1>1
      <3> QED BY <2>1, <3>1, BestOfSome
    <2>3. PICK T \in SUBSET I : T = S \ {a}
      OBVIOUS
    <2>4. Cardinality(T) = n
      <3>1. Cardinality(T) = Cardinality(S) - 1
        BY <1>1, <2>3, FS_RemoveElement
      <3> QED BY <3>1
    <2>5. PICK list : Descends(list, n, T)
      BY <1>3, <2>4
    <2>6. list \in [1 .. n -> T] /\ \A i, j \in 1 .. n : i < j => Better(list[i], list[j])
      BY <2>5 DEF Descends
    <2>7. PICK more : more = [i \in 1 .. (n + 1) |-> IF i = 1 THEN a ELSE list[i - 1]]
      OBVIOUS
    <2>8. \A i \in 1 .. (n + 1) : i # 1 => i - 1 \in 1 .. n
      OBVIOUS
    <2>9. more \in [1 .. (n + 1) -> S]
      BY <2>3, <2>6, <2>7, <2>8
    <2>10. ASSUME NEW i \in 1 .. (n + 1), NEW j \in 1 .. (n + 1), i < j PROVE Better(more[i], more[j])
      <3>1. j # 1 /\ j - 1 \in 1 .. n /\ more[j] = list[j - 1] /\ list[j - 1] \in T
        BY <2>6, <2>7, <2>8, <2>10
      <3>2. CASE i = 1
        BY <2>2, <2>3, <2>7, <3>1, <3>2
      <3>3. CASE i # 1
        <4>1. i - 1 \in 1 .. n /\ more[i] = list[i - 1] /\ i - 1 < j - 1
          BY <2>7, <2>8, <2>10, <3>3
        <4> QED BY <2>6, <3>1, <4>1
      <3> QED BY <3>2, <3>3
    <2>11. Descends(more, n + 1, S)
      BY <2>9, <2>10 DEF Descends
    <2> QED BY <2>11
  <1>4. \A n \in Nat : n \in P
    <2> HIDE DEF P
    <2> QED BY <1>2, <1>3, EveryNumber
  <1>5. I \in SUBSET I /\ Cardinality(I) \in Nat
    BY <1>1
  <1> QED BY <1>4, <1>5

LEMMA RankedDescends ==
    ASSUME NEW S, IsFiniteSet(S), S \subseteq Int \X Int
    PROVE  /\ Descends(Ranked(S), Cardinality(S), S)
           /\ Cardinality(S) \in Nat /\ Ranked(S) \in Seq(S) /\ Len(Ranked(S)) = Cardinality(S)
           /\ ToSet(Ranked(S)) = S
  <1>1. PICK n \in Nat : n = Cardinality(S)
    BY FS_CardinalityType
  <1>2. PICK some : Descends(some, n, S)
    BY <1>1, DescendingExists
  <1>3. PICK list : list = Ranked(S)
    OBVIOUS
  <1>4. list \in [1 .. n -> S] /\ \A i, j \in DOMAIN list : i < j => Better(list[i], list[j])
    <2>1. some \in [1 .. n -> S] /\ \A i, j \in DOMAIN some : i < j => Better(some[i], some[j])
      BY <1>2 DEF Descends
    <2>2. list = CHOOSE l \in [1 .. n -> S] : \A i, j \in DOMAIN l : i < j => Better(l[i], l[j])
      BY <1>1, <1>3 DEF Ranked
    <2> QED BY <2>1, <2>2
  <1>5. Descends(list, n, S)
    BY <1>4 DEF Descends
  <1>6. list \in Seq(S) /\ Len(list) = n
    <2>1. list \in Seq(S)
      BY <1>4, SeqDef
    <2>2. Len(list) \in Nat /\ DOMAIN list = 1 .. Len(list)
      BY <2>1, LenProperties
    <2>3. 1 .. Len(list) = 1 .. n
      BY <1>4, <2>2
    <2>4. Len(list) = n
      BY <2>2, <2>3, AsLong
    <2> QED BY <2>1, <2>4
  <1>7. ToSet(list) = S
    <2>1. list \in Injection(1 .. n, S)
      <3>1. ASSUME NEW i \in 1 .. n, NEW j \in 1 .. n, i # j PROVE list[i] # list[j]
        <4>1. i < j \/ j < i
          BY <3>1
        <4>2. list[i] \in S /\ ~Better(list[i], list[i])
          BY <1>4, BetterOrders
        <4> QED BY <1>4, <4>1, <4>2
      <3> QED BY <1>4, <3>1 DEF Injection, IsInjective
    <2>2. IsFiniteSet(1 .. n) /\ Cardinality(1 .. n) = n
      <3>1. 1 \in Int /\ n \in Int
        OBVIOUS
      <3>2. IsFiniteSet(1 .. n) /\ Cardinality(1 .. n) = IF 1 > n THEN 0 ELSE n - 1 + 1
        BY <3>1, FS_Interval
      <3> QED BY <3>2
    <2>3. list \in Surjection(1 .. n, S)
      BY <1>1, <2>1, <2>2, FS_Injection
    <2>4. \A e \in S : \E i \in 1 .. n : list[i] = e
      BY <2>3 DEF Surjection
    <2> QED BY <1>4, <2>4 DEF ToSet
  <1> QED BY <1>1, <1>3, <1>5, <1>6, <1>7

(* A request, and its rows.                                                  *)
Asked ==
    /\ request.rows \in [1 .. Proposals -> [place : BoxPlaces, class : Classes, score : Confidences]]
    /\ request.caller \in Callers /\ request.method \in Methods
    /\ request.neighbors \in {0, 1} /\ request.budget \in Budgets
    /\ request.caller = "device" => request.method = "classic"
    /\ request.neighbors = 1 => request.method = "neighborhood" /\ request.caller = "shared"

(* Rows of one group.                                                        *)
Mates(r, s) == request.caller = "per_class" => request.rows[r].class = request.rows[s].class

(* What a method that removes picks.                                         *)
Leading == IF request.method = "none" THEN Admitted ELSE Anchors

LEMMA RowFacts ==
    ASSUME Asked
    PROVE  /\ Admitted \subseteq Nat /\ IsFiniteSet(Admitted)
           /\ \A r \in Admitted : Score(r) \in Nat /\ Score(r) >= ConfThreshold
           /\ \A r, s \in Admitted : Overlap(r, s) \in {0, 4, 10, 20}
  <1>1. Proposed = 1 .. Proposals /\ Proposals \in Nat
    BY SuppressionAssumption DEF Asked, Proposed
  <1>2. IsFiniteSet(1 .. Proposals)
    <2>1. 1 \in Int /\ Proposals \in Int
      BY <1>1
    <2> QED BY <2>1, FS_Interval
  <1>3. Admitted \subseteq 1 .. Proposals
    BY <1>1 DEF Admitted
  <1>4. IsFiniteSet(Admitted)
    BY <1>2, <1>3, FS_Subset
  <1>5. \A r \in 1 .. Proposals : Score(r) \in Nat
    BY SuppressionAssumption DEF Asked, Score
  <1>6. \A r \in Admitted : Score(r) >= ConfThreshold
    BY DEF Admitted
  <1> QED BY <1>3, <1>4, <1>5, <1>6 DEF Overlap

LEMMA ScoredPicks ==
    ASSUME Asked, NEW S \in SUBSET Admitted
    PROVE  /\ IsFiniteSet({Scored(r) : r \in S}) /\ {Scored(r) : r \in S} \subseteq Int \X Int
           /\ \A r, s \in S : Scored(r) = Scored(s) => r = s
           /\ Cardinality({Scored(r) : r \in S}) = Cardinality(S)
  <1>1. IsFiniteSet(S) /\ \A r \in S : r \in Int /\ Score(r) \in Int
    <2>1. IsFiniteSet(S)
      BY RowFacts, FS_Subset
    <2> QED BY <2>1, RowFacts
  <1>2. {Scored(r) : r \in S} \subseteq Int \X Int
    BY <1>1 DEF Scored
  <1>3. \A r, s \in S : Scored(r) = Scored(s) => r = s
    BY DEF Scored
  <1>4. PICK f : f = [r \in S |-> Scored(r)]
    OBVIOUS
  <1>5. PICK T : T = {Scored(r) : r \in S}
    OBVIOUS
  <1>6. f \in Bijection(S, T)
    BY <1>3, <1>4, <1>5 DEF Bijection, Injection, Surjection, IsInjective
  <1>7. IsFiniteSet(T) /\ Cardinality(T) = Cardinality(S)
    <2>1. f \in Surjection(S, T) /\ f \in Injection(S, T)
      BY <1>6 DEF Bijection
    <2> QED BY <1>1, <2>1, FS_Surjection
  <1> QED BY <1>2, <1>3, <1>5, <1>7

LEMMA BeforeOrders ==
    ASSUME Asked
    PROVE  /\ \A r \in Admitted : ~Before(r, r)
           /\ \A r, s, t \in Admitted : Before(r, s) /\ Before(s, t) => Before(r, t)
           /\ \A r, s \in Admitted : r = s \/ Before(r, s) \/ Before(s, r)
           /\ \A r, s \in Admitted : Before(r, s) => ~Before(s, r)
  <1>1. PICK S : S = {Scored(r) : r \in Admitted}
    OBVIOUS
  <1>2. S \subseteq Int \X Int /\ \A r, s \in Admitted : Scored(r) = Scored(s) => r = s
    BY <1>1, ScoredPicks
  <1>3. \A r \in Admitted : Scored(r) \in S
    BY <1>1
  <1> QED BY <1>2, <1>3, BetterOrders DEF Before

(* Of some rows the best, and the last.                                      *)
LEMMA LastRow ==
    ASSUME Asked, NEW S \in SUBSET Admitted, S # {}
    PROVE  \E r \in S : \A s \in S \ {r} : Before(s, r)
  <1>1. PICK T : T = {Scored(r) : r \in S}
    OBVIOUS
  <1>2. IsFiniteSet(T) /\ T # {} /\ T \subseteq Int \X Int
    BY <1>1, ScoredPicks
  <1>3. PICK a \in T : \A b \in T \ {a} : Better(b, a)
    BY <1>2, LastOfSome
  <1>4. PICK r \in S : a = Scored(r)
    BY <1>1
  <1>5. ASSUME NEW s \in S \ {r} PROVE Before(s, r)
    <2>1. Scored(s) \in T /\ Scored(s) # a
      BY <1>1, <1>4, ScoredPicks
    <2> QED BY <1>3, <1>4, <2>1 DEF Before
  <1> QED BY <1>5

Anchored(K, S) ==
    /\ K \subseteq S
    /\ \A r \in S : r \in K <=> ~ \E k \in K : Before(k, r) /\ Rivals(k, r)

LEMMA AnchorsExist ==
    ASSUME Asked
    PROVE  \E K : Anchored(K, Admitted)
  <1> DEFINE P == {n \in Nat : \A S \in SUBSET Admitted : Cardinality(S) = n => \E K : Anchored(K, S)}
  <1>1. \A S \in SUBSET Admitted : IsFiniteSet(S) /\ Cardinality(S) \in Nat
    <2>1. IsFiniteSet(Admitted)
      BY RowFacts
    <2> QED BY <2>1, FS_Subset, FS_CardinalityType
  <1>2. 0 \in P
    <2> SUFFICES ASSUME NEW S \in SUBSET Admitted, Cardinality(S) = 0 PROVE Anchored({}, S)
      OBVIOUS
    <2>1. S = {}
      BY <1>1, FS_EmptySet
    <2> QED BY <2>1 DEF Anchored
  <1>3. ASSUME NEW n \in Nat, n \in P PROVE n + 1 \in P
    <2> SUFFICES ASSUME NEW S \in SUBSET Admitted, Cardinality(S) = n + 1 PROVE \E K : Anchored(K, S)
      OBVIOUS
    <2>1. S # {}
      BY FS_EmptySet
    <2>2. PICK last \in S : \A s \in S \ {last} : Before(s, last)
      BY <2>1, LastRow
    <2>3. PICK T \in SUBSET Admitted : T = S \ {last}
      OBVIOUS
    <2>4. Cardinality(T) = n
      <3>1. Cardinality(T) = Cardinality(S) - 1
        BY <1>1, <2>3, FS_RemoveElement
      <3> QED BY <3>1
    <2>5. PICK J : Anchored(J, T)
      BY <1>3, <2>4
    <2>6. J \subseteq T /\ \A r \in T : r \in J <=> ~ \E k \in J : Before(k, r) /\ Rivals(k, r)
      BY <2>5 DEF Anchored
    <2>7. ~Before(last, last) /\ \A s \in T : ~Before(last, s)
      BY <2>2, <2>3, BeforeOrders
    <2>8. CASE \E k \in J : Before(k, last) /\ Rivals(k, last)
      <3>1. Anchored(J, S)
        BY <2>3, <2>6, <2>8 DEF Anchored
      <3> QED BY <3>1
    <2>9. CASE ~ \E k \in J : Before(k, last) /\ Rivals(k, last)
      <3>1. PICK K : K = J \cup {last}
        OBVIOUS
      <3>2. K \subseteq S
        BY <2>3, <2>6, <3>1
      <3>3. last \in K /\ ~ \E k \in K : Before(k, last) /\ Rivals(k, last)
        BY <2>7, <2>9, <3>1
      <3>4. ASSUME NEW r \in T PROVE r \in K <=> ~ \E k \in K : Before(k, r) /\ Rivals(k, r)
        BY <2>3, <2>6, <2>7, <3>1
      <3>5. Anchored(K, S)
        BY <2>3, <3>2, <3>3, <3>4 DEF Anchored
      <3> QED BY <3>5
    <2> QED BY <2>8, <2>9
  <1>4. \A n \in Nat : n \in P
    <2> HIDE DEF P
    <2> QED BY <1>2, <1>3, EveryNumber
  <1>5. Admitted \in SUBSET Admitted /\ Cardinality(Admitted) \in Nat
    BY <1>1
  <1> QED BY <1>4, <1>5

LEMMA AnchorsAre ==
    ASSUME Asked
    PROVE  Anchored(Anchors, Admitted)
  <1>1. PICK J : Anchored(J, Admitted)
    BY AnchorsExist
  <1>2. J \in SUBSET Admitted /\ \A r \in Admitted :
            r \in J <=> ~ \E k \in J : Before(k, r) /\ Rivals(k, r)
    BY <1>1 DEF Anchored
  <1>3. Anchors \in SUBSET Admitted /\ \A r \in Admitted :
            r \in Anchors <=> ~ \E k \in Anchors : Before(k, r) /\ Rivals(k, r)
    BY <1>2 DEF Anchors
  <1> QED BY <1>3 DEF Anchored

LEMMA LeadingParts == ASSUME Asked PROVE Leading \subseteq Admitted /\ Hard \subseteq Leading
  BY AnchorsAre DEF Leading, Hard, Anchored

(* What a request comes to stays with it.                                    *)
LEMMA SameRequest ==
    ASSUME request' = request
    PROVE  /\ (Asked => Asked') /\ Admitted' = Admitted /\ Anchors' = Anchors
           /\ Leading' = Leading /\ Hard' = Hard /\ Groups' = Groups
           /\ \A r : Score(r)' = Score(r) /\ Scored(r)' = Scored(r)
           /\ \A r, s : /\ Before(r, s)' <=> Before(r, s)
                        /\ Rivals(r, s)' <=> Rivals(r, s)
                        /\ Mates(r, s)' <=> Mates(r, s)
                        /\ Acts(r, s)' <=> Acts(r, s)
  <1>1. \A r : Score(r)' = Score(r) /\ Scored(r)' = Scored(r)
    BY DEF Score, Scored
  <1>2. \A r, s : Before(r, s)' <=> Before(r, s)
    BY <1>1 DEF Before, Better, Scored
  <1>3. \A r, s : Overlap(r, s)' = Overlap(r, s)
    BY DEF Overlap
  <1>4. \A r, s : Rivals(r, s)' <=> Rivals(r, s)
    BY <1>3 DEF Rivals
  <1>5. \A r, s : Mates(r, s)' <=> Mates(r, s)
    BY DEF Mates
  <1>6. \A r, s : Acts(r, s)' <=> Acts(r, s)
    BY <1>3 DEF Acts
  <1>7. Admitted' = Admitted
    BY <1>1 DEF Admitted, Proposed
  <1>8. Anchors' = Anchors
    BY <1>2, <1>4, <1>7 DEF Anchors
  <1>9. \A a : Cluster(a)' = Cluster(a)
    BY <1>2, <1>4, <1>7, <1>8 DEF Cluster
  <1>10. Leading' = Leading
    BY <1>7, <1>8 DEF Leading
  <1>11. Groups' = Groups
    BY <1>7 DEF Groups
  <1>12. Asked => Asked'
    BY DEF Asked
  <1>13. Hard' = Hard
    BY <1>1, <1>7, <1>8, <1>9 DEF Hard
  <1> QED BY <1>1, <1>2, <1>4, <1>5, <1>6, <1>7, <1>8, <1>10, <1>11, <1>12, <1>13

(* What happens to the rows of a call.                                       *)
Gone == Admitted \ ((UNION waiting) \cup DOMAIN pool)

SoftMethod == request.method \in {"linear", "gauss"}

Floor == Max({1, ConfThreshold})

GroupsInv ==
    /\ waiting \subseteq Groups
    /\ DOMAIN pool \subseteq Admitted /\ DOMAIN pool \cap UNION waiting = {}
    /\ pool \in [DOMAIN pool -> Nat]
    /\ \A r, s \in DOMAIN pool : Mates(r, s)

PicksInv ==
    /\ picked \in Seq(Nat \X Nat)
    /\ \A i \in DOMAIN picked : picked[i][1] \in Gone
    /\ \A i, j \in DOMAIN picked : i # j => picked[i][1] # picked[j][1]

(* Where nothing is decayed: what leads is picked in its order, and takes    *)
(* with it what it rivals.                                                   *)
HardInv ==
    /\ \A r \in DOMAIN pool : pool[r] = Score(r)
    /\ \A k \in Gone \cap Leading, r \in DOMAIN pool :
          Mates(k, r) => Before(k, r) /\ (request.method # "none" => ~Rivals(k, r))
    /\ \A r \in Gone \ Leading : \E k \in Gone \cap Leading : Rivals(k, r) /\ Before(k, r)
    /\ ToSet(picked) = {Scored(a) : a \in Gone \cap Hard}
    /\ \A i, j \in DOMAIN picked :
          i < j /\ Mates(picked[i][1], picked[j][1]) => Better(picked[i], picked[j])

(* Where scores are: what is left of a row's is what the picks left of it.   *)
SoftInv ==
    /\ \A r \in DOMAIN pool :
          /\ pool[r] = Softened(picked, r)[Len(picked)]
          /\ (\A i \in DOMAIN picked : ~Acts(picked[i][1], r)) \/ pool[r] >= Floor
    /\ \A i \in DOMAIN picked :
          /\ picked[i][2] = Softened(picked, picked[i][1])[i - 1]
          /\ \/ \A j \in 1 .. i - 1 : ~Acts(picked[j][1], picked[i][1])
             \/ picked[i][2] >= Floor
    /\ \A r \in Gone :
          \/ \E i \in DOMAIN picked : picked[i][1] = r
          \/ /\ Softened(picked, r)[Len(picked)] < Floor
             /\ \E i \in DOMAIN picked : Acts(picked[i][1], r)
    /\ \A i \in DOMAIN picked :
          /\ \A j \in DOMAIN picked :
                i < j /\ Mates(picked[i][1], picked[j][1]) => picked[i][2] >= picked[j][2]
          /\ \A r \in DOMAIN pool : Mates(picked[i][1], r) => picked[i][2] >= pool[r]

SuppressionInv ==
    /\ Asked /\ decoding \in {"admit", "suppress", "done", "refused"}
    /\ decoding = "admit" => waiting = {} /\ pool = <<>> /\ picked = <<>>
    /\ decoding \in {"suppress", "done"} /\ request.caller # "device" =>
          GroupsInv /\ PicksInv /\ IF SoftMethod THEN SoftInv ELSE HardInv
    /\ decoding = "suppress" /\ request.caller = "device" => pool = <<>>
    /\ decoding = "done" =>
          IF request.caller = "device" THEN output = Swept(Ranked({Scored(r) : r \in Admitted}))
          ELSE waiting = {} /\ DOMAIN pool = {} /\ output = Capped(picked)

LEMMA FloorType == Floor \in Int /\ Floor >= 1 /\ Floor >= ConfThreshold /\ (Floor = 1 \/ Floor = ConfThreshold)
  <1>1. PICK a \in Int : a = ConfThreshold
    BY SuppressionAssumption
  <1>2. \E x \in {1, a} : \A y \in {1, a} : x >= y
    <2>1. CASE a <= 1
      BY <2>1
    <2>2. CASE ~(a <= 1)
      BY <2>2
    <2> QED BY <2>1, <2>2
  <1>3. Max({1, a}) \in {1, a} /\ \A y \in {1, a} : Max({1, a}) >= y
    BY <1>2 DEF Max
  <1> QED BY <1>1, <1>3 DEF Floor

LEMMA GroupFacts ==
    ASSUME Asked
    PROVE  /\ UNION Groups = Admitted
           /\ \A g \in Groups : g \subseteq Admitted /\ \A r, s \in g : Mates(r, s)
           /\ \A g \in Groups : \A s \in g, r \in Admitted : Mates(r, s) => r \in g
  <1>1. CASE request.caller = "per_class"
    <2>1. Groups = {{r \in Admitted : request.rows[r].class = c} : c \in {request.rows[r].class : r \in Admitted}}
      BY <1>1 DEF Groups
    <2>2. ASSUME NEW r \in Admitted PROVE r \in UNION Groups
      <3>1. {s \in Admitted : request.rows[s].class = request.rows[r].class} \in Groups
        BY <2>1
      <3> QED BY <3>1
    <2>3. \A g \in Groups : g \subseteq Admitted
      BY <2>1
    <2>4. \A g \in Groups : \E c : g = {r \in Admitted : request.rows[r].class = c}
      BY <2>1
    <2> QED BY <1>1, <2>2, <2>3, <2>4 DEF Mates
  <1>2. CASE request.caller # "per_class"
    <2>1. Groups = {Admitted} \ {{}}
      BY <1>2 DEF Groups
    <2> QED BY <1>2, <2>1 DEF Mates
  <1> QED BY <1>1, <1>2

(* Of rows that wait, the rivals wait.                                       *)
LEMMA WaitingClosed ==
    ASSUME Asked, waiting \subseteq Groups, NEW s \in UNION waiting, NEW r \in Admitted,
           Mates(r, s) \/ Mates(s, r)
    PROVE  r \in UNION waiting
  <1>1. PICK g \in waiting : s \in g
    OBVIOUS
  <1>2. Mates(r, s)
    BY DEF Mates
  <1>3. r \in g
    BY <1>1, <1>2, GroupFacts
  <1> QED BY <1>1, <1>3

LEMMA RivalsAreMates == \A r, s : Rivals(r, s) => Mates(r, s)
  BY DEF Rivals, Mates

LEMMA ActingAreMates == \A r, s : Acts(r, s) => Mates(r, s)
  BY DEF Acts, Mates

(* The row whose turn it is.                                                 *)
LEMMA ForemostIs ==
    ASSUME Asked, GroupsInv, DOMAIN pool # {}
    PROVE  /\ Foremost \in DOMAIN pool
           /\ \A s \in DOMAIN pool \ {Foremost} :
                 pool[Foremost] > pool[s] \/ (pool[Foremost] = pool[s] /\ Before(Foremost, s))
  <1> DEFINE Ahead(r, s) == pool[r] > pool[s] \/ (pool[r] = pool[s] /\ Before(r, s))
  <1>1. PICK D : D = DOMAIN pool
    OBVIOUS
  <1>2. D \subseteq Admitted /\ \A r \in D : pool[r] \in Nat
    BY <1>1 DEF GroupsInv
  <1>3. IsFiniteSet(D)
    BY <1>2, RowFacts, FS_Subset
  <1>4. PICK R : R = {p \in D \X D : Ahead(p[1], p[2])}
    OBVIOUS
  <1>5. \A x, y \in D : <<x, y>> \in R <=> Ahead(x, y)
    BY <1>4
  <1>6. \A x \in D : ~Ahead(x, x)
    BY <1>2, BeforeOrders
  <1>7. \A x, y, z \in D : Ahead(x, y) /\ Ahead(y, z) => Ahead(x, z)
    BY <1>2, BeforeOrders
  <1>8. \A x, y \in D : x = y \/ Ahead(x, y) \/ Ahead(y, x)
    BY <1>2, BeforeOrders
  <1> HIDE DEF Ahead
  <1>9. (\A x \in D : <<x, x>> \notin R)
        /\ (\A x, y, z \in D : <<x, y>> \in R /\ <<y, z>> \in R => <<x, z>> \in R)
    BY <1>5, <1>6, <1>7
  <1>10. PICK r \in D : \A y \in D : <<y, r>> \notin R
    BY <1>1, <1>3, <1>9, FirstOfFinite
  <1>11. \A s \in D \ {r} : Ahead(r, s)
    BY <1>5, <1>8, <1>10
  <1> QED BY <1>1, <1>11 DEF Foremost, Ahead

(* Decaying.                                                                 *)
After(score, k, r) ==
    IF Acts(k, r) THEN (score * DecayWeight(Overlap(k, r))) \div 20 ELSE score

Softens(f, picks, r) ==
    /\ f[0] = Score(r)
    /\ \A i \in 1 .. Len(picks) : f[i] = After(f[i - 1], picks[i][1], r)

Rows(picks) == \A i \in 1 .. Len(picks) : picks[i][1] \in Admitted

LEMMA WeightOf ==
    ASSUME Asked, SoftMethod, NEW k \in Admitted, NEW r \in Admitted
    PROVE  DecayWeight(Overlap(k, r)) \in {0, 3, 10, 12, 16, 18, 20}
  <1>1. Overlap(k, r) \in {0, 4, 10, 20}
    BY RowFacts
  <1>2. CASE request.method = "linear"
    <2>1. DecayWeight(Overlap(k, r)) = 20 - Overlap(k, r)
      BY <1>2 DEF DecayWeight
    <2> QED BY <1>1, <2>1
  <1>3. CASE request.method = "gauss"
    <2>1. DecayWeight(Overlap(k, r)) \in {3, 12, 18, 20}
      BY <1>1, <1>3 DEF DecayWeight
    <2> QED BY <2>1
  <1> QED BY <1>2, <1>3 DEF SoftMethod

LEMMA LessAfter ==
    ASSUME Asked, SoftMethod, NEW k \in Admitted, NEW r \in Admitted, NEW score \in Nat
    PROVE  After(score, k, r) \in Nat /\ After(score, k, r) <= score
  <1>1. PICK w : w = DecayWeight(Overlap(k, r))
    OBVIOUS
  <1>2. w \in {0, 3, 10, 12, 16, 18, 20}
    BY <1>1, WeightOf
  <1>3. (score * w) \div 20 \in Nat /\ (score * w) \div 20 <= score
    <2>1. CASE w = 0
      <3>1. score * w = 0
        BY <2>1
      <3> QED BY <3>1
    <2>2. CASE w = 3
      BY <2>2
    <2>3. CASE w = 10
      BY <2>3
    <2>4. CASE w = 12
      BY <2>4
    <2>5. CASE w = 16
      BY <2>5
    <2>6. CASE w = 18
      BY <2>6
    <2>7. CASE w = 20
      BY <2>7
    <2> QED BY <1>2, <2>1, <2>2, <2>3, <2>4, <2>5, <2>6, <2>7
  <1>4. CASE Acts(k, r)
    <2>1. After(score, k, r) = (score * w) \div 20
      BY <1>1, <1>4 DEF After
    <2> QED BY <1>3, <2>1
  <1>5. CASE ~Acts(k, r)
    <2>1. After(score, k, r) = score
      BY <1>5 DEF After
    <2> QED BY <2>1
  <1> QED BY <1>4, <1>5

LEMMA SoftenedIs ==
    ASSUME Asked, SoftMethod, NEW picks, Len(picks) \in Nat, Rows(picks), NEW r \in Admitted
    PROVE  /\ Softens(Softened(picks, r), picks, r)
           /\ Softened(picks, r) \in [0 .. Len(picks) -> Nat]
  <1>1. PICK n \in Nat : n = Len(picks)
    OBVIOUS
  <1>2. PICK step : step = [p \in (1 .. n) \X Nat |-> After(p[2], picks[p[1]][1], r)]
    OBVIOUS
  <1>3. step \in [(1 .. n) \X Nat -> Nat]
    <2>1. ASSUME NEW p \in (1 .. n) \X Nat PROVE After(p[2], picks[p[1]][1], r) \in Nat
      <3>1. p[2] \in Nat /\ picks[p[1]][1] \in Admitted
        BY <1>1 DEF Rows
      <3> QED BY <3>1, LessAfter
    <2> QED BY <1>2, <2>1
  <1>4. Score(r) \in Nat
    BY RowFacts
  <1>5. PICK f \in [0 .. n -> Nat] : Recurs(f, n, Score(r), step)
    BY <1>3, <1>4, RecurrenceExists
  <1>6. f[0] = Score(r) /\ \A i \in 1 .. n : f[i] = step[<<i, f[i - 1]>>]
    BY <1>5 DEF Recurs
  <1>7. ASSUME NEW i \in 1 .. n PROVE f[i] = After(f[i - 1], picks[i][1], r)
    <2>1. i - 1 \in 0 .. n
      OBVIOUS
    <2>2. <<i, f[i - 1]>> \in (1 .. n) \X Nat
      BY <2>1
    <2>3. step[<<i, f[i - 1]>>] = After(f[i - 1], picks[i][1], r)
      BY <1>2, <2>2
    <2> QED BY <1>6, <2>3
  <1> DEFINE Is(g) == g = [i \in 0 .. Len(picks) |->
                             IF i = 0 THEN Score(r)
                             ELSE IF Acts(picks[i][1], r)
                             THEN (g[i - 1] * DecayWeight(Overlap(picks[i][1], r))) \div 20
                             ELSE g[i - 1]]
  <1>8. Is(f)
    <2>1. f = [i \in 0 .. n |-> f[i]]
      OBVIOUS
    <2>2. ASSUME NEW i \in 0 .. n
          PROVE  f[i] = IF i = 0 THEN Score(r)
                        ELSE IF Acts(picks[i][1], r)
                        THEN (f[i - 1] * DecayWeight(Overlap(picks[i][1], r))) \div 20
                        ELSE f[i - 1]
      <3>1. CASE i = 0
        BY <1>6, <3>1
      <3>2. CASE i # 0
        <4>1. i \in 1 .. n
          BY <3>2
        <4>2. f[i] = After(f[i - 1], picks[i][1], r)
          BY <1>7, <4>1
        <4> QED BY <3>2, <4>2 DEF After
      <3> QED BY <3>1, <3>2
    <2> QED BY <1>1, <2>1, <2>2
  <1>9. Is(CHOOSE g : Is(g))
    <2> HIDE DEF Is
    <2> QED BY <1>8
  <1>10. Softened(picks, r) = CHOOSE g : Is(g)
    BY DEF Softened
  <1>11. PICK g : g = Softened(picks, r)
    OBVIOUS
  <1>12. DOMAIN g = 0 .. n /\ g = [i \in 0 .. n |-> g[i]]
         /\ \A i \in 0 .. n : g[i] = IF i = 0 THEN Score(r)
                                     ELSE IF Acts(picks[i][1], r)
                                     THEN (g[i - 1] * DecayWeight(Overlap(picks[i][1], r))) \div 20
                                     ELSE g[i - 1]
    <2>1. Is(g)
      <3> HIDE DEF Is
      <3> QED BY <1>9, <1>10, <1>11
    <2>2. g = [i \in 0 .. n |-> IF i = 0 THEN Score(r)
                                     ELSE IF Acts(picks[i][1], r)
                                     THEN (g[i - 1] * DecayWeight(Overlap(picks[i][1], r))) \div 20
                                     ELSE g[i - 1]]
      BY <1>1, <2>1
    <2> HIDE DEF Is
    <2> QED BY <2>2
  <1>13. Softens(g, picks, r)
    <2>1. g[0] = Score(r)
      <3>1. 0 \in 0 .. n
        OBVIOUS
      <3> QED BY <1>12, <3>1
    <2>2. ASSUME NEW i \in 1 .. n PROVE g[i] = After(g[i - 1], picks[i][1], r)
      <3>1. i \in 0 .. n /\ i # 0
        OBVIOUS
      <3> QED BY <1>12, <3>1 DEF After
    <2> QED BY <1>1, <2>1, <2>2 DEF Softens
  <1>14. \A i \in 0 .. n : g[i] \in Nat
    <2> DEFINE P == {m \in Nat : m <= n => g[m] \in Nat}
    <2>1. 0 \in P
      BY <1>4, <1>13 DEF Softens
    <2>2. ASSUME NEW m \in Nat, m \in P PROVE m + 1 \in P
      <3> SUFFICES ASSUME m + 1 <= n PROVE g[m + 1] \in Nat
        OBVIOUS
      <3>1. g[m] \in Nat /\ m + 1 \in 1 .. n /\ (m + 1) - 1 = m
        BY <2>2
      <3>2. g[m + 1] = After(g[m], picks[m + 1][1], r) /\ picks[m + 1][1] \in Admitted
        BY <1>1, <1>13, <3>1 DEF Softens, Rows
      <3> QED BY <3>1, <3>2, LessAfter
    <2>3. \A m \in Nat : m \in P
      <3> HIDE DEF P
      <3> QED BY <2>1, <2>2, EveryNumber
    <2> QED BY <2>3
  <1> QED BY <1>1, <1>11, <1>12, <1>13, <1>14

(* Two histories that begin alike, and what nobody acts on.                  *)
LEMMA SoftenedAlike ==
    ASSUME NEW f, NEW g, NEW r, NEW p, NEW q, Softens(f, p, r), Softens(g, q, r),
           NEW n \in Nat, Len(p) \in Nat, Len(q) \in Nat, n <= Len(p), n <= Len(q),
           \A i \in 1 .. n : p[i] = q[i]
    PROVE  f[n] = g[n]
  <1> DEFINE P == {m \in Nat : m <= n => f[m] = g[m]}
  <1>1. 0 \in P
    BY DEF Softens
  <1>2. ASSUME NEW m \in Nat, m \in P PROVE m + 1 \in P
    <2> SUFFICES ASSUME m + 1 <= n PROVE f[m + 1] = g[m + 1]
      OBVIOUS
    <2>1. f[m] = g[m] /\ m + 1 \in 1 .. n /\ m + 1 \in 1 .. Len(p) /\ m + 1 \in 1 .. Len(q) /\ (m + 1) - 1 = m
      BY <1>2
    <2>2. f[m + 1] = After(f[m], p[m + 1][1], r) /\ g[m + 1] = After(g[m], q[m + 1][1], r)
      BY <2>1 DEF Softens
    <2>3. p[m + 1] = q[m + 1]
      BY <2>1
    <2> QED BY <2>1, <2>2, <2>3
  <1>3. \A m \in Nat : m \in P
    <2> HIDE DEF P
    <2> QED BY <1>1, <1>2, EveryNumber
  <1> QED BY <1>3

LEMMA SoftenedSpared ==
    ASSUME NEW f, NEW r, NEW p, Softens(f, p, r), NEW n \in Nat, Len(p) \in Nat, n <= Len(p),
           \A i \in 1 .. n : ~Acts(p[i][1], r)
    PROVE  f[n] = Score(r)
  <1> DEFINE P == {m \in Nat : m <= n => f[m] = Score(r)}
  <1>1. 0 \in P
    BY DEF Softens
  <1>2. ASSUME NEW m \in Nat, m \in P PROVE m + 1 \in P
    <2> SUFFICES ASSUME m + 1 <= n PROVE f[m + 1] = Score(r)
      OBVIOUS
    <2>1. f[m] = Score(r) /\ m + 1 \in 1 .. n /\ m + 1 \in 1 .. Len(p) /\ (m + 1) - 1 = m
      BY <1>2
    <2>2. f[m + 1] = After(f[m], p[m + 1][1], r)
      BY <2>1 DEF Softens
    <2> QED BY <2>1, <2>2 DEF After
  <1>3. \A m \in Nat : m \in P
    <2> HIDE DEF P
    <2> QED BY <1>1, <1>2, EveryNumber
  <1> QED BY <1>3

LEMMA SameSoftened ==
    ASSUME request' = request, NEW p, NEW r, p = picked'
    PROVE  Softened(picked, r)' = Softened(p, r)
  <1>1. Score(r)' = Score(r) /\ \A k : Acts(k, r)' <=> Acts(k, r)
    BY SameRequest
  <1>2. \A k : DecayWeight(Overlap(k, r))' = DecayWeight(Overlap(k, r))
    BY DEF DecayWeight, Overlap
  <1> QED BY <1>1, <1>2 DEF Softened

(* One pick.                                                                 *)
Hit(best) == {s \in DOMAIN pool \ {best} : Punished(best, s)}

Turn(best) ==
    /\ best \in DOMAIN pool /\ best \in Admitted /\ pool[best] \in Nat
    /\ \A s \in DOMAIN pool \ {best} :
          pool[best] > pool[s] \/ (pool[best] = pool[s] /\ Before(best, s))
    /\ \A s \in DOMAIN pool' : /\ s \in DOMAIN pool \ {best}
                               /\ pool'[s] = Decayed(pool[s], best, s)
                               /\ pool'[s] \in Nat
                               /\ Punished(best, s) => pool'[s] >= ConfThreshold /\ pool'[s] > 0
    /\ \A s \in DOMAIN pool \ {best} : s \notin DOMAIN pool' =>
          /\ Punished(best, s)
          /\ ~(Decayed(pool[s], best, s) >= ConfThreshold /\ Decayed(pool[s], best, s) > 0)
    /\ pool' = [s \in DOMAIN pool' |-> pool'[s]]
    /\ picked' = IF AgreedOn(best, Hit(best)) THEN Append(picked, <<best, pool[best]>>) ELSE picked
    /\ request' = request /\ waiting' = waiting /\ decoding = "suppress" /\ decoding' = "suppress"
    /\ output' = output

LEMMA LessDecayed ==
    ASSUME Asked, NEW k \in Admitted, NEW r \in Admitted, NEW score \in Nat
    PROVE  Decayed(score, k, r) \in Nat
  <1>1. PICK w : w = DecayWeight(Overlap(k, r))
    OBVIOUS
  <1>2. w \in Nat
    <2>1. Overlap(k, r) \in {0, 4, 10, 20}
      BY RowFacts
    <2> QED BY <1>1, <2>1 DEF DecayWeight
  <1>3. (score * w) \div 20 \in Nat
    <2>1. score * w \in Nat
      BY <1>2
    <2> QED BY <2>1
  <1> QED BY <1>1, <1>3 DEF Decayed

LEMMA PickTurns ==
    ASSUME Asked, GroupsInv, PicksInv, Pick
    PROVE  \E best : Turn(best)
  <1> DEFINE best == Foremost
             rest == DOMAIN pool \ {best}
             hit == {s \in rest : Punished(best, s)}
             after == [s \in rest |-> Decayed(pool[s], best, s)]
             left == {s \in rest : s \in hit => after[s] >= ConfThreshold /\ after[s] > 0}
  <1>1. /\ decoding = "suppress" /\ DOMAIN pool # {}
        /\ pool' = Restrict(after, left)
        /\ picked' = picked \o IF AgreedOn(best, hit) THEN <<<<best, pool[best]>>>> ELSE <<>>
        /\ request' = request /\ waiting' = waiting /\ output' = output /\ decoding' = decoding
    BY DEF Pick
  <1>2. best \in DOMAIN pool /\ \A s \in DOMAIN pool \ {best} :
            pool[best] > pool[s] \/ (pool[best] = pool[s] /\ Before(best, s))
    BY <1>1, ForemostIs
  <1>3. \A s \in DOMAIN pool : s \in Admitted /\ pool[s] \in Nat
    BY DEF GroupsInv
  <1>4. \A s \in rest : after[s] = Decayed(pool[s], best, s) /\ after[s] \in Nat
    BY <1>2, <1>3, LessDecayed
  <1>5. DOMAIN pool' = left /\ \A s \in left : pool'[s] = after[s]
    BY <1>1 DEF Restrict
  <1>6. pool' = [s \in DOMAIN pool' |-> pool'[s]]
    BY <1>1, <1>5 DEF Restrict
  <1>7. picked' = IF AgreedOn(best, Hit(best)) THEN Append(picked, <<best, pool[best]>>) ELSE picked
    <2>1. hit = Hit(best)
      BY DEF Hit
    <2>2. picked \in Seq(Nat \X Nat) /\ <<best, pool[best]>> \in Nat \X Nat
      <3>1. best \in Nat
        BY <1>2, <1>3, RowFacts
      <3> QED BY <1>2, <1>3, <3>1 DEF PicksInv
    <2>3. picked \o <<>> = picked
      BY <2>2, ConcatEmptySeq
    <2>4. picked \o <<<<best, pool[best]>>>> = Append(picked, <<best, pool[best]>>)
      BY <2>2, AppendIsConcat
    <2> HIDE DEF best, hit
    <2> QED BY <1>1, <2>1, <2>3, <2>4
  <1>8. \A s \in DOMAIN pool' : /\ s \in rest /\ pool'[s] = Decayed(pool[s], best, s) /\ pool'[s] \in Nat
                                /\ Punished(best, s) => pool'[s] >= ConfThreshold /\ pool'[s] > 0
    <2> SUFFICES ASSUME NEW s \in left
                 PROVE  /\ s \in rest /\ pool'[s] = Decayed(pool[s], best, s) /\ pool'[s] \in Nat
                        /\ Punished(best, s) => pool'[s] >= ConfThreshold /\ pool'[s] > 0
      BY <1>5
    <2>1. pool'[s] = after[s] /\ s \in rest
      BY <1>5
    <2>2. Punished(best, s) => s \in hit
      BY <2>1
    <2>3. s \in hit => after[s] >= ConfThreshold /\ after[s] > 0
      OBVIOUS
    <2> HIDE DEF after, hit, best, rest
    <2> QED BY <1>4, <2>1, <2>2, <2>3
  <1>9. \A s \in rest : s \notin DOMAIN pool' =>
          /\ Punished(best, s)
          /\ ~(Decayed(pool[s], best, s) >= ConfThreshold /\ Decayed(pool[s], best, s) > 0)
    <2> SUFFICES ASSUME NEW s \in rest, s \notin left
                 PROVE  /\ Punished(best, s)
                        /\ ~(Decayed(pool[s], best, s) >= ConfThreshold /\ Decayed(pool[s], best, s) > 0)
      BY <1>5
    <2>1. s \in hit /\ ~(after[s] >= ConfThreshold /\ after[s] > 0)
      OBVIOUS
    <2>2. after[s] = Decayed(pool[s], best, s)
      BY <1>4
    <2>3. Punished(best, s)
      BY <2>1
    <2> HIDE DEF after, hit, best, rest
    <2> QED BY <2>1, <2>2, <2>3
  <1> HIDE DEF best, after, hit, left
  <1> QED BY <1>1, <1>2, <1>3, <1>6, <1>7, <1>8, <1>9 DEF Turn

LEMMA GoneGrows ==
    ASSUME GroupsInv, NEW best, Turn(best)
    PROVE  Gone' = Gone \cup (DOMAIN pool \ DOMAIN pool') /\ DOMAIN pool' \subseteq DOMAIN pool
           /\ best \in Gone' /\ best \notin Gone /\ Gone \subseteq Gone'
  <1>1. Admitted' = Admitted /\ waiting' = waiting
    BY SameRequest DEF Turn
  <1>2. DOMAIN pool' \subseteq DOMAIN pool /\ best \in DOMAIN pool /\ best \notin DOMAIN pool'
    BY DEF Turn
  <1>3. DOMAIN pool \subseteq Admitted /\ DOMAIN pool \cap UNION waiting = {}
    BY DEF GroupsInv
  <1> QED BY <1>1, <1>2, <1>3 DEF Gone

LEMMA PickKeepsGroups ==
    ASSUME Asked, GroupsInv, PicksInv, NEW best, Turn(best)
    PROVE  GroupsInv' /\ PicksInv'
  <1>1. Admitted' = Admitted /\ Groups' = Groups /\ \A r, s : Mates(r, s)' <=> Mates(r, s)
    BY SameRequest DEF Turn
  <1>2. Gone \subseteq Gone' /\ best \in Gone' /\ best \notin Gone /\ DOMAIN pool' \subseteq DOMAIN pool
    BY GoneGrows
  <1>3. pool' \in [DOMAIN pool' -> Nat]
    BY DEF Turn
  <1>4. GroupsInv'
    <2>1. waiting' \subseteq Groups'
      BY <1>1 DEF Turn, GroupsInv
    <2>2. DOMAIN pool' \subseteq Admitted' /\ DOMAIN pool' \cap UNION waiting' = {}
      BY <1>1, <1>2 DEF Turn, GroupsInv
    <2>3. \A r, s \in DOMAIN pool' : Mates(r, s)'
      BY <1>1, <1>2 DEF GroupsInv
    <2> QED BY <1>3, <2>1, <2>2, <2>3 DEF GroupsInv
  <1>5. PICK new : new = <<best, pool[best]>>
    OBVIOUS
  <1>6. new \in Nat \X Nat /\ new[1] = best
    BY <1>5, RowFacts DEF Turn
  <1>7. picked \in Seq(Nat \X Nat) /\ (picked' = picked \/ picked' = Append(picked, new))
    BY <1>5 DEF Turn, PicksInv
  <1>8. CASE picked' = picked
    BY <1>2, <1>4, <1>8 DEF PicksInv
  <1>9. CASE picked' = Append(picked, new)
    <2>1. PICK n \in Nat : n = Len(picked) /\ DOMAIN picked = 1 .. n
      BY <1>7, LenProperties
    <2>2. /\ picked' \in Seq(Nat \X Nat) /\ DOMAIN picked' = 1 .. (n + 1)
          /\ \A i \in 1 .. n : picked'[i] = picked[i]
          /\ picked'[n + 1] = new
      BY <1>6, <1>7, <1>9, <2>1, AppendProperties
    <2>3. \A i \in 1 .. n : picked[i][1] \in Gone
      BY <2>1 DEF PicksInv
    <2>4. \A i \in 1 .. (n + 1) : picked'[i][1] \in Gone'
      <3>1. \A i \in 1 .. (n + 1) : i \in 1 .. n \/ i = n + 1
        OBVIOUS
      <3> QED BY <1>2, <1>6, <2>2, <2>3, <3>1
    <2>5. ASSUME NEW i \in 1 .. (n + 1), NEW j \in 1 .. (n + 1), i # j
          PROVE  picked'[i][1] # picked'[j][1]
      <3>1. CASE i \in 1 .. n /\ j \in 1 .. n
        BY <2>1, <2>2, <2>5, <3>1 DEF PicksInv
      <3>2. CASE i = n + 1
        <4>1. j \in 1 .. n
          BY <2>5, <3>2
        <4> QED BY <1>2, <1>6, <2>2, <2>3, <3>2, <4>1
      <3>3. CASE j = n + 1
        <4>1. i \in 1 .. n
          BY <2>5, <3>3
        <4> QED BY <1>2, <1>6, <2>2, <2>3, <3>3, <4>1
      <3> QED BY <3>1, <3>2, <3>3
    <2> QED BY <1>4, <2>2, <2>4, <2>5 DEF PicksInv
  <1> QED BY <1>4, <1>7, <1>8, <1>9

(* A pick of a method that removes: its row leads, and what it removes does  *)
(* not.                                                                      *)
LEMMA HardTurn ==
    ASSUME Asked, ~SoftMethod, GroupsInv, HardInv, NEW best, Turn(best)
    PROVE  /\ best \in Leading
           /\ DOMAIN pool' = {s \in DOMAIN pool \ {best} : ~Punished(best, s)}
           /\ \A s \in DOMAIN pool' : pool'[s] = Score(s)
           /\ \A s \in DOMAIN pool \ {best} :
                 /\ Before(best, s) /\ s \in Admitted
                 /\ request.method # "none" => (Punished(best, s) <=> Rivals(best, s))
                 /\ Punished(best, s) =>
                       Rivals(best, s) /\ s \notin Leading /\ request.method # "none"
  <1>1. /\ best \in DOMAIN pool /\ best \in Admitted /\ DOMAIN pool \subseteq Admitted
        /\ \A s \in DOMAIN pool : pool[s] = Score(s) /\ s \in Admitted
        /\ \A s \in DOMAIN pool : Score(s) \in Nat
    BY RowFacts DEF Turn, GroupsInv, HardInv
  <1>2. \A s \in DOMAIN pool \ {best} : Before(best, s)
    <2> SUFFICES ASSUME NEW s \in DOMAIN pool \ {best} PROVE Before(best, s)
      OBVIOUS
    <2>1. pool[best] > pool[s] \/ (pool[best] = pool[s] /\ Before(best, s))
      BY DEF Turn
    <2>2. pool[best] = Score(best) /\ pool[s] = Score(s)
      BY <1>1
    <2>3. CASE Score(best) > Score(s)
      BY <2>3 DEF Before, Better, Scored
    <2> QED BY <2>1, <2>2, <2>3
  <1>3. request.method \in {"none", "classic", "neighborhood"}
    BY DEF Asked, Methods, SoftMethod
  <1>4. ASSUME NEW s \in DOMAIN pool \ {best}, Punished(best, s) PROVE Decayed(pool[s], best, s) = 0
    <2>1. DecayWeight(Overlap(best, s)) = 0
      BY <1>3 DEF DecayWeight
    <2>2. Decayed(pool[s], best, s) = (pool[s] * 0) \div 20
      BY <1>4, <2>1 DEF Decayed
    <2>3. pool[s] * 0 = 0 /\ 0 \div 20 = 0
      BY <1>1
    <2> QED BY <2>2, <2>3
  <1>5. \A s \in DOMAIN pool \ {best} : ~Punished(best, s) => Decayed(pool[s], best, s) = Score(s)
    BY <1>1 DEF Decayed
  <1>6. DOMAIN pool' = {s \in DOMAIN pool \ {best} : ~Punished(best, s)}
    <2>1. ASSUME NEW s \in DOMAIN pool' PROVE s \in DOMAIN pool \ {best} /\ ~Punished(best, s)
      <3>1. s \in DOMAIN pool \ {best} /\ pool'[s] = Decayed(pool[s], best, s)
            /\ (Punished(best, s) => pool'[s] > 0)
        BY DEF Turn
      <3>2. Punished(best, s) => pool'[s] = 0
        BY <1>4, <3>1
      <3> QED BY <3>1, <3>2
    <2>2. ASSUME NEW s \in DOMAIN pool \ {best}, ~Punished(best, s) PROVE s \in DOMAIN pool'
      BY <2>2 DEF Turn
    <2> QED BY <2>1, <2>2
  <1>7. \A s \in DOMAIN pool' : pool'[s] = Score(s)
    BY <1>5, <1>6 DEF Turn
  <1>8. \A s \in DOMAIN pool : Mates(best, s) /\ Mates(s, best)
    BY <1>1 DEF GroupsInv
  <1>9. \A s \in DOMAIN pool : request.method # "none" => (Punished(best, s) <=> Rivals(best, s))
    BY <1>3, <1>8 DEF Punished, Rivals, Mates
  <1>10. \A s \in DOMAIN pool : Punished(best, s) => request.method # "none"
    BY <1>3 DEF Punished
  <1>11. best \in Leading
    <2>1. CASE request.method = "none"
      BY <1>1, <2>1 DEF Leading
    <2>2. CASE request.method # "none"
      <3>1. Leading = Anchors
        BY <2>2 DEF Leading
      <3>2. Anchored(Anchors, Admitted)
        BY AnchorsAre
      <3> SUFFICES ASSUME NEW k \in Anchors, Before(k, best), Rivals(k, best) PROVE FALSE
        BY <1>1, <3>1, <3>2 DEF Anchored
      <3>3. k \in Admitted
        BY <3>2 DEF Anchored
      <3>4. Mates(k, best)
        BY RivalsAreMates
      <3>5. k \notin UNION waiting
        <4> SUFFICES ASSUME k \in UNION waiting PROVE FALSE
          OBVIOUS
        <4>2. best \in UNION waiting
          BY <1>1, <3>4, WaitingClosed DEF GroupsInv
        <4> QED BY <1>1, <4>2 DEF GroupsInv
      <3>6. k \notin DOMAIN pool
        <4> SUFFICES ASSUME k \in DOMAIN pool PROVE FALSE
          OBVIOUS
        <4>1. k = best \/ Before(best, k)
          BY <1>2
        <4> QED BY <1>1, <3>3, <4>1, BeforeOrders
      <3>7. k \in Gone
        BY <3>3, <3>5, <3>6 DEF Gone
      <3> QED BY <1>1, <2>2, <3>1, <3>4, <3>7 DEF HardInv
    <2> QED BY <2>1, <2>2
  <1>12. ASSUME NEW s \in DOMAIN pool \ {best}, Punished(best, s)
         PROVE  Rivals(best, s) /\ s \notin Leading /\ request.method # "none"
    <2>1. request.method # "none" /\ Rivals(best, s)
      BY <1>9, <1>10, <1>12
    <2>2. Leading = Anchors /\ Anchored(Anchors, Admitted)
      BY <2>1, AnchorsAre DEF Leading
    <2>3. s \in Admitted /\ Before(best, s) /\ best \in Anchors
      BY <1>1, <1>2, <1>11, <2>2
    <2> QED BY <2>1, <2>2, <2>3 DEF Anchored
  <1> QED BY <1>1, <1>2, <1>6, <1>7, <1>9, <1>11, <1>12

(* What it takes with it is what it speaks for.                              *)
LEMMA HitIsCluster ==
    ASSUME Asked, request.method = "neighborhood", GroupsInv, HardInv, NEW best, Turn(best)
    PROVE  Hit(best) \cup {best} = Cluster(best) /\ best \notin Hit(best)
  <1>1. ~SoftMethod /\ Leading = Anchors /\ Anchored(Anchors, Admitted)
    BY AnchorsAre DEF SoftMethod, Leading
  <1>2. best \in Anchors /\ best \in DOMAIN pool /\ best \in Admitted
    BY <1>1, HardTurn DEF Turn
  <1>3. \A s \in DOMAIN pool \ {best} :
           /\ Before(best, s) /\ s \in Admitted /\ (Punished(best, s) <=> Rivals(best, s))
           /\ Punished(best, s) => s \notin Anchors
    BY <1>1, HardTurn
  <1>4. \A k \in Gone \cap Anchors, r \in DOMAIN pool : Mates(k, r) => Before(k, r) /\ ~Rivals(k, r)
    BY <1>1 DEF HardInv
  <1>5. \A r \in Gone \ Anchors : \E k \in Gone \cap Anchors : Rivals(k, r) /\ Before(k, r)
    BY <1>1 DEF HardInv
  <1>6. DOMAIN pool \cap UNION waiting = {} /\ waiting \subseteq Groups /\ Anchors \subseteq Admitted
    BY <1>1 DEF GroupsInv, Anchored
  <1>7. ASSUME NEW b \in Admitted, NEW r \in DOMAIN pool, Rivals(b, r)
        PROVE  b \in Gone \/ b \in DOMAIN pool
    <2>1. Mates(b, r)
      BY <1>7, RivalsAreMates
    <2>2. r \in Admitted
      BY DEF GroupsInv
    <2>3. b \notin UNION waiting
      <3> SUFFICES ASSUME b \in UNION waiting PROVE FALSE
        OBVIOUS
      <3>1. r \in UNION waiting
        BY <1>6, <2>1, <2>2, WaitingClosed
      <3> QED BY <1>6, <3>1
    <2> QED BY <2>3 DEF Gone
  <1>8. ASSUME NEW s \in Hit(best) PROVE s \in Cluster(best)
    <2>1. s \in DOMAIN pool \ {best} /\ Punished(best, s)
      BY DEF Hit
    <2>2. s \in Admitted \ Anchors /\ Rivals(best, s) /\ Before(best, s)
      BY <1>3, <2>1
    <2>3. ASSUME NEW b \in Anchors, Rivals(b, s), Before(b, s) PROVE b = best \/ Before(best, b)
      <3>1. b \in Gone \/ b \in DOMAIN pool
        BY <1>6, <1>7, <2>1, <2>3
      <3>2. b \notin Gone
        BY <1>4, <2>1, <2>3, RivalsAreMates
      <3> QED BY <1>3, <3>1, <3>2
    <2> QED BY <2>2, <2>3 DEF Cluster
  <1>9. ASSUME NEW r \in Cluster(best), r # best PROVE r \in Hit(best)
    <2>1. /\ r \in Admitted \ Anchors /\ Rivals(best, r) /\ Before(best, r)
          /\ \A b \in Anchors : Rivals(b, r) /\ Before(b, r) => b = best \/ Before(best, b)
      BY <1>9 DEF Cluster
    <2>2. r \notin UNION waiting
      <3> SUFFICES ASSUME r \in UNION waiting PROVE FALSE
        OBVIOUS
      <3>1. Mates(best, r)
        BY <2>1, RivalsAreMates
      <3>2. best \in UNION waiting
        BY <1>2, <1>6, <3>1, WaitingClosed
      <3> QED BY <1>2, <1>6, <3>2
    <2>3. r \notin Gone
      <3> SUFFICES ASSUME r \in Gone PROVE FALSE
        OBVIOUS
      <3>1. PICK k \in Gone \cap Anchors : Rivals(k, r) /\ Before(k, r)
        BY <1>5, <2>1
      <3>2. k = best \/ Before(best, k)
        BY <2>1, <3>1
      <3>3. k # best
        BY <1>2 DEF Gone
      <3>4. Mates(k, best)
        <4>1. Mates(k, r) /\ Mates(best, r)
          BY <2>1, <3>1, RivalsAreMates
        <4> QED BY <4>1 DEF Mates
      <3>5. Before(k, best)
        BY <1>2, <1>4, <3>1, <3>4
      <3> QED BY <1>2, <1>6, <3>1, <3>2, <3>3, <3>5, BeforeOrders
    <2>4. r \in DOMAIN pool \ {best}
      BY <1>9, <2>1, <2>2, <2>3 DEF Gone
    <2> QED BY <1>3, <2>1, <2>4 DEF Hit
  <1>10. best \in Cluster(best) /\ best \notin Hit(best)
    BY DEF Cluster, Hit
  <1> QED BY <1>8, <1>9, <1>10

LEMMA AgreedIsHard ==
    ASSUME Asked, ~SoftMethod, GroupsInv, HardInv, NEW best, Turn(best)
    PROVE  AgreedOn(best, Hit(best)) <=> best \in Hard
  <1>1. best \in Leading /\ best \in Admitted
    BY HardTurn DEF Turn
  <1>2. CASE request.neighbors # 1
    <2>1. AgreedOn(best, Hit(best))
      BY <1>2 DEF AgreedOn
    <2>2. Hard = Leading
      BY <1>2 DEF Hard, Leading
    <2> QED BY <1>1, <2>1, <2>2
  <1>3. CASE request.neighbors = 1
    <2>1. request.method = "neighborhood" /\ Leading = Anchors
      BY <1>3 DEF Asked, Leading
    <2>2. Hit(best) \cup {best} = Cluster(best) /\ best \notin Hit(best)
      BY <2>1, HitIsCluster
    <2>3. [s \in Hit(best) \cup {best} |-> pool[s]] = [r \in Cluster(best) |-> Score(r)]
      <3>1. \A s \in Hit(best) \cup {best} : pool[s] = Score(s)
        BY DEF HardInv, Hit, Turn
      <3> QED BY <2>2, <3>1
    <2>4. Cardinality(Cluster(best)) = Cardinality(Hit(best)) + 1 /\ Cardinality(Hit(best)) \in Nat
      <3>1. IsFiniteSet(Hit(best))
        <4>1. Hit(best) \subseteq Admitted
          BY DEF Hit, GroupsInv
        <4> QED BY <4>1, RowFacts, FS_Subset
      <3>2. Cardinality(Hit(best)) \in Nat
        BY <3>1, FS_CardinalityType
      <3>3. Cardinality(Hit(best) \cup {best}) = Cardinality(Hit(best)) + 1
        BY <2>2, <3>1, FS_AddElement
      <3> QED BY <2>2, <3>2, <3>3
    <2>5. AgreedOn(best, Hit(best)) <=>
             /\ Cardinality(Hit(best)) >= 1
             /\ SumFunction([r \in Cluster(best) |-> Score(r)]) >= MinScoreSum
      BY <1>3, <2>3 DEF AgreedOn
    <2>6. best \in Hard <=>
             /\ Cardinality(Cluster(best)) > 1
             /\ SumFunction([r \in Cluster(best) |-> Score(r)]) >= MinScoreSum
      <3>1. Hard = {a \in Anchors : /\ Cardinality(Cluster(a)) > 1
                                    /\ SumFunction([r \in Cluster(a) |-> Score(r)]) >= MinScoreSum}
        BY <1>3, <2>1 DEF Hard
      <3> QED BY <1>1, <2>1, <3>1
    <2> QED BY <2>4, <2>5, <2>6
  <1> QED BY <1>2, <1>3

LEMMA PickKeepsHard ==
    ASSUME Asked, ~SoftMethod, GroupsInv, PicksInv, HardInv, NEW best, Turn(best)
    PROVE  HardInv'
  <1>1. /\ Admitted' = Admitted /\ Leading' = Leading /\ Hard' = Hard
        /\ \A r : Score(r)' = Score(r) /\ Scored(r)' = Scored(r)
        /\ \A r, s : /\ Before(r, s)' <=> Before(r, s)
                     /\ Rivals(r, s)' <=> Rivals(r, s)
                     /\ Mates(r, s)' <=> Mates(r, s)
    BY SameRequest DEF Turn
  <1>2. /\ best \in Leading
        /\ DOMAIN pool' = {s \in DOMAIN pool \ {best} : ~Punished(best, s)}
        /\ \A s \in DOMAIN pool' : pool'[s] = Score(s)
        /\ \A s \in DOMAIN pool \ {best} :
                 /\ Before(best, s) /\ s \in Admitted
                 /\ request.method # "none" => (Punished(best, s) <=> Rivals(best, s))
                 /\ Punished(best, s) =>
                       Rivals(best, s) /\ s \notin Leading /\ request.method # "none"
    BY HardTurn
  <1>3. Gone' = Gone \cup (DOMAIN pool \ DOMAIN pool') /\ best \in Gone' /\ best \notin Gone
    BY GoneGrows
  <1>4. best \in DOMAIN pool /\ request' = request
    BY DEF Turn
  <1>5. Gone' \cap Leading = (Gone \cap Leading) \cup {best}
    BY <1>2, <1>3, <1>4
  <1>6. \A r \in DOMAIN pool' : (pool[r])' = Score(r)'
    BY <1>1, <1>2
  <1>7. ASSUME NEW k \in Gone' \cap Leading, NEW r \in DOMAIN pool', Mates(k, r)
        PROVE  Before(k, r) /\ (request.method # "none" => ~Rivals(k, r))
    <2>1. CASE k \in Gone
      BY <1>2, <1>7, <2>1 DEF HardInv
    <2>2. CASE k = best
      BY <1>2, <2>2
    <2> QED BY <1>5, <2>1, <2>2
  <1>8. ASSUME NEW r \in Gone' \ Leading
        PROVE  \E k \in Gone' \cap Leading : Rivals(k, r) /\ Before(k, r)
    <2>1. CASE r \in Gone
      BY <1>5, <2>1 DEF HardInv
    <2>2. CASE r \notin Gone
      <3>1. r \in DOMAIN pool \ {best} /\ r \notin DOMAIN pool'
        BY <1>2, <1>3, <2>2
      <3>2. Punished(best, r) /\ Rivals(best, r) /\ Before(best, r)
        BY <1>2, <3>1
      <3> QED BY <1>5, <3>2
    <2> QED BY <2>1, <2>2
  <1>9. Hard \subseteq Leading
    BY LeadingParts
  <1>10. PICK new : new = <<best, pool[best]>>
    OBVIOUS
  <1>11. new = Scored(best)
    BY <1>4, <1>10 DEF HardInv, Scored
  <1>12. picked \in Seq(Nat \X Nat) /\ new \in Nat \X Nat
    <2>1. best \in Nat /\ pool[best] \in Nat
      BY RowFacts DEF Turn
    <2> QED BY <1>10, <2>1 DEF PicksInv
  <1>13. PICK n \in Nat : n = Len(picked) /\ DOMAIN picked = 1 .. n
    BY <1>12, LenProperties
  <1>14. ToSet(picked) = {picked[i] : i \in 1 .. n} /\ ToSet(picked) = {Scored(a) : a \in Gone \cap Hard}
    BY <1>13 DEF ToSet, HardInv
  <1>15. ASSUME NEW i \in 1 .. n, NEW j \in 1 .. n, i < j, Mates(picked[i][1], picked[j][1])
         PROVE  Better(picked[i], picked[j])
    BY <1>13, <1>15 DEF HardInv
  <1>16. CASE best \in Hard
    <2>1. picked' = Append(picked, new)
      BY <1>10, <1>16, AgreedIsHard DEF Turn
    <2>2. /\ DOMAIN picked' = 1 .. (n + 1)
          /\ \A i \in 1 .. n : picked'[i] = picked[i]
          /\ picked'[n + 1] = new
      BY <1>12, <1>13, <2>1, AppendProperties
    <2>3. ToSet(picked)' = {Scored(a) : a \in Gone' \cap Hard}
      <3>1. ToSet(picked)' = {picked'[i] : i \in 1 .. (n + 1)}
        BY <2>2 DEF ToSet
      <3>2. \A i \in 1 .. (n + 1) : i \in 1 .. n \/ i = n + 1
        OBVIOUS
      <3>3. {picked'[i] : i \in 1 .. (n + 1)} = {picked[i] : i \in 1 .. n} \cup {new}
        <4>1. 1 .. n \subseteq 1 .. (n + 1) /\ n + 1 \in 1 .. (n + 1)
          OBVIOUS
        <4> QED BY <2>2, <3>2, <4>1
      <3>4. Gone' \cap Hard = (Gone \cap Hard) \cup {best}
        BY <1>5, <1>9, <1>16
      <3>5. PICK old : old = Gone \cap Hard
        OBVIOUS
      <3>6. {Scored(a) : a \in old \cup {best}} = {Scored(a) : a \in old} \cup {Scored(best)}
        BY ZenonT(20)
      <3>7. ToSet(picked)' = {Scored(a) : a \in old} \cup {Scored(best)}
        BY <1>11, <1>14, <3>1, <3>3, <3>5
      <3> QED BY <3>4, <3>5, <3>6, <3>7
    <2>4. ASSUME NEW i \in 1 .. (n + 1), NEW j \in 1 .. (n + 1), i < j,
                 Mates(picked'[i][1], picked'[j][1])
          PROVE  Better(picked'[i], picked'[j])
      <3>1. i \in 1 .. n
        BY <2>4
      <3>2. CASE j \in 1 .. n
        BY <1>15, <2>2, <2>4, <3>1, <3>2
      <3>3. CASE j = n + 1
        <4>1. PICK a \in Gone \cap Hard : picked[i] = Scored(a)
          BY <1>14, <3>1
        <4>2. picked[i][1] = a /\ new[1] = best
          BY <1>11, <4>1 DEF Scored
        <4>3. Mates(a, best)
          BY <2>2, <2>4, <3>1, <3>3, <4>2
        <4>4. Before(a, best)
          BY <1>4, <1>9, <4>3 DEF HardInv
        <4>5. Better(picked[i], new)
          BY <1>11, <4>1, <4>4 DEF Before
        <4> QED BY <2>2, <3>1, <3>3, <4>5
      <3> QED BY <3>2, <3>3
    <2> QED BY <1>1, <1>4, <1>6, <1>7, <1>8, <2>2, <2>3, <2>4 DEF HardInv, Better
  <1>17. CASE best \notin Hard
    <2>1. picked' = picked
      BY <1>17, AgreedIsHard DEF Turn
    <2>2. Gone' \cap Hard = Gone \cap Hard
      BY <1>5, <1>9, <1>17
    <2>3. ToSet(picked)' = {Scored(a) : a \in Gone' \cap Hard}
      BY <1>14, <2>1, <2>2 DEF ToSet
    <2> QED BY <1>1, <1>4, <1>6, <1>7, <1>8, <1>13, <1>15, <2>1, <2>3 DEF HardInv, Better
  <1> QED BY <1>16, <1>17

(* A pick of a method that decays: every row it acts on, and no other.       *)
LEMMA SoftTurn ==
    ASSUME Asked, SoftMethod, GroupsInv, NEW best, Turn(best)
    PROVE  /\ picked' = Append(picked, <<best, pool[best]>>)
           /\ \A s \in DOMAIN pool' : /\ s \in DOMAIN pool \ {best}
                                      /\ pool'[s] = After(pool[s], best, s)
                                      /\ Acts(best, s) => pool'[s] >= Floor
           /\ \A s \in DOMAIN pool \ {best} : s \notin DOMAIN pool' =>
                 Acts(best, s) /\ After(pool[s], best, s) < Floor
  <1>1. request.method \in {"linear", "gauss"} /\ request.neighbors # 1
    BY DEF Asked, SoftMethod
  <1>2. AgreedOn(best, Hit(best))
    BY <1>1 DEF AgreedOn
  <1>3. picked' = Append(picked, <<best, pool[best]>>)
    BY <1>2 DEF Turn
  <1>4. best \in DOMAIN pool
    BY DEF Turn
  <1>5. \A s \in DOMAIN pool : Mates(best, s)
    BY <1>4 DEF GroupsInv
  <1>6. \A s \in DOMAIN pool : Punished(best, s) <=> Acts(best, s)
    BY <1>1, <1>5 DEF Punished, Acts, Mates
  <1>7. \A s \in DOMAIN pool : Decayed(pool[s], best, s) = After(pool[s], best, s)
    BY <1>6 DEF Decayed, After
  <1>8. /\ \A s \in DOMAIN pool' : /\ s \in DOMAIN pool \ {best}
                                   /\ pool'[s] = Decayed(pool[s], best, s)
                                   /\ pool'[s] \in Nat
                                   /\ Punished(best, s) => pool'[s] >= ConfThreshold /\ pool'[s] > 0
        /\ \A s \in DOMAIN pool \ {best} : s \notin DOMAIN pool' =>
              /\ Punished(best, s)
              /\ ~(Decayed(pool[s], best, s) >= ConfThreshold /\ Decayed(pool[s], best, s) > 0)
    BY DEF Turn
  <1>9. Floor \in Int /\ Floor >= 1 /\ Floor >= ConfThreshold /\ (Floor = 1 \/ Floor = ConfThreshold)
    BY FloorType
  <1>10. ConfThreshold \in Int
    BY SuppressionAssumption
  <1>11. ASSUME NEW s \in DOMAIN pool'
         PROVE  /\ s \in DOMAIN pool \ {best}
                /\ pool'[s] = After(pool[s], best, s)
                /\ Acts(best, s) => pool'[s] >= Floor
    <2>1. s \in DOMAIN pool \ {best} /\ pool'[s] = After(pool[s], best, s)
      BY <1>7, <1>8
    <2>2. ASSUME Acts(best, s) PROVE pool'[s] >= Floor
      <3>1. PICK x : x = pool'[s]
        OBVIOUS
      <3>2. x \in Nat /\ x >= ConfThreshold /\ x > 0
        BY <1>6, <1>8, <2>1, <2>2, <3>1
      <3>3. x >= Floor
        BY <1>9, <1>10, <3>2
      <3> QED BY <3>1, <3>3
    <2> QED BY <2>1, <2>2
  <1>12. ASSUME NEW s \in DOMAIN pool \ {best}, s \notin DOMAIN pool'
         PROVE  Acts(best, s) /\ After(pool[s], best, s) < Floor
    <2>1. Acts(best, s)
      BY <1>6, <1>8, <1>12
    <2>2. s \in Admitted /\ best \in Admitted /\ pool[s] \in Nat
      BY DEF GroupsInv, Turn
    <2>3. PICK x : x = After(pool[s], best, s)
      OBVIOUS
    <2>4. x \in Nat
      BY <2>2, <2>3, LessAfter
    <2>5. ~(x >= ConfThreshold /\ x > 0)
      BY <1>7, <1>8, <1>12, <2>3
    <2>6. x < Floor
      BY <1>9, <1>10, <2>4, <2>5
    <2> QED BY <2>1, <2>3, <2>6
  <1> QED BY <1>3, <1>11, <1>12

(* The picks are rows of the call, and one more decays what is left.         *)
LEMMA PickedRows ==
    ASSUME Asked, PicksInv
    PROVE  /\ Len(picked) \in Nat /\ DOMAIN picked = 1 .. Len(picked) /\ Rows(picked)
           /\ \A i \in 1 .. Len(picked) : picked[i] \in Nat \X Nat /\ picked[i][1] \in Gone
  <1>1. picked \in Seq(Nat \X Nat) /\ \A i \in DOMAIN picked : picked[i][1] \in Gone
    BY DEF PicksInv
  <1>2. Len(picked) \in Nat /\ DOMAIN picked = 1 .. Len(picked)
    BY <1>1, LenProperties
  <1>3. \A i \in 1 .. Len(picked) : picked[i] \in Nat \X Nat
    BY <1>1, <1>2, ElementOfSeq
  <1>4. Gone \subseteq Admitted
    BY DEF Gone
  <1> QED BY <1>1, <1>2, <1>3, <1>4 DEF Rows

Grows(p, best, x) ==
    /\ Len(p) = Len(picked) + 1
    /\ \A i \in 1 .. Len(picked) : p[i] = picked[i]
    /\ p[Len(picked) + 1] = <<best, x>>
    /\ \A r \in Admitted :
          /\ \A i \in 0 .. Len(picked) : Softened(p, r)[i] = Softened(picked, r)[i]
          /\ Softened(p, r)[Len(picked) + 1] = After(Softened(picked, r)[Len(picked)], best, r)
          /\ Softened(picked, r)[Len(picked)] \in Nat

LEMMA SoftenedGrows ==
    ASSUME Asked, SoftMethod, PicksInv, NEW best \in Admitted, NEW x \in Nat, NEW p,
           p = Append(picked, <<best, x>>)
    PROVE  Grows(p, best, x)
  <1>1. /\ Len(picked) \in Nat /\ DOMAIN picked = 1 .. Len(picked) /\ Rows(picked)
        /\ \A i \in 1 .. Len(picked) : picked[i] \in Nat \X Nat
    BY PickedRows
  <1>2. PICK n \in Nat : n = Len(picked)
    BY <1>1
  <1>3. picked \in Seq(Nat \X Nat) /\ <<best, x>> \in Nat \X Nat
    BY RowFacts DEF PicksInv
  <1>4. Len(p) = n + 1 /\ (\A i \in 1 .. n : p[i] = picked[i]) /\ p[n + 1] = <<best, x>>
    BY <1>2, <1>3, AppendProperties
  <1>5. Rows(p)
    <2>1. ASSUME NEW i \in 1 .. (n + 1) PROVE p[i][1] \in Admitted
      <3>1. CASE i \in 1 .. n
        BY <1>1, <1>2, <1>4, <3>1 DEF Rows
      <3>2. CASE i = n + 1
        <4>1. p[n + 1][1] = best
          BY ONLY <1>4
        <4> QED BY <3>2, <4>1
      <3>3. i \in 1 .. n \/ i = n + 1
        BY ONLY n \in Nat, i \in 1 .. (n + 1)
      <3> QED BY <3>1, <3>2, <3>3
    <2> QED BY <1>4, <2>1 DEF Rows
  <1>6. ASSUME NEW r \in Admitted
        PROVE  /\ \A i \in 0 .. n : Softened(p, r)[i] = Softened(picked, r)[i]
               /\ Softened(p, r)[n + 1] = After(Softened(picked, r)[n], best, r)
               /\ Softened(picked, r)[n] \in Nat
    <2>1. PICK f, g : f = Softened(picked, r) /\ g = Softened(p, r)
      OBVIOUS
    <2>2. Softens(f, picked, r) /\ f \in [0 .. n -> Nat]
      BY <1>1, <1>2, <2>1, SoftenedIs
    <2>3. Softens(g, p, r)
      <3>1. Len(p) \in Nat
        BY <1>4
      <3> QED BY <1>5, <2>1, <3>1, SoftenedIs
    <2>4. ASSUME NEW i \in 0 .. n PROVE g[i] = f[i]
      <3>1. i \in Nat /\ i <= n /\ i <= Len(p) /\ Len(p) \in Nat /\ Len(picked) \in Nat /\ i <= Len(picked)
        BY <1>2, <1>4
      <3>2. \A j \in 1 .. i : picked[j] = p[j]
        BY <1>4
      <3>3. f[i] = g[i]
        BY ONLY <2>2, <2>3, <3>1, <3>2, SoftenedAlike
      <3> QED BY <3>3
    <2>5. g[n + 1] = After(f[n], best, r)
      <3>1. n + 1 \in 1 .. Len(p) /\ (n + 1) - 1 = n
        BY <1>4
      <3>2. g[n + 1] = After(g[n], p[n + 1][1], r)
        BY <2>3, <3>1 DEF Softens
      <3>3. g[n] = f[n] /\ p[n + 1][1] = best
        BY <1>4, <2>4
      <3> QED BY <3>2, <3>3
    <2>6. f[n] \in Nat
      BY <2>2
    <2> QED BY <2>1, <2>4, <2>5, <2>6
  <1> QED BY <1>2, <1>4, <1>6 DEF Grows

LEMMA PickKeepsSoft ==
    ASSUME Asked, SoftMethod, GroupsInv, PicksInv, SoftInv, NEW best, Turn(best)
    PROVE  SoftInv'
  <1>1. /\ request' = request /\ best \in DOMAIN pool /\ best \in Admitted /\ pool[best] \in Nat
        /\ \A s \in DOMAIN pool \ {best} : pool[best] >= pool[s]
    <2>1. /\ request' = request /\ best \in DOMAIN pool /\ best \in Admitted /\ pool[best] \in Nat
          /\ \A s \in DOMAIN pool \ {best} : pool[best] > pool[s] \/ pool[best] = pool[s]
      BY DEF Turn
    <2>2. \A s \in DOMAIN pool : pool[s] \in Nat
      BY DEF GroupsInv
    <2> QED BY <2>1, <2>2
  <1>2. PICK x \in Nat : x = pool[best]
    BY <1>1
  <1>3. PICK p : p = picked'
    OBVIOUS
  <1>4. PICK n \in Nat : n = Len(picked)
    BY PickedRows
  <1>5. DOMAIN picked = 1 .. n /\ \A i \in 1 .. n : picked[i][1] \in Gone /\ picked[i] \in Nat \X Nat
    BY <1>4, PickedRows
  <1>6. /\ p = Append(picked, <<best, x>>)
        /\ \A s \in DOMAIN pool' : /\ s \in DOMAIN pool \ {best}
                                   /\ pool'[s] = After(pool[s], best, s)
                                   /\ Acts(best, s) => pool'[s] >= Floor
        /\ \A s \in DOMAIN pool \ {best} : s \notin DOMAIN pool' =>
              Acts(best, s) /\ After(pool[s], best, s) < Floor
    BY <1>2, <1>3, SoftTurn
  <1>7. /\ Gone' = Gone \cup (DOMAIN pool \ DOMAIN pool') /\ DOMAIN pool' \subseteq DOMAIN pool
        /\ best \in Gone' /\ best \notin Gone /\ Gone \subseteq Gone'
    BY GoneGrows
  <1>8. /\ \A r : Score(r)' = Score(r)
        /\ \A r, s : (Mates(r, s)' <=> Mates(r, s)) /\ (Acts(r, s)' <=> Acts(r, s))
    BY <1>1, SameRequest
  <1>9. DOMAIN pool \subseteq Admitted /\ Gone \subseteq Admitted
        /\ \A s \in DOMAIN pool : pool[s] \in Nat /\ Mates(s, best) /\ Mates(best, s)
    BY <1>1 DEF GroupsInv, Gone
  <1>23. Grows(p, best, x)
    <2>1. best \in Admitted /\ p = Append(picked, <<best, x>>)
      BY <1>1, <1>6
    <2> QED BY <2>1, SoftenedGrows
  <1>10. Len(p) = n + 1 /\ (\A i \in 1 .. n : p[i] = picked[i]) /\ p[n + 1] = <<best, x>>
    BY <1>4, <1>23 DEF Grows
  <1>11. ASSUME NEW r \in Admitted
         PROVE  /\ \A i \in 0 .. n : Softened(p, r)[i] = Softened(picked, r)[i]
                /\ Softened(p, r)[n + 1] = After(Softened(picked, r)[n], best, r)
                /\ Softened(picked, r)[n] \in Nat
    BY <1>4, <1>23 DEF Grows
  <1>12. p[n + 1][1] = best /\ p[n + 1][2] = x
    BY ONLY <1>10
  <1>13. DOMAIN p = 1 .. (n + 1)
    <2>1. p \in Seq(Nat \X Nat)
      <3>1. PicksInv'
        BY PickKeepsGroups
      <3> QED BY <1>3, <3>1 DEF PicksInv
    <2> QED BY <1>10, <2>1, LenProperties
  <1>14. \A i \in 1 .. (n + 1) : i \in 1 .. n \/ i = n + 1
    BY ONLY n \in Nat
  <1>15. Floor \in Int
    BY FloorType
  <1>16. ASSUME NEW r \in DOMAIN pool'
         PROVE  /\ pool'[r] = Softened(p, r)[n + 1]
                /\ (\A i \in 1 .. (n + 1) : ~Acts(p[i][1], r)) \/ pool'[r] >= Floor
    <2>1. r \in DOMAIN pool \ {best} /\ r \in Admitted /\ pool'[r] = After(pool[r], best, r)
      BY <1>6, <1>9
    <2>2. /\ pool[r] = Softened(picked, r)[n]
          /\ (\A i \in 1 .. n : ~Acts(picked[i][1], r)) \/ pool[r] >= Floor
      BY <1>4, <1>5, <2>1 DEF SoftInv
    <2>3. pool'[r] = Softened(p, r)[n + 1]
      BY <1>11, <2>1, <2>2
    <2>4. CASE Acts(best, r)
      BY <1>6, <2>3, <2>4
    <2>5. CASE ~Acts(best, r)
      <3>1. pool'[r] = pool[r]
        BY <2>1, <2>5 DEF After
      <3>2. CASE pool[r] >= Floor
        BY <2>3, <3>1, <3>2
      <3>3. CASE \A i \in 1 .. n : ~Acts(picked[i][1], r)
        <4>1. \A i \in 1 .. (n + 1) : ~Acts(p[i][1], r)
          BY <1>10, <1>12, <1>14, <2>5, <3>3
        <4> QED BY <2>3, <4>1
      <3> QED BY <2>2, <3>2, <3>3
    <2> QED BY <2>4, <2>5
  <1>17. ASSUME NEW i \in 1 .. (n + 1)
         PROVE  /\ p[i][2] = Softened(p, p[i][1])[i - 1]
                /\ (\A j \in 1 .. i - 1 : ~Acts(p[j][1], p[i][1])) \/ p[i][2] >= Floor
    <2>1. CASE i \in 1 .. n
      <3>1. PICK r : r = picked[i][1]
        OBVIOUS
      <3>2. r \in Admitted /\ p[i] = picked[i]
        BY <1>5, <1>9, <1>10, <2>1, <3>1
      <3>3. /\ picked[i][2] = Softened(picked, r)[i - 1]
            /\ (\A j \in 1 .. i - 1 : ~Acts(picked[j][1], r)) \/ picked[i][2] >= Floor
        BY <1>5, <2>1, <3>1 DEF SoftInv
      <3>4. i - 1 \in 0 .. n /\ \A j \in 1 .. i - 1 : j \in 1 .. n
        BY <2>1
      <3>5. \A j \in 1 .. i - 1 : p[j] = picked[j]
        BY <1>10, <3>4
      <3>6. Softened(p, r)[i - 1] = Softened(picked, r)[i - 1]
        BY <1>11, <3>2, <3>4
      <3> QED BY <3>1, <3>2, <3>3, <3>5, <3>6
    <2>2. CASE i = n + 1
      <3>1. /\ x = Softened(picked, best)[n]
            /\ (\A j \in 1 .. n : ~Acts(picked[j][1], best)) \/ x >= Floor
        BY <1>1, <1>2, <1>4, <1>5 DEF SoftInv
      <3>2. i - 1 = n /\ n \in 0 .. n
        BY <2>2
      <3>3. Softened(p, best)[n] = Softened(picked, best)[n]
        BY <1>1, <1>11, <3>2
      <3>4. p[i][1] = best /\ p[i][2] = x
        BY <1>12, <2>2
      <3>5. \A j \in 1 .. i - 1 : p[j] = picked[j]
        BY <1>10, <3>2
      <3> QED BY <3>1, <3>2, <3>3, <3>4, <3>5
    <2> QED BY <1>14, <2>1, <2>2
  <1>18. ASSUME NEW r \in Gone'
         PROVE  \/ \E i \in 1 .. (n + 1) : p[i][1] = r
                \/ /\ Softened(p, r)[n + 1] < Floor
                   /\ \E i \in 1 .. (n + 1) : Acts(p[i][1], r)
    <2>1. n + 1 \in 1 .. (n + 1) /\ 1 .. n \subseteq 1 .. (n + 1)
      OBVIOUS
    <2>2. CASE r \in Gone
      <3>1. \/ \E i \in 1 .. n : picked[i][1] = r
            \/ Softened(picked, r)[n] < Floor /\ \E i \in 1 .. n : Acts(picked[i][1], r)
        BY <1>4, <1>5, <2>2 DEF SoftInv
      <3>2. CASE \E i \in 1 .. n : picked[i][1] = r
        BY <1>10, <2>1, <3>2
      <3>3. CASE Softened(picked, r)[n] < Floor /\ \E i \in 1 .. n : Acts(picked[i][1], r)
        <4>1. \E i \in 1 .. (n + 1) : Acts(p[i][1], r)
          BY <1>10, <2>1, <3>3
        <4>2. PICK y : y = Softened(picked, r)[n]
          OBVIOUS
        <4>3. y \in Nat /\ Softened(p, r)[n + 1] = After(y, best, r) /\ r \in Admitted
          BY <1>9, <1>11, <2>2, <4>2
        <4>4. PICK z : z = After(y, best, r)
          OBVIOUS
        <4>5. z \in Nat /\ z <= y
          BY <1>1, <4>3, <4>4, LessAfter
        <4>6. z < Floor
          BY <1>15, <3>3, <4>2, <4>3, <4>5
        <4> QED BY <4>1, <4>3, <4>4, <4>6
      <3> QED BY <3>1, <3>2, <3>3
    <2>3. CASE r = best
      BY <1>12, <2>1, <2>3
    <2>4. CASE r \notin Gone /\ r # best
      <3>1. r \in DOMAIN pool \ {best} /\ r \notin DOMAIN pool' /\ r \in Admitted
        BY <1>7, <1>9, <2>4
      <3>2. Acts(best, r) /\ After(pool[r], best, r) < Floor
        BY <1>6, <3>1
      <3>3. pool[r] = Softened(picked, r)[n]
        BY <1>4, <3>1 DEF SoftInv
      <3>4. Softened(p, r)[n + 1] < Floor
        BY <1>11, <3>1, <3>2, <3>3
      <3> QED BY <1>12, <2>1, <3>2, <3>4
    <2> QED BY <2>2, <2>3, <2>4
  <1>19. ASSUME NEW i \in 1 .. (n + 1)
         PROVE  /\ \A j \in 1 .. (n + 1) : i < j /\ Mates(p[i][1], p[j][1]) => p[i][2] >= p[j][2]
                /\ \A r \in DOMAIN pool' : Mates(p[i][1], r) => p[i][2] >= pool'[r]
    <2>1. \A r \in DOMAIN pool' : /\ r \in DOMAIN pool \ {best}
                                  /\ pool'[r] \in Nat /\ pool'[r] <= pool[r]
      <3> SUFFICES ASSUME NEW r \in DOMAIN pool'
                   PROVE  r \in DOMAIN pool \ {best} /\ pool'[r] \in Nat /\ pool'[r] <= pool[r]
        OBVIOUS
      <3>1. r \in DOMAIN pool \ {best} /\ pool'[r] = After(pool[r], best, r)
        BY <1>6
      <3>2. r \in Admitted /\ pool[r] \in Nat
        BY <1>9, <3>1
      <3>3. After(pool[r], best, r) \in Nat /\ After(pool[r], best, r) <= pool[r]
        BY <1>1, <3>2, LessAfter
      <3> QED BY <3>1, <3>3
    <2>2. CASE i \in 1 .. n
      <3>1. /\ \A j \in 1 .. n : i < j /\ Mates(picked[i][1], picked[j][1]) => picked[i][2] >= picked[j][2]
            /\ \A r \in DOMAIN pool : Mates(picked[i][1], r) => picked[i][2] >= pool[r]
        BY <1>5, <2>2 DEF SoftInv
      <3>2. p[i] = picked[i] /\ picked[i][2] \in Nat
        BY <1>5, <1>10, <2>2
      <3>3. ASSUME NEW j \in 1 .. (n + 1), i < j, Mates(p[i][1], p[j][1]) PROVE p[i][2] >= p[j][2]
        <4>1. CASE j \in 1 .. n
          BY <1>10, <3>1, <3>2, <3>3, <4>1
        <4>2. CASE j = n + 1
          BY <1>1, <1>2, <1>12, <3>1, <3>2, <3>3, <4>2
        <4> QED BY <1>14, <4>1, <4>2
      <3>4. ASSUME NEW r \in DOMAIN pool', Mates(p[i][1], r) PROVE p[i][2] >= pool'[r]
        <4>1. pool[r] \in Nat /\ pool'[r] \in Nat /\ pool'[r] <= pool[r] /\ picked[i][2] >= pool[r]
          BY <1>9, <2>1, <3>1, <3>2, <3>4
        <4>2. PICK a, b, c : a = picked[i][2] /\ b = pool[r] /\ c = pool'[r]
          OBVIOUS
        <4>3. a >= c
          BY <3>2, <4>1, <4>2
        <4> QED BY <3>2, <4>2, <4>3
      <3> QED BY <3>3, <3>4
    <2>3. CASE i = n + 1
      <3>1. \A j \in 1 .. (n + 1) : ~(i < j)
        BY <2>3
      <3>2. ASSUME NEW r \in DOMAIN pool' PROVE x >= pool'[r]
        <4>1. pool[r] \in Nat /\ pool'[r] \in Nat /\ pool'[r] <= pool[r] /\ x >= pool[r]
          BY <1>1, <1>2, <1>9, <2>1
        <4>2. PICK b, c : b = pool[r] /\ c = pool'[r]
          OBVIOUS
        <4>3. x >= c
          BY <4>1, <4>2
        <4> QED BY <4>2, <4>3
      <3>3. p[i][2] = x
        BY <1>12, <2>3
      <3> QED BY <3>1, <3>2, <3>3
    <2> QED BY <1>14, <2>2, <2>3
  <1>20. (Len(picked))' = n + 1 /\ (DOMAIN picked)' = 1 .. (n + 1) /\ Floor' = Floor
    BY <1>3, <1>10, <1>13 DEF Floor
  <1>21. \A r : Softened(picked, r)' = Softened(p, r)
    BY <1>1, <1>3, SameSoftened
  <1>22. /\ \A r \in DOMAIN pool' :
                /\ pool'[r] = Softened(picked, r)'[n + 1]
                /\ (\A i \in 1 .. (n + 1) : ~Acts(p[i][1], r)') \/ pool'[r] >= Floor
         /\ \A i \in 1 .. (n + 1) :
                /\ p[i][2] = Softened(picked, p[i][1])'[i - 1]
                /\ (\A j \in 1 .. i - 1 : ~Acts(p[j][1], p[i][1])') \/ p[i][2] >= Floor
         /\ \A r \in Gone' :
                \/ \E i \in 1 .. (n + 1) : p[i][1] = r
                \/ /\ Softened(picked, r)'[n + 1] < Floor
                   /\ \E i \in 1 .. (n + 1) : Acts(p[i][1], r)'
    BY <1>8, <1>16, <1>17, <1>18, <1>21
  <1> QED BY <1>3, <1>8, <1>19, <1>20, <1>22 DEF SoftInv

(* A step that moves no row.                                                 *)
LEMMA SameState ==
    ASSUME Asked, request' = request, waiting' = waiting, pool' = pool, picked' = picked
    PROVE  /\ Gone' = Gone
           /\ GroupsInv => GroupsInv'
           /\ PicksInv => PicksInv'
           /\ HardInv => HardInv'
           /\ SoftInv => SoftInv'
           /\ Capped(picked)' = Capped(picked)
           /\ Swept(Ranked({Scored(r) : r \in Admitted}))' = Swept(Ranked({Scored(r) : r \in Admitted}))
  <1>1. /\ Admitted' = Admitted /\ Anchors' = Anchors
        /\ Leading' = Leading /\ Hard' = Hard /\ Groups' = Groups
        /\ \A r : Score(r)' = Score(r) /\ Scored(r)' = Scored(r)
        /\ \A r, s : /\ Before(r, s)' <=> Before(r, s)
                     /\ Rivals(r, s)' <=> Rivals(r, s)
                     /\ Mates(r, s)' <=> Mates(r, s)
                     /\ Acts(r, s)' <=> Acts(r, s)
    BY SameRequest
  <1>2. Gone' = Gone
    BY <1>1 DEF Gone
  <1>3. GroupsInv => GroupsInv'
    BY <1>1 DEF GroupsInv
  <1>4. PicksInv => PicksInv'
    BY <1>2 DEF PicksInv
  <1>5. (ToSet(picked))' = ToSet(picked)
    BY DEF ToSet
  <1>6. HardInv => HardInv'
    <2>1. {Scored(a) : a \in Gone \cap Hard}' = {Scored(a) : a \in Gone \cap Hard}
      BY <1>1, <1>2
    <2> QED BY <1>1, <1>2, <1>5, <2>1 DEF HardInv
  <1>7. SoftInv => SoftInv'
    <2>1. PICK p : p = picked'
      OBVIOUS
    <2>2. \A r : Softened(picked, r)' = Softened(p, r)
      BY <2>1, SameSoftened
    <2>3. \A r : Softened(picked, r)' = Softened(picked, r)
      BY <2>1, <2>2
    <2>4. Floor' = Floor
      BY DEF Floor
    <2> QED BY <1>1, <1>2, <2>3, <2>4 DEF SoftInv
  <1>8. Capped(picked)' = Capped(picked)
    BY DEF Capped, ToSet, Ranked
  <1>9. Swept(Ranked({Scored(r) : r \in Admitted}))' = Swept(Ranked({Scored(r) : r \in Admitted}))
    <2>1. {Scored(r) : r \in Admitted}' = {Scored(r) : r \in Admitted}
      BY <1>1
    <2>3. Ranked({Scored(r) : r \in Admitted})' = Ranked({Scored(r) : r \in Admitted})
      BY <2>1 DEF Ranked
    <2>4. PICK order : order = Ranked({Scored(r) : r \in Admitted})'
      OBVIOUS
    <2>5. Swept(Ranked({Scored(r) : r \in Admitted}))' = Swept(order)
      BY <2>4 DEF Swept, Punished, Overlap
    <2> QED BY <2>3, <2>4, <2>5
  <1> QED BY <1>2, <1>3, <1>4, <1>6, <1>7, <1>8, <1>9

(* Nothing has been picked yet.                                              *)
LEMMA NothingPicked ==
    ASSUME Asked, waiting = Groups, pool = <<>>, picked = <<>>
    PROVE  GroupsInv /\ PicksInv /\ HardInv /\ SoftInv
  <1>1. UNION waiting = Admitted
    BY GroupFacts
  <1>2. DOMAIN pool = {} /\ DOMAIN picked = {} /\ pool \in [DOMAIN pool -> Nat]
        /\ picked \in Seq(Nat \X Nat)
    OBVIOUS
  <1>3. Gone = {}
    BY <1>1 DEF Gone
  <1>4. GroupsInv /\ PicksInv
    BY <1>2 DEF GroupsInv, PicksInv
  <1>5. ToSet(picked) = {} /\ {Scored(a) : a \in Gone \cap Hard} = {}
    BY <1>2, <1>3 DEF ToSet
  <1> QED BY <1>2, <1>3, <1>4, <1>5 DEF HardInv, SoftInv

LEMMA AdmitStep == ASSUME SuppressionInv, Admit PROVE SuppressionInv'
  <1>1. /\ decoding = "admit" /\ waiting = {} /\ pool = <<>> /\ picked = <<>> /\ Asked
        /\ request' = request /\ pool' = pool /\ picked' = picked
    BY DEF SuppressionInv, Admit
  <1>2. Asked' /\ Groups' = Groups
    BY <1>1, SameRequest
  <1>3. CASE decoding' = "refused"
    BY <1>2, <1>3 DEF SuppressionInv
  <1>4. CASE decoding' = "suppress" /\ waiting' = Groups
    <2>1. (GroupsInv /\ PicksInv /\ HardInv /\ SoftInv)'
      <3>1. (Asked /\ waiting = Groups /\ pool = <<>> /\ picked = <<>>)'
        BY <1>1, <1>2, <1>4
      <3> QED BY <3>1, NothingPicked, PTL
    <2> QED BY <1>1, <1>2, <1>4, <2>1 DEF SuppressionInv
  <1> QED BY <1>3, <1>4 DEF Admit

(* The next group: no pick was of it.                                        *)
LEMMA NextGroupStep == ASSUME SuppressionInv, NextGroup PROVE SuppressionInv'
  <1>1. /\ decoding = "suppress" /\ request.caller # "device" /\ DOMAIN pool = {} /\ Asked
        /\ request' = request /\ picked' = picked /\ decoding' = decoding
        /\ GroupsInv /\ PicksInv /\ (IF SoftMethod THEN SoftInv ELSE HardInv)
    BY DEF SuppressionInv, NextGroup
  <1>2. PICK group \in waiting : /\ pool' = [r \in group |-> Score(r)]
                                 /\ waiting' = waiting \ {group}
    BY DEF NextGroup
  <1>3. group \in Groups /\ waiting \subseteq Groups
    BY <1>1, <1>2 DEF GroupsInv
  <1>4. /\ UNION Groups = Admitted
        /\ \A g \in Groups : g \subseteq Admitted /\ \A r, s \in g : Mates(r, s)
        /\ \A g \in Groups : \A s \in g, r \in Admitted : Mates(r, s) => r \in g
    BY <1>1, GroupFacts
  <1>5. ASSUME NEW other \in waiting, other \cap group # {} PROVE other = group
    <2>1. PICK s : s \in other /\ s \in group
      BY <1>5
    <2>2. other \in Groups
      BY <1>3
    <2>3. \A r \in other : Mates(r, s) /\ r \in Admitted
      BY <1>4, <2>1, <2>2
    <2>4. \A r \in group : Mates(r, s) /\ r \in Admitted
      BY <1>3, <1>4, <2>1
    <2>5. other \subseteq group
      BY <1>3, <1>4, <2>1, <2>3
    <2>6. group \subseteq other
      BY <1>4, <2>1, <2>2, <2>4
    <2> QED BY <2>5, <2>6
  <1>6. UNION waiting' = (UNION waiting) \ group
    BY <1>2, <1>5
  <1>7. DOMAIN pool' = group /\ group \subseteq UNION waiting /\ group \subseteq Admitted
    BY <1>2, <1>3, <1>4
  <1>8. /\ Admitted' = Admitted /\ Groups' = Groups /\ Leading' = Leading /\ Hard' = Hard /\ Asked'
        /\ \A r : Score(r)' = Score(r) /\ Scored(r)' = Scored(r)
        /\ \A r, s : /\ Before(r, s)' <=> Before(r, s)
                     /\ Rivals(r, s)' <=> Rivals(r, s)
                     /\ Mates(r, s)' <=> Mates(r, s)
                     /\ Acts(r, s)' <=> Acts(r, s)
    BY <1>1, SameRequest
  <1>9. Gone' = Gone
    BY <1>1, <1>6, <1>7, <1>8 DEF Gone
  <1>10. \A r \in group : pool'[r] = Score(r) /\ Score(r) \in Nat
    BY <1>1, <1>2, <1>7, RowFacts
  <1>11. GroupsInv'
    <2>1. pool' \in [DOMAIN pool' -> Nat]
      BY <1>2, <1>10
    <2>2. \A r, s \in group : Mates(r, s)
      BY <1>3, <1>4
    <2> QED BY <1>2, <1>3, <1>6, <1>7, <1>8, <2>1, <2>2 DEF GroupsInv
  <1>12. PicksInv'
    BY <1>1, <1>9 DEF PicksInv
  <1>13. \A k \in Gone, r \in group : ~Mates(k, r)
    <2> SUFFICES ASSUME NEW k \in Gone, NEW r \in group, Mates(k, r) PROVE FALSE
      OBVIOUS
    <2>1. k \in Admitted /\ k \notin UNION waiting
      BY DEF Gone
    <2>2. r \in UNION waiting
      BY <1>7
    <2>3. k \in UNION waiting
      BY <1>1, <1>3, <2>1, <2>2, WaitingClosed
    <2> QED BY <2>1, <2>3
  <1>14. ASSUME ~SoftMethod PROVE HardInv'
    <2>1. HardInv
      BY <1>1, <1>14
    <2>2. (ToSet(picked))' = ToSet(picked)
      BY <1>1 DEF ToSet
    <2>3. {Scored(a) : a \in Gone \cap Hard}' = {Scored(a) : a \in Gone \cap Hard}
      BY <1>8, <1>9
    <2> QED BY <1>1, <1>7, <1>8, <1>9, <1>10, <1>13, <2>1, <2>2, <2>3 DEF HardInv
  <1>15. ASSUME SoftMethod PROVE SoftInv'
    <2>1. SoftInv
      BY <1>1, <1>15
    <2>2. PICK p : p = picked'
      OBVIOUS
    <2>3. \A r : Softened(picked, r)' = Softened(picked, r)
      <3>1. \A r : Softened(picked, r)' = Softened(p, r)
        BY <1>1, <2>2, SameSoftened
      <3> QED BY <1>1, <2>2, <3>1
    <2>4. Floor' = Floor
      BY DEF Floor
    <2>5. PICK n \in Nat : n = Len(picked) /\ DOMAIN picked = 1 .. n
      BY <1>1, PickedRows
    <2>6. \A i \in 1 .. n : picked[i][1] \in Gone
      BY <1>1, <2>5 DEF PicksInv
    <2>7. \A i \in 1 .. n, r \in group : ~Mates(picked[i][1], r) /\ ~Acts(picked[i][1], r)
      BY <1>13, <2>6, ActingAreMates
    <2>8. ASSUME NEW r \in group PROVE pool'[r] = Softened(picked, r)[n]
      <3>1. PICK f : f = Softened(picked, r)
        OBVIOUS
      <3>2. Softens(f, picked, r)
        <4>1. Len(picked) \in Nat /\ Rows(picked) /\ r \in Admitted
          BY <1>1, <1>7, PickedRows
        <4> QED BY <1>1, <1>15, <3>1, <4>1, SoftenedIs
      <3>3. n <= Len(picked) /\ Len(picked) \in Nat /\ \A i \in 1 .. n : ~Acts(picked[i][1], r)
        BY <2>5, <2>7
      <3>4. f[n] = Score(r)
        BY ONLY <3>2, <3>3, n \in Nat, SoftenedSpared
      <3> QED BY <1>10, <3>1, <3>4
    <2> QED BY <1>1, <1>7, <1>8, <1>9, <2>1, <2>3, <2>4, <2>5, <2>7, <2>8 DEF SoftInv
  <1>16. SoftMethod' <=> SoftMethod
    BY <1>1 DEF SoftMethod
  <1> QED BY <1>1, <1>8, <1>11, <1>12, <1>14, <1>15, <1>16 DEF SuppressionInv

LEMMA PickStep == ASSUME SuppressionInv, Pick PROVE SuppressionInv'
  <1>1. decoding = "suppress" /\ DOMAIN pool # {} /\ Asked
    BY DEF SuppressionInv, Pick
  <1>2. request.caller # "device"
    <2>1. DOMAIN <<>> = {}
      OBVIOUS
    <2> QED BY <1>1, <2>1 DEF SuppressionInv
  <1>3. GroupsInv /\ PicksInv /\ IF SoftMethod THEN SoftInv ELSE HardInv
    BY <1>1, <1>2 DEF SuppressionInv
  <1>4. PICK best : Turn(best)
    BY <1>1, <1>3, PickTurns
  <1>5. request' = request /\ decoding' = "suppress"
    BY <1>4 DEF Turn
  <1>6. Asked' /\ (SoftMethod' <=> SoftMethod)
    BY <1>1, <1>5, SameRequest DEF SoftMethod
  <1>7. GroupsInv' /\ PicksInv'
    BY <1>1, <1>3, <1>4, PickKeepsGroups
  <1>8. SoftMethod => SoftInv'
    BY <1>1, <1>3, <1>4, PickKeepsSoft
  <1>9. ~SoftMethod => HardInv'
    BY <1>1, <1>3, <1>4, PickKeepsHard
  <1> QED BY <1>2, <1>5, <1>6, <1>7, <1>8, <1>9 DEF SuppressionInv

LEMMA FinishStep == ASSUME SuppressionInv, Finish PROVE SuppressionInv'
  <1>1. /\ decoding = "suppress" /\ request.caller # "device" /\ decoding' = "done"
        /\ DOMAIN pool = {} /\ waiting = {} /\ output' = Capped(picked)
        /\ request' = request /\ waiting' = waiting /\ pool' = pool /\ picked' = picked
    BY DEF Finish
  <1>2. Asked /\ GroupsInv /\ PicksInv /\ IF SoftMethod THEN SoftInv ELSE HardInv
    BY <1>1 DEF SuppressionInv
  <1>3. /\ GroupsInv => GroupsInv'
        /\ PicksInv => PicksInv'
        /\ HardInv => HardInv'
        /\ SoftInv => SoftInv'
        /\ Capped(picked)' = Capped(picked)
    BY <1>1, <1>2, SameState
  <1>4. Asked' /\ (SoftMethod' <=> SoftMethod)
    BY <1>1, <1>2, SameRequest DEF SoftMethod
  <1> QED BY <1>1, <1>2, <1>3, <1>4 DEF SuppressionInv

LEMMA SweepStep == ASSUME SuppressionInv, Sweep PROVE SuppressionInv'
  <1>1. /\ decoding = "suppress" /\ request.caller = "device" /\ decoding' = "done"
        /\ output' = Swept(Ranked({Scored(r) : r \in Admitted}))
        /\ request' = request /\ pool' = pool /\ picked' = picked
    BY DEF Sweep
  <1>2. Asked
    BY DEF SuppressionInv
  <1>3. Asked' /\ Admitted' = Admitted /\ \A r : Scored(r)' = Scored(r)
    BY <1>1, <1>2, SameRequest
  <1>4. Swept(Ranked({Scored(r) : r \in Admitted}))' = Swept(Ranked({Scored(r) : r \in Admitted}))
    <2>1. {Scored(r) : r \in Admitted}' = {Scored(r) : r \in Admitted}
      BY <1>3
    <2>2. Ranked({Scored(r) : r \in Admitted})' = Ranked({Scored(r) : r \in Admitted})
      BY <2>1 DEF Ranked
    <2>3. PICK order : order = Ranked({Scored(r) : r \in Admitted})'
      OBVIOUS
    <2>4. \A r, s : Punished(r, s)' <=> Punished(r, s)
      BY <1>1 DEF Punished, Overlap
    <2>5. request.budget' = request.budget
      BY <1>1
    <2>6. Swept(Ranked({Scored(r) : r \in Admitted}))' = Swept(order)
      BY <2>3, <2>4, <2>5 DEF Swept
    <2> QED BY <2>2, <2>3, <2>6
  <1> QED BY <1>1, <1>3, <1>4 DEF SuppressionInv

LEMMA SuppressionStays ==
    ASSUME SuppressionInv, UNCHANGED suppression PROVE SuppressionInv'
  <1>1. /\ request' = request /\ waiting' = waiting /\ pool' = pool /\ picked' = picked
        /\ output' = output /\ decoding' = decoding
    BY DEF suppression
  <1>2. Asked
    BY DEF SuppressionInv
  <1>3. /\ GroupsInv => GroupsInv'
        /\ PicksInv => PicksInv'
        /\ HardInv => HardInv'
        /\ SoftInv => SoftInv'
        /\ Capped(picked)' = Capped(picked)
        /\ Swept(Ranked({Scored(r) : r \in Admitted}))' = Swept(Ranked({Scored(r) : r \in Admitted}))
    BY <1>1, <1>2, SameState
  <1>4. Asked' /\ (SoftMethod' <=> SoftMethod)
    BY <1>1, <1>2, SameRequest DEF SoftMethod
  <1> QED BY <1>1, <1>3, <1>4 DEF SuppressionInv

(* The inductive invariant of a decode.                                      *)
LEMMA SuppressionHolds == SuppressionSpec => []SuppressionInv
  <1>1. SuppressionInit => SuppressionInv
    BY DEF SuppressionInit, SuppressionInv, Asked
  <1>2. SuppressionInv /\ [SuppressionNext]_suppression => SuppressionInv'
    BY AdmitStep, NextGroupStep, PickStep, SweepStep, FinishStep, SuppressionStays
       DEF SuppressionNext
  <1> QED BY <1>1, <1>2, PTL DEF SuppressionSpec

(* What a cap leaves of a list, and how much a list without repeats holds.   *)
CutFrom(out, list, b) ==
    /\ Len(out) = Min({b, Len(list)})
    /\ DOMAIN out \subseteq 1 .. Len(list)
    /\ \A i \in DOMAIN out : out[i] = list[i]
    /\ ToSet(out) \subseteq ToSet(list)
    /\ \A x \in ToSet(out), y \in ToSet(list) \ ToSet(out) :
          \E i, j \in 1 .. Len(list) : i < j /\ x = list[i] /\ y = list[j]

LEMMA CutList ==
    ASSUME NEW S, NEW list \in Seq(S), NEW b \in Nat, NEW out,
           out = SubSeq(list, 1, Min({b, Len(list)}))
    PROVE  CutFrom(out, list, b)
  <1>1. PICK n \in Nat : n = Len(list) /\ DOMAIN list = 1 .. n
    BY LenProperties
  <1>2. PICK m \in Nat : m = Min({b, n}) /\ m <= n
    <2>1. Min({b, n}) = IF b <= n THEN b ELSE n
      <3>1. b \in Int /\ n \in Int
        OBVIOUS
      <3> QED BY <3>1, LeastOfTwo
    <2>2. Min({b, n}) \in Nat /\ Min({b, n}) <= n
      BY <2>1
    <2> QED BY <2>2
  <1>3. \A i \in 1 .. m : i \in 1 .. n
    BY <1>2
  <1>4. out = SubSeq(list, 1, m)
    BY <1>1, <1>2
  <1>5. out = [i \in 1 .. m |-> list[i]]
    <2>1. SubSeq(list, 1, m) = [i \in 1 .. (1 + m - 1) |-> list[1 + i - 1]]
      OBVIOUS
    <2>2. 1 + m - 1 = m /\ \A i \in 1 .. m : 1 + i - 1 = i
      OBVIOUS
    <2> QED BY <1>4, <2>1, <2>2
  <1>6. out \in Seq(S)
    <2>1. \A i \in 1 .. m : list[i] \in S
      BY <1>1, <1>3, ElementOfSeq
    <2>2. out \in [1 .. m -> S]
      BY <1>5, <2>1
    <2> QED BY <2>2, SeqDef
  <1>7. Len(out) = m /\ DOMAIN out = 1 .. m
    <2>1. Len(out) \in Nat /\ DOMAIN out = 1 .. Len(out)
      BY <1>6, LenProperties
    <2>2. 1 .. Len(out) = 1 .. m
      BY <1>5, <2>1
    <2> QED BY <2>1, <2>2, AsLong
  <1>8. ToSet(out) = {list[i] : i \in 1 .. m} /\ ToSet(list) = {list[i] : i \in 1 .. n}
    BY <1>1, <1>5, <1>7 DEF ToSet
  <1>9. ASSUME NEW x \in ToSet(out), NEW y \in ToSet(list) \ ToSet(out)
        PROVE  \E i, j \in 1 .. n : i < j /\ x = list[i] /\ y = list[j]
    <2>1. PICK i \in 1 .. m : x = list[i]
      BY <1>8
    <2>2. PICK j \in 1 .. n : y = list[j]
      BY <1>8
    <2>3. j \notin 1 .. m
      BY <1>8, <2>2
    <2>4. i < j /\ i \in 1 .. n
      BY <1>3, <2>3
    <2> QED BY <2>1, <2>2, <2>4
  <1>10. ToSet(out) \subseteq ToSet(list)
    BY <1>3, <1>8
  <1>11. DOMAIN out \subseteq 1 .. n /\ \A i \in DOMAIN out : out[i] = list[i]
    BY <1>3, <1>5, <1>7
  <1>12. Len(out) = Min({b, Len(list)})
    BY <1>1, <1>2, <1>7
  <1>13. \A x \in ToSet(out), y \in ToSet(list) \ ToSet(out) :
            \E i, j \in 1 .. Len(list) : i < j /\ x = list[i] /\ y = list[j]
    <2> SUFFICES ASSUME NEW x \in ToSet(out), NEW y \in ToSet(list) \ ToSet(out)
                 PROVE  \E i, j \in 1 .. Len(list) : i < j /\ x = list[i] /\ y = list[j]
      OBVIOUS
    <2>1. PICK i \in 1 .. n, j \in 1 .. n : i < j /\ x = list[i] /\ y = list[j]
      BY <1>9
    <2>2. i \in 1 .. Len(list) /\ j \in 1 .. Len(list)
      BY <1>1
    <2> QED BY <2>1, <2>2
  <1>14. DOMAIN out \subseteq 1 .. Len(list)
    BY <1>1, <1>11
  <1> QED BY <1>10, <1>11, <1>12, <1>13, <1>14, Zenon DEF CutFrom

LEMMA InjectiveLong ==
    ASSUME NEW S, NEW list \in Seq(S), \A i, j \in 1 .. Len(list) : i # j => list[i] # list[j]
    PROVE  IsFiniteSet(ToSet(list)) /\ Cardinality(ToSet(list)) = Len(list)
  <1>1. PICK n \in Nat : n = Len(list) /\ DOMAIN list = 1 .. n
    BY LenProperties
  <1>2. PICK T : T = ToSet(list)
    OBVIOUS
  <1>3. T = {list[i] : i \in 1 .. n}
    BY <1>1, <1>2 DEF ToSet
  <1>4. PICK f : f = [i \in 1 .. n |-> list[i]]
    OBVIOUS
  <1>5. f \in [1 .. n -> T] /\ \A e \in T : \E i \in 1 .. n : f[i] = e
    BY <1>3, <1>4
  <1>6. f \in Surjection(1 .. n, T) /\ f \in Injection(1 .. n, T)
    BY <1>1, <1>4, <1>5 DEF Surjection, Injection, IsInjective
  <1>7. IsFiniteSet(1 .. n) /\ Cardinality(1 .. n) = n
    <2>1. 1 \in Int /\ n \in Int
      OBVIOUS
    <2>2. IsFiniteSet(1 .. n) /\ Cardinality(1 .. n) = IF 1 > n THEN 0 ELSE n - 1 + 1
      BY <2>1, FS_Interval
    <2> QED BY <2>2
  <1>8. IsFiniteSet(T) /\ Cardinality(T) = n
    BY <1>6, <1>7, FS_Surjection
  <1> QED BY <1>1, <1>2, <1>8

(* What is left of the picks of a head, sorted and cut, or of a call, cut.   *)
CutOf(all, out) ==
    /\ \A i, j \in DOMAIN out : i < j => out[i][2] >= out[j][2]
    /\ Len(out) = Min({request.budget, Len(all)})
    /\ ToSet(out) \subseteq ToSet(all)
    /\ \A a \in ToSet(out), b \in ToSet(all) \ ToSet(out) :
          IF SoftMethod /\ request.caller \notin Heads THEN a[2] >= b[2] ELSE Better(a, b)

LEMMA HeadCut ==
    ASSUME Asked, PicksInv, request.caller \in Heads, output = Capped(picked)
    PROVE  CutOf(picked, output)
  <1>1. picked \in Seq(Nat \X Nat) /\ Len(picked) \in Nat /\ request.budget \in Nat
    BY LenProperties, SuppressionAssumption DEF PicksInv, Asked
  <1>2. DOMAIN picked = 1 .. Len(picked)
    BY <1>1, LenProperties
  <1>3. \A i, j \in 1 .. Len(picked) : i # j => picked[i] # picked[j]
    BY <1>2 DEF PicksInv
  <1>4. IsFiniteSet(ToSet(picked)) /\ Cardinality(ToSet(picked)) = Len(picked)
    BY <1>1, <1>3, InjectiveLong
  <1>5. PICK S : S = ToSet(picked)
    OBVIOUS
  <1>6. S \subseteq Int \X Int
    <2>1. \A i \in 1 .. Len(picked) : picked[i] \in Nat \X Nat
      BY <1>1, ElementOfSeq
    <2>2. S \subseteq Nat \X Nat
      BY <1>2, <1>5, <2>1 DEF ToSet
    <2> QED BY <2>2
  <1>7. PICK list : list = Ranked(S)
    OBVIOUS
  <1>8. Descends(list, Len(picked), S) /\ list \in Seq(S) /\ Len(list) = Len(picked) /\ ToSet(list) = S
    <2>1. IsFiniteSet(S) /\ Cardinality(S) = Len(picked)
      BY <1>4, <1>5
    <2> QED BY <1>6, <1>7, <2>1, RankedDescends
  <1>9. output = SubSeq(list, 1, Min({request.budget, Len(list)}))
    BY <1>5, <1>7, <1>8 DEF Capped
  <1>10. /\ Len(output) = Min({request.budget, Len(list)})
         /\ DOMAIN output \subseteq 1 .. Len(list)
         /\ \A i \in DOMAIN output : output[i] = list[i]
         /\ ToSet(output) \subseteq ToSet(list)
         /\ \A x \in ToSet(output), y \in ToSet(list) \ ToSet(output) :
               \E i, j \in 1 .. Len(list) : i < j /\ x = list[i] /\ y = list[j]
    <2>1. CutFrom(output, list, request.budget)
      BY <1>1, <1>8, <1>9, CutList
    <2> QED BY <2>1 DEF CutFrom
  <1>11. \A i, j \in 1 .. Len(list) : i < j => Better(list[i], list[j])
    BY <1>8 DEF Descends
  <1>12. \A i \in 1 .. Len(list) : list[i][2] \in Int
    BY <1>6, <1>8 DEF Descends
  <1>13. ASSUME NEW i \in DOMAIN output, NEW j \in DOMAIN output, i < j
         PROVE  output[i][2] >= output[j][2]
    <2>1. Better(list[i], list[j]) /\ list[i][2] \in Int /\ list[j][2] \in Int
      BY <1>10, <1>11, <1>12, <1>13
    <2>2. list[i][2] >= list[j][2]
      BY <2>1 DEF Better
    <2> QED BY <1>10, <2>2
  <1>14. \A a \in ToSet(output), b \in ToSet(list) \ ToSet(output) : Better(a, b)
    BY <1>10, <1>11
  <1> QED BY <1>5, <1>8, <1>10, <1>13, <1>14 DEF CutOf

LEMMA CallCut ==
    ASSUME Asked, PicksInv, IF SoftMethod THEN SoftInv ELSE HardInv,
           request.caller = "shared", output = Capped(picked)
    PROVE  CutOf(picked, output)
  <1>1. picked \in Seq(Nat \X Nat) /\ Len(picked) \in Nat /\ request.budget \in Nat
    BY LenProperties, SuppressionAssumption DEF PicksInv, Asked
  <1>2. DOMAIN picked = 1 .. Len(picked) /\ \A i \in 1 .. Len(picked) : picked[i][2] \in Int
    BY <1>1, LenProperties, ElementOfSeq
  <1>3. request.caller \notin Heads
    BY DEF Heads
  <1>4. output = SubSeq(picked, 1, Min({request.budget, Len(picked)}))
    BY <1>3 DEF Capped
  <1>5. /\ Len(output) = Min({request.budget, Len(picked)})
        /\ DOMAIN output \subseteq 1 .. Len(picked)
        /\ \A i \in DOMAIN output : output[i] = picked[i]
        /\ ToSet(output) \subseteq ToSet(picked)
        /\ \A x \in ToSet(output), y \in ToSet(picked) \ ToSet(output) :
              \E i, j \in 1 .. Len(picked) : i < j /\ x = picked[i] /\ y = picked[j]
    <2>1. CutFrom(output, picked, request.budget)
      BY <1>1, <1>4, CutList
    <2> QED BY <2>1 DEF CutFrom
  <1>6. \A i, j \in 1 .. Len(picked) : Mates(picked[i][1], picked[j][1])
    BY DEF Mates
  <1>7. ASSUME NEW i \in 1 .. Len(picked), NEW j \in 1 .. Len(picked), i < j
        PROVE  picked[i][2] >= picked[j][2] /\ (~SoftMethod => Better(picked[i], picked[j]))
    <2>1. CASE SoftMethod
      BY <1>2, <1>6, <1>7, <2>1 DEF SoftInv
    <2>2. CASE ~SoftMethod
      <3>1. Better(picked[i], picked[j])
        BY <1>2, <1>6, <1>7, <2>2 DEF HardInv
      <3> QED BY <1>2, <3>1 DEF Better
    <2> QED BY <2>1, <2>2
  <1>8. \A i, j \in DOMAIN output : i < j => output[i][2] >= output[j][2]
    BY <1>5, <1>7
  <1>9. \A a \in ToSet(output), b \in ToSet(picked) \ ToSet(output) :
           a[2] >= b[2] /\ (~SoftMethod => Better(a, b))
    BY <1>5, <1>7
  <1> QED BY <1>3, <1>5, <1>8, <1>9 DEF CutOf

(* The picks before a row's own.                                             *)
LEMMA EarlierIs ==
    ASSUME Asked, PicksInv
    PROVE  /\ \A i \in 1 .. Len(picked) : Earlier(picked, picked[i][1]) = i - 1
           /\ \A r : (\A i \in 1 .. Len(picked) : picked[i][1] # r) => Earlier(picked, r) = Len(picked)
  <1>1. PICK n \in Nat : n = Len(picked) /\ DOMAIN picked = 1 .. n
    BY PickedRows
  <1>2. ASSUME NEW i \in 1 .. n PROVE Earlier(picked, picked[i][1]) = i - 1
    <2>1. PICK own : own = {j \in DOMAIN picked : picked[j][1] = picked[i][1]}
      OBVIOUS
    <2>2. own = {i}
      BY <1>1, <2>1 DEF PicksInv
    <2>3. Min({i}) = i
      <3>1. i \in Int /\ {i, i} = {i}
        OBVIOUS
      <3>2. Min({i, i}) = i
        BY <3>1, LeastOfTwo
      <3> QED BY <3>1, <3>2
    <2>4. Earlier(picked, picked[i][1]) = IF own = {} THEN Len(picked) ELSE Min(own) - 1
      BY <2>1 DEF Earlier
    <2> QED BY <2>2, <2>3, <2>4
  <1>3. ASSUME NEW r, \A i \in 1 .. n : picked[i][1] # r PROVE Earlier(picked, r) = n
    <2>1. {j \in DOMAIN picked : picked[j][1] = r} = {}
      BY <1>1, <1>3
    <2> QED BY <1>1, <2>1 DEF Earlier
  <1> QED BY <1>1, <1>2, <1>3

(* What a method that decays gives, before it is cut.                        *)
LEMMA SoftDone ==
    ASSUME Asked, SoftMethod, PicksInv, SoftInv, Gone = Admitted
    PROVE  ToSet(picked) = {<<r, SoftScore(picked, r)>> : r \in {s \in Admitted : Survives(picked, s)}}
  <1>1. PICK n \in Nat : n = Len(picked) /\ DOMAIN picked = 1 .. n
    BY PickedRows
  <1>2. \A i \in 1 .. n : picked[i] \in Nat \X Nat /\ picked[i][1] \in Admitted
    BY <1>1, PickedRows
  <1>3. /\ \A i \in 1 .. n : Earlier(picked, picked[i][1]) = i - 1
        /\ \A r : (\A i \in 1 .. n : picked[i][1] # r) => Earlier(picked, r) = n
    BY <1>1, EarlierIs
  <1>4. ASSUME NEW i \in 1 .. n
        PROVE  /\ picked[i] = <<picked[i][1], SoftScore(picked, picked[i][1])>>
               /\ Survives(picked, picked[i][1])
    <2>1. PICK r : r = picked[i][1]
      OBVIOUS
    <2>2. Earlier(picked, r) = i - 1
      BY <1>3, <2>1
    <2>3. SoftScore(picked, r) = Softened(picked, r)[i - 1]
      BY <2>2 DEF SoftScore
    <2>4. /\ picked[i][2] = Softened(picked, r)[i - 1]
          /\ (\A j \in 1 .. i - 1 : ~Acts(picked[j][1], r)) \/ picked[i][2] >= Floor
      BY <1>1, <2>1 DEF SoftInv
    <2>5. picked[i] = <<picked[i][1], picked[i][2]>>
      BY <1>2
    <2>6. Survives(picked, r)
      BY <2>2, <2>3, <2>4 DEF Survives, Floor
    <2> QED BY <2>1, <2>3, <2>4, <2>5, <2>6
  <1>5. ASSUME NEW r \in Admitted, Survives(picked, r)
        PROVE  \E i \in 1 .. n : picked[i] = <<r, SoftScore(picked, r)>>
    <2>1. CASE \E i \in 1 .. n : picked[i][1] = r
      BY <1>4, <2>1
    <2>2. CASE \A i \in 1 .. n : picked[i][1] # r
      <3>1. Softened(picked, r)[n] < Floor /\ \E i \in 1 .. n : Acts(picked[i][1], r)
        BY <1>1, <2>2 DEF SoftInv
      <3>2. Earlier(picked, r) = n
        BY <1>3, <2>2
      <3>3. SoftScore(picked, r) >= Floor
        BY <1>5, <3>1, <3>2 DEF Survives, Floor
      <3>4. PICK x : x = Softened(picked, r)[n]
        OBVIOUS
      <3>5. x \in Nat
        <4>1. Softened(picked, r) \in [0 .. Len(picked) -> Nat]
          <5>1. Len(picked) \in Nat /\ Rows(picked)
            BY PickedRows
          <5> QED BY <5>1, SoftenedIs
        <4>2. n \in 0 .. Len(picked)
          BY <1>1
        <4> QED BY <3>4, <4>1, <4>2
      <3>6. x >= Floor
        BY <3>2, <3>3, <3>4 DEF SoftScore
      <3>7. Floor \in Int
        BY FloorType
      <3> QED BY <3>1, <3>4, <3>5, <3>6, <3>7
    <2> QED BY <2>1, <2>2
  <1>6. ToSet(picked) = {picked[i] : i \in 1 .. n}
    BY <1>1 DEF ToSet
  <1>7. ASSUME NEW e \in ToSet(picked)
        PROVE  e \in {<<r, SoftScore(picked, r)>> : r \in {s \in Admitted : Survives(picked, s)}}
    <2>1. PICK i \in 1 .. n : e = picked[i]
      BY <1>6
    <2>2. PICK r \in Admitted : r = picked[i][1]
      BY <1>2
    <2>3. e = <<r, SoftScore(picked, r)>> /\ Survives(picked, r)
      BY <1>4, <2>1, <2>2
    <2> QED BY <2>3
  <1>8. ASSUME NEW e \in {<<r, SoftScore(picked, r)>> : r \in {s \in Admitted : Survives(picked, s)}}
        PROVE  e \in ToSet(picked)
    <2>1. PICK r \in Admitted : Survives(picked, r) /\ e = <<r, SoftScore(picked, r)>>
      BY <1>8
    <2>2. PICK i \in 1 .. n : picked[i] = <<r, SoftScore(picked, r)>>
      BY <1>5, <2>1
    <2> QED BY <1>6, <2>1, <2>2
  <1> QED BY <1>7, <1>8

(* The sweep keeps what leads, best first, until the budget.                 *)
Appended(order, i, kept) ==
    IF Len(kept) < request.budget /\ \A k \in ToSet(kept) : ~Punished(k[1], order[i][1])
    THEN Append(kept, order[i])
    ELSE kept

LEMMA SweptIs ==
    ASSUME NEW S, NEW order \in Seq(S)
    PROVE  \E kept \in [0 .. Len(order) -> Seq(S)] :
              /\ kept[0] = <<>>
              /\ \A i \in 1 .. Len(order) : kept[i] = Appended(order, i, kept[i - 1])
              /\ Swept(order) = kept[Len(order)]
  <1>1. PICK n \in Nat : n = Len(order) /\ DOMAIN order = 1 .. n
    BY LenProperties
  <1>2. \A i \in 1 .. n : order[i] \in S
    BY <1>1, ElementOfSeq
  <1>3. ASSUME NEW kept \in Seq(S), NEW i \in 1 .. n PROVE Appended(order, i, kept) \in Seq(S)
    BY <1>2, AppendProperties DEF Appended
  <1>4. PICK step : step = [p \in (1 .. n) \X Seq(S) |-> Appended(order, p[1], p[2])]
    OBVIOUS
  <1>5. step \in [(1 .. n) \X Seq(S) -> Seq(S)]
    <2>1. ASSUME NEW p \in (1 .. n) \X Seq(S) PROVE Appended(order, p[1], p[2]) \in Seq(S)
      <3>1. p[1] \in 1 .. n /\ p[2] \in Seq(S)
        OBVIOUS
      <3> QED BY <1>3, <3>1
    <2> QED BY <1>4, <2>1
  <1>6. <<>> \in Seq(S)
    BY EmptySeq
  <1>7. PICK f \in [0 .. n -> Seq(S)] : Recurs(f, n, <<>>, step)
    BY <1>5, <1>6, RecurrenceExists
  <1>8. f[0] = <<>> /\ \A i \in 1 .. n : f[i] = step[<<i, f[i - 1]>>]
    BY <1>7 DEF Recurs
  <1>9. ASSUME NEW i \in 1 .. n PROVE f[i] = Appended(order, i, f[i - 1])
    <2>1. i - 1 \in 0 .. n
      OBVIOUS
    <2>2. <<i, f[i - 1]>> \in (1 .. n) \X Seq(S)
      BY <2>1
    <2>3. step[<<i, f[i - 1]>>] = Appended(order, i, f[i - 1])
      BY <1>4, <2>2
    <2> QED BY <1>8, <2>3
  <1> DEFINE Is(g) == g = [i \in 0 .. Len(order) |->
                             IF i = 0 THEN <<>>
                             ELSE IF Len(g[i - 1]) < request.budget
                                     /\ \A k \in ToSet(g[i - 1]) : ~Punished(k[1], order[i][1])
                             THEN Append(g[i - 1], order[i])
                             ELSE g[i - 1]]
  <1>10. Is(f)
    <2>1. f = [i \in 0 .. n |-> f[i]]
      OBVIOUS
    <2>2. ASSUME NEW i \in 0 .. n
          PROVE  f[i] = IF i = 0 THEN <<>>
                        ELSE IF Len(f[i - 1]) < request.budget
                                /\ \A k \in ToSet(f[i - 1]) : ~Punished(k[1], order[i][1])
                        THEN Append(f[i - 1], order[i])
                        ELSE f[i - 1]
      <3>1. CASE i = 0
        BY <1>8, <3>1
      <3>2. CASE i # 0
        <4>1. i \in 1 .. n
          BY <3>2
        <4>2. f[i] = Appended(order, i, f[i - 1])
          BY <1>9, <4>1
        <4> QED BY <3>2, <4>2 DEF Appended
      <3> QED BY <3>1, <3>2
    <2> QED BY <1>1, <2>1, <2>2
  <1>11. Is(CHOOSE g : Is(g))
    <2> HIDE DEF Is
    <2> QED BY <1>10
  <1>12. PICK g : g = CHOOSE h : Is(h)
    OBVIOUS
  <1>13. Swept(order) = g[n]
    BY <1>1, <1>12 DEF Swept
  <1>14. Is(g)
    <2> HIDE DEF Is
    <2> QED BY <1>11, <1>12
  <1>15. g = [i \in 0 .. n |-> IF i = 0 THEN <<>>
                               ELSE IF Len(g[i - 1]) < request.budget
                                       /\ \A k \in ToSet(g[i - 1]) : ~Punished(k[1], order[i][1])
                               THEN Append(g[i - 1], order[i])
                               ELSE g[i - 1]]
    BY <1>1, <1>14
  <1> HIDE DEF Is
  <1>16. /\ DOMAIN g = 0 .. n /\ g = [i \in 0 .. n |-> g[i]]
         /\ \A i \in 0 .. n : g[i] = IF i = 0 THEN <<>>
                                     ELSE IF Len(g[i - 1]) < request.budget
                                             /\ \A k \in ToSet(g[i - 1]) : ~Punished(k[1], order[i][1])
                                     THEN Append(g[i - 1], order[i])
                                     ELSE g[i - 1]
    BY <1>15
  <1>17. g[0] = <<>>
    <2>1. 0 \in 0 .. n
      OBVIOUS
    <2> QED BY <1>16, <2>1
  <1>18. ASSUME NEW i \in 1 .. n PROVE g[i] = Appended(order, i, g[i - 1])
    <2>1. i \in 0 .. n /\ i # 0
      OBVIOUS
    <2> QED BY <1>16, <2>1 DEF Appended
  <1>19. \A i \in 0 .. n : g[i] \in Seq(S)
    <2> DEFINE P == {m \in Nat : m <= n => g[m] \in Seq(S)}
    <2>1. 0 \in P
      BY <1>6, <1>17
    <2>2. ASSUME NEW m \in Nat, m \in P PROVE m + 1 \in P
      <3> SUFFICES ASSUME m + 1 <= n PROVE g[m + 1] \in Seq(S)
        OBVIOUS
      <3>1. g[m] \in Seq(S) /\ m + 1 \in 1 .. n /\ (m + 1) - 1 = m
        BY <2>2
      <3>2. g[m + 1] = Appended(order, m + 1, g[m])
        BY <1>18, <3>1
      <3> QED BY <1>3, <3>1, <3>2
    <2>3. \A m \in Nat : m \in P
      <3> HIDE DEF P
      <3> QED BY <2>1, <2>2, EveryNumber
    <2> QED BY <2>3
  <1>20. g \in [0 .. n -> Seq(S)]
    BY <1>16, <1>19
  <1> QED BY <1>1, <1>13, <1>17, <1>18, <1>20

Sweeping(kept, i, order) ==
    /\ \A e \in ToSet(kept) : e[1] \in Anchors /\ \E j \in 1 .. i : e = order[j]
    /\ Len(kept) <= request.budget
    /\ \A x, y \in 1 .. Len(kept) : x < y => Better(kept[x], kept[y])
    /\ \A j \in 1 .. i : order[j][1] \in Anchors /\ order[j] \notin ToSet(kept) =>
          Len(kept) = request.budget /\ \A e \in ToSet(kept) : Better(e, order[j])

LEMMA SweepGoesOn ==
    ASSUME Asked, request.caller = "device", NEW A, A = {Scored(r) : r \in Admitted},
           NEW n \in Nat, NEW order \in Seq(A), Len(order) = n, ToSet(order) = A,
           Descends(order, n, A), NEW i \in 1 .. n, NEW kept \in Seq(A),
           Sweeping(kept, i - 1, order)
    PROVE  Sweeping(Appended(order, i, kept), i, order)
  <1>1. /\ request.method = "classic" /\ request.budget \in Nat
        /\ \A r, s : Punished(r, s) <=> Rivals(r, s)
    <2>1. request.method = "classic" /\ request.budget \in Nat
      BY SuppressionAssumption DEF Asked
    <2> QED BY <2>1 DEF Punished, Rivals
  <1>2. PICK m \in Nat : m = Len(kept) /\ DOMAIN kept = 1 .. m
    BY LenProperties
  <1>3. A \subseteq Int \X Int
    BY ScoredPicks
  <1>4. \A j \in 1 .. n : order[j] \in A
    BY DEF Descends
  <1>5. \A j, k \in 1 .. n : j < k => Better(order[j], order[k])
    BY DEF Descends
  <1>6. PICK r \in Admitted : order[i] = Scored(r)
    BY <1>4
  <1>7. order[i][1] = r
    BY <1>6 DEF Scored
  <1>8. Anchored(Anchors, Admitted)
    BY AnchorsAre
  <1>9. \A j \in 1 .. i - 1 : j \in 1 .. n /\ j < i /\ j \in 1 .. i
    OBVIOUS
  <1>10. ASSUME NEW e \in ToSet(kept)
         PROVE  Better(e, order[i]) /\ e[1] \in Anchors /\ Before(e[1], r)
    <2>1. PICK j \in 1 .. i - 1 : e = order[j]
      BY DEF Sweeping
    <2>2. Better(e, order[i])
      BY <1>5, <1>9, <2>1
    <2>3. PICK s \in Admitted : e = Scored(s)
      BY <1>4, <1>9, <2>1
    <2>4. e[1] = s
      BY <2>3 DEF Scored
    <2> QED BY <1>6, <2>2, <2>3, <2>4 DEF Before, Sweeping
  <1>11. ASSUME r \in Anchors, NEW e \in ToSet(kept) PROVE ~Punished(e[1], order[i][1])
    BY <1>1, <1>7, <1>8, <1>10, <1>11 DEF Anchored
  <1>12. ASSUME r \notin Anchors, m < request.budget
         PROVE  \E e \in ToSet(kept) : Punished(e[1], order[i][1])
    <2>1. PICK k \in Anchors : Before(k, r) /\ Rivals(k, r)
      BY <1>8, <1>12 DEF Anchored
    <2>2. k \in Admitted
      BY <1>8 DEF Anchored
    <2>3. Scored(k) \in ToSet(order)
      BY <2>2
    <2>4. PICK j \in 1 .. n : order[j] = Scored(k)
      <3>1. DOMAIN order = 1 .. n
        BY LenProperties
      <3> QED BY <2>3, <3>1 DEF ToSet
    <2>5. Better(order[j], order[i])
      BY <1>6, <2>1, <2>4 DEF Before
    <2>6. j < i
      <3>1. ~Better(order[i], order[i]) /\ ~Better(order[i], order[j])
        <4>1. order[i] \in A /\ order[j] \in A
          BY <1>4
        <4> QED BY <1>3, <2>5, <4>1, BetterOrders
      <3>2. j # i
        BY <2>5, <3>1
      <3>3. ~(i < j)
        BY <1>5, <3>1
      <3> QED BY <3>2, <3>3
    <2>7. j \in 1 .. i - 1 /\ order[j][1] = k
      <3>1. order[j][1] = k
        BY <2>4 DEF Scored
      <3> QED BY <2>6, <3>1
    <2>8. m # request.budget
      BY <1>1, <1>12
    <2>9. order[j] \in ToSet(kept)
      BY <1>2, <2>7, <2>8 DEF Sweeping
    <2> QED BY <1>1, <1>7, <2>1, <2>7, <2>9
  <1>13. m <= request.budget /\ \A x, y \in 1 .. m : x < y => Better(kept[x], kept[y])
    BY <1>2 DEF Sweeping
  <1>14. \A j \in 1 .. i : j \in 1 .. i - 1 \/ j = i
    OBVIOUS
  <1>15. CASE m < request.budget /\ \A k \in ToSet(kept) : ~Punished(k[1], order[i][1])
    <2>1. r \in Anchors
      BY <1>12, <1>15
    <2>2. PICK new : new = Append(kept, order[i])
      OBVIOUS
    <2>3. Appended(order, i, kept) = new
      BY <1>2, <1>15, <2>2 DEF Appended
    <2>4. new \in Seq(A) /\ Len(new) = m + 1 /\ (\A x \in 1 .. m : new[x] = kept[x]) /\ new[m + 1] = order[i]
      BY <1>2, <1>4, <2>2, AppendProperties
    <2>5. \A x \in 1 .. (m + 1) : x \in 1 .. m \/ x = m + 1
      OBVIOUS
    <2>6. \A e : e \in ToSet(new) <=> e \in ToSet(kept) \/ e = order[i]
      <3>1. DOMAIN new = 1 .. (m + 1)
        BY <2>4, LenProperties
      <3>2. m + 1 \in 1 .. (m + 1) /\ \A x \in 1 .. m : x \in 1 .. (m + 1)
        OBVIOUS
      <3> QED BY <1>2, <2>4, <2>5, <3>1, <3>2 DEF ToSet
    <2>7. \A e \in ToSet(new) : e[1] \in Anchors /\ \E j \in 1 .. i : e = order[j]
      <3>1. i \in 1 .. i
        OBVIOUS
      <3> QED BY <1>7, <1>9, <2>1, <2>6, <3>1 DEF Sweeping
    <2>8. m + 1 <= request.budget
      BY <1>1, <1>15
    <2>9. ASSUME NEW x \in 1 .. (m + 1), NEW y \in 1 .. (m + 1), x < y
          PROVE  Better(new[x], new[y])
      <3>1. x \in 1 .. m
        BY <2>9
      <3>2. CASE y \in 1 .. m
        BY <1>13, <2>4, <2>9, <3>1, <3>2
      <3>3. CASE y = m + 1
        <4>1. kept[x] \in ToSet(kept)
          BY <1>2, <3>1 DEF ToSet
        <4> QED BY <1>10, <2>4, <3>1, <3>3, <4>1
      <3> QED BY <2>5, <3>2, <3>3
    <2>10. ASSUME NEW j \in 1 .. i, order[j][1] \in Anchors, order[j] \notin ToSet(new) PROVE FALSE
      <3>1. j # i
        BY <2>6, <2>10
      <3>2. j \in 1 .. i - 1 /\ order[j] \notin ToSet(kept)
        BY <1>14, <2>6, <2>10, <3>1
      <3>3. m = request.budget
        BY <1>2, <2>10, <3>2 DEF Sweeping
      <3> QED BY <1>1, <1>15, <3>3
    <2> QED BY <2>3, <2>4, <2>7, <2>8, <2>9, <2>10 DEF Sweeping
  <1>16. CASE ~(m < request.budget /\ \A k \in ToSet(kept) : ~Punished(k[1], order[i][1]))
    <2>1. Appended(order, i, kept) = kept
      BY <1>2, <1>16 DEF Appended
    <2>2. \A e \in ToSet(kept) : e[1] \in Anchors /\ \E j \in 1 .. i : e = order[j]
      BY <1>9 DEF Sweeping
    <2>3. ASSUME NEW j \in 1 .. i, order[j][1] \in Anchors, order[j] \notin ToSet(kept)
          PROVE  m = request.budget /\ \A e \in ToSet(kept) : Better(e, order[j])
      <3>1. CASE j \in 1 .. i - 1
        BY <1>2, <2>3, <3>1 DEF Sweeping
      <3>2. CASE j = i
        <4>1. r \in Anchors
          BY <1>7, <2>3, <3>2
        <4>2. ~(m < request.budget)
          BY <1>11, <1>16, <4>1
        <4>3. m = request.budget
          BY <1>1, <1>13, <4>2
        <4> QED BY <1>10, <3>2, <4>3
      <3> QED BY <1>14, <3>1, <3>2
    <2> QED BY <1>2, <1>13, <2>1, <2>2, <2>3 DEF Sweeping
  <1> QED BY <1>15, <1>16

LEMMA SweepDone ==
    ASSUME Asked, request.caller = "device", NEW all, all = Ranked({Scored(r) : r \in Hard}),
           output = Swept(Ranked({Scored(r) : r \in Admitted}))
    PROVE  ToSet(all) = {Scored(r) : r \in Hard} /\ CutOf(all, output)
  <1>1. /\ request.method = "classic" /\ request.budget \in Nat /\ request.neighbors # 1
        /\ ~SoftMethod
    <2>1. request.method = "classic" /\ request.budget \in Nat /\ request.neighbors # 1
      BY SuppressionAssumption DEF Asked
    <2> QED BY <2>1 DEF SoftMethod
  <1>2. Hard = Anchors
    BY <1>1 DEF Hard
  <1>3. Anchored(Anchors, Admitted)
    BY AnchorsAre
  <1>4. Hard \in SUBSET Admitted
    BY <1>2, <1>3 DEF Anchored
  <1>5. PICK B : B = {Scored(r) : r \in Hard}
    OBVIOUS
  <1>6. IsFiniteSet(B) /\ B \subseteq Int \X Int
    BY <1>4, <1>5, ScoredPicks
  <1>7. Cardinality(B) \in Nat /\ Len(all) = Cardinality(B) /\ ToSet(all) = B
    BY <1>5, <1>6, RankedDescends
  <1>8. PICK A : A = {Scored(r) : r \in Admitted}
    OBVIOUS
  <1>9. IsFiniteSet(A) /\ A \subseteq Int \X Int
    BY <1>8, ScoredPicks
  <1>10. PICK n \in Nat : n = Cardinality(A)
    BY <1>9, FS_CardinalityType
  <1>11. PICK order : order = Ranked(A)
    OBVIOUS
  <1>12. Descends(order, n, A) /\ order \in Seq(A) /\ Len(order) = n /\ ToSet(order) = A
    BY <1>9, <1>10, <1>11, RankedDescends
  <1>13. PICK kept \in [0 .. n -> Seq(A)] :
              /\ kept[0] = <<>>
              /\ \A i \in 1 .. n : kept[i] = Appended(order, i, kept[i - 1])
              /\ Swept(order) = kept[n]
    BY <1>12, SweptIs
  <1>14. Sweeping(kept[0], 0, order)
    <2>1. Len(kept[0]) = 0 /\ ToSet(kept[0]) = {}
      BY <1>13 DEF ToSet
    <2>2. \A j \in 1 .. 0 : FALSE
      OBVIOUS
    <2> QED BY <1>1, <2>1, <2>2 DEF Sweeping
  <1>15. Sweeping(kept[n], n, order)
    <2> DEFINE P == {m \in Nat : m <= n => Sweeping(kept[m], m, order)}
    <2>1. 0 \in P
      BY <1>14
    <2>2. ASSUME NEW m \in Nat, m \in P PROVE m + 1 \in P
      <3> SUFFICES ASSUME m + 1 <= n PROVE Sweeping(kept[m + 1], m + 1, order)
        OBVIOUS
      <3>1. Sweeping(kept[m], m, order) /\ kept[m] \in Seq(A)
        BY <1>13, <2>2
      <3>2. PICK i \in 1 .. n : i = m + 1
        OBVIOUS
      <3>3. i - 1 = m
        BY <3>2
      <3>4. kept[i] = Appended(order, i, kept[m])
        BY <1>13, <3>3
      <3>5. Sweeping(kept[m], i - 1, order)
        BY <3>1, <3>3
      <3>6. Sweeping(Appended(order, i, kept[m]), i, order)
        BY <1>8, <1>12, <3>1, <3>5, SweepGoesOn
      <3> QED BY <3>2, <3>4, <3>6
    <2>3. \A m \in Nat : m \in P
      <3> HIDE DEF P
      <3> QED BY <2>1, <2>2, EveryNumber
    <2> QED BY <2>3
  <1>16. PICK out \in Seq(A) : out = kept[n] /\ out = output
    <2>1. kept[n] \in Seq(A)
      BY <1>13
    <2> QED BY <1>8, <1>11, <1>13, <2>1
  <1>17. PICK m \in Nat : m = Len(out) /\ DOMAIN out = 1 .. m
    BY LenProperties
  <1>18. /\ \A e \in ToSet(out) : e[1] \in Anchors /\ \E j \in 1 .. n : e = order[j]
         /\ m <= request.budget
         /\ \A x, y \in 1 .. m : x < y => Better(out[x], out[y])
         /\ \A j \in 1 .. n : order[j][1] \in Anchors /\ order[j] \notin ToSet(out) =>
               m = request.budget /\ \A e \in ToSet(out) : Better(e, order[j])
    BY <1>15, <1>16, <1>17 DEF Sweeping
  <1>19. \A x \in 1 .. m : out[x] \in Int \X Int
    BY <1>9, <1>17, ElementOfSeq
  <1>20. \A j \in 1 .. n : order[j] \in A
    BY <1>12 DEF Descends
  <1>21. ToSet(out) \subseteq B
    <2> SUFFICES ASSUME NEW e \in ToSet(out) PROVE e \in B
      OBVIOUS
    <2>1. e[1] \in Anchors /\ \E j \in 1 .. n : e = order[j]
      BY <1>18
    <2>2. PICK r \in Admitted : e = Scored(r)
      BY <1>8, <1>20, <2>1
    <2>3. r \in Hard
      BY <1>2, <2>1, <2>2 DEF Scored
    <2> QED BY <1>5, <2>2, <2>3
  <1>22. ASSUME NEW b \in B, b \notin ToSet(out)
         PROVE  m = request.budget /\ \A e \in ToSet(out) : Better(e, b)
    <2>1. PICK r \in Hard : b = Scored(r)
      BY <1>5
    <2>2. b \in ToSet(order)
      BY <1>4, <1>8, <1>12, <2>1
    <2>3. PICK j \in 1 .. n : b = order[j]
      <3>1. DOMAIN order = 1 .. n
        BY <1>12, LenProperties
      <3> QED BY <2>2, <3>1 DEF ToSet
    <2>4. order[j][1] \in Anchors
      BY <1>2, <2>1, <2>3 DEF Scored
    <2> QED BY <1>18, <1>22, <2>3, <2>4
  <1>23. Cardinality(ToSet(out)) = m
    <2>1. \A x, y \in 1 .. m : x # y => out[x] # out[y]
      <3> SUFFICES ASSUME NEW x \in 1 .. m, NEW y \in 1 .. m, x # y, out[x] = out[y] PROVE FALSE
        OBVIOUS
      <3>1. x < y \/ y < x
        OBVIOUS
      <3>2. Better(out[x], out[x])
        BY <1>18, <3>1
      <3>3. out[x] \in {out[x]} /\ {out[x]} \subseteq Int \X Int
        BY <1>19
      <3> QED BY <3>2, <3>3, BetterOrders
    <2> QED BY <1>17, <2>1, InjectiveLong
  <1>24. m <= Cardinality(B) /\ (ToSet(out) = B => m = Cardinality(B))
    BY <1>6, <1>21, <1>23, FS_Subset
  <1>25. m = Min({request.budget, Cardinality(B)})
    <2>1. Min({request.budget, Cardinality(B)})
              = IF request.budget <= Cardinality(B) THEN request.budget ELSE Cardinality(B)
      <3>1. request.budget \in Int /\ Cardinality(B) \in Int
        BY <1>1, <1>7
      <3> QED BY <3>1, LeastOfTwo
    <2>2. m = request.budget \/ m = Cardinality(B)
      BY <1>21, <1>22, <1>24
    <2>3. m <= request.budget
      BY <1>18
    <2> QED BY <1>1, <1>7, <1>24, <2>1, <2>2, <2>3
  <1>26. ASSUME NEW x \in 1 .. m, NEW y \in 1 .. m, x < y PROVE out[x][2] >= out[y][2]
    <2>1. Better(out[x], out[y]) /\ out[x][2] \in Int /\ out[y][2] \in Int
      BY <1>18, <1>19, <1>26
    <2> QED BY <2>1 DEF Better
  <1>27. CutOf(all, out)
    BY <1>1, <1>7, <1>17, <1>21, <1>22, <1>25, <1>26 DEF CutOf
  <1> QED BY <1>5, <1>7, <1>16, <1>27

(* Every method keeps what its definition keeps, and the caller gets the     *)
(* best of it (suppress, nms_with_scores, _suppress, suppress_on_device).    *)
THEOREM SurvivorsAreExplained == SuppressionSpec => []SurvivorsExplained
  <1>1. ASSUME SuppressionInv, decoding = "done" PROVE SurvivorsExplained
    <2>1. Asked
      BY <1>1 DEF SuppressionInv
    <2>2. CASE request.caller = "device"
      <3>1. PICK all : all = Ranked({Scored(r) : r \in Hard})
        OBVIOUS
      <3>2. output = Swept(Ranked({Scored(r) : r \in Admitted}))
        BY <1>1, <2>2 DEF SuppressionInv
      <3>3. ToSet(all) = {Scored(r) : r \in Hard} /\ CutOf(all, output)
        BY <2>1, <2>2, <3>1, <3>2, SweepDone
      <3>4. ~SoftMethod
        BY <2>1, <2>2 DEF Asked, SoftMethod
      <3> QED BY <2>2, <3>1, <3>3, <3>4 DEF SurvivorsExplained, CutOf, SoftMethod
    <2>3. CASE request.caller # "device"
      <3>1. /\ GroupsInv /\ PicksInv /\ (IF SoftMethod THEN SoftInv ELSE HardInv)
            /\ waiting = {} /\ DOMAIN pool = {} /\ output = Capped(picked)
        BY <1>1, <2>3 DEF SuppressionInv
      <3>2. Gone = Admitted
        BY <3>1 DEF Gone
      <3>3. CutOf(picked, output)
        <4>1. CASE request.caller \in Heads
          BY <2>1, <3>1, <4>1, HeadCut
        <4>2. CASE request.caller = "shared"
          BY <2>1, <3>1, <4>2, CallCut
        <4> QED BY <2>1, <2>3, <4>1, <4>2 DEF Asked, Callers, Heads
      <3>4. CASE SoftMethod
        <4>1. ToSet(picked) = {<<r, SoftScore(picked, r)>> : r \in {s \in Admitted : Survives(picked, s)}}
          BY <2>1, <3>1, <3>2, <3>4, SoftDone
        <4> QED BY <2>3, <3>3, <3>4, <4>1 DEF SurvivorsExplained, CutOf, SoftMethod
      <3>5. CASE ~SoftMethod
        <4>1. Hard \subseteq Admitted
          BY <2>1, LeadingParts
        <4>2. Gone \cap Hard = Hard
          BY <3>2, <4>1
        <4>3. ToSet(picked) = {Scored(r) : r \in Hard}
          BY <3>1, <3>5, <4>2 DEF HardInv
        <4> QED BY <2>3, <3>3, <3>5, <4>3 DEF SurvivorsExplained, CutOf, SoftMethod
      <3> QED BY <3>4, <3>5
    <2> QED BY <2>2, <2>3
  <1>2. SuppressionInv => SurvivorsExplained
    BY <1>1 DEF SurvivorsExplained
  <1> QED BY <1>2, SuppressionHolds, PTL
================================================================================
