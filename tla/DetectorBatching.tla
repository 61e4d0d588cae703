---------------------------- MODULE DetectorBatching ----------------------------
(***************************************************************************)
(* How frames go through a model and come back: the detectors of            *)
(* shipvision/detection (ArtefactDetector with its torch and TensorRT       *)
(* backends, the heads, the mock) and the extractors of shipvision/reid.    *)
(* A call is cut into chunks of max_batch, a chunk is copied over the first *)
(* rows of a buffer that lives as long as the process, the engine runs as   *)
(* many rows as its context or its plan says, and what it leaves in the     *)
(* first rows of the output buffers is decoded against the chunk's          *)
(* geometries and tags.                                                     *)
(*                                                                          *)
(* A frame is a number, the order of arrival; its tag, its geometry and its *)
(* pixels are told apart only by whose they are.  TensorRT is external: it  *)
(* runs the rows of its shape or plan, or reports that it did not.          *)
(***************************************************************************)
EXTENDS Integers, Sequences, FiniteSets, FiniteSetsExt

CONSTANTS MaxCallFrames,      \* bound: frames of a call
          MaxCalls,       \* bound: calls of one instance
          EngineBatches,  \* the batch of a plan, or the most of its profile
          MaxBatches,     \* the max_batch asked for, 0 for None
          FailEvery       \* fail_every of the mock

(* A binding has rows, and the constructors refuse a max_batch below one.    *)
ASSUME BatchAssumption ==
    /\ MaxCallFrames \in Nat /\ EngineBatches \subseteq Nat \ {0}
    /\ MaxBatches \subseteq Nat

VARIABLES runner,     \* the instance: its artefact and what was configured
          calls,      \* calls made
          call,       \* the frames of the call at hand
          done,       \* how many of them have results
          shape,      \* rows the execution context is set to, 0 before
          deviceIn,   \* the frame in every row of the input buffer, 0 for none yet
          deviceOut,  \* the frame every row of the output buffers is about
          results,
          running     \* "load", "ready", "chunk", "execute", "decode", "returned",
                      \* "failed" or "refused"

batching == <<runner, calls, call, done, shape, deviceIn, deviceOut, results, running>>

NotAsked == 0

TensorRT == {"named", "indexed", "extractor"}

(* What an artefact returns, as ranks: boxes, boxes with prototypes in       *)
(* either order, two of a kind, or an embedding matrix.                      *)
OutputRanks == {<<3>>, <<3, 4>>, <<4, 3>>, <<3, 3>>, <<2>>}

(* Prototypes of every frame, one set for all, or a batch axis partly        *)
(* collapsed.                                                                *)
Bases == {"each", "one", "two"}

HeadNames == {"yolo26", "yolo26_seg"}

(* resolve_input_hw, of an axis: 0 refuses.                                  *)
ResolveInputHw(extent, requested) ==
    CASE extent # "dynamic" /\ requested \in {NotAsked, 2} -> 2
      [] extent = "dynamic" /\ requested = NotAsked -> 2
      [] extent = "dynamic" /\ requested \in 1 .. 3 -> requested
      [] OTHER -> 0

(* resolve_head: by the ranks unless it is pinned, and then by their number. *)
ResolveHead(ranks, pinned) ==
    LET found == CASE pinned # "" -> pinned
                   [] ranks = <<3>> -> "yolo26"
                   [] ranks \in {<<3, 4>>, <<4, 3>>} -> "yolo26_seg"
                   [] OTHER -> ""
        expected == [h \in HeadNames |-> IF h = "yolo26" THEN 1 ELSE 2]
    IN IF found \in HeadNames /\ expected[found] = Len(ranks) THEN found ELSE ""

(* How many rows a call may hold: a detector takes the smaller, an extractor *)
(* refuses what a fixed plan would not run.  0 refuses.                      *)
ResolveMaxBatch(r) ==
    CASE r.requested = NotAsked -> r.engine
      [] r.kind = "extractor" /\ r.fixed /\ r.requested # r.engine -> 0
      [] r.kind = "torch" -> r.requested
      [] OTHER -> Min({r.requested, r.engine})

(* Only an engine has a batch of its own, a least one and an indexed API;    *)
(* only a detector has a head.                                               *)
BatchingInit ==
    /\ runner \in [kind : TensorRT \cup {"torch", "mock"}, fixed : BOOLEAN,
                   engine : EngineBatches, least : {1, 2}, requested : MaxBatches,
                   ranks : OutputRanks, pinned : {""} \cup HeadNames, basis : Bases,
                   extent : {"static", "dynamic"}, hw : {NotAsked, 2, 4},
                   rows : {0}, head : {""}]
    /\ runner.least <= runner.engine
    /\ runner.kind \notin TensorRT =>
          ~runner.fixed /\ runner.least = 1 /\ runner.engine = Min(EngineBatches)
    /\ runner.kind = "torch" => runner.requested # NotAsked
    /\ runner.fixed => runner.least = 1
    /\ runner.kind = "extractor" => runner.ranks = <<2>>
    /\ runner.kind = "mock" => runner.ranks = <<3>> /\ runner.requested = NotAsked
    /\ runner.ranks \in {<<3>>, <<2>>} => runner.basis = "each"
    /\ runner.ranks \in {<<2>>, <<4, 3>>} \/ runner.kind \in {"torch", "mock"} => runner.pinned = ""
    /\ runner.extent = "dynamic" \/ runner.hw # NotAsked =>
          /\ runner.kind = "named" /\ runner.ranks = <<3>>
          /\ runner.requested = NotAsked /\ runner.pinned = ""
    /\ calls = 0 /\ call = <<>> /\ done = 0 /\ shape = 0
    /\ deviceIn = <<>> /\ deviceOut = <<>> /\ results = <<>> /\ running = "load"

(* The constructors: the buffers are allocated once, for max_batch rows; an  *)
(* output whose leading axis is fixed has the plan's.                        *)
Load ==
    /\ running = "load"
    /\ LET rows == IF runner.kind = "mock" THEN 1 ELSE ResolveMaxBatch(runner)
           head == IF runner.ranks = <<2>> THEN "embedding"
                   ELSE ResolveHead(runner.ranks, runner.pinned)
           buffers == IF runner.kind \in TensorRT THEN rows ELSE 0
       IN IF rows = 0 \/ head = "" \/ ResolveInputHw(runner.extent, runner.hw) = 0
          THEN running' = "refused" /\ UNCHANGED <<runner, deviceIn, deviceOut>>
          ELSE /\ runner' = [runner EXCEPT !.rows = rows, !.head = head]
               /\ deviceIn' = [i \in 1 .. buffers |-> 0]
               /\ deviceOut' = [i \in 1 .. IF runner.fixed THEN runner.engine ELSE buffers |-> 0]
               /\ running' = "ready"
    /\ UNCHANGED <<calls, call, done, shape, results>>

(* detect and extract of some frames, maybe of none.                         *)
Detect ==
    /\ running \in {"ready", "returned", "failed"} /\ calls < MaxCalls
    /\ \E n \in 0 .. MaxCallFrames :
          /\ call' = [i \in 1 .. n |-> calls * MaxCallFrames + i]
          /\ running' = IF n = 0 THEN "returned" ELSE "chunk"
    /\ calls' = calls + 1 /\ done' = 0 /\ results' = <<>>
    /\ UNCHANGED <<runner, shape, deviceIn, deviceOut>>

(* Any failure aborts the whole call.                                        *)
Fail == running' = "failed" /\ results' = <<>>

Chunk == SubSeq(call, done + 1, Min({done + runner.rows, Len(call)}))

(* One frame of the mock, or its refusal.                                    *)
DetectMock ==
    /\ running = "chunk" /\ runner.kind = "mock"
    /\ LET tag == call[done + 1]
       IN IF tag % FailEvery = 0
          THEN Fail /\ UNCHANGED done
          ELSE /\ results' = Append(results, [tag |-> tag, geometry |-> tag, pixels |-> tag,
                                              basis |-> tag])
               /\ done' = done + 1
               /\ running' = IF done' = Len(call) THEN "returned" ELSE "chunk"
    /\ UNCHANGED <<runner, calls, call, shape, deviceIn, deviceOut>>

(* The copy into the first rows of the buffer, and the context told how      *)
(* many: the named API reports a batch outside its profile, the indexed one  *)
(* leaves the context as it was and nobody looks.                            *)
Upload ==
    /\ running = "chunk" /\ runner.kind \in TensorRT
    /\ LET rows == Len(Chunk)
           taken == rows \in runner.least .. runner.engine
       IN /\ deviceIn' = [i \in DOMAIN deviceIn |-> IF i <= rows THEN Chunk[i] ELSE deviceIn[i]]
          /\ shape' = IF ~runner.fixed /\ taken THEN rows ELSE shape
          /\ IF ~runner.fixed /\ ~taken /\ runner.kind # "indexed"
             THEN Fail
             ELSE running' = "execute" /\ UNCHANGED results
    /\ UNCHANGED <<runner, calls, call, done, deviceOut>>

(* The rows the engine runs.                                                 *)
Executed == IF runner.fixed THEN runner.engine ELSE shape

(* enqueue and synchronize; the driver may refuse, and does for a context    *)
(* whose shape was never set.                                                *)
Execute ==
    /\ running = "execute"
    /\ \/ Fail /\ UNCHANGED deviceOut
       \/ /\ Executed > 0
          /\ deviceOut' = [i \in DOMAIN deviceOut |->
                 CASE i > Executed -> deviceOut[i]
                   [] i \in DOMAIN deviceIn -> deviceIn[i]
                   [] OTHER -> 0]
          /\ running' = "decode"
          /\ UNCHANGED results
    /\ UNCHANGED <<runner, calls, call, done, shape, deviceIn>>

(* The forward pass of a module, over exactly the chunk.                     *)
Forward ==
    /\ running = "chunk" /\ runner.kind = "torch"
    /\ \/ Fail /\ UNCHANGED deviceOut
       \/ deviceOut' = Chunk /\ running' = "decode" /\ UNCHANGED results
    /\ UNCHANGED <<runner, calls, call, done, shape, deviceIn>>

(* Rows of prototypes the head is given for so many frames: an engine's are  *)
(* cut like every output, a module's are not.                                *)
BasisRows(frames) ==
    CASE runner.basis = "each" -> frames
      [] runner.basis = "one" -> 1
      [] runner.kind \in TensorRT -> Min({2, frames})
      [] OTHER -> 2

(* Mutant of BasisOf: the index is clamped into range, the reference's way.  *)
ClampedBasisOf(rows, frames, index) == Min({index, rows})

(* _require_prototype_batch and the index after it: 0 refuses.               *)
BasisOf(rows, frames, index) ==
    CASE rows = frames -> index [] rows = 1 -> 1 [] OTHER -> 0

(* decode of the first rows: a head refuses two outputs of one rank and a    *)
(* basis that does not cover the frames; an extractor only cuts.             *)
Decode ==
    /\ running = "decode"
    /\ LET n == Len(Chunk)
           masks == runner.head = "yolo26_seg"
           basis == [i \in 1 .. n |-> IF masks THEN BasisOf(BasisRows(n), n, i) ELSE i]
       IN IF (masks /\ runner.ranks = <<3, 3>>) \/ \E i \in 1 .. n : basis[i] = 0
          THEN Fail /\ UNCHANGED done
          ELSE /\ results' = results \o
                     [i \in 1 .. n |->
                         [tag |-> Chunk[i], geometry |-> Chunk[i], pixels |-> deviceOut[i],
                          basis |-> IF masks /\ runner.basis = "one" THEN Chunk[i]
                                    ELSE deviceOut[basis[i]]]]
               /\ done' = done + n
               /\ running' = IF done' = Len(call) THEN "returned" ELSE "chunk"
    /\ UNCHANGED <<runner, calls, call, shape, deviceIn, deviceOut>>

BatchingNext ==
    Load \/ Detect \/ DetectMock \/ Upload \/ Execute \/ Forward \/ Decode

BatchingSpec == BatchingInit /\ [][BatchingNext]_batching

------------------------------------------------------------------------------
(* A call returns one result per frame in the order of the frames, each from *)
(* its own pixels, its own geometry and its own mask basis, whatever the     *)
(* chunks, the rows left in the buffers by the chunk, the call or the        *)
(* failure before, and the shape the context was left in; or it returns      *)
(* nothing (Detector.detect, _execute, extract).                             *)
ResultsFindTheirFrame ==
    /\ running = "returned" =>
          /\ Len(results) = Len(call)
          /\ \A i \in DOMAIN results :
                results[i] = [tag |-> call[i], geometry |-> call[i], pixels |-> call[i],
                              basis |-> call[i]]
    /\ running = "failed" => results = <<>>
================================================================================
