# shipvision: a TLA+ model of its stateful parts

shipvision follows ships through a set of cameras. Detections of a frame are associated into
single-camera *tracks* (`shipvision/mot`), the appearance of a track is looked up in a
re-identification *gallery* (`shipvision/reid`), and tracks of several cameras at one synchronised
instant are associated into *global identities* (`shipvision/mtmc`). Around that sit image
operations, detection heads, engine building, evaluation and tuning, and a C++ mirror of the
trackers and matchers.

Most of what can go wrong here without an exception is bookkeeping: parallel columns that must
describe the same object, a snapshot used after the lock was given back, a chain of association
stages that forgets a row, a failed call that leaves half of its changes. That is what the modules
are about. Pixels, boxes, scores and vectors are abstracted to what the bookkeeping tells apart.

## Inventory

| component | state it keeps | operations | interacts with | hard behaviour | correct when |
|---|---|---|---|---|---|
| flat gallery (`reid/gallery/flat.py`) | matrix of embeddings, columns for identity, camera, stamp; index identity -> rows | `add`, `remove_identity`, `clear`, `query` | any number of threads; one lock, not held over the matrix product | rows move (swap with last) while a product runs; eviction per identity and over all | no score is paired with another entry's identity or camera; an excluded camera never comes back; the columns and the index agree |
| centroid gallery (`reid/gallery/centroid.py`) | one vector per identity, recency, occupant stamp, camera | `add` (fold), `remove_identity`, `clear`, `query` | aggregator; camera codec; threads | rows refreshed in place during a product; aggregator refusing half way | as above, and a vector holds only its own identity's observations |
| camera codec (`_cameras.py`) | camera -> small code | `code_for`, `lookup`, `name_for`, `clear` | both galleries | a code that does not exist yet when a query is masked | one camera, one code |
| observation gate (`mtmc/gating.py`) | consecutive hits, absences | `filter`, `reset` | tracker | cameras that report nothing or do not report | admitted exactly after `min_hits` instants in a row |
| global id assigner (`mtmc/identity.py`) | owner of a track, members of an identity, features, stamps | `assign`, `reset` | tracker | contested places, clusters wanting one identity, eviction, a raising clock check | one track per camera and identity; maps agree; bounded; never two owners |
| MTMC tracker (`mtmc/tracker.py`) | gate and assigner | `track`, `reset` | matcher, clusterer | a refusal between gate and assigner | results follow the gate; members vouch for the id |
| frames (`mtmc/frames.py`) | none | `from_views`, `from_tracks`, `filter` | MTMC tracker | one view per camera and key | an instant is validated before it is used |
| matching and clustering (`mtmc/base.py`, `matchers`, `clustering`, `topology`) | none between instants | `build` of three matchers, `fit_predict` | MTMC tracker | a camera that serves another frame size than it was calibrated at; merges that average over forbidden pairs; cameras without a calibration | clusters are joined by evidence, never two views of a camera |
| track pool (`mot/pool.py`) | columns: tracks, filter states, observed states, observations, rings | `predict`, `apply_camera_motion`, `apply_matches`, `mark_missed`, `spawn`, `sweep`, `reset`, `output` | every tracker | seven columns rebuilt together; gap re-update; bounded ring | row i of every column is track i |
| trackers (`mot/base.py`, `mot/trackers/*`) | pool, last tag, process-wide id counter | `update`, `reset` | pool, solver, camera-motion estimator | chained stages, refused and failed frames, several trackers in a process | every row matched or missed once; every detection used once; lifecycle contract |
| camera motion (`mot/motion/cmc`) | pending affine, or previous image | `push`, `estimate`, `reset` | BoT-SORT | frames that are refused or fail between push and estimate | a motion is applied to the frame it belongs to |
| association (`mot/association`, `csrc/.../association.cpp`) and McByte (`trackers/mcbyte`) | none between calls | `solve_assignment`, `associate`, `cascade_associate`, `associate_subset`, `clear_matches`, `reduce_problem`, costs | trackers | index spaces; dual potentials; the transposed case; a reduction inside a reduction | each band an optimal matching of what the younger bands and the locked pairs left, and nobody dropped |
| native trackers (`mot/backends/native.py`, `csrc`) | C++ pool per session, local -> global id map, appearance per track | `update`, `tracks`, `reset` | bindings | map trimmed to the live set; a failure after the C++ step | identities as in the Python trackers |
| registry (`registry.py`, `_native.py`) | entries, lazy targets, aliases, the cached extension | `register`, `register_lazy`, `get`, `build` | everything | import order; aliases that shadow; backends that are missing | every listed name is found under its own spelling |
| image operations (`imgproc/backends`, `csrc/core/buffers.h`) | owner thread, staging ring, shared scratch | `letterbox`, `crop_batch`, NV12 and `_into` variants | GPU stream, callers' threads | two threads' first calls; a slot reused while a copy is in flight; a launch that fails after its upload | one thread; every call writes its own pixels |
| geometry (`imgproc/geometry.py`, `detection/heads/masks.py`) | none | `plan`, `invert_boxes`, mask unpadding, crop bounds and taps | detection, re-identification | rounding, bars, boxes at the edge | a box and its mask come back to where they were |
| suppression (`imgproc/nms`, `detection/heads`) | none between images | `suppress`, `nms_with_scores`, a head's decode | detectors | five methods by three routes; caps; ties | what is published is what the method defines |
| detectors and extractors (`detection`, `reid/extractors`) | input and output buffers, the context's shape | `detect`, `extract` | TensorRT, torch | short chunks over old rows; fixed plans; a failed call between two good ones | one result per frame, from its own pixels |
| engine build (`detection/engine_build.py`, `calibration.py`) | engine, calibration cache, timing cache on disk | `build_engine`, `calibrate` | TensorRT, the operator | a process that dies inside a write; caches of another network | an engine is built on its own network's scales; retrying publishes |
| evaluation (`eval`) | accumulators of a sequence | alignment, `clear_counts`, identity, HOTA, `combine` | trackers, annotations | memory of the frame before; empty frames; sums over sequences | matches persist while they may; adding tallies is evaluating the concatenation |
| tuning (`tune`) | study and its trials, possibly stored | `run_study`, objective | Optuna, threads | pruning, crashes, resumption | the report is a trial that ran, and the best |

## Modules

| module | models | state and actions in the code's terms |
|---|---|---|
| `BaseGallery` | the promise of `gallery/base.py` | abstract: a set of entries, queries asked and answered later |
| `CameraCodec` | `_cameras.py` | `code_for`, `lookup`, `name_for` as operators over the table of names |
| `FlatGallery` | `flat.py` | `vectors`, `identity`, `cameraCode`, `sequence` and `byIdentity` are the code's columns and index; a step per row dropped or written under the lock, and the product reading `vectors` without it |
| `CentroidGallery` | `centroid.py` | as above with `sequence` and `occupant`; the fold that may be refused |
| `FlatGalleryProofs` | | the theorems about `FlatGallery` |
| `CentroidGalleryProofs` | | the theorems about `CentroidGallery` |
| `IdentityRegister` | the promise of the assigner | abstract: a track has at most one identity, an identity one track per camera |
| `GlobalIdAssigner` | `identity.py` | `owner`, `members`, `hits`, stamps; a step per cluster and per track inside one `assign` |
| `ObservationGate` | `gating.py` | the two maps the gate rebuilds every instant, as operators |
| `MTMCTracker` | `tracker.py` | gate before assigner, refusals in between |
| `GlobalIdAssignerProofs`, `MTMCTrackerProofs` | | the theorems about the two; the second carries the first over to the tracker and adds the gate |
| `TrackPool` | `pool.py` | operators on a pool record; a measurement is the detection it came from and the camera pose of its frame |
| `TrackerContract` | the promise of every tracker | abstract: lives (hits, missed), numbers handed out, answers |
| `BaseTracker` | `base.py` | `pool`, `_last_tag`, the id counter; refuse, fail, finish, reset; histories of what each id was given |
| `SortTracker`, `ByteTrackTracker`, `OcSortTracker`, `DeepSortV2Tracker` | `trackers/*/tracker.py` | `update` as one action, with any matching the solver may return at each stage |
| `BotSortTracker` | `botsort`, `motion/cmc` | ByteTrack with telemetry or optical flow |
| `Association` | `association.cpp`, `solver.py`, `trackers/mcbyte` | the loops of `solve_assignment` one iteration a step (`Search`, `Flip`) inside the bands of the cascade (`OpenBand`, `Settle`); McByte's `LockClearMatches` before them |
| `NativePool` | `csrc/shipvision/mot/pool.cpp` | operators on the C++ pool: rows moved down in place, `last_match`, observed states |
| `NativeTracker` | `csrc/.../trackers/*`, `bindings/mot.cpp`, `backends/native.py` | the session behind the binding, and the wrapper's map of local to process-wide ids and of appearances; `update`, `reset`, refusals, the estimator's failure |
| `MotTrackers` | `mot/registry.py` | a process of trackers, each built with one of the algorithms; what must hold of all |
| `MotTrackersProofs` | | the theorems about `MotTrackers`, and with it about the pool, the five algorithms and the contract |
| `Assignments` | SciPy's solver (external) | the assignments of best total, any of which its callers may get |
| `NativeTrackerProofs` | | the theorem about `NativeTracker`: what `absorb` keeps beside the pool follows it |
| `MatchingProofs` | | the theorems about `CrossCameraMatching`, `Association` and the matching of `Evaluation`, and the sums they rest on; and those about `ImageWorkspace` |
| `CrossCameraMatching` | `mtmc/base.py`, `matchers`, `clustering`, `topology/homography.py` | `Build` makes the matrix of the matcher, `Merge` joins the two closest clusters, `Cut` ends; or `Refuse` |
| `ImageWorkspace` | `imgproc/base.py`, `backends/*`, `buffers.h`, `module.cpp` | a place per thread in `_claim_thread` and the call; the ring, and the stream behind the host |
| `PixelGeometry` | `geometry.py`, `masks.py`, the sampling of `backends` | `Letterbox`, `MapBack`; the rest are operators on one axis, in fractions |
| `Suppression` | `detection/heads/base.py`, `imgproc/nms` | groups, then picks one by one with the score of the rest decayed, then the cap |
| `DetectorBatching` | `detection`, `reid/extractors` | the chunks of a call; rows of the buffers hold the frame they were filled with last |
| `EngineBuild` | `engine_build.py`, `calibration.py` | one action per step that leaves a file or a part of it; `Crash` and refusals of the libraries in between; a new export |
| `TuningStudy` | `tune/*` | threads ask, run case by case, prune, complete; a process dies and is resumed; the report |
| `StandaloneProofs` | | the theorems about `EngineBuild`, `DetectorBatching`, `TuningStudy`, `Registry` and `Suppression` |
| `Evaluation` | `eval/*` | frames aligned one by one with CLEAR's matching; tallies at the end of a sequence, then combined |
| `Registry` | `registry.py`, `_native.py` | `Register`, `Build`, `BuildPinned`; the environment that changes under them |

`MC*` modules fix the model values that a `.cfg` cannot; the `.cfg` of a run gives the bounds. Three of them check several
components in one run: in `MCTracking`, `MCVision` and `MCMtmcAndTools` a variable `part` says which component a
behaviour is of, the others stay at one initial state, and every property is checked over all of
them. The components in one such run share no state in the code, so no interleaving of theirs is left
out; those that do interact are composed properly (`MTMCTracker`, `NativeTracker`, `MotTrackers`).

`FlatGallery` and `CentroidGallery` extend `CameraCodec`, and implement `BaseGallery`
(`ImplementsBaseGallery`). `MTMCTracker` extends `GlobalIdAssigner` and instantiates
`ObservationGate`; the assigner implements `IdentityRegister` (`ImplementsRegister`). Every
tracker module extends `BaseTracker`, which extends `TrackPool`; `MotTrackers` takes them together
and implements `TrackerContract` (`KeepsContract`), whose mapping `lives` forgets the four lifecycle
states: they are a function of hits and misses, and that the code's state machine agrees with this
function is what the refinement shows. `NativeTracker` instantiates `MotTrackers` with the pool
decoded from its own columns (`pool <- Decoded`): `ImplementsPython` says that every frame of a C++
tracker is a frame the Python tracker of the same name may have made, which the repository states as
its parity rule. The trackers take any matching the solver may return; `Association` shows which one
it is. McByte inherits all of BoT-SORT but how a stage is solved, so as a tracker it is
`BotSortTracker`, and as a solve the `LockClearMatches` of `Association`. `Association`, `Evaluation` extend
`Assignments`, with which the solver's answer is compared and to which SciPy's callers are held.

## What the runs show

<!-- RUNS -->
| run | module, configuration | properties | what it shows |
|---|---|---|---|
| `flat_gallery` | `MCFlatGallery` of `FlatGallery` | `TypeOK`, `IndexAligned`, `RowsAreEntries`, `KeepsLatestViews`, `NoMisattribution`, `NeverOwnCamera`, `StampVouches`, `ImplementsBaseGallery`, `LockReleased` | one writer and one query, every interleaving of the lock-holding steps with the unlocked product: bookkeeping, which views survive both evictions, what a query may report, that the gallery implements its contract and that every loop under the lock ends |
| `global_ids` | `MCGlobalIdAssigner` of `MCGlobalIdAssigner` | `MapsAgree`, `SeenOnesStay`, `FirstClaimHolds`, `ImplementsRegister` | any clusters of three tracks of one camera and one of another for three instants, also after calls that raised half-way, and of five tracks on four cameras for two: the maps agree with each other and with the cameras, no track seen in an instant is evicted while the limits leave room, of clusters that want one identity the largest keeps it for the tracks that brought it, and the assigner implements the register |
| `global_ids_orphans` | `MCGlobalIdOrphans` of `MCGlobalIdAssigner` | `NothingOrphaned` | (violated) A call that raises in _observe leaves features without an owner, which the next successful call's validate() refuses. |
| `mtmc_tracker` | `MCMtmcAndTools` of `MCMtmcAndTools` | `MembersVouch`, `StreaksAreConsecutive`, `ClustersAreEvidence`, `ScalesAreTheNetworks`, `ReportsWhatRan`, `MatchesPersist`, `CombiningIsConcatenating`, `RetriedBuildPublishes` | one behaviour is the gate, the assigner and the tracker over three instants of three tracks, with refusals of the matcher and the assigner and the gate compared with a backward reading of the history; or one of what stands beside them: matching and clustering of an instant under every matcher, the engine build with crashes and refusals, two threads of a tuning study that is resumed, the evaluation of up to three frames and two sequences |
| `mtmc_retry` | `MCMTMCRetry` of `MCMTMCTracker` | `AdmittedAfterDistinctInstants` | (violated) An instant whose call raised and is handed in again counts twice in the gate. |
| `centroid_own_camera` | `MCCentroidOwnCamera` of `CentroidGallery` | `NeverOwnCamera` | (violated) A query from a camera the codec first sees while the query runs is answered with what that camera has just added. |
| `trackers` | `MCTracking` of `MCTracking` | `RowsAligned`, `FilterTime`, `RingSuffices`, `TrustIsEarned`, `OneObjectPerTrack`, `OneReference`, `BandsChooseInOrder`, `EveryNameReachable`, `KeepsContract` | a SORT, ByteTrack, OC-SORT, DeepSORTv2 or BoT-SORT tracker, every matching of every stage, refused frames and resets, and for BoT-SORT external, strict external and optical-flow camera motion with images between which no flow is found and frames that fail in the estimator, before or after it has taken the new image for its last: the columns of the pool stay aligned, filters are at the present frame and in its coordinates, a confirmed track has earned it, two tracks are never one object, and whatever the algorithm it keeps the lifecycle contract; or one of what trackers are made with: an assignment, every matrix up to 3x3 over three costs solved on its own and over up to two bands, and, where it has clear pairs, as a stage of McByte that locks them first, or three spellings in the registry |
| `stale_affine` | `MCMotStale` of `MCMotTrackers` | `AffineMeetsItsFrame` | (violated) an affine pushed for a frame that begin() refuses is kept, and applied to a later frame that came with none |
| `native_trackers` | `MCNativeTracker` of `MCNativeTracker` | `AppearanceFollows`, `ImplementsPython` | a compiled tracker of each kind behind its Python wrapper: rows moved down in place, pool-local ids and positions in the whole frame, appearances kept on the other side of the binding; what a caller sees is a run of the Python tracker of that name |
| `vision` | `MCVision` of `MCVision` | `BoxesComeBack`, `ResultsFindTheirFrame`, `SurvivorsExplained`, `OneOwner`, `PixelsAreTheCalls`, `RowsAgree`, `NoMisattribution`, `KnownCameraExcluded` | one behaviour is a writer and a query of the centroid gallery, with claims, folds, swaps and refused folds in every interleaving with the unlocked product; or one of the imaging and serving parts: a letterbox and a crop of every pair of extents, two calls through a detector or extractor of every artefact, the suppression of three proposals, two threads and three calls in the image workspace |
| `centroid_refused_add` | `MCCentroidRefused` of `CentroidGallery` | `RejectedAddLeavesNothing` | (violated) An add whose fold is refused leaves a new identity in the gallery, in a row it claimed before, without an observation. |
| `study_tallies` | `MCTuningStudy` of `MCTuningStudy` | `TalliesDescribeTrials` | (violated) A process that dies between the tag of a refused configuration and the end of its trial makes the resumed study count one pruned trial too few. |
<!-- end RUNS -->

## Bounds, and why they are enough

* Galleries: two identities and two rows are the least that let an eviction or a removal swap a row
  of another identity into a hole under a running query; a second camera lets codes be given anew
  after `clear`; one writer and one query at a time, because queries share nothing but the store.
  In the flat gallery the share of an identity equals the capacity (both evictions happen); that
  neither is exceeded, for any share, is the theorem `NeverOverflows`. The centroid run needs three
  identities for an eviction that another identity causes; its query asks for as many matches as there
  are rows, of which any shorter answer is a part, and identities and cameras are interchangeable.
* Gate: three instants of three tracks on two cameras in the run of the whole tracker, where a
  backward reading of the history gives the streaks the two maps must hold.
* Assigner: two casts of tracks (`MCGlobalIdAssigner`). Three of one camera and one of another over
  three instants reach a contest for a place, a displaced incumbent, and with room for three tracks and
  for two in an identity, both evictions; any set of its instants may raise half-way. Clusters of
  different size that want one identity need five tracks on four cameras: two instants, the first with
  at most three of the tracks, which is where the identity they want comes from.
* Trackers: two detections a frame give every stage a choice, two ids a neighbour to drift against;
  with `MaxAge` 2 and `MinHits` 2, five frames reach every transition of the lifecycle (tentative -
  removed, confirmed - lost - confirmed, lost - removed) and a gap before a re-find; a ring of three
  entries is then both short and full. Two cameras offer frames to one tracker. BoT-SORT runs in the
  same configuration with one detection a frame and four updates (`MaxMoving`, `MaxMovingUpdates`,
  constraint `MovingIsShort`): what its estimator adds is in which order frames are pushed, refused,
  fail and succeed and whether flow is found, not who matches whom. Frame numbers run at most one ahead of the calls
  (constraint `OneSkipped`; `SkippedAfterRefusal` in the native run): `begin` compares them with the
  last one, and nothing else looks at them.
* Native trackers: `MaxAge` 1 and `MinHits` 2 with a ring for `DeltaT` 1 bring birth, confirmation,
  loss, re-find and a sweep that moves surviving rows down into four updates; BoT-SORT again with one
  detection, and three updates. Three numbers to hand out suffice for two births and a reset.
* Matching: four tracks, two of one camera and one of a camera without a calibration, at three places
  of which two are nearer than the threshold, frames of the calibrated size and of twice it: chains of
  merges that would put both tracks of the camera together, and every refusal.
* Engine build: two exported networks, two faults (deaths inside a write, refusals), calibration
  batches longer and shorter than the batch size: a build on top of what an interrupted one left, of
  the same network and of the next.
* Tuning: two threads, two cases a trial, two trials a call, two calls and one death or exception: a study
  resumed on top of what a dead process left, under other constants too.
* Evaluation: two objects, two identities and a distractor on three places (the same, neighbours at
  the threshold, apart), three frames in one or two sequences: a switch over an empty frame needs
  three.
* Association: every matrix of up to three rows and three columns over the costs 0, 1 and 3 with a
  threshold of 1 - ties, a cheap pair that displaces an earlier row, tall and wide - and, for
  matrices of at most six pairs, every assignment of the rows to three ages, the last of them at the
  depth where the bands stop. Every matrix with a clear pair is also solved as a stage of McByte.
* Geometry: six source and six target extents, each on both axes: up- and downscaling, odd and even
  borders, an extent of one, and every box of whole pixels in it.
* Batching: up to four frames a call through engines of two and three rows, and two calls: short
  chunks, short last chunks and rows left by the call before.
* Suppression: three proposals of two classes at three places with three scores, one of them under
  the threshold: a row suppressed by one that is itself suppressed, ties, and caps below the count.
* Image workspace: two threads whose first calls meet, two slots and three calls, so that the third
  call meets the slot of the first; the theorems cover the rest.
* Registry: three spellings, a native and a Python backend, one alias per registration.
* `MaxAdds`, `MaxOccupants`, `MaxSteps`, `MaxCalls`, `MaxUpdates`, `MaxFrame`, `MaxDetections`,
  `MaxIssued`, `MaxMotion`, `MaxMoving`, `MaxMovingUpdates`, `MaxRows`, `MaxColumns`, `MaxImages`,
  `MaxAliases`, `MaxCallFrames`, `MaxExports`, `MaxFaults`, `MaxRuns`, `MaxCrashes`, `TrialsPerCall`,
  `MaxFrames`, `MaxSequences`, `MaxBoxes` and `Proposals` are all the bounds. The code has no such
  limits, and nothing in it depends on the numbers being small.

Deadlock checking is off where a bounded history ends every behaviour; in the code every public
operation is always enabled.

## Fairness

Two properties need any.

* `LockReleased` (`flat_gallery`): weak fairness of the steps of a thread that holds the lock, which is
  what a running interpreter gives a thread that is not waiting for anything. A held lock is given
  back.
* `RetriedBuildPublishes` (`mtmc_tracker`, the part that builds): weak fairness of starting a build
  when none is running and the engine is not that of the network exported last, and of the steps of a
  build that is running - an operator who keeps building, and a process that is not stopped. Deaths
  and refusals are not fair, only bounded (`MaxFaults`). With `overwrite`, such an operator ends with a
  whole engine of the latest network. Without `overwrite` he may not, because a torn engine keeps its
  final name and is never replaced.

Nothing else in the modelled parts promises progress: there are no queues or timers.

What external software is taken to do: TensorRT ignores a timing cache it cannot read, and refuses or
accepts a batch as its shape or plan says; a calibration cache that is not empty is a hit for its
reader, also when it was cut off in the middle; the operator who exports another network removes the
calibration cache of the last; SciPy returns an assignment of best total, any of those; Optuna prunes
when it likes, if asked to prune, and never hands a trial out twice; a GPU stream does its work in
order.

## What is proved

The modules named `...Proofs` hold the theorems, for every number of threads, identities, tracks,
cameras, rows, limits, instants, slots, calls, names and backends, from the assumptions named in the
modules they are about:

<!-- THEOREMS -->
* `TypeCorrect` (FlatGalleryProofs): the variables of the flat gallery keep their types whatever the writers and queries do (`TypeOK`).
* `NeverMisattributes` (FlatGalleryProofs): a query never pairs a score with an identity or a camera it does not belong to, for any number of threads, entries and evictions (`NoMisattribution`).
* `NeverReportsOwnCamera` (FlatGalleryProofs): a query told to leave a camera out never reports an entry of that camera, also when rows move during the product (`NeverOwnCamera`).
* `StampsVouch` (FlatGalleryProofs): a row read back under an unchanged stamp still holds the entry the score was computed from (`StampVouches`).
* `BookkeepingCorrect` (FlatGalleryProofs): the index, the per-identity rows and the rows themselves describe the same entries (`IndexAligned`).
* `NeverOverflows` (FlatGalleryProofs): neither the capacity nor the share of an identity is ever exceeded, for every capacity and share; an inductive invariant over the bookkeeping and the cardinality of a compacted row set.
* `ClaimedByOne` (MatchingProofs): of any number of threads only the owner is ever past the claim of a native instance, whichever looked at it first (`OneOwner`).
* `ClaimedForLife` (MatchingProofs): once a thread owns an instance no step gives it to another.
* `PixelsNeverMixed` (MatchingProofs): what a call writes are its own pixels, for any number of slots, threads, calls and launches that fail between upload and event; by an account of what is in the stream (`PixelsAreTheCalls`).
* `AlwaysReachable` (StandaloneProofs): no order of registrations makes a name or an alias lead elsewhere, for any spellings, preference and number of aliases (`EveryNameReachable`).
* `MapsAlwaysAgree` (GlobalIdAssignerProofs): after any calls, also those that raised half-way, the member lists are the inverse of the owner map and an identity holds one track per camera, for any tracks, cameras and limits (`MapsAgree`).
* `RegisterImplemented` (GlobalIdAssignerProofs): the assigner implements the register: the whole of assign is one step of it, in which identities change owners, are made or are forgotten, and never shared (`ImplementsRegister`).
* `EvictionTakesTheOldest` (GlobalIdAssignerProofs): eviction keeps the limits and never takes a track or an identity of this instant while they fit (`SeenOnesStay`).
* `FirstClaimAlwaysHolds` (GlobalIdAssignerProofs): the cluster with first claim on an identity keeps it for the tracks that brought it, whatever the other clusters of the instant do (`FirstClaimHolds`).
* `ReportsVouch` (MTMCTrackerProofs): what the tracker reports after an instant is backed by the identities the assigner holds, also after refusals between gate and assigner (`MembersVouch`).
* `StreaksReadBackwards` (MTMCTrackerProofs): the gate's two maps are what the history of instants, read backwards, says of every track's streak (`StreaksAreConsecutive`).
* `RowsAlwaysEntries` (FlatGalleryProofs): every live row is an entry that was inserted, with all its columns of that entry (`RowsAreEntries`).
* `LatestViewsKept` (FlatGalleryProofs): between two calls no identity holds a view without every later one of its own, whatever the capacity and the share: what is evicted is the oldest, of the identity or of all (`KeepsLatestViews`).
* `ContractImplemented` (FlatGalleryProofs): the flat gallery implements the contract of the galleries: every step is an insertion, a removal, a query or an answer of the abstract one, or a stutter (`ImplementsBaseGallery`).
* `RowsAlwaysAgree` (CentroidGalleryProofs): the map and the identity column of the centroid gallery stay inverse through swaps, evictions and refused folds, and between calls a row has the latest camera and recency of its identity and, unless the row was claimed for an observation that was refused, a vector of that identity's observations alone (`RowsAgree`).
* `NobodyMisattributed` (CentroidGalleryProofs): no answer carries the score of whoever sat in the row before, although refreshed rows are reported and folds may be refused: all but identities whose first observation was refused, which have no vector of their own (`NoMisattribution`).
* `KnownCameraStaysOut` (CentroidGalleryProofs): a query from a camera that had a code when asked is never answered with an identity seen last by that camera, also when codes are given anew meanwhile (`KnownCameraExcluded`).
* `RowsStayAligned` (MotTrackersProofs): row i of every column of a track pool is the same track, through every matching, re-update, birth and sweep of every algorithm, for any number of trackers, frames and detections (`RowsAligned`).
* `ClocksTellTheFrames` (MotTrackersProofs): the filter of every track has been advanced once per frame since its birth, gaps included, and its counters are the frames missed and the detections given (`FilterTime`).
* `TrustHasToBeEarned` (MotTrackersProofs): a track is trusted only after min_hits confident detections on consecutive frames, however the stages are chained (`TrustIsEarned`).
* `TracksDoNotShare` (MotTrackersProofs): no detection is in two live tracks, none of them mixes cameras or frame orders, and no identity is in two trackers (`OneObjectPerTrack`).
* `OneReferenceHolds` (MotTrackersProofs): all a BoT-SORT pool remembers of image positions is in the coordinates of the frame it answered, whatever frames were refused or failed, as long as the motion came with every frame or was found in every image (`OneReference`).
* `RingIsLongEnough` (MotTrackersProofs): a ring of delta_t + 1 observations gives every heading the origin it would have with all of them kept; from the ages in the ring, and that frames a distance apart differ by it (`RingSuffices`).
* `TrackersKeepTheContract` (MotTrackersProofs): every algorithm implements TrackerContract: every frame, failure, refusal and reset of any tracker is a step of it, or a stutter (`KeepsContract`).
* `ScalesBelongToTheNetwork` (StandaloneProofs): an engine that is served was calibrated with the scales of the network it was built from, whatever crashes, refusals and re-exports came between, but where a fault left a cache that was used; from an account of which files vouch for which network (`ScalesAreTheNetworks`).
* `EveryFrameGetsItsOwn` (StandaloneProofs): a call through a detector or extractor answers every frame with its own boxes and masks, or nothing, for every batch an engine may have, every chunking and whatever earlier calls left in the buffers (`ResultsFindTheirFrame`).
* `StudyReportsWhatRan` (StandaloneProofs): a study reports the parameters of the best of the trials that completed, also of those an earlier process left and under constants that have changed since, and its tallies are off by no more than the trials abandoned between their tag and their end, for any threads, spaces, crashes and resumed calls (`ReportsWhatRan`).
* `AveragingHidesNothing` (MatchingProofs): two clusters the linkage keeps apart or joins: no pair the matcher refused is ever averaged into a cluster, for any tracks, cameras, calibrations, looks and thresholds; because a cluster has at most one track of a camera, so an average over at most cameras squared pairs stays above the threshold (`ClustersAreEvidence`).
* `EveryBandChoosesWell` (MatchingProofs): every solve of the cascade ends in an assignment of least total cost and each band takes one on what the bands before it left, for any matrix of integers, ages, stride, depth and threshold, tall or wide; the potentials prove by duality that no other assignment is cheaper (`BandsChooseInOrder`).
* `SurvivorsAreExplained` (StandaloneProofs): every decode and every call of the suppression returns what its method is defined to keep, with the score its method leaves, best first and cut at its budget, by the shared loop and by the sweep of the device (`SurvivorsExplained`).
* `AppearancesFollow` (NativeTrackerProofs): Behind the Python wrapper of a compiled tracker, for any number of trackers, detections, gaps and resets: every live track has a process-wide id nobody else was given, and the appearance kept for it is blended from exactly the crops that were matched to it, in their order, through every sweep that moves rows down, every position in the whole frame and every reset. (`AppearanceFollows`).
* `MatchesAlwaysPersist` (MatchingProofs): in every frame of every sequence CLEAR keeps each pair it matched in the last frame that had something to match and that is still admissible, and leaves no admissible pair with both sides free; for any people, predictions, sequences and frames, whatever the overlaps: the bonus outbids the two pairs that keeping one may cost (`MatchesPersist`).
<!-- end THEOREMS -->

The argument for the gallery. None of the properties is inductive: that a read-back row is the one the score was
computed from depends on stamps never being reused, on a row's stamp changing whenever its entry
does, and on the mask having been taken when the stamp was. The inductive invariant `IInv` is the
conjunction of the store's part (`StoreInv`: columns, index and size agree at every step of a
compaction, including the steps in its middle), the snapshot's part (`SnapshotInv`: a reader's copy
of the stamps is older than the counter, and where a stamp still agrees so do identity, camera and
vector) and the answer's part. `StoreInv` is preserved by the writers alone; `SnapshotInv` needs it.
That the latest views are kept needs the order in which a compaction goes: the rows already moved and
those still to come are each an interval of an order by stamps. For the refinement the abstract store
is the set of live rows' entries without those a removal under way has yet to drop; every step is
shown to be one operation of `BaseGallery` or a stutter, whichever half of a call it belongs to.

The argument for the centroid gallery. A row is rewritten in place, so a score may well be older than
what is read back; what must not happen is that another identity answers for it. The invariant says
what a row under construction may look like while its observation is folded and recorded (`RowsTrue`),
that an occupant's stamp is never given twice (`StampsBehind`), and that a row which still carries the
stamp of a snapshot has been written since by nobody but the identity that sat there then
(`RowOfSnapshot`). An add whose fold is refused keeps the row it claimed, with the vector of whoever
sat there before; that it does is a disagreement below (`RejectedAddLeavesNothing`), and a history variable
(`refused`) names these identities so that everything can still be stated of all the others, in the
presence of refusals: what a refused add leaves behind never spoils the row, the recency, the camera
or the score of anybody else. It is assumed that `None` is no number and no identity (`NoneAssumption`).

The argument for the assigner. `members` is the inverse of `owner` at every step inside `assign`, but
for the tracks that have lost a contest and wait for another place; these are named (`displaced`), and
`OnePerCamera` allows two tracks of a camera in one identity only when one of them is such a loser.
`AheadOfRegister` says how far a call may be from what the register last published, so that the one
step that publishes is a step of `IdentityRegister` and the others are stutters. Eviction: the tracks
of the instant carry the newest stamp, so as long as they fit, a choice of the oldest never reaches
them; the limit on tracks is kept unless the call began with features nobody owns (`orphans`), which
only a call that raised can leave. First claim: a cluster waiting for its turn finds its tracks owned
as they were when the clusters were ordered, except for those displaced meanwhile, who hold nothing or
an id of their own that did not exist then. For the MTMC tracker the tracks a call works on are shown
to be visible in the instant; the gate's maps are compared with the log of all instants, trailing
absences included.

The argument for the trackers. Each `update` of each algorithm is first shown to be a frame of one
shape (`IsFrame`): a pool opened by `Predict`, and for BoT-SORT a camera motion; some rows given a
detection each, a doubtful one only to a trusted row; the rest missed, and detections nobody was given
born. A chain of stages has that shape because two corrections of rows apart are one (`TwoCorrections`)
and no stage offers what an earlier one took. What a frame does to one row is then four cases - born,
corrected, missed, or swept out - whatever the algorithm, and `Sweep` is an injection from new rows to
old (`Becoming`). The invariant relates a row to the whole history of what its track was given
(`RowInv`): its columns hold the latest of it and the ring its end (`Aligned`), its clocks are the
frames since (`Clocked`, which for a re-updated track also needs the clock of the last observation),
the lifecycle follows from an unbroken start (`Earned`), and its frames are in order (`Ordered`);
between rows, that no detection is in two of them. None of `RowsAligned`, `FilterTime`, `TrustIsEarned`
and `OneObjectPerTrack` is inductive without the others: that a filter rebuilt after a gap is at the
present frame needs the columns aligned, that they are needs the ids distinct, and that a detection is
new to every track needs the frames in order. On top of it come the poses (`PoseInv`: what optical
flow compares with is the pose everything remembered is in, also after a frame that failed, until an
image shows no flow or takes the place of the last one in a call that raises: then the motion is lost,
and `measured` says so) and the
ages of OC-SORT's tracks (`AgeInv`), from which the ring is long enough: frames of a track that are
`delta_t` entries apart are `delta_t` frames apart, so the first entry of a full ring is old enough,
and what was dropped before it is never the newest such. For the refinement the lives of a pool are read
off its rows; a frame is the contract's frame with the rows given a detection as the seen ones. It
is assumed that `None` is no tag and no affine (`FrameAssumption`, `SilenceAssumption`) and that the
bounds are numbers.

The argument for the workspace. First the claim: `OneOwner` needs that whoever looks at the owner a
second time holds the lock, and still finds nobody there when he writes (`ClaimInv`); from it, that
an owner is never replaced. The pixels then have one user, and the invariant (`IInv`) is an account
of what every piece of work in the stream will find when its turn comes: an upload its own pixels in
the pinned memory, a kernel its own call's upload before it and none of another call to the same slot
between, a download its own kernel's output. That account survives a later call because a slot is
only acquired when its event is not pending, a launch that failed after its upload leaves a copy that
its successor's own upload follows, and the call that acquires that slot is the one whose pixels are
in it when its upload comes. TLC checked that invariant on a small instance before it was proved.

The argument for matching and clustering. A distance of `NEVER_MERGE` must survive being averaged, and
an average is a fold over a set in an order nobody names. Sums first: a fold over a
finite set is shown to be the last entry of a table (`SumByTable`, by the smallest subset for which it is
not), and so sums add, grow term by term and are bounded. Then `ClusterInv`: clusters are a partition of the tracks, and no
cluster has two tracks of one camera, whence an average is over at most as many pairs as the square of
the number of cameras, and `MatchingAssumption` says that `NEVER_MERGE` divided by so many is still above the
cut. A pair of one camera therefore keeps every cluster pair that holds it above the cut,
in whatever order merges come.

The argument for the solver. `BandsChooseInOrder` says of a compiled solve that no assignment of the
same shape is cheaper; the code never compares two. The invariant is the one of linear programming:
potentials under which no admitted pair costs less than nothing and every matched pair costs nothing
(`Duality`), and, in the middle of a row, an alternating tree whose pairs are tight and whose slacks
are the least seen (`SearchKeeps`); a flip keeps it because every row on the path exchanges one tight
pair for another (`FlipMoves`, `FlipKeeps`). Potentials make every other assignment at least as dear, transposed or
not (`MatesCostLeast`, `MatesAreBest`). Around it the bands: those behind have chosen well and are not touched
again (`BandBehind`), and the rows and columns a band is given are the free ones in their order
(`ListedEnumerates`). It is assumed that costs are whole numbers, bands have a width and the depth is a
number (`CascadeAssumption`).

The argument for the registry. `EveryNameReachable` is inductive as it stands: a registration is
refused when its name is an alias of another or an alias of it is another name, so the one name and
the aliases it adds disturb none that is there; and an import moves an entry from lazy to loaded, and
so changes no name (`ImportKeeps`, `PinnedKeeps`, `BuildKeeps`).

The argument for the engine build. What is served can only be read off the files, so `BuildInv` says
of every file what it vouches for: which network a cache, a plan or a part of one was made of, and for
the build under way how much of the calibration set it has been fed (`CallInv`, `FilesInv`). A
torn cache vouches too, for some of the network's scales, once there has been a fault (`Vouched`). It
is assumed that the set to calibrate on has a batch, which is up to the caller, and that no batch is
empty, which the feeder refuses (`CalibrationAssumption`).

The argument for the batches. Between two chunks the results are the answers of the frames so far
(`Answered`), and what carries that over a chunk is a claim about the buffers: once executed, the first
rows of the output are those of this chunk (`Holds`), whatever lies behind them. It needs that a
context left at an old shape covers the chunk (`CallsInv`) and that the rows of a runner never
exceed its engine's (`LoadedInv`), so that every frame of a chunk has a row; a mask is decoded with its own basis
because a head whose basis has another number of rows than frames refuses (`OwnBasis`).

The argument for the study. A result is stated once, when a call concludes, and stays true because
the trials only change in a call (`ReportInv`). At that point no thread is in a trial (`ThreadsInv`: a
trial that runs has one thread, and was not tagged up to its last case), so no tagged trial
completed (`TagsInv`), and one that is tagged and still running lost its process (`HeldInv`, `abandoned`).
The tallies are cardinalities of sets that are disjoint but for those, whence the interval the number of pruned
trials is in; that it is not exactly right is a disagreement below (`TalliesDescribeTrials`). Of the
best configuration nothing is assumed about the constants of the call: it is what the best trial ran
with, but for the keywords either call's constants fix. That there is
a best trial at all is the existence of a first element in a finite strict order, which goes by the
least set of predecessors (`FirstOfFinite`, by well-foundedness of the strict subsets). It is assumed
that a study has cases, and spaces of numbers (`TuningAssumption`).

The argument for suppression. The rows a method that removes keeps are defined by the one set in
which a row is kept unless a better kept one overlaps it; that there is one is shown by adding the
last row to the set of the rest (`AnchorsExist`), and it is compared with a loop that knows only what is
left. The invariant (`HardInv`) says of what is left that every kept row already gone comes before
it and leaves it alone, and of what is gone and not kept that a kept row took it; so
the best of what is left is always kept (`HardTurn`), and what a pick takes is the cluster it speaks for
(`HitIsCluster`), although by then others have taken theirs. For the methods that decay, what is left of a
score is what the list of picks so far makes of it (`SoftInv`), a row that left can only get worse, and
scores are picked in descending order since decaying never raises one (`LessAfter`). The sweep
of the device is an induction along the sorted list: what it holds are the kept rows so far, or the first
budget of them (`SweepGoesOn`). It is assumed that scores are not negative and budgets numbers
(`SuppressionAssumption`).

The argument for the native trackers. A compiled pool and the maps beside it share nothing but the rows
of one frame, so the invariant (`MapsFollow`) ties the rows to what was ever given to their tracks: a
row's id is no older than the pool's counter and no other row's, both maps are defined on exactly the
ids in the rows, and an appearance is the trail of the crops its track was given (`Followed`). Of every
`update` it is first shown that, whatever its stages pair, each row is given at most one detection
and `last_match` says which (`SortOutcome` to `BotSortOutcome`: `Without` keeps a later stage off what an
earlier one took); then that a sweep in place, which overwrites rows while it reads them, ends with the
rows that stay in their order (`SweepRows`: the row read is never behind the row written); and then
that `absorb`, which only sees the rows that are left, blends into each appearance what that very track
was given (`FrameFollowed`, `AbsorbKeeps`). The checked property speaks of one tracker at a time and is
not inductive: a name two trackers have in common would make the frames of one count as sightings of
the other's track, so the invariant has no name in two trackers either (`NamesApart`). It is assumed
that the bounds on a frame's detections are numbers (`NativeAssumption`).

The argument for evaluation. A frame is matched for the greatest total, so what has to be shown of
an optimum is local (`WellMatched`). A favoured pair that is admissible is in it: otherwise give the
pair to each other, which costs at most the two pairs its sides are in. None of the two is favoured,
since what CLEAR remembers of a frame is one to one (`Injects`); each is then worth at most a full overlap,
and the bonus outbids both (`BonusIsEnough`). An admissible pair with both sides free would be gained for nothing. The
checked property looks back over frames that had nothing to match, so the invariant (`EvaluationInv`)
says of the memory that it holds the matches of the last frame of the sequence at hand that had
(`Remembers`). It is assumed that people and predictions
are finite sets, and that the bound on boxes is a number (`EvaluationAssumption`).

## What is only model-checked

That the native trackers implement the Python ones (`ImplementsPython`); geometry (`BoxesComeBack`);
that tallies of sequences combine to those of their concatenation (`CombiningIsConcatenating`, an
induction over the frames for tallies that folds define); and the two liveness properties
(liveness under fairness is out of the prover's reach). Where an induction runs over a finite set of a specification - the clusters of an
instant, the rows a compaction keeps, the pairs of a sum - the proofs go by the smallest
counterexample, the subsets of a finite set being well-founded, which needs no induction theorem.

Trying to prove `BandsChooseInOrder` refuted a part of it: that McByte, having locked its clear pairs,
ends with as many admissible pairs as one whole solve. It holds up to 3x3, the bound of the
run, and fails from 4x4 on: of a threshold of 10 and the rows (10 11 B B), (11 25 B 11), (B 11 10 10),
(B B 11 0), B beyond reach, the whole solve leaves two pairs and lock and rest only one. The class only says
of a clear pair that no such trade is available with it (`mcbyte/tracker.py:17`), which is what is left
of the property.

## Disagreements between code and documentation

Each is a run that checks what the documentation says and finds it violated.

<!-- FINDINGS -->
* `src/shipvision/mtmc/identity.py:286` (run `global_ids_orphans`, `NothingOrphaned`): assign raises in _observe (286-291) after it has advanced _step and stored feature, hits and last-seen of the observations before the un-embedded one, and nothing takes them back. validate asserts the opposite: "tracks have stored features but no owner ... these would never be evicted" (shipvision/mtmc/identity.py:274-279); with validate_every_step the next successful call raises TrackingError for state the failed one left. A group with an un-embedded track gets this far under the "spatial" matcher, which reads no embeddings (shipvision/mtmc/matchers/spatial/matcher.py). While such stamps are there the limit on tracks is not kept either: _evict counts the owners and forgets the oldest stamps (557-559), so an orphan is forgotten in the place of an owned track, against "max_tracks: the maximum number of single-camera tracks held across all identities" (shipvision/mtmc/identity.py:86).
* `src/shipvision/mtmc/tracker.py:164` (run `mtmc_retry`, `AdmittedAfterDistinctInstants`): track advances the gate (164) before the matcher or the assigner can refuse the instant (165-166) and never takes it back, so an instant that raised and is handed in again is counted twice, and a track seen in one instant fewer than min_hits is given a global id. "min_hits: consecutive qualifying observations before a track may be associated" (shipvision/mtmc/tracker.py:85); "contention is between a call and its own retry" (shipvision/mtmc/tracker.py:49-50).
* `src/shipvision/reid/gallery/centroid.py:251` (run `centroid_own_camera`, `NeverOwnCamera`): query looks its own camera up once, in the snapshot; for a camera not stored yet it gets None and filters nothing, so an identity that camera refreshes while the query runs is a match of its own view. Refreshes keep the row's occupant stamp, so the read-back reports it. "A query never matches itself" (shipvision/reid/gallery/base.py:11).
* `src/shipvision/mot/motion/cmc/external.py:49` (run `stale_affine`, `AffineMeetsItsFrame`): the pending affine is only consumed by estimate(), which runs after begin() has let the frame in: an affine pushed for a frame begin() refuses (a duplicated or reordered delivery) stays pending and moves the predictions of a later frame that came without telemetry. src/shipvision/mot/motion/cmc/external.py:23 says "Each pushed affine is consumed by exactly one frame. That is deliberate: a stale affine silently applied to a later frame moves every prediction by a motion that did not happen".
* `src/shipvision/reid/gallery/centroid.py:181` (run `centroid_refused_add`, `RejectedAddLeavesNothing`): "both run before anything is written or evicted: a rejected add must leave the gallery exactly as it was" (shipvision/reid/gallery/centroid.py:160-161), but the fold at 181, and the construction of an aggregator before it (179), can refuse too, after the oldest identity was evicted and _claim_row has indexed and stamped a row for the new one (170-172). "an implementation that needs all the vectors must say so by raising" (shipvision/reid/aggregation/base.py:34-35) asks of update() just that. The identity stays in the gallery, without an observation and with the vector of whoever sat in the row before, and queries report it; add() of it again folds into that vector.
* `src/shipvision/tune/study.py:206` (run `study_tallies`, `TalliesDescribeTrials`): the tag of a refused configuration is stored (206) before the trial ends as pruned (207). A process that dies in between leaves a trial that is tagged and never pruned; the resumed study subtracts it all the same (227-231) and reports one pruned trial too few, down to none (max(0, ...), 256). "The tag travels with the trial, so the three tallies below always describe the same set" (shipvision/tune/study.py:203-204); "the three tallies are read from the same trials, so they cannot disagree with each other" (shipvision/tune/study.py:224-225).
<!-- end FINDINGS -->

More that have no run of their own:

* `FlatGallery.add` says "a rejected add must leave the gallery exactly as it was" (`flat.py`, at the
  first lines of `add`), but `_ensure_dim` runs first and fixes the gallery's width even when the
  embedding is then refused (`AddRefused` changes `dim`). `CentroidGallery.add` begins in the same way
  (`centroid.py:159`), besides what the run `centroid_refused_add` shows.
* The compiled BoT-SORT asks its estimator before the session predicts, the Python one after
  (`trackers/botsort/tracker.py:234`), so a frame that fails in the estimator leaves the C++ filters
  where they were and the Python ones a frame ahead; the class says of itself that it is the
  specification (`botsort/tracker.py:136`). `ImplementsPython` is stated for trackers none of whose
  frames failed there (`intact`).
* The best configuration of a resumed study is put together from what its trial sampled and the constants
  of the present call (`study.py:248`). These are not the ones an older trial ran with if they were
  changed, and then the configuration reported is one no trial scored, where the comment wants just
  that avoided (`study.py:240-246`). `ReportsWhatRan` states what is left: the keywords neither
  call's constants fix.
* A calibration cache cut off in the middle is a hit for the next build (`calibration.py:89`);
  `ScalesAreTheNetworks` allows it where a fault happened and the cache is used.
* Soft suppression breaks a tie of decayed scores by the original score, where `nms/__init__.py:142`
  says "the lower input index".
* A frame in which nothing is published leaves what was matched last alone (`clear.py:192-195`), so a
  track interrupted by such frames only is not counted as fragmented, where the field says "how many
  times a trajectory's coverage resumed after a break" (`clear.py:62`).

One consequence of the orphans above: `_evict` counts the tracks over `max_tracks` by their owners
and picks the ones to forget from those last seen, so orphans can absorb the evictions and the limit
stay exceeded until the next call, where `identity.py:86` says "the maximum number of single-camera
tracks held across all identities". `SeenOnesStay` and its theorem state the limit for calls that found no orphans.

## Plan

1. (done) Galleries, assigner, gate, MTMC tracker; the first proofs.
2. (done) Track pool, contract, the Python trackers, camera motion.
3. (done) Association: the solver and the cascade.
4. (done) Native trackers: the C++ pool, sessions and the id map, shown to implement the Python ones.
5. (done) McByte's locking, in front of the solver.
6. (done) Matchers, clustering and the projection to the ground.
7. (done) Registry, image workspace, geometry, suppression, batching, engine build, tuning,
   evaluation.
8. (done) Proofs of the workspace and of the registry.
9. (done) Proofs of the galleries, of the assigner, its eviction, its claims and its register, of
   the MTMC tracker with its gate, of the trackers and their contract, of the engine build, the
   batches, the study and suppression, of clustering, of the solver with its cascade and of the
   appearances of the native trackers, and of the matching of evaluation.
   Left: geometry, the tallies of evaluation and the native refinement.
10. `CrossCameraMatching` composed in front of `MTMCTracker` in one behaviour (now the tracker takes
    any clusters, and the matching is checked to give only such); the widths of appearances, whose
    blend may fail in the middle of a frame (`mot/pool.py:391`).

## Not modelled, and why

Kalman arithmetic, costs, appearance distances, re-ranking, the exponential moving average, colour
conversion, image kernels and network heads are floating-point functions without control state; the
compiled matchers of `csrc/shipvision/mtmc` compute the matrices of `CrossCameraMatching` element by
element. The width of an appearance is not told apart, so the blend of two widths that raises in the
middle of `apply_matches` (`mot/pool.py:391`) is not there. TensorRT, torch and Optuna are external
runtimes, modelled by how the code uses them. Of a lazy registration the target is taken to import:
one that names no class is listed until it is first built (`registry.py:259`). Of the image workspace, a
failure to record the slot's event after the kernel was launched (`module.cpp:667`) is not there: that call
raises, and what its kernel writes later is nobody's result; and frames that are on the device already
(`nv12_letterbox_device_into`) are staged like any other, where the code takes a slot for their
descriptors only (`module.cpp:367-377`).
Optical flow that is found is taken to be right. Command-line scripts,
readers of file formats, report layout and workflow files move no state of the system.
