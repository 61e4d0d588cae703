-------------------------------- MODULE MCVision --------------------------------
(* A behaviour is one of the geometry of a letterbox, the batching of a      *)
(* detector, the suppression of one image's proposals, the workspace of the  *)
(* image operations or the gallery of centroids: these share nothing, and    *)
(* while one is at work the others stay at an initial state.                 *)
EXTENDS PixelGeometry, DetectorBatching, Suppression, ImageWorkspace, CentroidGallery

Symmetric == Permutations(Identities) \cup Permutations(Cameras)

VARIABLE part

Parts == {"geometry", "batching", "suppression", "workspace", "gallery"}

SomeRequest == [rows |-> [r \in 1 .. Proposals |-> [place |-> Min(BoxPlaces), class |-> Min(Classes),
                                                    score |-> Min(Confidences)]],
                insane |-> {}, caller |-> "shared", method |-> "none", neighbors |-> 0,
                budget |-> Min(Budgets)]

SomeRunner == [kind |-> "mock", fixed |-> FALSE, engine |-> Min(EngineBatches), least |-> 1,
               requested |-> NotAsked, ranks |-> <<3>>, pinned |-> "", basis |-> "each",
               extent |-> "static", hw |-> NotAsked, rows |-> 0, head |-> ""]

SomeQuery == [top_k |-> Min(TopKs), exclude_camera |-> None]

PartsInit ==
    /\ part \in Parts
    /\ GeometryInit
    /\ part # "batching" => runner = SomeRunner
    /\ BatchingInit
    /\ part # "suppression" => request = SomeRequest
    /\ SuppressionInit
    /\ part # "workspace" => backend = "python"
    /\ WorkspaceInit
    /\ part # "gallery" => asked = [t \in Readers |-> SomeQuery]
    /\ Init

Still(p) ==
    /\ p # "geometry" => UNCHANGED geometry
    /\ p # "batching" => UNCHANGED batching
    /\ p # "suppression" => UNCHANGED suppression
    /\ p # "workspace" => UNCHANGED workspace
    /\ p # "gallery" => UNCHANGED vars

PartsNext ==
    /\ UNCHANGED part
    /\ \/ part = "geometry" /\ GeometryNext
       \/ part = "batching" /\ BatchingNext
       \/ part = "suppression" /\ SuppressionNext
       \/ part = "workspace" /\ WorkspaceNext
       \/ part = "gallery" /\ Next
    /\ Still(part)

PartsSpec ==
    PartsInit /\ [][PartsNext]_<<part, geometry, batching, suppression, workspace, vars>>
================================================================================
