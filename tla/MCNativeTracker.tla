---------------------------- MODULE MCNativeTracker ----------------------------
(* One compiled tracker of every algorithm over a few frames.                *)
EXTENDS NativeTracker

CONSTANT MaxMovingUpdates     \* bound: update() calls with a camera that moves

(* Tags run no further than the calls - one is left out only after a refusal *)
(* or a reset: begin() compares them with the last one, nothing else does.   *)
SkippedAfterRefusal == \A k \in Trackers : lastTag[k] # None => lastTag[k].frame <= calls

(* Camera motion multiplies the frames: those behaviours are shorter.        *)
MovingIsShort ==
    (\E k \in Trackers : algorithm[k] = "botsort") => calls < MaxMovingUpdates
================================================================================
