----------------------------- MODULE MCMotTrackers -----------------------------
(* One tracker of every algorithm over a few frames.                         *)
EXTENDS MotTrackers, TLC

Symmetry == Permutations(Trackers) \cup Permutations(Cameras)

CONSTANT MaxMovingUpdates     \* bound: update() calls with a camera that moves

(* Tags run one frame ahead of the calls at most: begin() only compares them *)
(* with the last one, and nothing else counts in frame numbers.              *)
OneSkipped == \A k \in Trackers : lastTag[k] # None => lastTag[k].frame <= calls + 1

(* Camera motion multiplies the frames: those behaviours are shorter.        *)
MovingIsShort ==
    (\E k \in Trackers : algorithm[k] = "botsort") => calls < MaxMovingUpdates
================================================================================
