------------------------------- MODULE CameraCodec -------------------------------
(***************************************************************************)
(* shipvision/reid/gallery/_cameras.py: camera names as small integers, so  *)
(* that a gallery can filter its rows by camera with one array comparison.  *)
(* The gallery that owns a codec calls it with its lock held.               *)
(***************************************************************************)
EXTENDS Integers, Sequences

CONSTANTS Cameras,
          None,          \* Python's None: no camera
          MaxCameras     \* max_cameras

ASSUME MaxCamerasAssumption == MaxCameras \in Nat \ {0}

VARIABLE names           \* _names: code c is the name at position c + 1

NO_CAMERA == -1

Codes == NO_CAMERA .. MaxCameras - 1

Interned(c) == \E i \in DOMAIN names : names[i] = c

(* lookup: the code of a camera, None if it was never stored.                *)
Lookup(c) == IF Interned(c) THEN (CHOOSE i \in DOMAIN names : names[i] = c) - 1
                            ELSE None

(* Mutant of CodecRefuses: the bound is compared with > instead of >=.       *)
CodecRefusesLate(c) == c # None /\ ~Interned(c) /\ Len(names) > MaxCameras

CodecRefuses(c) == /\ c # None
                   /\ ~Interned(c)
                   /\ Len(names) >= MaxCameras

(* Mutant of CodeFor: the new code is the table's length after the append.   *)
CodeAfterAppend(c) == IF c = None THEN NO_CAMERA
                      ELSE IF Interned(c) THEN Lookup(c) ELSE Len(names) + 1

(* code_for: the code, a new one for a camera seen for the first time.       *)
CodeFor(c) == IF c = None THEN NO_CAMERA
              ELSE IF Interned(c) THEN Lookup(c) ELSE Len(names)

NamesWith(c) == IF c = None \/ Interned(c) THEN names ELSE Append(names, c)

NameFor(code) == IF code = NO_CAMERA THEN None ELSE names[code + 1]
================================================================================
