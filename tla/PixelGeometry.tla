------------------------------ MODULE PixelGeometry ------------------------------
(***************************************************************************)
(* shipvision/imgproc/geometry.py and what samples by it: an image is       *)
(* fitted into the network's input and painted there (letterbox), a box is  *)
(* mapped back, the mask inside it is read out of the canvas                *)
(* (detection/heads/masks.py), and the box is cropped from the image for    *)
(* re-identification (crop_batch).                                          *)
(*                                                                          *)
(* An image is its two extents and a box its two edges on one of the axes:  *)
(* every function here works on an axis at a time, only the scale is        *)
(* common.  Floats are fractions; the prototypes' extra resize is left out. *)
(***************************************************************************)
EXTENDS Integers, FiniteSets, FiniteSetsExt

CONSTANTS SourceExtents,  \* heights and widths of an image
          TargetExtents,  \* heights and widths of the network's input
          CropExtent      \* rows of a crop

VARIABLES fit,   \* the geometry the letterbox returned, <<>> before
          box    \* the box the detector found with it, and where it came back, <<>> before

geometry == <<fit, box>>

Axes == {1, 2}

(* scale = num / den: the smaller of the two ratios.                         *)
Scale(source, target) ==
    IF target[1] * source[2] <= target[2] * source[1]
    THEN [num |-> target[1], den |-> source[1]]
    ELSE [num |-> target[2], den |-> source[2]]

(* Mutant of RoundHalfUp: the extent is truncated.                           *)
RoundDown(extent, scale) == Max({1, (extent * scale.num) \div scale.den})

(* _round_half_up                                                            *)
RoundHalfUp(extent, scale) ==
    Max({1, (2 * extent * scale.num + scale.den) \div (2 * scale.den)})

(* LetterboxGeometry.plan                                                    *)
Plan(source, target) ==
    LET scale == Scale(source, target)
        resized == [a \in Axes |-> RoundHalfUp(source[a], scale)]
    IN [source |-> source, target |-> target, scale |-> scale, resized |-> resized,
        pad |-> [a \in Axes |-> (target[a] - resized[a]) \div 2]]

(* A fraction clipped to an interval of whole numbers.                       *)
Clip(num, den, low, high) ==
    IF num < low * den THEN low * den ELSE IF num > high * den THEN high * den ELSE num

(* invert_boxes: an edge num / den of the network's space, back in the       *)
(* image's; clipped to its continuous extent.                                *)
Invert(num, den, a) ==
    LET back == den * fit.scale.num
    IN [num |-> Clip((num - fit.pad[a] * den) * fit.scale.den, back, 0, fit.source[a]),
        den |-> back]

(* The centre of a sample as a fraction: resize_centres.                     *)
ResizeCentre(i, source, resized) == [num |-> (2 * i + 1) * source - resized, den |-> 2 * resized]

(* crop_centres, between two edges of one denominator.                       *)
CropCentre(i, low, high) ==
    [num |-> 2 * CropExtent * low.num + (2 * i + 1) * (high.num - low.num) - CropExtent * low.den,
     den |-> 2 * CropExtent * low.den]

(* _gather_bilinear and the kernel: indices are clamped, the weight is not.  *)
(* The share of every pixel read, of den.                                    *)
ClampedTaps(centre, extent) ==
    LET floor == centre.num \div centre.den
        low == Max({floor, 0})
        high == Min({floor + 1, extent - 1})
        weight == centre.num % centre.den
    IN [p \in {low, high} |-> (IF p = low THEN centre.den - weight ELSE 0)
                                + IF p = high THEN weight ELSE 0]

(* grid_sample and interpolate: the coordinate is clamped.                   *)
BorderTaps(centre, extent) ==
    LET clamped == Clip(centre.num, centre.den, 0, extent - 1)
        low == clamped \div centre.den
        high == Min({low + 1, extent - 1})
        weight == clamped % centre.den
    IN [p \in {low, high} |-> (IF p = low THEN centre.den - weight ELSE 0)
                                + IF p = high THEN weight ELSE 0]

(* The pixels a sample depends on.                                           *)
Read(taps) == {p \in DOMAIN taps : taps[p] > 0}

(* letterbox: what a row of the canvas is painted from, none for a bar.      *)
Painted(line, a) ==
    IF line \in fit.pad[a] .. fit.pad[a] + fit.resized[a] - 1
    THEN Read(ClampedTaps(ResizeCentre(line - fit.pad[a], fit.source[a], fit.resized[a]),
                          fit.source[a]))
    ELSE {}

(* unpad_mask: the rows of the canvas a row of the mask is read from; the    *)
(* bars are cut off, then the rest is resized.                               *)
MaskRows(y, a) ==
    LET top == Max({0, Min({fit.pad[a], fit.target[a] - 1})})
        inner == Max({1, Min({fit.resized[a], fit.target[a] - top})})
    IN {top + p : p \in Read(ClampedTaps(ResizeCentre(y, inner, fit.source[a]), inner))}

(* box_crop_bounds: outward, a thousandth of a pixel forgiven, at least one. *)
CropBounds(low, high, extent) ==
    LET first == (1000 * low.num + low.den) \div (1000 * low.den)
        last == -((high.den - 1000 * high.num) \div (1000 * high.den))
        from == Min({Max({first, 0}), extent - 1})
    IN [from |-> from, to |-> Min({Max({last, from + 1}), extent})]

(* clamp_boxes_to_frame: to the last addressable pixel.                      *)
ClampToFrame(edge, extent) == [edge EXCEPT !.num = Clip(edge.num, edge.den, 0, extent - 1)]

(* crop_batch: the centres of a crop, none of a box without area.            *)
CropCentres(low, high, extent) ==
    LET from == ClampToFrame(low, extent)
        to == ClampToFrame(high, extent)
    IN IF to.num <= from.num THEN {} ELSE {CropCentre(i, from, to) : i \in 0 .. CropExtent - 1}

------------------------------------------------------------------------------
GeometryInit == fit = <<>> /\ box = <<>>

Letterbox ==
    /\ fit = <<>>
    /\ \E source \in SourceExtents \X SourceExtents, target \in TargetExtents \X TargetExtents :
          fit' = Plan(source, target)
    /\ UNCHANGED box

(* A detector that finds the box exactly where the canvas shows it.          *)
MapBack ==
    /\ fit # <<>> /\ box = <<>>
    /\ \E a \in Axes : \E low \in 0 .. fit.source[a], high \in 0 .. fit.source[a] :
          /\ low <= high
          /\ LET Shown(e) == fit.pad[a] * fit.source[a] + e * fit.resized[a]
                 from == Invert(Shown(low), fit.source[a], a)
                 to == Invert(Shown(high), fit.source[a], a)
             IN box' = [axis |-> a, low |-> low, high |-> high, from |-> from, to |-> to,
                        window |-> CropBounds(from, to, fit.source[a])]
    /\ UNCHANGED fit

GeometryNext == Letterbox \/ MapBack

GeometrySpec == GeometryInit /\ [][GeometryNext]_geometry

------------------------------------------------------------------------------
Apart(a, b) == IF a >= b THEN a - b ELSE b - a

(* An edge comes back within half a network pixel of where it was, "and      *)
(* exactly zero whenever source * scale is already whole" (invert_boxes).    *)
Returned(e, edge, a) ==
    LET off == Apart(edge.num, e * edge.den)
    IN /\ 2 * off * fit.scale.num <= edge.den * fit.scale.den
       /\ fit.resized[a] * fit.scale.den = fit.source[a] * fit.scale.num => off = 0

(* A box comes back to its frame, and so does what is read for it: a mask    *)
(* pixel is read from the rows that were painted from its own neighbourhood, *)
(* never from a bar; a crop stays in the frame and around its box; and the   *)
(* two ways to clamp a tap read the same pixels (invert_boxes, unpad_mask,   *)
(* box_crop_bounds, _gather_bilinear).                                       *)
BoxesComeBack ==
    box # <<>> =>
    LET a == box.axis
        extent == fit.source[a]
        centres == CropCentres(box.from, box.to, extent)
    IN /\ \A x \in Axes : /\ fit.pad[x] >= 0
                          /\ fit.target[x] - fit.resized[x] - fit.pad[x] \in {fit.pad[x], fit.pad[x] + 1}
       /\ Returned(box.low, box.from, a) /\ Returned(box.high, box.to, a)
       /\ 0 <= box.window.from /\ box.window.from < box.window.to /\ box.window.to <= extent
       /\ fit.resized[a] * fit.scale.den = extent * fit.scale.num /\ box.low < extent =>
            box.window = [from |-> box.low, to |-> Max({box.high, box.low + 1})]
       /\ \A y \in box.window.from .. box.window.to - 1 :
             LET painted == {Painted(line, a) : line \in MaskRows(y, a)}
             IN /\ {} \notin painted
                /\ \A p \in UNION painted :
                      (Apart(p, y) - 1) * fit.resized[a] <= extent
       /\ \A c \in centres :
             /\ Read(ClampedTaps(c, extent)) = Read(BorderTaps(c, extent))
             /\ Read(ClampedTaps(c, extent)) \subseteq
                    Max({0, box.window.from - 1}) .. Min({box.window.to, extent - 1})
================================================================================
