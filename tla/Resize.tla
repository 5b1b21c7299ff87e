------------------------------- MODULE Resize -------------------------------
(* The size of a resized image: parseHuaweiResize in                         *)
(* internal/s3gw/imageprocess.go and transform in internal/imageproc.  The   *)
(* pixels are left out.  Sizes are computed in float64: a product with a     *)
(* scale is off by less than any distance here except at an exact half,      *)
(* which may therefore be rounded either way.                                *)
EXTENDS Integers, Sequences, SequencesExt

CONSTANT MaxResizeDim   \* maxResizeDim, 4096 in the code

ASSUME ResizeAssumption == MaxResizeDim \in Nat \ {0}

clampDim(n) == IF n < 0 THEN 0 ELSE IF n > MaxResizeDim THEN MaxResizeDim ELSE n

(* The last w_ and h_ of the first resize action count, and the last m_ that *)
(* names fill or fixed; a parameter is a pair of its letter and its value.   *)
LastOf(spec, accepted(_), default) ==
  LET i == SelectLastInSeq(spec, accepted) IN IF i > 0 THEN spec[i][2] ELSE default

parseHuaweiResize(spec) ==
  LET w == clampDim(LastOf(spec, LAMBDA p : p[1] = "w", 0))
      h == clampDim(LastOf(spec, LAMBDA p : p[1] = "h", 0))
  IN  [w |-> w, h |-> h, ok |-> w > 0 \/ h > 0,
       mode |-> LastOf(spec, LAMBDA p : p[1] = "m" /\ p[2] \in {"fill", "fixed"}, "lfit")]

iround(p, q) == (2 * p + q) \div (2 * q)                \* of p/q, computed exactly
iroundScaled(p, q) ==                                   \* of p/q, a product with a scale
  {iround(p, q)} \cup (IF (2 * p + q) % (2 * q) = 0 THEN {iround(p, q) - 1} ELSE {})

ScaledToWidth(sw, sh, w) == {w} \X iroundScaled(sh * w, sw)
ScaledToHeight(sw, sh, h) == iroundScaled(sw * h, sh) \X {h}

(* The larger scale covers the box, the smaller one stays inside it. *)
Covering(sw, sh, w, h) ==
  IF w * sh >= h * sw THEN ScaledToWidth(sw, sh, w) ELSE ScaledToHeight(sw, sh, h)
Inside(sw, sh, w, h) ==
  IF w * sh <= h * sw THEN ScaledToWidth(sw, sh, w) ELSE ScaledToHeight(sw, sh, h)

(* A dimension that is 0 is derived from the other. *)
fitDims(sw, sh, w, h) ==
  CASE w > 0 /\ h > 0 -> Inside(sw, sh, w, h)
    [] w > 0 /\ h = 0 -> {<<w, iround(sh * w, sw)>>}
    [] w = 0 /\ h > 0 -> {<<iround(sw * h, sh), h>>}

AtLeast1(d) == IF d < 1 THEN 1 ELSE d
bilinear(d) == <<AtLeast1(d[1]), AtLeast1(d[2])>>

SmallerOf(a, b) == IF a < b THEN a ELSE b
cropCenter(d, w, h) == <<SmallerOf(w, d[1]), SmallerOf(h, d[2])>>

transform(sw, sh, w, h, mode) ==
  CASE mode = "fill" /\ w > 0 /\ h > 0 ->
         {cropCenter(bilinear(d), w, h) : d \in Covering(sw, sh, w, h)}
    [] mode = "fixed" /\ w > 0 /\ h > 0 -> {bilinear(<<w, h>>)}
    [] OTHER -> {bilinear(d) : d \in fitDims(sw, sh, w, h)}
=============================================================================
