---------------------------- MODULE ModelRunner ----------------------------
(* run() of ModelRunner in module1_inference: the image is resampled for the
   network, and its answer filtered by confidence, scaled to the image, thinned
   out (non-maximum suppression, NMS) and looked up in the depth image. One
   run() is one behaviour; it shares nothing with the runs of other handlers,
   so no other thread appears.

   The network is external: it answers any boxes, in its own coordinates, which
   are integers here. In the image floats are counted in parts of a pixel; what
   C++ rounds on the way from a box to its pixel is rounded here, but not the
   areas of boxes and their quotient, nor the 1e-6 beside them. Colours, class
   names and the world's x and y are left out. *)
EXTENDS Integers, FiniteSets, Sequences

CONSTANTS
    Anchors,         \* columns of the output tensor (8400 of them)
    Boxes,           \* boxes the network may answer: centre, width, height
    Scores,          \* confidences
    ConfThresh,      \* conf_thresh_
    IouNum, IouDen,  \* iou_thresh_ = IouNum / IouDen
    NetW, NetH,      \* kInputW, kInputH: the size of the network's input
    Width, Height,   \* size of the image
    Unit,            \* parts of a pixel: each float is a whole number of them
    HalfCol, HalfRow,  \* scale_x / 2, scale_y / 2: parts to half a cell
    Round,           \* the float next to a number of parts ...
    MaxPart,         \* ... of at most so many
    Precision,       \* a float is off by 1 / Precision at most: 2^24
    Depths,          \* readings of the depth camera
    NotFinite,       \* an infinite or NaN reading
    NoDepth          \* the request carries no depth image

ASSUME InputAssumption ==
    /\ IsFiniteSet(Anchors)
    /\ Boxes \subseteq [cx : Int, cy : Int, w : Int, h : Int]
    /\ Scores \subseteq Int /\ ConfThresh \in Int
    /\ IouNum \in Nat /\ IouDen \in Nat \ {0}
    /\ NetW \in Nat \ {0} /\ NetH \in Nat \ {0}
    /\ Width \in Nat \ {0} /\ Height \in Nat \ {0}
    /\ Depths \subseteq Int \cup {NotFinite}

Abs(n) == IF n >= 0 THEN n ELSE -n

\* Twice n half cells are within what Round rounds.
Fits(n, half) ==
    Abs(n) * half \in 0 .. MaxPart /\ 2 * Round[Abs(n) * half] \in 0 .. MaxPart

\* IEEE 754: the result of an operation is the float next to the exact one, and
\* doubling is exact. The scales are quotients that were rounded.
ASSUME FloatAssumption ==
    /\ Unit \in Nat \ {0} /\ Precision \in Nat \ {0} /\ MaxPart \in Nat
    /\ HalfCol \in Nat /\ Precision * Abs(2 * NetW * HalfCol - Width * Unit) <= Width * Unit
    /\ HalfRow \in Nat /\ Precision * Abs(2 * NetH * HalfRow - Height * Unit) <= Height * Unit
    /\ Round \in [0 .. MaxPart -> Nat]
    /\ \A m \in 0 .. MaxPart : Precision * Abs(Round[m] - m) <= m
    /\ \A m \in 0 .. MaxPart : \A n \in m .. MaxPart : Round[m] <= Round[n]
    /\ \A m \in 0 .. MaxPart :
           2 * Round[m] <= MaxPart => Round[2 * Round[m]] = 2 * Round[m]
    /\ \A b \in Boxes :
           /\ Fits(2 * b.cx - b.w, HalfCol) /\ Fits(2 * b.cx + b.w, HalfCol)
           /\ Fits(2 * b.cy - b.h, HalfRow) /\ Fits(2 * b.cy + b.h, HalfRow)

VARIABLES
    raw,         \* output tensor: box and best class score of each anchor
    depth,       \* depth_data: a reading per pixel, or NoDepth
    input,       \* input tensor: the pixel each cell was taken from
    idx,         \* nms(): the candidates, sorted
    suppressed,  \* nms(): candidates that overlap a kept one
    keep,        \* nms(): candidates kept, in order
    pos,         \* iteration of the loop run() is in
    world_z,     \* distance of each detection, 0 if unknown
    pc           \* "preprocess", "postprocess", "nms", "backproject", "done"

vars == <<raw, depth, input, idx, suppressed, keep, pos, world_z, pc>>

Pixels == 0 .. Width * Height - 1
Cells == (0 .. NetW - 1) \X (0 .. NetH - 1)

----------------------------------------------------------------------------
(* preprocess(): nearest-neighbour resampling *)

\* Fault: the source column is rounded to the nearest instead of down.
SrcColRounded(col) == (2 * col * Width + NetW) \div (2 * NetW)

SrcCol(col) == (col * Width) \div NetW
SrcRow(row) == (row * Height) \div NetH

Source(c) == SrcRow(c[2]) * Width + SrcCol(c[1])

Preprocess ==
    /\ pc = "preprocess"
    /\ input' = [c \in Cells |-> Source(c)]
    /\ pc' = "postprocess"
    /\ UNCHANGED <<raw, depth, idx, suppressed, keep, pos, world_z>>

----------------------------------------------------------------------------
(* Overlap of two boxes. inter / union > iou_thresh_, without the division: where
   boxes meet all areas are positive, and where not the quotient is 0. *)

Lesser(m, n) == IF m <= n THEN m ELSE n
Greater(m, n) == IF m >= n THEN m ELSE n

\* The result of an operation whose exact result is n parts.
Float(n) == IF n >= 0 THEN Round[n] ELSE -Round[-n]

\* The box of an anchor in the image.
Scaled(b) ==
    [x_min |-> Float((2 * b.cx - b.w) * HalfCol), y_min |-> Float((2 * b.cy - b.h) * HalfRow),
     x_max |-> Float((2 * b.cx + b.w) * HalfCol), y_max |-> Float((2 * b.cy + b.h) * HalfRow)]
BoxOf(a) == Scaled(raw[a].box)

Inter(a, b) ==
    Greater(0, Lesser(a.x_max, b.x_max) - Greater(a.x_min, b.x_min))
      * Greater(0, Lesser(a.y_max, b.y_max) - Greater(a.y_min, b.y_min))

Area(a) == (a.x_max - a.x_min) * (a.y_max - a.y_min)

\* Fault: the intersection is compared with the area of the first box only.
OverlapOfFirst(i, j) ==
    /\ Inter(BoxOf(i), BoxOf(j)) > 0
    /\ IouDen * Inter(BoxOf(i), BoxOf(j)) > IouNum * Area(BoxOf(i))

BothAreas(a, b) == Area(a) + Area(b) - Inter(a, b)

Overlap(i, j) ==
    /\ Inter(BoxOf(i), BoxOf(j)) > 0
    /\ IouDen * Inter(BoxOf(i), BoxOf(j)) > IouNum * BothAreas(BoxOf(i), BoxOf(j))

----------------------------------------------------------------------------
(* postprocess() and nms() *)

Candidates == {a \in Anchors : raw[a].score >= ConfThresh}

\* Fault: the confidence filter is forgotten.
SortedUnfiltered ==
    {s \in [1 .. Cardinality(Anchors) -> Anchors] :
        \A m, n \in DOMAIN s :
            m < n => s[m] # s[n] /\ raw[s[m]].score >= raw[s[n]].score}

\* Fault: the comparison of std::sort is turned round.
SortedAscending ==
    {s \in [1 .. Cardinality(Candidates) -> Candidates] :
        \A m, n \in DOMAIN s :
            m < n => s[m] # s[n] /\ raw[s[m]].score <= raw[s[n]].score}

\* std::sort is not stable: equal confidences may come in either order.
SortedOrders ==
    {s \in [1 .. Cardinality(Candidates) -> Candidates] :
        \A m, n \in DOMAIN s :
            m < n => s[m] # s[n] /\ raw[s[m]].score >= raw[s[n]].score}

Sort ==
    /\ pc = "postprocess"
    /\ idx' \in SortedOrders
    /\ pos' = 1
    /\ pc' = "nms"
    /\ UNCHANGED <<raw, depth, input, suppressed, keep, world_z>>

Skip ==
    /\ pc = "nms" /\ pos <= Len(idx)
    /\ idx[pos] \in suppressed
    /\ pos' = pos + 1
    /\ UNCHANGED <<raw, depth, input, idx, suppressed, keep, world_z, pc>>

\* The inner loop starts at the first candidate again, not behind pos.
OverlappedBy(i) == {j \in Candidates \ {i} : Overlap(i, j)}

Keep ==
    /\ pc = "nms" /\ pos <= Len(idx)
    /\ idx[pos] \notin suppressed
    /\ keep' = Append(keep, idx[pos])
    /\ suppressed' = suppressed \cup OverlappedBy(idx[pos])
    /\ pos' = pos + 1
    /\ UNCHANGED <<raw, depth, input, idx, world_z, pc>>

\* Fault: the loop over the detections begins with the second one.
NmsReturnsSkippingFirst ==
    /\ pc = "nms" /\ pos > Len(idx)
    /\ pos' = 2
    /\ pc' = "backproject"
    /\ UNCHANGED <<raw, depth, input, idx, suppressed, keep, world_z>>

NmsReturns ==
    /\ pc = "nms" /\ pos > Len(idx)
    /\ pos' = 1
    /\ pc' = "backproject"
    /\ UNCHANGED <<raw, depth, input, idx, suppressed, keep, world_z>>

----------------------------------------------------------------------------
(* backproject() *)

Clamp(n, lo, hi) == IF n < lo THEN lo ELSE IF n > hi THEN hi ELSE n

\* static_cast<int>() drops the fraction towards zero.
Truncated(n, d) == IF n >= 0 THEN n \div d ELSE -((-n) \div d)

\* The pixel column, or row, of the middle of lo and hi: half of their sum.
Centre(lo, hi, size) == Clamp(Truncated(Float(lo + hi), 2 * Unit), 0, size - 1)

\* Fault: clamp() to the height of the image instead of its last row.
RowOnePast(box) ==
    Clamp(Truncated(Float(box.y_min + box.y_max), 2 * Unit), 0, Height)

Column(box) == Centre(box.x_min, box.x_max, Width)
Row(box) == Centre(box.y_min, box.y_max, Height)
Pixel(box) == Row(box) * Width + Column(box)

\* A reading outside the image is any value: nothing is known of it.
Reading(p) == IF p \in DOMAIN depth THEN {depth[p]} ELSE Depths

Backproject ==
    /\ pc = "backproject" /\ pos <= Len(keep)
    /\ IF depth = NoDepth
       THEN UNCHANGED world_z
       ELSE \E z \in Reading(Pixel(BoxOf(keep[pos]))) :
                IF z = NotFinite \/ z <= 0
                THEN UNCHANGED world_z
                ELSE world_z' = [world_z EXCEPT ![keep[pos]] = z]
    /\ pos' = pos + 1
    /\ UNCHANGED <<raw, depth, input, idx, suppressed, keep, pc>>

Return ==
    /\ pc = "backproject" /\ pos > Len(keep)
    /\ pc' = "done"
    /\ UNCHANGED <<raw, depth, input, idx, suppressed, keep, pos, world_z>>

Returned == pc = "done" /\ UNCHANGED vars

----------------------------------------------------------------------------
Init ==
    /\ raw \in [Anchors -> [box : Boxes, score : Scores]]
    /\ depth \in [Pixels -> Depths] \cup {NoDepth}
    /\ input = [c \in Cells |-> 0]
    /\ idx = <<>>
    /\ suppressed = {}
    /\ keep = <<>>
    /\ pos = 1
    /\ world_z = [a \in Anchors |-> 0]
    /\ pc = "preprocess"

Next ==
    Preprocess \/ Sort \/ Skip \/ Keep \/ NmsReturns \/ Backproject \/ Return \/ Returned

Spec == Init /\ [][Next]_vars

----------------------------------------------------------------------------
(* Properties *)

Kept == {keep[n] : n \in DOMAIN keep}

TypeOK ==
    /\ raw \in [Anchors -> [box : Boxes, score : Scores]]
    /\ pc \in {"preprocess", "postprocess", "nms", "backproject", "done"}
    /\ input \in [Cells -> Int]
    /\ idx \in Seq(Candidates) /\ Len(idx) <= Cardinality(Candidates)
    /\ keep \in Seq(Candidates)
    /\ suppressed \subseteq Candidates
    /\ pos \in Nat \ {0}

\* No two detections of a response overlap: one object is reported once. The
\* inner loop of nms() may suppress a candidate that was kept before, and
\* nobody would look at it again; that it never does rests on the order of
\* confidences, on both halves of the loop, and on the symmetry of Overlap.
KeptDisjoint ==
    /\ \A i, j \in Kept : i # j => ~Overlap(i, j)
    /\ Kept \cap suppressed = {}

\* Nothing is dropped but for something better: when nms() has returned, each
\* candidate that is not kept overlaps a kept one at least as confident. With
\* KeptDisjoint this defines what greedy suppression may answer.
DroppedForBetter ==
    pc \in {"backproject", "done"} =>
        \A d \in Candidates \ Kept :
            \E k \in Kept : Overlap(k, d) /\ raw[k].score >= raw[d].score

\* lo .. hi, in parts, shows in an image of size pixels, and reaches pixel p.
Shows(lo, hi, size) == lo <= hi /\ lo < size * Unit /\ hi >= 0
Reaches(lo, hi, p) == p * Unit <= hi /\ lo < (p + 1) * Unit

\* preprocess() and backproject() stay inside the image and the depth image, for
\* boxes that reach out of the image as well; and the depth is read at a pixel
\* of the detection's own box wherever some of the box is in the image: neither
\* rounding nor clamping moves the lookup to another object.
LookupInside ==
    /\ \A c \in Cells : input[c] \in Pixels
    /\ \A a \in Anchors :
        LET box == BoxOf(a)
        IN  /\ Pixel(box) \in Pixels
            /\ Shows(box.x_min, box.x_max, Width) => Reaches(box.x_min, box.x_max, Column(box))
            /\ Shows(box.y_min, box.y_max, Height) => Reaches(box.y_min, box.y_max, Row(box))

\* What rounding does to a box is less than a cell of the network is wide: with
\* float, boxes within the 640 cells of the input on images of up to 3744 pixels.
Small(n1, n2, size) == 7 * (Abs(n1) + Abs(n2)) * size < 4 * Precision
Precise(b) ==
    /\ Small(2 * b.cx - b.w, 2 * b.cx + b.w, Width)
    /\ Small(2 * b.cy - b.h, 2 * b.cy + b.h, Height)

\* The column, or row, that was seen in cell k of net; and, if k lies exactly on
\* the edge between two pixels of the image, the one on the other side.
Near(seen, k, net, size) ==
    {seen} \cup (IF (k * size) % net = 0 THEN {seen - 1} ELSE {})

\* The depth of a detection is read at the pixel the network saw at its centre,
\* so colour and depth of a detection belong to one point of the scene: the
\* scaling of postprocess(), rounded at every step, undoes the resampling of
\* preprocess(), which is not. Only a centre exactly on the edge of a pixel may
\* slip, by one pixel and only down.
DepthWhereSeen ==
    pc # "preprocess" =>
        \A a \in Anchors :
            LET b == raw[a].box
                seen == input[<<b.cx, b.cy>>]
            IN  <<b.cx, b.cy>> \in Cells /\ Precise(b) =>
                    /\ Column(BoxOf(a)) \in Near(seen % Width, b.cx, NetW, Width)
                    /\ Row(BoxOf(a)) \in Near(seen \div Width, b.cy, NetH, Height)

\* The depth image shows a distance at the pixel of the anchor's box.
Usable(a) ==
    /\ depth # NoDepth
    /\ depth[Pixel(BoxOf(a))] # NotFinite /\ depth[Pixel(BoxOf(a))] > 0

\* A distance is reported exactly for the detections whose pixel has a usable
\* reading, and it is that reading; what is not reported has none.
DistanceIsRead ==
    pc = "done" =>
        \A a \in Anchors :
            world_z[a] = IF a \in Kept /\ Usable(a) THEN depth[Pixel(BoxOf(a))] ELSE 0
=============================================================================
