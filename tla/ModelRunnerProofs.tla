------------------------- MODULE ModelRunnerProofs -------------------------
(* Proofs about ModelRunner, for any number of candidates, any boxes and
   confidences, any threshold and any sizes of the image and of the network's
   input. *)
EXTENDS ModelRunner, FiniteSetTheorems, TLAPS

\* The input is blank until preprocess() has filled it.
InputInv ==
    IF pc = "preprocess" THEN input = [c \in Cells |-> 0]
                         ELSE input = [c \in Cells |-> Source(c)]

\* From the sort on, idx holds every candidate once, best first.
IdxInv == pc \notin {"preprocess", "postprocess"} => idx \in SortedOrders

\* Whoever overlaps a kept detection is suppressed, and only those are, by a
\* detection at least as confident.
SuppressedInv ==
    /\ \A k \in Kept : OverlappedBy(k) \subseteq suppressed
    /\ \A d \in suppressed :
           \E k \in Kept : Overlap(k, d) /\ raw[k].score >= raw[d].score

\* The loop of nms() has decided on every candidate before pos, and on all of
\* them when it has ended.
DecidedInv ==
    /\ pc \in {"preprocess", "postprocess"} => keep = <<>> /\ suppressed = {}
    /\ pc = "nms" => \A n \in DOMAIN idx : n < pos => idx[n] \in Kept \cup suppressed
    /\ pc \in {"backproject", "done"} => Candidates \subseteq Kept \cup suppressed

IInv ==
    /\ TypeOK
    /\ InputInv
    /\ IdxInv
    /\ SuppressedInv
    /\ Kept \cap suppressed = {}
    /\ DecidedInv

----------------------------------------------------------------------------
(* Lemmas *)

\* Rounding a number of parts moves it by 1 / Precision of it at most.
LEMMA Rounded ==
    ASSUME NEW n \in Int, Abs(n) <= MaxPart
    PROVE  /\ Float(n) \in Int /\ Abs(Float(n)) = Round[Abs(n)]
           /\ Precision * Abs(Float(n) - n) <= Abs(n)
<1>1. Precision \in Nat \ {0} /\ MaxPart \in Nat /\ Round \in [0 .. MaxPart -> Nat]
  BY FloatAssumption
<1>2. \A m \in 0 .. MaxPart : Precision * Abs(Round[m] - m) <= m
  BY FloatAssumption
<1> DEFINE m == Abs(n)
<1>3. m \in 0 .. MaxPart
  BY <1>1 DEF Abs
<1>4. Round[m] \in Nat /\ Precision * Abs(Round[m] - m) <= m
  BY <1>1, <1>2, <1>3
<1>5. n >= 0 => m = n /\ Float(n) = Round[m]
  BY DEF Abs, Float
<1>6. n < 0 => m = -n /\ Float(n) = -Round[m]
  BY DEF Abs, Float
<1> HIDE DEF m
<1>7. Float(n) \in Int /\ Abs(Float(n)) = Round[m] /\ Abs(Float(n) - n) = Abs(Round[m] - m)
  BY <1>3, <1>4, <1>5, <1>6 DEF Abs
<1> QED BY <1>4, <1>7 DEF m

\* Rounding keeps the order.
LEMMA FloatMonotone ==
    ASSUME NEW m \in Int, NEW n \in Int, Abs(m) <= MaxPart, Abs(n) <= MaxPart, m <= n
    PROVE  Float(m) <= Float(n)
<1>1. MaxPart \in Nat /\ Round \in [0 .. MaxPart -> Nat]
  BY FloatAssumption
<1>2. \A i \in 0 .. MaxPart : \A j \in i .. MaxPart : Round[i] <= Round[j]
  BY FloatAssumption
<1>3. CASE m >= 0
  <2>1. m \in 0 .. MaxPart /\ n \in m .. MaxPart /\ n >= 0
    BY <1>1, <1>3 DEF Abs
  <2> QED BY <1>2, <1>3, <2>1 DEF Float
<1>4. CASE n < 0
  <2>1. -n \in 0 .. MaxPart /\ -m \in (-n) .. MaxPart /\ -m \in 0 .. MaxPart /\ ~(m >= 0)
    BY <1>1, <1>4 DEF Abs
  <2>2. Round[-n] <= Round[-m] /\ Round[-n] \in Nat /\ Round[-m] \in Nat
    BY <1>1, <1>2, <2>1
  <2>3. Float(m) = -Round[-m] /\ Float(n) = -Round[-n]
    BY <1>4, <2>1 DEF Float
  <2> QED BY <2>2, <2>3
<1>5. CASE m < 0 /\ n >= 0
  <2>1. n \in 0 .. MaxPart /\ -m \in 0 .. MaxPart
    BY <1>1, <1>5 DEF Abs
  <2>2. Round[n] \in Nat /\ Round[-m] \in Nat
    BY <1>1, <2>1
  <2>3. Float(m) = -Round[-m] /\ Float(n) = Round[n]
    BY <1>5 DEF Float
  <2> QED BY <2>2, <2>3
<1> QED BY <1>3, <1>4, <1>5

\* A corner of a box: a float that can be doubled.
IsFloat(n) == n \in Int /\ 2 * Abs(n) <= MaxPart /\ Round[2 * Abs(n)] = 2 * Abs(n)

LEMMA Corner ==
    ASSUME NEW n \in Int, NEW half \in Nat, Fits(n, half)
    PROVE  /\ IsFloat(Float(n * half))
           /\ Precision * Abs(Float(n * half) - n * half) <= Abs(n) * half
<1>1. n * half \in Int /\ Abs(n * half) = Abs(n) * half
  <2>1. CASE n >= 0
    <3>1. n * half >= 0
      BY <2>1
    <3> QED BY <2>1, <3>1 DEF Abs
  <2>2. CASE n < 0
    <3>1. -n \in Nat /\ (-n) * half \in Nat
      BY <2>2
    <3>2. n * half = -((-n) * half) /\ n * half \in Int
      OBVIOUS
    <3> QED BY <2>2, <3>1, <3>2 DEF Abs
  <2> QED BY <2>1, <2>2
<1> DEFINE m == Abs(n) * half
<1>2. m \in 0 .. MaxPart /\ 2 * Round[m] \in 0 .. MaxPart
  BY DEF Fits
<1>3. MaxPart \in Nat /\ (2 * Round[m] <= MaxPart => Round[2 * Round[m]] = 2 * Round[m])
  BY <1>2, FloatAssumption
<1>4. Round[2 * Round[m]] = 2 * Round[m] /\ 2 * Round[m] <= MaxPart
  BY <1>2, <1>3
<1>5. Abs(n * half) = m /\ m <= MaxPart
  BY <1>1, <1>2, <1>3
<1> HIDE DEF m
<1>6. /\ Float(n * half) \in Int /\ Abs(Float(n * half)) = Round[m]
      /\ Precision * Abs(Float(n * half) - n * half) <= m
  BY <1>1, <1>5, Rounded
<1>7. IsFloat(Float(n * half))
  BY <1>4, <1>6 DEF IsFloat
<1> QED BY <1>6, <1>7 DEF m

ImageBoxes == [x_min : Int, y_min : Int, x_max : Int, y_max : Int]

LEMMA Corners ==
    ASSUME NEW b \in Boxes
    PROVE  /\ IsFloat(Scaled(b).x_min) /\ IsFloat(Scaled(b).x_max)
           /\ IsFloat(Scaled(b).y_min) /\ IsFloat(Scaled(b).y_max)
<1>1. b.cx \in Int /\ b.cy \in Int /\ b.w \in Int /\ b.h \in Int
  BY InputAssumption
<1>2. HalfCol \in Nat /\ HalfRow \in Nat
  BY FloatAssumption
<1>3. /\ Fits(2 * b.cx - b.w, HalfCol) /\ Fits(2 * b.cx + b.w, HalfCol)
      /\ Fits(2 * b.cy - b.h, HalfRow) /\ Fits(2 * b.cy + b.h, HalfRow)
  BY FloatAssumption
<1>4. /\ 2 * b.cx - b.w \in Int /\ 2 * b.cx + b.w \in Int
      /\ 2 * b.cy - b.h \in Int /\ 2 * b.cy + b.h \in Int
  BY <1>1
<1>5. /\ IsFloat(Float((2 * b.cx - b.w) * HalfCol)) /\ IsFloat(Float((2 * b.cx + b.w) * HalfCol))
      /\ IsFloat(Float((2 * b.cy - b.h) * HalfRow)) /\ IsFloat(Float((2 * b.cy + b.h) * HalfRow))
  BY <1>2, <1>3, <1>4, Corner
<1> QED BY <1>5, Zenon DEF Scaled

LEMMA ScaledType == \A b \in Boxes : Scaled(b) \in ImageBoxes
<1> TAKE b \in Boxes
<1>1. /\ Scaled(b).x_min \in Int /\ Scaled(b).x_max \in Int
      /\ Scaled(b).y_min \in Int /\ Scaled(b).y_max \in Int
  BY Corners, Zenon DEF IsFloat
<1> QED BY <1>1 DEF Scaled, ImageBoxes

LEMMA InterSymmetric ==
    ASSUME NEW a \in ImageBoxes, NEW b \in ImageBoxes
    PROVE  Inter(a, b) = Inter(b, a) /\ Inter(a, b) \in Int
<1> DEFINE w == Lesser(a.x_max, b.x_max) - Greater(a.x_min, b.x_min)
           h == Lesser(a.y_max, b.y_max) - Greater(a.y_min, b.y_min)
<1>1. /\ Lesser(a.x_max, b.x_max) = Lesser(b.x_max, a.x_max)
      /\ Greater(a.x_min, b.x_min) = Greater(b.x_min, a.x_min)
      /\ w \in Int
  BY DEF ImageBoxes, Lesser, Greater
<1>2. /\ Lesser(a.y_max, b.y_max) = Lesser(b.y_max, a.y_max)
      /\ Greater(a.y_min, b.y_min) = Greater(b.y_min, a.y_min)
      /\ h \in Int
  BY DEF ImageBoxes, Lesser, Greater
<1>3. Inter(a, b) = Greater(0, w) * Greater(0, h)
  BY Zenon DEF Inter
<1>4. Inter(b, a) = Greater(0, w) * Greater(0, h)
  BY <1>1, <1>2, Zenon DEF Inter
<1>5. \A m \in Int : Greater(0, m) \in Int
  BY DEF Greater
<1>6. \A m, n \in Int : m * n \in Int
  OBVIOUS
<1> HIDE DEF w, h
<1>7. Greater(0, w) * Greater(0, h) \in Int
  BY <1>1, <1>2, <1>5, <1>6, Zenon
<1> QED BY <1>3, <1>4, <1>7

LEMMA OverlapSymmetric ==
    ASSUME TypeOK, NEW i \in Anchors, NEW j \in Anchors
    PROVE  Overlap(i, j) <=> Overlap(j, i)
<1>1. BoxOf(i) \in ImageBoxes /\ BoxOf(j) \in ImageBoxes
  BY ScaledType DEF TypeOK, BoxOf
<1>2. \A b \in ImageBoxes : Area(b) \in Int
  BY DEF Area, ImageBoxes
<1>3. Inter(BoxOf(i), BoxOf(j)) = Inter(BoxOf(j), BoxOf(i))
  BY <1>1, InterSymmetric
<1>4. \A a, b \in ImageBoxes : BothAreas(a, b) = BothAreas(b, a)
  BY <1>2, InterSymmetric DEF BothAreas
<1>5. BothAreas(BoxOf(i), BoxOf(j)) = BothAreas(BoxOf(j), BoxOf(i))
  BY <1>1, <1>4
<1> QED BY <1>3, <1>5, Zenon DEF Overlap

\* What the division of C++ yields for natural numbers.
LEMMA Division ==
    ASSUME NEW n \in Nat, NEW d \in Nat \ {0}
    PROVE  /\ n \div d \in Nat
           /\ d * (n \div d) <= n /\ n < d * (n \div d) + d
OBVIOUS

LEMMA Quotient ==
    ASSUME NEW n \in Nat, NEW d \in Nat \ {0}, NEW q \in Nat,
           d * q <= n, n < d * q + d
    PROVE  n \div d = q
<1> DEFINE r == n \div d
<1>1. r \in Nat /\ d * r <= n /\ n < d * r + d
  BY Division
<1> HIDE DEF r
<1>2. \A a, b \in Nat : a < b => d * a + d <= d * b
  <2> TAKE a, b \in Nat
  <2> HAVE a < b
  <2>1. b = a + 1 + (b - a - 1) /\ b - a - 1 \in Nat
    OBVIOUS
  <2>2. d * b = d * a + d + d * (b - a - 1)
    BY <2>1
  <2>3. d * (b - a - 1) \in Nat
    BY <2>1
  <2> QED BY <2>2, <2>3
<1>3. d * q \in Nat /\ d * r \in Nat
  BY <1>1
<1>4. ~(q < r) /\ ~(r < q)
  BY <1>1, <1>2, <1>3
<1> QED BY <1>1, <1>4 DEF r

\* A cell of the network's input comes from a column, or row, of the image.
LEMMA Resampled ==
    ASSUME NEW net \in Nat \ {0}, NEW size \in Nat \ {0}, NEW k \in 0 .. net - 1
    PROVE  (k * size) \div net \in 0 .. size - 1
<1> DEFINE q == (k * size) \div net
<1>1. k * size \in Nat /\ k * size < net * size
  OBVIOUS
<1>2. q \in Nat /\ net * q <= k * size
  BY <1>1, Division
<1> HIDE DEF q
<1>3. net * q < net * size
  BY <1>1, <1>2
<1>4. q < size
  BY <1>2, <1>3
<1> QED BY <1>2, <1>4 DEF q

LEMMA PixelInImage ==
    \A w, h \in Nat \ {0} : \A r \in 0 .. h - 1, c \in 0 .. w - 1 :
        r * w + c \in 0 .. w * h - 1
OBVIOUS

\* Sorting loses no candidate: an injective sequence as long as there are
\* candidates meets all of them.
LEMMA SortedIsComplete ==
    ASSUME NEW s \in SortedOrders
    PROVE  /\ s \in Seq(Candidates) /\ Len(s) = Cardinality(Candidates)
           /\ \A c \in Candidates : \E n \in DOMAIN s : s[n] = c
<1> DEFINE N == Cardinality(Candidates)
<1>1. IsFiniteSet(Candidates) /\ N \in Nat
  BY InputAssumption, FS_Subset, FS_CardinalityType DEF Candidates
<1>2. s \in [1 .. N -> Candidates]
  BY DEF SortedOrders
<1>3. IsFiniteSet(1 .. N) /\ Cardinality(1 .. N) = N
  BY <1>1, FS_Interval
<1>4. s \in Injection(1 .. N, Candidates)
  <2>1. \A m, n \in 1 .. N : m < n => s[m] # s[n]
    BY <1>2 DEF SortedOrders
  <2>2. \A m, n \in 1 .. N : s[m] = s[n] => m = n
    BY <2>1, <1>1
  <2> QED BY <1>2, <2>2 DEF Injection, IsInjective
<1>5. s \in Surjection(1 .. N, Candidates)
  BY <1>1, <1>3, <1>4, FS_Injection
<1>6. s \in Seq(Candidates) /\ Len(s) = N
  BY <1>1, <1>2
<1>7. \A c \in Candidates : \E n \in 1 .. N : s[n] = c
  BY <1>5 DEF Surjection
<1> QED BY <1>2, <1>6, <1>7

\* Nothing after the network's answer changes it.
LEMMA SameRaw ==
    ASSUME raw' = raw
    PROVE  /\ Candidates' = Candidates /\ SortedOrders' = SortedOrders
           /\ \A i, j : Overlap(i, j)' <=> Overlap(i, j)
           /\ \A i : OverlappedBy(i)' = OverlappedBy(i)
<1>1. Candidates' = Candidates
  BY DEF Candidates
<1>2. \A i, j : Overlap(i, j)' <=> Overlap(i, j)
  BY DEF Overlap, BoxOf
<1>3. SortedOrders' = SortedOrders
  BY <1>1 DEF SortedOrders
<1>4. \A i : OverlappedBy(i)' = OverlappedBy(i)
  BY <1>1, <1>2 DEF OverlappedBy
<1> QED BY <1>1, <1>2, <1>3, <1>4

\* push_back adds one detection to what is kept.
LEMMA KeptAppend ==
    ASSUME keep \in Seq(Candidates), NEW i \in Candidates, keep' = Append(keep, i)
    PROVE  Kept' = Kept \cup {i} /\ keep' \in Seq(Candidates)
<1>1. keep' \in Seq(Candidates) /\ Len(keep') = Len(keep) + 1
  OBVIOUS
<1>2. \A n \in DOMAIN keep : n \in DOMAIN keep' /\ keep'[n] = keep[n]
  OBVIOUS
<1>3. Len(keep) + 1 \in DOMAIN keep' /\ keep'[Len(keep) + 1] = i
  OBVIOUS
<1>4. \A n \in DOMAIN keep' : n \in DOMAIN keep \/ n = Len(keep) + 1
  OBVIOUS
<1>5. Kept' \subseteq Kept \cup {i}
  BY <1>2, <1>3, <1>4 DEF Kept
<1>6. Kept \cup {i} \subseteq Kept'
  BY <1>2, <1>3 DEF Kept
<1> QED BY <1>1, <1>5, <1>6

----------------------------------------------------------------------------
(* The invariant *)

LEMMA InitIInv == Init => IInv
<1> SUFFICES ASSUME Init PROVE IInv
  OBVIOUS
<1>1. Kept = {}
  BY DEF Init, Kept
<1>2. Cardinality(Candidates) \in Nat
  BY InputAssumption, FS_Subset, FS_CardinalityType DEF Candidates
<1>3. idx \in Seq(Candidates) /\ keep \in Seq(Candidates) /\ Len(idx) = 0
  BY DEF Init
<1>4. TypeOK
  BY <1>2, <1>3 DEF Init, TypeOK
<1> QED BY <1>1, <1>4 DEF Init, IInv, InputInv, IdxInv, SuppressedInv, DecidedInv

\* The cells of the input are pixels of the image.
LEMMA SourceIsPixel ==
    ASSUME NEW c \in Cells
    PROVE  /\ SrcCol(c[1]) \in 0 .. Width - 1 /\ SrcRow(c[2]) \in 0 .. Height - 1
           /\ Source(c) \in Pixels
<1>1. c[1] \in 0 .. NetW - 1 /\ c[2] \in 0 .. NetH - 1
  BY DEF Cells
<1>2. SrcCol(c[1]) \in 0 .. Width - 1
  BY <1>1, InputAssumption, Resampled DEF SrcCol
<1>3. SrcRow(c[2]) \in 0 .. Height - 1
  BY <1>1, InputAssumption, Resampled DEF SrcRow
<1>4. SrcRow(c[2]) * Width + SrcCol(c[1]) \in 0 .. Width * Height - 1
  BY <1>2, <1>3, PixelInImage, InputAssumption
<1> QED BY <1>2, <1>3, <1>4 DEF Source, Pixels

LEMMA PreprocessStep == IInv /\ Preprocess => IInv'
<1> SUFFICES ASSUME IInv, Preprocess PROVE IInv'
  OBVIOUS
<1> USE DEF IInv
<1>1. /\ Candidates' = Candidates /\ SortedOrders' = SortedOrders
      /\ \A i, j : Overlap(i, j)' <=> Overlap(i, j)
      /\ \A i : OverlappedBy(i)' = OverlappedBy(i)
  BY SameRaw DEF Preprocess
<1>2. Kept' = Kept /\ suppressed' = suppressed
  BY DEF Preprocess, Kept
<1>3. InputInv'
  BY DEF Preprocess, InputInv, Source
<1>4. \A c \in Cells : Source(c) \in Int
  BY SourceIsPixel, InputAssumption DEF Pixels
<1>5. TypeOK'
  BY <1>1, <1>4 DEF Preprocess, TypeOK
<1>6. IdxInv'
  BY DEF Preprocess, IdxInv
<1>7. SuppressedInv' /\ DecidedInv'
  BY <1>1, <1>2 DEF Preprocess, SuppressedInv, DecidedInv
<1> QED BY <1>2, <1>3, <1>5, <1>6, <1>7

LEMMA SortStep == IInv /\ Sort => IInv'
<1> SUFFICES ASSUME IInv, Sort PROVE IInv'
  OBVIOUS
<1> USE DEF IInv
<1>1. /\ Candidates' = Candidates /\ SortedOrders' = SortedOrders
      /\ \A i, j : Overlap(i, j)' <=> Overlap(i, j)
      /\ \A i : OverlappedBy(i)' = OverlappedBy(i)
  BY SameRaw DEF Sort
<1>2. Kept = {} /\ Kept' = {} /\ suppressed' = {}
  BY DEF Sort, DecidedInv, Kept
<1>3. idx' \in Seq(Candidates) /\ Len(idx') = Cardinality(Candidates)
  BY SortedIsComplete DEF Sort
<1>4. Cardinality(Candidates) \in Nat
  BY InputAssumption, FS_Subset, FS_CardinalityType DEF Candidates
<1>5. TypeOK'
  BY <1>1, <1>3, <1>4 DEF Sort, TypeOK
<1>6. IdxInv'
  BY <1>1 DEF Sort, IdxInv
<1>7. SuppressedInv' /\ DecidedInv'
  BY <1>2 DEF Sort, SuppressedInv, DecidedInv
<1>8. InputInv'
  BY DEF Sort, InputInv, Source
<1> QED BY <1>8, <1>2, <1>5, <1>6, <1>7

LEMMA SkipStep == IInv /\ Skip => IInv'
<1> SUFFICES ASSUME IInv, Skip PROVE IInv'
  OBVIOUS
<1> USE DEF IInv
<1>1. /\ Candidates' = Candidates /\ SortedOrders' = SortedOrders
      /\ \A i, j : Overlap(i, j)' <=> Overlap(i, j)
      /\ \A i : OverlappedBy(i)' = OverlappedBy(i)
  BY SameRaw DEF Skip
<1>2. Kept' = Kept /\ suppressed' = suppressed
  BY DEF Skip, Kept
<1>3. TypeOK'
  BY <1>1 DEF Skip, TypeOK
<1>4. IdxInv'
  BY <1>1 DEF Skip, IdxInv
<1>5. SuppressedInv'
  BY <1>1, <1>2 DEF Skip, SuppressedInv
<1>6. DecidedInv'
  <2>1. \A n \in DOMAIN idx : n < pos + 1 => n < pos \/ n = pos
    BY DEF TypeOK
  <2> QED BY <1>2, <2>1 DEF Skip, DecidedInv
<1>7. InputInv'
  BY DEF Skip, InputInv, Source
<1> QED BY <1>7, <1>2, <1>3, <1>4, <1>5, <1>6

\* Only candidates behind pos are newly suppressed: a kept one that overlaps
\* the new one would have suppressed it, by the symmetry of Overlap.
LEMMA KeepStep == IInv /\ Keep => IInv'
<1> SUFFICES ASSUME IInv, Keep PROVE IInv'
  OBVIOUS
<1> USE DEF IInv
<1> DEFINE i == idx[pos]
<1>1. /\ Candidates' = Candidates /\ SortedOrders' = SortedOrders
      /\ \A x, y : Overlap(x, y)' <=> Overlap(x, y)
      /\ \A x : OverlappedBy(x)' = OverlappedBy(x)
  BY SameRaw DEF Keep
<1>2. pos \in DOMAIN idx /\ i \in Candidates /\ i \notin suppressed
  BY DEF Keep, TypeOK
<1>3. Kept' = Kept \cup {i} /\ keep' \in Seq(Candidates)
  BY <1>2, KeptAppend DEF Keep, TypeOK
<1>4. suppressed' = suppressed \cup OverlappedBy(i)
  BY DEF Keep
<1>5. Kept \subseteq Candidates /\ Candidates \subseteq Anchors
  BY DEF Kept, TypeOK, Candidates
<1>6. \A k \in Kept : k # i => ~Overlap(k, i) /\ ~Overlap(i, k)
  <2>1. \A k \in Kept : k # i => ~Overlap(k, i)
    BY <1>2 DEF SuppressedInv, OverlappedBy
  <2>2. \A k \in Kept : Overlap(i, k) <=> Overlap(k, i)
    BY <1>2, <1>5, OverlapSymmetric
  <2> QED BY <2>1, <2>2
<1>7. ASSUME NEW j \in OverlappedBy(i), j \notin suppressed
      PROVE  raw[i].score >= raw[j].score
  <2>1. j \in Candidates /\ j # i /\ j \notin Kept
    BY <1>6 DEF OverlappedBy
  <2>2. idx \in SortedOrders
    BY DEF IdxInv, Keep
  <2>3. PICK n \in DOMAIN idx : idx[n] = j
    BY <2>1, <2>2, SortedIsComplete
  <2>4. ~(n < pos)
    BY <1>7, <2>1, <2>3 DEF DecidedInv, Keep
  <2>5. n # pos /\ n \in Int /\ pos \in Int
    BY <2>1, <2>3 DEF TypeOK
  <2>6. pos < n
    BY <2>4, <2>5
  <2> QED BY <1>2, <2>2, <2>3, <2>6 DEF SortedOrders
<1>8. TypeOK'
  <2>1. suppressed' \subseteq Candidates
    BY <1>4 DEF OverlappedBy, TypeOK
  <2> QED BY <1>1, <1>3, <2>1 DEF Keep, TypeOK
<1>9. IdxInv'
  BY <1>1 DEF Keep, IdxInv
<1>10. SuppressedInv'
  <2>1. \A k \in Kept' : OverlappedBy(k) \subseteq suppressed'
    BY <1>3, <1>4 DEF SuppressedInv
  <2>2. ASSUME NEW d \in suppressed'
        PROVE  \E k \in Kept' : Overlap(k, d) /\ raw[k].score >= raw[d].score
    <3>1. CASE d \in suppressed
      BY <3>1, <1>3 DEF SuppressedInv
    <3>2. CASE d \in OverlappedBy(i) /\ d \notin suppressed
      <4>1. Overlap(i, d) /\ raw[i].score >= raw[d].score
        BY <3>2, <1>7 DEF OverlappedBy
      <4> QED BY <4>1, <1>3
    <3> QED BY <3>1, <3>2, <1>4
  <2>3. raw' = raw
    BY DEF Keep
  <2> QED BY <1>1, <2>1, <2>2, <2>3 DEF SuppressedInv
<1>11. (Kept \cap suppressed = {})'
  <2>1. i \notin OverlappedBy(i) /\ i \notin suppressed
    BY <1>2 DEF OverlappedBy
  <2>2. Kept \cap OverlappedBy(i) = {}
    BY <1>6 DEF OverlappedBy
  <2> QED BY <2>1, <2>2, <1>3, <1>4
<1>12. DecidedInv'
  <2>1. \A n \in DOMAIN idx : n < pos + 1 => n < pos \/ n = pos
    BY DEF TypeOK
  <2> QED BY <1>3, <1>4, <2>1 DEF Keep, DecidedInv
<1>13. InputInv'
  BY DEF Keep, InputInv, Source
<1> QED BY <1>13, <1>8, <1>9, <1>10, <1>11, <1>12

LEMMA NmsReturnsStep == IInv /\ NmsReturns => IInv'
<1> SUFFICES ASSUME IInv, NmsReturns PROVE IInv'
  OBVIOUS
<1> USE DEF IInv
<1>1. /\ Candidates' = Candidates /\ SortedOrders' = SortedOrders
      /\ \A i, j : Overlap(i, j)' <=> Overlap(i, j)
      /\ \A i : OverlappedBy(i)' = OverlappedBy(i)
  BY SameRaw DEF NmsReturns
<1>2. Kept' = Kept /\ suppressed' = suppressed
  BY DEF NmsReturns, Kept
<1>3. TypeOK'
  BY <1>1 DEF NmsReturns, TypeOK
<1>4. IdxInv'
  BY <1>1 DEF NmsReturns, IdxInv
<1>5. SuppressedInv'
  BY <1>1, <1>2 DEF NmsReturns, SuppressedInv
<1>6. DecidedInv'
  <2>1. idx \in SortedOrders /\ \A n \in DOMAIN idx : n < pos
    BY DEF NmsReturns, IdxInv, TypeOK
  <2>2. \A c \in Candidates : \E n \in DOMAIN idx : idx[n] = c
    BY <2>1, SortedIsComplete
  <2>3. Candidates \subseteq Kept \cup suppressed
    BY <2>1, <2>2 DEF NmsReturns, DecidedInv
  <2> QED BY <1>1, <1>2, <2>3 DEF NmsReturns, DecidedInv
<1>7. InputInv'
  BY DEF NmsReturns, InputInv, Source
<1> QED BY <1>7, <1>2, <1>3, <1>4, <1>5, <1>6

\* The depth lookup and what follows leave what nms() decided alone.
LEMMA AfterNmsStep ==
    ASSUME IInv, pc \in {"backproject", "done"}, pc' \in {"backproject", "done"},
           pos' \in Nat \ {0}, UNCHANGED <<raw, input, idx, suppressed, keep>>
    PROVE  IInv'
<1> USE DEF IInv
<1>1. /\ Candidates' = Candidates /\ SortedOrders' = SortedOrders
      /\ \A i, j : Overlap(i, j)' <=> Overlap(i, j)
      /\ \A i : OverlappedBy(i)' = OverlappedBy(i)
  BY SameRaw
<1>2. Kept' = Kept /\ suppressed' = suppressed
  BY DEF Kept
<1>3. TypeOK'
  BY <1>1 DEF TypeOK
<1>4. IdxInv'
  BY <1>1 DEF IdxInv
<1>5. SuppressedInv'
  BY <1>1, <1>2 DEF SuppressedInv
<1>6. DecidedInv'
  BY <1>1, <1>2 DEF DecidedInv
<1>7. InputInv'
  BY DEF InputInv, Source
<1> QED BY <1>7, <1>2, <1>3, <1>4, <1>5, <1>6

LEMMA StutterStep == IInv /\ UNCHANGED vars => IInv'
<1> SUFFICES ASSUME IInv, UNCHANGED vars PROVE IInv'
  OBVIOUS
<1> USE DEF IInv, vars
<1>1. /\ Candidates' = Candidates /\ SortedOrders' = SortedOrders
      /\ \A i, j : Overlap(i, j)' <=> Overlap(i, j)
      /\ \A i : OverlappedBy(i)' = OverlappedBy(i)
  BY SameRaw
<1>2. Kept' = Kept
  BY DEF Kept
<1>3. TypeOK' /\ IdxInv'
  BY <1>1 DEF TypeOK, IdxInv
<1>4. SuppressedInv'
  BY <1>1, <1>2 DEF SuppressedInv
<1>5. DecidedInv'
  BY <1>1, <1>2 DEF DecidedInv
<1>6. InputInv'
  BY DEF InputInv, Source
<1> QED BY <1>6, <1>2, <1>3, <1>4, <1>5

LEMMA NextIInv == IInv /\ [Next]_vars => IInv'
<1> SUFFICES ASSUME IInv, [Next]_vars PROVE IInv'
  OBVIOUS
<1>0. CASE Preprocess
  BY <1>0, PreprocessStep
<1>1. CASE Sort
  BY <1>1, SortStep
<1>2. CASE Skip
  BY <1>2, SkipStep
<1>3. CASE Keep
  BY <1>3, KeepStep
<1>4. CASE NmsReturns
  BY <1>4, NmsReturnsStep
<1>5. CASE Backproject
  <2>1. pos' \in Nat \ {0}
    BY <1>5 DEF Backproject, IInv, TypeOK
  <2> QED BY <1>5, <2>1, AfterNmsStep DEF Backproject
<1>6. CASE Return
  <2>1. pos' \in Nat \ {0}
    BY <1>6 DEF Return, IInv, TypeOK
  <2> QED BY <1>6, <2>1, AfterNmsStep DEF Return
<1>7. CASE UNCHANGED vars
  BY <1>7, StutterStep
<1> QED BY <1>0, <1>1, <1>2, <1>3, <1>4, <1>5, <1>6, <1>7 DEF Next, Returned

\* The invariant that the theorems about nms() follow from.
THEOREM Invariance == Spec => []IInv
BY InitIInv, NextIInv, PTL DEF Spec

----------------------------------------------------------------------------
(* The theorems *)

\* The fields of a run keep their types, whatever the network answers.
THEOREM Typing == Spec => []TypeOK
<1>1. IInv => TypeOK
  BY DEF IInv
<1> QED BY <1>1, Invariance, PTL

\* No two detections of a response overlap, and none is suppressed after it
\* was kept (nms).
THEOREM KeptApart == Spec => []KeptDisjoint
<1>1. IInv => KeptDisjoint
  <2> SUFFICES ASSUME IInv PROVE KeptDisjoint
    OBVIOUS
  <2>1. Kept \subseteq Candidates
    BY DEF IInv, TypeOK, Kept
  <2>2. ASSUME NEW i \in Kept, NEW j \in Kept, i # j
        PROVE  ~Overlap(i, j)
    <3>1. j \notin OverlappedBy(i)
      BY DEF IInv, SuppressedInv
    <3> QED BY <2>1, <2>2, <3>1 DEF OverlappedBy
  <2> QED BY <2>2 DEF KeptDisjoint, IInv
<1> QED BY <1>1, Invariance, PTL

\* A candidate that nms() drops overlaps a detection it keeps that is at least
\* as confident.
THEOREM DroppedWithReason == Spec => []DroppedForBetter
<1>1. IInv => DroppedForBetter
  BY DEF IInv, DecidedInv, SuppressedInv, DroppedForBetter
<1> QED BY <1>1, Invariance, PTL

\* The rounded sum of two floats lies between their doubles.
LEMMA Middle ==
    ASSUME NEW lo, NEW hi, IsFloat(lo), IsFloat(hi)
    PROVE  /\ Float(lo + hi) \in Int /\ Abs(lo + hi) <= MaxPart
           /\ lo <= hi => 2 * lo <= Float(lo + hi) /\ Float(lo + hi) <= 2 * hi
<1>1. lo \in Int /\ hi \in Int /\ 2 * Abs(lo) <= MaxPart /\ 2 * Abs(hi) <= MaxPart /\ MaxPart \in Nat
  BY FloatAssumption DEF IsFloat
<1>2. /\ Abs(lo + hi) <= MaxPart /\ Abs(2 * lo) <= MaxPart /\ Abs(2 * hi) <= MaxPart
      /\ lo + hi \in Int /\ 2 * lo \in Int /\ 2 * hi \in Int
  BY <1>1 DEF Abs
<1>3. Float(lo + hi) \in Int
  BY <1>2, Rounded
<1>4. ASSUME NEW n, IsFloat(n) PROVE Float(2 * n) = 2 * n
  <2>1. n \in Int /\ Round[2 * Abs(n)] = 2 * Abs(n)
    BY <1>4 DEF IsFloat
  <2>2. CASE n >= 0
    <3>1. 2 * Abs(n) = 2 * n /\ 2 * n >= 0
      BY <2>1, <2>2 DEF Abs
    <3> QED BY <2>1, <3>1 DEF Float
  <2>3. CASE n < 0
    <3>1. 2 * Abs(n) = -(2 * n) /\ ~(2 * n >= 0) /\ -(-(2 * n)) = 2 * n
      BY <2>1, <2>3 DEF Abs
    <3>2. Float(2 * n) = -Round[-(2 * n)]
      BY <3>1 DEF Float
    <3> QED BY <2>1, <3>1, <3>2
  <2> QED BY <2>1, <2>2, <2>3
<1>5. ASSUME lo <= hi PROVE 2 * lo <= Float(lo + hi) /\ Float(lo + hi) <= 2 * hi
  <2>1. 2 * lo <= lo + hi /\ lo + hi <= 2 * hi
    BY <1>1, <1>5
  <2>2. Float(2 * lo) <= Float(lo + hi) /\ Float(lo + hi) <= Float(2 * hi)
    BY <1>2, <2>1, FloatMonotone
  <2> QED BY <1>4, <2>2
<1> QED BY <1>2, <1>3, <1>5

\* A centre is a column or row of the image, and one the box reaches if the box
\* shows in the image.
LEMMA CentreInside ==
    ASSUME NEW lo, NEW hi, IsFloat(lo), IsFloat(hi), NEW size \in Nat \ {0}
    PROVE  LET c == Centre(lo, hi, size)
           IN  /\ c \in 0 .. size - 1
               /\ Shows(lo, hi, size) => Reaches(lo, hi, c)
<1> DEFINE s == Float(lo + hi)
           t == Truncated(s, 2 * Unit)
           c == Centre(lo, hi, size)
<1>1. Unit \in Nat \ {0} /\ 2 * Unit \in Nat \ {0} /\ lo \in Int /\ hi \in Int
  BY FloatAssumption DEF IsFloat
<1>2. s \in Int /\ (lo <= hi => 2 * lo <= s /\ s <= 2 * hi)
  BY Middle
<1>3. c = Clamp(t, 0, size - 1)
  BY DEF Centre
<1> HIDE DEF s, c
<1>4. CASE s >= 0
  <2>1. t \in Nat /\ (2 * Unit) * t <= s /\ s < (2 * Unit) * t + 2 * Unit
    <3>1. t = s \div (2 * Unit) /\ s \in Nat
      BY <1>2, <1>4 DEF Truncated
    <3> QED BY <1>1, <3>1, Division
  <2> HIDE DEF t
  <2>2. (2 * Unit) * t = 2 * (t * Unit) /\ t * Unit \in Int /\ (t + 1) * Unit = t * Unit + Unit
    BY <1>1, <2>1
  <2>3. lo <= hi => t * Unit <= hi /\ lo < (t + 1) * Unit
    BY <1>1, <1>2, <2>1, <2>2
  <2>4. CASE t <= size - 1
    <3>1. c = t
      BY <1>3, <2>1, <2>4 DEF Clamp
    <3> QED BY <2>1, <2>3, <2>4, <3>1 DEF Shows, Reaches, c
  <2>5. CASE t > size - 1
    <3>1. c = size - 1
      BY <1>3, <2>1, <2>5 DEF Clamp
    <3>2. (size - 1) * Unit <= t * Unit
      BY <2>1, <2>5, <1>1
    <3>3. (size - 1) * Unit \in Int /\ size * Unit = (size - 1 + 1) * Unit
      BY <1>1
    <3> QED BY <1>1, <2>2, <2>3, <3>1, <3>2, <3>3 DEF Shows, Reaches, c
  <2> QED BY <2>1, <2>4, <2>5
<1>5. CASE s < 0
  <2>1. t = -((-s) \div (2 * Unit)) /\ -s \in Nat
    BY <1>2, <1>5 DEF Truncated
  <2>2. (-s) \div (2 * Unit) \in Nat
    BY <1>1, <2>1, Division
  <2>3. t \in Int /\ t <= 0
    BY <2>1, <2>2
  <2>4. c = 0
    BY <1>3, <2>3 DEF Clamp
  <2>5. 0 * Unit = 0 /\ (0 + 1) * Unit = Unit
    BY <1>1
  <2> QED BY <1>1, <1>2, <1>5, <2>4, <2>5 DEF Shows, Reaches, c
<1> QED BY <1>2, <1>4, <1>5

\* The resampling reads inside the image, the lookup inside the depth image and
\* inside the box where it can.
LEMMA LooksInside == IInv => LookupInside
<1> SUFFICES ASSUME IInv PROVE LookupInside
  OBVIOUS
<1>1. \A c \in Cells : input[c] \in Pixels
  <2>1. 0 \in Pixels
    BY InputAssumption, PixelInImage DEF Pixels
  <2> QED BY <2>1, SourceIsPixel DEF IInv, InputInv
<1>2. ASSUME NEW a \in Anchors, NEW b, b = BoxOf(a)
      PROVE  /\ Pixel(b) \in Pixels
             /\ Shows(b.x_min, b.x_max, Width) => Reaches(b.x_min, b.x_max, Column(b))
             /\ Shows(b.y_min, b.y_max, Height) => Reaches(b.y_min, b.y_max, Row(b))
  <2>1. IsFloat(b.x_min) /\ IsFloat(b.x_max) /\ IsFloat(b.y_min) /\ IsFloat(b.y_max)
    <3>1. raw[a].box \in Boxes
      BY DEF IInv, TypeOK
    <3> QED BY <1>2, <3>1, Corners, Zenon DEF BoxOf
  <2>2. /\ Column(b) \in 0 .. Width - 1
        /\ Shows(b.x_min, b.x_max, Width) => Reaches(b.x_min, b.x_max, Column(b))
    BY <2>1, InputAssumption, CentreInside DEF Column
  <2>3. /\ Row(b) \in 0 .. Height - 1
        /\ Shows(b.y_min, b.y_max, Height) => Reaches(b.y_min, b.y_max, Row(b))
    BY <2>1, InputAssumption, CentreInside DEF Row
  <2>4. Pixel(b) \in Pixels
    BY <2>2, <2>3, PixelInImage, InputAssumption DEF Pixel, Pixels
  <2> QED BY <2>2, <2>3, <2>4
<1> QED BY <1>1, <1>2, Zenon DEF LookupInside

\* That holds for every size and every box.
THEOREM LookupIsInside == Spec => []LookupInside
BY LooksInside, Invariance, PTL

\* Facts about absolute values.
LEMMA AbsSum ==
    ASSUME NEW m \in Int, NEW n \in Int
    PROVE  /\ Abs(m) \in Nat /\ Abs(m + n) <= Abs(m) + Abs(n)
           /\ Abs(m) <= Abs(n) + Abs(m - n)
           /\ m <= Abs(m) /\ -m <= Abs(m)
BY DEF Abs

LEMMA AbsProduct ==
    ASSUME NEW d \in Nat, NEW m \in Int
    PROVE  d * m \in Int /\ Abs(d * m) = d * Abs(m)
<1>1. CASE m >= 0
  <2>1. d * m >= 0 /\ d * m \in Int
    BY <1>1
  <2> QED BY <1>1, <2>1 DEF Abs
<1>2. CASE m < 0
  <2>1. -m \in Nat /\ d * (-m) \in Nat
    BY <1>2
  <2>2. d * m = -(d * (-m)) /\ d * m \in Int
    OBVIOUS
  <2> QED BY <1>2, <2>1, <2>2 DEF Abs
<1> QED BY <1>1, <1>2

\* Multiplying an inequality of natural numbers.
LEMMA Times ==
    ASSUME NEW d \in Nat, NEW m \in Nat, NEW n \in Nat, m <= n
    PROVE  d * m <= d * n /\ d * m \in Nat /\ d * n \in Nat
OBVIOUS

\* The errors of the scale, of the two corners c1 and c2, and of their sum s,
\* each by 1 / p at most, add up to seven halves of the box.
LEMMA ErrorBound ==
    ASSUME NEW p \in Nat \ {0}, NEW net \in Nat \ {0}, NEW half \in Nat, NEW A \in Nat,
           NEW n1 \in Int, NEW n2 \in Int, NEW c1 \in Int, NEW c2 \in Int, NEW s \in Int,
           NEW k \in Nat, n1 + n2 = 4 * k,
           p * Abs(2 * (net * half) - A) <= A,
           p * Abs(c1 - n1 * half) <= Abs(n1) * half,
           p * Abs(c2 - n2 * half) <= Abs(n2) * half,
           p * Abs(s - (c1 + c2)) <= Abs(c1 + c2)
    PROVE  2 * (p * Abs(net * s - 2 * (k * A))) <= 7 * ((Abs(n1) + Abs(n2)) * A)
<1> DEFINE e1 == c1 - n1 * half
           e2 == c2 - n2 * half
           e3 == s - (c1 + c2)
           e4 == 2 * (net * half) - A
           a1 == Abs(n1)
           a2 == Abs(n2)
           D == net * s - 2 * (k * A)
<1>1. /\ n1 * half \in Int /\ n2 * half \in Int /\ net * half \in Nat /\ k * A \in Nat
      /\ e1 \in Int /\ e2 \in Int /\ e3 \in Int /\ e4 \in Int
      /\ a1 \in Nat /\ a2 \in Nat /\ net * s \in Int /\ D \in Int
  BY DEF Abs
\* The error in cells is made up of the four.
<1>2. D = net * (e1 + e2 + e3) + 2 * (k * e4)
  <2>1. s = e1 + e2 + e3 + (n1 * half + n2 * half)
    BY <1>1
  <2>2. n1 * half + n2 * half = 4 * (k * half)
    <3>1. n1 * half + n2 * half = (n1 + n2) * half
      OBVIOUS
    <3> QED BY <3>1
  <2>3. k * half \in Nat /\ net * (k * half) = k * (net * half)
    OBVIOUS
  <2>4. net * s = net * (e1 + e2 + e3) + 4 * (k * (net * half))
    <3> DEFINE e == e1 + e2 + e3
               g == k * half
    <3>1. e \in Int /\ g \in Nat /\ s = e + 4 * g
      BY <1>1, <2>1, <2>2, <2>3
    <3>2. net * g = k * (net * half)
      BY <2>3
    <3> HIDE DEF e, g
    <3>3. net * (e + 4 * g) = net * e + 4 * (net * g)
      BY <3>1
    <3> QED BY <3>1, <3>2, <3>3 DEF e
  <2>5. k * e4 = 2 * (k * (net * half)) - k * A
    <3> DEFINE g == net * half
    <3>1. g \in Nat /\ e4 = 2 * g - A
      BY <1>1
    <3> HIDE DEF g
    <3>2. k * (2 * g - A) = 2 * (k * g) - k * A
      BY <3>1
    <3> QED BY <3>1, <3>2 DEF g
  <2>6. net * (e1 + e2 + e3) \in Int /\ k * (net * half) \in Int /\ k * A \in Int /\ k * e4 \in Int
    BY <1>1
  <2> QED BY <2>4, <2>5, <2>6
<1> HIDE DEF D
<1>3. p * Abs(e1) <= a1 * half /\ p * Abs(e2) <= a2 * half /\ p * Abs(e3) <= Abs(c1 + c2) /\ p * Abs(e4) <= A
  OBVIOUS
<1>4. c1 = n1 * half + e1 /\ c2 = n2 * half + e2
  BY <1>1
<1> HIDE DEF e1, e2, e3, e4
<1>5. Abs(n1 * half) = a1 * half /\ Abs(n2 * half) = a2 * half /\ a1 * half \in Nat /\ a2 * half \in Nat
  <2>1. n1 * half = half * n1 /\ n2 * half = half * n2 /\ a1 * half = half * a1 /\ a2 * half = half * a2
    BY <1>1
  <2>2. Abs(half * n1) = half * Abs(n1) /\ Abs(half * n2) = half * Abs(n2)
    BY AbsProduct
  <2>3. a1 * half \in Nat /\ a2 * half \in Nat
    BY <1>1
  <2> QED BY <2>1, <2>2, <2>3
<1> HIDE DEF a1, a2
<1>6. \A m \in Int : Abs(m) \in Nat /\ Abs(m) <= p * Abs(m)
  <2> TAKE m \in Int
  <2>1. Abs(m) \in Nat
    BY DEF Abs
  <2> DEFINE n == Abs(m)
  <2> HIDE DEF n
  <2>2. n \in Nat
    BY <2>1 DEF n
  <2>3. n <= p * n
    BY <2>2
  <2> QED BY <2>2, <2>3 DEF n
<1>7. net * half <= A
  <2>1. Abs(e4) \in Nat /\ Abs(e4) <= A
    <3>1. p * Abs(e4) \in Nat
      BY <1>1, <1>6
    <3> QED BY <1>1, <1>3, <1>6, <3>1
  <2> DEFINE g == net * half
  <2>2. g \in Nat /\ e4 = 2 * g - A
    BY <1>1 DEF e4
  <2> HIDE DEF g
  <2>3. 2 * g <= A + Abs(e4)
    BY <2>2 DEF Abs
  <2>4. g <= A
    BY <2>1, <2>2, <2>3
  <2> QED BY <2>4 DEF g
<1>8. Abs(c1 + c2) <= 2 * (a1 * half) + 2 * (a2 * half) /\ Abs(c1 + c2) \in Nat
  <2>1. /\ Abs(e1) \in Nat /\ Abs(e1) <= a1 * half
        /\ Abs(e2) \in Nat /\ Abs(e2) <= a2 * half
    <3>1. p * Abs(e1) \in Nat /\ p * Abs(e2) \in Nat
      BY <1>1, <1>6
    <3> QED BY <1>1, <1>3, <1>5, <1>6, <3>1
  <2>2. /\ Abs(c1) <= a1 * half + Abs(e1) /\ Abs(c2) <= a2 * half + Abs(e2)
        /\ Abs(c1) \in Nat /\ Abs(c2) \in Nat
    BY <1>1, <1>4, <1>5, AbsSum
  <2>3. Abs(c1 + c2) <= Abs(c1) + Abs(c2) /\ Abs(c1 + c2) \in Nat
    BY AbsSum
  <2> QED BY <1>5, <2>1, <2>2, <2>3
<1> DEFINE B == a1 + a2
           e == Abs(e1) + Abs(e2) + Abs(e3)
\* In parts, the corners and their sum contribute three times the box.
<1>9. p * e <= 3 * (B * half) /\ B * half \in Nat /\ e \in Nat
  <2>1. B * half = a1 * half + a2 * half
    BY <1>1
  <2>2. Abs(e1) \in Nat /\ Abs(e2) \in Nat /\ Abs(e3) \in Nat
    BY <1>1, <1>6
  <2>3. p * e = p * Abs(e1) + p * Abs(e2) + p * Abs(e3)
    BY <2>2
  <2>4. p * Abs(e1) \in Nat /\ p * Abs(e2) \in Nat /\ p * Abs(e3) \in Nat
    BY <2>2
  <2>5. p * Abs(e1) + p * Abs(e2) + p * Abs(e3) <= 3 * (a1 * half + a2 * half)
    BY <1>3, <1>5, <1>8, <2>4
  <2>6. a1 * half + a2 * half \in Nat
    BY <1>5
  <2> QED BY <2>1, <2>2, <2>3, <2>5, <2>6
<1>10. B \in Nat /\ 4 * k <= B
  <2>1. n1 <= a1 /\ n2 <= a2
    BY DEF a1, a2, Abs
  <2> QED BY <1>1, <2>1
<1>11. Abs(D) <= net * e + 2 * (k * Abs(e4))
  <2>1. Abs(e1 + e2 + e3) <= e /\ e1 + e2 + e3 \in Int /\ Abs(e1 + e2 + e3) \in Nat
    BY <1>1 DEF Abs
  <2> DEFINE f == e1 + e2 + e3
  <2>2. Abs(net * f) = net * Abs(f) /\ net * f \in Int
    BY <2>1, AbsProduct
  <2>3. Abs(k * e4) = k * Abs(e4) /\ k * e4 \in Int
    BY <1>1, AbsProduct
  <2>4. net * Abs(f) <= net * e
    BY <1>9, <2>1, Times
  <2>5. D = net * f + 2 * (k * e4)
    BY <1>2
  <2> HIDE DEF e, f
  <2>6. net * e \in Int /\ net * Abs(f) \in Int /\ k * Abs(e4) \in Int
    BY <1>1, <1>6, <1>9, <2>1 DEF f
  <2>7. Abs(D) <= Abs(net * f) + 2 * Abs(k * e4)
    <3> DEFINE x == net * f
               y == k * e4
    <3>1. x \in Int /\ y \in Int /\ D = x + 2 * y
      BY <2>2, <2>3, <2>5
    <3> HIDE DEF x, y
    <3>2. Abs(D) <= Abs(x) + 2 * Abs(y)
      BY <3>1 DEF Abs
    <3> QED BY <3>2 DEF x, y
  <2>8. Abs(D) \in Nat /\ Abs(net * f) \in Nat /\ Abs(k * e4) \in Nat
    BY <1>1, <2>2, <2>3 DEF Abs
  <2>9. net * Abs(f) + 2 * (k * Abs(e4)) <= net * e + 2 * (k * Abs(e4))
    BY <2>4, <2>6
  <2>10. Abs(D) <= net * Abs(f) + 2 * (k * Abs(e4))
    BY <2>2, <2>3, <2>7, Zenon
  <2> QED BY <2>6, <2>8, <2>9, <2>10
<1> HIDE DEF B, e
\* In cells, at most three times, and the scale another half.
<1>12. p * (net * e) <= 3 * (B * A) /\ B * A \in Nat
  <2>1. p * (net * e) = net * (p * e) /\ p * e \in Nat
    BY <1>9
  <2>2. net * (p * e) <= net * (3 * (B * half))
    BY <1>9, <2>1, Times
  <2>3. net * (3 * (B * half)) = 3 * (B * (net * half))
    BY <1>10
  <2>4. B * (net * half) <= B * A /\ B * A \in Nat /\ B * (net * half) \in Nat
    BY <1>1, <1>7, <1>10, Times
  <2>5. net * (p * e) \in Nat
    BY <2>1
  <2> QED BY <2>1, <2>2, <2>3, <2>4, <2>5
<1>13. 4 * (p * (k * Abs(e4))) <= B * A
  <2>1. Abs(e4) \in Nat /\ p * Abs(e4) \in Nat
    BY <1>1, <1>6
  <2> DEFINE x == Abs(e4)
  <2> HIDE DEF x
  <2>2. p * (k * x) = k * (p * x) /\ x \in Nat /\ p * x \in Nat /\ p * x <= A
    BY <1>3, <2>1 DEF x
  <2>3. k * (p * x) <= k * A /\ k * A \in Nat /\ k * (p * x) \in Nat
    BY <2>2, Times
  <2>4. 4 * (k * A) <= B * A
    <3>1. A * (4 * k) <= A * B
      BY <1>10, Times
    <3> QED BY <1>10, <3>1
  <2>5. p * (k * x) = p * (k * Abs(e4))
    BY DEF x
  <2> QED BY <1>12, <2>2, <2>3, <2>4, <2>5
<1>14. p * Abs(D) <= p * (net * e) + 2 * (p * (k * Abs(e4)))
  <2>1. Abs(D) \in Nat /\ Abs(e4) \in Nat
    BY <1>1, <1>6
  <2> DEFINE x == net * e
             y == k * Abs(e4)
  <2>2. x \in Nat /\ y \in Nat
    BY <1>9, <2>1
  <2>3. Abs(D) <= x + 2 * y
    BY <1>11
  <2> HIDE DEF x, y
  <2>4. p * Abs(D) <= p * (x + 2 * y)
    BY <2>1, <2>2, <2>3, Times
  <2>5. p * (x + 2 * y) = p * x + 2 * (p * y)
    BY <2>2
  <2> QED BY <2>4, <2>5 DEF x, y
<1>15. p * Abs(D) \in Int /\ p * (net * e) \in Int /\ p * (k * Abs(e4)) \in Int
  BY <1>1, <1>6, <1>9
<1>16. 2 * (p * Abs(D)) <= 7 * (B * A)
  BY <1>12, <1>13, <1>14, <1>15
<1> QED BY <1>16 DEF B, D, a1, a2

\* Less than a cell off, the middle truncates to the pixel of cell k, unless k
\* is on the edge of a pixel.
LEMMA NearEdge ==
    ASSUME NEW net \in Nat \ {0}, NEW size \in Nat \ {0}, NEW k \in 0 .. net - 1, NEW s \in Int,
           Abs(net * s - 2 * (k * (size * Unit))) < 2 * Unit
    PROVE  Clamp(Truncated(s, 2 * Unit), 0, size - 1) \in Near((k * size) \div net, k, net, size)
<1> DEFINE X == k * size
           q == X \div net
           r == X % net
           U == 2 * Unit
           t == Truncated(s, U)
<1>1. U \in Nat \ {0} /\ X \in Nat /\ net * s \in Int /\ U * X \in Int
  BY FloatAssumption
<1>2. 2 * (k * (size * Unit)) = U * X
  BY FloatAssumption
<1>3. net * s < U * X + U /\ U * X - U < net * s
  BY <1>1, <1>2 DEF Abs
<1>4. q \in 0 .. size - 1
  BY Resampled
<1>5. X = net * q + r /\ r \in 0 .. net - 1
  BY <1>1
<1>6. Near(q, k, net, size) = {q} \cup (IF r = 0 THEN {q - 1} ELSE {})
  BY DEF Near
<1> HIDE DEF X, q, r, U
<1>7. U * X = net * (U * q) + U * r /\ U * q \in Nat /\ net * (U * q) \in Nat /\ U * r \in Nat
  <2>1. q \in Nat /\ r \in Nat
    BY <1>4, <1>5
  <2>2. U * (net * q + r) = net * (U * q) + U * r
    BY <1>1, <2>1
  <2> QED BY <1>1, <1>5, <2>1, <2>2
<1>8. s < U * q + U
  <2>1. U * r + U <= net * U
    <3>1. U * (r + 1) <= U * net
      BY <1>1, <1>5, Times
    <3>2. U * (r + 1) = U * r + U /\ U * net = net * U
      BY <1>1, <1>5
    <3> QED BY <3>1, <3>2
  <2>2. net * s < net * (U * q) + net * U
    BY <1>1, <1>3, <1>7, <2>1
  <2> DEFINE v == U * q + U
  <2>3. v \in Nat /\ net * v = net * (U * q) + net * U
    BY <1>1, <1>7
  <2> HIDE DEF v
  <2>4. net * s < net * v
    BY <2>2, <2>3
  <2>5. s < v
    BY <2>3, <2>4
  <2> QED BY <2>5 DEF v
<1>9. CASE r > 0
  <2>1. U * q < s
    <3>1. U <= U * r
      BY <1>1, <1>5, <1>9
    <3> DEFINE v == U * q
    <3>2. net * v < net * s /\ v \in Nat
      BY <1>1, <1>3, <1>7, <3>1
    <3> HIDE DEF v
    <3>3. v < s
      BY <3>2
    <3> QED BY <3>3 DEF v
  <2>2. s \in Nat /\ s \div U = q
    <3>1. s \in Nat
      BY <1>7, <2>1
    <3> QED BY <1>1, <1>4, <1>8, <2>1, <3>1, Quotient
  <2>3. t = q
    BY <2>2 DEF Truncated
  <2>4. Clamp(t, 0, size - 1) = q
    BY <1>4, <2>3 DEF Clamp
  <2> QED BY <1>6, <2>4 DEF U, q, X
<1>10. CASE r = 0
  <2>1. U * q - U < s
    <3>1. U <= net * U
      BY <1>1
    <3>2. net * (U * q) - net * U < net * s
      <4>1. U * r = 0 /\ net * U \in Nat
        BY <1>1, <1>10
      <4> QED BY <1>1, <1>3, <1>7, <3>1, <4>1
    <3> DEFINE v == U * q - U
    <3>3. v \in Int /\ net * v = net * (U * q) - net * U
      BY <1>1, <1>7
    <3> HIDE DEF v
    <3>4. net * v < net * s
      BY <3>2, <3>3
    <3>5. v < s
      BY <3>3, <3>4
    <3> QED BY <3>5 DEF v
  <2>2. CASE q = 0
    <3>1. U * q = 0
      BY <1>1, <2>2
    <3>2. t = 0
      <4>1. CASE s >= 0
        <5>1. s \in Nat /\ s < U * 0 + U /\ U * 0 <= s
          BY <1>1, <1>8, <2>2, <3>1, <4>1
        <5>2. s \div U = 0
          BY <1>1, <5>1, Quotient
        <5> QED BY <4>1, <5>2 DEF Truncated
      <4>2. CASE s < 0
        <5>1. -s \in Nat /\ -s < U * 0 + U /\ U * 0 <= -s
          BY <1>1, <2>1, <3>1, <4>2
        <5>2. (-s) \div U = 0
          BY <1>1, <5>1, Quotient
        <5> QED BY <4>2, <5>2 DEF Truncated
      <4> QED BY <4>1, <4>2
    <3>3. Clamp(t, 0, size - 1) = q
      BY <1>4, <2>2, <3>2 DEF Clamp
    <3> QED BY <1>6, <3>3 DEF U, q, X
  <2>3. CASE q # 0
    <3>1. q - 1 \in Nat /\ U * (q - 1) = U * q - U /\ q \in Nat /\ U * (q - 1) \in Nat
      BY <1>1, <1>4, <2>3
    <3>2. s \in Nat
      BY <2>1, <3>1
    <3>3. t = s \div U
      BY <3>2 DEF Truncated
    <3>4. CASE s < U * q
      <4>1. s \div U = q - 1
        <5> DEFINE v == q - 1
        <5>1. v \in Nat /\ U * v <= s /\ s < U * v + U
          BY <1>1, <2>1, <3>1, <3>2, <3>4
        <5> HIDE DEF v
        <5>2. s \div U = v
          BY <1>1, <3>2, <5>1, Quotient
        <5> QED BY <5>2 DEF v
      <4>2. Clamp(t, 0, size - 1) = q - 1
        BY <1>4, <3>1, <3>3, <4>1 DEF Clamp
      <4> QED BY <1>6, <1>10, <4>2 DEF U, q, X
    <3>5. CASE U * q <= s
      <4>1. s \div U = q
        BY <1>1, <1>8, <3>1, <3>2, <3>5, Quotient
      <4>2. Clamp(t, 0, size - 1) = q
        BY <1>4, <3>3, <4>1 DEF Clamp
      <4> QED BY <1>6, <4>2 DEF U, q, X
    <3> QED BY <1>7, <3>2, <3>4, <3>5
  <2> QED BY <2>2, <2>3
<1> QED BY <1>5, <1>9, <1>10

\* Scaling an answer to the image undoes the resampling of its centre but for
\* centres on the edge of a pixel.
LEMMA ScaledBack ==
    ASSUME NEW net \in Nat \ {0}, NEW size \in Nat \ {0}, NEW k \in 0 .. net - 1,
           NEW w \in Int, NEW half \in Nat,
           Precision * Abs(2 * net * half - size * Unit) <= size * Unit,
           Fits(2 * k - w, half), Fits(2 * k + w, half), Small(2 * k - w, 2 * k + w, size)
    PROVE  Centre(Float((2 * k - w) * half), Float((2 * k + w) * half), size)
               \in Near((k * size) \div net, k, net, size)
<1> DEFINE n1 == 2 * k - w
           n2 == 2 * k + w
           c1 == Float(n1 * half)
           c2 == Float(n2 * half)
           s == Float(c1 + c2)
           A == size * Unit
           B == Abs(n1) + Abs(n2)
           D == net * s - 2 * (k * A)
<1>1. Precision \in Nat \ {0} /\ Unit \in Nat \ {0} /\ A \in Nat
  BY FloatAssumption
<1>2. n1 \in Int /\ n2 \in Int /\ n1 + n2 = 4 * k /\ k \in Nat /\ B \in Nat
  BY DEF Abs
<1>3. /\ IsFloat(c1) /\ Precision * Abs(c1 - n1 * half) <= Abs(n1) * half
      /\ IsFloat(c2) /\ Precision * Abs(c2 - n2 * half) <= Abs(n2) * half
  BY <1>2, Corner
<1>4. 7 * B * size < 4 * Precision
  BY DEF Small
<1>5. 2 * net * half = 2 * (net * half)
  OBVIOUS
<1>6. Centre(c1, c2, size) = Clamp(Truncated(s, 2 * Unit), 0, size - 1)
  BY DEF Centre
<1> HIDE DEF n1, n2, c1, c2
<1>7. c1 \in Int /\ c2 \in Int /\ Abs(c1 + c2) <= MaxPart
  BY <1>3, Middle DEF IsFloat
<1>8. s \in Int /\ Precision * Abs(s - (c1 + c2)) <= Abs(c1 + c2)
  BY <1>7, Rounded
<1> HIDE DEF s
<1>9. Precision * Abs(2 * (net * half) - A) <= A
  BY <1>5
<1> HIDE DEF A
<1>10. 2 * (Precision * Abs(D)) <= 7 * (B * A)
  BY <1>1, <1>2, <1>3, <1>7, <1>8, <1>9, ErrorBound DEF B, D
<1>11. D \in Int /\ Abs(D) \in Nat
  <2>1. net * s \in Int /\ k * A \in Int
    BY <1>1, <1>2, <1>8
  <2> QED BY <2>1 DEF Abs
<1> HIDE DEF B, D
<1>12. 7 * (B * A) < (2 * Unit) * (2 * Precision)
  <2>1. 7 * (B * A) = (7 * B * size) * Unit
    BY <1>1, <1>2 DEF A
  <2> DEFINE x == 7 * B * size
  <2>2. x \in Nat /\ x < 4 * Precision
    BY <1>2, <1>4
  <2> HIDE DEF x
  <2>3. x * Unit < (4 * Precision) * Unit
    BY <1>1, <2>2
  <2>4. (4 * Precision) * Unit = (2 * Unit) * (2 * Precision)
    BY <1>1
  <2> QED BY <2>1, <2>3, <2>4 DEF x
<1>13. Abs(D) < 2 * Unit
  <2> DEFINE x == Abs(D)
             p == 2 * Precision
             u == 2 * Unit
  <2>1. x \in Nat /\ p \in Nat \ {0} /\ u \in Nat
    BY <1>1, <1>11
  <2>2. 2 * (Precision * x) = p * x /\ B * A \in Int
    BY <1>1, <1>2, <2>1
  <2>3. p * x < u * p
    <3>1. u * p \in Int /\ p * x \in Int
      BY <1>1, <2>1
    <3> HIDE DEF u, p
    <3> QED BY <1>10, <1>12, <2>2, <3>1 DEF u, p
  <2> HIDE DEF x, p, u
  <2>4. x < u
    BY <2>1, <2>3
  <2> QED BY <2>4 DEF x, u
<1>14. Clamp(Truncated(s, 2 * Unit), 0, size - 1) \in Near((k * size) \div net, k, net, size)
  BY <1>8, <1>13, NearEdge DEF D, A
<1> QED BY <1>6, <1>14 DEF c1, c2, n1, n2

\* What the remainder of C++ is for natural numbers.
LEMMA Remainder ==
    ASSUME NEW n \in Nat, NEW d \in Nat \ {0}
    PROVE  n = d * (n \div d) + (n % d)
BY SMTT(30)

\* A pixel has one row and one column.
LEMMA RowAndColumn ==
    ASSUME NEW w \in Nat \ {0}, NEW r \in Nat, NEW c \in 0 .. w - 1
    PROVE  (r * w + c) \div w = r /\ (r * w + c) % w = c
<1> DEFINE n == r * w + c
<1>1. n \in Nat /\ n = w * r + c /\ w * r \in Nat
  <2>1. r * w \in Nat /\ w * r = r * w
    OBVIOUS
  <2> QED BY <2>1
<1> HIDE DEF n
<1>2. n \div w = r
  BY <1>1, Quotient
<1>3. n = w * (n \div w) + (n % w)
  BY <1>1, Remainder
<1>4. n % w \in 0 .. w - 1
  BY <1>1
<1>5. n % w = c
  BY <1>1, <1>2, <1>3, <1>4
<1> QED BY <1>2, <1>5 DEF n

\* The depth of a detection is read at the pixel the network saw at its centre,
\* or, for a centre exactly on the edge of a pixel, at the one before it, for
\* every size of the image and of the network's input and every way of rounding
\* that is as precise as the boxes ask for.
THEOREM DepthIsWhereSeen == Spec => []DepthWhereSeen
<1>1. IInv => DepthWhereSeen
  <2> SUFFICES ASSUME IInv, pc # "preprocess", NEW a \in Anchors, NEW b, b = raw[a].box,
                      <<b.cx, b.cy>> \in Cells, Precise(b)
               PROVE  /\ Column(BoxOf(a)) \in Near(input[<<b.cx, b.cy>>] % Width, b.cx, NetW, Width)
                      /\ Row(BoxOf(a)) \in Near(input[<<b.cx, b.cy>>] \div Width, b.cy, NetH, Height)
    BY Zenon DEF DepthWhereSeen
  <2>1. /\ b \in Boxes /\ b.cx \in 0 .. NetW - 1 /\ b.cy \in 0 .. NetH - 1
        /\ b.w \in Int /\ b.h \in Int
    BY InputAssumption DEF IInv, TypeOK, Cells
  <2>2. input[<<b.cx, b.cy>>] = SrcRow(b.cy) * Width + SrcCol(b.cx)
    BY DEF IInv, InputInv, Source
  <2>3. SrcCol(b.cx) \in 0 .. Width - 1 /\ SrcRow(b.cy) \in Nat /\ Width \in Nat \ {0}
    <3>1. SrcRow(b.cy) \in 0 .. Height - 1
      BY <2>1, InputAssumption, Resampled DEF SrcRow
    <3>2. SrcCol(b.cx) \in 0 .. Width - 1
      BY <2>1, InputAssumption, Resampled DEF SrcCol
    <3> QED BY <3>1, <3>2, InputAssumption
  <2>4. /\ input[<<b.cx, b.cy>>] % Width = SrcCol(b.cx)
        /\ input[<<b.cx, b.cy>>] \div Width = SrcRow(b.cy)
    <3>1. /\ (SrcRow(b.cy) * Width + SrcCol(b.cx)) % Width = SrcCol(b.cx)
          /\ (SrcRow(b.cy) * Width + SrcCol(b.cx)) \div Width = SrcRow(b.cy)
      BY <2>3, RowAndColumn
    <3> QED BY <2>2, <3>1, Zenon
  <2>5. /\ BoxOf(a).x_min = Float((2 * b.cx - b.w) * HalfCol)
        /\ BoxOf(a).x_max = Float((2 * b.cx + b.w) * HalfCol)
        /\ BoxOf(a).y_min = Float((2 * b.cy - b.h) * HalfRow)
        /\ BoxOf(a).y_max = Float((2 * b.cy + b.h) * HalfRow)
    BY Zenon DEF BoxOf, Scaled
  <2>6. Column(BoxOf(a)) \in Near(SrcCol(b.cx), b.cx, NetW, Width)
    <3>1. /\ HalfCol \in Nat /\ Precision * Abs(2 * NetW * HalfCol - Width * Unit) <= Width * Unit
          /\ Fits(2 * b.cx - b.w, HalfCol) /\ Fits(2 * b.cx + b.w, HalfCol)
      BY <2>1, FloatAssumption
    <3>2. NetW \in Nat \ {0} /\ Width \in Nat \ {0}
      BY InputAssumption
    <3>3. Small(2 * b.cx - b.w, 2 * b.cx + b.w, Width)
      BY DEF Precise
    <3>4. Centre(Float((2 * b.cx - b.w) * HalfCol), Float((2 * b.cx + b.w) * HalfCol), Width)
              \in Near((b.cx * Width) \div NetW, b.cx, NetW, Width)
      BY <2>1, <3>1, <3>2, <3>3, ScaledBack
    <3> QED BY <2>5, <3>4, Zenon DEF Column, SrcCol
  <2>7. Row(BoxOf(a)) \in Near(SrcRow(b.cy), b.cy, NetH, Height)
    <3>1. /\ HalfRow \in Nat /\ Precision * Abs(2 * NetH * HalfRow - Height * Unit) <= Height * Unit
          /\ Fits(2 * b.cy - b.h, HalfRow) /\ Fits(2 * b.cy + b.h, HalfRow)
      BY <2>1, FloatAssumption
    <3>2. NetH \in Nat \ {0} /\ Height \in Nat \ {0}
      BY InputAssumption
    <3>3. Small(2 * b.cy - b.h, 2 * b.cy + b.h, Height)
      BY DEF Precise
    <3>4. Centre(Float((2 * b.cy - b.h) * HalfRow), Float((2 * b.cy + b.h) * HalfRow), Height)
              \in Near((b.cy * Height) \div NetH, b.cy, NetH, Height)
      BY <2>1, <3>1, <3>2, <3>3, ScaledBack
    <3> QED BY <2>5, <3>4, Zenon DEF Row, SrcRow
  <2> QED BY <2>4, <2>6, <2>7
<1> QED BY <1>1, Invariance, PTL

----------------------------------------------------------------------------
(* The distances *)

\* The detections that backproject() has looked up.
LookedUp ==
    IF pc = "done" THEN Kept
    ELSE IF pc = "backproject" THEN {keep[n] : n \in {m \in DOMAIN keep : m < pos}}
    ELSE {}

DistanceInv ==
    /\ depth \in [Pixels -> Depths] \cup {NoDepth}
    /\ DOMAIN world_z = Anchors
    /\ \A a \in Anchors :
           world_z[a] = IF a \in LookedUp /\ Usable(a) THEN depth[Pixel(BoxOf(a))] ELSE 0

\* A step that looks up nothing changes no distance.
LEMMA SameDistances ==
    ASSUME DistanceInv, LookedUp' = LookedUp, UNCHANGED <<raw, depth, world_z>>
    PROVE  DistanceInv'
<1>1. \A a : BoxOf(a)' = BoxOf(a)
  BY DEF BoxOf
<1>2. \A a : Usable(a)' <=> Usable(a)
  BY <1>1 DEF Usable
<1> QED BY <1>1, <1>2 DEF DistanceInv

\* One iteration of backproject() looks up one detection, and keeps the reading
\* if it is one.
LEMMA BackprojectStep ==
    ASSUME IInv, DistanceInv, Backproject
    PROVE  DistanceInv'
<1> DEFINE k == keep[pos]
           p == Pixel(BoxOf(k))
<1>1. pc = "backproject" /\ pc' = "backproject" /\ pos' = pos + 1
      /\ UNCHANGED <<raw, depth, keep>>
  BY DEF Backproject
<1>2. /\ keep \in Seq(Candidates) /\ pos \in Nat \ {0} /\ pos \in DOMAIN keep
      /\ Candidates \subseteq Anchors
  BY DEF IInv, TypeOK, Backproject, Candidates
<1>3. LookedUp' = LookedUp \cup {k}
  <2>1. {m \in DOMAIN keep : m < pos + 1} = {m \in DOMAIN keep : m < pos} \cup {pos}
    BY <1>2
  <2>2. LookedUp = {keep[n] : n \in {m \in DOMAIN keep : m < pos}}
    BY <1>1 DEF LookedUp
  <2>3. LookedUp' = {keep[n] : n \in {m \in DOMAIN keep : m < pos + 1}}
    BY <1>1 DEF LookedUp
  <2> QED BY <2>1, <2>2, <2>3
<1>4. k \in Anchors /\ p \in Pixels
  <2>1. k \in Anchors
    BY <1>2
  <2> QED BY <2>1, LooksInside DEF LookupInside
<1>5. \A a : BoxOf(a)' = BoxOf(a)
  BY <1>1 DEF BoxOf
<1>6. \A a : Usable(a)' <=> Usable(a)
  BY <1>1, <1>5 DEF Usable
<1> HIDE DEF p, k
<1>7. IF Usable(k) THEN world_z' = [world_z EXCEPT ![k] = depth[p]] ELSE world_z' = world_z
  <2>1. CASE depth = NoDepth
    BY <2>1 DEF Backproject, Usable
  <2>2. CASE depth # NoDepth
    <3>1. depth \in [Pixels -> Depths]
      BY <2>2 DEF DistanceInv
    <3>2. Reading(p) = {depth[p]} /\ depth[p] \in Int \cup {NotFinite}
      BY <1>4, <3>1, InputAssumption DEF Reading
    <3>3. IF depth[p] = NotFinite \/ depth[p] <= 0
          THEN UNCHANGED world_z
          ELSE world_z' = [world_z EXCEPT ![k] = depth[p]]
      BY <2>2, <3>2 DEF Backproject, p, k
    <3>4. Usable(k) <=> ~(depth[p] = NotFinite \/ depth[p] <= 0)
      BY <2>2, <3>2 DEF Usable, p
    <3> QED BY <3>3, <3>4
  <2> QED BY <2>1, <2>2
<1>8. ASSUME NEW a \in Anchors
      PROVE  world_z'[a] = IF a \in LookedUp' /\ Usable(a) THEN depth[Pixel(BoxOf(a))] ELSE 0
  <2>1. world_z[a] = IF a \in LookedUp /\ Usable(a) THEN depth[Pixel(BoxOf(a))] ELSE 0
    BY DEF DistanceInv
  <2>2. CASE a = k
    <3>1. world_z'[k] = IF Usable(k) THEN depth[p] ELSE world_z[k]
      BY <1>4, <1>7 DEF DistanceInv
    <3> QED BY <1>3, <2>1, <2>2, <3>1 DEF p
  <2>3. CASE a # k
    <3>1. world_z'[a] = world_z[a]
      BY <1>7, <2>3 DEF DistanceInv
    <3> QED BY <1>3, <2>1, <2>3, <3>1
  <2> QED BY <2>2, <2>3
<1>9. DOMAIN world_z' = Anchors
  BY <1>7 DEF DistanceInv
<1> QED BY <1>1, <1>5, <1>6, <1>8, <1>9 DEF DistanceInv

\* A distance is reported for the detections whose pixel has a reading, and it
\* is that reading, whatever was suppressed before and however many are kept.
THEOREM DistanceIsReading == Spec => []DistanceIsRead
<1>1. Init => DistanceInv
  <2> SUFFICES ASSUME Init PROVE DistanceInv
    OBVIOUS
  <2>1. LookedUp = {}
    BY DEF Init, LookedUp
  <2> QED BY <2>1 DEF Init, DistanceInv
<1>2. IInv /\ DistanceInv /\ [Next]_vars => DistanceInv'
  <2> SUFFICES ASSUME IInv, DistanceInv, [Next]_vars PROVE DistanceInv'
    OBVIOUS
  <2>1. CASE Preprocess \/ Sort \/ Skip \/ Keep
    <3>1. LookedUp = {} /\ LookedUp' = {} /\ UNCHANGED <<raw, depth, world_z>>
      BY <2>1 DEF Preprocess, Sort, Skip, Keep, LookedUp
    <3> QED BY <3>1, SameDistances
  <2>2. CASE NmsReturns
    <3>1. pos' = 1 /\ keep' = keep /\ keep \in Seq(Candidates)
      BY <2>2 DEF NmsReturns, IInv, TypeOK
    <3>2. {m \in DOMAIN keep' : m < pos'} = {}
      BY <3>1
    <3>3. LookedUp = {} /\ LookedUp' = {} /\ UNCHANGED <<raw, depth, world_z>>
      BY <2>2, <3>2 DEF NmsReturns, LookedUp
    <3> QED BY <3>3, SameDistances
  <2>3. CASE Backproject
    BY <2>3, BackprojectStep
  <2>4. CASE Return
    <3>1. keep \in Seq(Candidates) /\ pos > Len(keep) /\ pos \in Nat
      BY <2>4 DEF Return, IInv, TypeOK
    <3>2. {m \in DOMAIN keep : m < pos} = DOMAIN keep
      <4>1. PICK l \in Nat : l = Len(keep) /\ DOMAIN keep = 1 .. l
        BY <3>1
      <4>2. \A m \in 1 .. l : m < pos
        BY <3>1, <4>1
      <4> QED BY <4>1, <4>2
    <3>3. LookedUp = Kept /\ LookedUp' = Kept /\ UNCHANGED <<raw, depth, world_z>>
      BY <2>4, <3>2 DEF Return, LookedUp, Kept
    <3> QED BY <3>3, SameDistances
  <2>5. CASE UNCHANGED vars
    <3>1. LookedUp' = LookedUp
      BY <2>5 DEF vars, LookedUp, Kept
    <3> QED BY <2>5, <3>1, SameDistances DEF vars
  <2> QED BY <2>1, <2>2, <2>3, <2>4, <2>5 DEF Next, Returned
<1>3. DistanceInv => DistanceIsRead
  BY DEF DistanceInv, DistanceIsRead, LookedUp
<1> QED BY <1>1, <1>2, <1>3, Invariance, PTL DEF Spec
=============================================================================
