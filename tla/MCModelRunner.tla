--------------------------- MODULE MCModelRunner ---------------------------
(* Instances of ModelRunner for TLC. *)
EXTENDS ModelRunner, TLC

\* Three boxes in a row, each overlapping the next by more than half, of which
\* the second is centred on the edge of a pixel and slips; half of the first,
\* which overlaps it by exactly half; one that reaches out of the image on the
\* left and lies below it.
Box(x, width, y, height) == [cx |-> x, w |-> width, cy |-> y, h |-> height]
SomeBoxes ==
    {Box(2, 4, 1, 2), Box(3, 4, 1, 2), Box(4, 4, 1, 2), Box(1, 2, 1, 2), Box(-1, 5, 3, 2)}

\* Floats with seven significant bits, rounded to the nearest, ties to even.
Step(m) == CHOOSE s \in {1, 2, 4, 8, 16, 32} :
               m < 128 * s /\ \A r \in {1, 2, 4, 8, 16, 32} : m < 128 * r => s <= r
Nearest(m, s) ==
    LET q == m \div s
        r == m % s
    IN  IF 2 * r > s \/ (2 * r = s /\ q % 2 = 1) THEN (q + 1) * s ELSE q * s
FloatRound == [m \in 0 .. 2048 |-> Nearest(m, Step(m))]

SomeReadings == {NotFinite, 0, 1}

Symmetry == Permutations(Anchors)
=============================================================================
