---------------------------- MODULE MCNavigation ----------------------------
(* Instances of Navigation for TLC. *)
EXTENDS Navigation

LeftRight == {"left", "right"}
Scene(seen, distance) == [seen |-> seen, z |-> [s \in LeftRight |-> distance]]

\* For ages, what is seen plays no part.
OneScene == {Scene({"left"}, 1)}

\* Two obstacles that come and go, one on each side and equally near, so that
\* the avoider may turn away from either.
ComeAndGo == {Scene({}, 9), Scene(LeftRight, 1)}
=============================================================================
