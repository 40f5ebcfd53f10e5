--------------------------- MODULE MCGeometryPipe ---------------------------
(***************************************************************************)
(* Small instances of the geometry pipe.                                   *)
(***************************************************************************)
EXTENDS GeometryPipe, TLC

Outer == {7, 8, 9}

Drawn(p, s, c) == [primitive |-> p, indices |-> s, culling |-> c]

\* Five triangles that all face the viewer, and one that is not seen.
Strip == Drawn("TRIANGLE_STRIP", <<1, 2, 6, 3, 5, 4>>, "BACK")
Fan == Drawn("TRIANGLE_FAN", <<1, 2, 3, 4, 5, 6>>, "BACK")
\* Seen, degenerate, outside and turned away; two vertices are left over.
List == Drawn("TRIANGLE", <<1, 2, 3, 4, 4, 5, 7, 8, 9, 3, 2, 1, 1, 2>>, "BACK")
Quads == Drawn("QUAD", <<1, 2, 3, 4, 3, 4, 5, 6>>, "BACK")
QuadStrip == Drawn("QUAD_STRIP", <<1, 2, 6, 3, 5, 4>>, "FRONT")
\* Nothing is seen, but the mark of the end.
Unseen == Drawn("TRIANGLE_FAN", <<1, 2, 3, 7, 5>>, "FRONT_AND_BACK")

Mixed == {Strip, Fan, List, Quads, QuadStrip, Unseen}
=============================================================================
