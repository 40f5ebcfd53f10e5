--------------------------- MODULE TriangleStream ---------------------------
(***************************************************************************)
(* What the geometry pipe promises: of every batch the triangles of its    *)
(* primitive are rasterized, in order, each with its own three vertices    *)
(* and its facing, but for those that cannot be seen; then the mark of the *)
(* end of the batch, once.                                                 *)
(*                                                                         *)
(* It says nothing of the queues, of the requests for triangles nor of how *)
(* the boxes share the cycles of the buses.                                *)
(***************************************************************************)
EXTENDS Integers, Sequences, Filter

CONSTANTS
  Batches,          \* records: primitive, indices, culling
  Outside,          \* indices of the vertices outside of the view frustum
  TriangleBatch     \* triangles rasterized together

VARIABLES
  pending,          \* triangles and marks of the batches drawn
  out               \* those rasterized in the last cycle

vars == <<pending, out>>

\* A triangle, or the mark of the end of a batch.
Items == [vertices : Seq(Nat), last : BOOLEAN]
Last == [vertices |-> <<>>, last |-> TRUE]
Triangle(a, b, c) == [vertices |-> <<a, b, c>>, last |-> FALSE]

Triangles(primitive, n) ==
  CASE primitive = "TRIANGLE"       -> n \div 3
    [] primitive = "QUAD"           -> 2 * (n \div 4)
    [] primitive = "QUAD_STRIP"     -> IF n < 4 THEN 0 ELSE 2 * ((n - 2) \div 2)
    [] OTHER                        -> IF n < 3 THEN 0 ELSE n - 2

\* Positions of the vertices of triangle k, counted from 0, so that all have
\* the facing of the first.
Corners(primitive, k) ==
  LET even == k % 2 = 0
      quad == k \div 2
  IN  CASE primitive = "TRIANGLE"       -> <<3 * k, 3 * k + 1, 3 * k + 2>>
        [] primitive = "TRIANGLE_STRIP" -> IF even THEN <<k, k + 1, k + 2>>
                                                   ELSE <<k + 1, k, k + 2>>
        [] primitive = "TRIANGLE_FAN"   -> <<0, k + 1, k + 2>>
        [] primitive = "QUAD"           -> IF even THEN <<4 * quad, 4 * quad + 1, 4 * quad + 3>>
                                                   ELSE <<4 * quad + 1, 4 * quad + 2, 4 * quad + 3>>
        [] primitive = "QUAD_STRIP"     -> IF even THEN <<2 * quad, 2 * quad + 1, 2 * quad + 3>>
                                                   ELSE <<2 * quad + 2, 2 * quad, 2 * quad + 3>>

TriangleAt(batch, k) ==
  LET at == Corners(batch.primitive, k)
  IN  Triangle(batch.indices[at[1] + 1], batch.indices[at[2] + 1], batch.indices[at[3] + 1])

\* The vertices lie on a circle, in the order of their indices, so that the
\* order of three tells the facing.
Front(v) ==
  \/ v[1] < v[2] /\ v[2] < v[3]
  \/ v[2] < v[3] /\ v[3] < v[1]
  \/ v[3] < v[1] /\ v[1] < v[2]

Degenerate(v) == v[1] = v[2] \/ v[2] = v[3] \/ v[3] = v[1]
Rejected(v) == {v[1], v[2], v[3]} \subseteq Outside
Culled(v, culling) ==
  \/ culling \in {"FRONT", "FRONT_AND_BACK"} /\ Front(v)
  \/ culling \in {"BACK", "FRONT_AND_BACK"} /\ ~Front(v)

Visible(culling) ==
  { t \in Items :
      t.last \/ ~(Degenerate(t.vertices) \/ Rejected(t.vertices) \/ Culled(t.vertices, culling)) }

\* The triangles of a batch from the k-th on.
From(batch, k) ==
  [n \in 1 .. Triangles(batch.primitive, Len(batch.indices)) - k |->
     TriangleAt(batch, k + n - 1)]

Seen(s, culling) == Only(s, Visible(culling))

Init == pending = <<>> /\ out = <<>>

Next ==
  \E n \in 0 .. TriangleBatch :
    /\ n <= Len(pending)
    /\ out' = SubSeq(pending, 1, n)
    /\ LET left == SubSeq(pending, n + 1, Len(pending))
       IN  \/ pending' = left
           \/ \E b \in Batches :
                pending' = left \o Seen(From(b, 0), b.culling) \o <<Last>>

Spec == Init /\ [][Next]_vars
=============================================================================
