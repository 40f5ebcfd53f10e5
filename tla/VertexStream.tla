---------------------------- MODULE VertexStream ----------------------------
(***************************************************************************)
(* What the Stream Controller promises Primitive Assembly: the vertices of *)
(* the index stream, one for every index, in the order of the stream, each *)
(* with the attributes the shaders computed for its own index.             *)
(*                                                                         *)
(* It says nothing of the post shading cache, of the shaders answering out *)
(* of order, nor of the lines of output memory the attributes wait in.     *)
(***************************************************************************)
EXTENDS Naturals, Sequences

CONSTANTS
  Index,            \* the indices of the vertices
  IndicesCycle,     \* indices read from the stream in a cycle
  VerticesCycle     \* vertices sent in a cycle

VARIABLES
  waiting,          \* indices read from the stream, their vertices not yet sent
  out               \* the vertices sent in the last cycle

vars == <<waiting, out>>

\* A vertex: the index it is labelled with, and the index of the input its
\* attributes were computed from.
Vertex == [index : Index, data : Index]
Own(i) == [index |-> i, data |-> i]

Init == waiting = <<>> /\ out = <<>>

Next ==
  \E sent \in 0 .. VerticesCycle, read \in 0 .. IndicesCycle :
    /\ sent <= Len(waiting)
    /\ out' = [n \in 1 .. sent |-> Own(waiting[n])]
    /\ \E more \in [1 .. read -> Index] :
         waiting' = SubSeq(waiting, sent + 1, Len(waiting)) \o more

Spec == Init /\ [][Next]_vars
=============================================================================
