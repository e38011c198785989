--------------------------- MODULE GreedyColoring ---------------------------
(***************************************************************************)
(* What generate_graph_coloring_deterministic promises of a graph: vertex  *)
(* after vertex, in some order, gets the smallest color that none of its   *)
(* neighbours has.  The serial code (hierarchy.cpp:234-258) is this loop;  *)
(* the parallel one is shown to implement it in GraphColoring.             *)
(***************************************************************************)
EXTENDS Integers

CONSTANTS Vertex,     (* the vertices of one level *)
          Invalid     (* INVALID_COLOR, -1 in the serial code *)

VARIABLES adj,        (* the set of neighbours of each vertex *)
          color

(* The graphs of manifold meshes: symmetric and without loops.             *)
IsGraph(g) ==
  /\ g \in [Vertex -> SUBSET Vertex]
  /\ \A v, w \in Vertex : w \in g[v] => v # w /\ v \in g[w]

Used(v) == {color[w] : w \in adj[v]} \ {Invalid}

IsSmallestFree(c, S) == c \in Nat /\ c \notin S /\ \A d \in 0 .. (c - 1) : d \in S

Init ==
  /\ IsGraph(adj)
  /\ color = [v \in Vertex |-> Invalid]

ColorOne(v) ==
  /\ color[v] = Invalid
  /\ IsSmallestFree(color'[v], Used(v))
  /\ color' = [color EXCEPT ![v] = color'[v]]
  /\ UNCHANGED adj

Next == \E v \in Vertex : ColorOne(v)

Spec == Init /\ [][Next]_<<adj, color>>

(* Neighbours never have the same color, so that the vertices of one color *)
(* can be updated without one reading what another writes.                 *)
NeighborsDiffer ==
  \A v \in Vertex : \A w \in adj[v] : color[v] # Invalid => color[v] # color[w]
=============================================================================
