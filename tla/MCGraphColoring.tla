--------------------------- MODULE MCGraphColoring --------------------------
(***************************************************************************)
(* GraphColoring of four vertices by up to three bodies: a path, a cycle,  *)
(* a star, a triangle with a tail, and the complete graph.  Two colors may *)
(* do for the first two, by the order, and never do for the last two: then *)
(* a body throws while another has vertices it has not begun.              *)
(***************************************************************************)
EXTENDS GraphColoring

MCGraph(edges) == [v \in Vertex |-> {w \in Vertex : {v, w} \in edges /\ v # w}]

MCGraphs == {MCGraph(edges) : edges \in
  {{{0, 1}, {1, 2}, {2, 3}},
   {{0, 1}, {1, 2}, {2, 3}, {0, 3}},
   {{0, 3}, {1, 3}, {2, 3}},
   {{0, 1}, {1, 2}, {0, 2}, {2, 3}},
   {{0, 1}, {0, 2}, {0, 3}, {1, 2}, {1, 3}, {2, 3}}}}

MCBlocks == {<<{0, 1}, {2, 3}, {}>>, <<{0}, {1, 2}, {3}>>, <<Place, {}, {}>>}
=============================================================================
