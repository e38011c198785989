---- MODULE MCGraphLevels ----
(* The edges of a fan, a strip, a closed surface and two components, of      *)
(* seven vertices each.                                                      *)
EXTENDS GraphLevels

V == 1 .. 7
Triangles(ts) ==
  [v \in V |-> {w \in V \ {v} : \E t \in ts : {v, w} \subseteq t}]

Wheel  == Triangles({{7, 1, 2}, {7, 2, 3}, {7, 3, 4}, {7, 4, 5}, {7, 5, 6}})
Strip  == Triangles({{1, 2, 3}, {2, 3, 4}, {3, 4, 5}, {4, 5, 6}, {5, 6, 7}})
Closed == Triangles({{6, 1, 2}, {6, 2, 3}, {6, 3, 4}, {6, 4, 5}, {6, 5, 1},
                     {7, 1, 2}, {7, 2, 3}, {7, 3, 4}, {7, 4, 5}, {7, 5, 1}})
Parts  == Triangles({{1, 2, 3}, {2, 3, 4}, {3, 4, 1}, {4, 1, 2}, {5, 6, 7}})
MCGraphs == {Wheel, Strip, Closed, Parts}
====
