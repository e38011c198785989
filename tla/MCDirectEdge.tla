---------------------------- MODULE MCDirectEdge ----------------------------
(***************************************************************************)
(* DirectEdge on all pairs of triangles and on small meshes that have what *)
(* the algorithm must cope with.                                           *)
(***************************************************************************)
EXTENDS DirectEdge

MCVertices == 0 .. 3

Triangles == {0, 1, 2} \X {0, 1, 2} \X {0, 1, 3}

(* A first triangle 0, 1, 2, or one with a degenerate corner, and any second *)
(* one: glued either way, duplicated, folded, degenerate, apart.             *)
Pairs == {<<a, b>> : a \in {<<0, 1, 2>>, <<0, 0, 1>>}, b \in Triangles \union {<<1, 0, 2>>, <<2, 1, 0>>}}

(* An edge with three faces, in both orders of orientation.                  *)
Book == {<< <<0, 1, 2>>, <<1, 0, 3>>, <<1, 0, 2>> >>, << <<1, 0, 2>>, <<0, 1, 3>>, <<0, 1, 2>> >>}

(* Two quadrilaterals with a common edge, and a closed pair of them.         *)
Quads == {<< <<0, 1, 2, 3>>, <<1, 0, 3, 2>> >>, << <<0, 1, 2, 3>>, <<3, 2, 1, 0>> >>,
          << <<0, 1, 1, 2>>, <<1, 0, 3, 3>> >>}

(* A vertex inside the surface, with a fan of three triangles around it.     *)
Umbrella == {<< <<0, 1, 2>>, <<0, 2, 3>>, <<0, 3, 1>> >>, << <<2, 0, 1>>, <<0, 3, 1>>, <<3, 0, 2>> >>}

MCMeshes == Pairs \union Book \union Quads \union Umbrella
=============================================================================
