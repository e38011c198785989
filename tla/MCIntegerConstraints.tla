------------------------ MODULE MCIntegerConstraints ------------------------
(***************************************************************************)
(* IntegerConstraints on a closed surface of two triangles, a lone         *)
(* triangle, and the three triangles around a vertex, where the frames of  *)
(* a singular face cannot agree with both its neighbours.                  *)
(***************************************************************************)
EXTENDS IntegerConstraints

Differences == {<<0, 0>>, <<1, 0>>, <<0, 1>>, <<-1, 0>>, <<1, 1>>}

(* Feature edges, which are those of one face, are snapped before the        *)
(* constraints are built.                                                    *)
Snapped(m) == \A e \in m.feature : 0 \in {m.diff[e][1], m.diff[e][2]}

Mesh(F2E, FQ, feature, diffs) ==
  {m \in {[F2E |-> F2E, FQ |-> FQ, feature |-> feature, diff |-> d] : d \in diffs} : Snapped(m)}

(* Two triangles with all three edges in common; turn is by how much the     *)
(* frames miss each other at the third edge.                                 *)
Pillow(turn, feature, diffs) ==
  Mesh(<<<<1, 2, 3>>, <<1, 2, 3>>>>, <<<<0, 0, 0>>, <<2, 2, (2 + turn) % 4>>>>, feature, diffs)

Lone(diffs) == Mesh(<<<<1, 2, 3>>>>, <<<<0, 0, 2>>>>, {1, 2, 3}, diffs)

(* Spokes 1, 2, 3 and rims 4, 5, 6; turn is by how much the frames miss each *)
(* other at the first spoke.                                                 *)
Fan(turn, feature, diffs) ==
  Mesh(<<<<1, 4, 2>>, <<2, 5, 3>>, <<3, 6, 1>>>>,
       <<<<0, 0, 2>>, <<0, 0, 2>>, <<0, 0, (2 + turn) % 4>>>>, feature, diffs)

FanDiffs ==
  {<<a, b, <<0, 1>>, <<1, 0>>, c, d>> :
     a \in Differences, b \in {<<1, 0>>, <<1, 1>>}, c \in {<<0, 1>>, <<0, -1>>}, d \in Differences}

PillowDiffs ==
  {<<a, b, <<1, 0>>>> : a \in Differences, b \in Differences} \union
  {<<a, b, c>> : a \in {<<2, 0>>, <<1, 2>>}, b \in {<<2, 0>>, <<1, 2>>}, c \in {<<-1, 0>>, <<-1, -1>>}}

MCMeshes ==
  UNION {Pillow(turn, {}, PillowDiffs) : turn \in {0, 1, 2}} \union
  Lone([1 .. 3 -> Differences]) \union
  UNION {Fan(turn, {4, 5, 6}, FanDiffs) : turn \in {0, 1, 2}}
=============================================================================
