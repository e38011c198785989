----------------------------- MODULE FaceFrames -----------------------------
(***************************************************************************)
(* What BuildIntegerConstraints does before it writes its equations: it    *)
(* joins the frames of the faces through a disjoint tree, and turns every  *)
(* face by the turns to its root.  The mesh it leaves is one of those that *)
(* IntegerConstraints starts with.                                         *)
(***************************************************************************)
EXTENDS IntegerConstraints, OrientTree

CONSTANT Unturned   \* the mesh before its faces are turned, with N faces

VARIABLE merged_edges   \* history: the edges whose faces were merged

(* face_edgeOrients, before the faces are turned.                            *)
Quarters(c) == Unturned.FQ[c[1]][c[2]]

(* The faces of an edge, each turned as its corner there is.                 *)
MergeEdge(e) ==
  \E c, d \in Corner(Unturned) :
    /\ Meet(Unturned, c, d) /\ e = Unturned.F2E[c[1]][c[2]]
    /\ Merge(c[1] - 1, d[1] - 1, (Quarters(d) + 2) % 4, Quarters(c))
    /\ merged_edges' = merged_edges \union {e}

(* The three loops: the edges of faces without singularity, those of faces   *)
(* with one, the sharp ones.  Here any order, and any edge more than once.   *)
TurnFaces ==
  /\ TreeInit /\ merged_edges = {}
  /\ [][\E e \in 1 .. Len(Unturned.diff) : MergeEdge(e)]_<<tree_vars, merged_edges>>

(* They merge the faces of every edge that has two.                          *)
AllMerged ==
  \A a, b \in Corner(Unturned) :
    Meet(Unturned, a, b) => Unturned.F2E[a[1]][a[2]] \in merged_edges

(* The last loop: every face turned to the frame of its root.                *)
TurnedMesh ==
  [F2E |-> Unturned.F2E, diff |-> Unturned.diff, feature |-> Unturned.feature,
   FQ |-> [f \in 1 .. Len(Unturned.F2E) |->
             [j \in 1 .. 3 |-> (Unturned.FQ[f][j] + Orient[f - 1]) % 4]]]
=============================================================================
