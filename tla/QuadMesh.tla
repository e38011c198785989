------------------------------ MODULE QuadMesh ------------------------------
(***************************************************************************)
(* The quad mesh extract_patch works on.  F_compact is a set of faces,     *)
(* each the four vertices around it; the lists that extract_patch derives  *)
(* from it before anything else are the fields of a record.                *)
(*                                                                         *)
(* The mesh is a manifold whose faces agree on their sense, so a directed  *)
(* edge belongs to one face, and boundary_o marks the vertices of the      *)
(* edges that have no second face.                                         *)
(***************************************************************************)
EXTENDS Integers, FiniteSets

Following(i) == (i % 4) + 1
Preceding(i) == ((i + 2) % 4) + 1

Vertices(F) == {f[i] : f \in F, i \in 1 .. 4}

DirectedEdges(F) == {<<f[i], f[Following(i)]>> : f \in F, i \in 1 .. 4}

(* boundaryvertex: an entry for each end of an edge without an opposite.     *)
BoundaryEdges(D) == {e \in D : <<e[2], e[1]>> \notin D}

Ends(E) == {e[1] : e \in E} \union {e[2] : e \in E}

(* adj_compact: of a boundary vertex every neighbour, of an inner one the    *)
(* vertex that follows it in each of its faces.                              *)
Adjacent(D, B, v) ==
  {e[2] : e \in {d \in D : d[1] = v}} \union
  (IF v \in B THEN {e[1] : e \in {d \in D : d[2] = v}} ELSE {})

(* Faulty variant: a boundary vertex counts as singular one neighbour late.  *)
BoundarySingularFromFive(B, adj) == {v \in B : Cardinality(adj[v]) > 4}

BoundarySingular(B, adj) == {v \in B : Cardinality(adj[v]) > 3}

Singular(B, adj) ==
  {v \in DOMAIN adj \ B : Cardinality(adj[v]) = 3 \/ Cardinality(adj[v]) > 4}

(* The vertices of one face: number_F is 1.                                  *)
Corners(F) == {v \in Vertices(F) : Cardinality({f \in F : \E i \in 1 .. 4 : f[i] = v}) = 1}

(* The vertex after v in the face that goes from u to v.                     *)
Turns(F, D) ==
  [e \in D |->
     CHOOSE w \in Vertices(F) :
       \E f \in F, i \in 1 .. 4 :
         /\ <<f[i], f[Following(i)]>> = e
         /\ f[Following(Following(i))] = w]

MeshOf(F) ==
  LET D == DirectedEdges(F)
      B == Ends(BoundaryEdges(D))
      adj == [v \in Vertices(F) |-> Adjacent(D, B, v)]
  IN [F_compact |-> F,
      boundaryvertex |-> BoundaryEdges(D),
      boundary_o |-> B,
      adj_compact |-> adj,
      singularity |-> Singular(B, adj),
      boundary_singularity |-> BoundarySingular(B, adj),
      corner |-> Corners(F),
      turn |-> Turns(F, D)]

(* Each face has four vertices, each directed edge one face; the faces at an *)
(* inner vertex form one fan, of three faces or more.                        *)
Manifold(F) ==
  LET D == DirectedEdges(F)
      Neighbors(v) == {e[2] : e \in {d \in D : d[1] = v}}
  IN /\ IsFiniteSet(F) /\ F \subseteq [1 .. 4 -> Nat]
     /\ \A f \in F : \A i, j \in 1 .. 4 : f[i] = f[j] => i = j
     /\ \A f, g \in F : \A i, j \in 1 .. 4 :
          f[i] = g[j] /\ f[Following(i)] = g[Following(j)] => f = g
     /\ \A v \in Vertices(F) \ Ends(BoundaryEdges(D)) :
          /\ Cardinality(Neighbors(v)) > 2
          /\ \A S \in SUBSET Neighbors(v) :
               S # {} /\ (\A u \in S : Turns(F, D)[<<u, v>>] \in S) => S = Neighbors(v)

(* Faulty variant: one turn instead of two.                                  *)
StraightTurning(mesh, u, v) == mesh.turn[<<u, v>>]

(* Straight on at v, coming from u: across two faces of a regular vertex.    *)
Straight(mesh, u, v) == mesh.turn[<<mesh.turn[<<u, v>>], v>>]
=============================================================================
