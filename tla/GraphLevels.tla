----------------------------- MODULE GraphLevels -----------------------------
(***************************************************************************)
(* The levels of the vertex graph: Hierarchy::Initialize (hierarchy.cpp:   *)
(* 55-70) coarsens the graph with DownsampleGraph (264-398) until a level  *)
(* has one vertex.  Links are visited by the similarity of their ends, a   *)
(* floating-point number left open here, and a link whose ends are both    *)
(* free merges them.                                                       *)
(*                                                                         *)
(* A vertex of any level stands for a set of vertices of the first one and *)
(* is named by that set, not by its number: to_upper and to_lower are the  *)
(* sets contained in a set and the set that contains it.                   *)
(***************************************************************************)
EXTENDS Integers, FiniteSets, FiniteSetsExt

CONSTANTS MeshVertex, (* vertices of the first level *)
          MeshGraphs, (* the graphs of generate_adjacency_matrix_uniform *)
          MAX_DEPTH   (* 25 in the code *)

(* A mesh gives every link twice, once from each end.                       *)
ASSUME GraphsAssumption ==
  /\ MAX_DEPTH \in Nat \ {0}
  /\ IsFiniteSet(MeshVertex)
  /\ \A g \in MeshGraphs :
       /\ g \in [MeshVertex -> SUBSET MeshVertex]
       /\ \A v, w \in MeshVertex : w \in g[v] => v # w /\ v \in g[w]

VARIABLES
  graph,    (* the graph given *)
  depth,    (* the number i of the last level *)
  mAdj,     (* mAdj[i]: the weight of each link, by its ends *)
  merged,   (* the pairs merged so far, to make the next level *)
  phase     (* "downsample", then "done" *)

levels_vars == <<graph, depth, mAdj, merged, phase>>

Node == DOMAIN mAdj

(* generate_adjacency_matrix_uniform: links of weight 1.                     *)
Singles == {{v} : v \in MeshVertex}

LevelsInit ==
  /\ graph \in MeshGraphs
  /\ depth = 0
  /\ mAdj = [U \in Singles |->
               [W \in {W \in Singles : \E v \in U, w \in W : w \in graph[v]} |-> 1]]
  /\ merged = {}
  /\ phase = "downsample"
-----------------------------------------------------------------------------
mergeFlag(U) == \E p \in merged : U \in p

(* Faulty variant: the ends need not be linked.                             *)
Unlinked(U, W) == W # U /\ ~ mergeFlag(U) /\ ~ mergeFlag(W)

(* A link from U to W is visited.                                           *)
Mergeable(U, W) == W \in DOMAIN mAdj[U] /\ ~ mergeFlag(U) /\ ~ mergeFlag(W)

Merge ==
  /\ phase = "downsample"
  /\ \E U, W \in Node : Mergeable(U, W) /\ merged' = merged \union {{U, W}}
  /\ UNCHANGED <<graph, depth, mAdj, phase>>

(* The vertices of the next level, and which of this level they contain.    *)
Coarse      == {UNION p : p \in merged} \union {U \in Node : ~ mergeFlag(U)}
to_upper(X) == {U \in Node : U \subseteq X}

(* The links from vertices in X to vertices in Y.                           *)
Scratch(X, Y) == {l \in to_upper(X) \X to_upper(Y) : l[2] \in DOMAIN mAdj[l[1]]}

(* Faulty variant: links between the two merged vertices are kept.          *)
KeepsOwnLinks(X) == {Y \in Coarse : Scratch(X, Y) # {}}

Linked(X) == {Y \in Coarse : Y # X /\ Scratch(X, Y) # {}}

(* Faulty variant: of the links to one vertex the first is kept.            *)
FirstWeight(X, Y) == Min({mAdj[l[1]][l[2]] : l \in Scratch(X, Y)})

Weight(X, Y) == MapThenSumSet(LAMBDA l : mAdj[l[1]][l[2]], Scratch(X, Y))

(* No link is left to visit.  The loop over the levels ends with a level of *)
(* one vertex, or with level MAX_DEPTH.                                      *)
Coarsen ==
  /\ phase = "downsample"
  /\ \A U, W \in Node : ~ Mergeable(U, W)
  /\ mAdj' = [X \in Coarse |-> [Y \in Linked(X) |-> Weight(X, Y)]]
  /\ depth' = depth + 1
  /\ merged' = {}
  /\ phase' = IF Cardinality(Coarse) = 1 \/ depth + 1 = MAX_DEPTH THEN "done" ELSE "downsample"
  /\ UNCHANGED graph

LevelsNext == Merge \/ Coarsen

(* One thread: the parallel loops of DownsampleGraph write disjoint entries. *)
LevelsSpec == LevelsInit /\ [][LevelsNext]_levels_vars
-----------------------------------------------------------------------------
(* Each level is a graph as the coloring (hierarchy.cpp:159-203) needs it:   *)
(* without a link from a vertex to itself, which would lock its mutex twice, *)
(* and with every link known to both ends, or two neighbours could be        *)
(* colored, and later moved, at the same time.                               *)
LevelsAreGraphs ==
  \A U \in Node : \A W \in DOMAIN mAdj[U] : W \in Node /\ W # U /\ U \in DOMAIN mAdj[W]

Cut(U, W) == {e \in U \X W : e[2] \in graph[e[1]]}

(* However the links were visited, a link weighs as many links of the first  *)
(* level as join its ends, and no other ends are linked: the smoothing of a  *)
(* coarse level weighs a neighbour by all the vertices it stands for.        *)
WeightsAreCuts ==
  \A U, W \in Node :
    IF U # W /\ Cut(U, W) # {}
    THEN W \in DOMAIN mAdj[U] /\ mAdj[U][W] = Cardinality(Cut(U, W))
    ELSE W \notin DOMAIN mAdj[U]

Connected(U) == \A S \in SUBSET U : S = {} \/ S = U \/ Cut(S, U \ S) # {}

(* The vertices of a level split the mesh into connected pieces, and         *)
(* coarsening does not stop early: a connected mesh ends as one vertex       *)
(* unless MAX_DEPTH comes first.  (A mesh of several components always has   *)
(* MAX_DEPTH levels.)                                                        *)
VerticesArePieces ==
  /\ UNION Node = MeshVertex
  /\ \A U, W \in Node : U # W => U \intersect W = {}
  /\ \A U \in Node : U # {} /\ Connected(U)
  /\ phase = "done" => depth = MAX_DEPTH \/ Node = {MeshVertex}
=============================================================================
