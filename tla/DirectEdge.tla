----------------------------- MODULE DirectEdge -----------------------------
(***************************************************************************)
(* compute_direct_graph and compute_direct_graph_quad: the directed-edge   *)
(* structure of a mesh, built by three parallel loops one after the other: *)
(*                                                                         *)
(*  insert  over the faces: every edge is put, by compare-and-swap, at the *)
(*          tail of the list of the edges that leave its vertex; V2E is    *)
(*          the head of the list and tmp[e].second its links;              *)
(*  match   over the faces: the opposite of an edge is looked up in the    *)
(*          list of its end; an edge with two of them makes both vertices  *)
(*          non-manifold;                                                  *)
(*  walk    over the vertices: V2E is moved to the first edge of the fan   *)
(*          at a boundary vertex, to the smallest edge elsewhere.          *)
(*                                                                         *)
(* An edge deg * f + i is the pair <<f, i>> here, its order the order of   *)
(* pairs; faces and corners count from 1.                                  *)
(***************************************************************************)
EXTENDS Naturals, Sequences, FiniteSets

CONSTANTS
  Vertices,   \* the vertices
  Meshes,     \* the meshes the loops are run on: sequences of faces
  INVALID     \* the edge that is none (-1)

ASSUME DirectEdgeAssumption ==
  /\ INVALID \notin Nat \X Nat
  /\ \A mesh \in Meshes : /\ mesh \in Seq([1 .. Len(mesh[1]) -> Vertices])
                           /\ Len(mesh) > 0
                           /\ Len(mesh[1]) \in Nat \ {0}

VARIABLES
  F,            \* the mesh: face -> corner -> vertex
  loop,         \* the parallel loop that is running
  corner,       \* face -> the corner its thread is at
  pc,           \* face -> where in the body of the loop its thread is
  at,           \* face -> the edge the thread has reached in a list
  tmp,          \* edge -> its end, and the next edge of the list
  V2E,          \* vertex -> an edge that leaves it
  E2E,          \* edge -> its opposite
  nonManifold, boundary,   \* sets of vertices
  walk          \* vertex -> the local variables of the last loop

vars == <<F, loop, corner, pc, at, tmp, V2E, E2E, nonManifold, boundary, walk>>

-----------------------------------------------------------------------------
Faces == 1 .. Len(F)
deg == Len(F[1])
Edges == Faces \X (1 .. deg)
NoLink == <<1, 1>>   \* tmp is value-initialised: edge 0, not INVALID

Cur(e) == F[e[1]][e[2]]
Nxt(e) == F[e[1]][(e[2] % deg) + 1]
Degenerate(e) == Cur(e) = Nxt(e)
dedge_prev(e) == <<e[1], IF e[2] = 1 THEN deg ELSE e[2] - 1>>

Before(e, o) == e[1] < o[1] \/ (e[1] = o[1] /\ e[2] < o[2])

Init ==
  /\ F \in Meshes
  /\ loop = "insert"
  /\ corner = [f \in Faces |-> 1]
  /\ pc = [f \in Faces |-> "fill"]
  /\ at = [f \in Faces |-> INVALID]
  /\ tmp = [e \in Edges |-> [first |-> CHOOSE v \in Vertices : TRUE, second |-> NoLink]]
  /\ V2E = [v \in Vertices |-> INVALID]
  /\ E2E = [e \in Edges |-> INVALID]
  /\ nonManifold = {}
  /\ boundary = {}
  /\ walk = [v \in Vertices |-> [done |-> FALSE, edge |-> INVALID, v2e |-> INVALID]]

(* The thread of face f is there in the body of the loop, for edge_id(f).     *)
At(f, where) == corner[f] \in 1 .. deg /\ pc[f] = where
edge_id(f) == <<f, corner[f]>>

NextCorner(f, where) ==
  /\ corner' = [corner EXCEPT ![f] = @ + 1]
  /\ pc' = [pc EXCEPT ![f] = where]
  /\ at' = [at EXCEPT ![f] = INVALID]

-----------------------------------------------------------------------------
(* The first loop.                                                           *)
SkipDegenerate(f) ==
  /\ loop = "insert" /\ At(f, "fill")
  /\ Degenerate(edge_id(f))
  /\ NextCorner(f, "fill")
  /\ UNCHANGED <<F, loop, tmp, V2E, E2E, nonManifold, boundary, walk>>

(* The thread fills its own entry of tmp, which no list leads to yet.        *)
Fill(f) ==
  /\ loop = "insert" /\ At(f, "fill")
  /\ ~Degenerate(edge_id(f))
  /\ tmp' = [tmp EXCEPT ![edge_id(f)] = [first |-> Nxt(edge_id(f)), second |-> INVALID]]
  /\ pc' = [pc EXCEPT ![f] = "head"]
  /\ UNCHANGED <<F, loop, corner, at, V2E, E2E, nonManifold, boundary, walk>>

(* The head of the list: taken if it is free, else the search starts at it.  *)
(* (A head or link that is not INVALID never changes again, so reading it in *)
(* the step of the failed exchange is as good as reading it afterwards.)     *)
InsertHead(f) ==
  /\ loop = "insert" /\ At(f, "head")
  /\ IF V2E[Cur(edge_id(f))] = INVALID
     THEN /\ V2E' = [V2E EXCEPT ![Cur(edge_id(f))] = edge_id(f)]
          /\ NextCorner(f, "fill")
     ELSE /\ pc' = [pc EXCEPT ![f] = "tail"]
          /\ at' = [at EXCEPT ![f] = V2E[Cur(edge_id(f))]]
          /\ UNCHANGED <<V2E, corner>>
  /\ UNCHANGED <<F, loop, tmp, E2E, nonManifold, boundary, walk>>

(* Faulty variant: a plain store instead of the exchange.                    *)
InsertTailUnchecked(f) ==
  /\ loop = "insert" /\ At(f, "tail")
  /\ tmp' = [tmp EXCEPT ![at[f]].second = edge_id(f)]
  /\ NextCorner(f, "fill")
  /\ UNCHANGED <<F, loop, V2E, E2E, nonManifold, boundary, walk>>

(* The search for the tail: the edge is linked to the first edge without a   *)
(* successor.                                                                *)
InsertTail(f) ==
  /\ loop = "insert" /\ At(f, "tail")
  /\ IF tmp[at[f]].second = INVALID
     THEN /\ tmp' = [tmp EXCEPT ![at[f]].second = edge_id(f)]
          /\ NextCorner(f, "fill")
     ELSE /\ at' = [at EXCEPT ![f] = tmp[at[f]].second]
          /\ UNCHANGED <<tmp, corner, pc>>
  /\ UNCHANGED <<F, loop, V2E, E2E, nonManifold, boundary, walk>>

(* The loops are separated by a barrier.                                     *)
LoopEnds(which, then, where) ==
  /\ loop = which
  /\ \A f \in Faces : corner[f] = deg + 1
  /\ loop' = then
  /\ corner' = [f \in Faces |-> 1]
  /\ pc' = [f \in Faces |-> where]
  /\ UNCHANGED <<F, at, tmp, V2E, E2E, nonManifold, boundary, walk>>

-----------------------------------------------------------------------------
(* The second loop.  The lists do not change any more.                       *)
List(v) ==
  LET nth[n \in Nat] == IF n = 0 THEN V2E[v]
                        ELSE IF nth[n - 1] = INVALID THEN INVALID
                        ELSE tmp[nth[n - 1]].second
  IN  Edges \intersect {nth[n] : n \in 0 .. Cardinality(Edges)}

(* The edges that come back from the end of e.                               *)
Opposites(e) == {it \in List(Nxt(e)) : tmp[it].first = Cur(e)}

(* Faulty variant: of two opposites the first is taken.                      *)
MatchFirst(f) ==
  /\ loop = "match" /\ At(f, "look")
  /\ LET opp == IF Degenerate(edge_id(f)) THEN {} ELSE Opposites(edge_id(f)) IN
       IF \E o \in opp : Before(edge_id(f), o)
       THEN \E o \in opp :
              /\ Before(edge_id(f), o)
              /\ E2E' = [E2E EXCEPT ![edge_id(f)] = o]
              /\ at' = [at EXCEPT ![f] = o]
              /\ pc' = [pc EXCEPT ![f] = "back"]
              /\ UNCHANGED corner
       ELSE NextCorner(f, "look") /\ UNCHANGED E2E
  /\ UNCHANGED <<F, loop, tmp, V2E, nonManifold, boundary, walk>>

(* Exactly one opposite: the edge with the smaller number links the pair, in *)
(* two writes.  Two or more: both vertices are flagged.                      *)
Match(f) ==
  /\ loop = "match" /\ At(f, "look")
  /\ LET opp == IF Degenerate(edge_id(f)) THEN {} ELSE Opposites(edge_id(f)) IN
       \/ /\ Cardinality(opp) > 1
          /\ nonManifold' = nonManifold \union {Cur(edge_id(f)), Nxt(edge_id(f))}
          /\ NextCorner(f, "look")
          /\ UNCHANGED E2E
       \/ \E o \in opp :
            /\ opp = {o} /\ Before(edge_id(f), o)
            /\ E2E' = [E2E EXCEPT ![edge_id(f)] = o]
            /\ at' = [at EXCEPT ![f] = o]
            /\ pc' = [pc EXCEPT ![f] = "back"]
            /\ UNCHANGED <<nonManifold, corner>>
       \/ /\ \/ opp = {}
             \/ \E o \in opp : opp = {o} /\ ~Before(edge_id(f), o)
          /\ NextCorner(f, "look")
          /\ UNCHANGED <<nonManifold, E2E>>
  /\ UNCHANGED <<F, loop, tmp, V2E, boundary, walk>>

LinkBack(f) ==
  /\ loop = "match" /\ At(f, "back")
  /\ E2E' = [E2E EXCEPT ![at[f]] = edge_id(f)]
  /\ NextCorner(f, "look")
  /\ UNCHANGED <<F, loop, tmp, V2E, nonManifold, boundary, walk>>

-----------------------------------------------------------------------------
(* The third loop.  INVALID is the largest unsigned number.                  *)
SmallerEdge(e, o) == IF e # INVALID /\ (o = INVALID \/ Before(e, o)) THEN e ELSE o

Finish(v, e) ==
  /\ V2E' = [V2E EXCEPT ![v] = e]
  /\ walk' = [walk EXCEPT ![v] = [done |-> TRUE, edge |-> INVALID, v2e |-> INVALID]]

(* Faulty variant: a flagged vertex is walked around like the others.        *)
BeginAnyWalk(v) ==
  /\ loop = "walk" /\ ~walk[v].done /\ walk[v].edge = INVALID
  /\ IF V2E[v] = INVALID
     THEN Finish(v, INVALID)
     ELSE /\ walk' = [walk EXCEPT ![v] = [done |-> FALSE, edge |-> V2E[v], v2e |-> INVALID]]
          /\ UNCHANGED V2E
  /\ UNCHANGED <<F, loop, corner, pc, at, tmp, E2E, nonManifold, boundary>>

(* An isolated or a flagged vertex has no edge.                              *)
BeginWalk(v) ==
  /\ loop = "walk" /\ ~walk[v].done /\ walk[v].edge = INVALID
  /\ IF V2E[v] = INVALID \/ v \in nonManifold
     THEN Finish(v, INVALID)
     ELSE /\ walk' = [walk EXCEPT ![v] = [done |-> FALSE, edge |-> V2E[v], v2e |-> INVALID]]
          /\ UNCHANGED V2E
  /\ UNCHANGED <<F, loop, corner, pc, at, tmp, E2E, nonManifold, boundary>>

(* Faulty variant: the boundary vertex keeps the smallest edge seen so far.  *)
TurnToSmallest(v) ==
  /\ loop = "walk" /\ ~walk[v].done /\ walk[v].edge # INVALID
  /\ LET edge == walk[v].edge
         v2e  == SmallerEdge(walk[v].v2e, edge)
         prev == E2E[dedge_prev(edge)] IN
       IF prev = INVALID \/ prev = V2E[v]
       THEN /\ Finish(v, v2e)
            /\ boundary' = IF prev = INVALID THEN boundary \union {v} ELSE boundary
       ELSE /\ walk' = [walk EXCEPT ![v] = [done |-> FALSE, edge |-> prev, v2e |-> v2e]]
            /\ UNCHANGED <<V2E, boundary>>
  /\ UNCHANGED <<F, loop, corner, pc, at, tmp, E2E, nonManifold>>

(* One turn of the do loop: on to the edge before, until there is none (a    *)
(* boundary) or the walk is back at its start.                               *)
Turn(v) ==
  /\ loop = "walk" /\ ~walk[v].done /\ walk[v].edge # INVALID
  /\ LET edge == walk[v].edge
         v2e  == SmallerEdge(walk[v].v2e, edge)
         prev == E2E[dedge_prev(edge)] IN
       \/ /\ prev = INVALID
          /\ boundary' = boundary \union {v}
          /\ Finish(v, edge)
       \/ /\ prev # INVALID /\ prev = V2E[v]
          /\ Finish(v, v2e)
          /\ UNCHANGED boundary
       \/ /\ prev # INVALID /\ prev # V2E[v]
          /\ walk' = [walk EXCEPT ![v] = [done |-> FALSE, edge |-> prev, v2e |-> v2e]]
          /\ UNCHANGED <<V2E, boundary>>
  /\ UNCHANGED <<F, loop, corner, pc, at, tmp, E2E, nonManifold>>

WalksEnd ==
  /\ loop = "walk"
  /\ \A v \in Vertices : walk[v].done
  /\ loop' = "done"
  /\ UNCHANGED <<F, corner, pc, at, tmp, V2E, E2E, nonManifold, boundary, walk>>

-----------------------------------------------------------------------------
Next ==
  \/ \E f \in Faces :
       \/ SkipDegenerate(f) \/ Fill(f) \/ InsertHead(f) \/ InsertTail(f)
       \/ Match(f) \/ LinkBack(f)
  \/ LoopEnds("insert", "match", "look")
  \/ LoopEnds("match", "walk", "idle")
  \/ \E v \in Vertices : BeginWalk(v) \/ Turn(v)
  \/ WalksEnd

(* The threads of a parallel loop run to its end.                            *)
Spec == Init /\ [][Next]_vars /\ WF_vars(Next)

-----------------------------------------------------------------------------
Corners == 1 .. deg
Link == Edges \union {INVALID}

TypeOK ==
  /\ F \in Meshes
  /\ loop \in {"insert", "match", "walk", "done"}
  /\ corner \in [Faces -> 1 .. deg + 1]
  /\ pc \in [Faces -> {"fill", "head", "tail", "look", "back", "idle"}]
  /\ at \in [Faces -> Link]
  /\ tmp \in [Edges -> [first : Vertices, second : Link]]
  /\ V2E \in [Vertices -> Link]
  /\ E2E \in [Edges -> Link]
  /\ nonManifold \subseteq Vertices
  /\ boundary \subseteq Vertices
  /\ walk \in [Vertices -> [done : BOOLEAN, edge : Link, v2e : Link]]

(* The edges whose insertion is over: their thread has gone past them.       *)
Inserted == {e \in Edges : ~Degenerate(e) /\ (loop = "insert" => e[2] < corner[e[1]])}

(* No thread overwrites what another one linked: while the threads race on   *)
(* heads and tails, every inserted edge has exactly one predecessor, the     *)
(* head of the list of its vertex or a link of an edge of the same vertex.   *)
Predecessors(e) == {p \in Inserted : tmp[p].second = e /\ Cur(p) = Cur(e)}
NoLostInsert ==
  loop \in {"insert", "match"} =>
    \A e \in Inserted :
      \/ V2E[Cur(e)] = e /\ Predecessors(e) = {}
      \/ V2E[Cur(e)] # e /\ \E p \in Edges : Predecessors(e) = {p}

(* At the barrier the list of a vertex holds the edges that leave it, all of *)
(* them: what the second loop looks up is complete, whatever the schedule.   *)
Leaving(v) == {e \in Edges : Cur(e) = v /\ ~Degenerate(e)}
(* The opposites of an edge, by the mesh alone.                              *)
Facing(e) == {o \in Leaving(Nxt(e)) : Nxt(o) = Cur(e)}

(* The flags are exact, and away from flagged vertices E2E pairs each edge   *)
(* with its only opposite, both ways: the racing writes of several edges to  *)
(* one entry of E2E are confined to edges between flagged vertices.          *)
OppositesArePaired ==
  loop \in {"walk", "done"} =>
    /\ nonManifold = UNION {{Cur(e), Nxt(e)} :
                              e \in {d \in Edges : ~Degenerate(d) /\ Cardinality(Facing(d)) > 1}}
    /\ \A e \in Edges :
         ~Degenerate(e) /\ ~({Cur(e), Nxt(e)} \subseteq nonManifold) =>
           IF Facing(e) = {} THEN E2E[e] = INVALID
           ELSE Facing(e) = {E2E[e]} /\ E2E[E2E[e]] = e

(* What the walk leaves: a boundary vertex has the edge of a fan that no     *)
(* edge comes before; any other unflagged vertex the smallest edge of a      *)
(* closed fan.  At a vertex with a single fan that determines V2E, so the    *)
(* result does not depend on the order in which the lists were built.        *)
First(e) == dedge_prev(e) \in Edges /\ Facing(dedge_prev(e)) = {}
Around(e) ==
  LET nth[n \in Nat] == IF n = 0 THEN e
                        ELSE IF nth[n - 1] = INVALID THEN INVALID
                        ELSE E2E[dedge_prev(nth[n - 1])]
  IN  Edges \intersect {nth[n] : n \in 0 .. Cardinality(Edges)}
VerticesStartTheirFan ==
  loop = "done" =>
    \A v \in Vertices :
      LET e == V2E[v] IN
        /\ (e = INVALID) <=> (Leaving(v) = {} \/ v \in nonManifold)
        /\ e # INVALID =>
             /\ e \in Leaving(v)
             /\ (v \in boundary) <=> First(e)
             /\ v \notin boundary => \A o \in Around(e) : o = e \/ Before(e, o)

(* All three loops come to their end on every mesh: in particular the walk   *)
(* around an unflagged vertex returns to the edge it started from.           *)
Termination == <>(loop = "done")
=============================================================================
