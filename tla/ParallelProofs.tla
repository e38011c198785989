---------------------------- MODULE ParallelProofs ---------------------------
(***************************************************************************)
(* What the threaded loops prepare for the field and for the quads.        *)
(*                                                                         *)
(* DirectEdge, for every mesh, whatever its size and its faces: type       *)
(* correctness, and that the racing insertions lose no edge; then that the *)
(* second loop flags and pairs what the mesh alone says, and that the      *)
(* third starts every fan at its first or its smallest edge.               *)
(*                                                                         *)
(* GraphColoring: the mutexes of the parallel coloring do what they are    *)
(* for.  For every graph, every number of bodies and every cut of the      *)
(* loops, the shuffle stays a permutation, the coloring is a serial greedy *)
(* one in some order, and neighbours have different colors.                *)
(*                                                                         *)
(* GraphLevels: the levels that are colored are graphs that weigh and      *)
(* split the mesh as they should.                                          *)
(***************************************************************************)
EXTENDS DirectEdge, GraphColoring, GraphLevels, FiniteSetTheorems, RecursionTheorems, TLAPS

(* The corners of a mesh are vertices, and the edges of a face form a cycle. *)
LEMMA Shape ==
  ASSUME F \in Meshes
  PROVE  /\ deg \in Nat \ {0} /\ Len(F) \in Nat \ {0}
         /\ \A e \in Edges : /\ e = <<e[1], e[2]>> /\ e[1] \in Faces /\ e[2] \in 1 .. deg
                             /\ Cur(e) \in Vertices /\ Nxt(e) \in Vertices
                             /\ dedge_prev(e) \in Edges
         /\ Vertices # {} /\ NoLink \in Edges
         /\ INVALID \notin Edges
  <1>1. F \in Seq([1 .. deg -> Vertices]) /\ Len(F) > 0 /\ deg \in Nat \ {0}
    BY DirectEdgeAssumption DEF deg
  <1>2. Len(F) \in Nat \ {0}
    BY <1>1
  <1>3. \A f \in Faces : F[f] \in [1 .. deg -> Vertices]
    BY <1>1 DEF Faces
  <1>4. ASSUME NEW e \in Edges
        PROVE  /\ e = <<e[1], e[2]>> /\ e[1] \in Faces /\ e[2] \in 1 .. deg
               /\ Cur(e) \in Vertices /\ Nxt(e) \in Vertices
               /\ dedge_prev(e) \in Edges
    <2>1. e = <<e[1], e[2]>> /\ e[1] \in Faces /\ e[2] \in 1 .. deg
      BY <1>4 DEF Edges
    <2>2. e[2] % deg \in 0 .. deg - 1
      BY <2>1, <1>1
    <2>3. (e[2] % deg) + 1 \in 1 .. deg
      BY <2>2, <1>1
    <2>4. (IF e[2] = 1 THEN deg ELSE e[2] - 1) \in 1 .. deg
      BY <2>1, <1>1
    <2>5. dedge_prev(e) \in Edges
      BY <2>1, <2>4 DEF dedge_prev, Edges
    <2>. QED  BY <2>1, <2>3, <2>5, <1>3 DEF Cur, Nxt
  <1>5. 1 \in Faces /\ 1 \in 1 .. deg
    BY <1>1, <1>2 DEF Faces
  <1>6. Vertices # {} /\ NoLink \in Edges
    BY <1>3, <1>5 DEF NoLink, Edges
  <1>7. INVALID \notin Edges
    BY <1>1, <1>2, DirectEdgeAssumption DEF Edges, Faces
  <1>. QED  BY <1>1, <1>2, <1>4, <1>6, <1>7

(* The mesh does not change, and with it the edges and their ends.           *)
LEMMA MeshIsFixed ==
  ASSUME F' = F
  PROVE  /\ Faces' = Faces /\ deg' = deg /\ Edges' = Edges /\ Link' = Link
         /\ \A e : Cur(e)' = Cur(e) /\ Nxt(e)' = Nxt(e) /\ (Degenerate(e)' <=> Degenerate(e))
  BY DEF Faces, deg, Edges, Link, Cur, Nxt, Degenerate

-----------------------------------------------------------------------------
(* A thread that searches a list has reached an edge.                        *)
Searching == \A f \in Faces : pc[f] = "tail" => at[f] \in Edges

Typed == TypeOK /\ (loop = "insert" => Searching)

LEMMA InitTyped == Init => Typed
  <1> SUFFICES ASSUME Init PROVE Typed
    OBVIOUS
  <1>1. F \in Meshes
    BY DEF Init
  <1>2. (CHOOSE v \in Vertices : TRUE) \in Vertices
    BY <1>1, Shape
  <1>. QED
    BY <1>1, <1>2, Shape DEF Init, Typed, TypeOK, Searching, Link

LEMMA EdgeOfThread ==
  ASSUME TypeOK, NEW f \in Faces, NEW where, At(f, where)
  PROVE  /\ edge_id(f) \in Edges /\ edge_id(f)[1] = f /\ edge_id(f)[2] = corner[f]
         /\ corner[f] \in 1 .. deg
  BY DEF At, edge_id, Edges

LEMMA NextCornerTyped ==
  ASSUME TypeOK, NEW f \in Faces, corner[f] \in 1 .. deg,
         NEW where \in {"fill", "look"}, NextCorner(f, where)
  PROVE  /\ corner' \in [Faces -> 1 .. deg + 1]
         /\ pc' \in [Faces -> {"fill", "head", "tail", "look", "back", "idle"}]
         /\ at' \in [Faces -> Link]
         /\ \A g \in Faces : pc'[g] = "tail" => g # f /\ pc[g] = "tail" /\ at'[g] = at[g]
  <1>1. deg \in Nat \ {0}
    BY Shape DEF TypeOK
  <1>2. corner[f] + 1 \in 1 .. deg + 1
    BY <1>1
  <1>3. corner' \in [Faces -> 1 .. deg + 1]
    BY <1>2 DEF NextCorner, TypeOK
  <1>. QED  BY <1>3 DEF NextCorner, TypeOK, Link

Walking == [done : BOOLEAN, edge : Link, v2e : Link]

(* Storing an edge at a vertex, and the state of a walk.                     *)
LEMMA WalkTyped ==
  ASSUME TypeOK, NEW v \in Vertices
  PROVE  /\ \A e \in Link : [V2E EXCEPT ![v] = e] \in [Vertices -> Link]
         /\ \A d \in BOOLEAN, e \in Link, o \in Link :
              [walk EXCEPT ![v] = [done |-> d, edge |-> e, v2e |-> o]] \in [Vertices -> Walking]
  <1>1. walk \in [Vertices -> Walking] /\ V2E \in [Vertices -> Link]
    BY DEF TypeOK, Walking
  <1>2. \A d \in BOOLEAN, e \in Link, o \in Link :
          [done |-> d, edge |-> e, v2e |-> o] \in Walking
    BY DEF Walking
  <1>. QED  BY <1>1, <1>2

LEMMA StepTyped == Typed /\ [Next]_vars => Typed'
  <1> SUFFICES ASSUME Typed, [Next]_vars PROVE Typed'
    OBVIOUS
  <1>1. TypeOK /\ F \in Meshes
    BY DEF Typed, TypeOK
  <1>2. F' = F
    BY DEF Next, vars, SkipDegenerate, Fill, InsertHead, InsertTail, Match, LinkBack,
           LoopEnds, BeginWalk, Turn, WalksEnd
  <1>3. /\ Faces' = Faces /\ deg' = deg /\ Edges' = Edges /\ Link' = Link
    BY <1>2, MeshIsFixed
  <1>4. ASSUME NEW f \in Faces, SkipDegenerate(f) PROVE Typed'
    <2>1. corner[f] \in 1 .. deg /\ NextCorner(f, "fill")
      BY <1>4 DEF SkipDegenerate, At
    <2>. QED
      BY <1>1, <1>3, <1>4, <2>1, NextCornerTyped DEF SkipDegenerate, Typed, TypeOK, Searching
  <1>5. ASSUME NEW f \in Faces, Fill(f) PROVE Typed'
    <2>1. edge_id(f) \in Edges
      BY <1>1, <1>5, EdgeOfThread DEF Fill
    <2>2. [first |-> Nxt(edge_id(f)), second |-> INVALID] \in [first : Vertices, second : Link]
      BY <1>1, <2>1, Shape DEF Link
    <2>. QED
      BY <1>1, <1>3, <1>5, <2>1, <2>2 DEF Fill, Typed, TypeOK, Searching
  <1>6. ASSUME NEW f \in Faces, InsertHead(f) PROVE Typed'
    <2>1. /\ edge_id(f) \in Edges /\ Cur(edge_id(f)) \in Vertices /\ corner[f] \in 1 .. deg
          /\ edge_id(f) \in Link
      BY <1>1, <1>6, EdgeOfThread, Shape DEF InsertHead, Link
    <2>2. CASE V2E[Cur(edge_id(f))] = INVALID
      <3>1. NextCorner(f, "fill") /\ V2E' = [V2E EXCEPT ![Cur(edge_id(f))] = edge_id(f)]
        BY <1>6, <2>2 DEF InsertHead
      <3>2. V2E' \in [Vertices -> Link]
        BY <1>1, <2>1, <3>1 DEF TypeOK
      <3>. QED
        BY <1>1, <1>3, <1>6, <2>1, <3>1, <3>2, NextCornerTyped
           DEF InsertHead, Typed, TypeOK, Searching
    <2>3. CASE V2E[Cur(edge_id(f))] # INVALID
      <3>1. V2E[Cur(edge_id(f))] \in Edges
        BY <1>1, <2>1, <2>3 DEF TypeOK, Link
      <3>. QED
        BY <1>1, <1>3, <1>6, <2>3, <3>1 DEF InsertHead, Typed, TypeOK, Searching, Link
    <2>. QED  BY <2>2, <2>3
  <1>7. ASSUME NEW f \in Faces, InsertTail(f) PROVE Typed'
    <2>1. edge_id(f) \in Edges /\ corner[f] \in 1 .. deg /\ edge_id(f) \in Link
      BY <1>1, <1>7, EdgeOfThread DEF InsertTail, Link
    <2>2. at[f] \in Edges
      BY <1>7 DEF InsertTail, At, Typed, Searching
    <2>3. CASE tmp[at[f]].second = INVALID
      <3>1. NextCorner(f, "fill") /\ tmp' = [tmp EXCEPT ![at[f]].second = edge_id(f)]
        BY <1>7, <2>3 DEF InsertTail
      <3>2. tmp' \in [Edges -> [first : Vertices, second : Link]]
        BY <1>1, <2>1, <2>2, <3>1 DEF TypeOK
      <3>. QED
        BY <1>1, <1>3, <1>7, <2>1, <3>1, <3>2, NextCornerTyped
           DEF InsertTail, Typed, TypeOK, Searching
    <2>4. CASE tmp[at[f]].second # INVALID
      <3>1. tmp[at[f]].second \in Edges
        BY <1>1, <2>2, <2>4 DEF TypeOK, Link
      <3>. QED
        BY <1>1, <1>3, <1>7, <2>4, <3>1 DEF InsertTail, Typed, TypeOK, Searching, Link
    <2>. QED  BY <2>3, <2>4
  <1>8. ASSUME NEW f \in Faces, Match(f) PROVE Typed'
    <2>1. /\ edge_id(f) \in Edges /\ corner[f] \in 1 .. deg /\ edge_id(f) \in Link
          /\ Cur(edge_id(f)) \in Vertices /\ Nxt(edge_id(f)) \in Vertices
      BY <1>1, <1>8, EdgeOfThread, Shape DEF Match, Link
    <2>2. CASE NextCorner(f, "look") /\ E2E' = E2E /\ nonManifold' \subseteq Vertices
      BY <1>1, <1>3, <1>8, <2>1, <2>2, NextCornerTyped DEF Match, Typed, TypeOK
    <2>3. CASE /\ nonManifold' = nonManifold /\ corner' = corner
               /\ \E o \in Edges : /\ E2E' = [E2E EXCEPT ![edge_id(f)] = o]
                                   /\ at' = [at EXCEPT ![f] = o]
                                   /\ pc' = [pc EXCEPT ![f] = "back"]
      BY <1>1, <1>3, <1>8, <2>1, <2>3 DEF Match, Typed, TypeOK, Link
    <2>4. Opposites(edge_id(f)) \subseteq Edges
      BY DEF Opposites, List
    <2>. QED  BY <1>1, <1>8, <2>1, <2>2, <2>3, <2>4 DEF Match, TypeOK
  <1>9. ASSUME NEW f \in Faces, LinkBack(f) PROVE Typed'
    <2>1. corner[f] \in 1 .. deg /\ NextCorner(f, "look") /\ edge_id(f) \in Link
      BY <1>1, <1>9, EdgeOfThread DEF LinkBack, At, Link
    <2>2. E2E' \in [Edges -> Link]
      BY <1>1, <1>9, <2>1 DEF LinkBack, TypeOK
    <2>. QED
      BY <1>1, <1>3, <1>9, <2>1, <2>2, NextCornerTyped DEF LinkBack, Typed, TypeOK
  <1>10. ASSUME NEW which, NEW then \in {"match", "walk"}, NEW where \in {"look", "idle"},
                LoopEnds(which, then, where)
         PROVE  Typed'
    <2>1. 1 \in 1 .. deg + 1
      BY <1>1, Shape
    <2>. QED  BY <1>1, <1>3, <1>10, <2>1 DEF LoopEnds, Typed, TypeOK, Searching
  <1>11. ASSUME NEW v \in Vertices, BeginWalk(v) PROVE Typed'
    <2>1. V2E' \in [Vertices -> Link] /\ walk' \in [Vertices -> Walking]
      <3>1. /\ V2E[v] \in Link /\ INVALID \in Link
            /\ V2E \in [Vertices -> Link]
        BY <1>1 DEF TypeOK, Link
      <3>2. CASE Finish(v, INVALID)
        BY <1>1, <3>1, <3>2, WalkTyped DEF Finish
      <3>3. CASE /\ walk' = [walk EXCEPT ![v] = [done |-> FALSE, edge |-> V2E[v], v2e |-> INVALID]]
                 /\ V2E' = V2E
        BY <1>1, <3>1, <3>3, WalkTyped
      <3>. QED  BY <1>11, <3>2, <3>3 DEF BeginWalk
    <2>2. loop = "walk" /\ UNCHANGED <<F, loop, corner, pc, at, tmp, E2E, nonManifold, boundary>>
      BY <1>11 DEF BeginWalk
    <2>. QED  BY <1>1, <1>3, <2>1, <2>2 DEF Typed, TypeOK, Walking
  <1>12. ASSUME NEW v \in Vertices, Turn(v) PROVE Typed'
    <2>1. walk[v].edge \in Edges /\ walk[v].v2e \in Link
      BY <1>1, <1>12 DEF Turn, TypeOK, Link
    <2>2. E2E[dedge_prev(walk[v].edge)] \in Link
      BY <1>1, <2>1, Shape DEF TypeOK
    <2>3. SmallerEdge(walk[v].v2e, walk[v].edge) \in Link /\ walk[v].edge \in Link
      BY <2>1 DEF SmallerEdge, Link
    <2>4. V2E' \in [Vertices -> Link] /\ walk' \in [Vertices -> Walking]
      <3> DEFINE edge == walk[v].edge
                 v2e  == SmallerEdge(walk[v].v2e, edge)
                 prev == E2E[dedge_prev(edge)]
      <3>1. /\ edge \in Link /\ v2e \in Link /\ prev \in Link /\ INVALID \in Link
            /\ V2E \in [Vertices -> Link]
        BY <1>1, <2>2, <2>3 DEF TypeOK, Link
      <3>2. \/ Finish(v, edge)
            \/ Finish(v, v2e)
            \/ /\ V2E' = V2E
               /\ walk' = [walk EXCEPT ![v] = [done |-> FALSE, edge |-> prev, v2e |-> v2e]]
        BY <1>12 DEF Turn
      <3> HIDE DEF edge, v2e, prev
      <3>3. ASSUME NEW e \in Link, Finish(v, e)
            PROVE  V2E' \in [Vertices -> Link] /\ walk' \in [Vertices -> Walking]
        BY <1>1, <3>1, <3>3, WalkTyped DEF Finish
      <3>4. CASE /\ V2E' = V2E
                 /\ walk' = [walk EXCEPT ![v] = [done |-> FALSE, edge |-> prev, v2e |-> v2e]]
        BY <1>1, <3>1, <3>4, WalkTyped
      <3>. QED  BY <3>1, <3>2, <3>3, <3>4
    <2>5. /\ loop = "walk" /\ UNCHANGED <<F, loop, corner, pc, at, tmp, E2E, nonManifold>>
          /\ boundary' \subseteq Vertices
      BY <1>1, <1>12 DEF Turn, TypeOK
    <2>. QED  BY <1>1, <1>3, <2>4, <2>5 DEF Typed, TypeOK, Walking
  <1>13. CASE WalksEnd
    BY <1>1, <1>3, <1>13 DEF WalksEnd, Typed, TypeOK
  <1>14. CASE UNCHANGED vars
    BY <1>1, <1>3, <1>14 DEF vars, Typed, TypeOK, Searching
  <1>. QED
    BY <1>4, <1>5, <1>6, <1>7, <1>8, <1>9, <1>10, <1>11, <1>12, <1>13, <1>14 DEF Next

(* The state of the three loops stays well typed, on every mesh.             *)
THEOREM TypeCorrect == Spec => []TypeOK
  <1>1. Typed => TypeOK
    BY DEF Typed
  <1>. QED  BY InitTyped, StepTyped, <1>1, PTL DEF Spec

-----------------------------------------------------------------------------
(***************************************************************************)
(* Why no insertion is lost.  Heads and links lead from inserted edges to  *)
(* inserted edges of the same vertex; a thread that searches stands on one *)
(* of them; each inserted edge is led to, and from one place only.         *)
(***************************************************************************)
Threads ==
  \A f \in Faces :
    /\ pc[f] \in {"head", "tail"} =>
         /\ corner[f] \in 1 .. deg /\ ~Degenerate(edge_id(f))
         /\ tmp[edge_id(f)].second = INVALID
    /\ pc[f] = "tail" => /\ at[f] \in Inserted /\ Cur(at[f]) = Cur(edge_id(f))
                         /\ V2E[Cur(edge_id(f))] # INVALID

Heads == \A v \in Vertices : V2E[v] # INVALID => V2E[v] \in Inserted /\ Cur(V2E[v]) = v

Links ==
  \A e \in Inserted : tmp[e].second # INVALID =>
    /\ tmp[e].second \in Inserted /\ Cur(tmp[e].second) = Cur(e)
    /\ V2E[Cur(e)] # tmp[e].second
    /\ \A o \in Inserted : tmp[o].second = tmp[e].second => o = e

Reached ==
  \A e \in Inserted :
    V2E[Cur(e)] = e \/ \E o \in Inserted : tmp[o].second = e /\ Cur(o) = Cur(e)

ListsInv == Heads /\ Links /\ Reached

InsertInv ==
  /\ Typed
  /\ loop = "insert" => Threads
  /\ loop \in {"insert", "match"} => ListsInv

LEMMA InitInsert == Init => InsertInv
  <1> SUFFICES ASSUME Init PROVE InsertInv
    OBVIOUS
  <1>1. Typed
    BY InitTyped
  <1>2. Inserted = {}
    <2>1. \A e \in Edges : ~(e[2] < corner[e[1]])
      BY Shape DEF Init
    <2>. QED  BY <2>1 DEF Inserted, Init
  <1>. QED
    BY <1>1, <1>2 DEF Init, InsertInv, Threads, ListsInv, Heads, Links, Reached

(* What going on to the next corner does to the set of inserted edges.       *)
LEMMA InsertedGrows ==
  ASSUME TypeOK, F' = F, loop = "insert", loop' = loop, NEW f \in Faces,
         corner[f] \in 1 .. deg, corner' = [corner EXCEPT ![f] = @ + 1]
  PROVE  /\ edge_id(f) \in Edges \ Inserted
         /\ Inserted' = IF Degenerate(edge_id(f)) THEN Inserted
                        ELSE Inserted \union {edge_id(f)}
  <1>1. deg \in Nat \ {0} /\ F \in Meshes
    BY Shape DEF TypeOK
  <1>2. /\ Edges' = Edges /\ \A e : (Degenerate(e)' <=> Degenerate(e))
    BY MeshIsFixed
  <1>3. edge_id(f) \in Edges /\ edge_id(f)[1] = f /\ edge_id(f)[2] = corner[f]
    BY DEF edge_id, Edges
  <1>4. edge_id(f) \notin Inserted
    BY <1>1, <1>3 DEF Inserted
  <1>5. ASSUME NEW e \in Edges
        PROVE  (e[2] < corner'[e[1]]) <=> (e[2] < corner[e[1]] \/ e = edge_id(f))
    <2>1. /\ e = <<e[1], e[2]>> /\ e[1] \in Faces /\ e[2] \in 1 .. deg
      BY <1>1, Shape
    <2>2. corner[e[1]] \in 1 .. deg + 1
      BY <2>1 DEF TypeOK
    <2>3. CASE e[1] # f
      BY <2>1, <2>3, <1>3 DEF TypeOK
    <2>4. CASE e[1] = f
      <3>1. corner'[e[1]] = corner[f] + 1
        BY <2>4 DEF TypeOK
      <3>2. e = edge_id(f) <=> e[2] = corner[f]
        BY <2>1, <2>4, <1>3 DEF edge_id
      <3>. QED  BY <1>1, <2>1, <2>2, <2>4, <3>1, <3>2
    <2>. QED  BY <2>3, <2>4
  <1>. QED  BY <1>2, <1>3, <1>4, <1>5 DEF Inserted

LEMMA InsertedStays ==
  ASSUME F' = F, loop' = loop, corner' = corner
  PROVE  Inserted' = Inserted
  BY MeshIsFixed DEF Inserted

(* The threads of two faces work on different edges.                         *)
LEMMA OwnEdge ==
  ASSUME NEW f \in Faces, NEW g \in Faces, g # f
  PROVE  edge_id(g) # edge_id(f)
  BY DEF edge_id

(* A thread that goes on to its next corner, having inserted its edge or     *)
(* skipped it, leaves the others where they are.                             *)
LEMMA NextCornerThreads ==
  ASSUME TypeOK, Threads, F' = F, NEW f \in Faces, NextCorner(f, "fill"),
         Inserted \subseteq Inserted',
         \A g \in Faces : g # f /\ pc[g] \in {"head", "tail"}
                            => tmp'[edge_id(g)].second = INVALID,
         \A v \in Vertices : V2E[v] # INVALID => V2E'[v] # INVALID,
         \A g \in Faces : pc[g] = "tail" => Cur(edge_id(g)) \in Vertices
  PROVE  Threads'
  <1> SUFFICES ASSUME NEW g \in Faces
               PROVE  /\ pc'[g] \in {"head", "tail"} =>
                           /\ corner'[g] \in 1 .. deg' /\ ~Degenerate(edge_id(g))'
                           /\ tmp'[edge_id(g)'].second = INVALID
                      /\ pc'[g] = "tail" =>
                           /\ at'[g] \in Inserted' /\ Cur(at[g])' = Cur(edge_id(g))'
                           /\ V2E'[Cur(edge_id(g))'] # INVALID
    BY MeshIsFixed DEF Threads
  <1>1. pc'[f] = "fill"
    BY DEF NextCorner, TypeOK
  <1>2. CASE g # f
    <2>1. corner'[g] = corner[g] /\ pc'[g] = pc[g] /\ at'[g] = at[g]
      BY <1>2 DEF NextCorner, TypeOK
    <2>2. edge_id(g)' = edge_id(g)
      BY <2>1 DEF edge_id
    <2>3. /\ deg' = deg /\ (Degenerate(edge_id(g))' <=> Degenerate(edge_id(g)))
          /\ Cur(edge_id(g))' = Cur(edge_id(g)) /\ Cur(at[g])' = Cur(at[g])
      BY <2>1, <2>2 DEF deg, Degenerate, Cur, Nxt
    <2>. QED  BY <1>2, <2>1, <2>2, <2>3 DEF Threads
  <1>. QED  BY <1>1, <1>2

LEMMA ListsKept ==
  ASSUME ListsInv, UNCHANGED <<F, tmp, V2E>>, Inserted' = Inserted
  PROVE  ListsInv'
  <1>1. \A e : Cur(e)' = Cur(e)
    BY MeshIsFixed
  <1>. QED  BY <1>1 DEF ListsInv, Heads, Links, Reached

LEMMA SkipKeeps ==
  ASSUME InsertInv, NEW f \in Faces, SkipDegenerate(f)
  PROVE  Threads' /\ ListsInv'
  <1>1. /\ TypeOK /\ Threads /\ ListsInv /\ loop = "insert"
        /\ corner[f] \in 1 .. deg /\ NextCorner(f, "fill") /\ Degenerate(edge_id(f))
        /\ UNCHANGED <<F, loop, tmp, V2E>>
    BY DEF InsertInv, Typed, SkipDegenerate, At
  <1>2. Inserted' = Inserted
    BY <1>1, InsertedGrows DEF NextCorner
  <1>3. \A g \in Faces : pc[g] = "tail" => Cur(edge_id(g)) \in Vertices
    BY <1>1, Shape DEF Threads, edge_id, Edges, TypeOK
  <1>4. Threads'
    BY <1>1, <1>2, <1>3, NextCornerThreads DEF Threads
  <1>. QED  BY <1>1, <1>2, <1>4, ListsKept

LEMMA FillKeeps ==
  ASSUME InsertInv, NEW f \in Faces, Fill(f)
  PROVE  Threads' /\ ListsInv'
  <1>1. /\ TypeOK /\ Threads /\ ListsInv /\ loop = "insert" /\ F' = F
        /\ corner[f] \in 1 .. deg /\ ~Degenerate(edge_id(f)) /\ edge_id(f) \in Edges
    BY EdgeOfThread DEF InsertInv, Typed, Fill, At
  <1>2. /\ Inserted' = Inserted /\ edge_id(f) \notin Inserted
    <2>1. Inserted' = Inserted
      BY InsertedStays DEF Fill
    <2>2. edge_id(f)[1] = f /\ edge_id(f)[2] = corner[f] /\ deg \in Nat
      BY <1>1, Shape DEF edge_id, TypeOK
    <2>. QED  BY <1>1, <2>1, <2>2 DEF Inserted
  <1>3. /\ deg' = deg /\ Faces' = Faces
        /\ \A e : Cur(e)' = Cur(e) /\ (Degenerate(e)' <=> Degenerate(e))
    BY <1>1, MeshIsFixed
  <1>4. \A g : edge_id(g)' = edge_id(g)
    BY DEF edge_id, Fill
  <1>5. \A e \in Edges : e # edge_id(f) => tmp'[e] = tmp[e]
    BY <1>1 DEF Fill, TypeOK
  <1>6. tmp'[edge_id(f)].second = INVALID
    BY <1>1 DEF Fill, TypeOK
  <1>7. Threads'
    <2> SUFFICES ASSUME NEW g \in Faces, pc'[g] \in {"head", "tail"}
                 PROVE  /\ corner[g] \in 1 .. deg /\ ~Degenerate(edge_id(g))
                        /\ tmp'[edge_id(g)].second = INVALID
                        /\ pc'[g] = "tail" => /\ at[g] \in Inserted
                                              /\ Cur(at[g]) = Cur(edge_id(g))
                                              /\ V2E[Cur(edge_id(g))] # INVALID
      BY <1>2, <1>3, <1>4 DEF Threads, Fill
    <2>1. CASE g = f
      BY <1>1, <1>6, <2>1 DEF Fill, TypeOK
    <2>2. CASE g # f
      <3>1. pc[g] = pc'[g] /\ edge_id(g) # edge_id(f)
        BY <2>2, OwnEdge DEF Fill, TypeOK
      <3>2. edge_id(g) \in Edges
        BY <3>1 , <1>1 DEF Threads, edge_id, Edges
      <3>. QED  BY <1>1, <1>5, <3>1, <3>2 DEF Threads
    <2>. QED  BY <2>1, <2>2
  <1>8. ListsInv'
    <2>1. \A e \in Inserted : tmp'[e] = tmp[e]
      BY <1>2, <1>5 DEF Inserted
    <2>. QED  BY <1>1, <1>2, <1>3, <2>1 DEF ListsInv, Heads, Links, Reached, Fill
  <1>. QED  BY <1>7, <1>8

(* Where the thread of a face stands when it is about to link its edge.      *)
LEMMA ThreadFacts ==
  ASSUME InsertInv, loop = "insert", NEW f \in Faces, pc[f] \in {"head", "tail"}
  PROVE  /\ TypeOK /\ Threads /\ ListsInv
         /\ corner[f] \in 1 .. deg /\ edge_id(f) \in Edges \ Inserted
         /\ Cur(edge_id(f)) \in Vertices /\ edge_id(f) # INVALID
         /\ ~Degenerate(edge_id(f)) /\ tmp[edge_id(f)].second = INVALID
  <1>1. TypeOK /\ Threads /\ ListsInv
    BY DEF InsertInv, Typed
  <1>2. corner[f] \in 1 .. deg /\ ~Degenerate(edge_id(f)) /\ tmp[edge_id(f)].second = INVALID
    BY <1>1 DEF Threads
  <1>3. edge_id(f) \in Edges /\ edge_id(f)[1] = f /\ edge_id(f)[2] = corner[f]
    BY <1>2 DEF edge_id, Edges
  <1>4. F \in Meshes
    BY <1>1 DEF TypeOK
  <1>5. Cur(edge_id(f)) \in Vertices /\ edge_id(f) # INVALID /\ deg \in Nat
    BY <1>3, <1>4, Shape
  <1>6. edge_id(f) \notin Inserted
    BY <1>2, <1>3, <1>5 DEF Inserted
  <1>. QED  BY <1>1, <1>2, <1>3, <1>5, <1>6

(* An exchange that failed, or the step along a link, moves only the cursor. *)
LEMMA SearchKeeps ==
  ASSUME InsertInv, loop = "insert", NEW f \in Faces, pc[f] \in {"head", "tail"},
         NEW e \in Inserted, Cur(e) = Cur(edge_id(f)), V2E[Cur(edge_id(f))] # INVALID,
         pc' = [pc EXCEPT ![f] = "tail"], at' = [at EXCEPT ![f] = e],
         UNCHANGED <<F, loop, corner, tmp, V2E>>
  PROVE  Threads' /\ ListsInv'
  <1>1. TypeOK /\ Threads /\ ListsInv
    BY ThreadFacts
  <1>2. Inserted' = Inserted
    BY InsertedStays
  <1>3. /\ deg' = deg /\ Faces' = Faces
        /\ \A d : Cur(d)' = Cur(d) /\ (Degenerate(d)' <=> Degenerate(d))
        /\ \A g : edge_id(g)' = edge_id(g)
    BY MeshIsFixed DEF edge_id
  <1>4. Threads'
    <2> SUFFICES ASSUME NEW g \in Faces, pc'[g] \in {"head", "tail"}
                 PROVE  /\ corner[g] \in 1 .. deg /\ ~Degenerate(edge_id(g))
                        /\ tmp[edge_id(g)].second = INVALID
                        /\ pc'[g] = "tail" => /\ at'[g] \in Inserted
                                              /\ Cur(at'[g]) = Cur(edge_id(g))
                                              /\ V2E[Cur(edge_id(g))] # INVALID
      BY <1>2, <1>3 DEF Threads, Cur
    <2>1. CASE g = f
      BY <1>1, <2>1 DEF Threads, TypeOK
    <2>2. CASE g # f
      BY <1>1, <2>2 DEF Threads, TypeOK
    <2>. QED  BY <2>1, <2>2
  <1>. QED  BY <1>1, <1>2, <1>4, ListsKept

LEMMA InsertHeadKeeps ==
  ASSUME InsertInv, NEW f \in Faces, InsertHead(f)
  PROVE  Threads' /\ ListsInv'
  <1> DEFINE x == edge_id(f)
             c == Cur(x)
  <1>1. loop = "insert" /\ pc[f] = "head" /\ UNCHANGED <<F, loop, tmp>>
    BY DEF InsertHead, At
  <1>2. /\ TypeOK /\ Threads /\ ListsInv /\ corner[f] \in 1 .. deg
        /\ x \in Edges \ Inserted /\ c \in Vertices /\ x # INVALID
        /\ ~Degenerate(x) /\ tmp[x].second = INVALID
    BY <1>1, ThreadFacts
  <1>3. \A e : Cur(e)' = Cur(e)
    BY <1>1, MeshIsFixed
  <1>4. CASE V2E[c] = INVALID
    <2>1. V2E' = [V2E EXCEPT ![c] = x] /\ NextCorner(f, "fill")
      BY <1>4 DEF InsertHead
    <2>2. Inserted' = Inserted \union {x}
      BY <1>1, <1>2, <2>1, InsertedGrows DEF NextCorner
    <2>3. \A v \in Vertices : V2E'[v] = IF v = c THEN x ELSE V2E[v]
      BY <1>2, <2>1 DEF TypeOK
    <2>4. \A g \in Faces : pc[g] = "tail" => Cur(edge_id(g)) \in Vertices
      BY <1>1, ThreadFacts
    <2>5. Threads'
      BY <1>1, <1>2, <2>1, <2>2, <2>3, <2>4, NextCornerThreads DEF Threads
    <2>6. \A e \in Inserted : e \in Edges /\ Cur(e) \in Vertices /\ e # INVALID
      BY <1>2, Shape DEF Inserted, TypeOK
    <2> HIDE DEF x, c
    <2>7. Heads'
      BY <1>2, <1>3, <2>2, <2>3 DEF ListsInv, Heads, x, c
    <2>8. Links'
      BY <1>1, <1>2, <1>3, <2>2, <2>3, <2>6 DEF ListsInv, Links
    <2>9. Reached'
      <3>1. ASSUME NEW e \in Inserted
            PROVE  V2E'[Cur(e)] = e \/ \E o \in Inserted : tmp[o].second = e /\ Cur(o) = Cur(e)
        <4>1. V2E[Cur(e)] = e => Cur(e) # c
          BY <1>4, <2>6
        <4>. QED  BY <1>2, <2>3, <2>6, <4>1 DEF ListsInv, Reached
      <3>2. V2E'[Cur(x)] = x
        BY <1>2, <2>3 DEF c
      <3>. QED  BY <1>1, <1>3, <2>2, <3>1, <3>2 DEF Reached
    <2>. QED  BY <2>5, <2>7, <2>8, <2>9 DEF ListsInv
  <1>5. CASE V2E[c] # INVALID
    <2>1. V2E[c] \in Inserted /\ Cur(V2E[c]) = c
      BY <1>2, <1>5 DEF ListsInv, Heads
    <2>2. /\ pc' = [pc EXCEPT ![f] = "tail"] /\ at' = [at EXCEPT ![f] = V2E[c]]
          /\ UNCHANGED <<V2E, corner>>
      BY <1>5 DEF InsertHead
    <2>. QED  BY <1>1, <1>5, <2>1, <2>2, SearchKeeps
  <1>. QED  BY <1>4, <1>5

LEMMA InsertTailKeeps ==
  ASSUME InsertInv, NEW f \in Faces, InsertTail(f)
  PROVE  Threads' /\ ListsInv'
  <1> DEFINE x == edge_id(f)
             a == at[f]
  <1>1. loop = "insert" /\ pc[f] = "tail" /\ UNCHANGED <<F, loop, V2E>>
    BY DEF InsertTail, At
  <1>2. /\ TypeOK /\ Threads /\ ListsInv /\ corner[f] \in 1 .. deg
        /\ x \in Edges \ Inserted /\ Cur(x) \in Vertices /\ x # INVALID
        /\ ~Degenerate(x) /\ tmp[x].second = INVALID
    BY <1>1, ThreadFacts
  <1>3. a \in Inserted /\ Cur(a) = Cur(x) /\ V2E[Cur(x)] # INVALID
    BY <1>1, <1>2 DEF Threads
  <1>4. \A e : Cur(e)' = Cur(e)
    BY <1>1, MeshIsFixed
  <1>5. CASE tmp[a].second = INVALID
    <2>1. tmp' = [tmp EXCEPT ![a].second = x] /\ NextCorner(f, "fill")
      BY <1>5 DEF InsertTail
    <2>2. Inserted' = Inserted \union {x}
      BY <1>1, <1>2, <2>1, InsertedGrows DEF NextCorner
    <2>3. \A e \in Edges : tmp'[e].second = IF e = a THEN x ELSE tmp[e].second
      BY <1>2, <2>1 DEF TypeOK
    <2>4. \A e \in Inserted : e \in Edges /\ Cur(e) \in Vertices /\ e # INVALID
      BY <1>2, Shape DEF Inserted, TypeOK
    <2>5. \A g \in Faces : pc[g] \in {"head", "tail"} =>
            /\ Cur(edge_id(g)) \in Vertices /\ edge_id(g) \in Edges \ Inserted
            /\ tmp[edge_id(g)].second = INVALID
      BY <1>1, ThreadFacts
    <2>6. Threads'
      <3>1. \A g \in Faces : g # f /\ pc[g] \in {"head", "tail"}
                              => tmp'[edge_id(g)].second = INVALID
        BY <1>3, <2>3, <2>5
      <3>2. Inserted \subseteq Inserted'
        BY <2>2
      <3>. QED  BY <1>1, <1>2, <2>1, <2>5, <3>1, <3>2, NextCornerThreads
    <2> HIDE DEF x, a
    <2>7. Heads'
      BY <1>1, <1>2, <1>4, <2>2 DEF ListsInv, Heads
    <2>8. /\ tmp'[x].second = INVALID /\ tmp'[a].second = x
          /\ \A e \in Inserted : e # a => tmp'[e].second = tmp[e].second
      BY <1>2, <1>3, <2>3, <2>4
    <2>9. Links'
      <3>1. ASSUME NEW e \in Inserted \ {a}, tmp[e].second # INVALID
            PROVE  /\ tmp[e].second \in Inserted /\ Cur(tmp[e].second) = Cur(e)
                   /\ V2E[Cur(e)] # tmp[e].second
                   /\ \A o \in Inserted' : tmp'[o].second = tmp[e].second => o = e
        BY <1>2, <2>2, <2>8, <3>1 DEF ListsInv, Links
      <3>2. /\ V2E[Cur(a)] # x
            /\ \A o \in Inserted' : tmp'[o].second = x => o = a
        <4>1. V2E[Cur(x)] \in Inserted
          BY <1>2, <1>3 DEF ListsInv, Heads
        <4>2. \A o \in Inserted : tmp[o].second # x
          BY <1>2 DEF ListsInv, Links
        <4>. QED  BY <1>2, <1>3, <2>2, <2>8, <4>1, <4>2
      <3>. QED  BY <1>1, <1>2, <1>3, <1>4, <2>2, <2>8, <3>1, <3>2 DEF Links
    <2>10. Reached'
      <3>1. ASSUME NEW e \in Inserted
            PROVE  V2E[Cur(e)] = e \/ \E o \in Inserted : tmp'[o].second = e /\ Cur(o) = Cur(e)
        <4>1. CASE V2E[Cur(e)] = e
          BY <4>1
        <4>2. CASE \E o \in Inserted : tmp[o].second = e /\ Cur(o) = Cur(e)
          BY <1>5, <2>4, <2>8, <4>2
        <4>. QED  BY <1>2, <4>1, <4>2 DEF ListsInv, Reached
      <3>. QED  BY <1>1, <1>3, <1>4, <2>2, <2>8, <3>1 DEF Reached
    <2>. QED  BY <2>6, <2>7, <2>9, <2>10 DEF ListsInv
  <1>6. CASE tmp[a].second # INVALID
    <2>1. tmp[a].second \in Inserted /\ Cur(tmp[a].second) = Cur(x)
      BY <1>2, <1>3, <1>6 DEF ListsInv, Links
    <2>2. pc' = [pc EXCEPT ![f] = "tail"]
      BY <1>1, <1>2, <1>6 DEF InsertTail, TypeOK
    <2>3. at' = [at EXCEPT ![f] = tmp[a].second] /\ UNCHANGED <<tmp, corner>>
      BY <1>6 DEF InsertTail
    <2>. QED  BY <1>1, <1>3, <2>1, <2>2, <2>3, SearchKeeps
  <1>. QED  BY <1>5, <1>6

(* After the barrier the lists stay as they are.                             *)
LEMMA AfterInsert ==
  ASSUME InsertInv, F' = F,
         \/ loop = "match" /\ UNCHANGED <<tmp, V2E>> /\ loop' \in {"match", "walk"}
         \/ loop \in {"walk", "done"} /\ loop' \in {"walk", "done"}
  PROVE  /\ loop' # "insert"
         /\ loop' \in {"insert", "match"} => ListsInv'
  <1>1. CASE loop = "match" /\ loop' = "match"
    <2>1. Inserted' = Inserted
      BY <1>1, MeshIsFixed DEF Inserted
    <2>. QED  BY <1>1, <2>1, ListsKept DEF InsertInv
  <1>. QED  BY <1>1

LEMMA StepInsert == InsertInv /\ [Next]_vars => InsertInv'
  <1> SUFFICES ASSUME InsertInv, [Next]_vars PROVE InsertInv'
    OBVIOUS
  <1>1. Typed /\ Typed'
    BY StepTyped DEF InsertInv
  <1>2. CASE \E f \in Faces : SkipDegenerate(f) \/ Fill(f) \/ InsertHead(f) \/ InsertTail(f)
    BY <1>1, <1>2, SkipKeeps, FillKeeps, InsertHeadKeeps, InsertTailKeeps DEF InsertInv
  <1>3. CASE LoopEnds("insert", "match", "look")
    <2>1. /\ UNCHANGED <<F, tmp, V2E>> /\ loop = "insert" /\ loop' = "match"
          /\ \A f \in Faces : corner[f] = deg + 1
      BY <1>3 DEF LoopEnds
    <2>2. Inserted' = Inserted
      <3>1. \A e \in Edges : e[1] \in Faces /\ e[2] < deg + 1
        BY <1>1, Shape DEF Typed, TypeOK
      <3>. QED  BY <2>1, <3>1, MeshIsFixed DEF Inserted
    <2>. QED  BY <1>1, <2>1, <2>2, ListsKept DEF InsertInv
  <1>4. CASE LoopEnds("match", "walk", "idle")
    BY <1>1, <1>4, AfterInsert DEF InsertInv, LoopEnds
  <1>5. CASE \E f \in Faces : Match(f) \/ LinkBack(f)
    BY <1>1, <1>5, AfterInsert DEF InsertInv, Match, LinkBack
  <1>6. CASE \E v \in Vertices : BeginWalk(v) \/ Turn(v)
    BY <1>1, <1>6, AfterInsert DEF InsertInv, BeginWalk, Turn
  <1>7. CASE WalksEnd
    BY <1>1, <1>7, AfterInsert DEF InsertInv, WalksEnd
  <1>8. CASE UNCHANGED vars
    <2>1. UNCHANGED <<F, loop, corner, pc, at, tmp, V2E>>
      BY <1>8 DEF vars
    <2>2. Inserted' = Inserted
      BY <2>1, InsertedStays
    <2>. QED
      BY <1>1, <2>1, <2>2, ListsKept
         DEF InsertInv, Threads, Faces, deg, edge_id, Degenerate, Cur, Nxt
  <1>. QED
    BY <1>2, <1>3, <1>4, <1>5, <1>6, <1>7, <1>8 DEF Next

(* However the threads race, no edge drops out of the lists and none is      *)
(* linked twice.                                                             *)
THEOREM NoInsertIsLost == Spec => []NoLostInsert
  <1>1. InsertInv => NoLostInsert
    <2> SUFFICES ASSUME InsertInv, loop \in {"insert", "match"}, NEW e \in Inserted
                 PROVE  \/ V2E[Cur(e)] = e /\ Predecessors(e) = {}
                        \/ V2E[Cur(e)] # e /\ \E p \in Edges : Predecessors(e) = {p}
      BY DEF NoLostInsert
    <2>1. /\ Heads /\ Links /\ Reached /\ Inserted \subseteq Edges /\ e # INVALID
      BY Shape DEF InsertInv, ListsInv, Inserted, Typed, TypeOK
    <2>2. CASE V2E[Cur(e)] = e
      BY <2>1, <2>2 DEF Links, Predecessors
    <2>3. CASE V2E[Cur(e)] # e
      <3>1. PICK p \in Inserted : tmp[p].second = e /\ Cur(p) = Cur(e)
        BY <2>1, <2>3 DEF Reached
      <3>2. Predecessors(e) = {p}
        BY <2>1, <3>1 DEF Links, Predecessors
      <3>. QED  BY <2>1, <2>3, <3>1, <3>2
    <2>. QED  BY <2>2, <2>3
  <1>. QED  BY InitInsert, StepInsert, <1>1, PTL DEF Spec

-----------------------------------------------------------------------------
(***************************************************************************)
(* The two later loops.  At the barrier the lists are complete, so what    *)
(* follows does not depend on the order of the insertions.                 *)
(***************************************************************************)
(* Every non-empty set of inserted edges holds a head, or an edge that is    *)
(* linked from outside of it: no list runs in a circle.                      *)
Grounded ==
  \A S \in SUBSET Inserted : S # {} =>
    \E e \in S : V2E[Cur(e)] = e \/ \E o \in Inserted \ S : tmp[o].second = e

(* The entry of an edge holds its end.                                       *)
Ends ==
  /\ \A e \in Inserted : tmp[e].first = Nxt(e)
  /\ loop = "insert" => \A f \in Faces :
       pc[f] \in {"head", "tail"} => tmp[edge_id(f)].first = Nxt(edge_id(f))

Chained == loop \in {"insert", "match"} => Grounded /\ Ends
ChainInv == InsertInv /\ Chained

LEMMA InitChain == Init => ChainInv
  <1> SUFFICES ASSUME Init PROVE ChainInv
    OBVIOUS
  <1>1. InsertInv
    BY InitInsert
  <1>2. Inserted = {}
    <2>1. \A e \in Edges : ~(e[2] < corner[e[1]])
      BY Shape DEF Init
    <2>. QED  BY <2>1 DEF Inserted, Init
  <1>3. \A f \in Faces : pc[f] = "fill"
    BY DEF Init
  <1>. QED  BY <1>1, <1>2, <1>3 DEF ChainInv, Chained, Grounded, Ends

(* The edges of a face other than f are not touched.                         *)
LEMMA ChainKept ==
  ASSUME ChainInv, loop \in {"insert", "match"}, UNCHANGED <<F, tmp, V2E>>,
         Inserted' = Inserted,
         loop' = "insert" => loop = "insert" /\ \A f \in Faces :
           pc'[f] \in {"head", "tail"} => pc[f] \in {"head", "tail"} /\ corner'[f] = corner[f]
  PROVE  Grounded' /\ Ends'
  <1>1. Grounded /\ Ends
    BY DEF ChainInv, Chained
  <1>2. Faces' = Faces /\ \A e : Cur(e)' = Cur(e) /\ Nxt(e)' = Nxt(e)
    BY MeshIsFixed
  <1>3. Grounded'
    BY <1>1, <1>2 DEF Grounded
  <1>4. \A e \in Inserted' : tmp'[e].first = Nxt(e)'
    BY <1>1, <1>2 DEF Ends
  <1>5. ASSUME loop' = "insert", NEW f \in Faces, pc'[f] \in {"head", "tail"}
        PROVE  edge_id(f)' = edge_id(f) /\ tmp'[edge_id(f)].first = Nxt(edge_id(f))
    <2>1. edge_id(f)' = edge_id(f) /\ pc[f] \in {"head", "tail"} /\ loop = "insert"
      BY <1>5 DEF edge_id
    <2>. QED  BY <1>1, <1>2, <2>1 DEF Ends
  <1>. QED  BY <1>2, <1>3, <1>4, <1>5 DEF Ends

LEMMA ChainSkip ==
  ASSUME ChainInv, NEW f \in Faces, SkipDegenerate(f)
  PROVE  Grounded' /\ Ends'
  <1>1. /\ TypeOK /\ loop = "insert" /\ corner[f] \in 1 .. deg /\ NextCorner(f, "fill")
        /\ Degenerate(edge_id(f)) /\ UNCHANGED <<F, loop, tmp, V2E>>
    BY DEF ChainInv, InsertInv, Typed, SkipDegenerate, At
  <1>2. Inserted' = Inserted
    BY <1>1, InsertedGrows DEF NextCorner
  <1>3. \A g \in Faces : pc'[g] \in {"head", "tail"} => pc[g] \in {"head", "tail"}
                                                         /\ corner'[g] = corner[g]
    BY <1>1 DEF NextCorner, TypeOK
  <1>. QED  BY <1>1, <1>2, <1>3, ChainKept

LEMMA ChainFill ==
  ASSUME ChainInv, NEW f \in Faces, Fill(f)
  PROVE  Grounded' /\ Ends'
  <1>1. /\ TypeOK /\ Grounded /\ Ends /\ loop = "insert" /\ F' = F /\ Threads /\ InsertInv
        /\ corner[f] \in 1 .. deg /\ ~Degenerate(edge_id(f)) /\ edge_id(f) \in Edges
        /\ UNCHANGED <<loop, corner, V2E>>
    BY EdgeOfThread DEF ChainInv, Chained, InsertInv, Typed, Fill, At
  <1>2. Inserted' = Inserted /\ edge_id(f) \notin Inserted
    <2>1. edge_id(f)[1] = f /\ edge_id(f)[2] = corner[f] /\ deg \in Nat
      BY <1>1, Shape DEF edge_id, TypeOK
    <2>. QED  BY <1>1, <2>1, InsertedStays DEF Inserted
  <1>3. /\ deg' = deg /\ Faces' = Faces
        /\ \A e : Cur(e)' = Cur(e) /\ Nxt(e)' = Nxt(e)
        /\ \A g : edge_id(g)' = edge_id(g)
    BY <1>1, MeshIsFixed DEF edge_id
  <1>4. \A e \in Edges : e # edge_id(f) => tmp'[e] = tmp[e]
    BY <1>1 DEF Fill, TypeOK
  <1>5. tmp'[edge_id(f)].first = Nxt(edge_id(f))
    BY <1>1 DEF Fill, TypeOK
  <1>6. \A e \in Inserted : tmp'[e] = tmp[e]
    BY <1>2, <1>4 DEF Inserted
  <1>7. Grounded'
    BY <1>1, <1>2, <1>3, <1>6 DEF Grounded
  <1>8. ASSUME NEW g \in Faces, pc'[g] \in {"head", "tail"}
        PROVE  tmp'[edge_id(g)].first = Nxt(edge_id(g))
    <2>1. CASE g = f
      BY <1>5, <2>1
    <2>2. CASE g # f
      <3>1. pc[g] \in {"head", "tail"} /\ edge_id(g) # edge_id(f)
        BY <1>8, <2>2, OwnEdge DEF Fill, TypeOK
      <3>2. edge_id(g) \in Edges
        BY <1>1, <3>1, ThreadFacts
      <3>. QED  BY <1>1, <1>4, <3>1, <3>2 DEF Ends
    <2>. QED  BY <2>1, <2>2
  <1>. QED  BY <1>1, <1>2, <1>3, <1>6, <1>7, <1>8 DEF Ends

(* The edge of a thread joins the inserted ones, at a free head or behind an *)
(* edge without a successor.                                                 *)
LEMMA ChainGrows ==
  ASSUME ChainInv, loop = "insert", UNCHANGED <<F, loop>>, NEW f \in Faces,
         pc[f] \in {"head", "tail"}, NextCorner(f, "fill"),
         V2E' \in [Vertices -> Link], tmp' \in [Edges -> [first : Vertices, second : Link]],
         \A e \in Edges : tmp'[e].first = tmp[e].first,
         \A v \in Vertices : V2E[v] # INVALID => V2E'[v] = V2E[v],
         \A e \in Edges : tmp[e].second # INVALID => tmp'[e].second = tmp[e].second,
         \/ V2E'[Cur(edge_id(f))] = edge_id(f)
         \/ \E a \in Inserted : tmp'[a].second = edge_id(f)
  PROVE  Grounded' /\ Ends'
  <1> DEFINE x == edge_id(f)
  <1>1. /\ TypeOK /\ Grounded /\ Ends /\ corner[f] \in 1 .. deg /\ InsertInv /\ Threads
        /\ x \in Edges \ Inserted /\ ~Degenerate(x) /\ x # INVALID
    BY ThreadFacts DEF ChainInv, Chained
  <1>2. Inserted' = Inserted \union {x}
    BY <1>1, InsertedGrows DEF NextCorner
  <1>3. /\ Faces' = Faces
        /\ \A e : Cur(e)' = Cur(e) /\ Nxt(e)' = Nxt(e)
    BY MeshIsFixed
  <1>4. \A e \in Inserted : e \in Edges /\ Cur(e) \in Vertices /\ e # INVALID
    BY <1>1, Shape DEF Inserted, TypeOK
  <1>5. Ends'
    <2>1. \A e \in Inserted' : tmp'[e].first = Nxt(e)
      BY <1>1, <1>2, <1>4 DEF Ends
    <2>2. ASSUME NEW g \in Faces, pc'[g] \in {"head", "tail"}
          PROVE  edge_id(g)' = edge_id(g) /\ tmp'[edge_id(g)].first = Nxt(edge_id(g))
      <3>1. g # f /\ pc[g] = pc'[g] /\ edge_id(g)' = edge_id(g)
        BY <1>1, <2>2 DEF NextCorner, TypeOK, edge_id
      <3>2. edge_id(g) \in Edges
        BY <2>2, <3>1, <1>1, ThreadFacts
      <3>. QED  BY <1>1, <2>2, <3>1, <3>2 DEF Ends
    <2>. QED  BY <1>3, <2>1, <2>2 DEF Ends
  <1>6. Grounded'
    <2> SUFFICES ASSUME NEW S \in SUBSET Inserted', S # {}
                 PROVE  \E e \in S : \/ V2E'[Cur(e)] = e
                                     \/ \E o \in Inserted' \ S : tmp'[o].second = e
      BY <1>3 DEF Grounded
    <2> HIDE DEF x
    <2>1. CASE S \intersect Inserted = {}
      <3>1. S = {x}
        BY <1>2, <2>1
      <3>. QED  BY <1>1, <1>2, <3>1 DEF x
    <2>2. CASE S \intersect Inserted # {}
      <3>1. PICK e \in S \intersect Inserted :
              V2E[Cur(e)] = e \/ \E o \in Inserted \ (S \intersect Inserted) : tmp[o].second = e
        BY <1>1, <2>2 DEF Grounded
      <3>2. CASE V2E[Cur(e)] = e
        BY <1>4, <3>2
      <3>3. CASE \E o \in Inserted \ (S \intersect Inserted) : tmp[o].second = e
        <4>1. PICK o \in Inserted \ (S \intersect Inserted) : tmp[o].second = e
          BY <3>3
        <4>2. o \in Inserted' \ S /\ tmp'[o].second = e
          BY <1>2, <1>4, <4>1
        <4>. QED  BY <4>2
      <3>. QED  BY <3>1, <3>2, <3>3
    <2>. QED  BY <2>1, <2>2
  <1>. QED  BY <1>5, <1>6

LEMMA ChainHead ==
  ASSUME ChainInv, NEW f \in Faces, InsertHead(f)
  PROVE  Grounded' /\ Ends'
  <1> DEFINE x == edge_id(f)
  <1>1. loop = "insert" /\ pc[f] = "head" /\ UNCHANGED <<F, loop, tmp>> /\ InsertInv
    BY DEF InsertHead, At, ChainInv
  <1>2. TypeOK /\ x \in Edges /\ Cur(x) \in Vertices /\ x # INVALID
    BY <1>1, ThreadFacts
  <1>3. CASE V2E[Cur(x)] = INVALID
    <2>1. V2E' = [V2E EXCEPT ![Cur(x)] = x] /\ NextCorner(f, "fill")
      BY <1>3 DEF InsertHead
    <2>2. /\ V2E'[Cur(x)] = x /\ V2E' \in [Vertices -> Link]
          /\ \A v \in Vertices : V2E[v] # INVALID => V2E'[v] = V2E[v]
      BY <1>2, <1>3, <2>1 DEF TypeOK, Link
    <2>. QED  BY <1>1, <1>2, <2>1, <2>2, ChainGrows DEF TypeOK
  <1>4. CASE V2E[Cur(x)] # INVALID
    <2>1. UNCHANGED <<V2E, corner>> /\ pc' = [pc EXCEPT ![f] = "tail"]
      BY <1>4 DEF InsertHead
    <2>2. Inserted' = Inserted
      BY <1>1, <2>1, InsertedStays
    <2>3. \A g \in Faces : pc'[g] \in {"head", "tail"} => pc[g] \in {"head", "tail"}
      BY <1>1, <1>2, <2>1 DEF TypeOK
    <2>. QED  BY <1>1, <2>1, <2>2, <2>3, ChainKept
  <1>. QED  BY <1>3, <1>4

LEMMA ChainTail ==
  ASSUME ChainInv, NEW f \in Faces, InsertTail(f)
  PROVE  Grounded' /\ Ends'
  <1> DEFINE x == edge_id(f)
             a == at[f]
  <1>1. loop = "insert" /\ pc[f] = "tail" /\ UNCHANGED <<F, loop, V2E>> /\ InsertInv
    BY DEF InsertTail, At, ChainInv
  <1>2. TypeOK /\ Threads /\ x \in Edges /\ x # INVALID
    BY <1>1, ThreadFacts
  <1>3. a \in Inserted /\ a \in Edges
    BY <1>1, <1>2 DEF Threads, Inserted
  <1>4. CASE tmp[a].second = INVALID
    <2>1. tmp' = [tmp EXCEPT ![a].second = x] /\ NextCorner(f, "fill")
      BY <1>4 DEF InsertTail
    <2>2. /\ tmp'[a].second = x /\ tmp' \in [Edges -> [first : Vertices, second : Link]]
          /\ \A e \in Edges : tmp'[e].first = tmp[e].first
          /\ \A e \in Edges : tmp[e].second # INVALID => tmp'[e].second = tmp[e].second
      BY <1>2, <1>3, <1>4, <2>1 DEF TypeOK, Link
    <2>. QED  BY <1>1, <1>2, <1>3, <2>1, <2>2, ChainGrows DEF TypeOK
  <1>5. CASE tmp[a].second # INVALID
    <2>1. UNCHANGED <<tmp, corner, pc>>
      BY <1>5 DEF InsertTail
    <2>2. Inserted' = Inserted
      BY <1>1, <2>1, InsertedStays
    <2>. QED  BY <1>1, <2>1, <2>2, ChainKept
  <1>. QED  BY <1>4, <1>5

LEMMA StepChain == ChainInv /\ [Next]_vars => ChainInv'
  <1> SUFFICES ASSUME ChainInv, [Next]_vars PROVE ChainInv'
    OBVIOUS
  <1>1. InsertInv' /\ TypeOK
    BY StepInsert DEF ChainInv, InsertInv, Typed
  <1>2. CASE \E f \in Faces : SkipDegenerate(f) \/ Fill(f) \/ InsertHead(f) \/ InsertTail(f)
    BY <1>1, <1>2, ChainSkip, ChainFill, ChainHead, ChainTail DEF ChainInv, Chained
  <1>3. CASE LoopEnds("insert", "match", "look")
    <2>1. /\ UNCHANGED <<F, tmp, V2E>> /\ loop = "insert" /\ loop' = "match"
          /\ \A f \in Faces : corner[f] = deg + 1
      BY <1>3 DEF LoopEnds
    <2>2. Inserted' = Inserted
      <3>1. \A e \in Edges : e[1] \in Faces /\ e[2] < deg + 1
        BY <1>1, Shape DEF TypeOK
      <3>. QED  BY <2>1, <3>1, MeshIsFixed DEF Inserted
    <2>. QED  BY <1>1, <2>1, <2>2, ChainKept DEF ChainInv, Chained
  <1>4. CASE \E f \in Faces : Match(f) \/ LinkBack(f)
    <2>1. UNCHANGED <<F, tmp, V2E, loop>> /\ loop = "match"
      BY <1>4 DEF Match, LinkBack
    <2>2. Inserted' = Inserted
      BY <2>1, MeshIsFixed DEF Inserted
    <2>. QED  BY <1>1, <2>1, <2>2, ChainKept DEF ChainInv, Chained
  <1>5. CASE \/ LoopEnds("match", "walk", "idle") \/ WalksEnd
             \/ \E v \in Vertices : BeginWalk(v) \/ Turn(v)
    <2>1. loop' \notin {"insert", "match"}
      BY <1>5 DEF LoopEnds, WalksEnd, BeginWalk, Turn
    <2>. QED  BY <1>1, <2>1 DEF ChainInv, Chained
  <1>6. CASE UNCHANGED vars
    <2>1. UNCHANGED <<F, loop, corner, pc, tmp, V2E>>
      BY <1>6 DEF vars
    <2>2. Inserted' = Inserted
      BY <2>1, InsertedStays
    <2>. QED  BY <1>1, <2>1, <2>2, ChainKept DEF ChainInv, Chained
  <1>. QED
    BY <1>2, <1>3, <1>4, <1>5, <1>6 DEF Next

-----------------------------------------------------------------------------
(* The lists at the barrier.                                                 *)
LEMMA EdgesFinite ==
  ASSUME F \in Meshes
  PROVE  IsFiniteSet(Edges) /\ Cardinality(Edges) \in Nat
  <1>1. deg \in Int /\ Len(F) \in Int /\ 1 \in Int
    BY Shape
  <1>2. IsFiniteSet(1 .. Len(F)) /\ IsFiniteSet(1 .. deg)
    BY <1>1, FS_Interval
  <1>. QED  BY <1>2, FS_Product, FS_CardinalityType DEF Edges, Faces

(* An injective walk of n steps through edges is shorter than their number.  *)
LEMMA WalkIsShort ==
  ASSUME F \in Meshes, NEW n \in Nat, NEW f, \A i \in 0 .. n : f[i] \in Edges,
         \A i, j \in 0 .. n : f[i] = f[j] => i = j
  PROVE  n < Cardinality(Edges)
  <1> DEFINE g == [i \in 0 .. n |-> f[i]]
  <1>1. g \in Injection(0 .. n, Edges)
    <2>1. g \in [0 .. n -> Edges]
      OBVIOUS
    <2>2. \A i, j \in 0 .. n : g[i] = g[j] => i = j
      OBVIOUS
    <2>. QED  BY <2>1, <2>2 DEF Injection, IsInjective
  <1>2. Cardinality(0 .. n) = n + 1
    BY FS_Interval
  <1> HIDE DEF g
  <1>3. Cardinality(0 .. n) <= Cardinality(Edges)
    BY <1>1, EdgesFinite, FS_Injection
  <1>. QED  BY <1>2, <1>3, EdgesFinite

NthOf(v) ==
  CHOOSE nth : nth = [n \in Nat |-> IF n = 0 THEN V2E[v]
                                    ELSE IF nth[n - 1] = INVALID THEN INVALID
                                    ELSE tmp[nth[n - 1]].second]

LEMMA NthOfList ==
  ASSUME TypeOK, NEW v \in Vertices
  PROVE  /\ List(v) = Edges \intersect {NthOf(v)[n] : n \in 0 .. Cardinality(Edges)}
         /\ NthOf(v)[0] = V2E[v]
         /\ \A n \in Nat : NthOf(v)[n + 1] = IF NthOf(v)[n] = INVALID THEN INVALID
                                             ELSE tmp[NthOf(v)[n]].second
  <1> DEFINE step == [x \in Link |-> IF x = INVALID THEN INVALID ELSE tmp[x].second]
  <1>1. step \in [Link -> Link] /\ V2E[v] \in Link
    BY DEF TypeOK, Link
  <1>2. \A x \in Link : step[x] = IF x = INVALID THEN INVALID ELSE tmp[x].second
    OBVIOUS
  <1> HIDE DEF step
  <1>3. PICK f \in [Nat -> Link] : \A n \in Nat : f[n] = IF n = 0 THEN V2E[v] ELSE step[f[n - 1]]
    <2>1. ASSUME NEW V, NEW c \in V, NEW s \in [V -> V]
          PROVE  \E f \in [Nat -> V] : \A n \in Nat : f[n] = IF n = 0 THEN c ELSE s[f[n - 1]]
      BY Iteration
    <2>2. \A c \in Link, s \in [Link -> Link] :
            \E f \in [Nat -> Link] : \A n \in Nat : f[n] = IF n = 0 THEN c ELSE s[f[n - 1]]
      BY <2>1
    <2>. QED  BY <1>1, <2>2
  <1>4. \A n \in Nat : f[n] = IF n = 0 THEN V2E[v] ELSE IF f[n - 1] = INVALID THEN INVALID
                                                     ELSE tmp[f[n - 1]].second
    BY <1>2, <1>3
  <1>5. f = [n \in Nat |-> IF n = 0 THEN V2E[v] ELSE IF f[n - 1] = INVALID THEN INVALID
                                                     ELSE tmp[f[n - 1]].second]
    BY <1>3, <1>4
  <1> DEFINE nth == NthOf(v)
  <1>6. nth = [n \in Nat |-> IF n = 0 THEN V2E[v] ELSE IF nth[n - 1] = INVALID THEN INVALID
                                                       ELSE tmp[nth[n - 1]].second]
    BY <1>5 DEF NthOf
  <1>7. List(v) = Edges \intersect {nth[n] : n \in 0 .. Cardinality(Edges)}
    BY DEF List, NthOf
  <1> HIDE DEF nth
  <1>8. nth[0] = V2E[v] /\ \A n \in Nat : nth[n + 1] = IF nth[n] = INVALID THEN INVALID
                                                       ELSE tmp[nth[n]].second
    BY <1>6
  <1>. QED  BY <1>7, <1>8 DEF nth

(* Complete lists: what the second loop looks up is what the mesh says.      *)
LEMMA ListsAreComplete ==
  ASSUME ChainInv, loop = "match", NEW v \in Vertices
  PROVE  List(v) = Leaving(v)
  <1> DEFINE nth == NthOf(v)
             N == Cardinality(Edges)
  <1>1. /\ TypeOK /\ F \in Meshes /\ Heads /\ Links /\ Reached /\ Grounded
        /\ INVALID \notin Edges
    BY Shape DEF ChainInv, Chained, InsertInv, ListsInv, Typed, TypeOK
  <1>2. /\ Inserted = {e \in Edges : ~Degenerate(e)}
        /\ Leaving(v) = {e \in Inserted : Cur(e) = v} /\ Leaving(v) \subseteq Edges
    BY DEF Inserted, Leaving
  <1>3. /\ List(v) = Edges \intersect {nth[n] : n \in 0 .. N}
        /\ nth[0] = V2E[v]
        /\ \A n \in Nat : nth[n + 1] = IF nth[n] = INVALID THEN INVALID ELSE tmp[nth[n]].second
    BY <1>1, NthOfList
  <1>4. N \in Nat
    BY <1>1, EdgesFinite
  <1> HIDE DEF nth, N
  <1>5. ASSUME NEW n \in Nat PROVE nth[n] = INVALID \/ nth[n] \in Leaving(v)
    <2> DEFINE B == {m \in Nat : ~(nth[m] = INVALID \/ nth[m] \in Leaving(v))}
    <2> SUFFICES ASSUME B # {} PROVE FALSE
      OBVIOUS
    <2>1. PICK m \in B : \A k \in B : m <= k
      <3>1. B \in SUBSET Nat
        OBVIOUS
      <3> HIDE DEF B
      <3>. QED  BY <3>1, LeastNatural
    <2>2. CASE m = 0
      BY <1>1, <1>2, <1>3, <2>2 DEF Heads
    <2>3. CASE m # 0
      <3>1. m - 1 \in Nat /\ (m - 1) + 1 = m /\ m - 1 \notin B
        BY <2>1, <2>3
      <3>2. nth[m - 1] = INVALID \/ nth[m - 1] \in Leaving(v)
        BY <3>1
      <3>3. nth[m] = IF nth[m - 1] = INVALID THEN INVALID ELSE tmp[nth[m - 1]].second
        BY <1>3, <3>1
      <3>. QED  BY <1>1, <1>2, <3>2, <3>3 DEF Links
    <2>. QED  BY <2>2, <2>3
  <1>6. ASSUME NEW n \in Nat, nth[n] # INVALID, NEW m \in 0 .. n PROVE nth[m] # INVALID
    <2> DEFINE B == {k \in Nat : m <= k /\ k <= n /\ nth[k] # INVALID}
    <2>1. PICK k \in B : \A j \in B : k <= j
      <3>1. B \in SUBSET Nat /\ n \in B
        BY <1>6
      <3> HIDE DEF B
      <3>. QED  BY <3>1, LeastNatural
    <2>2. CASE k = m
      BY <2>2
    <2>3. CASE k # m
      <3>1. k - 1 \in Nat /\ (k - 1) + 1 = k /\ k - 1 \notin B /\ m <= k - 1 /\ k - 1 <= n
        BY <2>1, <2>3
      <3>2. nth[k - 1] = INVALID
        BY <3>1
      <3>. QED  BY <1>3, <3>1, <3>2
    <2>. QED  BY <2>2, <2>3
  <1>7. ASSUME NEW n \in Nat, nth[n] # INVALID
        PROVE  \A i, j \in 0 .. n : nth[i] = nth[j] => i = j
    <2> DEFINE B == {i \in Nat : \E j \in 0 .. n : i < j /\ nth[i] = nth[j]}
    <2>1. B = {}
      <3> SUFFICES ASSUME B # {} PROVE FALSE
        OBVIOUS
      <3>1. PICK i \in B : \A k \in B : i <= k
        <4>1. B \in SUBSET Nat
          OBVIOUS
        <4> HIDE DEF B
        <4>. QED  BY <4>1, LeastNatural
      <3>2. PICK j \in 0 .. n : i < j /\ nth[i] = nth[j]
        OBVIOUS
      <3>3. j - 1 \in Nat /\ (j - 1) + 1 = j /\ j - 1 \in 0 .. n /\ i - 1 \notin B
        BY <3>1, <3>2
      <3>4. nth[j - 1] # INVALID /\ nth[j] # INVALID
        BY <1>6, <1>7, <3>3
      <3>5. nth[j] = tmp[nth[j - 1]].second
        BY <1>3, <3>3, <3>4
      <3>6. nth[j - 1] \in Leaving(v)
        BY <1>5, <3>3, <3>4
      <3>7. nth[j - 1] \in Inserted /\ Cur(nth[j - 1]) = v
        BY <1>2, <3>6
      <3>8. CASE i = 0
        <4>1. V2E[v] = tmp[nth[j - 1]].second
          BY <1>3, <3>2, <3>5, <3>8
        <4>. QED  BY <1>1, <3>4, <3>5, <3>7, <4>1 DEF Links
      <3>9. CASE i # 0
        <4>1. i - 1 \in Nat /\ (i - 1) + 1 = i /\ i - 1 \in 0 .. n /\ i \in 0 .. n /\ i - 1 < j - 1
          BY <3>1, <3>2, <3>9
        <4>2. nth[i - 1] # INVALID
          BY <1>6, <1>7, <4>1
        <4>3. nth[i] = tmp[nth[i - 1]].second
          BY <1>3, <4>1, <4>2
        <4>4. nth[i - 1] \in Inserted
          BY <1>2, <1>5, <4>1, <4>2
        <4>5. nth[i - 1] = nth[j - 1]
          BY <1>1, <3>2, <3>4, <3>5, <3>7, <4>3, <4>4 DEF Links
        <4>. QED  BY <3>3, <4>1, <4>5
      <3>. QED  BY <3>8, <3>9
    <2>2. ASSUME NEW i \in 0 .. n, NEW j \in 0 .. n, nth[i] = nth[j] PROVE i = j
      <3>1. i \notin B /\ j \notin B /\ i \in Nat /\ j \in Nat
        BY <2>1
      <3>. QED  BY <2>2, <3>1
    <2>. QED  BY <2>2
  <1>8. ASSUME NEW n \in Nat, nth[n] # INVALID PROVE n < N
    <2>1. \A i \in 0 .. n : i \in Nat /\ nth[i] \in Edges
      BY <1>2, <1>5, <1>6, <1>8
    <2>2. \A i, j \in 0 .. n : nth[i] = nth[j] => i = j
      BY <1>7, <1>8
    <2>. QED  BY <1>1, <2>1, <2>2, WalkIsShort DEF N
  <1>9. List(v) \subseteq Leaving(v)
    BY <1>1, <1>3, <1>4, <1>5
  <1>10. Leaving(v) \subseteq List(v)
    <2> DEFINE S == Leaving(v) \ List(v)
    <2> SUFFICES ASSUME S # {} PROVE FALSE
      OBVIOUS
    <2>1. PICK e \in S : V2E[Cur(e)] = e \/ \E o \in Inserted \ S : tmp[o].second = e
      <3>1. S \in SUBSET Inserted
        BY <1>2
      <3> HIDE DEF S
      <3>. QED  BY <1>1, <3>1 DEF Grounded
    <2>2. e \in Inserted /\ e \in Edges /\ Cur(e) = v /\ e # INVALID
      BY <1>1, <1>2
    <2>3. CASE V2E[Cur(e)] = e
      <3>1. nth[0] = e /\ 0 \in 0 .. N
        BY <1>3, <1>4, <2>2, <2>3
      <3>. QED  BY <1>3, <2>2, <3>1
    <2>4. CASE \E o \in Inserted \ S : tmp[o].second = e
      <3>1. PICK o \in Inserted \ S : tmp[o].second = e
        BY <2>4
      <3>2. Cur(o) = v
        BY <1>1, <2>2, <3>1 DEF Links
      <3>3. o \in List(v)
        BY <1>2, <3>1, <3>2
      <3>4. PICK n \in 0 .. N : nth[n] = o
        BY <1>3, <3>3
      <3>5. n \in Nat /\ o # INVALID /\ n + 1 \in Nat
        BY <1>1, <1>2, <1>4, <3>1, <3>4
      <3>6. nth[n + 1] = e
        BY <1>3, <3>1, <3>4, <3>5
      <3>7. n + 1 \in 0 .. N
        BY <1>4, <1>8, <2>2, <3>5, <3>6
      <3>. QED  BY <1>3, <2>2, <3>6, <3>7
    <2>. QED  BY <2>1, <2>3, <2>4
  <1>. QED  BY <1>9, <1>10

-----------------------------------------------------------------------------
(***************************************************************************)
(* The second loop.  The flags are those of the edges passed so far; an    *)
(* edge is only ever linked to an edge that faces it; and a pair whose     *)
(* smaller edge has been passed is linked both ways.                       *)
(***************************************************************************)
Seen == {e \in Edges : loop = "match" => e[2] < corner[e[1]]}

Crossed(D) ==
  UNION {{Cur(e), Nxt(e)} : e \in {d \in D : ~Degenerate(d) /\ Cardinality(Facing(d)) > 1}}

OnlyFacing == \A e \in Edges : E2E[e] # INVALID => ~Degenerate(e) /\ E2E[e] \in Facing(e)

BothLinked ==
  \A e \in Seen : \A o \in Edges :
    ~Degenerate(e) /\ Facing(e) = {o} /\ Before(e, o) => E2E[e] # INVALID /\ E2E[o] # INVALID

(* A thread between the two writes that link a pair.                         *)
HalfLinked ==
  \A f \in Faces : pc[f] = "back" =>
    /\ corner[f] \in 1 .. deg /\ ~Degenerate(edge_id(f))
    /\ Facing(edge_id(f)) = {at[f]} /\ E2E[edge_id(f)] # INVALID

Matched == nonManifold = Crossed(Seen) /\ OnlyFacing /\ BothLinked

MatchInv ==
  /\ ChainInv
  /\ loop = "insert" => /\ nonManifold = {} /\ \A e \in Edges : E2E[e] = INVALID
                        /\ \A f \in Faces : pc[f] # "back"
  /\ loop # "insert" => Matched
  /\ loop = "match" => HalfLinked

(* Facing is mutual, and no edge faces itself.                               *)
LEMMA FacingEdges ==
  ASSUME F \in Meshes, NEW e \in Edges, ~Degenerate(e)
  PROVE  /\ Facing(e) \subseteq Edges
         /\ IsFiniteSet(Facing(e)) /\ Cardinality(Facing(e)) \in Nat
         /\ \A o \in Facing(e) : /\ o \in Edges /\ ~Degenerate(o) /\ o # e /\ e \in Facing(o)
                                 /\ Cur(o) = Nxt(e) /\ Nxt(o) = Cur(e)
  <1>1. Facing(e) \subseteq Edges
    BY DEF Facing, Leaving
  <1>2. IsFiniteSet(Facing(e)) /\ Cardinality(Facing(e)) \in Nat
    BY <1>1, EdgesFinite, FS_Subset, FS_CardinalityType
  <1>3. \A o \in Facing(e) : /\ o \in Edges /\ ~Degenerate(o) /\ o # e /\ e \in Facing(o)
                             /\ Cur(o) = Nxt(e) /\ Nxt(o) = Cur(e)
    BY DEF Facing, Leaving, Degenerate
  <1>. QED  BY <1>1, <1>2, <1>3

LEMMA BeforeIsTotal ==
  ASSUME F \in Meshes, NEW e \in Edges, NEW o \in Edges, e # o
  PROVE  Before(e, o) \/ Before(o, e)
  <1>1. /\ e = <<e[1], e[2]>> /\ o = <<o[1], o[2]>>
        /\ e[1] \in Nat /\ e[2] \in Nat /\ o[1] \in Nat /\ o[2] \in Nat
    BY Shape DEF Faces
  <1>2. e[1] # o[1] \/ e[2] # o[2]
    BY <1>1
  <1>. QED  BY <1>1, <1>2 DEF Before

(* What the second loop finds in the lists is what faces the edge.           *)
LEMMA OppositesAreFacing ==
  ASSUME ChainInv, loop = "match", NEW e \in Edges, ~Degenerate(e)
  PROVE  Opposites(e) = Facing(e)
  <1>1. TypeOK /\ F \in Meshes /\ Ends
    BY DEF ChainInv, Chained, InsertInv, Typed, TypeOK
  <1>2. Nxt(e) \in Vertices
    BY <1>1, Shape
  <1>3. List(Nxt(e)) = Leaving(Nxt(e))
    BY <1>2, ListsAreComplete
  <1>4. \A o \in Leaving(Nxt(e)) : tmp[o].first = Nxt(o)
    BY <1>1 DEF Leaving, Ends, Inserted
  <1>. QED  BY <1>3, <1>4 DEF Opposites, Facing

LEMMA SeenGrows ==
  ASSUME TypeOK, F' = F, loop = "match", loop' = loop, NEW f \in Faces,
         corner[f] \in 1 .. deg, corner' = [corner EXCEPT ![f] = @ + 1]
  PROVE  Seen' = Seen \union {edge_id(f)}
  <1>1. deg \in Nat \ {0} /\ F \in Meshes
    BY Shape DEF TypeOK
  <1>2. Edges' = Edges
    BY MeshIsFixed
  <1>3. edge_id(f) \in Edges /\ edge_id(f)[1] = f /\ edge_id(f)[2] = corner[f]
    BY DEF edge_id, Edges
  <1>4. ASSUME NEW e \in Edges
        PROVE  (e[2] < corner'[e[1]]) <=> (e[2] < corner[e[1]] \/ e = edge_id(f))
    <2>1. /\ e = <<e[1], e[2]>> /\ e[1] \in Faces /\ e[2] \in 1 .. deg
      BY <1>1, Shape
    <2>2. corner[e[1]] \in 1 .. deg + 1
      BY <2>1 DEF TypeOK
    <2>3. CASE e[1] # f
      BY <2>1, <2>3, <1>3 DEF TypeOK
    <2>4. CASE e[1] = f
      <3>1. corner'[e[1]] = corner[f] + 1
        BY <2>4 DEF TypeOK
      <3>2. e = edge_id(f) <=> e[2] = corner[f]
        BY <2>1, <2>4, <1>3 DEF edge_id
      <3>. QED  BY <1>1, <2>1, <2>2, <2>4, <3>1, <3>2
    <2>. QED  BY <2>3, <2>4
  <1>. QED  BY <1>2, <1>3, <1>4 DEF Seen

(* What depends on the mesh alone.                                           *)
LEMMA FacingIsFixed ==
  ASSUME F' = F
  PROVE  /\ Faces' = Faces /\ deg' = deg /\ Edges' = Edges
         /\ \A e : /\ Cur(e)' = Cur(e) /\ Nxt(e)' = Nxt(e) /\ Facing(e)' = Facing(e)
                   /\ (Degenerate(e)' <=> Degenerate(e)) /\ dedge_prev(e)' = dedge_prev(e)
         /\ \A v : Leaving(v)' = Leaving(v)
         /\ \A D : Crossed(D)' = Crossed(D)
  <1>1. /\ Faces' = Faces /\ deg' = deg /\ Edges' = Edges
        /\ \A e : Cur(e)' = Cur(e) /\ Nxt(e)' = Nxt(e) /\ (Degenerate(e)' <=> Degenerate(e))
    BY MeshIsFixed
  <1>2. \A v : Leaving(v)' = Leaving(v)
    BY <1>1 DEF Leaving
  <1>3. \A e : Facing(e)' = Facing(e)
    BY <1>1, <1>2 DEF Facing
  <1>4. \A D : Crossed(D)' = Crossed(D)
    BY <1>1, <1>3 DEF Crossed
  <1>. QED  BY <1>1, <1>2, <1>3, <1>4 DEF dedge_prev

LEMMA InitMatch == Init => MatchInv
  <1> SUFFICES ASSUME Init PROVE MatchInv
    OBVIOUS
  <1>1. ChainInv
    BY InitChain
  <1>. QED  BY <1>1 DEF Init, MatchInv

(* One more edge is seen, and what it asks for is there.                     *)
LEMMA PassEdge ==
  ASSUME MatchInv, loop = "match", F' = F, loop' = loop, NEW f \in Faces,
         corner[f] \in 1 .. deg, NextCorner(f, "look"),
         E2E' \in [Edges -> Link],
         \A e \in Edges : E2E'[e] = E2E[e] \/ (~Degenerate(e) /\ E2E'[e] \in Facing(e)),
         nonManifold' = nonManifold \union Crossed({edge_id(f)}),
         \A o \in Edges : ~Degenerate(edge_id(f)) /\ Facing(edge_id(f)) = {o} /\ Before(edge_id(f), o)
                          => E2E'[edge_id(f)] # INVALID /\ E2E'[o] # INVALID
  PROVE  Matched' /\ HalfLinked'
  <1>1. TypeOK /\ F \in Meshes /\ Matched /\ HalfLinked /\ INVALID \notin Edges
    BY Shape DEF MatchInv, ChainInv, InsertInv, Typed, TypeOK
  <1>2. Seen' = Seen \union {edge_id(f)}
    BY <1>1, SeenGrows DEF NextCorner
  <1>3. nonManifold' = Crossed(Seen)'
    <2>1. Crossed(Seen \union {edge_id(f)}) = Crossed(Seen) \union Crossed({edge_id(f)})
      BY DEF Crossed
    <2>2. Crossed(Seen)' = Crossed(Seen \union {edge_id(f)})
      BY <1>2, FacingIsFixed DEF Crossed
    <2>. QED  BY <1>1, <2>1, <2>2 DEF Matched
  <1>4. \A e \in Edges : E2E[e] # INVALID => E2E'[e] # INVALID
    BY <1>1 DEF Facing, Leaving
  <1>5. OnlyFacing'
    BY <1>1, FacingIsFixed DEF Matched, OnlyFacing
  <1>6. BothLinked'
    <2>1. \A e \in Seen : e \in Edges
      BY DEF Seen
    <2>. QED  BY <1>1, <1>2, <1>4, <2>1, FacingIsFixed DEF Matched, BothLinked, Before
  <1>7. HalfLinked'
    <2> SUFFICES ASSUME NEW g \in Faces, pc'[g] = "back"
                 PROVE  /\ corner'[g] \in 1 .. deg /\ ~Degenerate(edge_id(g)')
                        /\ Facing(edge_id(g)') = {at'[g]} /\ E2E'[edge_id(g)'] # INVALID
      BY FacingIsFixed DEF HalfLinked
    <2>1. g # f /\ pc[g] = "back" /\ corner'[g] = corner[g] /\ at'[g] = at[g]
      BY <1>1 DEF NextCorner, TypeOK
    <2>2. edge_id(g)' = edge_id(g) /\ edge_id(g) \in Edges
      BY <1>1, <2>1 DEF edge_id, HalfLinked, Edges
    <2>. QED  BY <1>1, <1>4, <2>1, <2>2 DEF HalfLinked
  <1>. QED  BY <1>3, <1>5, <1>6, <1>7 DEF Matched

LEMMA MatchKeeps ==
  ASSUME MatchInv, NEW f \in Faces, Match(f)
  PROVE  Matched' /\ HalfLinked'
  <1> DEFINE x == edge_id(f)
             opp == IF Degenerate(x) THEN {} ELSE Opposites(x)
  <1>1. /\ TypeOK /\ F \in Meshes /\ Matched /\ HalfLinked /\ ChainInv
        /\ loop = "match" /\ corner[f] \in 1 .. deg /\ UNCHANGED <<F, loop>>
    BY DEF MatchInv, ChainInv, InsertInv, Typed, TypeOK, Match, At
  <1>2. x \in Edges /\ INVALID \notin Edges
    BY <1>1, EdgeOfThread, Shape DEF Match
  <1>3. Degenerate(x) => opp = {}
    OBVIOUS
  <1>4. ~Degenerate(x) => opp = Facing(x)
    BY <1>1, <1>2, OppositesAreFacing
  <1>5. Crossed({x}) = IF ~Degenerate(x) /\ Cardinality(Facing(x)) > 1
                       THEN {Cur(x), Nxt(x)} ELSE {}
    BY DEF Crossed
  <1>6. /\ Cardinality({}) = 0 /\ \A o : Cardinality({o}) = 1
    BY FS_EmptySet, FS_Singleton
  <1>7. \/ /\ Cardinality(opp) > 1
           /\ nonManifold' = nonManifold \union {Cur(x), Nxt(x)}
           /\ NextCorner(f, "look") /\ E2E' = E2E
        \/ \E o \in opp :
             /\ opp = {o} /\ Before(x, o)
             /\ E2E' = [E2E EXCEPT ![x] = o] /\ at' = [at EXCEPT ![f] = o]
             /\ pc' = [pc EXCEPT ![f] = "back"] /\ nonManifold' = nonManifold /\ corner' = corner
        \/ /\ opp = {} \/ \E o \in opp : opp = {o} /\ ~Before(x, o)
           /\ NextCorner(f, "look") /\ nonManifold' = nonManifold /\ E2E' = E2E
    BY DEF Match
  <1> HIDE DEF opp
  <1>8. CASE /\ Cardinality(opp) > 1
             /\ nonManifold' = nonManifold \union {Cur(x), Nxt(x)}
             /\ NextCorner(f, "look") /\ E2E' = E2E
    <2>1. ~Degenerate(x) /\ Cardinality(Facing(x)) > 1
      BY <1>3, <1>4, <1>6, <1>8
    <2>2. nonManifold' = nonManifold \union Crossed({x})
      BY <1>5, <1>8, <2>1
    <2>3. \A o : Facing(x) # {o}
      <3>1. ASSUME NEW o, Facing(x) = {o} PROVE FALSE
        <4>1. Cardinality(Facing(x)) = 1
          BY <1>6, <3>1
        <4>. QED  BY <2>1, <4>1
      <3>. QED  BY <3>1
    <2>4. E2E' \in [Edges -> Link]
      BY <1>1, <1>8 DEF TypeOK
    <2>. QED  BY <1>1, <1>8, <2>2, <2>3, <2>4, PassEdge
  <1>9. CASE /\ opp = {} \/ \E o \in opp : opp = {o} /\ ~Before(x, o)
             /\ NextCorner(f, "look") /\ nonManifold' = nonManifold /\ E2E' = E2E
    <2>1. Degenerate(x) \/ Facing(x) = {} \/ \E o : Facing(x) = {o} /\ ~Before(x, o)
      BY <1>4, <1>9
    <2>2. nonManifold' = nonManifold \union Crossed({x})
      <3>1. CASE Degenerate(x)
        BY <1>5, <1>9, <3>1
      <3>2. CASE Facing(x) = {}
        <4>1. Cardinality(Facing(x)) = 0
          BY <1>6, <3>2
        <4>. QED  BY <1>5, <1>9, <4>1
      <3>3. CASE \E o : Facing(x) = {o}
        <4>1. Cardinality(Facing(x)) = 1
          BY <1>6, <3>3
        <4>. QED  BY <1>5, <1>9, <4>1
      <3>. QED  BY <2>1, <3>1, <3>2, <3>3
    <2>3. E2E' \in [Edges -> Link]
      BY <1>1, <1>9 DEF TypeOK
    <2>4. \A o \in Edges : ~(~Degenerate(x) /\ Facing(x) = {o} /\ Before(x, o))
      BY <2>1
    <2>. QED  BY <1>1, <1>9, <2>2, <2>3, <2>4, PassEdge
  <1>10. ASSUME NEW o \in opp, opp = {o}, Before(x, o),
                E2E' = [E2E EXCEPT ![x] = o], at' = [at EXCEPT ![f] = o],
                pc' = [pc EXCEPT ![f] = "back"], nonManifold' = nonManifold, corner' = corner
         PROVE  Matched' /\ HalfLinked'
    <2>1. ~Degenerate(x) /\ Facing(x) = {o} /\ o \in Edges
      BY <1>1, <1>2, <1>3, <1>4, <1>10, FacingEdges
    <2>2. Seen' = Seen
      BY <1>1, <1>10, MeshIsFixed DEF Seen
    <2>3. /\ E2E'[x] = o /\ o # INVALID
          /\ \A e \in Edges : e # x => E2E'[e] = E2E[e]
      BY <1>1, <1>2, <1>10, <2>1 DEF TypeOK
    <2>4. nonManifold' = Crossed(Seen)'
      BY <1>1, <1>10, <2>2, FacingIsFixed DEF Matched, Crossed
    <2>5. OnlyFacing'
      BY <1>1, <2>1, <2>3, FacingIsFixed DEF Matched, OnlyFacing
    <2>6. BothLinked'
      <3>1. \A e \in Seen : e \in Edges
        BY DEF Seen
      <3>2. \A e \in Edges : E2E[e] # INVALID => E2E'[e] # INVALID
        BY <2>3
      <3>. QED  BY <1>1, <2>2, <3>1, <3>2, FacingIsFixed DEF Matched, BothLinked, Before
    <2>7. HalfLinked'
      <3> SUFFICES ASSUME NEW g \in Faces, pc'[g] = "back"
                   PROVE  /\ corner'[g] \in 1 .. deg /\ ~Degenerate(edge_id(g))
                          /\ Facing(edge_id(g)) = {at'[g]} /\ E2E'[edge_id(g)] # INVALID
        BY <1>1, <1>10, FacingIsFixed DEF HalfLinked, edge_id
      <3>1. CASE g = f
        BY <1>1, <1>10, <2>1, <2>3, <3>1 DEF TypeOK
      <3>2. CASE g # f
        <4>1. pc[g] = "back" /\ at'[g] = at[g]
          BY <1>1, <1>10, <3>2 DEF TypeOK
        <4>2. edge_id(g) \in Edges
          BY <1>1, <4>1 DEF HalfLinked, edge_id, Edges
        <4>. QED  BY <1>1, <1>10, <2>3, <4>1, <4>2 DEF HalfLinked
      <3>. QED  BY <3>1, <3>2
    <2>. QED  BY <2>4, <2>5, <2>6, <2>7 DEF Matched
  <1>. QED  BY <1>7, <1>8, <1>9, <1>10

LEMMA LinkBackKeeps ==
  ASSUME MatchInv, NEW f \in Faces, LinkBack(f)
  PROVE  Matched' /\ HalfLinked'
  <1> DEFINE x == edge_id(f)
             o == at[f]
  <1>1. /\ TypeOK /\ F \in Meshes /\ Matched /\ HalfLinked
        /\ loop = "match" /\ corner[f] \in 1 .. deg /\ UNCHANGED <<F, loop, nonManifold>>
        /\ NextCorner(f, "look") /\ E2E' = [E2E EXCEPT ![o] = x] /\ pc[f] = "back"
    BY DEF MatchInv, ChainInv, InsertInv, Typed, TypeOK, LinkBack, At
  <1>2. x \in Edges /\ INVALID \notin Edges
    BY <1>1, EdgeOfThread, Shape DEF LinkBack
  <1>3. ~Degenerate(x) /\ Facing(x) = {o} /\ E2E[x] # INVALID
    BY <1>1 DEF HalfLinked
  <1>4. o \in Edges /\ ~Degenerate(o) /\ x \in Facing(o) /\ o # x
    BY <1>1, <1>2, <1>3, FacingEdges
  <1>5. /\ E2E'[o] = x /\ E2E' \in [Edges -> Link]
        /\ \A e \in Edges : e # o => E2E'[e] = E2E[e]
    BY <1>1, <1>2, <1>4 DEF TypeOK, Link
  <1>6. nonManifold' = nonManifold \union Crossed({x})
    <2>1. Cardinality(Facing(x)) = 1
      BY <1>3, FS_Singleton
    <2>. QED  BY <1>1, <2>1 DEF Crossed
  <1>7. \A d \in Edges : Facing(x) = {d} => E2E'[x] # INVALID /\ E2E'[d] # INVALID
    BY <1>2, <1>3, <1>4, <1>5
  <1>8. \A e \in Edges : E2E'[e] = E2E[e] \/ (~Degenerate(e) /\ E2E'[e] \in Facing(e))
    BY <1>4, <1>5
  <1> HIDE DEF o
  <1>. QED  BY <1>1, <1>5, <1>6, <1>7, <1>8, PassEdge

LEMMA StepMatch == MatchInv /\ [Next]_vars => MatchInv'
  <1> SUFFICES ASSUME MatchInv, [Next]_vars PROVE MatchInv'
    OBVIOUS
  <1>1. ChainInv' /\ TypeOK
    BY StepChain DEF MatchInv, ChainInv, InsertInv, Typed
  <1>2. CASE \E f \in Faces : SkipDegenerate(f) \/ Fill(f) \/ InsertHead(f) \/ InsertTail(f)
    <2>1. loop = "insert" /\ UNCHANGED <<F, loop, E2E, nonManifold>>
      BY <1>2 DEF SkipDegenerate, Fill, InsertHead, InsertTail
    <2>2. Edges' = Edges /\ Faces' = Faces
      BY <2>1, MeshIsFixed
    <2>3. \A f \in Faces : pc'[f] # "back"
      BY <1>1, <1>2, <2>1 DEF MatchInv, TypeOK, NextCorner, SkipDegenerate, Fill, InsertHead,
                              InsertTail
    <2>. QED  BY <1>1, <2>1, <2>2, <2>3 DEF MatchInv
  <1>3. CASE LoopEnds("insert", "match", "look")
    <2>1. /\ UNCHANGED <<F, E2E, nonManifold>> /\ loop = "insert" /\ loop' = "match"
          /\ corner' = [f \in Faces |-> 1] /\ pc' = [f \in Faces |-> "look"]
      BY <1>3 DEF LoopEnds
    <2>2. Seen' = {}
      <3>1. \A e \in Edges : e[1] \in Faces /\ ~(e[2] < 1)
        BY <1>1, Shape DEF TypeOK
      <3>. QED  BY <2>1, <3>1, MeshIsFixed DEF Seen
    <2>3. nonManifold' = Crossed(Seen)' /\ BothLinked' /\ HalfLinked'
      BY <2>1, <2>2, MeshIsFixed DEF Crossed, BothLinked, HalfLinked, MatchInv
    <2>4. OnlyFacing'
      BY <2>1, MeshIsFixed DEF OnlyFacing, MatchInv
    <2>. QED  BY <1>1, <2>1, <2>3, <2>4 DEF MatchInv, Matched
  <1>4. CASE \E f \in Faces : Match(f) \/ LinkBack(f)
    <2>1. loop = "match" /\ loop' = "match"
      BY <1>4 DEF Match, LinkBack
    <2>. QED  BY <1>1, <1>4, <2>1, MatchKeeps, LinkBackKeeps DEF MatchInv
  <1>5. CASE \/ LoopEnds("match", "walk", "idle") \/ WalksEnd
             \/ \E v \in Vertices : BeginWalk(v) \/ Turn(v)
    <2>1. /\ loop # "insert" /\ loop' \in {"walk", "done"} /\ UNCHANGED <<F, E2E, nonManifold>>
          /\ loop # "match" \/ \A f \in Faces : corner[f] = deg + 1
      BY <1>5 DEF LoopEnds, WalksEnd, BeginWalk, Turn
    <2>2. Seen' = Edges /\ Seen = Edges
      <3>1. \A e \in Edges : e[1] \in Faces /\ e[2] < deg + 1
        BY <1>1, Shape DEF TypeOK
      <3>. QED  BY <2>1, <3>1, MeshIsFixed DEF Seen
    <2>3. Matched
      BY <2>1 DEF MatchInv
    <2>4. nonManifold' = Crossed(Seen)'
      BY <2>1, <2>2, <2>3, FacingIsFixed DEF Matched, Crossed
    <2>5. OnlyFacing' /\ BothLinked'
      BY <2>1, <2>2, <2>3, FacingIsFixed DEF Matched, OnlyFacing, BothLinked, Before
    <2>. QED  BY <1>1, <2>1, <2>4, <2>5 DEF MatchInv, Matched
  <1>6. CASE UNCHANGED vars
    <2>1. UNCHANGED <<F, loop, corner, pc, at, E2E, nonManifold>>
      BY <1>6 DEF vars
    <2>2. Seen' = Seen
      BY <2>1, MeshIsFixed DEF Seen
    <2>3. Crossed(Seen)' = Crossed(Seen)
      BY <2>1, <2>2, FacingIsFixed DEF Crossed
    <2>4. Matched => Matched'
      BY <2>1, <2>2, <2>3, FacingIsFixed DEF Matched, OnlyFacing, BothLinked, Before
    <2>5. HalfLinked => HalfLinked'
      BY <2>1, FacingIsFixed DEF HalfLinked, edge_id
    <2>. QED  BY <1>1, <2>1, <2>4, <2>5, FacingIsFixed DEF MatchInv
  <1>. QED
    BY <1>2, <1>3, <1>4, <1>5, <1>6 DEF Next

(* What the second loop leaves, at each edge.                                *)
LEMMA PairedEdges ==
  ASSUME MatchInv, loop \in {"walk", "done"}, NEW e \in Edges, ~Degenerate(e),
         ~({Cur(e), Nxt(e)} \subseteq nonManifold)
  PROVE  IF Facing(e) = {} THEN E2E[e] = INVALID
         ELSE Facing(e) = {E2E[e]} /\ E2E[E2E[e]] = e
  <1>1. /\ TypeOK /\ F \in Meshes /\ INVALID \notin Edges /\ Seen = Edges
        /\ nonManifold = Crossed(Edges) /\ OnlyFacing /\ BothLinked
    BY Shape DEF MatchInv, Matched, ChainInv, InsertInv, Typed, TypeOK, Seen
  <1>2. CASE Facing(e) = {}
    BY <1>1, <1>2 DEF OnlyFacing
  <1>3. CASE Facing(e) # {}
    <2>1. \A d \in Edges : ~Degenerate(d) /\ {Cur(d), Nxt(d)} = {Cur(e), Nxt(e)}
                           => ~(Cardinality(Facing(d)) > 1)
      BY <1>1 DEF Crossed
    <2>2. ASSUME NEW d \in Edges, ~Degenerate(d), {Cur(d), Nxt(d)} = {Cur(e), Nxt(e)},
                 Facing(d) # {}
          PROVE  \E o : Facing(d) = {o}
      <3>1. IsFiniteSet(Facing(d)) /\ Cardinality(Facing(d)) \in Nat
        BY <1>1, <2>2, FacingEdges
      <3>2. Cardinality(Facing(d)) # 0
        BY <2>2, <3>1, FS_EmptySet
      <3>3. Cardinality(Facing(d)) = 1
        BY <2>1, <2>2, <3>1, <3>2
      <3>. QED  BY <3>1, <3>3, FS_Singleton
    <2>3. PICK o : Facing(e) = {o}
      BY <1>3, <2>2
    <2>4. /\ o \in Edges /\ ~Degenerate(o) /\ o # e /\ e \in Facing(o)
          /\ {Cur(o), Nxt(o)} = {Cur(e), Nxt(e)}
      BY <1>1, <2>3, FacingEdges
    <2>5. Facing(o) = {e}
      BY <2>2, <2>4
    <2>6. E2E[e] # INVALID /\ E2E[o] # INVALID
      BY <1>1, <2>3, <2>4, <2>5, BeforeIsTotal DEF BothLinked
    <2>. QED  BY <1>1, <1>3, <2>3, <2>4, <2>5, <2>6 DEF OnlyFacing
  <1>. QED  BY <1>2, <1>3

(* The flags are exact and unflagged edges are paired, for every mesh and    *)
(* whatever the order of the racing writes to E2E.                           *)
THEOREM OppositesAlwaysPaired == Spec => []OppositesArePaired
  <1>1. MatchInv => OppositesArePaired
    <2> SUFFICES ASSUME MatchInv, loop \in {"walk", "done"} PROVE OppositesArePaired
      BY DEF OppositesArePaired
    <2>1. nonManifold = Crossed(Edges)
      BY DEF MatchInv, Matched, Seen
    <2>. QED  BY <2>1, PairedEdges DEF OppositesArePaired, Crossed
  <1>. QED  BY InitMatch, StepMatch, <1>1, PTL DEF Spec

-----------------------------------------------------------------------------
(***************************************************************************)
(* The third loop.  A walk has a set S of edges behind it: from each the   *)
(* turn leads into S or to the edge the walk has reached, and v2e is the   *)
(* smallest of them.                                                       *)
(***************************************************************************)
Turned(e) == E2E[dedge_prev(e)]

Smallest(m, S) == m \in S /\ \A o \in S : o = m \/ Before(m, o)

Walked(v) ==
  /\ walk[v].edge \in Leaving(v) /\ v \notin nonManifold
  /\ \E S \in SUBSET Leaving(v) :
       /\ IF walk[v].v2e = INVALID THEN S = {} /\ walk[v].edge = V2E[v]
          ELSE V2E[v] \in S /\ Smallest(walk[v].v2e, S)
       /\ \A o \in S : Turned(o) \in S \union {walk[v].edge}

(* A vertex whose walk is not over still has an edge that leaves it.         *)
Waiting(v) ==
  /\ v \notin boundary
  /\ IF Leaving(v) = {} THEN V2E[v] = INVALID ELSE V2E[v] \in Leaving(v)
  /\ walk[v].edge # INVALID => Walked(v)

Settled(v) ==
  /\ (V2E[v] = INVALID) <=> (Leaving(v) = {} \/ v \in nonManifold)
  /\ V2E[v] # INVALID =>
       /\ V2E[v] \in Leaving(v)
       /\ (v \in boundary) <=> First(V2E[v])
       /\ v \notin boundary => \A o \in Around(V2E[v]) : o = V2E[v] \/ Before(V2E[v], o)

Unwalked == /\ boundary = {}
            /\ walk = [v \in Vertices |-> [done |-> FALSE, edge |-> INVALID, v2e |-> INVALID]]

WalkInv ==
  /\ MatchInv
  /\ loop \in {"insert", "match"} => Unwalked
  /\ loop \in {"walk", "done"} =>
       \A v \in Vertices : IF walk[v].done THEN Settled(v) ELSE Waiting(v)
  /\ loop = "done" => \A v \in Vertices : walk[v].done

LEMMA BeforeIsTransitive ==
  ASSUME F \in Meshes, NEW a \in Edges, NEW b \in Edges, NEW c \in Edges,
         Before(a, b), Before(b, c)
  PROVE  Before(a, c)
  <1>1. /\ a[1] \in Nat /\ a[2] \in Nat /\ b[1] \in Nat /\ b[2] \in Nat
        /\ c[1] \in Nat /\ c[2] \in Nat
    BY Shape DEF Faces
  <1>. QED  BY <1>1 DEF Before

LEMMA SmallerIsSmallest ==
  ASSUME F \in Meshes, NEW S \in SUBSET Edges, NEW e \in Edges, NEW m,
         IF m = INVALID THEN S = {} ELSE Smallest(m, S)
  PROVE  Smallest(SmallerEdge(m, e), S \union {e})
  <1>1. CASE m = INVALID
    BY <1>1 DEF Smallest, SmallerEdge
  <1>2. CASE m # INVALID
    <2>1. m \in S /\ m \in Edges /\ \A o \in S : o = m \/ Before(m, o)
      BY <1>2 DEF Smallest
    <2>2. e # INVALID
      BY Shape
    <2>3. CASE Before(m, e)
      BY <1>2, <2>1, <2>3 DEF Smallest, SmallerEdge
    <2>4. CASE ~Before(m, e)
      <3>1. e = m \/ Before(e, m)
        BY <2>1, <2>4, BeforeIsTotal
      <3>2. ASSUME NEW o \in S PROVE o = e \/ Before(e, o)
        <4>1. o = m \/ Before(m, o)
          BY <2>1
        <4>. QED  BY <2>1, <3>1, <4>1, BeforeIsTransitive
      <3>3. SmallerEdge(m, e) = e
        BY <2>2, <2>4 DEF SmallerEdge
      <3>. QED  BY <3>2, <3>3 DEF Smallest
    <2>. QED  BY <2>3, <2>4
  <1>. QED  BY <1>1, <1>2

(* The edge before e ends where e starts.                                    *)
LEMMA PrevEndsHere ==
  ASSUME F \in Meshes, NEW e \in Edges
  PROVE  dedge_prev(e) \in Edges /\ Nxt(dedge_prev(e)) = Cur(e)
  <1>1. /\ deg \in Nat \ {0} /\ e[2] \in 1 .. deg /\ dedge_prev(e) \in Edges
    BY Shape
  <1>2. CASE e[2] = 1
    <2>1. deg % deg = 0
      BY <1>1
    <2>. QED  BY <1>1, <1>2, <2>1 DEF dedge_prev, Nxt, Cur
  <1>3. CASE e[2] # 1
    <2>1. (e[2] - 1) % deg = e[2] - 1
      BY <1>1, <1>3
    <2>2. ((e[2] - 1) % deg) + 1 = e[2]
      BY <1>1, <2>1
    <2>. QED  BY <1>1, <1>3, <2>2 DEF dedge_prev, Nxt, Cur
  <1>. QED  BY <1>2, <1>3

(* A turn at an unflagged vertex stays at the vertex, or ends at a first     *)
(* edge.                                                                     *)
LEMMA TurnAtVertex ==
  ASSUME MatchInv, loop \in {"walk", "done"}, NEW v \in Vertices, v \notin nonManifold,
         NEW e \in Leaving(v)
  PROVE  /\ (Turned(e) = INVALID) <=> First(e)
         /\ Turned(e) # INVALID => Turned(e) \in Leaving(v)
  <1> DEFINE p == dedge_prev(e)
  <1>1. /\ F \in Meshes /\ INVALID \notin Edges /\ e \in Edges /\ Cur(e) = v
        /\ Matched
    BY Shape DEF MatchInv, ChainInv, InsertInv, Typed, TypeOK, Leaving
  <1>2. p \in Edges /\ Nxt(p) = v
    BY <1>1, PrevEndsHere
  <1> HIDE DEF p
  <1>3. Degenerate(p) => Facing(p) = {}
    BY DEF Facing, Leaving, Degenerate
  <1>4. E2E[p] # INVALID => ~Degenerate(p) /\ E2E[p] \in Facing(p)
    BY <1>1, <1>2 DEF Matched, OnlyFacing
  <1>5. Facing(p) \subseteq Leaving(v)
    BY <1>2 DEF Facing
  <1>6. ~Degenerate(p) /\ Facing(p) # {} => E2E[p] # INVALID
    <2>1. ASSUME ~Degenerate(p), Facing(p) # {} PROVE Facing(p) = {E2E[p]}
      BY <1>2, <2>1, PairedEdges
    <2>2. Facing(p) \subseteq Edges
      BY DEF Facing, Leaving
    <2>. QED  BY <1>1, <2>1, <2>2
  <1>. QED  BY <1>2, <1>3, <1>4, <1>5, <1>6 DEF Turned, First, p

AroundOf(e) ==
  CHOOSE nth : nth = [n \in Nat |-> IF n = 0 THEN e
                                    ELSE IF nth[n - 1] = INVALID THEN INVALID
                                    ELSE E2E[dedge_prev(nth[n - 1])]]

(* The fan of an edge stays in every set that the turns do not leave.        *)
LEMMA AroundStays ==
  ASSUME TypeOK, NEW S \in SUBSET Edges, NEW e \in S, \A o \in S : Turned(o) \in S
  PROVE  Around(e) \subseteq S
  <1> DEFINE step == [x \in Link |-> IF x = INVALID THEN INVALID ELSE E2E[dedge_prev(x)]]
             nth == AroundOf(e)
  <1>1. F \in Meshes /\ INVALID \notin Edges
    BY Shape DEF TypeOK
  <1>2. step \in [Link -> Link] /\ e \in Link
    <2>1. \A x \in Edges : E2E[dedge_prev(x)] \in Link
      BY <1>1, Shape DEF TypeOK
    <2>. QED  BY <2>1 DEF Link
  <1>3. \A x \in Link : step[x] = IF x = INVALID THEN INVALID ELSE E2E[dedge_prev(x)]
    OBVIOUS
  <1> HIDE DEF step
  <1>4. PICK f \in [Nat -> Link] : \A n \in Nat : f[n] = IF n = 0 THEN e ELSE step[f[n - 1]]
    <2>1. ASSUME NEW V, NEW c \in V, NEW s \in [V -> V]
          PROVE  \E f \in [Nat -> V] : \A n \in Nat : f[n] = IF n = 0 THEN c ELSE s[f[n - 1]]
      BY Iteration
    <2>2. \A c \in Link, s \in [Link -> Link] :
            \E f \in [Nat -> Link] : \A n \in Nat : f[n] = IF n = 0 THEN c ELSE s[f[n - 1]]
      BY <2>1
    <2>. QED  BY <1>2, <2>2
  <1>5. \A n \in Nat : f[n] = IF n = 0 THEN e ELSE IF f[n - 1] = INVALID THEN INVALID
                                                   ELSE E2E[dedge_prev(f[n - 1])]
    BY <1>3, <1>4
  <1>6. f = [n \in Nat |-> IF n = 0 THEN e ELSE IF f[n - 1] = INVALID THEN INVALID
                                                ELSE E2E[dedge_prev(f[n - 1])]]
    BY <1>4, <1>5
  <1>7. nth = [n \in Nat |-> IF n = 0 THEN e ELSE IF nth[n - 1] = INVALID THEN INVALID
                                                  ELSE E2E[dedge_prev(nth[n - 1])]]
    BY <1>6 DEF AroundOf
  <1>8. Around(e) = Edges \intersect {nth[n] : n \in 0 .. Cardinality(Edges)}
    BY DEF Around, AroundOf
  <1> HIDE DEF nth
  <1>9. nth[0] = e /\ \A n \in Nat : nth[n + 1] = IF nth[n] = INVALID THEN INVALID
                                                  ELSE E2E[dedge_prev(nth[n])]
    BY <1>7
  <1> DEFINE B == {n \in Nat : nth[n] \notin S}
  <1>10. B = {}
    <2> SUFFICES ASSUME B # {} PROVE FALSE
      OBVIOUS
    <2>1. PICK m \in B : \A k \in B : m <= k
      <3>1. B \in SUBSET Nat
        OBVIOUS
      <3> HIDE DEF B
      <3>. QED  BY <3>1, LeastNatural
    <2>2. m # 0
      BY <1>9
    <2>3. m - 1 \in Nat /\ (m - 1) + 1 = m /\ m - 1 \notin B
      BY <2>1, <2>2
    <2>4. nth[m - 1] \in S /\ nth[m - 1] # INVALID
      BY <1>1, <2>3
    <2>5. nth[m] = Turned(nth[m - 1])
      BY <1>9, <2>3, <2>4 DEF Turned
    <2>. QED  BY <2>4, <2>5
  <1>11. Cardinality(Edges) \in Nat
    BY <1>1, EdgesFinite
  <1>. QED  BY <1>8, <1>10, <1>11

LEMMA InitWalk == Init => WalkInv
  BY InitMatch DEF Init, WalkInv, Unwalked

(* The third loop finds at each vertex the head of its list.                 *)
LEMMA HeadsAtBarrier ==
  ASSUME MatchInv, loop = "match", NEW v \in Vertices
  PROVE  IF Leaving(v) = {} THEN V2E[v] = INVALID ELSE V2E[v] \in Leaving(v)
  <1>1. /\ TypeOK /\ Heads /\ Links /\ Grounded /\ INVALID \notin Edges
        /\ Leaving(v) = {e \in Inserted : Cur(e) = v}
    BY Shape DEF MatchInv, ChainInv, Chained, InsertInv, ListsInv, Typed, TypeOK, Inserted, Leaving
  <1>2. V2E[v] # INVALID => V2E[v] \in Leaving(v)
    BY <1>1 DEF Heads
  <1>3. ASSUME Leaving(v) # {} PROVE V2E[v] # INVALID
    <2>1. Leaving(v) \in SUBSET Inserted
      BY <1>1
    <2>2. PICK e \in Leaving(v) :
            V2E[Cur(e)] = e \/ \E o \in Inserted \ Leaving(v) : tmp[o].second = e
      BY <1>1, <1>3, <2>1 DEF Grounded
    <2>3. e \in Inserted /\ Cur(e) = v /\ e # INVALID
      BY <1>1 DEF Inserted
    <2>4. CASE \E o \in Inserted \ Leaving(v) : tmp[o].second = e
      <3>1. PICK o \in Inserted \ Leaving(v) : tmp[o].second = e
        BY <2>4
      <3>2. Cur(e) = Cur(o)
        BY <1>1, <2>3, <3>1 DEF Links
      <3>. QED  BY <1>1, <2>3, <3>1, <3>2
    <2>. QED  BY <2>2, <2>3, <2>4
  <1>. QED  BY <1>2, <1>3

LEMMA AroundIsFixed ==
  ASSUME UNCHANGED <<F, E2E>>
  PROVE  \A e : Around(e)' = Around(e) /\ Turned(e)' = Turned(e) /\ (First(e)' <=> First(e))
  <1>1. /\ Edges' = Edges
        /\ \A e : dedge_prev(e)' = dedge_prev(e) /\ Facing(e)' = Facing(e)
    BY FacingIsFixed
  <1>. QED  BY <1>1 DEF Around, Turned, First, dedge_prev, deg, Edges, Faces

(* Before and after a step of the third loop, the other vertices.            *)
LEMMA OthersKept ==
  ASSUME UNCHANGED <<F, E2E, nonManifold>>, NEW v \in Vertices,
         V2E'[v] = V2E[v], walk'[v] = walk[v], v \in boundary' <=> v \in boundary
  PROVE  (Settled(v) => Settled(v)') /\ (Waiting(v) => Waiting(v)')
  <1>1. \A e : Around(e)' = Around(e) /\ Turned(e)' = Turned(e) /\ (First(e)' <=> First(e))
    BY AroundIsFixed
  <1>2. Leaving(v)' = Leaving(v)
    BY FacingIsFixed
  <1>3. Settled(v) => Settled(v)'
    BY <1>1, <1>2 DEF Settled, Before
  <1>4. Walked(v) => Walked(v)'
    BY <1>1, <1>2 DEF Walked, Smallest, Before
  <1>. QED  BY <1>2, <1>3, <1>4 DEF Waiting

LEMMA BeginKeeps ==
  ASSUME WalkInv, NEW v \in Vertices, BeginWalk(v), NEW u \in Vertices
  PROVE  IF walk'[u].done THEN Settled(u)' ELSE Waiting(u)'
  <1>1. /\ TypeOK /\ INVALID \notin Edges /\ loop = "walk" /\ ~walk[v].done
        /\ UNCHANGED <<F, E2E, nonManifold, boundary>>
        /\ IF walk[u].done THEN Settled(u) ELSE Waiting(u)
        /\ Waiting(v)
    BY Shape DEF WalkInv, MatchInv, ChainInv, InsertInv, Typed, TypeOK, BeginWalk
  <1>2. Leaving(v)' = Leaving(v) /\ Leaving(v) \subseteq Edges
    BY <1>1, FacingIsFixed DEF Leaving
  <1>3. CASE u # v
    <2>1. V2E'[u] = V2E[u] /\ walk'[u] = walk[u]
      BY <1>1, <1>3 DEF BeginWalk, Finish, TypeOK
    <2>. QED  BY <1>1, <2>1, OthersKept
  <1>4. CASE V2E[v] = INVALID \/ v \in nonManifold
    <2>1. V2E' = [V2E EXCEPT ![v] = INVALID] /\ walk'[v].done
      BY <1>1, <1>4 DEF BeginWalk, Finish, TypeOK
    <2>2. V2E'[v] = INVALID
      BY <1>1, <2>1 DEF TypeOK
    <2>3. Leaving(v) = {} \/ v \in nonManifold
      BY <1>1, <1>2, <1>4 DEF Waiting
    <2>4. Settled(v)'
      BY <1>1, <1>2, <2>2, <2>3 DEF Settled
    <2>. QED  BY <1>3, <2>1, <2>4
  <1>5. CASE V2E[v] # INVALID /\ v \notin nonManifold
    <2>1. /\ walk' = [walk EXCEPT ![v] = [done |-> FALSE, edge |-> V2E[v], v2e |-> INVALID]]
          /\ V2E' = V2E
      BY <1>5 DEF BeginWalk
    <2>2. ~walk'[v].done /\ walk'[v].edge = V2E[v] /\ walk'[v].v2e = INVALID
      BY <1>1, <2>1 DEF TypeOK
    <2>3. V2E[v] \in Leaving(v)
      BY <1>1, <1>5 DEF Waiting
    <2>4. \E S \in SUBSET Leaving(v) :
            /\ IF walk'[v].v2e = INVALID THEN S = {} /\ walk'[v].edge = V2E'[v]
               ELSE V2E'[v] \in S /\ Smallest(walk'[v].v2e, S)
            /\ \A o \in S : Turned(o) \in S \union {walk'[v].edge}
      <3> WITNESS {} \in SUBSET Leaving(v)
      <3>. QED  BY <2>1, <2>2
    <2>5. Walked(v)'
      BY <1>1, <1>2, <1>5, <2>2, <2>3, <2>4, AroundIsFixed DEF Walked, Smallest, Before
    <2>6. Waiting(v)'
      BY <1>1, <1>2, <2>1, <2>5 DEF Waiting
    <2>. QED  BY <1>3, <2>2, <2>6
  <1>. QED  BY <1>4, <1>5

(* What a walk has behind it once the edge it is at is taken in.             *)
LEMMA TurnBehind ==
  ASSUME WalkInv, NEW v \in Vertices, Turn(v)
  PROVE  /\ walk[v].edge \in Leaving(v) /\ v \notin nonManifold
         /\ \E S \in SUBSET Leaving(v) :
              /\ walk[v].edge \in S /\ V2E[v] \in S
              /\ Smallest(SmallerEdge(walk[v].v2e, walk[v].edge), S)
              /\ \A o \in S \ {walk[v].edge} : Turned(o) \in S
  <1>1. F \in Meshes /\ Walked(v)
    BY DEF WalkInv, MatchInv, ChainInv, InsertInv, Typed, TypeOK, Turn, Waiting
  <1> DEFINE e == walk[v].edge
             m == walk[v].v2e
  <1>2. PICK S \in SUBSET Leaving(v) :
          /\ IF m = INVALID THEN S = {} /\ e = V2E[v] ELSE V2E[v] \in S /\ Smallest(m, S)
          /\ \A o \in S : Turned(o) \in S \union {e}
    BY <1>1 DEF Walked
  <1>3. e \in Leaving(v) /\ Leaving(v) \subseteq Edges
    BY <1>1 DEF Walked, Leaving
  <1> HIDE DEF e, m
  <1>4. Smallest(SmallerEdge(m, e), S \union {e})
    <2>1. S \in SUBSET Edges /\ e \in Edges /\ IF m = INVALID THEN S = {} ELSE Smallest(m, S)
      BY <1>2, <1>3
    <2>. QED  BY <1>1, <2>1, SmallerIsSmallest
  <1>5. /\ S \union {e} \in SUBSET Leaving(v) /\ e \in S \union {e} /\ V2E[v] \in S \union {e}
        /\ \A o \in (S \union {e}) \ {e} : Turned(o) \in S \union {e}
    BY <1>2, <1>3
  <1>. QED  BY <1>1, <1>4, <1>5 DEF e, m, Walked

LEMMA TurnKeeps ==
  ASSUME WalkInv, NEW v \in Vertices, Turn(v), NEW u \in Vertices
  PROVE  IF walk'[u].done THEN Settled(u)' ELSE Waiting(u)'
  <1> DEFINE edge == walk[v].edge
             v2e == SmallerEdge(walk[v].v2e, edge)
             prev == Turned(edge)
  <1>1. /\ TypeOK /\ INVALID \notin Edges /\ loop = "walk" /\ ~walk[v].done /\ MatchInv
        /\ UNCHANGED <<F, E2E, nonManifold>>
        /\ IF walk[u].done THEN Settled(u) ELSE Waiting(u)
        /\ Waiting(v)
    BY Shape DEF WalkInv, MatchInv, ChainInv, InsertInv, Typed, TypeOK, Turn
  <1>2. /\ Leaving(v)' = Leaving(v) /\ Leaving(v) \subseteq Edges
        /\ \A e : Around(e)' = Around(e) /\ Turned(e)' = Turned(e) /\ (First(e)' <=> First(e))
    BY <1>1, FacingIsFixed, AroundIsFixed DEF Leaving
  <1>3. edge \in Leaving(v) /\ v \notin nonManifold
    BY TurnBehind
  <1>4. PICK S \in SUBSET Leaving(v) :
          edge \in S /\ V2E[v] \in S /\ Smallest(v2e, S) /\ \A o \in S \ {edge} : Turned(o) \in S
    BY TurnBehind
  <1>5. \A e \in Leaving(v) : /\ (Turned(e) = INVALID) <=> First(e)
                              /\ Turned(e) # INVALID => Turned(e) \in Leaving(v)
    BY <1>1, <1>3, TurnAtVertex
  <1>6. \/ prev = INVALID /\ boundary' = boundary \union {v} /\ Finish(v, edge)
        \/ prev # INVALID /\ prev = V2E[v] /\ Finish(v, v2e) /\ UNCHANGED boundary
        \/ /\ prev # INVALID /\ prev # V2E[v] /\ UNCHANGED <<V2E, boundary>>
           /\ walk' = [walk EXCEPT ![v] = [done |-> FALSE, edge |-> prev, v2e |-> v2e]]
    BY DEF Turn, Turned
  <1>7. CASE u # v
    <2>1. V2E'[u] = V2E[u] /\ walk'[u] = walk[u] /\ (u \in boundary' <=> u \in boundary)
      BY <1>1, <1>6, <1>7 DEF Finish, TypeOK
    <2>. QED  BY <1>1, <2>1, OthersKept
  <1> HIDE DEF edge, v2e, prev
  <1>8. ASSUME NEW e, Finish(v, e) PROVE V2E'[v] = e /\ walk'[v].done
    BY <1>1, <1>8 DEF Finish, TypeOK
  <1>9. CASE prev = INVALID /\ boundary' = boundary \union {v} /\ Finish(v, edge)
    <2>1. V2E'[v] = edge /\ walk'[v].done
      BY <1>8, <1>9
    <2>2. First(edge)
      BY <1>3, <1>5, <1>9 DEF prev
    <2>3. Settled(v)'
      BY <1>1, <1>2, <1>3, <1>9, <2>1, <2>2 DEF Settled
    <2>. QED  BY <1>7, <2>1, <2>3
  <1>10. CASE prev # INVALID /\ prev = V2E[v] /\ Finish(v, v2e) /\ UNCHANGED boundary
    <2>1. V2E'[v] = v2e /\ walk'[v].done
      BY <1>8, <1>10
    <2>2. v2e \in S /\ \A o \in S : o = v2e \/ Before(v2e, o)
      BY <1>4 DEF Smallest
    <2>3. \A o \in S : Turned(o) \in S
      BY <1>4, <1>10 DEF prev
    <2>4. ~First(v2e) /\ v \notin boundary'
      BY <1>1, <1>2, <1>5, <1>10, <2>2, <2>3 DEF Waiting
    <2>5. \A o \in Around(v2e) : o = v2e \/ Before(v2e, o)
      <3>1. Around(v2e) \subseteq S
        BY <1>1, <1>2, <2>2, <2>3, AroundStays
      <3>. QED  BY <2>2, <3>1
    <2>6. Settled(v)'
      BY <1>1, <1>2, <1>3, <2>1, <2>2, <2>4, <2>5 DEF Settled, Before
    <2>. QED  BY <1>7, <2>1, <2>6
  <1>11. CASE /\ prev # INVALID /\ prev # V2E[v] /\ UNCHANGED <<V2E, boundary>>
              /\ walk' = [walk EXCEPT ![v] = [done |-> FALSE, edge |-> prev, v2e |-> v2e]]
    <2>1. ~walk'[v].done /\ walk'[v].edge = prev /\ walk'[v].v2e = v2e
      BY <1>1, <1>11 DEF TypeOK
    <2>2. prev \in Leaving(v)
      BY <1>3, <1>5, <1>11 DEF prev
    <2>3. v2e # INVALID /\ V2E'[v] \in S /\ Smallest(v2e, S)
      BY <1>1, <1>2, <1>4, <1>11 DEF Smallest
    <2>4. \A o \in S : Turned(o) \in S \union {prev}
      BY <1>4 DEF prev
    <2>5. \E T \in SUBSET Leaving(v) :
            /\ IF walk'[v].v2e = INVALID THEN T = {} /\ walk'[v].edge = V2E'[v]
               ELSE V2E'[v] \in T /\ Smallest(walk'[v].v2e, T)
            /\ \A o \in T : Turned(o) \in T \union {walk'[v].edge}
      <3> WITNESS S \in SUBSET Leaving(v)
      <3>. QED  BY <2>1, <2>3, <2>4
    <2>6. Walked(v)'
      BY <1>1, <1>2, <1>3, <2>1, <2>2, <2>5 DEF Walked, Smallest, Before
    <2>7. Waiting(v)'
      BY <1>1, <1>2, <1>11, <2>6 DEF Waiting
    <2>. QED  BY <1>7, <2>1, <2>7
  <1>. QED  BY <1>6, <1>9, <1>10, <1>11

LEMMA StepWalk == WalkInv /\ [Next]_vars => WalkInv'
  <1> SUFFICES ASSUME WalkInv, [Next]_vars PROVE WalkInv'
    OBVIOUS
  <1>1. MatchInv' /\ TypeOK /\ MatchInv
    BY StepMatch DEF WalkInv, MatchInv, ChainInv, InsertInv, Typed
  <1>2. CASE \E f \in Faces : \/ SkipDegenerate(f) \/ Fill(f) \/ InsertHead(f) \/ InsertTail(f)
                              \/ Match(f) \/ LinkBack(f)
    <2>1. loop \in {"insert", "match"} /\ UNCHANGED <<loop, boundary, walk>>
      BY <1>2 DEF SkipDegenerate, Fill, InsertHead, InsertTail, Match, LinkBack
    <2>. QED  BY <1>1, <2>1 DEF WalkInv, Unwalked
  <1>3. CASE LoopEnds("insert", "match", "look")
    BY <1>1, <1>3 DEF WalkInv, Unwalked, LoopEnds
  <1>4. CASE LoopEnds("match", "walk", "idle")
    <2>1. /\ loop = "match" /\ loop' = "walk"
          /\ UNCHANGED <<F, E2E, nonManifold, V2E, walk, boundary>> /\ Unwalked
      BY <1>4 DEF LoopEnds, WalkInv
    <2>2. ASSUME NEW v \in Vertices PROVE ~walk[v].done /\ Waiting(v)
      BY <1>1, <2>1, HeadsAtBarrier DEF Waiting, Unwalked
    <2>3. ASSUME NEW v \in Vertices PROVE ~walk'[v].done /\ Waiting(v)'
      BY <2>1, <2>2, OthersKept
    <2>. QED  BY <1>1, <2>1, <2>3 DEF WalkInv
  <1>5. CASE \E v \in Vertices : BeginWalk(v) \/ Turn(v)
    <2>1. loop = "walk" /\ loop' = "walk"
      BY <1>5 DEF BeginWalk, Turn
    <2>. QED  BY <1>1, <1>5, <2>1, BeginKeeps, TurnKeeps DEF WalkInv
  <1>6. CASE WalksEnd \/ UNCHANGED vars
    <2>1. /\ UNCHANGED <<F, E2E, nonManifold, V2E, walk, boundary>>
          /\ \/ loop' = loop
             \/ loop = "walk" /\ loop' = "done" /\ \A v \in Vertices : walk[v].done
      BY <1>6 DEF WalksEnd, vars
    <2>2. loop \in {"walk", "done"} =>
            \A v \in Vertices : IF walk'[v].done THEN Settled(v)' ELSE Waiting(v)'
      BY <2>1, OthersKept DEF WalkInv
    <2>. QED  BY <1>1, <2>1, <2>2 DEF WalkInv, Unwalked
  <1>. QED
    BY <1>2, <1>3, <1>4, <1>5, <1>6 DEF Next

(* Every vertex ends with the first edge of its fan or, where the fan is     *)
(* closed, with its smallest edge, on every mesh and for every order of the  *)
(* insertions.                                                               *)
THEOREM VerticesStartFans == Spec => []VerticesStartTheirFan
  <1>1. WalkInv => VerticesStartTheirFan
    BY DEF WalkInv, VerticesStartTheirFan, Settled
  <1>. QED  BY InitWalk, StepWalk, <1>1, PTL DEF Spec

-----------------------------------------------------------------------------
(***************************************************************************)
(* GraphColoring.                                                          *)
(***************************************************************************)
(***************************************************************************)
(* Types.                                                                  *)
(***************************************************************************)
LEMMA GraphFacts ==
  ASSUME ColoringTypeOK
  PROVE  /\ 0 \in Place /\ Place = Vertex
         /\ adj \in [Vertex -> SUBSET Vertex]
         /\ \A v, w \in Vertex : w \in adj[v] => v # w /\ v \in adj[w]
         /\ block \in [Body -> SUBSET Place]
         /\ \A a, b \in Body : a # b => block[a] \cap block[b] = {}
  <1>1. 0 \in Place /\ Place = Vertex
    BY ColoringAssumption DEF Place, Vertex
  <1>2. adj \in Graphs /\ block \in Blocks
    BY DEF ColoringTypeOK
  <1> QED
    BY <1>1, <1>2, ColoringAssumption

LEMMA TypeInit == ColoringInit => ColoringTypeOK
  <1> SUFFICES ASSUME ColoringInit PROVE ColoringTypeOK
    OBVIOUS
  <1>1. 0 \in Place /\ Place = Vertex /\ block \in [Body -> SUBSET Place]
    BY ColoringAssumption DEF ColoringInit, Place, Vertex
  <1>2. perm \in [Place -> Vertex]
    BY <1>1 DEF ColoringInit, IsPermutation
  <1>3. /\ nNodes = [b \in Body |-> nNodes[b]]
        /\ nColors = [b \in Body |-> 0]
        /\ \A b \in Body : DOMAIN nNodes[b] = {}
    BY DEF ColoringInit
  <1>4. 0 .. (0 - 1) = {}
    OBVIOUS
  <1>5. \A b \in Body : DOMAIN nNodes[b] = 0 .. (nColors[b] - 1)
    BY <1>3, <1>4
  <1> QED
    BY <1>1, <1>2, <1>3, <1>5 DEF ColoringInit, ColoringTypeOK, PCs

LEMMA CountTypes ==
  ASSUME ColoringTypeOK, NEW b \in Body, NEW v \in Vertex, NEW c \in 0 .. nColors[b], Count(b, v, c)
  PROVE  /\ color' \in [Vertex -> Nat \union {Invalid}]
         /\ nColors' \in [Body -> Nat]
         /\ nNodes' = [a \in Body |-> nNodes'[a]]
         /\ \A a \in Body : DOMAIN nNodes'[a] = 0 .. (nColors'[a] - 1)
  <1>0. nColors \in [Body -> Nat] /\ c \in Nat /\ c + 1 \in Nat /\ c + 1 - 1 = c
    BY DEF ColoringTypeOK
  <1>1. color' \in [Vertex -> Nat \union {Invalid}]
    BY <1>0 DEF Count, ColoringTypeOK
  <1>2. CASE c = nColors[b]
    <2> DEFINE new == [Extended(b, c) EXCEPT ![c] = 1]
    <2>1. nColors' = [nColors EXCEPT ![b] = c + 1] /\ nNodes' = [nNodes EXCEPT ![b] = new]
      BY <1>2 DEF Count
    <2>2. DOMAIN new = 0 .. c
      BY DEF Extended
    <2> HIDE DEF new
    <2>3. \A a \in Body : DOMAIN nNodes'[a] = 0 .. (nColors'[a] - 1)
      <3> TAKE a \in Body
      <3>1. CASE a = b
        BY <3>1, <2>1, <2>2, <1>0 DEF ColoringTypeOK
      <3>2. CASE a # b
        BY <3>2, <2>1, <1>0 DEF ColoringTypeOK
      <3> QED BY <3>1, <3>2
    <2> QED
      BY <1>0, <1>1, <2>1, <2>3 DEF ColoringTypeOK
  <1>3. CASE c # nColors[b]
    <2>1. nColors' = nColors /\ nNodes' = [nNodes EXCEPT ![b][c] = @ + 1]
      BY <1>3 DEF Count
    <2> QED
      BY <1>1, <2>1 DEF ColoringTypeOK
  <1> QED BY <1>2, <1>3

LEMMA ReadTypes ==
  ASSUME ColoringTypeOK, NEW b \in Body, Read(b)
  PROVE  ColoringTypeOK'
  <1> USE DEF swapping
  <1>1. PICK w \in unread[b] : Read(b)!2!(w)
    BY DEF Read
  <1>2. w \in Vertex
    BY DEF ColoringTypeOK
  <1>3. CASE color[w] = Invalid
    BY <1>1, <1>3 DEF Read, ColoringTypeOK
  <1>4. CASE color[w] # Invalid
    <2>1. color[w] \in Nat /\ color[w] + 1 \in Nat /\ color[w] + 1 - 1 = color[w]
      BY <1>2, <1>4 DEF ColoringTypeOK
    <2>2. /\ unread' \in [Body -> SUBSET Vertex]
          /\ taken' \in [Body -> SUBSET Nat]
      <3>1. unread' = [unread EXCEPT ![b] = @ \ {w}]
        BY <1>1
      <3>2. taken' = [taken EXCEPT ![b] = @ \union {color[w]}]
        BY <1>1, <1>4
      <3>3. unread[b] \ {w} \in SUBSET Vertex /\ taken[b] \union {color[w]} \in SUBSET Nat
        BY <2>1 DEF ColoringTypeOK
      <3> QED
        BY <3>1, <3>2, <3>3 DEF ColoringTypeOK
    <2>3. /\ nColors' \in [Body -> Nat]
          /\ nNodes' = [a \in Body |-> nNodes'[a]]
          /\ \A a \in Body : DOMAIN nNodes'[a] = 0 .. (nColors'[a] - 1)
      <3>1. CASE color[w] < nColors[b]
        BY <1>1, <1>4, <3>1 DEF ColoringTypeOK
      <3>2. CASE ~ (color[w] < nColors[b])
        <4> DEFINE new == Extended(b, color[w])
        <4>1. /\ nColors' = [nColors EXCEPT ![b] = color[w] + 1]
              /\ nNodes' = [nNodes EXCEPT ![b] = new]
          BY <1>1, <1>4, <3>2
        <4>2. DOMAIN new = 0 .. color[w]
          BY DEF Extended
        <4> HIDE DEF new
        <4>3. \A a \in Body : DOMAIN nNodes'[a] = 0 .. (nColors'[a] - 1)
          <5> TAKE a \in Body
          <5>1. CASE a = b
            BY <5>1, <4>1, <4>2, <2>1 DEF ColoringTypeOK
          <5>2. CASE a # b
            BY <5>2, <4>1, <2>1 DEF ColoringTypeOK
          <5> QED BY <5>1, <5>2
        <4> QED
          BY <2>1, <4>1, <4>3 DEF ColoringTypeOK
      <3> QED BY <3>1, <3>2
    <2> QED
      BY <2>2, <2>3 DEF Read, ColoringTypeOK
  <1> QED BY <1>3, <1>4

LEMMA TypeNext ==
  ASSUME ColoringTypeOK, [ColoringNext]_coloring_vars
  PROVE  ColoringTypeOK'
  <1> USE DEF swapping, colored, Goto, Acquire, Release
  <1>1. ASSUME NEW b \in Body, Draw(b)
        PROVE  ColoringTypeOK'
    <2>0. PICK i \in todo[b] : Draw(b)!2!(i)
      BY <1>1 DEF Draw
    <2>1. PICK k \in i .. (Size - 1) : Draw(b)!2!(i)!(k)
      BY <2>0
    <2>2. i \in Place /\ k \in Place
      BY ColoringAssumption DEF ColoringTypeOK, Place
    <2>3. CASE k = i
      <3>1. todo' = [todo EXCEPT ![b] = @ \ {i}] /\ UNCHANGED <<doing, cur, other>>
        BY <2>1, <2>3
      <3>2. todo' \in [Body -> SUBSET Place]
        BY <3>1 DEF ColoringTypeOK
      <3> QED
        BY <1>1, <3>1, <3>2 DEF Draw, ColoringTypeOK
    <2>4. CASE k # i
      <3>1. /\ doing' = [doing EXCEPT ![b] = "lock first"]
            /\ cur' = [cur EXCEPT ![b] = i]
            /\ other' = [other EXCEPT ![b] = k]
            /\ UNCHANGED todo
        BY <2>1, <2>4
      <3>2. /\ doing' \in [Body -> PCs]
            /\ cur' \in [Body -> Vertex]
            /\ other' \in [Body -> Place]
        BY <2>2, <3>1, GraphFacts DEF ColoringTypeOK, PCs
      <3> QED
        BY <1>1, <3>1, <3>2 DEF Draw, ColoringTypeOK
    <2> QED BY <2>3, <2>4
  <1>2. ASSUME NEW b \in Body, LockFirst(b)
        PROVE  ColoringTypeOK'
    BY <1>2 DEF LockFirst, ColoringTypeOK, PCs
  <1>3. ASSUME NEW b \in Body, LockSecond(b)
        PROVE  ColoringTypeOK'
    BY <1>3 DEF LockSecond, ColoringTypeOK, PCs
  <1>4. ASSUME NEW b \in Body, SwapFirst(b)
        PROVE  ColoringTypeOK'
    BY <1>4, GraphFacts DEF SwapFirst, ColoringTypeOK, PCs
  <1>5. ASSUME NEW b \in Body, SwapSecond(b)
        PROVE  ColoringTypeOK'
    BY <1>5, GraphFacts DEF SwapSecond, ColoringTypeOK, PCs
  <1>6. ASSUME NEW b \in Body, UnlockSecond(b)
        PROVE  ColoringTypeOK'
    BY <1>6 DEF UnlockSecond, ColoringTypeOK, PCs
  <1>7. ASSUME NEW b \in Body, UnlockFirst(b)
        PROVE  ColoringTypeOK'
    BY <1>7 DEF UnlockFirst, ColoringTypeOK, PCs
  <1>8. ASSUME NEW b \in Body, Begin(b)
        PROVE  ColoringTypeOK'
    <2>1. PICK x \in todo[b] : Begin(b)!3!(x)
      BY <1>8 DEF Begin
    <2>2. perm[x] \in Vertex /\ Neighborhood(perm[x]) \in SUBSET Vertex
      BY GraphFacts DEF Neighborhood, ColoringTypeOK
    <2> QED
      BY <1>8, <2>1, <2>2 DEF Begin, ColoringTypeOK, PCs
  <1>9. ASSUME NEW b \in Body, Lock(b)
        PROVE  ColoringTypeOK'
    <2>1. PICK v \in want[b] : Lock(b)!2!(v)
      BY <1>9 DEF Lock
    <2>2. v \in Vertex /\ adj[cur[b]] \in SUBSET Vertex /\ want[b] \ {v} \in SUBSET Vertex
      BY GraphFacts DEF ColoringTypeOK
    <2>3. CASE want[b] = {v}
      <3>1. /\ doing' = [doing EXCEPT ![b] = "read"]
            /\ unread' = [unread EXCEPT ![b] = adj[cur[b]]]
            /\ taken' = [taken EXCEPT ![b] = {}]
        BY <2>1, <2>3
      <3>2. /\ doing' \in [Body -> PCs]
            /\ unread' \in [Body -> SUBSET Vertex]
            /\ taken' \in [Body -> SUBSET Nat]
        BY <2>2, <3>1 DEF ColoringTypeOK, PCs
      <3> QED
        BY <1>9, <2>1, <2>2, <3>2 DEF Lock, ColoringTypeOK
    <2>4. CASE want[b] # {v}
      BY <1>9, <2>1, <2>2, <2>4 DEF Lock, ColoringTypeOK, PCs
    <2> QED BY <2>3, <2>4
  <1>10. ASSUME NEW b \in Body, Read(b)
         PROVE  ColoringTypeOK'
    BY <1>10, ReadTypes
  <1>11. ASSUME NEW b \in Body, Choose(b)
         PROVE  ColoringTypeOK'
    <2>1. PICK c \in 0 .. nColors[b] : Count(b, cur[b], c)
      BY <1>11 DEF Choose
    <2>2. cur[b] \in Vertex /\ Neighborhood(cur[b]) \in SUBSET Vertex
      BY GraphFacts DEF Neighborhood, ColoringTypeOK
    <2>3. /\ color' \in [Vertex -> Nat \union {Invalid}]
          /\ nColors' \in [Body -> Nat]
          /\ nNodes' = [a \in Body |-> nNodes'[a]]
          /\ \A a \in Body : DOMAIN nNodes'[a] = 0 .. (nColors'[a] - 1)
      BY <2>1, <2>2, CountTypes
    <2> QED
      BY <1>11, <2>2, <2>3 DEF Choose, ColoringTypeOK, PCs
  <1>12. ASSUME NEW b \in Body, Throw(b)
         PROVE  ColoringTypeOK'
    BY <1>12 DEF Throw, ColoringTypeOK, PCs
  <1>13. ASSUME NEW b \in Body, Unlock(b)
         PROVE  ColoringTypeOK'
    <2>1. PICK v \in want[b] : Unlock(b)!2!(v)
      BY <1>13 DEF Unlock
    <2>2. v \in Vertex /\ want[b] \ {v} \in SUBSET Vertex
      BY DEF ColoringTypeOK
    <2>3. CASE want[b] = {v}
      <3>1. PICK x \in todo[b] : todo' = [todo EXCEPT ![b] = @ \ {x}]
        BY <2>1, <2>3
      <3>2. /\ doing' = [doing EXCEPT ![b] = "next"]
            /\ want' = [want EXCEPT ![b] = @ \ {v}]
        BY <2>1, <2>3
      <3>3. /\ todo' \in [Body -> SUBSET Place]
            /\ doing' \in [Body -> PCs]
            /\ want' \in [Body -> SUBSET Vertex]
        BY <2>2, <3>1, <3>2 DEF ColoringTypeOK, PCs
      <3> QED
        BY <1>13, <2>1, <2>2, <3>3 DEF Unlock, ColoringTypeOK
    <2>4. CASE want[b] # {v}
      BY <1>13, <2>1, <2>2, <2>4 DEF Unlock, ColoringTypeOK, PCs
    <2> QED BY <2>3, <2>4
  <1>14. ASSUME NEW b \in Body, Cancel(b)
         PROVE  ColoringTypeOK'
    BY <1>14 DEF Cancel, ColoringTypeOK
  <1>15. ASSUME NEW b \in Body, SerialColor(b)
         PROVE  ColoringTypeOK'
    <2>1. PICK x \in todo[b] : SerialColor(b)!2!(x)
      BY <1>15 DEF SerialColor
    <2>2. PICK c \in 0 .. nColors[b] : SerialColor(b)!2!(x)!(c)
      BY <2>1
    <2>3. perm[x] \in Vertex
      BY DEF ColoringTypeOK
    <2>4. /\ color' \in [Vertex -> Nat \union {Invalid}]
          /\ nColors' \in [Body -> Nat]
          /\ nNodes' = [a \in Body |-> nNodes'[a]]
          /\ \A a \in Body : DOMAIN nNodes'[a] = 0 .. (nColors'[a] - 1)
      BY <2>2, <2>3, CountTypes
    <2>5. cur' \in [Body -> Vertex] /\ todo' \in [Body -> SUBSET Place]
      <3>1. cur' = [cur EXCEPT ![b] = perm[x]] /\ todo' = [todo EXCEPT ![b] = @ \ {x}]
        BY <2>2
      <3> QED
        BY <2>3, <3>1 DEF ColoringTypeOK
    <2> QED
      BY <1>15, <2>4, <2>5 DEF SerialColor, ColoringTypeOK
  <1>16. CASE EndShuffle \/ Rethrow \/ Collect \/ UNCHANGED coloring_vars
    BY <1>16, ColoringAssumption DEF EndShuffle, Rethrow, Collect, ColoringTypeOK, coloring_vars
  <1> QED
    BY <1>1, <1>2, <1>3, <1>4, <1>5, <1>6, <1>7, <1>8, <1>9, <1>10, <1>11, <1>12, <1>13,
       <1>14, <1>15, <1>16 DEF ColoringNext, BodyStep

(* The type invariant, for every graph and every cut of the loops.          *)
THEOREM ColoringTypeCorrect == ColoringSpec => []ColoringTypeOK
  BY TypeInit, TypeNext, PTL DEF ColoringSpec

(***************************************************************************)
(* The inductive invariant.  A body holds the mutexes its place in the     *)
(* code says; a place whose vertex is in the temporary of a swap is in     *)
(* flight, and all other vertices and temporaries are distinct; the vertex *)
(* a body works on has no color until it has chosen one; what it has read  *)
(* is still true.                                                          *)
(***************************************************************************)
Holds(b) ==
  IF doing[b] \in {"lock second", "unlock first"} THEN {cur[b]}
  ELSE IF doing[b] \in {"swap", "swap second", "unlock second"} THEN {cur[b], other[b]}
  ELSE IF doing[b] = "lock" THEN Neighborhood(cur[b]) \ want[b]
  ELSE IF doing[b] \in {"read", "thrown"} THEN Neighborhood(cur[b])
  ELSE IF doing[b] = "unlock" THEN want[b]
  ELSE {}

MutexInv == \A b \in Body : \A v \in Holds(b) : owner[v] = b

Shuffling == {"lock first", "lock second", "swap", "swap second", "unlock second", "unlock first"}
Coloring  == {"lock", "read", "unlock", "thrown"}

StageInv ==
  /\ stage = "shuffle" => build = "TBB" /\ \A v \in Vertex : color[v] = Invalid
  /\ \A b \in Body : /\ todo[b] \subseteq block[b]
                     /\ doing[b] \in Shuffling => stage = "shuffle" /\ cur[b] # other[b]
                     /\ doing[b] \in Coloring => stage # "shuffle"
                     /\ build = "serial" => doing[b] = "next"

InFlight(x) == \E b \in Body : doing[b] = "swap second" /\ other[b] = x

SwapInv ==
  /\ \A x, y \in Place : x # y /\ ~ InFlight(x) /\ ~ InFlight(y) => perm[x] # perm[y]
  /\ \A b \in Body : \A y \in Place :
       doing[b] = "swap second" /\ ~ InFlight(y) => perm[y] # held[b]
  /\ \A a, b \in Body :
       a # b /\ doing[a] = "swap second" /\ doing[b] = "swap second" => held[a] # held[b]

WorkInv ==
  \A b \in Body :
    /\ doing[b] \in Coloring => \E x \in todo[b] : IsLeast(x, todo[b]) /\ cur[b] = perm[x]
    /\ \A x \in todo[b] :
         stage # "shuffle" =>
           color[perm[x]] = Invalid \/ (doing[b] = "unlock" /\ IsLeast(x, todo[b]))

ReadInv ==
  \A b \in Body :
    doing[b] = "read" =>
      /\ unread[b] \subseteq adj[cur[b]]
      /\ taken[b] = {color[w] : w \in adj[cur[b]] \ unread[b]} \ {Invalid}
      /\ \A c \in taken[b] : c < nColors[b]

ColoringInv == MutexInv /\ StageInv /\ SwapInv /\ WorkInv /\ ReadInv

LEMMA HoldsVertices ==
  ASSUME ColoringTypeOK, NEW b \in Body
  PROVE  Holds(b) \subseteq Vertex
  <1>1. /\ cur[b] \in Vertex /\ other[b] \in Vertex /\ want[b] \subseteq Vertex
        /\ adj[cur[b]] \subseteq Vertex
    BY GraphFacts DEF ColoringTypeOK
  <1> QED
    BY <1>1 DEF Holds, Neighborhood

(* A mutex that is free, or that b holds, is not held by another body.      *)
LEMMA OthersKeep ==
  ASSUME ColoringTypeOK, MutexInv, NEW b \in Body, NEW v, NEW o,
         owner[v] = Free \/ v \in Holds(b), owner' = [owner EXCEPT ![v] = o],
         NEW a \in Body, a # b, Holds(a)' = Holds(a)
  PROVE  \A x \in Holds(a)' : owner'[x] = a
  <1> SUFFICES ASSUME NEW x \in Holds(a) PROVE owner'[x] = a
    OBVIOUS
  <1>1. owner[x] = a /\ x \in Vertex
    BY HoldsVertices DEF MutexInv
  <1>2. x # v
    BY <1>1, ColoringAssumption DEF MutexInv
  <1> QED
    BY <1>1, <1>2 DEF ColoringTypeOK

LEMMA MutexStep ==
  ASSUME ColoringTypeOK, ColoringInv, [ColoringNext]_coloring_vars
  PROVE  MutexInv'
  <1> USE DEF Goto, Acquire, Release
  <1>0. MutexInv /\ StageInv /\ WorkInv
    BY DEF ColoringInv
  <1>a. \A b \in Body : doing[b] \in PCs /\ cur[b] \in Vertex /\ other[b] \in Vertex /\ want[b] \subseteq Vertex
    BY GraphFacts DEF ColoringTypeOK
  <1>1. ASSUME NEW b \in Body, Draw(b)
        PROVE  MutexInv'
    <2>1. doing[b] = "next" /\ doing'[b] \in {"next", "lock first"}
      BY <1>1 DEF Draw, ColoringTypeOK
    <2>2. ASSUME NEW a \in Body PROVE \A v \in Holds(a)' : owner'[v] = a
      <3>1. CASE a = b
        BY <2>1, <3>1 DEF Holds
      <3>2. CASE a # b
        <4>1. doing'[a] = doing[a] /\ cur'[a] = cur[a] /\ other'[a] = other[a] /\ want' = want
              /\ adj' = adj /\ owner' = owner
          BY <1>1, <3>2 DEF Draw, ColoringTypeOK
        <4> QED BY <4>1, <1>0 DEF Holds, Neighborhood, MutexInv
      <3> QED BY <3>1, <3>2
    <2> QED BY <2>2 DEF MutexInv
  <1>2. ASSUME NEW b \in Body, LockFirst(b) \/ LockSecond(b)
        PROVE  MutexInv'
    <2> DEFINE v == IF doing[b] = "lock first" THEN cur[b] ELSE other[b]
    <2>1. /\ owner[v] = Free /\ owner' = [owner EXCEPT ![v] = b]
          /\ doing[b] \in {"lock first", "lock second"}
          /\ doing' = [doing EXCEPT ![b] = IF doing[b] = "lock first" THEN "lock second" ELSE "swap"]
          /\ UNCHANGED <<adj, cur, other, want>>
      BY <1>2 DEF LockFirst, LockSecond, swapping
    <2>2. v \in Vertex
      BY <1>a
    <2>3. ASSUME NEW a \in Body PROVE \A x \in Holds(a)' : owner'[x] = a
      <3>1. CASE a = b
        <4>1. CASE doing[b] = "lock first"
          <5>1. Holds(a)' = {v}
            BY <2>1, <3>1, <4>1 DEF Holds, ColoringTypeOK
          <5> QED BY <5>1, <2>1, <2>2, <3>1 DEF ColoringTypeOK
        <4>2. CASE doing[b] = "lock second"
          <5>1. Holds(a)' = {cur[b], v} /\ Holds(b) = {cur[b]}
            BY <2>1, <3>1, <4>2 DEF Holds, ColoringTypeOK
          <5> QED BY <5>1, <1>0, <1>a, <2>1, <2>2, <3>1 DEF ColoringTypeOK, MutexInv
        <4> QED BY <2>1, <4>1, <4>2
      <3>2. CASE a # b
        <4>1. Holds(a)' = Holds(a)
          BY <2>1, <3>2 DEF Holds, Neighborhood, ColoringTypeOK
        <4> HIDE DEF v
        <4> QED BY <4>1, <1>0, <2>1, <3>2, OthersKeep
      <3> QED BY <3>1, <3>2
    <2> QED BY <2>3 DEF MutexInv
  <1>3. ASSUME NEW b \in Body, SwapFirst(b) \/ SwapSecond(b)
        PROVE  MutexInv'
    <2>1. /\ doing[b] \in {"swap", "swap second"}
          /\ doing' = [doing EXCEPT ![b] = IF doing[b] = "swap" THEN "swap second" ELSE "unlock second"]
          /\ UNCHANGED <<adj, cur, other, want, owner>>
      BY <1>3 DEF SwapFirst, SwapSecond
    <2>2. ASSUME NEW a \in Body PROVE Holds(a)' = Holds(a)
      BY <2>1 DEF Holds, Neighborhood, ColoringTypeOK
    <2> QED BY <2>1, <2>2, <1>0 DEF MutexInv
  <1>4. ASSUME NEW b \in Body, UnlockSecond(b) \/ UnlockFirst(b)
        PROVE  MutexInv'
    <2> DEFINE v == IF doing[b] = "unlock second" THEN other[b] ELSE cur[b]
    <2>1. /\ owner' = [owner EXCEPT ![v] = Free]
          /\ doing[b] \in {"unlock second", "unlock first"}
          /\ doing' = [doing EXCEPT ![b] = IF doing[b] = "unlock second" THEN "unlock first" ELSE "next"]
          /\ UNCHANGED <<adj, cur, other, want>>
      BY <1>4 DEF UnlockSecond, UnlockFirst, swapping
    <2>2. v \in Vertex /\ v \in Holds(b)
      BY <1>a, <2>1 DEF Holds
    <2>3. ASSUME NEW a \in Body PROVE \A x \in Holds(a)' : owner'[x] = a
      <3>1. CASE a = b
        <4>1. CASE doing[b] = "unlock second"
          <5>1. Holds(a)' = {cur[b]} /\ cur[b] \in Holds(b) /\ cur[b] # v
            BY <1>0, <2>1, <3>1, <4>1 DEF Holds, ColoringTypeOK, StageInv, Shuffling
          <5> QED BY <5>1, <1>0, <1>a, <2>1, <3>1 DEF ColoringTypeOK, MutexInv
        <4>2. CASE doing[b] = "unlock first"
          BY <2>1, <3>1, <4>2 DEF Holds, ColoringTypeOK
        <4> QED BY <2>1, <4>1, <4>2
      <3>2. CASE a # b
        <4>1. Holds(a)' = Holds(a)
          BY <2>1, <3>2 DEF Holds, Neighborhood, ColoringTypeOK
        <4> HIDE DEF v
        <4> QED BY <4>1, <1>0, <2>1, <2>2, <3>2, OthersKeep
      <3> QED BY <3>1, <3>2
    <2> QED BY <2>3 DEF MutexInv
  <1>5. ASSUME NEW b \in Body, Begin(b)
        PROVE  MutexInv'
    <2>1. PICK x \in todo[b] : Begin(b)!3!(x)
      BY <1>5 DEF Begin
    <2>2. /\ doing[b] = "next" /\ doing' = [doing EXCEPT ![b] = "lock"]
          /\ UNCHANGED <<adj, other, owner>>
      BY <1>5 DEF Begin, swapping
    <2>3. ASSUME NEW a \in Body PROVE \A v \in Holds(a)' : owner'[v] = a
      <3>1. CASE a = b
        BY <2>1, <2>2, <3>1 DEF Holds, Neighborhood, ColoringTypeOK
      <3>2. CASE a # b
        <4>1. Holds(a)' = Holds(a)
          BY <2>1, <2>2, <3>2 DEF Holds, Neighborhood, ColoringTypeOK
        <4> QED BY <4>1, <1>0, <2>2 DEF MutexInv
      <3> QED BY <3>1, <3>2
    <2> QED BY <2>3 DEF MutexInv
  <1>6. ASSUME NEW b \in Body, Lock(b)
        PROVE  MutexInv'
    <2>1. PICK v \in want[b] : Lock(b)!2!(v)
      BY <1>6 DEF Lock
    <2>2. /\ doing[b] = "lock"
          /\ doing' = [doing EXCEPT ![b] = IF want[b] = {v} THEN "read" ELSE "lock"]
          /\ owner[v] = Free /\ owner' = [owner EXCEPT ![v] = b]
          /\ want' = [want EXCEPT ![b] = @ \ {v}]
          /\ UNCHANGED <<adj, cur, other>>
      <3>1. doing[b] = "lock" /\ UNCHANGED <<adj, cur, other>>
        BY <1>6 DEF Lock, swapping
      <3>2. CASE want[b] = {v}
        BY <2>1, <3>1, <3>2
      <3>3. CASE want[b] # {v}
        <4>1. doing' = doing
          BY <2>1, <3>3
        <4>2. doing = [doing EXCEPT ![b] = "lock"]
          BY <3>1 DEF ColoringTypeOK
        <4> QED BY <2>1, <3>1, <3>3, <4>1, <4>2
      <3> QED BY <3>2, <3>3
    <2>3. v \in Vertex
      BY <1>a
    <2>4. ASSUME NEW a \in Body PROVE \A x \in Holds(a)' : owner'[x] = a
      <3>1. CASE a = b
        <4>1. Holds(a)' \subseteq Holds(b) \union {v}
          BY <2>2, <3>1 DEF Holds, Neighborhood, ColoringTypeOK
        <4> QED BY <4>1, <1>0, <2>2, <2>3, <3>1, HoldsVertices DEF MutexInv, ColoringTypeOK
      <3>2. CASE a # b
        <4>1. Holds(a)' = Holds(a)
          BY <2>2, <3>2 DEF Holds, Neighborhood, ColoringTypeOK
        <4> QED BY <4>1, <1>0, <2>2, <3>2, OthersKeep
      <3> QED BY <3>1, <3>2
    <2> QED BY <2>4 DEF MutexInv
  <1>7. ASSUME NEW b \in Body, Read(b) \/ Throw(b)
        PROVE  MutexInv'
    <2>1. /\ doing[b] = "read" /\ doing' \in {doing, [doing EXCEPT ![b] = "thrown"]}
          /\ UNCHANGED <<adj, cur, other, want, owner>>
      BY <1>7 DEF Read, Throw, swapping
    <2>2. ASSUME NEW a \in Body PROVE Holds(a)' = Holds(a)
      BY <2>1 DEF Holds, Neighborhood, ColoringTypeOK
    <2> QED BY <2>1, <2>2, <1>0 DEF MutexInv
  <1>8. ASSUME NEW b \in Body, Choose(b)
        PROVE  MutexInv'
    <2>1. /\ doing[b] = "read" /\ doing' = [doing EXCEPT ![b] = "unlock"]
          /\ want' = [want EXCEPT ![b] = Neighborhood(cur[b])]
          /\ UNCHANGED <<adj, cur, other, owner>>
      BY <1>8 DEF Choose, swapping
    <2>2. ASSUME NEW a \in Body PROVE Holds(a)' = Holds(a)
      <3>1. CASE a = b
        <4>1. doing'[a] = "unlock" /\ want'[a] = Neighborhood(cur[a])
          BY <2>1, <3>1 DEF ColoringTypeOK
        <4> QED BY <2>1, <3>1, <4>1 DEF Holds
      <3>2. CASE a # b
        BY <2>1, <3>2 DEF Holds, Neighborhood, ColoringTypeOK
      <3> QED BY <3>1, <3>2
    <2> QED BY <2>1, <2>2, <1>0 DEF MutexInv
  <1>9. ASSUME NEW b \in Body, Unlock(b)
        PROVE  MutexInv'
    <2>1. PICK v \in want[b] : Unlock(b)!2!(v)
      BY <1>9 DEF Unlock
    <2>2. /\ doing[b] = "unlock"
          /\ doing' = [doing EXCEPT ![b] = IF want[b] = {v} THEN "next" ELSE "unlock"]
          /\ owner' = [owner EXCEPT ![v] = Free]
          /\ want' = [want EXCEPT ![b] = @ \ {v}]
          /\ UNCHANGED <<adj, cur, other>>
      <3>1. doing[b] = "unlock" /\ UNCHANGED <<adj, cur, other>>
        BY <1>9 DEF Unlock, swapping
      <3>2. CASE want[b] = {v}
        BY <2>1, <3>1, <3>2
      <3>3. CASE want[b] # {v}
        <4>1. doing' = doing
          BY <2>1, <3>3
        <4>2. doing = [doing EXCEPT ![b] = "unlock"]
          BY <3>1 DEF ColoringTypeOK
        <4> QED BY <2>1, <3>1, <3>3, <4>1, <4>2
      <3> QED BY <3>2, <3>3
    <2>3. v \in Vertex /\ v \in Holds(b)
      BY <1>a, <2>2 DEF Holds
    <2>4. ASSUME NEW a \in Body PROVE \A x \in Holds(a)' : owner'[x] = a
      <3>1. CASE a = b
        <4>1. Holds(a)' \subseteq Holds(b) \ {v}
          BY <2>2, <3>1 DEF Holds, Neighborhood, ColoringTypeOK
        <4> QED BY <4>1, <1>0, <2>2, <2>3, <3>1, HoldsVertices DEF MutexInv, ColoringTypeOK
      <3>2. CASE a # b
        <4>1. Holds(a)' = Holds(a)
          BY <2>2, <3>2 DEF Holds, Neighborhood, ColoringTypeOK
        <4> QED BY <4>1, <1>0, <2>2, <2>3, <3>2, OthersKeep
      <3> QED BY <3>1, <3>2
    <2> QED BY <2>4 DEF MutexInv
  <1>10. ASSUME NEW b \in Body, SerialColor(b)
         PROVE  MutexInv'
    <2>1. UNCHANGED <<adj, other, owner, doing, want>> /\ doing[b] = "next"
      BY <1>0, <1>10 DEF SerialColor, swapping, StageInv
    <2>2. ASSUME NEW a \in Body PROVE Holds(a)' = Holds(a)
      <3>1. doing[a] = "next"
        BY <1>0, <1>10 DEF SerialColor, StageInv
      <3> QED BY <2>1, <3>1 DEF Holds
    <2> QED BY <2>1, <2>2, <1>0 DEF MutexInv
  <1>11. CASE (\E b \in Body : Cancel(b)) \/ EndShuffle \/ Rethrow \/ Collect \/ UNCHANGED coloring_vars
    <2>1. adj' = adj /\ cur' = cur /\ other' = other /\ owner' = owner /\ doing' = doing /\ want' = want
      BY <1>11 DEF Cancel, EndShuffle, Rethrow, Collect, coloring_vars, swapping
    <2>2. ASSUME NEW a \in Body PROVE Holds(a)' = Holds(a)
      BY <2>1 DEF Holds, Neighborhood
    <2> QED BY <2>1, <2>2, <1>0 DEF MutexInv
  <1> QED
    BY <1>1, <1>2, <1>3, <1>4, <1>5, <1>6, <1>7, <1>8, <1>9, <1>10, <1>11 DEF ColoringNext, BodyStep

LEMMA StageStep ==
  ASSUME ColoringTypeOK, ColoringInv, [ColoringNext]_coloring_vars
  PROVE  StageInv'
  <1> USE DEF Goto, swapping, colored, Shuffling, Coloring
  <1>0. StageInv /\ doing \in [Body -> PCs] /\ todo \in [Body -> SUBSET Place]
        /\ cur \in [Body -> Vertex] /\ other \in [Body -> Place]
    BY DEF ColoringInv, ColoringTypeOK
  <1>1. ASSUME NEW b \in Body, Draw(b)
        PROVE  StageInv'
    <2>0. PICK i \in todo[b] : Draw(b)!2!(i)
      BY <1>1 DEF Draw
    <2>1. PICK k \in i .. (Size - 1) : Draw(b)!2!(i)!(k)
      BY <2>0
    <2>2. stage = "shuffle" /\ UNCHANGED <<build, block, stage, color>>
      BY <1>1 DEF Draw
    <2>3. CASE k = i
      BY <1>0, <2>1, <2>2, <2>3 DEF StageInv
    <2>4. CASE k # i
      <3>1. /\ doing' = [doing EXCEPT ![b] = "lock first"] /\ todo' = todo
            /\ cur' = [cur EXCEPT ![b] = i] /\ other' = [other EXCEPT ![b] = k]
        BY <2>1, <2>4
      <3> QED BY <1>0, <2>2, <2>4, <3>1 DEF StageInv
    <2> QED BY <2>3, <2>4
  <1>2. ASSUME NEW b \in Body, LockFirst(b) \/ LockSecond(b) \/ SwapFirst(b) \/ SwapSecond(b)
                               \/ UnlockSecond(b)
        PROVE  StageInv'
    <2>1. /\ doing[b] \in Shuffling
          /\ \E to \in Shuffling : doing' = [doing EXCEPT ![b] = to]
          /\ UNCHANGED <<build, block, stage, color, todo, cur, other>>
      BY <1>2 DEF LockFirst, LockSecond, SwapFirst, SwapSecond, UnlockSecond
    <2> QED BY <1>0, <2>1 DEF StageInv
  <1>3. ASSUME NEW b \in Body, UnlockFirst(b)
        PROVE  StageInv'
    BY <1>0, <1>3 DEF UnlockFirst, StageInv
  <1>4. ASSUME NEW b \in Body, Begin(b)
        PROVE  StageInv'
    BY <1>0, <1>4 DEF Begin, StageInv
  <1>5. ASSUME NEW b \in Body, Lock(b) \/ Read(b) \/ Throw(b)
        PROVE  StageInv'
    <2>1. /\ doing[b] \in Coloring
          /\ doing' = doing \/ \E to \in Coloring : doing' = [doing EXCEPT ![b] = to]
          /\ UNCHANGED <<build, block, stage, color, todo, cur, other>>
      BY <1>5 DEF Lock, Read, Throw
    <2> QED BY <1>0, <2>1 DEF StageInv
  <1>6. ASSUME NEW b \in Body, Choose(b)
        PROVE  StageInv'
    <2>1. /\ doing[b] = "read" /\ doing' = [doing EXCEPT ![b] = "unlock"]
          /\ UNCHANGED <<build, block, stage, todo, cur, other>>
      BY <1>6 DEF Choose
    <2> QED BY <1>0, <2>1 DEF StageInv
  <1>7. ASSUME NEW b \in Body, Unlock(b)
        PROVE  StageInv'
    <2>1. /\ doing[b] = "unlock"
          /\ doing' = doing \/ doing' = [doing EXCEPT ![b] = "next"]
          /\ todo' = todo \/ \E x \in todo[b] : todo' = [todo EXCEPT ![b] = @ \ {x}]
          /\ UNCHANGED <<build, block, stage, color, cur, other>>
      BY <1>7 DEF Unlock
    <2> QED BY <1>0, <2>1 DEF StageInv
  <1>8. ASSUME NEW b \in Body, Cancel(b)
        PROVE  StageInv'
    BY <1>0, <1>8 DEF Cancel, StageInv
  <1>9. ASSUME NEW b \in Body, SerialColor(b)
        PROVE  StageInv'
    <2>1. /\ build = "serial" /\ stage = "color"
          /\ \E x \in todo[b] : todo' = [todo EXCEPT ![b] = @ \ {x}]
          /\ UNCHANGED <<build, block, stage, doing, other>>
      BY <1>9 DEF SerialColor
    <2> QED BY <1>0, <2>1 DEF StageInv
  <1>10. CASE EndShuffle
    BY <1>0, <1>10, GraphFacts DEF EndShuffle, StageInv
  <1>11. CASE Rethrow \/ Collect \/ UNCHANGED coloring_vars
    BY <1>0, <1>11 DEF Rethrow, Collect, coloring_vars, StageInv
  <1> QED
    BY <1>1, <1>2, <1>3, <1>4, <1>5, <1>6, <1>7, <1>8, <1>9, <1>10, <1>11 DEF ColoringNext, BodyStep

(* Only the body that holds both places of a swap has one of them in flight. *)
LEMMA InFlightIsHeld ==
  ASSUME ColoringTypeOK, MutexInv, NEW b \in Body, NEW x \in Holds(b), InFlight(x)
  PROVE  doing[b] = "swap second" /\ other[b] = x
  <1>1. PICK a \in Body : doing[a] = "swap second" /\ other[a] = x
    BY DEF InFlight
  <1>2. owner[x] = a /\ owner[x] = b
    BY <1>1 DEF MutexInv, Holds
  <1> QED BY <1>1, <1>2

LEMMA SwapStep ==
  ASSUME ColoringTypeOK, ColoringInv, [ColoringNext]_coloring_vars
  PROVE  SwapInv'
  <1> USE DEF Goto, swapping, colored
  <1>0. /\ MutexInv /\ StageInv /\ SwapInv
        /\ doing \in [Body -> PCs] /\ cur \in [Body -> Place] /\ other \in [Body -> Place]
        /\ perm \in [Place -> Vertex] /\ held \in [Body -> Vertex]
    BY GraphFacts DEF ColoringInv, ColoringTypeOK
  <1>1. ASSUME NEW b \in Body, SwapFirst(b)
        PROVE  SwapInv'
    <2> DEFINE j == cur[b]
               k == other[b]
    <2>1. /\ doing[b] = "swap" /\ doing' = [doing EXCEPT ![b] = "swap second"]
          /\ held' = [held EXCEPT ![b] = perm[j]]
          /\ perm' = [perm EXCEPT ![j] = perm[k]]
          /\ other' = other
      BY <1>1 DEF SwapFirst
    <2>2. j # k /\ j \in Place /\ k \in Place
      BY <1>0, <2>1 DEF StageInv, Shuffling
    <2>3. ~ InFlight(j) /\ ~ InFlight(k)
      <3>1. j \in Holds(b) /\ k \in Holds(b)
        BY <2>1 DEF Holds
      <3> QED BY <1>0, <2>1, <3>1, InFlightIsHeld
    <2>4. \A x : InFlight(x)' <=> InFlight(x) \/ x = k
      BY <1>0, <2>1 DEF InFlight
    <2>5. \A x \in Place : perm'[x] = IF x = j THEN perm[k] ELSE perm[x]
      BY <1>0, <2>1, <2>2
    <2>6. \A a \in Body : doing'[a] = "swap second" <=> doing[a] = "swap second" \/ a = b
      BY <1>0, <2>1
    <2>7. \A a \in Body : held'[a] = IF a = b THEN perm[j] ELSE held[a]
      BY <1>0, <2>1
    <2> HIDE DEF j, k
    <2>8. \A x, y \in Place : x # y /\ ~ InFlight(x)' /\ ~ InFlight(y)' => perm'[x] # perm'[y]
      BY <1>0, <2>2, <2>3, <2>4, <2>5 DEF SwapInv
    <2>9. ASSUME NEW a \in Body, NEW y \in Place, doing'[a] = "swap second", ~ InFlight(y)'
          PROVE  perm'[y] # held'[a]
      <3>1. y # k /\ ~ InFlight(y)
        BY <2>4, <2>9
      <3>2. CASE a = b
        <4>1. held'[a] = perm[j]
          BY <2>7, <3>2
        <4>2. perm[k] # perm[j] /\ (y # j => perm[y] # perm[j])
          BY <1>0, <2>2, <2>3, <3>1 DEF SwapInv
        <4> QED BY <2>5, <4>1, <4>2
      <3>3. CASE a # b
        <4>1. held'[a] = held[a] /\ doing[a] = "swap second"
          BY <2>6, <2>7, <2>9, <3>3
        <4>2. perm[k] # held[a] /\ perm[y] # held[a]
          BY <1>0, <2>2, <2>3, <3>1, <4>1 DEF SwapInv
        <4> QED BY <2>5, <4>1, <4>2
      <3> QED BY <3>2, <3>3
    <2>10. ASSUME NEW a \in Body, NEW c \in Body, a # c,
                  doing'[a] = "swap second", doing'[c] = "swap second"
           PROVE  held'[a] # held'[c]
      <3>1. \A o \in Body \ {b} : doing'[o] = "swap second" =>
              doing[o] = "swap second" /\ held'[o] = held[o] /\ held[o] # perm[j]
        BY <1>0, <2>2, <2>3, <2>6, <2>7 DEF SwapInv
      <3>2. held'[b] = perm[j]
        BY <2>7
      <3>3. CASE a # b /\ c # b
        BY <1>0, <2>10, <3>1, <3>3 DEF SwapInv
      <3> QED BY <2>10, <3>1, <3>2, <3>3
    <2> QED BY <2>8, <2>9, <2>10 DEF SwapInv
  <1>2. ASSUME NEW b \in Body, SwapSecond(b)
        PROVE  SwapInv'
    <2> DEFINE k == other[b]
    <2>1. /\ doing[b] = "swap second" /\ doing' = [doing EXCEPT ![b] = "unlock second"]
          /\ perm' = [perm EXCEPT ![k] = held[b]]
          /\ other' = other /\ held' = held
      BY <1>2 DEF SwapSecond
    <2>2. k \in Place
      BY <1>0
    <2>3. \A x : InFlight(x) <=> InFlight(x)' \/ x = k
      BY <1>0, <2>1 DEF InFlight
    <2>4. ~ InFlight(k)'
      <3> SUFFICES ASSUME NEW a \in Body, doing'[a] = "swap second", other[a] = k PROVE FALSE
        BY <2>1 DEF InFlight
      <3>1. a # b /\ doing[a] = "swap second"
        BY <1>0, <2>1
      <3>2. k \in Holds(a) /\ k \in Holds(b)
        BY <2>1, <3>1 DEF Holds
      <3> QED BY <1>0, <3>1, <3>2 DEF MutexInv
    <2>5. \A x \in Place : perm'[x] = IF x = k THEN held[b] ELSE perm[x]
      BY <1>0, <2>1, <2>2
    <2>6. \A a \in Body : doing'[a] = "swap second" <=> doing[a] = "swap second" /\ a # b
      BY <1>0, <2>1
    <2> HIDE DEF k
    <2>7. \A x, y \in Place : x # y /\ ~ InFlight(x)' /\ ~ InFlight(y)' => perm'[x] # perm'[y]
      BY <1>0, <2>1, <2>3, <2>5 DEF SwapInv
    <2>8. ASSUME NEW a \in Body, NEW y \in Place, doing'[a] = "swap second", ~ InFlight(y)'
          PROVE  perm'[y] # held'[a]
      BY <1>0, <2>1, <2>3, <2>5, <2>6, <2>8 DEF SwapInv
    <2>9. \A a, c \in Body : a # c /\ doing'[a] = "swap second" /\ doing'[c] = "swap second"
                               => held'[a] # held'[c]
      BY <1>0, <2>1, <2>6 DEF SwapInv
    <2> QED BY <2>7, <2>8, <2>9 DEF SwapInv
  <1>3. ASSUME NEW b \in Body,
               Draw(b) \/ LockFirst(b) \/ LockSecond(b) \/ UnlockSecond(b) \/ UnlockFirst(b)
               \/ Begin(b) \/ Lock(b) \/ Read(b) \/ Choose(b) \/ Throw(b) \/ Unlock(b)
               \/ Cancel(b) \/ SerialColor(b)
        PROVE  SwapInv'
    <2>1. perm' = perm /\ held' = held
      BY <1>3 DEF Draw, LockFirst, LockSecond, UnlockSecond, UnlockFirst, Begin, Lock, Read,
                  Choose, Throw, Unlock, Cancel, SerialColor
    <2>2. ASSUME NEW a \in Body
          PROVE  /\ doing'[a] = "swap second" <=> doing[a] = "swap second"
                 /\ doing[a] = "swap second" => other'[a] = other[a]
      <3>1. CASE Draw(b)
        BY <1>0, <3>1 DEF Draw
      <3>2. CASE LockFirst(b) \/ LockSecond(b) \/ UnlockSecond(b) \/ UnlockFirst(b)
        BY <1>0, <3>2 DEF LockFirst, LockSecond, UnlockSecond, UnlockFirst
      <3>3. CASE Begin(b) \/ Lock(b) \/ Read(b) \/ Choose(b) \/ Throw(b) \/ Unlock(b)
                 \/ Cancel(b) \/ SerialColor(b)
        BY <1>0, <3>3 DEF Begin, Lock, Read, Choose, Throw, Unlock, Cancel, SerialColor
      <3> QED BY <1>3, <3>1, <3>2, <3>3
    <2>3. \A x : InFlight(x)' <=> InFlight(x)
      BY <2>2 DEF InFlight
    <2> QED BY <1>0, <2>1, <2>2, <2>3 DEF SwapInv
  <1>4. CASE EndShuffle \/ Rethrow \/ Collect \/ UNCHANGED coloring_vars
    <2>1. perm' = perm /\ held' = held /\ doing' = doing /\ other' = other
      BY <1>4 DEF EndShuffle, Rethrow, Collect, coloring_vars
    <2>2. \A x : InFlight(x)' <=> InFlight(x)
      BY <2>1 DEF InFlight
    <2> QED BY <1>0, <2>1, <2>2 DEF SwapInv
  <1> QED
    BY <1>1, <1>2, <1>3, <1>4 DEF ColoringNext, BodyStep

(* Outside the shuffle no vertex is in a temporary.                          *)
LEMMA PermIsInjective ==
  ASSUME ColoringTypeOK, ColoringInv, stage # "shuffle"
  PROVE  IsPermutation(perm)
  <1>1. \A x : ~ InFlight(x)
    BY DEF InFlight, ColoringInv, StageInv, Shuffling
  <1> QED
    BY <1>1 DEF ColoringInv, SwapInv, IsPermutation, ColoringTypeOK

(* A color is given to the vertex a body works on, which has none, and it is *)
(* the smallest one that none of the neighbours has.                         *)
GivesColor(x) ==
  /\ color[perm[x]] = Invalid
  /\ Greedy!IsSmallestFree(color'[perm[x]], Greedy!Used(perm[x]))
  /\ color' = [color EXCEPT ![perm[x]] = color'[perm[x]]]

LEMMA ChooseGives ==
  ASSUME ColoringTypeOK, ColoringInv, NEW b \in Body, Choose(b)
  PROVE  \E x \in todo[b] : IsLeast(x, todo[b]) /\ cur[b] = perm[x] /\ GivesColor(x)
  <1>1. doing[b] = "read" /\ unread[b] = {} /\ stage # "shuffle"
    BY DEF Choose, Goto, ColoringInv, StageInv, Coloring
  <1>2. PICK x \in todo[b] : IsLeast(x, todo[b]) /\ cur[b] = perm[x]
    BY <1>1 DEF ColoringInv, WorkInv, Coloring
  <1>3. color[perm[x]] = Invalid
    BY <1>1, <1>2 DEF ColoringInv, WorkInv
  <1>4. PICK c \in 0 .. nColors[b] : StopsAt(c, b, taken[b]) /\ Count(b, cur[b], c)
    BY DEF Choose
  <1>5. cur[b] \in Vertex /\ nColors[b] \in Nat /\ c \in Nat
    BY DEF ColoringTypeOK
  <1>6. taken[b] = Greedy!Used(cur[b])
    BY <1>1 DEF ColoringInv, ReadInv, Greedy!Used
  <1>7. color'[cur[b]] = c /\ color' = [color EXCEPT ![cur[b]] = c]
    BY <1>4, <1>5 DEF Count, ColoringTypeOK
  <1>8. Greedy!IsSmallestFree(c, Greedy!Used(cur[b]))
    BY <1>4, <1>5, <1>6 DEF StopsAt, Greedy!IsSmallestFree
  <1> QED
    BY <1>2, <1>3, <1>7, <1>8 DEF GivesColor

LEMMA SerialGives ==
  ASSUME ColoringTypeOK, ColoringInv, NEW b \in Body, SerialColor(b)
  PROVE  \E x \in todo[b] : IsLeast(x, todo[b]) /\ todo' = [todo EXCEPT ![b] = @ \ {x}] /\ GivesColor(x)
  <1>1. stage = "color" /\ doing[b] = "next"
    BY DEF SerialColor, ColoringInv, StageInv
  <1>2. PICK x \in todo[b] : SerialColor(b)!2!(x)
    BY DEF SerialColor
  <1>3. PICK c \in 0 .. nColors[b] : SerialColor(b)!2!(x)!(c)
    BY <1>2
  <1>4. perm[x] \in Vertex /\ nColors[b] \in Nat /\ c \in Nat
    BY DEF ColoringTypeOK
  <1>5. color[perm[x]] = Invalid
    BY <1>1 DEF ColoringInv, WorkInv
  <1>6. color'[perm[x]] = c /\ color' = [color EXCEPT ![perm[x]] = c]
    BY <1>3, <1>4 DEF Count, ColoringTypeOK
  <1>7. Greedy!IsSmallestFree(c, Greedy!Used(perm[x]))
    BY <1>3, <1>4 DEF StopsAt, Greedy!IsSmallestFree, Greedy!Used
  <1> QED
    BY <1>3, <1>5, <1>6, <1>7 DEF GivesColor

LEMMA WorkStep ==
  ASSUME ColoringTypeOK, ColoringInv, [ColoringNext]_coloring_vars
  PROVE  WorkInv'
  <1> USE DEF Goto, swapping, colored, Coloring
  <1>0. /\ StageInv /\ WorkInv /\ doing \in [Body -> PCs] /\ todo \in [Body -> SUBSET Place]
        /\ cur \in [Body -> Vertex] /\ perm \in [Place -> Vertex] /\ color \in [Vertex -> Nat \union {Invalid}]
    BY DEF ColoringInv, ColoringTypeOK
  <1>1. ASSUME NEW b \in Body, Draw(b) \/ LockFirst(b) \/ LockSecond(b) \/ SwapFirst(b)
                               \/ SwapSecond(b) \/ UnlockSecond(b) \/ UnlockFirst(b)
        PROVE  WorkInv'
    <2>1. stage = "shuffle" /\ stage' = stage
      BY <1>0, <1>1 DEF Draw, LockFirst, LockSecond, SwapFirst, SwapSecond, UnlockSecond,
                        UnlockFirst, StageInv, Shuffling
    <2>2. StageInv'
      BY StageStep
    <2> QED BY <2>1, <2>2 DEF WorkInv, StageInv
  <1>2. ASSUME NEW b \in Body, Begin(b)
        PROVE  WorkInv'
    <2>1. PICK x \in todo[b] : Begin(b)!3!(x)
      BY <1>2 DEF Begin
    <2>2. doing[b] = "next" /\ doing' = [doing EXCEPT ![b] = "lock"] /\ cur' = [cur EXCEPT ![b] = perm[x]]
          /\ UNCHANGED <<todo, perm, color, stage>>
      BY <1>2, <2>1 DEF Begin
    <2> QED BY <1>0, <2>1, <2>2 DEF WorkInv
  <1>3. ASSUME NEW b \in Body, Lock(b) \/ Read(b) \/ Throw(b)
        PROVE  WorkInv'
    <2>1. /\ doing[b] \in {"lock", "read"}
          /\ doing' = doing \/ \E to \in {"read", "thrown"} : doing' = [doing EXCEPT ![b] = to]
          /\ UNCHANGED <<stage, color, todo, cur, perm>>
      BY <1>3 DEF Lock, Read, Throw
    <2> QED BY <1>0, <2>1 DEF WorkInv
  <1>4. ASSUME NEW b \in Body, Choose(b)
        PROVE  WorkInv'
    <2>1. /\ doing[b] = "read" /\ doing' = [doing EXCEPT ![b] = "unlock"] /\ stage # "shuffle"
          /\ UNCHANGED <<stage, todo, cur, perm>>
      BY <1>0, <1>4 DEF Choose, StageInv
    <2>2. PICK x \in todo[b] : IsLeast(x, todo[b]) /\ cur[b] = perm[x] /\ GivesColor(x)
      BY <1>4, ChooseGives
    <2>3. x \in Place
      BY <1>0
    <2>4. ASSUME NEW a \in Body, NEW y \in todo[a], ~ (a = b /\ y = x)
          PROVE  color'[perm[y]] = color[perm[y]]
      <3>1. y \in Place /\ y # x
        BY <1>0, <2>4, GraphFacts DEF StageInv
      <3>2. perm[y] # perm[x]
        BY <2>1, <2>3, <3>1, PermIsInjective DEF IsPermutation
      <3> QED BY <1>0, <2>2, <2>3, <3>1, <3>2 DEF GivesColor
    <2>5. ASSUME NEW a \in Body, NEW y \in todo[a]
          PROVE  color'[perm[y]] = Invalid \/ (doing'[a] = "unlock" /\ IsLeast(y, todo[a]))
      <3>1. CASE a = b /\ y = x
        BY <1>0, <2>1, <2>2, <3>1
      <3>2. CASE ~ (a = b /\ y = x)
        BY <1>0, <2>1, <2>4, <3>2 DEF WorkInv
      <3> QED BY <3>1, <3>2
    <2>6. ASSUME NEW a \in Body, doing'[a] \in Coloring
          PROVE  \E y \in todo[a] : IsLeast(y, todo[a]) /\ cur[a] = perm[y]
      BY <1>0, <2>1, <2>2, <2>6 DEF WorkInv
    <2> QED BY <2>1, <2>5, <2>6 DEF WorkInv
  <1>5. ASSUME NEW b \in Body, Unlock(b)
        PROVE  WorkInv'
    <2>1. PICK v \in want[b] : Unlock(b)!2!(v)
      BY <1>5 DEF Unlock
    <2>2. doing[b] = "unlock" /\ UNCHANGED <<stage, color, cur, perm>> /\ stage # "shuffle"
      BY <1>0, <1>5 DEF Unlock, StageInv
    <2>3. CASE want[b] # {v}
      BY <1>0, <2>1, <2>2, <2>3 DEF WorkInv
    <2>4. CASE want[b] = {v}
      <3>1. doing' = [doing EXCEPT ![b] = "next"]
        BY <2>1, <2>4
      <3>2. PICK x \in todo[b] : IsLeast(x, todo[b]) /\ todo' = [todo EXCEPT ![b] = @ \ {x}]
        BY <2>1, <2>4
      <3>3. ASSUME NEW y \in todo[b] \ {x}
            PROVE  color[perm[y]] = Invalid
        <4>1. ~ IsLeast(y, todo[b])
          BY <1>0, <3>2 DEF IsLeast, Place
        <4> QED BY <1>0, <2>2, <4>1 DEF WorkInv
      <3> QED BY <1>0, <2>2, <3>1, <3>2, <3>3 DEF WorkInv
    <2> QED BY <2>3, <2>4
  <1>6. ASSUME NEW b \in Body, Cancel(b)
        PROVE  WorkInv'
    BY <1>0, <1>6 DEF Cancel, WorkInv
  <1>7. ASSUME NEW b \in Body, SerialColor(b)
        PROVE  WorkInv'
    <2>1. /\ \A a \in Body : doing[a] = "next"
          /\ UNCHANGED <<doing, stage, perm>> /\ stage # "shuffle"
      BY <1>0, <1>7 DEF SerialColor, StageInv
    <2>2. PICK x \in todo[b] : IsLeast(x, todo[b]) /\ todo' = [todo EXCEPT ![b] = @ \ {x}] /\ GivesColor(x)
      BY <1>7, SerialGives
    <2>3. x \in Place
      BY <1>0
    <2>4. ASSUME NEW a \in Body, NEW y \in todo'[a]
          PROVE  color'[perm[y]] = Invalid
      <3>1. y \in todo[a] /\ y \in Place /\ y # x
        BY <1>0, <2>2, GraphFacts DEF StageInv
      <3>2. perm[y] # perm[x]
        BY <2>1, <2>3, <3>1, PermIsInjective DEF IsPermutation
      <3>3. color[perm[y]] = Invalid
        BY <1>0, <2>1, <3>1 DEF WorkInv
      <3> QED BY <1>0, <2>2, <2>3, <3>1, <3>2, <3>3 DEF GivesColor
    <2> QED BY <2>1, <2>4 DEF WorkInv
  <1>8. CASE EndShuffle
    <2>1. /\ \A a \in Body : doing[a] = "next" /\ doing'[a] = "next" /\ todo'[a] \subseteq Place
          /\ \A v \in Vertex : color'[v] = Invalid
          /\ perm' = perm
      BY <1>0, <1>8, GraphFacts DEF EndShuffle, StageInv
    <2> QED BY <1>0, <2>1 DEF WorkInv
  <1>9. CASE Rethrow \/ Collect \/ UNCHANGED coloring_vars
    <2>1. UNCHANGED <<doing, todo, cur, perm, color>> /\ (stage' # "shuffle" => stage # "shuffle")
      BY <1>9 DEF Rethrow, Collect, coloring_vars
    <2> QED BY <1>0, <2>1 DEF WorkInv
  <1> QED
    BY <1>1, <1>2, <1>3, <1>4, <1>5, <1>6, <1>7, <1>8, <1>9 DEF ColoringNext, BodyStep

(* While a body is reading, no other body gives a color to a vertex of its   *)
(* neighbourhood.                                                            *)
LEMMA ReadStep ==
  ASSUME ColoringTypeOK, ColoringInv, [ColoringNext]_coloring_vars
  PROVE  ReadInv'
  <1> USE DEF Goto, swapping, colored
  <1>0. /\ MutexInv /\ StageInv /\ ReadInv /\ doing \in [Body -> PCs] /\ cur \in [Body -> Vertex]
        /\ unread \in [Body -> SUBSET Vertex] /\ taken \in [Body -> SUBSET Nat]
        /\ nColors \in [Body -> Nat] /\ color \in [Vertex -> Nat \union {Invalid}]
    BY DEF ColoringInv, ColoringTypeOK
  <1>1. ASSUME NEW b \in Body,
               Draw(b) \/ LockFirst(b) \/ LockSecond(b) \/ SwapFirst(b) \/ SwapSecond(b)
               \/ UnlockSecond(b) \/ UnlockFirst(b) \/ Begin(b) \/ Throw(b) \/ Unlock(b) \/ Cancel(b)
        PROVE  ReadInv'
    <2>1. UNCHANGED <<adj, color, unread, taken, nColors>>
      BY <1>1 DEF Draw, LockFirst, LockSecond, SwapFirst, SwapSecond, UnlockSecond, UnlockFirst,
                  Begin, Throw, Unlock, Cancel
    <2>2. ASSUME NEW a \in Body, doing'[a] = "read"
          PROVE  doing[a] = "read" /\ cur'[a] = cur[a]
      <3>1. CASE Draw(b) \/ Begin(b)
        BY <1>0, <2>2, <3>1 DEF Draw, Begin
      <3>2. CASE LockFirst(b) \/ LockSecond(b) \/ SwapFirst(b) \/ SwapSecond(b)
                 \/ UnlockSecond(b) \/ UnlockFirst(b)
        BY <1>0, <2>2, <3>2 DEF LockFirst, LockSecond, SwapFirst, SwapSecond, UnlockSecond, UnlockFirst
      <3>3. CASE Throw(b) \/ Unlock(b) \/ Cancel(b)
        BY <1>0, <2>2, <3>3 DEF Throw, Unlock, Cancel
      <3> QED BY <1>1, <3>1, <3>2, <3>3
    <2> QED BY <1>0, <2>1, <2>2 DEF ReadInv
  <1>2. ASSUME NEW b \in Body, Lock(b)
        PROVE  ReadInv'
    <2>1. PICK v \in want[b] : Lock(b)!2!(v)
      BY <1>2 DEF Lock
    <2>2. doing[b] = "lock" /\ UNCHANGED <<adj, color, nColors, cur>>
      BY <1>2 DEF Lock
    <2>3. CASE want[b] # {v}
      BY <1>0, <2>1, <2>2, <2>3 DEF ReadInv
    <2>4. CASE want[b] = {v}
      <3>1. /\ unread' = [unread EXCEPT ![b] = adj[cur[b]]]
            /\ taken' = [taken EXCEPT ![b] = {}]
            /\ doing' = [doing EXCEPT ![b] = "read"]
        BY <2>1, <2>4
      <3>2. ASSUME NEW a \in Body, doing'[a] = "read"
            PROVE  /\ unread'[a] \subseteq adj[cur[a]]
                   /\ taken'[a] = {color[w] : w \in adj[cur[a]] \ unread'[a]} \ {Invalid}
                   /\ \A c \in taken'[a] : c < nColors[a]
        <4>1. CASE a = b
          <5>1. taken'[a] = {} /\ unread'[a] = adj[cur[a]]
            BY <1>0, <3>1, <4>1
          <5> QED BY <5>1
        <4>2. CASE a # b
          BY <1>0, <3>1, <3>2, <4>2 DEF ReadInv
        <4> QED BY <4>1, <4>2
      <3> QED BY <2>2, <3>2 DEF ReadInv
    <2> QED BY <2>3, <2>4
  <1>3. ASSUME NEW b \in Body, Read(b)
        PROVE  ReadInv'
    <2>1. PICK w \in unread[b] : Read(b)!2!(w)
      BY <1>3 DEF Read
    <2>2. doing[b] = "read" /\ doing' = doing /\ UNCHANGED <<adj, color, cur>>
      BY <1>3 DEF Read
    <2>3. /\ unread' = [unread EXCEPT ![b] = @ \ {w}] /\ w \in Vertex
          /\ color[w] \in Nat \union {Invalid}
      BY <1>0, <2>1
    <2>4. ASSUME NEW a \in Body, doing[a] = "read"
          PROVE  /\ unread'[a] \subseteq adj[cur[a]]
                 /\ taken'[a] = {color[x] : x \in adj[cur[a]] \ unread'[a]} \ {Invalid}
                 /\ \A c \in taken'[a] : c < nColors'[a]
      <3>1. CASE a # b
        <4>1. unread'[a] = unread[a] /\ taken'[a] = taken[a] /\ nColors'[a] = nColors[a]
          BY <1>0, <2>1, <2>3, <3>1
        <4> QED BY <1>0, <2>4, <4>1 DEF ReadInv
      <3>2. CASE a = b
        <4>0. unread'[b] = unread[b] \ {w}
          BY <1>0, <2>3
        <4>1. /\ unread[b] \subseteq adj[cur[b]]
              /\ taken[b] = {color[x] : x \in adj[cur[b]] \ unread[b]} \ {Invalid}
              /\ \A c \in taken[b] : c < nColors[b]
          BY <1>0, <2>2 DEF ReadInv
        <4>2. {color[x] : x \in adj[cur[b]] \ unread'[b]}
                = {color[x] : x \in adj[cur[b]] \ unread[b]} \union {color[w]}
          BY <4>0, <4>1
        <4>3. CASE color[w] = Invalid
          BY <2>1, <2>3, <3>2, <4>0, <4>1, <4>2, <4>3
        <4>4. CASE color[w] # Invalid
          <5>1. taken'[b] = taken[b] \union {color[w]}
            BY <1>0, <2>1, <4>4
          <5>2. color[w] \in Nat /\ nColors[b] \in Nat
            BY <1>0, <2>3, <4>4
          <5>3. nColors'[b] = IF color[w] < nColors[b] THEN nColors[b] ELSE color[w] + 1
            BY <1>0, <2>1, <4>4
          <5>4. \A c \in taken'[b] : c < nColors'[b]
            BY <1>0, <4>1, <5>1, <5>2, <5>3
          <5> QED BY <2>2, <3>2, <4>0, <4>1, <4>2, <4>4, <5>1, <5>4
        <4> QED BY <4>3, <4>4
      <3> QED BY <3>1, <3>2
    <2> QED BY <2>2, <2>4 DEF ReadInv
  <1>4. ASSUME NEW b \in Body, Choose(b)
        PROVE  ReadInv'
    <2>1. PICK x \in todo[b] : IsLeast(x, todo[b]) /\ cur[b] = perm[x] /\ GivesColor(x)
      BY <1>4, ChooseGives
    <2>2. /\ doing[b] = "read" /\ doing' = [doing EXCEPT ![b] = "unlock"]
          /\ UNCHANGED <<adj, unread, taken, cur>>
          /\ \A a \in Body : a # b => nColors'[a] = nColors[a]
      BY <1>0, <1>4 DEF Choose, Count
    <2>3. ASSUME NEW a \in Body, doing'[a] = "read"
          PROVE  /\ a # b /\ doing[a] = "read"
                 /\ \A w \in adj[cur[a]] : color'[w] = color[w]
      <3>1. a # b /\ doing[a] = "read"
        BY <1>0, <2>2, <2>3
      <3>2. cur[b] \in Holds(b) /\ adj[cur[a]] \subseteq Holds(a)
        BY <2>2, <3>1 DEF Holds, Neighborhood
      <3>3. cur[b] \notin adj[cur[a]] /\ adj[cur[a]] \subseteq Vertex
        BY <1>0, <3>1, <3>2, GraphFacts DEF MutexInv
      <3> QED BY <1>0, <2>1, <3>1, <3>3 DEF GivesColor
    <2>4. ASSUME NEW a \in Body, doing'[a] = "read"
          PROVE  /\ unread[a] \subseteq adj[cur[a]]
                 /\ taken[a] = {color'[w] : w \in adj[cur[a]] \ unread[a]} \ {Invalid}
                 /\ \A c \in taken[a] : c < nColors'[a]
      <3>1. {color'[w] : w \in adj[cur[a]] \ unread[a]} = {color[w] : w \in adj[cur[a]] \ unread[a]}
        BY <2>3, <2>4
      <3> QED BY <1>0, <2>2, <2>3, <2>4, <3>1 DEF ReadInv
    <2> QED BY <2>2, <2>4 DEF ReadInv
  <1>5. ASSUME NEW b \in Body, SerialColor(b)
        PROVE  ReadInv'
    <2>1. \A a \in Body : doing'[a] = "next"
      BY <1>0, <1>5 DEF SerialColor, StageInv
    <2> QED BY <2>1 DEF ReadInv
  <1>6. CASE EndShuffle \/ Rethrow \/ Collect \/ UNCHANGED coloring_vars
    <2>1. UNCHANGED <<adj, color, unread, taken, nColors, doing, cur>>
      BY <1>6 DEF EndShuffle, Rethrow, Collect, coloring_vars
    <2> QED BY <1>0, <2>1 DEF ReadInv
  <1> QED
    BY <1>1, <1>2, <1>3, <1>4, <1>5, <1>6 DEF ColoringNext, BodyStep

LEMMA IInvInit == ColoringInit => ColoringInv
  <1> SUFFICES ASSUME ColoringInit PROVE ColoringInv
    OBVIOUS
  <1>1. /\ \A b \in Body : doing[b] = "next" /\ todo[b] = block[b]
        /\ \A v \in Vertex : color[v] = Invalid
        /\ IsPermutation(perm)
        /\ stage = "shuffle" => build = "TBB"
    BY DEF ColoringInit, IsPermutation, Place, Vertex
  <1>2. MutexInv /\ ReadInv
    BY <1>1 DEF MutexInv, Holds, ReadInv
  <1>3. StageInv
    BY <1>1 DEF StageInv, Shuffling, Coloring
  <1>4. SwapInv
    BY <1>1 DEF SwapInv, InFlight, IsPermutation
  <1>5. WorkInv
    <2>1. \A b \in Body : todo[b] \subseteq Place
      BY TypeInit DEF ColoringTypeOK
    <2> QED BY <1>1, <2>1 DEF WorkInv, Coloring, IsPermutation
  <1> QED BY <1>2, <1>3, <1>4, <1>5 DEF ColoringInv

LEMMA Invariance == ColoringSpec => [](ColoringTypeOK /\ ColoringInv)
  <1>1. ColoringInit => ColoringTypeOK /\ ColoringInv
    BY TypeInit, IInvInit
  <1>2. ColoringTypeOK /\ ColoringInv /\ [ColoringNext]_coloring_vars
       => (ColoringTypeOK /\ ColoringInv)'
    BY TypeNext, MutexStep, StageStep, SwapStep, WorkStep, ReadStep DEF ColoringInv
  <1> QED BY <1>1, <1>2, PTL DEF ColoringSpec

(* Several bodies swapping at once never lose or duplicate a vertex.          *)
THEOREM ShuffleCorrect == ColoringSpec => []ShuffleIsAPermutation
  <1>1. ColoringTypeOK /\ ColoringInv => ShuffleIsAPermutation
    BY PermIsInjective DEF ShuffleIsAPermutation
  <1> QED BY <1>1, Invariance, PTL

LEMMA GreedyStep ==
  ASSUME ColoringTypeOK, ColoringInv, [ColoringNext]_coloring_vars
  PROVE  [Greedy!Next]_<<adj, color>>
  <1> USE DEF Goto, swapping, colored
  <1>0. adj' = adj
    BY DEF ColoringNext, BodyStep, Draw, LockFirst, LockSecond, SwapFirst, SwapSecond, UnlockSecond,
           UnlockFirst, Begin, Lock, Read, Choose, Throw, Unlock, Cancel, SerialColor,
           EndShuffle, Rethrow, Collect, coloring_vars
  <1>1. ASSUME NEW b \in Body, Choose(b) \/ SerialColor(b)
        PROVE  Greedy!Next
    <2>1. PICK x \in todo[b] : GivesColor(x)
      BY <1>1, ChooseGives, SerialGives
    <2>2. perm[x] \in Vertex
      BY DEF ColoringTypeOK
    <2>3. Greedy!ColorOne(perm[x])
      BY <1>0, <2>1 DEF GivesColor, Greedy!ColorOne
    <2> QED BY <2>2, <2>3 DEF Greedy!Next
  <1>2. CASE \A b \in Body : ~ Choose(b) /\ ~ SerialColor(b)
    <2>1. color' = color
      BY <1>2 DEF ColoringNext, BodyStep, Draw, LockFirst, LockSecond, SwapFirst, SwapSecond,
             UnlockSecond, UnlockFirst, Begin, Lock, Read, Throw, Unlock, Cancel,
             EndShuffle, Rethrow, Collect, coloring_vars
    <2> QED BY <1>0, <2>1
  <1> QED BY <1>1, <1>2

(* The coloring by several bodies, and the serial one, is the greedy coloring *)
(* of the vertices one after the other, for every graph.                      *)
THEOREM GreedyCorrect == ColoringSpec => ImplementsGreedy
  <1>1. ColoringInit => Greedy!Init
    <2>1. ColoringInit => adj \in Graphs
      BY DEF ColoringInit
    <2> QED BY <2>1, ColoringAssumption DEF ColoringInit, Greedy!Init, Greedy!IsGraph
  <1>2. ColoringTypeOK /\ ColoringInv /\ [ColoringNext]_coloring_vars
       => [Greedy!Next]_<<adj, color>>
    BY GreedyStep
  <1> QED BY <1>1, <1>2, Invariance, PTL DEF ColoringSpec, ImplementsGreedy, Greedy!Spec

(* Neighbours never have the same color, also while others are being colored. *)
THEOREM ColorsCorrect == ColoringSpec => []NeighborsDiffer
  <1>1. ColoringInit => NeighborsDiffer
    <2>1. ColoringInit => adj \in Graphs
      BY DEF ColoringInit
    <2> QED BY <2>1, ColoringAssumption DEF ColoringInit, NeighborsDiffer, Greedy!NeighborsDiffer
  <1>2. ColoringTypeOK /\ NeighborsDiffer /\ [Greedy!Next]_<<adj, color>> => NeighborsDiffer'
    <2> SUFFICES ASSUME ColoringTypeOK, NeighborsDiffer, NEW v \in Vertex, Greedy!ColorOne(v)
                 PROVE  NeighborsDiffer'
      BY DEF Greedy!Next, NeighborsDiffer, Greedy!NeighborsDiffer
    <2>1. /\ color[v] = Invalid /\ adj' = adj /\ color'[v] \in Nat
          /\ color'[v] \notin Greedy!Used(v)
          /\ \A w \in Vertex \ {v} : color'[w] = color[w]
      BY DEF Greedy!ColorOne, Greedy!IsSmallestFree, ColoringTypeOK
    <2>2. ASSUME NEW w \in adj[v]
          PROVE  w # v /\ w \in Vertex /\ v \in adj[w] /\ color'[v] # color'[w]
      <3>1. w # v /\ w \in Vertex /\ v \in adj[w]
        BY GraphFacts
      <3> QED BY <2>1, <3>1, ColoringAssumption DEF Greedy!Used
    <2>3. ASSUME NEW x \in Vertex, NEW w \in adj[x], color'[x] # Invalid
          PROVE  color'[x] # color'[w]
      <3>1. w # x /\ w \in Vertex /\ x \in adj[w]
        BY GraphFacts
      <3>2. CASE x = v
        BY <2>2, <3>2
      <3>3. CASE w = v
        BY <2>2, <3>1, <3>3
      <3>4. CASE x # v /\ w # v
        BY <2>1, <2>3, <3>1, <3>4 DEF NeighborsDiffer, Greedy!NeighborsDiffer
      <3> QED BY <3>2, <3>3, <3>4
    <2> QED BY <2>1, <2>3 DEF NeighborsDiffer, Greedy!NeighborsDiffer
  <1>3. ColoringTypeOK /\ ColoringInv /\ [ColoringNext]_coloring_vars
       => [Greedy!Next]_<<adj, color>>
    BY GreedyStep
  <1> QED BY <1>1, <1>2, <1>3, Invariance, PTL DEF ColoringSpec

-----------------------------------------------------------------------------
(***************************************************************************)
(* The levels of the vertex graph, for every mesh and every order of the   *)
(* links.                                                                  *)
(***************************************************************************)

(* The vertices of a level split the mesh, ...                               *)
Split ==
  /\ UNION Node = MeshVertex
  /\ \A U, W \in Node : U # W => U \intersect W = {}
  /\ \A U \in Node : U # {}

(* ... are linked where the mesh is, ...                                     *)
LinksCut == \A U \in Node : DOMAIN mAdj[U] = {W \in Node : W # U /\ Cut(U, W) # {}}

(* ... and are merged in pairs of linked ones.                               *)
MergedInv ==
  /\ \A p \in merged : \E U, W \in Node : p = {U, W} /\ W \in DOMAIN mAdj[U]
  /\ \A p, q \in merged : p # q => p \intersect q = {}

Pieces == \A U \in Node : Connected(U)

LevelsEnd == phase = "done" => depth = MAX_DEPTH \/ Node = {MeshVertex}

LevelsInv == graph \in MeshGraphs /\ Split /\ LinksCut /\ MergedInv /\ Pieces /\ LevelsEnd
-----------------------------------------------------------------------------
(* The cut between two sets holds its edges both ways.                       *)
LEMMA CutSymmetric ==
  ASSUME graph \in MeshGraphs, NEW U \in SUBSET MeshVertex, NEW W \in SUBSET MeshVertex, Cut(U, W) # {}
  PROVE  Cut(W, U) # {}
<1>1. PICK e \in Cut(U, W) : TRUE
  OBVIOUS
<1>2. /\ e = <<e[1], e[2]>> /\ e[1] \in U /\ e[2] \in W /\ e[2] \in graph[e[1]]
  BY <1>1 DEF Cut
<1>3. e[1] \in graph[e[2]]
  BY <1>2, GraphsAssumption
<1>4. <<e[2], e[1]>> \in Cut(W, U)
  BY <1>2, <1>3 DEF Cut
<1> QED BY <1>4

(* Two connected pieces with a link between them make a connected piece.     *)
LEMMA UnionConnected ==
  ASSUME graph \in MeshGraphs, NEW U \in SUBSET MeshVertex, NEW W \in SUBSET MeshVertex,
         Connected(U), Connected(W), Cut(U, W) # {}
  PROVE  Connected(U \union W)
<1> SUFFICES ASSUME NEW S \in SUBSET (U \union W), S # {}, S # U \union W
             PROVE  Cut(S, (U \union W) \ S) # {}
  BY DEF Connected
<1>1. CASE \E x \in U : x \in S /\ \E y \in U : y \notin S
  <2>1. S \intersect U # {} /\ S \intersect U # U
    BY <1>1
  <2>2. Cut(S \intersect U, U \ (S \intersect U)) # {}
    BY <2>1 DEF Connected
  <2> QED BY <2>2 DEF Cut
<1>2. CASE \E x \in W : x \in S /\ \E y \in W : y \notin S
  <2>1. S \intersect W # {} /\ S \intersect W # W
    BY <1>2
  <2>2. Cut(S \intersect W, W \ (S \intersect W)) # {}
    BY <2>1 DEF Connected
  <2> QED BY <2>2 DEF Cut
<1>3. CASE U \subseteq S /\ W \intersect S = {}
  <2>1. Cut(U, W) \subseteq Cut(S, (U \union W) \ S)
    BY <1>3 DEF Cut
  <2> QED BY <2>1
<1>4. CASE W \subseteq S /\ U \intersect S = {}
  <2>1. Cut(W, U) # {}
    BY CutSymmetric
  <2>2. Cut(W, U) \subseteq Cut(S, (U \union W) \ S)
    BY <1>4 DEF Cut
  <2> QED BY <2>1, <2>2
<1> QED BY <1>1, <1>2, <1>3, <1>4
-----------------------------------------------------------------------------
(* A vertex of the next level is a merged pair or a vertex left alone.       *)
LEMMA CoarseVertex ==
  ASSUME LevelsInv, NEW X \in Coarse
  PROVE  \/ /\ X \in Node /\ ~ mergeFlag(X)
         \/ \E U, W \in Node : X = U \union W /\ {U, W} \in merged /\ W \in DOMAIN mAdj[U]
<1>1. CASE \E p \in merged : X = UNION p
  <2>1. PICK p \in merged : X = UNION p
    BY <1>1
  <2>2. PICK U \in Node, W \in Node : p = {U, W} /\ W \in DOMAIN mAdj[U]
    BY DEF LevelsInv, MergedInv
  <2>3. UNION {U, W} = U \union W
    OBVIOUS
  <2> QED BY <2>1, <2>2, <2>3
<1>2. CASE X \in {U \in Node : ~ mergeFlag(U)}
  BY <1>2
<1> QED BY <1>1, <1>2 DEF Coarse

(* It contains whole vertices of this level, and these cover it.             *)
LEMMA CoarseIsCovered ==
  ASSUME LevelsInv, NEW X \in Coarse, NEW v \in X
  PROVE  \E U \in to_upper(X) : v \in U
BY CoarseVertex DEF to_upper

(* A vertex of this level is in one vertex of the next.                      *)
LEMMA CoarseAbove ==
  ASSUME LevelsInv, NEW U \in Node
  PROVE  \E X \in Coarse : U \subseteq X
<1>1. CASE mergeFlag(U)
  <2>1. PICK p \in merged : U \in p
    BY <1>1 DEF mergeFlag
  <2>2. UNION p \in Coarse
    BY <2>1 DEF Coarse
  <2>3. U \subseteq UNION p
    BY <2>1
  <2> QED BY <2>2, <2>3
<1>2. CASE ~ mergeFlag(U)
  BY <1>2 DEF Coarse
<1> QED BY <1>1, <1>2

(* Which parts a vertex of the next level has decides which it is.           *)
LEMMA PartsDecide ==
  ASSUME LevelsInv, NEW X \in Coarse, NEW Y \in Coarse,
         NEW U \in Node, U \subseteq X, U \subseteq Y
  PROVE  X = Y
<1>1. \A Z \in Coarse : U \subseteq Z =>
         \/ Z = U /\ ~ mergeFlag(U)
         \/ \E p \in merged : U \in p /\ Z = UNION p
  <2> SUFFICES ASSUME NEW Z \in Coarse, U \subseteq Z
               PROVE  \/ Z = U /\ ~ mergeFlag(U)
                      \/ \E p \in merged : U \in p /\ Z = UNION p
    OBVIOUS
  <2>1. U # {}
    BY DEF LevelsInv, Split
  <2>2. CASE Z \in Node /\ ~ mergeFlag(Z)
    BY <2>1, <2>2 DEF LevelsInv, Split
  <2>3. CASE \E V, W \in Node : Z = V \union W /\ {V, W} \in merged /\ W \in DOMAIN mAdj[V]
    <3>1. PICK V \in Node, W \in Node : Z = V \union W /\ {V, W} \in merged
      BY <2>3
    <3>2. U = V \/ U = W
      BY <2>1, <3>1 DEF LevelsInv, Split
    <3>3. UNION {V, W} = Z
      BY <3>1
    <3> QED BY <3>1, <3>2, <3>3
  <2> QED BY <2>2, <2>3, CoarseVertex
<1>2. CASE ~ mergeFlag(U)
  BY <1>1, <1>2 DEF mergeFlag
<1>3. CASE mergeFlag(U)
  <2>1. PICK p \in merged, q \in merged : U \in p /\ X = UNION p /\ U \in q /\ Y = UNION q
    BY <1>1, <1>3
  <2>2. p = q
    BY <2>1 DEF LevelsInv, MergedInv
  <2> QED BY <2>1, <2>2
<1> QED BY <1>2, <1>3

(* The next level splits the mesh, ...                                       *)
LEMMA CoarseSplits ==
  ASSUME LevelsInv
  PROVE  /\ UNION Coarse = MeshVertex
         /\ \A X, Y \in Coarse : X # Y => X \intersect Y = {}
         /\ \A X \in Coarse : X # {}
<1>1. \A X \in Coarse : X \subseteq MeshVertex /\ X # {}
  <2> SUFFICES ASSUME NEW X \in Coarse PROVE X \subseteq MeshVertex /\ X # {}
    OBVIOUS
  <2>1. \A U \in Node : U \subseteq MeshVertex /\ U # {}
    BY DEF LevelsInv, Split
  <2>2. CASE X \in Node
    BY <2>1, <2>2
  <2>3. CASE \E U, W \in Node : X = U \union W /\ {U, W} \in merged /\ W \in DOMAIN mAdj[U]
    BY <2>1, <2>3
  <2> QED BY <2>2, <2>3, CoarseVertex
<1>2. MeshVertex \subseteq UNION Coarse
  BY CoarseAbove DEF LevelsInv, Split
<1>3. \A X, Y \in Coarse : X # Y => X \intersect Y = {}
  <2> SUFFICES ASSUME NEW X \in Coarse, NEW Y \in Coarse, NEW v \in X, v \in Y
               PROVE  X = Y
    OBVIOUS
  <2>1. PICK U \in to_upper(X), W \in to_upper(Y) : v \in U /\ v \in W
    BY CoarseIsCovered
  <2>2. U = W
    BY <2>1 DEF LevelsInv, Split, to_upper
  <2> QED BY <2>1, <2>2, PartsDecide DEF to_upper
<1> QED BY <1>1, <1>2, <1>3

(* ... is linked where the mesh is, ...                                      *)
LEMMA CoarseLinks ==
  ASSUME LevelsInv, NEW X \in Coarse
  PROVE  Linked(X) = {Y \in Coarse : Y # X /\ Cut(X, Y) # {}}
<1> SUFFICES ASSUME NEW Y \in Coarse, Y # X
             PROVE  Scratch(X, Y) # {} <=> Cut(X, Y) # {}
  BY DEF Linked
<1>1. ASSUME NEW l \in Scratch(X, Y)
      PROVE  Cut(X, Y) # {}
  <2>1. /\ l[1] \in Node /\ l[1] \subseteq X
        /\ l[2] \in Node /\ l[2] \subseteq Y
        /\ l[2] \in DOMAIN mAdj[l[1]]
    BY <1>1 DEF Scratch, to_upper
  <2>2. Cut(l[1], l[2]) # {}
    BY <2>1 DEF LevelsInv, LinksCut
  <2>3. Cut(l[1], l[2]) \subseteq Cut(X, Y)
    BY <2>1 DEF Cut
  <2> QED BY <2>2, <2>3
<1>2. ASSUME NEW e \in Cut(X, Y)
      PROVE  Scratch(X, Y) # {}
  <2>1. e = <<e[1], e[2]>> /\ e[1] \in X /\ e[2] \in Y /\ e[2] \in graph[e[1]]
    BY <1>2 DEF Cut
  <2>2. PICK U \in to_upper(X), W \in to_upper(Y) : e[1] \in U /\ e[2] \in W
    BY <2>1, CoarseIsCovered
  <2>3. e \in Cut(U, W)
    BY <2>1, <2>2 DEF Cut
  <2>4. U # W
    BY <2>1, <2>2, CoarseSplits DEF to_upper
  <2>5. W \in DOMAIN mAdj[U]
    BY <2>3, <2>4 DEF LevelsInv, LinksCut, to_upper
  <2>6. <<U, W>> \in Scratch(X, Y)
    BY <2>2, <2>5 DEF Scratch
  <2> QED BY <2>6
<1> QED BY <1>1, <1>2

(* ... and each of its vertices is connected.                                *)
LEMMA CoarsePieces ==
  ASSUME LevelsInv, NEW X \in Coarse
  PROVE  Connected(X)
<1>1. CASE X \in Node
  BY <1>1 DEF LevelsInv, Pieces
<1>2. CASE \E U, W \in Node : X = U \union W /\ {U, W} \in merged /\ W \in DOMAIN mAdj[U]
  <2>1. PICK U \in Node, W \in Node : X = U \union W /\ W \in DOMAIN mAdj[U]
    BY <1>2
  <2>2. U \subseteq MeshVertex /\ W \subseteq MeshVertex
    BY DEF LevelsInv, Split
  <2>3. Cut(U, W) # {}
    BY <2>1 DEF LevelsInv, LinksCut
  <2> QED BY <2>1, <2>2, <2>3, UnionConnected DEF LevelsInv, Pieces
<1> QED BY <1>1, <1>2, CoarseVertex
-----------------------------------------------------------------------------
(* The first level.                                                          *)
LEMMA InitLevelsInv == LevelsInit => LevelsInv
<1> SUFFICES ASSUME LevelsInit PROVE LevelsInv
  OBVIOUS
<1>1. graph \in MeshGraphs /\ Node = Singles /\ merged = {} /\ phase = "downsample"
  BY DEF LevelsInit, Node
<1>2. Split
  BY <1>1 DEF Split, Singles
<1>3. LinksCut
  <2> SUFFICES ASSUME NEW U \in Node
               PROVE  DOMAIN mAdj[U] = {W \in Node : W # U /\ Cut(U, W) # {}}
    BY DEF LinksCut
  <2>1. PICK u \in MeshVertex : U = {u}
    BY <1>1 DEF Singles
  <2>2. DOMAIN mAdj[U] = {W \in Singles : \E v \in U, w \in W : w \in graph[v]}
    BY <1>1 DEF LevelsInit
  <2>3. ASSUME NEW W \in Singles
        PROVE  (\E v \in U, w \in W : w \in graph[v]) <=> W # U /\ Cut(U, W) # {}
    <3>1. PICK w \in MeshVertex : W = {w}
      BY <2>3 DEF Singles
    <3>2. (\E v \in U, y \in W : y \in graph[v]) <=> w \in graph[u]
      BY <2>1, <3>1
    <3>3. w \in graph[u] => w # u
      BY <1>1, GraphsAssumption
    <3>4. Cut(U, W) # {} <=> w \in graph[u]
      <4>1. Cut(U, W) # {} => w \in graph[u]
        BY <2>1, <3>1 DEF Cut
      <4>2. w \in graph[u] => <<u, w>> \in Cut(U, W)
        BY <2>1, <3>1 DEF Cut
      <4> QED BY <4>1, <4>2
    <3> QED BY <2>1, <3>1, <3>2, <3>3, <3>4
  <2> QED BY <1>1, <2>2, <2>3
<1>4. Pieces
  <2>1. ASSUME NEW U \in Node, NEW S \in SUBSET U
        PROVE  S = {} \/ S = U
    BY <1>1, <2>1 DEF Singles
  <2> QED BY <2>1 DEF Pieces, Connected
<1> QED BY <1>1, <1>2, <1>3, <1>4 DEF LevelsInv, MergedInv, LevelsEnd

(* Merging or coarsening keeps the invariant.                                *)
LEMMA NextLevelsInv == LevelsInv /\ [LevelsNext]_levels_vars => LevelsInv'
<1> SUFFICES ASSUME LevelsInv, [LevelsNext]_levels_vars PROVE LevelsInv'
  OBVIOUS
<1>1. CASE Merge
  <2>1. PICK U \in Node, W \in Node : Mergeable(U, W) /\ merged' = merged \union {{U, W}}
    BY <1>1 DEF Merge
  <2>2. UNCHANGED <<graph, depth, mAdj, phase>>
    BY <1>1 DEF Merge
  <2>3. MergedInv'
    <3>1. \A p \in merged : p \intersect {U, W} = {}
      BY <2>1 DEF Mergeable, mergeFlag
    <3>2. \A p \in merged' : \E V, X \in Node : p = {V, X} /\ X \in DOMAIN mAdj[V]
      BY <2>1 DEF Mergeable, LevelsInv, MergedInv
    <3>3. \A p, q \in merged' : p # q => p \intersect q = {}
      BY <2>1, <3>1 DEF LevelsInv, MergedInv
    <3> QED BY <2>2, <3>2, <3>3 DEF MergedInv, Node
  <2>4. Split' /\ LevelsEnd'
    BY <2>2 DEF LevelsInv, Split, LevelsEnd, Node
  <2>5. LinksCut'
    BY <2>2 DEF LevelsInv, LinksCut, Node, Cut
  <2>6. Pieces'
    BY <2>2 DEF LevelsInv, Pieces, Node, Connected, Cut
  <2> QED BY <2>2, <2>3, <2>4, <2>5, <2>6 DEF LevelsInv
<1>2. CASE Coarsen
  <2>1. /\ Node' = Coarse /\ graph' = graph /\ merged' = {}
        /\ \A X \in Coarse : DOMAIN mAdj'[X] = Linked(X)
    BY <1>2 DEF Coarsen, Node
  <2>2. Split'
    BY <2>1, CoarseSplits DEF Split
  <2>3. LinksCut'
    <3>1. \A X \in Coarse : DOMAIN mAdj'[X] = {Y \in Coarse : Y # X /\ Cut(X, Y) # {}}
      BY <2>1, CoarseLinks
    <3> QED BY <2>1, <3>1 DEF LinksCut, Cut
  <2>4. Pieces'
    <3>1. \A X \in Coarse : Connected(X)
      BY CoarsePieces
    <3> QED BY <2>1, <3>1 DEF Pieces, Connected, Cut
  <2>5. LevelsEnd'
    <3> SUFFICES ASSUME phase' = "done", depth' # MAX_DEPTH
                 PROVE  Coarse = {MeshVertex}
      BY <2>1 DEF LevelsEnd
    <3>1. Cardinality(Coarse) = 1
      BY <1>2 DEF Coarsen
    <3>2. Coarse \subseteq SUBSET MeshVertex
      BY CoarseSplits
    <3>3. IsFiniteSet(Coarse)
      BY <3>2, GraphsAssumption, FS_SUBSET, FS_Subset
    <3>4. PICK X : Coarse = {X}
      BY <3>1, <3>3, FS_Singleton
    <3>5. X = MeshVertex
      BY <3>4, CoarseSplits
    <3> QED BY <3>4, <3>5
  <2> QED BY <2>1, <2>2, <2>3, <2>4, <2>5 DEF LevelsInv, MergedInv
<1>3. CASE UNCHANGED levels_vars
  <2>1. UNCHANGED <<graph, depth, mAdj, merged, phase>>
    BY <1>3 DEF levels_vars
  <2>2. Split' /\ LevelsEnd'
    BY <2>1 DEF LevelsInv, Split, LevelsEnd, Node
  <2>3. LinksCut'
    BY <2>1 DEF LevelsInv, LinksCut, Node, Cut
  <2>4. Pieces'
    BY <2>1 DEF LevelsInv, Pieces, Node, Connected, Cut
  <2>5. MergedInv'
    BY <2>1 DEF LevelsInv, MergedInv, Node
  <2> QED BY <2>1, <2>2, <2>3, <2>4, <2>5 DEF LevelsInv
<1> QED BY <1>1, <1>2, <1>3 DEF LevelsNext
-----------------------------------------------------------------------------
(* Every level is a graph without loops, known to both ends of each link:    *)
(* what the locks of the coloring and the phases of the smoothing rely on.   *)
THEOREM GraphsCorrect == LevelsSpec => []LevelsAreGraphs
<1>1. LevelsInv => LevelsAreGraphs
  <2> SUFFICES ASSUME LevelsInv, NEW U \in Node, NEW W \in DOMAIN mAdj[U]
               PROVE  W \in Node /\ W # U /\ U \in DOMAIN mAdj[W]
    BY DEF LevelsAreGraphs
  <2>1. W \in Node /\ W # U /\ Cut(U, W) # {}
    BY DEF LevelsInv, LinksCut
  <2>2. U \subseteq MeshVertex /\ W \subseteq MeshVertex
    BY <2>1 DEF LevelsInv, Split
  <2>3. Cut(W, U) # {}
    BY <2>1, <2>2, CutSymmetric DEF LevelsInv
  <2> QED BY <2>1, <2>3 DEF LevelsInv, LinksCut
<1> QED BY <1>1, InitLevelsInv, NextLevelsInv, PTL DEF LevelsSpec

(* Every level splits the mesh into connected pieces, and coarsening ends    *)
(* with one vertex or with the last level there is room for.                 *)
THEOREM PiecesCorrect == LevelsSpec => []VerticesArePieces
<1>1. LevelsInv => VerticesArePieces
  BY DEF LevelsInv, Split, Pieces, LevelsEnd, VerticesArePieces
<1> QED BY <1>1, InitLevelsInv, NextLevelsInv, PTL DEF LevelsSpec
-----------------------------------------------------------------------------
(* A link weighs as many links of the first level as its ends are joined by. *)
Weighed == \A U \in Node : \A W \in DOMAIN mAdj[U] : mAdj[U][W] = Cardinality(Cut(U, W))

LEMMA CutFinite ==
  ASSUME NEW U \in SUBSET MeshVertex, NEW W \in SUBSET MeshVertex
  PROVE  IsFiniteSet(Cut(U, W)) /\ Cardinality(Cut(U, W)) \in Nat
<1>1. IsFiniteSet(U \X W)
  BY GraphsAssumption, FS_Subset, FS_Product
<1> QED BY <1>1, FS_Subset, FS_CardinalityType DEF Cut

LEMMA InitWeighed == LevelsInit => Weighed
<1> SUFFICES ASSUME LevelsInit, NEW U \in Node, NEW W \in DOMAIN mAdj[U]
             PROVE  mAdj[U][W] = Cardinality(Cut(U, W))
  BY DEF Weighed
<1>1. /\ U \in Singles /\ W \in Singles /\ mAdj[U][W] = 1
      /\ \E v \in U, w \in W : w \in graph[v]
  BY DEF LevelsInit, Node
<1>2. PICK u \in MeshVertex, w \in MeshVertex : U = {u} /\ W = {w}
  BY <1>1 DEF Singles
<1>3. w \in graph[u]
  BY <1>1, <1>2
<1>4. Cut(U, W) = {<<u, w>>}
  BY <1>2, <1>3 DEF Cut
<1>5. Cardinality({<<u, w>>}) = 1
  BY FS_Singleton
<1> QED BY <1>1, <1>4, <1>5

(* What MapThenSumSet sums is the weight of each link.                       *)
LEMMA WeightIsSum ==
  ASSUME NEW X, NEW Y
  PROVE  Weight(X, Y) = SumOver([l \in Scratch(X, Y) |-> mAdj[l[1]][l[2]]], Scratch(X, Y))
<1> DEFINE S == Scratch(X, Y)
           w == [l \in S |-> mAdj[l[1]][l[2]]]
           ByAdj(it, s) == IF s = {} THEN 0
                           ELSE mAdj[AnyOf(s)[1]][AnyOf(s)[2]] + it[s \ {AnyOf(s)}]
           ByW(it, s) == IF s = {} THEN 0 ELSE w[AnyOf(s)] + it[s \ {AnyOf(s)}]
<1>1. \A s \in SUBSET S : s # {} => AnyOf(s) \in S
  BY Zenon DEF AnyOf
<1>2. \A it : it = [s \in SUBSET S |-> ByAdj(it, s)] <=> it = [s \in SUBSET S |-> ByW(it, s)]
  <2> HIDE DEF S
  <2> QED BY <1>1
<1>3. (CHOOSE it : it = [s \in SUBSET S |-> ByAdj(it, s)])
        = (CHOOSE it : it = [s \in SUBSET S |-> ByW(it, s)])
  BY <1>2, Zenon
<1>4. Weight(X, Y) = (CHOOSE it : it = [s \in SUBSET S |-> ByAdj(it, s)])[S]
  BY DEF Weight, MapThenSumSet, MapThenFoldSet, AnyOf
<1>5. SumOver(w, S) = (CHOOSE it : it = [s \in SUBSET S |-> ByW(it, s)])[S]
  BY DEF SumOver, MapThenSumSet, MapThenFoldSet, AnyOf
<1> QED BY <1>3, <1>4, <1>5

(* The links between two vertices of the next level split what joins them.   *)
LEMMA ScratchSplitsCut ==
  ASSUME LevelsInv, NEW X \in Coarse, NEW Y \in Coarse, X # Y
  PROVE  /\ Cut(X, Y) = UNION {Cut(l[1], l[2]) : l \in Scratch(X, Y)}
         /\ \A l, m \in Scratch(X, Y) : l # m => Cut(l[1], l[2]) \intersect Cut(m[1], m[2]) = {}
<1>1. ASSUME NEW l \in Scratch(X, Y)
      PROVE  /\ l[1] \in Node /\ l[1] \subseteq X /\ l[2] \in Node /\ l[2] \subseteq Y
             /\ l = <<l[1], l[2]>> /\ Cut(l[1], l[2]) \subseteq Cut(X, Y)
  BY <1>1 DEF Scratch, to_upper, Cut
<1>2. ASSUME NEW e \in Cut(X, Y)
      PROVE  \E l \in Scratch(X, Y) : e \in Cut(l[1], l[2])
  <2>1. e = <<e[1], e[2]>> /\ e[1] \in X /\ e[2] \in Y /\ e[2] \in graph[e[1]]
    BY <1>2 DEF Cut
  <2>2. PICK U \in to_upper(X), W \in to_upper(Y) : e[1] \in U /\ e[2] \in W
    BY <2>1, CoarseIsCovered
  <2>3. e \in Cut(U, W)
    BY <2>1, <2>2 DEF Cut
  <2>4. U # W
    BY <2>1, <2>2, CoarseSplits DEF to_upper
  <2>5. W \in DOMAIN mAdj[U]
    BY <2>3, <2>4 DEF LevelsInv, LinksCut, to_upper
  <2>6. <<U, W>> \in Scratch(X, Y)
    BY <2>2, <2>5 DEF Scratch
  <2> QED BY <2>3, <2>6
<1>3. ASSUME NEW l \in Scratch(X, Y), NEW m \in Scratch(X, Y),
             NEW e \in Cut(l[1], l[2]), e \in Cut(m[1], m[2])
      PROVE  l = m
  <2>1. e[1] \in l[1] /\ e[1] \in m[1] /\ e[2] \in l[2] /\ e[2] \in m[2]
    BY <1>3 DEF Cut
  <2>2. l[1] = m[1] /\ l[2] = m[2]
    BY <1>1, <2>1 DEF LevelsInv, Split
  <2> QED BY <1>1, <2>2
<1>4. Cut(X, Y) \subseteq UNION {Cut(l[1], l[2]) : l \in Scratch(X, Y)}
  BY <1>2
<1>5. UNION {Cut(l[1], l[2]) : l \in Scratch(X, Y)} \subseteq Cut(X, Y)
  BY <1>1
<1> QED BY <1>3, <1>4, <1>5

LEMMA CoarseWeighs ==
  ASSUME LevelsInv, Weighed, NEW X \in Coarse, NEW Y \in Coarse, X # Y
  PROVE  Weight(X, Y) = Cardinality(Cut(X, Y))
<1> DEFINE S == Scratch(X, Y)
           w == [l \in S |-> mAdj[l[1]][l[2]]]
           Parts == [l \in S |-> Cut(l[1], l[2])]
<1>1. ASSUME NEW l \in S
      PROVE  IsFiniteSet(Parts[l]) /\ w[l] = Cardinality(Parts[l]) /\ w[l] \in Int
  <2>1. l[1] \in Node /\ l[2] \in Node /\ l[2] \in DOMAIN mAdj[l[1]]
    BY <1>1 DEF Scratch, to_upper
  <2>2. l[1] \in SUBSET MeshVertex /\ l[2] \in SUBSET MeshVertex
    BY <2>1 DEF LevelsInv, Split
  <2>3. mAdj[l[1]][l[2]] = Cardinality(Cut(l[1], l[2]))
    BY <2>1 DEF Weighed
  <2> QED BY <2>2, <2>3, CutFinite
<1>2. IsFiniteSet(S)
  <2>1. Node \in SUBSET SUBSET MeshVertex
    BY DEF LevelsInv, Split
  <2>2. IsFiniteSet(SUBSET MeshVertex)
    BY GraphsAssumption, FS_SUBSET
  <2>3. IsFiniteSet(to_upper(X)) /\ IsFiniteSet(to_upper(Y))
    BY <2>1, <2>2, FS_Subset DEF to_upper
  <2>4. IsFiniteSet(to_upper(X) \X to_upper(Y))
    BY <2>3, FS_Product
  <2> QED BY <2>4, FS_Subset DEF Scratch
<1>3. w \in [S -> Int]
  BY <1>1
<1>4. \A l, m \in S : l # m => Parts[l] \intersect Parts[m] = {}
  BY ScratchSplitsCut
<1>5. /\ \A l \in S : Parts[l] \subseteq Cut(X, Y)
      /\ \A e \in Cut(X, Y) : \E l \in S : e \in Parts[l]
  BY ScratchSplitsCut
<1>6. Weight(X, Y) = SumOver(w, S)
  BY WeightIsSum
<1> HIDE DEF S, w, Parts
<1>7. SumOver(w, S) = Cardinality(Cut(X, Y))
  <2>1. S \in SUBSET S
    OBVIOUS
  <2>2. \A l \in S : IsFiniteSet(Parts[l]) /\ w[l] = Cardinality(Parts[l])
    BY <1>1
  <2> QED BY <1>2, <1>3, <1>4, <1>5, <2>1, <2>2, SumOverCounts
<1> QED BY <1>6, <1>7

LEMMA NextWeighed == LevelsInv /\ Weighed /\ [LevelsNext]_levels_vars => Weighed'
<1> SUFFICES ASSUME LevelsInv, Weighed, [LevelsNext]_levels_vars PROVE Weighed'
  OBVIOUS
<1>1. CASE Merge \/ UNCHANGED levels_vars
  BY <1>1 DEF Merge, levels_vars, Weighed, Node, Cut
<1>2. CASE Coarsen
  <2>1. /\ Node' = Coarse /\ graph' = graph
        /\ \A X \in Coarse : mAdj'[X] = [Y \in Linked(X) |-> Weight(X, Y)]
    BY <1>2 DEF Coarsen, Node
  <2>2. ASSUME NEW X \in Coarse, NEW Y \in Linked(X)
        PROVE  mAdj'[X][Y] = Cardinality(Cut(X, Y))
    <3>1. Y \in Coarse /\ Y # X
      BY <2>2 DEF Linked
    <3> QED BY <2>1, <3>1, CoarseWeighs
  <2>3. \A X \in Coarse : DOMAIN mAdj'[X] = Linked(X)
    BY <2>1
  <2> QED BY <2>1, <2>2, <2>3 DEF Weighed, Cut
<1> QED BY <1>1, <1>2 DEF LevelsNext

(* On every level, whatever was merged, a link weighs as many links of the   *)
(* mesh as join the vertices that its ends stand for.                        *)
THEOREM WeightsCorrect == LevelsSpec => []WeightsAreCuts
<1>1. LevelsInv /\ Weighed => WeightsAreCuts
  BY DEF LevelsInv, LinksCut, Weighed, WeightsAreCuts
<1> QED BY <1>1, InitLevelsInv, NextLevelsInv, InitWeighed, NextWeighed, PTL DEF LevelsSpec
=============================================================================
