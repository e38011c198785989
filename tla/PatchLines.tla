----------------------------- MODULE PatchLines -----------------------------
(***************************************************************************)
(* The first half of Optimizer::extract_patch, which lays the patches out. *)
(* Every edge that leaves a singularity, a port, starts a line that goes   *)
(* straight on to the boundary or to another singularity, whose port it    *)
(* strikes.  The inner singularities are traced first, then those of the   *)
(* boundary.  A regular vertex counts its lines in assist and joins        *)
(* overlap with the second; the lines are cut there.  The loops of the     *)
(* boundary are then followed and cut where lines end and at the corners.  *)
(*                                                                         *)
(* The program never sets flag_preserve_sharp, so sharp_o is zero and its  *)
(* branches are dead.  Singularities are visited in the order of their    *)
(* numbers; the ports of one, and the edges of the boundary, are in the    *)
(* order of the faces, which can be any.                                   *)
(***************************************************************************)
EXTENDS QuadMesh, Sequences, Bags, FiniteSetsExt

CONSTANT Meshes   \* the sets of faces to start from

(* What compute_direct_graph_quad accepts once FixValence is over.           *)
ASSUME MeshesAssumption == \A F \in Meshes : Manifold(F)

VARIABLES
  pc,           \* what extract_patch is doing
  mesh,         \* F_compact and the lists derived from it
  todo,         \* the singularities of this pass that are not visited
  at,           \* the singularity that is visited
  left,         \* its ports the inner loop has not reached
  ports,        \* adj_singularity and adj_boundary_singularity, unless struck
  assist,       \* how many lines a vertex still expects
  overlap,      \* the regular vertices where lines cross
  boundary,     \* the boundary vertices where its loops are cut
  line,         \* the line that is traced
  patch_line,   \* the lines traced
  patch_line_inner,     \* the pieces of the lines
  edges,                \* boundaryvertex: the boundary edges not followed
  loop,                 \* the vertices of the loop that is followed
  patch_line_boundary   \* the pieces of the boundary

tracing == <<todo, at, left, ports, assist, overlap, line, patch_line>>
looping == <<edges, loop, patch_line_boundary>>
vars == <<pc, mesh, tracing, boundary, patch_line_inner, looping>>

Last(s) == s[Len(s)]
Once(x) == SetToBag({x})

AllSingular == mesh.singularity \union mesh.boundary_singularity

Init ==
  /\ \E F \in Meshes : mesh = MeshOf(F)
  /\ pc = "inner"
  /\ todo = mesh.singularity /\ at = -1 /\ left = {}
  /\ ports = [v \in AllSingular |-> mesh.adj_compact[v]]
  /\ assist = [v \in DOMAIN mesh.adj_compact |->
                 IF v \in mesh.boundary_o THEN 0
                 ELSE IF Cardinality(mesh.adj_compact[v]) = 4 THEN 1
                 ELSE Cardinality(mesh.adj_compact[v])]
  /\ overlap = {} /\ boundary = {}
  /\ line = <<>> /\ patch_line = EmptyBag /\ patch_line_inner = EmptyBag
  /\ edges = mesh.boundaryvertex
  /\ loop = <<>> /\ patch_line_boundary = EmptyBag

-----------------------------------------------------------------------------
(* Faulty variant: all of its ports are taken as used.                       *)
StrikeAll(v, from) == IF v \in DOMAIN ports THEN [ports EXCEPT ![v] = {}] ELSE ports

(* The port of v that leads to from, if v is singular.                       *)
Strike(v, from) ==
  IF v \in DOMAIN ports THEN [ports EXCEPT ![v] = @ \ {from}] ELSE ports

(* A line passes v.                                                          *)
Pass(v) ==
  /\ assist' = IF assist[v] # 0 THEN [assist EXCEPT ![v] = @ - 1] ELSE assist
  /\ overlap' = IF assist[v] # 0 THEN overlap ELSE overlap \union {v}

Finish(l) ==
  /\ patch_line' = patch_line (+) Once(l)
  /\ line' = <<>>

(* The ports the inner loop still has to trace from.                         *)
Unstruck == IF at = -1 THEN {} ELSE left \intersect ports[at]

(* The outer loop of both passes.  An inner singularity all of whose lines   *)
(* have been traced from their other ends is skipped.                        *)
NextSingularity ==
  /\ pc \in {"inner", "border"} /\ Unstruck = {} /\ todo # {}
  /\ at' = Min(todo) /\ todo' = todo \ {at'}
  /\ left' = IF pc = "inner" /\ assist[at'] = 0 THEN {} ELSE mesh.adj_compact[at']
  /\ UNCHANGED <<pc, mesh, ports, assist, overlap, boundary, line, patch_line,
                 patch_line_inner, looping>>

BoundaryPass ==
  /\ pc = "inner" /\ Unstruck = {} /\ todo = {}
  /\ pc' = "border"
  /\ todo' = mesh.boundary_singularity /\ at' = -1 /\ left' = {}
  /\ UNCHANGED <<mesh, ports, assist, overlap, boundary, line, patch_line,
                 patch_line_inner, looping>>

-----------------------------------------------------------------------------
(* The port p of an inner singularity leads to another one: one edge is a    *)
(* line.                                                                     *)
JoinSingularities(p) ==
  /\ p \in mesh.singularity
  /\ ports' = Strike(p, at)
  /\ assist' = [assist EXCEPT ![at] = @ - 1, ![p] = @ - 1]
  /\ Finish(<<at, p>>)
  /\ UNCHANGED <<pc, overlap, boundary>>

JoinBoundary(p) ==
  /\ p \in mesh.boundary_o
  /\ ports' = [Strike(p, at) EXCEPT ![at] = @ \ {p}]
  /\ assist' = [assist EXCEPT ![at] = @ - 1]
  /\ boundary' = boundary \union {p}
  /\ Finish(<<at, p>>)
  /\ UNCHANGED <<pc, overlap>>

(* The port leads to a regular vertex: assist changes there too.             *)
LeaveSingularity(p) ==
  /\ p \notin mesh.singularity \union mesh.boundary_o
  /\ line' = <<at, p>> /\ pc' = "innerline"
  /\ assist' = [assist EXCEPT ![at] = @ - 1, ![p] = IF @ # 0 THEN @ - 1 ELSE @]
  /\ overlap' = IF assist[p] # 0 THEN overlap ELSE overlap \union {p}
  /\ UNCHANGED <<ports, boundary, patch_line>>

TracePort ==
  /\ pc = "inner"
  /\ \E p \in Unstruck :
       /\ left' = left \ {p}
       /\ JoinSingularities(p) \/ JoinBoundary(p) \/ LeaveSingularity(p)
  /\ UNCHANGED <<mesh, todo, at, patch_line_inner, looping>>

(* The do loop of the first pass: one more vertex.                           *)
ReachBoundary(v) ==
  /\ v \in mesh.boundary_o
  /\ boundary' = boundary \union {v}
  /\ ports' = Strike(v, Last(line))
  /\ Finish(Append(line, v))
  /\ UNCHANGED <<assist, overlap>>

ReachSingularity(v) ==
  /\ v \in mesh.singularity
  /\ assist' = [assist EXCEPT ![v] = @ - 1]
  /\ ports' = Strike(v, Last(line))
  /\ Finish(Append(line, v))
  /\ UNCHANGED <<overlap, boundary>>

GoStraight(v) ==
  /\ Pass(v)
  /\ line' = Append(line, v)
  /\ UNCHANGED <<ports, boundary, patch_line>>

ExtendLine ==
  /\ pc = "innerline"
  /\ \E v \in {Straight(mesh, line[Len(line) - 1], Last(line))} :
       \/ ReachBoundary(v) /\ pc' = "inner"
       \/ ReachSingularity(v) /\ pc' = "inner"
       \/ /\ v \notin mesh.singularity \union mesh.boundary_o
          /\ GoStraight(v)
          /\ UNCHANGED pc
  /\ UNCHANGED <<mesh, todo, at, left, patch_line_inner, looping>>

-----------------------------------------------------------------------------
(* The second pass.  A port along the boundary is no line; a chord to another *)
(* boundary vertex is one, and strikes no port.                              *)
SkipBoundaryEdge(p) ==
  /\ <<at, p>> \in mesh.boundaryvertex \/ <<p, at>> \in mesh.boundaryvertex
  /\ ports' = Strike(at, p)
  /\ UNCHANGED <<pc, line, patch_line, boundary, assist, overlap>>

JoinChord(p) ==
  /\ p \in mesh.boundary_o
  /\ <<at, p>> \notin mesh.boundaryvertex /\ <<p, at>> \notin mesh.boundaryvertex
  /\ boundary' = boundary \union {p}
  /\ Finish(<<at, p>>)
  /\ UNCHANGED <<pc, ports, assist, overlap>>

LeaveBoundary(p) ==
  /\ p \notin mesh.boundary_o
  /\ line' = <<at, p>> /\ pc' = "borderline"
  /\ Pass(p)
  /\ UNCHANGED <<ports, boundary, patch_line>>

TraceBoundaryPort ==
  /\ pc = "border"
  /\ \E p \in Unstruck :
       /\ left' = left \ {p}
       /\ SkipBoundaryEdge(p) \/ JoinChord(p) \/ LeaveBoundary(p)
  /\ UNCHANGED <<mesh, todo, at, patch_line_inner, looping>>

(* Here a singularity ends the line, but its port is not struck.             *)
PassIntoSingularity(v) ==
  /\ v \in mesh.singularity
  /\ Pass(v)
  /\ Finish(Append(line, v))
  /\ UNCHANGED <<ports, boundary>>

ExtendBoundaryLine ==
  /\ pc = "borderline"
  /\ \E v \in {Straight(mesh, line[Len(line) - 1], Last(line))} :
       \/ ReachBoundary(v) /\ pc' = "border"
       \/ PassIntoSingularity(v) /\ pc' = "border"
       \/ /\ v \notin mesh.singularity \union mesh.boundary_o
          /\ GoStraight(v)
          /\ UNCHANGED pc
  /\ UNCHANGED <<mesh, todo, at, left, patch_line_inner, looping>>

-----------------------------------------------------------------------------
(* A line cut at the places of C and at its end.                             *)
Pieces(l, C) ==
  {SubSeq(l, Max({1} \union {d \in C : d < c}), c) : c \in C \union {Len(l)}}

InnerPieces(l) == Pieces(l, {j \in 1 .. Len(l) - 1 : l[j] \in overlap})

(* Boundary singularities cut the boundary too; the lines are cut where they *)
(* cross.                                                                    *)
CutLines ==
  /\ pc = "border" /\ Unstruck = {} /\ todo = {}
  /\ boundary' = boundary \union mesh.boundary_singularity
  /\ patch_line_inner' =
       [p \in UNION {InnerPieces(l) : l \in DOMAIN patch_line} |->
          MapThenSumSet(LAMBDA l : patch_line[l], {l \in DOMAIN patch_line : p \in InnerPieces(l)})]
  /\ pc' = "loops"
  /\ UNCHANGED <<mesh, tracing, looping>>

(* point1 and point2 of a new loop.                                          *)
StartLoop ==
  /\ pc = "loops" /\ loop = <<>>
  /\ \E e \in edges : loop' = e /\ edges' = edges \ {e}
  /\ UNCHANGED <<pc, mesh, tracing, boundary, patch_line_inner, patch_line_boundary>>

(* Faulty variant: always the entry at an even place.                        *)
OtherEndEven(e, v) == e[1]

OtherEnd(e, v) == IF e[1] = v THEN e[2] ELSE e[1]

(* One turn of the do loop: every edge left at point2 is used up, the last   *)
(* of them gives point3.                                                     *)
FollowLoop ==
  /\ pc = "loops" /\ loop # <<>> /\ Last(loop) # Head(loop)
  /\ LET here == {e \in edges : Last(loop) \in {e[1], e[2]}} IN
       /\ \E e \in here : loop' = Append(loop, OtherEnd(e, Last(loop)))
       /\ edges' = edges \ here
  /\ UNCHANGED <<pc, mesh, tracing, boundary, patch_line_inner, patch_line_boundary>>

(* The loop begins again at its first cut.  Without a cut the code takes the *)
(* loop twice over.                                                          *)
LoopPieces(l, B) ==
  LET cuts == {j \in 1 .. Len(l) - 1 : l[j] \in B}
      turned == SubSeq(l, Min(cuts), Len(l) - 1) \o SubSeq(l, 1, Min(cuts))
  IN IF cuts = {} THEN {Tail(l) \o Tail(l)}
     ELSE Pieces(turned, {j \in 2 .. Len(turned) - 1 : turned[j] \in B})

CloseLoop ==
  /\ pc = "loops" /\ Len(loop) > 2 /\ Last(loop) = Head(loop)
  /\ boundary' = boundary \union mesh.corner
  /\ patch_line_boundary' = patch_line_boundary (+) SetToBag(LoopPieces(loop, boundary'))
  /\ loop' = <<>>
  /\ UNCHANGED <<pc, mesh, tracing, patch_line_inner, edges>>

LinesDone ==
  /\ pc = "loops" /\ loop = <<>> /\ edges = {}
  /\ pc' = "done"
  /\ UNCHANGED <<mesh, tracing, boundary, patch_line_inner, looping>>

Next ==
  \/ NextSingularity \/ BoundaryPass
  \/ TracePort \/ ExtendLine
  \/ TraceBoundaryPort \/ ExtendBoundaryLine
  \/ CutLines \/ StartLoop \/ FollowLoop \/ CloseLoop \/ LinesDone

Spec == Init /\ [][Next]_vars /\ WF_vars(Next)

-----------------------------------------------------------------------------
Laid == pc \in {"loops", "done"}
Inside(l) == 2 .. Len(l) - 1
Regular == DOMAIN mesh.adj_compact \ (mesh.boundary_o \union AllSingular)
Times(bag, Count(_)) == MapThenSumSet(LAMBDA l : bag[l] * Count(l), DOMAIN bag)

(* A line starts at a singularity and ends at one or at the boundary; between *)
(* them it crosses regular vertices, leaving each by the edge that shares no  *)
(* face with the edge it came by.                                             *)
IsStraight(l) ==
  /\ Head(l) \in AllSingular
  /\ Last(l) \in AllSingular \union mesh.boundary_o
  /\ \A j \in Inside(l) :
       /\ l[j] \in Regular /\ {l[j - 1], l[j + 1]} \subseteq mesh.adj_compact[l[j]]
       /\ \A f \in mesh.F_compact :
            ~ {{l[j - 1], l[j]}, {l[j], l[j + 1]}} \subseteq {{f[i], f[Following(i)]} : i \in 1 .. 4}

LineEndsAt(s, a) ==
  Times(patch_line, LAMBDA l : (IF l[1] = s /\ l[2] = a THEN 1 ELSE 0) +
                               (IF Last(l) = s /\ l[Len(l) - 1] = a THEN 1 ELSE 0))

Chord(s, a) == {s, a} \subseteq mesh.boundary_singularity

(* The lines are the separatrices of the mesh: each runs straight, and when   *)
(* the tracing is over every port of a singularity is the end of one line,    *)
(* although both ends of a line are visited.  The exception is a chord        *)
(* between two boundary singularities, which each of them traces: JoinChord   *)
(* strikes no port.                                                           *)
LinesAreTheSeparatrices ==
  /\ \A l \in DOMAIN patch_line : IsStraight(l)
  /\ Laid =>
       \A s \in AllSingular : \A a \in mesh.adj_compact[s] :
         LineEndsAt(s, a) =
           (IF {<<s, a>>, <<a, s>>} \intersect mesh.boundaryvertex # {} THEN 0
            ELSE IF Chord(s, a) THEN 2 ELSE 1)

(* A line that reaches a singularity finds the port it came by unstruck.      *)
(* std::find is not checked: without the port, -1 is written past the list.   *)
StrikesFindTheirPort ==
  /\ pc = "inner" => \A p \in Unstruck \intersect DOMAIN ports : at \in ports[p]
  /\ pc \in {"innerline", "borderline"} =>
       LET v == Straight(mesh, line[Len(line) - 1], Last(line)) IN
       v \in DOMAIN ports => Last(line) \in ports[v]

LaidPieces == DOMAIN patch_line_inner \union DOMAIN patch_line_boundary

LaidEdges == UNION {{{l[j], l[j + 1]} : j \in 1 .. Len(l) - 1} : l \in LaidPieces}

(* The faces around f that no laid edge separates from it.                    *)
Region(f, laid) ==
  LET Sides(g) == {{g[i], g[Following(i)]} : i \in 1 .. 4} \ laid
      reached[n \in 0 .. Cardinality(mesh.F_compact)] ==
        IF n = 0 THEN {f}
        ELSE LET open == UNION {Sides(g) : g \in reached[n - 1]}
             IN {g \in mesh.F_compact : g = f \/ Sides(g) \intersect open # {}}
  IN reached[Cardinality(mesh.F_compact)]

(* What extract_patch is for: the pieces divide the mesh into regions with    *)
(* four corners, places where a face has pieces on both its edges.            *)
RegionsAreFourSided ==
  pc = "done" =>
    LET laid == LaidEdges
        corners == {c \in mesh.F_compact \X (1 .. 4) :
                      {{c[1][Preceding(c[2])], c[1][c[2]]}, {c[1][c[2]], c[1][Following(c[2])]}}
                        \subseteq laid}
    IN \A f \in mesh.F_compact :
         Cardinality({c \in corners : c[1] \in Region(f, laid)}) = 4
=============================================================================
