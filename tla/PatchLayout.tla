----------------------------- MODULE PatchLayout ----------------------------
(***************************************************************************)
(* extract_patch after PatchLines (optimizer.cpp:1403-2010): patches are   *)
(* put together from the pieces of lines and boundary.  Every face at a    *)
(* singularity or a crossing is tried: two pieces leave along its edges,   *)
(* two more must close them.  A piece inside may be used twice, one of the *)
(* boundary once.  What is left over is then chained by its ends alone.    *)
(* At last the pieces of each patch are put in order around it.            *)
(*                                                                         *)
(* The lists of pieces, of crossings and of faces are in the order they    *)
(* were found in PatchLines, which can be any.  A variable that is read    *)
(* before it is set has no value to go on with: then pc is "undefined".    *)
(***************************************************************************)
EXTENDS PatchLines

VARIABLES
  uses,       \* number_line_inner and number_line_boundary
  starts,     \* the parts of start not visited, in their order
  start,      \* the start whose faces are tried
  F_inner,    \* its faces not tried yet
  patchline,  \* the left over pieces, without those of number_patchline 0
  rest,       \* the left over pieces not taken up by the loop
  patch,      \* patches whose pieces are in no order
  walk,       \* the patch put in order: its corner, its pieces, those in order
  collapse_patch,  \* patches whose pieces are in order
  matrix      \* the only patch of a mesh without singularities

traced == <<mesh, tracing, boundary, patch_line_inner, looping>>
assembly == <<uses, starts, start, F_inner, patchline, rest, patch>>
ordering == <<walk, collapse_patch>>
layout == <<assembly, ordering, matrix>>

Backwards(l) == [j \in 1 .. Len(l) |-> l[Len(l) + 1 - j]]
Readings(k) == {k.line, Backwards(k.line)}

(* A line that was traced twice is twice in the list.                        *)
Copies(bag, kind) ==
  UNION {{[kind |-> kind, line |-> l, copy |-> n] : n \in 1 .. bag[l]} : l \in DOMAIN bag}

Kind(v) == IF v \in mesh.boundary_o THEN "boundary" ELSE "inner"

FacesAt(v) == {f \in mesh.F_compact : \E i \in 1 .. 4 : f[i] = v}

LayoutInit ==
  /\ Init
  /\ uses = [k \in {} |-> 0]
  /\ starts = <<>> /\ start = -1 /\ F_inner = {}
  /\ patchline = {} /\ rest = {}
  /\ patch = EmptyBag
  /\ walk = <<>> /\ collapse_patch = EmptyBag
  /\ matrix = <<>>

TraceLines == Next /\ UNCHANGED layout
-----------------------------------------------------------------------------
(* A mesh without singularities is a grid, and one patch.  Its rows start at *)
(* the piece that returns to the first corner, go on to the column beside it *)
(* and from there straight to the other side; without such a column, or with *)
(* fewer than four pieces, vertices and pieces are read that do not exist.   *)
Further(m) ==
  IF Last(m) \in mesh.boundary_o THEN m
  ELSE Append(m, Straight(mesh, m[Len(m) - 1], Last(m)))

(* The set of the one line that leaves l by w.                               *)
StraightLines(l, w) ==
  LET size == Cardinality(DOMAIN mesh.adj_compact)
      lines[n \in 1 .. size] ==
        IF n = 1 THEN {<<l, w>>} ELSE {Further(m) : m \in lines[n - 1]}
  IN lines[size]

InnerRows(side, column) ==
  [i \in 1 .. Len(side) - 2 |-> CHOOSE l \in StraightLines(side[i + 1], column[i]) : TRUE]

OnePatch ==
  /\ pc = "done" /\ AllSingular = {}
  /\ LET pieces == DOMAIN patch_line_boundary IN
     IF \/ Cardinality(pieces) < 4
        \/ \E p \in pieces : mesh.turn[<<p[1], p[2]>>] \in mesh.boundary_o
     THEN pc' = "undefined" /\ UNCHANGED matrix
     ELSE /\ pc' = "laid"
          /\ \E p, q, r \in pieces :
               /\ Last(r) = p[1] /\ Last(q) = r[1]
               /\ \E column \in StraightLines(p[2], mesh.turn[<<p[1], p[2]>>]) :
                    matrix' = <<p>> \o InnerRows(Backwards(r), Tail(column)) \o <<Backwards(q)>>
  /\ UNCHANGED <<traced, assembly, ordering>>
-----------------------------------------------------------------------------
BeginLayout ==
  /\ pc = "done" /\ AllSingular # {}
  /\ pc' = "starts"
  /\ starts' = <<mesh.singularity, mesh.boundary_singularity, overlap>>
  /\ LET inner == Copies(patch_line_inner, "inner")
         bound == Copies(patch_line_boundary, "boundary")
     IN uses' = [k \in inner \union bound |-> IF k \in inner THEN 2 ELSE 1]
  /\ UNCHANGED <<traced, start, F_inner, patchline, rest, patch, ordering, matrix>>

NextStart ==
  /\ pc = "starts" /\ F_inner = {}
  /\ \E g \in 1 .. 3 : \E v \in starts[g] :
       /\ \A h \in 1 .. g - 1 : starts[h] = {}
       /\ g < 3 => v = Min(starts[g])
       /\ start' = v /\ F_inner' = FacesAt(v)
       /\ starts' = [starts EXCEPT ![g] = @ \ {v}]
  /\ UNCHANGED <<pc, traced, uses, patchline, rest, patch, ordering, matrix>>

(* Faulty variant: pieces that were used up are taken again.                 *)
UsedAgain(left_uses, kind) == {k \in DOMAIN left_uses : k.kind = kind}

Usable(left_uses, kind) == {k \in DOMAIN left_uses : k.kind = kind /\ left_uses[k] # 0}

(* The inner pieces that leave v along its edge to a, with their ends.       *)
Leaving(v, a) ==
  {<<k, Last(r)>> : <<k, r>> \in
     {<<k, r>> \in UNION {{k} \X Readings(k) : k \in Usable(uses, "inner")} :
        r[1] = v /\ r[2] = a}}

Spend(left_uses, k, m) ==
  LET once == [left_uses EXCEPT ![k] = @ - 1] IN [once EXCEPT ![m] = @ - 1]

(* A piece goes on from end2, another from end1, and they meet: on the       *)
(* boundary along it, inside along lines.                                    *)
Closing(left_uses, v, end1, end2) ==
  {c \in Usable(left_uses, Kind(end2)) \X Usable(left_uses, Kind(end1)) :
     \E r \in Readings(c[1]), s \in Readings(c[2]) :
       /\ r[1] = end2 /\ Last(r) # v
       /\ s[1] = end1 /\ Last(s) = Last(r)}

NewPatch(v, f, pieces) == patch' = patch (+) Once([point |-> v, quad |-> f, pieces |-> pieces])

(* The pieces x and y leave start; without closing pieces they are put back. *)
ClosePatch(f, x, y) ==
  LET spent == Spend(uses, x[1], y[1])
      closing == Closing(spent, start, x[2], y[2])
  IN IF closing = {} THEN UNCHANGED <<uses, patch>>
     ELSE \E c \in closing :
            /\ uses' = Spend(spent, c[1], c[2])
            /\ NewPatch(start, f, {x[1], y[1], c[1], c[2]})

(* A face whose edges at start do not both have one piece is left alone;     *)
(* with two pieces on one and none on the other, end2 is not set.            *)
TryFace ==
  /\ pc = "starts"
  /\ \E f \in F_inner, i \in 1 .. 4 :
       /\ f[i] = start
       /\ F_inner' = F_inner \ {f}
       /\ LET X == Leaving(start, f[Preceding(i)])
              Y == Leaving(start, f[Following(i)])
          IN \/ /\ Cardinality(X) + Cardinality(Y) # 2
                /\ UNCHANGED <<pc, uses, patch>>
             \/ /\ Cardinality(X) = 1 /\ Cardinality(Y) = 1
                /\ \E x \in X, y \in Y : ClosePatch(f, x, y)
                /\ UNCHANGED pc
             \/ /\ {Cardinality(X), Cardinality(Y)} = {0, 2}
                /\ pc' = "undefined"
                /\ UNCHANGED <<uses, patch>>
  /\ UNCHANGED <<traced, starts, start, patchline, rest, ordering, matrix>>
-----------------------------------------------------------------------------
(* Faulty variant: only pieces inside are left over.                         *)
LeftInside == UNION {{<<k, n>> : n \in 1 .. uses[k]} : k \in Usable(uses, "inner")}

LeftOver == UNION {{<<k, n>> : n \in 1 .. uses[k]} : k \in DOMAIN uses}

(* Nothing to do when each inner piece was used up.                          *)
BeginRest ==
  /\ pc = "starts" /\ F_inner = {} /\ \A g \in 1 .. 3 : starts[g] = {}
  /\ pc' = IF Usable(uses, "inner") = {} THEN "order" ELSE "rest"
  /\ patchline' = LeftOver
  /\ rest' = patchline'
  /\ UNCHANGED <<traced, uses, starts, start, F_inner, patch, ordering, matrix>>

(* The pieces of S that go on from v, but not to w.                          *)
Onward(S, v, w) ==
  {<<j, r>> \in UNION {{j} \X Readings(j[1]) : j \in S} : r[1] = v /\ Last(r) # w}

IsStart(v) == v \in AllSingular \union overlap

(* The quad at the last corner that is a start.                              *)
ChainedPatch(chain) ==
  LET corner == Max({c \in 1 .. 4 : IsStart(chain[c][2][1])})
      p == chain[corner][2][1]
      before == chain[Preceding(corner)][2]
      sides == {chain[corner][2][2], before[Len(before) - 1]}
      quads == {f \in FacesAt(p) : sides \subseteq {f[i] : i \in 1 .. 4}}
  IN IF Cardinality(quads) # 1 THEN pc' = "undefined" /\ UNCHANGED <<patchline, patch>>
     ELSE /\ \E f \in quads : NewPatch(p, f, {chain[c][1][1] : c \in 1 .. 4})
          /\ patchline' = patchline \ {chain[c][1] : c \in 1 .. 4}
          /\ UNCHANGED pc

(* All pieces that go on are taken, so that a patch is made only where there *)
(* is one each time; where there is none, v3, v4 or d is not set.            *)
Chain(i) ==
  LET first == i[1].line
      O2 == Onward(patchline \ {i}, Last(first), first[1])
      O3(x) == Onward(patchline \ {i, x[1]}, Last(x[2]), Last(first))
      O4(x, y) == Onward(patchline \ {i, x[1], y[1]}, Last(y[2]), Last(x[2]))
      Undefined == O2 = {} \/ \E x \in O2 : O3(x) = {} \/ \E y \in O3(x) : O4(x, y) = {}
      chains == {<<<<i, first>>, x, y, z>> : <<x, y, z>> \in
                   UNION {UNION {{<<x, y, z>> : z \in O4(x, y)} : y \in O3(x)} : x \in O2}}
  IN IF Undefined THEN pc' = "undefined" /\ UNCHANGED <<patchline, patch>>
     ELSE \E chain \in chains :
            IF Cardinality(chains) = 1 /\ Last(chain[4][2]) = first[1]
            THEN IF \E c \in 1 .. 4 : IsStart(chain[c][2][1])
                 THEN ChainedPatch(chain)
                 ELSE pc' = "undefined" /\ UNCHANGED <<patchline, patch>>
            ELSE UNCHANGED <<pc, patchline, patch>>

TryLine ==
  /\ pc = "rest"
  /\ \E i \in rest :
       /\ i[1].kind = "boundary" => \A j \in rest : j[1].kind = "boundary"
       /\ rest' = rest \ {i}
       /\ IF i \in patchline THEN Chain(i) ELSE UNCHANGED <<pc, patchline, patch>>
  /\ UNCHANGED <<traced, uses, starts, start, F_inner, ordering, matrix>>

EndRest ==
  /\ pc = "rest" /\ rest = {}
  /\ pc' = "order"
  /\ UNCHANGED <<traced, assembly, ordering, matrix>>
-----------------------------------------------------------------------------
(* The pieces of a patch in the order of its quad, from its point.  Patches  *)
(* do not depend on each other here: one order of them stands for all.       *)
BeginWalk ==
  /\ pc = "order" /\ walk = <<>> /\ patch # EmptyBag
  /\ \E p \in {CHOOSE q \in DOMAIN patch : TRUE}, i \in 1 .. 4 :
       /\ p.quad[i] = p.point
       /\ \E k \in p.pieces : \E r \in Readings(k) :
            /\ r[1] = p.point /\ r[2] = p.quad[Following(i)]
            /\ walk' = [point |-> p.point, pieces |-> p.pieces, lines |-> <<r>>]
       /\ patch' = patch (-) Once(p)
  /\ UNCHANGED <<pc, traced, uses, starts, start, F_inner, patchline, rest,
                 collapse_patch, matrix>>

WalkOn ==
  /\ pc = "order" /\ walk # <<>>
  /\ LET l == Last(walk.lines) IN
     IF Last(l) = walk.point
     THEN collapse_patch' = collapse_patch (+) Once(walk.lines) /\ walk' = <<>>
     ELSE /\ \E k \in walk.pieces : \E r \in Readings(k) :
               /\ r[1] = Last(l) /\ Last(r) # l[1]
               /\ walk' = [walk EXCEPT !.lines = Append(@, r)]
          /\ UNCHANGED collapse_patch
  /\ UNCHANGED <<pc, traced, assembly, matrix>>

EndLayout ==
  /\ pc = "order" /\ walk = <<>> /\ patch = EmptyBag
  /\ pc' = "laid"
  /\ UNCHANGED <<traced, assembly, ordering, matrix>>

LayoutNext ==
  \/ TraceLines \/ OnePatch
  \/ BeginLayout \/ NextStart \/ TryFace
  \/ BeginRest \/ TryLine \/ EndRest
  \/ BeginWalk \/ WalkOn \/ EndLayout

LayoutSpec ==
  LayoutInit /\ [][LayoutNext]_<<vars, layout>> /\ WF_<<vars, layout>>(LayoutNext)
-----------------------------------------------------------------------------
BoundarySides == {{e[1], e[2]} : e \in mesh.boundaryvertex}

(* Edges inside the mesh that join two boundary singularities.               *)
Chords ==
  {c \in {{e[1], e[2]} : e \in DirectedEdges(mesh.F_compact)} \ BoundarySides :
     c \subseteq mesh.boundary_singularity}

Regions == LET laid == LaidEdges IN {Region(f, laid) : f \in mesh.F_compact}

(* The corners of a region where both its sides are inside the mesh.         *)
InnerCorners(R) ==
  LET inside == LaidEdges \ BoundarySides IN
  {g[i] : <<g, i>> \in {<<g, i>> \in R \X (1 .. 4) :
     {{g[Preceding(i)], g[i]}, {g[i], g[Following(i)]}} \subseteq inside}}

(* The directed edges around a region, and those along the sides of a patch. *)
Border(R, laid) == {e \in DirectedEdges(R) : {e[1], e[2]} \in laid}
Outline(sides) == {<<sides[i][j], sides[i][j + 1]>> : <<i, j>> \in
                     UNION {{i} \X (1 .. Len(sides[i]) - 1) : i \in DOMAIN sides}}

(* No variable is read before it is set and no vertex or piece that does not  *)
(* exist (optimizer.cpp:1456-1512, 1584, 1797-1862), except where a chord was *)
(* traced twice and in a grid one face wide.                                  *)
AssemblyIsDefined ==
  Chords = {} /\ (AllSingular = {} => DOMAIN mesh.adj_compact # mesh.boundary_o)
    => pc # "undefined"

(* The counts of the pieces keep a region from being found from two corners   *)
(* when the starts inside the mesh take all their faces.  Two corners at      *)
(* boundary singularities both find it.                                       *)
OneFinder(R) == Cardinality(InnerCorners(R) \intersect mesh.boundary_singularity) <= 1

FoundOnce ==
  LET laid == LaidEdges
      border == [R \in Regions |-> Border(R, laid)]
      outline == [p \in DOMAIN collapse_patch |-> Outline(p)]
  IN /\ \A p \in DOMAIN collapse_patch :
          /\ Len(p) = 4 /\ collapse_patch[p] = 1
          /\ \E R \in DOMAIN border : border[R] = outline[p]
     /\ \A p, q \in DOMAIN collapse_patch : outline[p] = outline[q] => p = q
     /\ \A R \in DOMAIN border :
          InnerCorners(R) # {} => \E p \in DOMAIN collapse_patch : outline[p] = border[R]

EachVertexOnce ==
  \A v \in DOMAIN mesh.adj_compact :
    MapThenSumSet(LAMBDA i : Cardinality({j \in DOMAIN matrix[i] : matrix[i][j] = v}),
                  DOMAIN matrix) = 1

(* Patches are the regions (optimizer.cpp:1534-2010): four sides in the order *)
(* around a region, no region twice, none with a corner inside the mesh lost. *)
(* A grid is one patch with each vertex in one of its rows.                   *)
RegionsArePatches ==
  pc = "laid" =>
    IF AllSingular = {} THEN EachVertexOnce
    ELSE Chords = {} /\ (\A R \in Regions : OneFinder(R)) => FoundOnce

(* The layout comes to its end; the walk around a patch finds its way back    *)
(* (optimizer.cpp:1988-2009).                                                 *)
LayoutEnds == <>(pc \in {"laid", "undefined"})
=============================================================================
