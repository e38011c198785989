------------------------------ MODULE IndexMap ------------------------------
(***************************************************************************)
(* Parametrizer::ComputeIndexMap after the flow (parametrizer.cpp:129-150): *)
(* subdivide_edgeDiff halves the edges whose difference is longer than one, *)
(* FixFlipHierarchy removes flips, and what this made longer is halved     *)
(* again.                                                                  *)
(*                                                                         *)
(* A directed edge is <<face, corner>>.  When the edge x of the face       *)
(* <<v0, v1, v0p>> is halved at vn, the part behind vn is <<vn, v0p, v0>>, *)
(* the part ahead of it <<vn, v1, v0p>>; the face across the edge is cut   *)
(* likewise.  Each face has a space of its own, in which diffs are its     *)
(* differences.                                                            *)
(*                                                                         *)
(* The frame Q of a vertex is an angle in thirds of a quarter turn; frames *)
(* are compared as in the plane.  Positions are left out: a length is only *)
(* compared with an earlier one, to see that an edge was replaced since.   *)
(* V2E and boundary are not read any more after this, no vertex is         *)
(* nonmanifold, and no edge is sharp.                                      *)
(***************************************************************************)
EXTENDS EdgeHierarchy, Bags

CONSTANT Surfaces   \* [F, mE2E, Q, edge_values, edge_diff, face_edgeIds, face_edgeOrients]

(* What BuildEdgeInfo makes of an oriented manifold: the two sides of an     *)
(* edge, which run against each other, and no others have its number.        *)
Manifold(s) ==
  LET darts == (DOMAIN s.F) \X (1 .. 3)
      From(x) == s.F[x[1]][x[2]]
      To(x) == s.F[x[1]][(x[2] % 3) + 1]
      Number(x) == s.face_edgeIds[x[1]][x[2]]
  IN
  /\ s.Q \in Seq(0 .. 11) /\ s.F \in Seq([1 .. 3 -> DOMAIN s.Q])
  /\ s.edge_diff \in Seq(Int \X Int) /\ DOMAIN s.edge_values = DOMAIN s.edge_diff
  /\ s.face_edgeIds \in [DOMAIN s.F -> [1 .. 3 -> DOMAIN s.edge_diff]]
  /\ s.face_edgeOrients \in [DOMAIN s.F -> [1 .. 3 -> 0 .. 3]]
  /\ s.mE2E \in [darts -> darts \union {NoDart}]
  /\ \A f \in DOMAIN s.F : \A i, j \in 1 .. 3 : s.F[f][i] = s.F[f][j] => i = j
  /\ \A e \in DOMAIN s.edge_diff : \E x \in darts : Number(x) = e
  /\ \A x \in darts :
       /\ s.edge_values[Number(x)] = {From(x), To(x)}
       /\ \A y \in darts : Number(x) = Number(y) => y = x \/ y = s.mE2E[x]
       /\ s.mE2E[x] # NoDart =>
            /\ s.mE2E[s.mE2E[x]] = x /\ Number(s.mE2E[x]) = Number(x)
            /\ From(s.mE2E[x]) = To(x) /\ From(x) = To(s.mE2E[x])

ASSUME SurfacesAssumption == \A s \in Surfaces : Manifold(s)

VARIABLES
  surface,          \* what the first subdivision is called with, or NoSurface
  pass,             \* 1 or 2: which subdivision
  F, mE2E, Q, Boundary_edges,
  edge_values, edge_diff, face_edgeIds, face_edgeOrients,
  diffs, face_spaces, queue

graph == <<edge_diff, face_edgeIds, face_edgeOrients>>
halving == <<F, mE2E, Q, Boundary_edges, edge_values, diffs, face_spaces>>
subdivision == <<surface, pass, graph, halving, queue>>
hierarchy == <<mesh, levels, ups, base, building, fixing>>

NoSurface == <<>>

Prev3(x) == Next3(Next3(x))
Halves == (DOMAIN F) \X Corner
Start(x) == F[x[1]][x[2]]
Ends(x) == {Start(x), Start(Next3(x))}
Id(x) == face_edgeIds[x[1]][x[2]]

(* What a table holds after the entries of new.                              *)
Updated(table, new) ==
  [i \in DOMAIN table \union DOMAIN new |-> IF i \in DOMAIN new THEN new[i] ELSE table[i]]

Long(d) == Abs(d[1]) > 1 \/ Abs(d[2]) > 1

(* The integer division and the remainder of C.                              *)
Half(d) == [k \in 1 .. 2 |-> IF d[k] < 0 THEN -((-d[k]) \div 2) ELSE d[k] \div 2]
Rem4(n) == IF n < 0 THEN -((-n) % 4) ELSE n % 4

(* By how many quarters the axes of the frames a and b are off: second minus *)
(* first.  Three quarters are -1 or 3 in the code; -1 is the one that could  *)
(* make a remainder negative.                                                *)
compat_orientation(a, b) ==
  LET turn == ((a - b + 13) % 12) \div 3 IN IF turn = 3 THEN -1 ELSE turn
-----------------------------------------------------------------------------
(* A call of FixFlipHierarchy alone, or everything.                          *)
IndexMapInit ==
  \/ /\ Init
     /\ surface = NoSurface /\ pass = 2
     /\ F = <<>> /\ mE2E = <<>> /\ Q = <<>> /\ Boundary_edges = {}
     /\ edge_values = <<>> /\ edge_diff = <<>>
     /\ face_edgeIds = <<>> /\ face_edgeOrients = <<>>
     /\ diffs = <<>> /\ face_spaces = <<>> /\ queue = EmptyBag
  \/ /\ surface \in Surfaces /\ pass = 1
     /\ F = surface.F /\ mE2E = surface.mE2E /\ Q = surface.Q
     /\ Boundary_edges = {x \in Halves : mE2E[x] = NoDart}
     /\ edge_values = surface.edge_values /\ edge_diff = surface.edge_diff
     /\ face_edgeIds = surface.face_edgeIds
     /\ face_edgeOrients = surface.face_edgeOrients
     /\ diffs = <<>> /\ face_spaces = <<>> /\ queue = EmptyBag
     /\ pc = "index"
     /\ mesh = <<>> /\ levels = <<>> /\ ups = <<>> /\ base = 0
     /\ fixed_faces = <<>> /\ toUpper = <<>> /\ toUpperOrients = <<>> /\ nE2F = <<>>
     /\ walk = NoWalk
     /\ E2E = <<>> /\ flipped = {} /\ update = FALSE /\ max_len = 1

(* By how much the turn of an edge differs from that of the frames.          *)
OrientDiff(f, j) ==
  LET ends == edge_values[face_edgeIds[f][j]]
      value == compat_orientation(Q[Min(ends)], Q[F[f][1]])
      back == IF F[f][j] = Max(ends) THEN 2 ELSE 0
  IN (face_edgeOrients[f][j] + 8 - value - back) % 4

(* The space of a face is off by what two of its edges agree on.             *)
Space(f) ==
  LET off == [j \in Corner |-> OrientDiff(f, j)]
      agreed == {off[j] : j \in {k \in Corner : \E l \in Corner \ {k} : off[l] = off[k]}}
      orient == IF agreed = {} THEN 0 ELSE Min(agreed)
  IN [orient |-> orient, d |-> [j \in Corner |-> (off[j] + 4 - orient) % 4], q |-> Q[F[f][1]]]

(* An entry of the queue, made for the ends and the difference of x.         *)
QueueEntry(x, ends, diff) ==
  [id |-> x, ends |-> ends, maxlen |-> Max({Abs(diff[1]), Abs(diff[2])})]

Before(x, y) == 3 * x[1] + x[2] < 3 * y[1] + y[2]

BeginSubdivision ==
  /\ pc = "index"
  /\ pc' = "split"
  /\ diffs' = [x \in Halves |-> rshift90(edge_diff[Id(x)], face_edgeOrients[x[1]][x[2]])]
  /\ face_spaces' = [f \in DOMAIN F |-> Space(f)]
  /\ queue' = SetToBag({QueueEntry(x, Ends(x), diffs'[x]) : x \in
                {y \in Halves : Long(diffs'[y]) /\ (mE2E[y] = NoDart \/ Before(y, mE2E[y]))}})
  /\ UNCHANGED <<surface, pass, graph, F, mE2E, Q, Boundary_edges, edge_values, hierarchy>>
-----------------------------------------------------------------------------
(* The parts of the face of x: half is the half edge of the part, inner the  *)
(* edge from vn, to the third corner, h the difference up to vn, across the  *)
(* one of inner.                                                             *)
InSpace(x, d) == [face_spaces[x[1]] EXCEPT !.d = d]
D(x) == face_spaces[x[1]].d[x[2]]

Behind(x, vn, half, inner, h, across, side) ==
  [v     |-> <<vn, Start(Prev3(x)), Start(x)>>,
   ids   |-> <<inner, Id(Prev3(x)), half>>,
   diff  |-> <<across, diffs[Prev3(x)], h>>,
   flag  |-> <<FALSE, Prev3(x) \in Boundary_edges, side>>,
   space |-> InSpace(x, <<0, D(Prev3(x)), D(x)>>)]

Ahead(x, vn, half, inner, h, across, side) ==
  [v     |-> <<vn, Start(Next3(x)), Start(Prev3(x))>>,
   ids   |-> <<half, Id(Next3(x)), inner>>,
   diff  |-> <<Minus(diffs[x], h), diffs[Next3(x)], Minus(Zero, across)>>,
   flag  |-> <<side, Next3(x) \in Boundary_edges, FALSE>>,
   space |-> InSpace(x, <<D(x), D(Next3(x)), 0>>)]

(* AnalyzeOrient: the turns of a part, from the frames.                      *)
AnalyzeOrient(p) ==
  [j \in Corner |->
     LET v == Min({p.v[j], p.v[(j % 3) + 1]})
         back == IF p.v[j] # v THEN 2 ELSE 0
     IN Rem4(p.space.orient + p.space.d[j] + back + compat_orientation(Q[v], p.space.q) + 4)]

(* The difference of an edge is what the last part with it has written.      *)
Written(parts, e) ==
  LET i == Max({k \in DOMAIN parts : \E j \in Corner : parts[k].ids[j] = e})
      j == Max({k \in Corner : parts[i].ids[k] = e})
  IN rshift90(parts[i].diff[j], Rem4(4 - AnalyzeOrient(parts[i])[j]))

(* FixOrient: with the turns that make the differences of the part of those  *)
(* of its edges.                                                             *)
FixOrient(p, diff) ==
  LET was == AnalyzeOrient(p)
      orients == [j \in Corner |->
        LET e == p.ids[j] IN
        IF rshift90(diff[e], was[j]) = p.diff[j] THEN was[j]
        ELSE Min({t \in 0 .. 3 : rshift90(diff[e], t) = p.diff[j]} \union {4})]
  IN [orients |-> orients,
      space |-> [p.space EXCEPT
                   !.d = [j \in Corner |-> Rem4(@[j] + orients[j] - was[j])]]]

Link(opposites, p, z) ==
  [u \in DOMAIN opposites \union ({p, z} \ {NoDart}) |->
     IF u = p THEN z ELSE IF u = z THEN p ELSE opposites[u]]

(* The opposites of the parts of x in the faces b (behind) and a (ahead).    *)
LinkSide(opposites, x, b, a) ==
  LET inner == Link(opposites, <<b, 1>>, <<a, 3>>)
      behind == Link(inner, <<b, 2>>, opposites[Prev3(x)])
  IN  Link(behind, <<a, 2>>, opposites[Next3(x)])

(* The halves of x meet those of y: a, b are the parts of x, c, d those of y. *)
LinkHalves(opposites, y, b, a, c, d) ==
  IF y = NoDart
  THEN Link(Link(opposites, <<b, 3>>, NoDart), <<a, 1>>, NoDart)
  ELSE Link(Link(opposites, <<b, 3>>, <<d, 1>>), <<c, 3>>, <<a, 1>>)

(* Faulty variant: the opposites across the other face are read too early.   *)
LinkedAtOnce(x, y, b, a, c, d) ==
  LET near == LinkSide(mE2E, x, b, a)
      early == [near EXCEPT ![Prev3(y)] = mE2E[Prev3(y)], ![Next3(y)] = mE2E[Next3(y)]]
  IN LinkHalves(IF y = NoDart THEN near ELSE LinkSide(early, y, c, d), y, b, a, c, d)

(* The opposites in the other face are read when this side is linked.        *)
Linked(x, y, b, a, c, d) ==
  LET near == LinkSide(mE2E, x, b, a)
  IN LinkHalves(IF y = NoDart THEN near ELSE LinkSide(near, y, c, d), y, b, a, c, d)

(* Faulty variant: the last face is not looked at again.                     *)
AllButLast(numbers) == Range(Front(numbers))

(* The faces whose edges are put on the queue.                               *)
Rescheduled(numbers) == Range(numbers)
-----------------------------------------------------------------------------
Foremost == {e \in DOMAIN queue : \A g \in DOMAIN queue : g.maxlen <= e.maxlen}
Popped(e) == queue (-) SetToBag({e})

(* The edge is short by now, or another one with another length has its      *)
(* place.  (One that happens to have the same length is halved for it.)      *)
Discard ==
  /\ pc = "split"
  /\ \E e \in Foremost :
       /\ Ends(e.id) # e.ends \/ ~ Long(diffs[e.id])
       /\ queue' = Popped(e)
  /\ UNCHANGED <<pc, surface, pass, graph, halving, hierarchy>>

(* The parts become the faces of these numbers.                              *)
Replace(e, x, numbers, parts) ==
  LET vn == Cardinality(DOMAIN Q) + 1
      Part(f) == parts[CHOOSE k \in DOMAIN numbers : numbers[k] = f]
      changed == Range(numbers) \X Corner
      touched == UNION {Range(parts[k].ids) : k \in DOMAIN parts}
      EndsOf(d) == LET z == CHOOSE z \in changed : Part(z[1]).ids[z[2]] = d
                   IN {Part(z[1]).v[z[2]], Part(z[1]).v[(z[2] % 3) + 1]}
  IN
  /\ F' = Updated(F, [f \in Range(numbers) |-> Part(f).v])
  /\ Q' = Append(Q, Q[Start(x)])
  /\ face_edgeIds' = Updated(face_edgeIds, [f \in Range(numbers) |-> Part(f).ids])
  /\ edge_values' = Updated([edge_values EXCEPT ![Id(x)] = {Start(x), vn}],
                            [d \in touched \ DOMAIN edge_values |-> EndsOf(d)])
  /\ edge_diff' = Updated(edge_diff, [d \in touched |-> Written(parts, d)])
  /\ diffs' = Updated(diffs, [z \in changed |-> Part(z[1]).diff[z[2]]])
  /\ Boundary_edges' =
       (Boundary_edges \ changed) \union {z \in changed : Part(z[1]).flag[z[2]]}
  /\ \E fixed \in {[f \in Range(numbers) |-> FixOrient(Part(f), edge_diff')]} :
       /\ face_edgeOrients' =
            Updated(face_edgeOrients, [f \in Range(numbers) |-> fixed[f].orients])
       /\ face_spaces' = Updated(face_spaces, [f \in Range(numbers) |-> fixed[f].space])
  /\ queue' = Popped(e) (+)
       SetToBag({QueueEntry(z, {F'[z[1]][z[2]], F'[z[1]][(z[2] % 3) + 1]}, diffs'[z]) : z \in
                   {w \in Rescheduled(numbers) \X Corner : Long(diffs'[w])}})

(* How the edge x is halved at vn: the numbers and the parts of its faces,   *)
(* and the opposites after it.                                               *)
AtBoundary(x, vn) ==
  LET n == Cardinality(DOMAIN F)
      m == Cardinality(DOMAIN edge_diff)
      h == Half(diffs[x])
      across == Minus(Plus(diffs[x], diffs[Next3(x)]), h)
      side == x \in Boundary_edges
  IN [numbers   |-> <<x[1], n + 1>>,
      parts     |-> <<Behind(x, vn, Id(x), m + 2, h, across, side),
                      Ahead(x, vn, m + 1, m + 2, h, across, side)>>,
      opposites |-> Linked(x, NoDart, x[1], n + 1, 0, 0)]

(* turn is by how much the difference of the other side y is turned.         *)
BetweenFaces(x, y, turn, vn) ==
  LET n == Cardinality(DOMAIN F)
      m == Cardinality(DOMAIN edge_diff)
      one == AtBoundary(x, vn)
      k == Minus(diffs[y], rshift90(Half(diffs[x]), turn))
      beyond == Minus(Zero, Plus(diffs[Prev3(y)], k))
      side == x \in Boundary_edges
  IN [numbers   |-> <<x[1], y[1], n + 1, n + 2>>,
      parts     |-> <<one.parts[1], Ahead(y, vn, Id(x), m + 3, k, beyond, side),
                      Behind(y, vn, m + 1, m + 3, k, beyond, side), one.parts[2]>>,
      opposites |-> Linked(x, y, x[1], n + 2, n + 1, y[1])]

Turns4(x, y) == {t \in 0 .. 3 : rshift90(diffs[x], t) = diffs[y]}

(* The differences of the two faces of an edge must be turns of each other:  *)
(* the turn is searched without an end.                                      *)
Halve ==
  /\ pc = "split"
  /\ \E e \in Foremost :
       LET x == e.id
           y == mE2E[x]
           vn == Cardinality(DOMAIN Q) + 1
       IN
       /\ Long(diffs[x])
       /\ IF y # NoDart /\ Turns4(x, y) = {}
          THEN pc' = "spinning" /\ UNCHANGED <<graph, halving, queue>>
          ELSE \E cut \in {IF y = NoDart THEN AtBoundary(x, vn)
                          ELSE BetweenFaces(x, y, Min(Turns4(x, y)), vn)} :
                 /\ Replace(e, x, cut.numbers, cut.parts)
                 /\ mE2E' = cut.opposites
                 /\ UNCHANGED pc
  /\ UNCHANGED <<surface, pass, hierarchy>>

(* An edge that is still long ends the process: "wrong init", "wrong...".       *)
EndSubdivision ==
  /\ pc = "split" /\ queue = EmptyBag
  /\ IF \E d \in DOMAIN edge_diff : Long(edge_diff[d])
     THEN pc' = "exit" /\ UNCHANGED mesh
     ELSE IF pass = 2 THEN pc' = "end" /\ UNCHANGED mesh
     ELSE /\ pc' = "called"
          /\ mesh' = [F2E |-> face_edgeIds, FQ |-> face_edgeOrients, diff |-> edge_diff,
                      allow |-> [d \in DOMAIN edge_diff |-> <<1, 1>>]]
  /\ UNCHANGED <<subdivision, levels, ups, base, building, fixing>>

FixFlipHierarchy == Next /\ UNCHANGED subdivision

UpdateGraphValue ==
  /\ pc = "done" /\ surface # NoSurface
  /\ pc' = "index" /\ pass' = 2
  /\ face_edgeIds' = Top.F2E /\ face_edgeOrients' = Top.FQ /\ edge_diff' = Top.diff
  /\ UNCHANGED <<surface, halving, queue, hierarchy>>

IndexMapNext ==
  \/ BeginSubdivision \/ Discard \/ Halve \/ EndSubdivision
  \/ FixFlipHierarchy \/ UpdateGraphValue

IndexMapSpec ==
  /\ IndexMapInit
  /\ [][IndexMapNext]_<<vars, subdivision>>
  /\ WF_<<vars, subdivision>>(IndexMapNext)
-----------------------------------------------------------------------------
(* While edges are halved in place (subdivide.cpp:392-497), the two sides of *)
(* each edge are paired, have its number, its ends and its difference, each  *)
(* in the space of its face, and exactly the boundary has no other side.     *)
SidesAgree ==
  pc = "split" =>
    \A x \in Halves :
      LET y == mE2E[x] IN
      /\ edge_values[Id(x)] = Ends(x)
      /\ rshift90(edge_diff[Id(x)], face_edgeOrients[x[1]][x[2]]) = diffs[x]
      /\ (y = NoDart) = (x \in Boundary_edges)
      /\ y # NoDart =>
           /\ mE2E[y] = x /\ Id(y) = Id(x)
           /\ Start(y) = Start(Next3(x)) /\ Start(x) = Start(Next3(y))

(* Halving and repairing keep the equations: a face of the beginning is as   *)
(* open as it was, after the moves of a repair that change several faces, or *)
(* one edge twice (hierarchy.cpp:987), and after both subdivisions; a face   *)
(* that halving has made is closed (subdivide.cpp:386-470).                  *)
EquationsSurvive ==
  LET Kept1(after, before) ==
        \A f \in DOMAIN after.F2E :
          Residual(after, f) = IF f \in DOMAIN before.F2E THEN Residual(before, f) ELSE Zero
      Equations(m) == [F2E |-> m.face_edgeIds, FQ |-> m.face_edgeOrients, diff |-> m.edge_diff]
      now == [F2E |-> face_edgeIds, FQ |-> face_edgeOrients, diff |-> edge_diff]
  IN  /\ pc = "done" => Kept1(Top, mesh)
      /\ pc = "end" => Kept1(now, Equations(surface))

(* Everything comes to its end: no edge is halved for ever, none is left     *)
(* long (subdivide.cpp:535-551), no search for a turn goes on and on, and    *)
(* the repair of flips ends (hierarchy.cpp:1080-1104).                       *)
IndexMapEnds == <>(pc = IF surface = NoSurface THEN "done" ELSE "end")
=============================================================================
