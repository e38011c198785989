---------------------------- MODULE EdgeHierarchy ---------------------------
(***************************************************************************)
(* Parametrizer::FixFlipHierarchy: remove flipped triangles by shrinking   *)
(* edges on a coarse version of the mesh.  DownsampleEdgeGraph contracts   *)
(* edges whose difference is zero, level by level.  The two faces of such  *)
(* an edge are crushed: the edges left of a crushed face are one edge of   *)
(* the next level.  FixFlip moves vertices on the last level, calls itself *)
(* on a new hierarchy of that level as long as this removes flips, and     *)
(* PropagateEdge carries the differences back to the first level.          *)
(*                                                                         *)
(* The hierarchies of the recursion are one sequence of levels here: the   *)
(* first level of a new hierarchy is the last one of the hierarchy before, *)
(* and is given back when it ends.  Upper edges and faces are not numbered *)
(* anew but keep the number of their first edge, or of their face, below;  *)
(* this keeps their order.                                                 *)
(***************************************************************************)
EXTENDS QuarterTurns, Sequences, SequencesExt, FiniteSets, FiniteSetsExt

CONSTANTS
  Meshes,      (* [F2E, FQ, diff, allow]: functions of the faces and of the edges *)
  MaxLevels    (* 100 *)

(* A surface of triangles: an edge is on one face or two, and at one corner  *)
(* of each.                                                                  *)
Triangulated(m) ==
  /\ m.diff \in Seq(Int \X Int)
  /\ m.F2E \in Seq([1 .. 3 -> DOMAIN m.diff])
  /\ m.FQ \in [DOMAIN m.F2E -> [1 .. 3 -> 0 .. 3]]
  /\ m.allow \in [DOMAIN m.diff -> [1 .. 2 -> {0, 1}]]
  /\ \A e \in DOMAIN m.diff :
       /\ \E f, g \in DOMAIN m.F2E :
            {h \in DOMAIN m.F2E : \E j \in 1 .. 3 : m.F2E[h][j] = e} = {f, g}
       /\ \A f \in DOMAIN m.F2E : \A j, k \in 1 .. 3 : m.F2E[f][j] = e /\ m.F2E[f][k] = e => j = k

ASSUME MeshesAssumption == \A m \in Meshes : Triangulated(m)

VARIABLES
  mesh,            (* what FixFlipHierarchy is called with *)
  pc,
  levels,          (* mF2E, mFQ, mE2F, mEdgeDiff, mAllowChanges, mSing, by level *)
  ups,             (* mToUpperEdges and mToUpperOrients, by level but the last *)
  base,            (* how many levels of the sequence belong to earlier hierarchies *)
  fixed_faces,     (* 0, 1 (fixed) or 2 (crushed) *)
  toUpper, toUpperOrients, nE2F,    (* of the level being built *)
  walk,            (* the chain being followed: [f0, f, paths] *)
  E2E,             (* of the last level, while FixFlip is on it *)
  flipped,         (* the queue of FixFlip, whose faces are in their order *)
  update, max_len

building == <<fixed_faces, toUpper, toUpperOrients, nE2F, walk>>
fixing   == <<E2E, flipped, update, max_len>>
vars == <<mesh, pc, levels, ups, base, building, fixing>>

None       == -1    (* no face, or no edge of the next level yet *)
Contracted == -2
Dropped    == -3

Top == levels[Len(levels)]
Edges == DOMAIN Top.diff
Faces == DOMAIN Top.F2E
Corner == 1 .. 3

IsLeast(x, S) == x \in S /\ \A y \in S : x <= y

(* The two sides of every edge, found face by face.                          *)
Sides(F2E, edges) ==
  [e \in edges |->
     LET uses == {d \in (DOMAIN F2E) \X Corner : F2E[d[1]][d[2]] = e}
         fs == {d[1] : d \in uses}
     IN  <<Min(fs), IF Cardinality(uses) = 1 THEN None ELSE Max(fs)>>]

(* The sum of the differences of a face.                                     *)
Residual(L, f) ==
  LET Term(j) == rshift90(L.diff[L.F2E[f][j]], L.FQ[f][j])
  IN  Plus(Term(1), Plus(Term(2), Term(3)))

(* DownsampleEdgeGraph up to its loop: the first level of a hierarchy.       *)
FirstLevel(F2E, FQ, diff, allow) ==
  LET L == [F2E |-> F2E, FQ |-> FQ, diff |-> diff]
  IN  [F2E |-> F2E, FQ |-> FQ, diff |-> diff, allow |-> allow,
       E2F |-> Sides(F2E, DOMAIN diff),
       sing |-> {f \in DOMAIN F2E : Residual(L, f) # Zero}]

(* The variables of the loop when it comes to a level.                       *)
Fixed(L) == [f \in DOMAIN L.F2E |-> IF f \in L.sing THEN 1 ELSE 0]
Blank(L, x) == [e \in DOMAIN L.diff |-> x]

NoDart == <<None, None>>
NoWalk == [f0 |-> None, f |-> None, paths |-> <<>>]

Init ==
  /\ mesh \in Meshes
  /\ pc = "called"
  /\ levels = <<>> /\ ups = <<>> /\ base = 0
  /\ fixed_faces = <<>> /\ toUpper = <<>> /\ toUpperOrients = <<>> /\ nE2F = <<>>
  /\ walk = NoWalk
  /\ E2E = <<>> /\ flipped = {} /\ update = FALSE /\ max_len = 1
-----------------------------------------------------------------------------
(* The edges that can be contracted, in the order of their numbers; a fixed  *)
(* face stays fixed, so none is passed that could be contracted later.       *)
SidesOf(e) == {Top.E2F[e][1], Top.E2F[e][2]} \ {None}

Contractible(e) ==
  /\ Len(levels) - base < MaxLevels
  /\ Top.diff[e] = Zero
  /\ toUpper[e] = None
  /\ \A f \in SidesOf(e) : fixed_faces[f] = 0

Around(fs) == UNION {SidesOf(Top.F2E[f][j]) : f \in fs, j \in Corner}

Contract ==
  /\ pc = "contract"
  /\ \E e \in Edges :
       /\ Contractible(e) /\ \A d \in Edges : d < e => ~ Contractible(d)
       /\ toUpper' = [toUpper EXCEPT ![e] = Contracted]
       /\ fixed_faces' =
            [f \in Faces |-> IF f \in SidesOf(e) THEN 2
                             ELSE IF f \in Around(SidesOf(e)) /\ fixed_faces[f] = 0 THEN 1
                             ELSE fixed_faces[f]]
  /\ UNCHANGED <<mesh, pc, levels, ups, base, toUpperOrients, nE2F, walk, fixing>>

Crushed(f) == f # None /\ fixed_faces[f] = 2

(* Edges between crushed faces are dropped, those between others kept.       *)
Classify ==
  /\ pc = "contract"
  /\ ~ \E e \in Edges : Contractible(e)
  /\ pc' = "chains"
  /\ \E kept \in {{e \in Edges : toUpper[e] = None /\ ~ \E f \in SidesOf(e) : Crushed(f)}} :
       /\ toUpper' =
            [e \in Edges |-> IF toUpper[e] = Contracted THEN Contracted
                             ELSE IF \A f \in SidesOf(e) : Crushed(f) THEN Dropped
                             ELSE IF e \in kept THEN e
                             ELSE None]
       /\ nE2F' = [e \in kept |-> Top.E2F[e]]
  /\ UNCHANGED <<mesh, levels, ups, base, fixed_faces, toUpperOrients, walk, fixing>>

(* An edge with a crushed face at one side begins a chain at the other side. *)
(* paths has the edges of the chain with their turns to the first one.       *)
StartChain ==
  /\ pc = "chains"
  /\ \E e \in Edges : \E f \in SidesOf(e) :
       /\ IsLeast(e, {d \in Edges : toUpper[d] = None})
       /\ ~ Crushed(f)
       /\ walk' = [f0 |-> f, f |-> f, paths |-> <<<<e, 0>>>>]
  /\ pc' = "follow"
  /\ UNCHANGED <<mesh, levels, ups, base, fixed_faces, toUpper, toUpperOrients, nE2F, fixing>>

(* The face across the last edge of the chain, its corner at that edge, and  *)
(* those through which the chain may go on.                                  *)
Reached == Last(walk.paths)[1]
Across ==
  LET s == Top.E2F[Reached]
  IN  IF s[1] = walk.f THEN s[2] ELSE IF s[2] = walk.f THEN s[1] ELSE walk.f
Entry == Min({j \in Corner : Top.F2E[Across][j] = Reached})
Exits ==
  {j \in Corner : LET e == Top.F2E[Across][j] IN e # Reached /\ toUpper[e] # Contracted}

Cross ==
  /\ pc = "follow"
  /\ Crushed(Across)
  /\ \E k \in Exits :
       /\ IsLeast(k, Exits)
       /\ LET turn == Top.FQ[Across][k] - Top.FQ[Across][Entry] + 6
              next == <<Top.F2E[Across][k], (Last(walk.paths)[2] + turn) % 4>>
          IN  walk' = [f0 |-> walk.f0, f |-> Across, paths |-> Append(walk.paths, next)]
  /\ UNCHANGED <<mesh, pc, levels, ups, base, fixed_faces, toUpper, toUpperOrients, nE2F, fixing>>

(* All edges of the chain become one, between f0 and f; an edge met twice    *)
(* keeps its last turn.                                                      *)
Merge(f, turn) ==
  LET chain == {p[1] : p \in Range(walk.paths)}
      upper == walk.paths[1][1]
      Visit(e) == Max({j \in DOMAIN walk.paths : walk.paths[j][1] = e})
  IN  /\ toUpper' = [e \in Edges |-> IF e \in chain THEN upper ELSE toUpper[e]]
      /\ toUpperOrients' =
           [e \in Edges |-> IF e \in chain THEN turn[Visit(e)] ELSE toUpperOrients[e]]
      /\ nE2F' = [e \in DOMAIN nE2F \union {upper} |->
                    IF e = upper THEN <<walk.f0, f>> ELSE nE2F[e]]

EndChain ==
  /\ pc = "follow"
  /\ ~ Crushed(Across)
  /\ Merge(Across, [j \in DOMAIN walk.paths |-> walk.paths[j][2]])
  /\ pc' = "chains" /\ walk' = NoWalk
  /\ UNCHANGED <<mesh, levels, ups, base, fixed_faces, fixing>>

(* A face whose other edges are one, glued to itself: the chain must be zero *)
(* or the process ends.                                                      *)
DeadEnd ==
  /\ pc = "follow"
  /\ Crushed(Across) /\ Exits = {}
  /\ IF Top.diff[Reached] = Zero
     THEN /\ Merge(walk.f0, [j \in DOMAIN walk.paths |-> 0])
          /\ pc' = "chains" /\ walk' = NoWalk
     ELSE /\ pc' = "exit"     (* "Unsatisfied !!!..." *)
          /\ UNCHANGED <<toUpper, toUpperOrients, nE2F, walk>>
  /\ UNCHANGED <<mesh, levels, ups, base, fixed_faces, fixing>>
-----------------------------------------------------------------------------
(* The next level.  Its differences are those of edges without a turn; its   *)
(* permissions the last that are not 1.                                      *)
UpperEdges == {toUpper[e] : e \in Edges} \ {None, Contracted, Dropped}
Below(u) == {e \in Edges : toUpper[e] = u}
UpperFaces == {f \in Faces : \A j \in Corner : toUpper[Top.F2E[f][j]] \in UpperEdges}

(* Faulty variant: the turn of an edge does not swap its coordinates.        *)
UpperAllowUnturned(u, d) == Min({1} \union {Top.allow[e][d] : e \in Below(u)})

UpperAllow(u, d) ==
  LET At(e) == IF toUpperOrients[e] % 2 = 0 THEN d ELSE 3 - d
      decided == {e \in Below(u) : Top.allow[e][At(e)] # 1}
  IN  IF decided = {} THEN 1 ELSE Top.allow[Max(decided)][At(Max(decided))]

(* Faulty variant: any edge of the chain.                                    *)
UpperDiffTurned(u) == Top.diff[Max(Below(u))]

UpperDiff(u) == Top.diff[Max({e \in Below(u) : toUpperOrients[e] = 0})]

UpperLevel ==
  [F2E   |-> [f \in UpperFaces |-> [j \in Corner |-> toUpper[Top.F2E[f][j]]]],
   FQ    |-> [f \in UpperFaces |->
                [j \in Corner |-> (Top.FQ[f][j] + 4 - toUpperOrients[Top.F2E[f][j]]) % 4]],
   E2F   |-> [u \in UpperEdges |->
                [s \in 1 .. 2 |-> IF nE2F[u][s] \in UpperFaces THEN nE2F[u][s] ELSE None]],
   diff  |-> [u \in UpperEdges |-> UpperDiff(u)],
   allow |-> [u \in UpperEdges |-> <<UpperAllow(u, 1), UpperAllow(u, 2)>>],
   sing  |-> Top.sing \intersect UpperFaces]

Prepare(L) ==
  /\ fixed_faces' = Fixed(L)
  /\ toUpper' = Blank(L, None)
  /\ toUpperOrients' = Blank(L, 0)
  /\ nE2F' = [e \in {} |-> <<None, None>>]
  /\ walk' = NoWalk

Begin ==
  /\ pc = "called"
  /\ pc' = "contract"
  /\ \E L \in {FirstLevel(mesh.F2E, mesh.FQ, mesh.diff, mesh.allow)} :
       levels' = <<L>> /\ Prepare(L)
  /\ UNCHANGED <<mesh, ups, base, fixing>>

Area(L, f) ==
  LET d1 == rshift90(L.diff[L.F2E[f][1]], L.FQ[f][1])
      d2 == rshift90(L.diff[L.F2E[f][2]], L.FQ[f][2])
  IN  d1[1] * d2[2] - d1[2] * d2[1]

Flips(L) == {f \in DOMAIN L.F2E : Area(L, f) < 0}

(* FixFlip.  A directed edge is <<face, corner>>; E2E pairs those of the two *)
(* sides of an edge, the first corner of one with the last of the other.     *)
Next3(d) == <<d[1], (d[2] % 3) + 1>>
Opposite(L, d) ==
  LET e == L.F2E[d[1]][d[2]]
      At(f) == {j \in Corner : L.F2E[f][j] = e}
      s == L.E2F[e]
      first == <<s[1], Min(At(s[1]))>>
      last == <<s[2], Max(At(s[2]))>>
  IN  IF None \in {s[1], s[2]} THEN NoDart
      ELSE IF d = first THEN last
      ELSE IF d = last THEN first
      ELSE NoDart

(* The level without any merged edge is thrown away, and FixFlip begins.     *)
Lift ==
  /\ pc = "chains"
  /\ \A e \in Edges : toUpper[e] # None
  /\ IF Cardinality(UpperEdges) = Cardinality(Edges)
     THEN /\ pc' = "fix"
          /\ flipped' = Flips(Top)
          /\ update' = FALSE
          /\ max_len' = 1
          /\ E2E' = [d \in Faces \X Corner |-> Opposite(Top, d)]
          /\ Prepare(Top)
          /\ UNCHANGED <<levels, ups>>
     ELSE /\ pc' = "contract"
          /\ \E L \in {UpperLevel} : levels' = Append(levels, L) /\ Prepare(L)
          /\ ups' = Append(ups, [edge |-> toUpper, orient |-> toUpperOrients])
          /\ UNCHANGED fixing
  /\ UNCHANGED <<mesh, base>>
-----------------------------------------------------------------------------
Dart == Faces \X Corner
Edge(d) == Top.F2E[d[1]][d[2]]
Turns(d) == Top.FQ[d[1]][d[2]]

(* The edges around the vertex at which first begins, each with by how much  *)
(* its difference must change when first shrinks to zero, up to first again  *)
(* or to the boundary; there are no more of them than directed edges.        *)
NextInFan(x) ==
  LET t == E2E[x[1]]
      n == Next3(t)
      turned == rshift90(x[2], Turns(t))
  IN  IF t = NoDart THEN <<NoDart, Zero>>
      ELSE <<n, rshift90(<<-turned[1], -turned[2]>>, (4 - Turns(n)) % 4)>>

Fan(first) ==
  LET From[w \in Seq(Dart \X (Int \X Int)) \ {<<>>}] ==
        LET y == NextInFan(Last(w))
        IN  IF y[1] \in {NoDart, first} \/ Len(w) >= Cardinality(Dart) THEN Append(w, y)
            ELSE From[Append(w, y)]
  IN  From[<<<<first, Top.diff[Edge(first)]>>>>]

(* Faulty variant: an edge met twice is changed once.                        *)
AfterLast(fan, i) == Minus(Top.diff[Edge(fan[i][1])], fan[i][2])

(* The difference of the i-th edge after the first i changes.                *)
After(fan, i) ==
  LET e == Edge(fan[i][1])
      changed[k \in 0 .. i] ==
        IF k = 0 THEN Top.diff[e]
        ELSE IF Edge(fan[k][1]) = e THEN Minus(changed[k - 1], fan[k][2]) ELSE changed[k - 1]
  IN  changed[i]

Shrunk(fan) ==
  LET n == Len(fan) - 1
      moved == {Edge(fan[i][1]) : i \in 1 .. n}
      Visit(e) == Max({i \in 1 .. n : Edge(fan[i][1]) = e})
  IN  [Top EXCEPT !.diff = [e \in Edges |-> IF e \in moved THEN After(fan, Visit(e)) ELSE @[e]]]

FlipsAround(L, fan) == Cardinality({i \in 1 .. (Len(fan) - 1) : Area(L, fan[i][1][1]) < 0})

Abs(x) == IF x < 0 THEN -x ELSE x

(* No edge gets longer than allowed_edge_length, and none longer than one is *)
(* oblique.                                                                  *)
ShortEnough(d, allowed_edge_length) ==
  /\ Abs(d[1]) <= allowed_edge_length /\ Abs(d[2]) <= allowed_edge_length
  /\ ~ (Abs(d[1]) > 1 /\ d[2] # 0)
  /\ ~ (Abs(d[2]) > 1 /\ d[1] # 0)

RemovesFlips(fan) == FlipsAround(Shrunk(fan), fan) < FlipsAround(Top, fan)

CheckShrink(d, allowed_edge_length) ==
  /\ d # NoDart
  /\ \E fan \in {Fan(d)} :
       /\ fan[Len(fan)] = fan[1]
       /\ \A i \in 1 .. (Len(fan) - 1) :
            /\ \A k \in 1 .. 2 : fan[i][2][k] # 0 => Top.allow[Edge(fan[i][1])][k] # 0
            /\ ShortEnough(After(fan, i), allowed_edge_length)
       /\ RemovesFlips(fan)

(* The directed edges tried for a flipped face, in their order.              *)
Tried(f) ==
  <<<<f, 1>>, E2E[<<f, 1>>], <<f, 2>>, E2E[<<f, 2>>], <<f, 3>>, E2E[<<f, 3>>]>>

FixFace ==
  /\ pc = "fix"
  /\ \E f \in flipped :
       /\ IsLeast(f, flipped)
       /\ flipped' = flipped \ {f}
       /\ IF Area(Top, f) >= 0
          THEN UNCHANGED <<levels, update>>
          ELSE \E tried \in {Tried(f)} :
                 \E works \in {{i \in 1 .. 6 : CheckShrink(tried[i], max_len)}} :
                   IF works = {}
                   THEN UNCHANGED <<levels, update>>
                   ELSE /\ levels' =
                             [levels EXCEPT ![Len(levels)] = Shrunk(Fan(tried[Min(works)]))]
                        /\ update' = TRUE
  /\ UNCHANGED <<mesh, pc, ups, base, building, E2E, max_len>>

(* The loop is entered again without an update, but with an empty queue.     *)
NextLength ==
  /\ pc = "fix" /\ flipped = {}
  /\ ~ update /\ max_len <= 2
  /\ max_len' = max_len + 1
  /\ UNCHANGED <<mesh, pc, levels, ups, base, building, E2E, flipped, update>>

(* FixFlip of a new hierarchy above the last level.                          *)
Recurse ==
  /\ pc = "fix" /\ flipped = {} /\ update
  /\ \E L \in {FirstLevel(Top.F2E, Top.FQ, Top.diff, Top.allow)} :
       /\ levels' = [levels EXCEPT ![Len(levels)] = L]
       /\ Prepare(L)
  /\ base' = Len(levels) - 1
  /\ pc' = "contract"
  /\ UNCHANGED <<mesh, ups, fixing>>

GiveUp ==
  /\ pc = "fix" /\ flipped = {} /\ ~ update /\ max_len > 2
  /\ pc' = "propagate"
  /\ UNCHANGED <<mesh, levels, ups, base, building, fixing>>

(* PropagateEdge, from the last hierarchy to the first.                      *)
Lowered(upper, L, up) ==
  [L EXCEPT
     !.diff = [e \in DOMAIN L.diff |->
                 IF up.edge[e] \in DOMAIN upper.diff
                 THEN rshift90(upper.diff[up.edge[e]], (4 - up.orient[e]) % 4)
                 ELSE Zero],
     !.FQ = [f \in DOMAIN L.F2E |->
               IF f \in DOMAIN upper.F2E
               THEN [j \in Corner |-> (upper.FQ[f][j] + up.orient[L.F2E[f][j]]) % 4]
               ELSE L.FQ[f]]]

PropagateEdge ==
  /\ pc = "propagate"
  /\ IF Len(levels) = 1
     THEN /\ pc' = "done"
          /\ UNCHANGED <<levels, ups>>
     ELSE \E n \in {Len(levels) - 1} :
            /\ levels' = [k \in 1 .. n |->
                            IF k = n THEN Lowered(levels[n + 1], levels[n], ups[n]) ELSE levels[k]]
            /\ ups' = SubSeq(ups, 1, n - 1)
            /\ UNCHANGED pc
  /\ UNCHANGED <<mesh, base, building, fixing>>

Next ==
  \/ Begin \/ Contract \/ Classify \/ StartChain \/ Cross \/ EndChain \/ DeadEnd \/ Lift
  \/ FixFace \/ NextLength \/ Recurse \/ GiveUp \/ PropagateEdge

(* One thread.                                                               *)
Spec == Init /\ [][Next]_vars /\ WF_vars(Next)
-----------------------------------------------------------------------------
(* Contracting loses nothing: what the new level holds determines the        *)
(* differences and the turns of the level below.  The exception is a crushed *)
(* piece without any way up, which is lost as a whole.                       *)
DifferencesSurvive ==
  pc = "contract" /\ Len(levels) - base > 1 =>
    LET n == Len(levels)
        below == levels[n - 1]
        up == ups[n - 1]
        L == Lowered(levels[n], below, up)
        LeadsUp(f) == \E j \in Corner : up.edge[below.F2E[f][j]] >= 0
    IN  /\ \A e \in DOMAIN below.diff :
             \/ L.diff[e] = below.diff[e]
             \/ \A f \in {below.E2F[e][1], below.E2F[e][2]} \ {None} : ~ LeadsUp(f)
        /\ L.FQ = below.FQ

(* Moving vertices keeps the equations: a face closed before is closed after *)
(* FixFlip, and the others are as open as they were.                         *)
EquationsAreKept ==
  pc = "done" => \A f \in DOMAIN mesh.F2E : Residual(Top, f) = Residual(mesh, f)

(* In the end no boundary edge has moved, though after the flow no permission*)
(* says so any more, and no coordinate that may not change; only what was    *)
(* lost with a piece is zero.                                                *)
BoundaryStays ==
  pc = "done" =>
    \A e \in DOMAIN mesh.diff : \A k \in 1 .. 2 :
      Top.E2F[e][2] = None \/ mesh.allow[e][k] = 0 =>
        Top.diff[e][k] = mesh.diff[e][k] \/ Top.diff[e] = Zero

(* Flips are never added: not by contracting, moving, or propagating.        *)
FlipsNeverIncrease ==
  [][levels # <<>> /\ levels' # levels =>
       \A L \in {Top}, M \in {Top'} : Cardinality(Flips(M)) <= Cardinality(Flips(L))]_vars

Termination == <>(pc = "done")
=============================================================================
