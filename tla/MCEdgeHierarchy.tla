-------------------------- MODULE MCEdgeHierarchy --------------------------
EXTENDS IndexMap

(* A mesh from its triangles (vertices in order), the positions of the       *)
(* vertices, and the frames: every face and every edge has its own.          *)
Pairs(tris) == {{t[j], t[(j % 3) + 1]} : t \in Range(tris), j \in Corner}

Ascending(S) ==
  [k \in 1 .. Cardinality(S) |-> CHOOSE x \in S : Cardinality({y \in S : y < x}) = k - 1]

Numbered(tris) ==
  LET codes == Ascending({10 * Min(p) + Max(p) : p \in Pairs(tris)})
  IN  [e \in DOMAIN codes |-> {codes[e] \div 10, codes[e] % 10}]

Mesh(tris, edges, pos, FaceTurn(_), EdgeTurn(_), frozen) ==
  LET Number(v, w) == CHOOSE e \in DOMAIN edges : edges[e] = {v, w}
  IN  [F2E |-> [f \in DOMAIN tris |->
                  [j \in Corner |-> Number(tris[f][j], tris[f][(j % 3) + 1])]],
       FQ |-> [f \in DOMAIN tris |->
                 [j \in Corner |->
                    LET v == tris[f][j]
                        w == tris[f][(j % 3) + 1]
                        back == IF v < w THEN 0 ELSE 2
                    IN  (back + FaceTurn(f) + 4 - EdgeTurn(Number(v, w))) % 4]],
       diff |-> [e \in DOMAIN edges |->
                   LET v == Min(edges[e])
                       w == Max(edges[e])
                   IN  rshift90(Minus(pos[w], pos[v]), EdgeTurn(e))],
       allow |-> [e \in DOMAIN edges |->
                    [k \in 1 .. 2 |-> IF <<e, k>> \in frozen THEN 0 ELSE 1]]]

Short(m) == \A e \in DOMAIN m.diff : \A k \in 1 .. 2 : m.diff[e][k] \in -1 .. 1

(* A difference that the flow has left wrong opens the faces of its edge.    *)
Opened(m, e, d) == [m EXCEPT !.diff[e] = d]

(* Rim 1..4 at the corners of a square, 5 and 6 inside.                      *)
Inner2 == <<<<1, 2, 5>>, <<2, 3, 5>>, <<3, 6, 5>>, <<3, 4, 6>>, <<4, 1, 6>>, <<1, 5, 6>>>>
(* Rim 1..4, inside it a face 5, 6, 7.                                       *)
Inner3 == <<<<1, 2, 5>>, <<2, 3, 6>>, <<3, 4, 7>>, <<4, 1, 5>>, <<5, 2, 6>>, <<6, 3, 7>>, <<7, 4, 5>>, <<5, 6, 7>>>>
(* A vertex of three faces inside: two contractions leave a face glued to    *)
(* itself.                                                                   *)
Glued == <<<<2, 4, 5>>, <<1, 3, 4>>, <<2, 5, 3>>, <<5, 4, 3>>>>
GluedOpen == <<<<2, 4, 1>>, <<3, 2, 1>>, <<4, 5, 6>>, <<6, 5, 3>>, <<6, 3, 4>>, <<2, 3, 5>>, <<1, 4, 3>>>>
(* Contractions leave edges with both ends at one vertex.                    *)
Loops == <<<<6, 5, 3>>, <<1, 5, 6>>, <<2, 1, 6>>, <<3, 4, 1>>, <<4, 3, 5>>, <<2, 6, 3>>, <<5, 1, 4>>>>

(* An edge that may not change becomes part of a turned chain.               *)
Turned == <<<<5, 4, 1>>, <<1, 2, 5>>, <<2, 1, 6>>, <<4, 6, 1>>, <<5, 6, 4>>, <<3, 5, 2>>>>

Grid == (0 .. 1) \X (0 .. 1)
Square == <<<<0, 0>>, <<1, 0>>, <<1, 1>>, <<0, 1>>>>

Placed(tris, positions, turns, frozen) ==
  {m \in {Mesh(tris, Numbered(tris), p, LAMBDA f : ((f - 1) * t[1]) % 4,
         LAMBDA e : ((e - 1) * t[2]) % 4, frozen) :
            p \in positions, t \in turns} : Short(m)}

Around4(n) == {Square \o p : p \in [1 .. n -> Grid]}

MCMeshes ==
  Placed(Inner2, Around4(2), {<<0, 0>>, <<1, 3>>}, {}) \union
  Placed(Inner2, Around4(2), {<<1, 0>>}, {<<5, 1>>, <<8, 2>>}) \union
  Placed(Inner3, Around4(3), {<<1, 3>>}, {}) \union
  Placed(Glued, {<<<<1, 1>>, p, <<0, 0>>, q, <<0, 0>>>> : p \in Grid, q \in Grid}, {<<0, 0>>, <<1, 3>>}, {}) \union
  Placed(Turned, {<<<<0, 0>>, <<0, 1>>, <<1, 0>>, <<1, 1>>, p, q>> : p \in Grid, q \in Grid},
         {<<0, 3>>}, {<<3, 2>>}) \union
  {Opened(m, 4, d) : d \in {<<1, 1>>, <<0, 1>>},
     m \in Placed(GluedOpen, {<<<<1, 1>>, <<0, 0>>, <<0, 1>>, <<0, 0>>, p, q>> : p \in Grid, q \in Grid},
                  {<<0, 0>>}, {})} \union
  {Opened(m, 4, d) : d \in {<<0, -1>>, <<1, 0>>},
     m \in Placed(Loops, {<<<<1, 1>>, <<1, 1>>, <<1, 1>>, p, q, <<0, 1>>>> : p \in Grid, q \in Grid},
                  {<<0, 0>>}, {})}
-----------------------------------------------------------------------------
(* Surfaces before their subdivision: triangles, the frames of the vertices, *)
(* the turn of the space of each face, and the differences.  Those that are  *)
(* not chosen close the equation of their face.                              *)
Opposites(tris) ==
  LET darts == (DOMAIN tris) \X Corner
      Head1(x) == tris[x[1]][x[2]]
      Tail1(x) == tris[x[1]][(x[2] % 3) + 1]
  IN [x \in darts |->
        LET across == {y \in darts : Head1(y) = Tail1(x) /\ Tail1(y) = Head1(x)}
        IN IF across = {} THEN NoDart ELSE CHOOSE y \in across : TRUE]

Lay(ids, turns, choice) ==
  LET Step(known, f) ==
        LET unknown == {j \in Corner : ids[f][j] \notin DOMAIN known}
            last == Max(unknown)
            Of(j) == IF j \in unknown THEN choice[ids[f][j]]
                     ELSE rshift90(known[ids[f][j]], turns[f][j])
            closing == Minus(Zero, FoldSet(LAMBDA j, d : Plus(Of(j), d), Zero, Corner \ {last}))
            New(j) == rshift90(IF j = last THEN closing ELSE Of(j), (4 - turns[f][j]) % 4)
        IN IF unknown = {} THEN known
           ELSE [e \in DOMAIN known \union {ids[f][j] : j \in unknown} |->
                   IF e \in DOMAIN known THEN known[e]
                   ELSE New(CHOOSE j \in unknown : ids[f][j] = e)]
  IN FoldLeft(Step, [e \in {} |-> Zero], [f \in DOMAIN ids |-> f])

SurfaceOf(tris, frames, spaces, choice) ==
  LET opposite == Opposites(tris)
      darts == DOMAIN opposite
      First(x) == IF opposite[x] # NoDart /\ Before(opposite[x], x) THEN opposite[x] ELSE x
      firsts == {x \in darts : First(x) = x}
      Number(x) == Cardinality({y \in firsts : ~ Before(First(x), y)})
      ids == [f \in DOMAIN tris |-> [j \in Corner |-> Number(<<f, j>>)]]
      turns == [f \in DOMAIN tris |-> [j \in Corner |->
                  LET v == tris[f][j]
                      w == tris[f][(j % 3) + 1]
                      back == IF v < w THEN 0 ELSE 2
                  IN (spaces[f] + back + 4 + compat_orientation(frames[Min({v, w})], frames[tris[f][1]])) % 4]]
  IN [F |-> tris, mE2E |-> opposite, Q |-> frames,
      edge_values |-> [e \in 1 .. Cardinality(firsts) |->
                         LET x == CHOOSE x \in firsts : Number(x) = e
                         IN {tris[x[1]][x[2]], tris[x[1]][(x[2] % 3) + 1]}],
      face_edgeIds |-> ids, face_edgeOrients |-> turns,
      edge_diff |-> Lay(ids, turns, choice)]

Lone == {<<<<1, 2, 3>>>>, <<<<3, 1, 2>>>>}
Pair == {<<<<a, b, c>>, <<b, a, d>>>> : <<a, b, c, d>> \in
           {<<1, 2, 3, 4>>, <<2, 1, 3, 4>>, <<4, 1, 2, 3>>, <<3, 4, 1, 2>>}}

Pillow == {<<<<1, 2, 3>>, <<2, 1, 3>>>>, <<<<2, 3, 1>>, <<1, 3, 2>>>>}

MCSurfaces ==
  {SurfaceOf(t, q, <<0>>, <<<<2, 0>>, e, Zero>>) :
     t \in Lone, q \in {<<0, 4, 8>>, <<1, 0, 11>>}, e \in {<<0, 1>>, <<-1, 1>>}} \union
  {SurfaceOf(<<<<1, 2, 3>>>>, <<1, 0, 11>>, <<0>>, <<<<0, 2>>, <<2, -1>>, Zero>>)} \union
  {SurfaceOf(t, <<0, q, 8, 4>>, <<0, s>>, <<<<2, 0>>, <<0, 1>>, Zero, <<-1, 1>>, Zero>>) :
     t \in Pair, q \in {1, 4}, s \in {0, 3}} \union
  {SurfaceOf(t, <<0, 4, 8>>, <<0, 0>>, <<<<2, 0>>, e, Zero>>) :
     t \in Pillow, e \in {<<-1, 1>>, <<-1, 0>>, <<0, -1>>}}
=============================================================================
