------------------------ MODULE EdgeHierarchyProofs ------------------------
(***************************************************************************)
(* Proofs about EdgeHierarchy, for every surface: contracting edges loses  *)
(* no difference and no turn.                                              *)
(***************************************************************************)
EXTENDS EdgeHierarchy, RecursionTheorems, FiniteSetTheorems, TLAPS

Vec == Int \X Int

-----------------------------------------------------------------------------
(***************************************************************************)
(* Quarter turns.                                                          *)
(***************************************************************************)
LEMMA Turned ==
  ASSUME NEW d \in Vec
  PROVE  /\ rshift90(d, 0) = d /\ rshift90(d, 1) = <<-d[2], d[1]>>
         /\ rshift90(d, 2) = <<-d[1], -d[2]>> /\ rshift90(d, 3) = <<d[2], -d[1]>>
         /\ d[1] \in Int /\ d[2] \in Int /\ d = <<d[1], d[2]>>
  <1>1. d[1] \in Int /\ d[2] \in Int /\ d = <<d[1], d[2]>>
    BY DEF Vec
  <1>2. rshift90(d, 0) = d
    BY <1>1 DEF rshift90
  <1>3. rshift90(d, 1) = <<-d[2], d[1]>>
    BY <1>1 DEF rshift90
  <1>4. rshift90(d, 2) = <<-d[1], -d[2]>>
    BY <1>1 DEF rshift90
  <1>5. rshift90(d, 3) = <<d[2], -d[1]>>
    BY <1>1 DEF rshift90
  <1> QED
    BY <1>1, <1>2, <1>3, <1>4, <1>5

LEMMA TurnType ==
  ASSUME NEW d \in Vec, NEW a \in 0 .. 3
  PROVE  rshift90(d, a) \in Vec
  <1>1. PICK x \in Int, y \in Int : d = <<x, y>>
    BY DEF Vec
  <1>2. -x \in Int /\ -y \in Int
    BY <1>1
  <1>3. /\ rshift90(d, 0) = <<x, y>> /\ rshift90(d, 1) = <<-y, x>>
        /\ rshift90(d, 2) = <<-x, -y>> /\ rshift90(d, 3) = <<y, -x>>
    BY <1>1, Turned
  <1>4. /\ rshift90(d, 0) \in Vec /\ rshift90(d, 1) \in Vec
        /\ rshift90(d, 2) \in Vec /\ rshift90(d, 3) \in Vec
    BY ONLY <1>1, <1>2, <1>3 DEF Vec
  <1>5. a \in {0, 1, 2, 3}
    OBVIOUS
  <1> QED
    BY ONLY <1>4, <1>5

LEMMA Opposed == \A m, n \in Int : m + n = 0 => m = -n
  OBVIOUS

LEMMA ZeroTurned == ASSUME NEW a \in 0 .. 3 PROVE rshift90(Zero, a) = Zero /\ Zero \in Vec
  <1>1. a \in {0, 1, 2, 3} /\ Zero \in Vec /\ Zero[1] = 0 /\ Zero[2] = 0
    BY DEF Vec, Zero
  <1>2. 0 + 0 = 0 /\ 0 \in Int
    OBVIOUS
  <1>3. -Zero[1] = 0 /\ -Zero[2] = 0
    BY <1>1, <1>2, Opposed, Zenon
  <1>4. /\ rshift90(Zero, 0) = Zero /\ rshift90(Zero, 1) = <<0, 0>>
        /\ rshift90(Zero, 2) = <<0, 0>> /\ rshift90(Zero, 3) = <<0, 0>>
    <2>1. /\ rshift90(Zero, 0) = Zero /\ rshift90(Zero, 1) = <<-Zero[2], Zero[1]>>
          /\ rshift90(Zero, 2) = <<-Zero[1], -Zero[2]>> /\ rshift90(Zero, 3) = <<Zero[2], -Zero[1]>>
      BY <1>1, Turned
    <2> QED
      BY ONLY <1>1, <1>3, <2>1, Zenon
  <1> QED
    BY ONLY <1>1, <1>4 DEF Zero

(* Turning twice.                                                            *)
LEMMA TurnTwice ==
  ASSUME NEW d \in Vec, NEW a \in 0 .. 3, NEW b \in 0 .. 3
  PROVE  rshift90(rshift90(d, a), b) = rshift90(d, (a + b) % 4)
  <1>0. a \in {0, 1, 2, 3} /\ b \in {0, 1, 2, 3}
    OBVIOUS
  <1>1. PICK x \in Int, y \in Int : d = <<x, y>>
    BY DEF Vec
  <1>2. /\ rshift90(<<x, y>>, 0) = <<x, y>> /\ rshift90(<<x, y>>, 1) = <<-y, x>>
        /\ rshift90(<<x, y>>, 2) = <<-x, -y>> /\ rshift90(<<x, y>>, 3) = <<y, -x>>
    BY <1>1, Turned
  <1>3. /\ rshift90(<<-y, x>>, 0) = <<-y, x>> /\ rshift90(<<-y, x>>, 1) = <<-x, -y>>
        /\ rshift90(<<-y, x>>, 2) = <<y, -x>> /\ rshift90(<<-y, x>>, 3) = <<x, y>>
    <2>1. <<-y, x>> \in Vec /\ -(-y) = y
      BY DEF Vec
    <2> QED
      BY <2>1, Turned
  <1>4. /\ rshift90(<<-x, -y>>, 0) = <<-x, -y>> /\ rshift90(<<-x, -y>>, 1) = <<y, -x>>
        /\ rshift90(<<-x, -y>>, 2) = <<x, y>> /\ rshift90(<<-x, -y>>, 3) = <<-y, x>>
    <2>1. <<-x, -y>> \in Vec /\ -(-y) = y /\ -(-x) = x
      BY DEF Vec
    <2> QED
      BY <2>1, Turned
  <1>5. /\ rshift90(<<y, -x>>, 0) = <<y, -x>> /\ rshift90(<<y, -x>>, 1) = <<x, y>>
        /\ rshift90(<<y, -x>>, 2) = <<-y, x>> /\ rshift90(<<y, -x>>, 3) = <<-x, -y>>
    <2>1. <<y, -x>> \in Vec /\ -(-x) = x
      BY DEF Vec
    <2> QED
      BY <2>1, Turned
  <1>6. /\ (0 + 0) % 4 = 0 /\ (0 + 1) % 4 = 1 /\ (0 + 2) % 4 = 2 /\ (0 + 3) % 4 = 3
        /\ (1 + 0) % 4 = 1 /\ (1 + 1) % 4 = 2 /\ (1 + 2) % 4 = 3 /\ (1 + 3) % 4 = 0
        /\ (2 + 0) % 4 = 2 /\ (2 + 1) % 4 = 3 /\ (2 + 2) % 4 = 0 /\ (2 + 3) % 4 = 1
        /\ (3 + 0) % 4 = 3 /\ (3 + 1) % 4 = 0 /\ (3 + 2) % 4 = 1 /\ (3 + 3) % 4 = 2
    OBVIOUS
  <1>7. CASE a = 0
    BY ONLY <1>7, <1>0, <1>1, <1>2, <1>6
  <1>8. CASE a = 1
    BY ONLY <1>8, <1>0, <1>1, <1>2, <1>3, <1>6
  <1>9. CASE a = 2
    BY ONLY <1>9, <1>0, <1>1, <1>2, <1>4, <1>6
  <1>10. CASE a = 3
    BY ONLY <1>10, <1>0, <1>1, <1>2, <1>5, <1>6
  <1> QED
    BY <1>0, <1>7, <1>8, <1>9, <1>10

(* What is turned comes back.                                                *)
LEMMA TurnBack ==
  ASSUME NEW d \in Vec, NEW a \in 0 .. 3
  PROVE  /\ (4 - a) % 4 \in 0 .. 3
         /\ rshift90(rshift90(d, a), (4 - a) % 4) = d
  <1>1. (4 - a) % 4 \in 0 .. 3 /\ (a + ((4 - a) % 4)) % 4 = 0
    OBVIOUS
  <1> QED
    BY <1>1, TurnTwice, Turned

(* Two differences that close a face are turns of each other.                *)
LEMMA TurnAcross ==
  ASSUME NEW d \in Vec, NEW e \in Vec, NEW x \in 0 .. 3, NEW y \in 0 .. 3,
         Plus(rshift90(d, x), rshift90(e, y)) = Zero
  PROVE  d = rshift90(e, (y - x + 6) % 4)
  <1>1. /\ rshift90(d, x) \in Vec /\ rshift90(e, y) \in Vec /\ 2 \in 0 .. 3 /\ (4 - x) % 4 \in 0 .. 3
        /\ (y + 2) % 4 \in 0 .. 3 /\ (((y + 2) % 4) + ((4 - x) % 4)) % 4 = (y - x + 6) % 4
    BY TurnType
  <1>2. rshift90(d, x) = rshift90(rshift90(e, y), 2)
    <2> SUFFICES ASSUME NEW v \in Vec, NEW w \in Vec, Plus(v, w) = Zero
                 PROVE  v = rshift90(w, 2)
      BY <1>1
    <2>1. v[1] + w[1] = 0 /\ v[2] + w[2] = 0
      BY DEF Plus, Zero
    <2>2. /\ v[1] \in Int /\ v[2] \in Int /\ w[1] \in Int /\ w[2] \in Int
          /\ v = <<v[1], v[2]>> /\ rshift90(w, 2) = <<-w[1], -w[2]>>
      BY Turned
    <2>3. v[1] = -w[1] /\ v[2] = -w[2]
      BY <2>1, <2>2, Opposed, Zenon
    <2> QED
      BY ONLY <2>2, <2>3
  <1>3. rshift90(d, x) = rshift90(e, (y + 2) % 4)
    BY <1>1, <1>2, TurnTwice
  <1>4. rshift90(rshift90(d, x), (4 - x) % 4) = d
    BY TurnBack
  <1> QED
    BY <1>1, <1>3, <1>4, TurnTwice

-----------------------------------------------------------------------------
(***************************************************************************)
(* Least and greatest elements.                                            *)
(***************************************************************************)
LEMMA MinIn ==
  ASSUME NEW S \in SUBSET Nat, S # {}
  PROVE  Min(S) \in S
  <1>1. \E x \in S : \A y \in S : x <= y
    BY LeastNatural
  <1> QED
    BY <1>1 DEF Min

LEMMA MaxIn ==
  ASSUME NEW n \in Nat, NEW S \in SUBSET (1 .. n), S # {}
  PROVE  Max(S) \in S
  <1> DEFINE T == {n - x : x \in S}
  <1>0. \A x \in S : n - x \in Nat
    OBVIOUS
  <1>1. T \in SUBSET Nat /\ T # {}
    BY ONLY <1>0, S # {}
  <1>2. PICK m \in T : \A k \in T : m <= k
    <2> HIDE DEF T
    <2> QED
      BY <1>1, LeastNatural
  <1>3. PICK x \in S : m = n - x
    BY <1>2
  <1>4. \A y \in S : x >= y
    <2> SUFFICES ASSUME NEW y \in S PROVE x >= y
      OBVIOUS
    <2>1. n - y \in T
      OBVIOUS
    <2>2. n - x <= n - y /\ x \in Int /\ y \in Int
      BY <1>2, <1>3, <2>1
    <2> QED
      BY <2>2
  <1>5. \E z \in S : \A y \in S : z >= y
    BY <1>4
  <1> QED
    BY <1>5 DEF Max

-----------------------------------------------------------------------------
(***************************************************************************)
(* Levels.  An edge is on the faces that are its sides, at one corner of   *)
(* each unless both sides are the same face.  A face that is not singular  *)
(* is closed.                                                              *)
(***************************************************************************)
Bounded(S) == \E n \in Nat : S \subseteq 1 .. n

Graph(L) ==
  /\ {"diff", "FQ"} \subseteq DOMAIN L
  /\ Bounded(DOMAIN L.diff) /\ Bounded(DOMAIN L.F2E)
  /\ L.F2E \in [DOMAIN L.F2E -> [Corner -> DOMAIN L.diff]]
  /\ L.FQ \in [DOMAIN L.F2E -> [Corner -> 0 .. 3]]
  /\ L.diff \in [DOMAIN L.diff -> Vec]
  /\ L.allow \in [DOMAIN L.diff -> [1 .. 2 -> {0, 1}]]

SidesIn(L, e) == {L.E2F[e][1], L.E2F[e][2]} \ {None}

Sided(L) ==
  /\ L.E2F \in [DOMAIN L.diff -> [1 .. 2 -> DOMAIN L.F2E \union {None}]]
  /\ \A f \in DOMAIN L.F2E : \A j \in Corner : f \in SidesIn(L, L.F2E[f][j])
  /\ \A e \in DOMAIN L.diff :
       /\ L.E2F[e][1] # None
       /\ \A f \in SidesIn(L, e) : \E j \in Corner : L.F2E[f][j] = e
       /\ L.E2F[e][1] # L.E2F[e][2] =>
            \A f \in DOMAIN L.F2E : \A j, k \in Corner :
              L.F2E[f][j] = e /\ L.F2E[f][k] = e => j = k

Closed(L) == \A f \in DOMAIN L.F2E \ L.sing : Residual(L, f) = Zero

Level(L) == Graph(L) /\ Sided(L)

LEMMA GraphFacts ==
  ASSUME NEW L, Graph(L)
  PROVE  /\ DOMAIN L.diff \subseteq Nat \ {0} /\ DOMAIN L.F2E \subseteq Nat \ {0}
         /\ None \notin DOMAIN L.F2E /\ None \notin DOMAIN L.diff
         /\ Contracted \notin DOMAIN L.diff /\ Dropped \notin DOMAIN L.diff
         /\ None # Contracted /\ None # Dropped /\ Contracted # Dropped
         /\ \A f \in DOMAIN L.F2E : \A j \in Corner :
              L.F2E[f][j] \in DOMAIN L.diff /\ L.FQ[f][j] \in 0 .. 3
         /\ \A e \in DOMAIN L.diff : L.diff[e] \in Vec
  <1>1. DOMAIN L.diff \subseteq Nat \ {0} /\ DOMAIN L.F2E \subseteq Nat \ {0}
    BY DEF Graph, Bounded
  <1>2. \A x \in Nat \ {0} : x # -1 /\ x # -2 /\ x # -3
    OBVIOUS
  <1>3. -1 # -2 /\ -1 # -3 /\ -2 # -3
    OBVIOUS
  <1> QED
    BY <1>1, <1>2, <1>3 DEF Graph, None, Contracted, Dropped

LEMMA SideFacts ==
  ASSUME NEW L, Level(L)
  PROVE  /\ \A e \in DOMAIN L.diff :
              /\ SidesIn(L, e) \subseteq DOMAIN L.F2E /\ L.E2F[e][1] \in SidesIn(L, e)
              /\ \A f \in SidesIn(L, e) : \E j \in Corner : L.F2E[f][j] = e
              /\ L.E2F[e][2] # None => L.E2F[e][2] \in SidesIn(L, e)
         /\ \A f \in DOMAIN L.F2E : \A j \in Corner : f \in SidesIn(L, L.F2E[f][j])
  <1>1. /\ \A f \in DOMAIN L.F2E : \A j \in Corner : f \in SidesIn(L, L.F2E[f][j])
        /\ \A e \in DOMAIN L.diff :
             /\ L.E2F[e][1] # None
             /\ \A f \in SidesIn(L, e) : \E j \in Corner : L.F2E[f][j] = e
    BY DEF Level, Sided
  <1>2. ASSUME NEW e \in DOMAIN L.diff
        PROVE  L.E2F[e][1] \in DOMAIN L.F2E \union {None} /\ L.E2F[e][2] \in DOMAIN L.F2E \union {None}
    <2>1. L.E2F[e] \in [1 .. 2 -> DOMAIN L.F2E \union {None}]
      BY DEF Level, Sided
    <2> QED
      BY <2>1
  <1> QED
    BY <1>1, <1>2 DEF SidesIn

-----------------------------------------------------------------------------
(***************************************************************************)
(* Building a level: fx is fixed_faces, up is toUpper, orient is           *)
(* toUpperOrients and nE is nE2F.  Contracted edges are zero between       *)
(* crushed faces; a crushed face is closed and has a contracted edge.      *)
(***************************************************************************)
Contracts(L, fx, up, orient) ==
  /\ fx \in [DOMAIN L.F2E -> 0 .. 2]
  /\ up \in [DOMAIN L.diff -> DOMAIN L.diff \union {None, Contracted, Dropped}]
  /\ orient \in [DOMAIN L.diff -> 0 .. 3]
  /\ \A e \in DOMAIN L.diff : up[e] = Contracted =>
       L.diff[e] = Zero /\ \A f \in SidesIn(L, e) : fx[f] = 2
  /\ \A f \in DOMAIN L.F2E : fx[f] = 2 =>
       f \notin L.sing /\ \E j \in Corner : up[L.F2E[f][j]] = Contracted
  /\ \A f \in DOMAIN L.F2E : f \in L.sing => fx[f] # 0

(* The edge e of the level leads to the edge u of the next one.              *)
LeadsTo(L, fx, up, orient, nE, e, u) ==
  /\ u \in DOMAIN nE /\ orient[u] = 0
  /\ L.diff[u] = rshift90(L.diff[e], orient[e])
  /\ \A f \in SidesIn(L, e) :
       IF fx[f] = 2 THEN \A j \in Corner : up[L.F2E[f][j]] \in {u, Contracted}
       ELSE f \in {nE[u][1], nE[u][2]}
  /\ L.E2F[e][2] = None => nE[u][2] = None

(* The faces of the edge u of the next level.                                *)
Borders(L, fx, up, nE, u) ==
  /\ u \in DOMAIN L.diff /\ up[u] = u
  /\ nE[u] \in [1 .. 2 -> DOMAIN L.F2E \union {None}] /\ nE[u][1] # None
  /\ \A s \in 1 .. 2 : nE[u][s] # None =>
       fx[nE[u][s]] # 2 /\ \E j \in Corner : up[L.F2E[nE[u][s]][j]] = u
  /\ nE[u][1] # nE[u][2] =>
       \A f \in DOMAIN L.F2E : fx[f] # 2 =>
         \A j, k \in Corner : up[L.F2E[f][j]] = u /\ up[L.F2E[f][k]] = u => j = k

Links(L, fx, up, orient, nE) ==
  /\ \A e \in DOMAIN L.diff :
       /\ up[e] = Dropped => \A f \in SidesIn(L, e) : fx[f] = 2
       /\ up[e] = None =>
            (\E f \in SidesIn(L, e) : fx[f] = 2) /\ (\E f \in SidesIn(L, e) : fx[f] # 2)
       /\ up[e] \in DOMAIN L.diff => LeadsTo(L, fx, up, orient, nE, e, up[e])
  /\ \A u \in DOMAIN nE : Borders(L, fx, up, nE, u)

(***************************************************************************)
(* A chain from the edge e of the face f0: P has its edges with their      *)
(* turns, r is the last one and a the face across it.  The chain goes on   *)
(* only there: its crushed faces have no other edges that are left.        *)
(***************************************************************************)
On(P, e) == \E p \in P : p[1] = e

OtherSide(L, e, f) ==
  LET s == L.E2F[e] IN IF s[1] = f THEN s[2] ELSE IF s[2] = f THEN s[1] ELSE f

Joins(L, fx, up, e0, f0, P, r, a, e) ==
  /\ \E f \in SidesIn(L, e) : fx[f] = 2
  /\ \A f \in SidesIn(L, e) :
       \/ e = r /\ f = a
       \/ fx[f] = 2 /\ \A j \in Corner : On(P, L.F2E[f][j]) \/ up[L.F2E[f][j]] = Contracted
       \/ fx[f] # 2 /\ e = e0 /\ f = f0
  /\ L.E2F[e][2] = None => e = r /\ a = None

Consistent(L, fx, P) ==
  \A f \in DOMAIN L.F2E : fx[f] = 2 => \A j, k \in Corner : \A p, q \in P :
    p[1] = L.F2E[f][j] /\ q[1] = L.F2E[f][k] /\ p[1] # q[1] =>
      q[2] = (p[2] + L.FQ[f][k] - L.FQ[f][j] + 6) % 4

Turning(L, up, e0, P) ==
  /\ P \subseteq (DOMAIN L.diff) \X (0 .. 3)
  /\ <<e0, 0>> \in P
  /\ \A p, q \in P : p[1] = q[1] => p[2] = q[2]
  /\ \A p \in P : up[p[1]] \in {None, Dropped} /\ L.diff[e0] = rshift90(L.diff[p[1]], p[2])

Starts(L, fx, up, e0, f0) ==
  e0 \in DOMAIN L.diff /\ up[e0] = None /\ f0 \in SidesIn(L, e0) /\ fx[f0] # 2

Chained(L, fx, up, e0, f0, P, r, wf) ==
  /\ Starts(L, fx, up, e0, f0)
  /\ Turning(L, up, e0, P) /\ Consistent(L, fx, P)
  /\ On(P, r) /\ wf \in SidesIn(L, r)
  /\ \A p \in P : Joins(L, fx, up, e0, f0, P, r, OtherSide(L, r, wf), p[1])

LEMMA OtherSideFacts ==
  ASSUME NEW L, Level(L), NEW e \in DOMAIN L.diff, NEW f \in SidesIn(L, e)
  PROVE  /\ OtherSide(L, e, f) \in SidesIn(L, e) \union {None}
         /\ SidesIn(L, e) = {f, OtherSide(L, e, f)} \ {None}
         /\ L.E2F[e][2] = None => OtherSide(L, e, f) = None
         /\ f # OtherSide(L, e, f) => L.E2F[e][1] # L.E2F[e][2]
  <1>1. L.E2F[e][1] # None
    BY DEF Level, Sided
  <1> QED
    BY <1>1 DEF OtherSide, SidesIn

(* When one of three differences that close a face is zero, two are left.    *)
LEMMA TwoOfThree ==
  ASSUME NEW v \in [Corner -> Vec], Plus(v[1], Plus(v[2], v[3])) = Zero,
         NEW j \in Corner, NEW k \in Corner, NEW c \in Corner, j # k, c # j, c # k, v[c] = Zero
  PROVE  Plus(v[j], v[k]) = Zero
  <1>1. v[1] \in Vec /\ v[2] \in Vec /\ v[3] \in Vec
    BY DEF Corner
  <1>2. PICK x1 \in Int, y1 \in Int : v[1] = <<x1, y1>>
    BY <1>1 DEF Vec
  <1>3. PICK x2 \in Int, y2 \in Int : v[2] = <<x2, y2>>
    BY <1>1 DEF Vec
  <1>4. PICK x3 \in Int, y3 \in Int : v[3] = <<x3, y3>>
    BY <1>1 DEF Vec
  <1>5. x1 + (x2 + x3) = 0 /\ y1 + (y2 + y3) = 0
    BY <1>2, <1>3, <1>4 DEF Plus, Zero
  <1>6. /\ v[1] = Zero => x1 = 0 /\ y1 = 0
        /\ v[2] = Zero => x2 = 0 /\ y2 = 0
        /\ v[3] = Zero => x3 = 0 /\ y3 = 0
    BY ONLY <1>2, <1>3, <1>4 DEF Zero
  <1>7. /\ v[1] = Zero => Plus(v[2], v[3]) = Zero /\ Plus(v[3], v[2]) = Zero
        /\ v[2] = Zero => Plus(v[1], v[3]) = Zero /\ Plus(v[3], v[1]) = Zero
        /\ v[3] = Zero => Plus(v[1], v[2]) = Zero /\ Plus(v[2], v[1]) = Zero
    BY ONLY <1>2, <1>3, <1>4, <1>5, <1>6 DEF Plus, Zero
  <1>8. \/ c = 3 /\ ((j = 1 /\ k = 2) \/ (j = 2 /\ k = 1))
        \/ c = 2 /\ ((j = 1 /\ k = 3) \/ (j = 3 /\ k = 1))
        \/ c = 1 /\ ((j = 2 /\ k = 3) \/ (j = 3 /\ k = 2))
    BY DEF Corner
  <1> QED
    BY <1>7, <1>8

(* The chain crosses a crushed face from r to n.                             *)
Crossing(L, fx, up, r, a, j, k) ==
  /\ a \in DOMAIN L.F2E /\ fx[a] = 2
  /\ j \in Corner /\ L.F2E[a][j] = r
  /\ k \in Corner /\ L.F2E[a][k] # r /\ up[L.F2E[a][k]] # Contracted

LEMMA CrossedFace ==
  ASSUME NEW L, Level(L), Closed(L), NEW fx, NEW up, NEW orient, Contracts(L, fx, up, orient),
         NEW r, NEW a, NEW j, NEW k, Crossing(L, fx, up, r, a, j, k), up[r] # Contracted
  PROVE  /\ \A i \in Corner : i = j \/ i = k \/ up[L.F2E[a][i]] = Contracted
         /\ j # k
         /\ L.diff[r] = rshift90(L.diff[L.F2E[a][k]], (L.FQ[a][k] - L.FQ[a][j] + 6) % 4)
  <1>1. /\ j \in Corner /\ k \in Corner /\ a \in DOMAIN L.F2E /\ fx[a] = 2 /\ L.F2E[a][j] = r
        /\ L.F2E[a][k] # r /\ up[L.F2E[a][k]] # Contracted
    BY DEF Crossing
  <1>2. PICK c \in Corner : up[L.F2E[a][c]] = Contracted
    BY <1>1 DEF Contracts
  <1>3. j # k /\ c # j /\ c # k
    BY <1>1, <1>2
  <1>4. \A i \in Corner : i = j \/ i = k \/ i = c
    BY ONLY <1>1, <1>3, c \in Corner DEF Corner
  <1>5. /\ L.F2E[a][c] \in DOMAIN L.diff /\ L.FQ[a][c] \in 0 .. 3
        /\ L.diff[L.F2E[a][c]] = Zero /\ a \notin L.sing
    BY <1>1, <1>2, GraphFacts DEF Contracts, Level
  <1> DEFINE T(i) == rshift90(L.diff[L.F2E[a][i]], L.FQ[a][i])
  <1>6. T(c) = Zero
    BY <1>5, ZeroTurned
  <1>7. Plus(T(1), Plus(T(2), T(3))) = Zero
    BY <1>1, <1>5 DEF Closed, Residual
  <1>8. \A i \in Corner : T(i) \in Vec
    BY <1>1, GraphFacts, TurnType DEF Level
  <1>9. Plus(T(j), T(k)) = Zero
    <2>1. PICK v : v = [i \in Corner |-> T(i)]
      OBVIOUS
    <2>2. v \in [Corner -> Vec] /\ Plus(v[1], Plus(v[2], v[3])) = Zero /\ v[c] = Zero
      <3>1. \A i \in Corner : v[i] = T(i)
        BY ONLY <2>1
      <3>2. 1 \in Corner /\ 2 \in Corner /\ 3 \in Corner /\ c \in Corner
        BY DEF Corner
      <3>3. v \in [Corner -> Vec]
        BY ONLY <2>1, <1>8
      <3> QED
        BY ONLY <3>1, <3>2, <3>3, <1>6, <1>7
    <2>3. Plus(v[j], v[k]) = Zero
      BY <1>1, <1>3, <2>2, TwoOfThree
    <2> QED
      BY <1>1, <2>1, <2>3
  <1>10. L.diff[r] \in Vec /\ L.diff[L.F2E[a][k]] \in Vec /\ L.FQ[a][j] \in 0 .. 3 /\ L.FQ[a][k] \in 0 .. 3
    BY <1>1, GraphFacts DEF Level
  <1>11. L.diff[r] = rshift90(L.diff[L.F2E[a][k]], (L.FQ[a][k] - L.FQ[a][j] + 6) % 4)
    BY <1>1, <1>9, <1>10, TurnAcross
  <1> QED
    BY <1>2, <1>3, <1>4, <1>11

(* What crossing adds to a chain is new to the next level, has the           *)
(* difference it should have, and agrees with an earlier visit.              *)
Goes(L, fx, up, orient, nE, e0, f0, P, r, wf, a, j, k, t, n, s) ==
  /\ Level(L) /\ Closed(L) /\ Contracts(L, fx, up, orient) /\ Links(L, fx, up, orient, nE)
  /\ Chained(L, fx, up, e0, f0, P, r, wf)
  /\ a = OtherSide(L, r, wf) /\ Crossing(L, fx, up, r, a, j, k)
  /\ <<r, t>> \in P /\ n = L.F2E[a][k] /\ s = (t + (L.FQ[a][k] - L.FQ[a][j] + 6)) % 4

LEMMA CrossFacts ==
  ASSUME NEW L, NEW fx, NEW up, NEW orient, NEW nE, NEW e0, NEW f0, NEW P, NEW r, NEW wf,
         NEW a, NEW j, NEW k, NEW t, NEW n, NEW s,
         Goes(L, fx, up, orient, nE, e0, f0, P, r, wf, a, j, k, t, n, s)
  PROVE  /\ r \in DOMAIN L.diff /\ n \in DOMAIN L.diff /\ n # r /\ a \in DOMAIN L.F2E /\ fx[a] = 2
         /\ j \in Corner /\ k \in Corner /\ L.F2E[a][j] = r /\ L.F2E[a][k] = n
         /\ a \in SidesIn(L, n) /\ t \in 0 .. 3 /\ s \in 0 .. 3
         /\ L.FQ[a][j] \in 0 .. 3 /\ L.FQ[a][k] \in 0 .. 3
         /\ up[r] \in {None, Dropped} /\ up[n] \in {None, Dropped}
         /\ \A i \in Corner : i = j \/ i = k \/ up[L.F2E[a][i]] = Contracted
         /\ L.diff[e0] = rshift90(L.diff[n], s)
         /\ \A p \in P : p[1] = n => p[2] = s
         /\ e0 \in DOMAIN L.diff
  <1>1. /\ Level(L) /\ Closed(L) /\ Contracts(L, fx, up, orient) /\ Links(L, fx, up, orient, nE)
        /\ Turning(L, up, e0, P) /\ Consistent(L, fx, P) /\ Starts(L, fx, up, e0, f0)
        /\ Crossing(L, fx, up, r, a, j, k)
        /\ <<r, t>> \in P /\ n = L.F2E[a][k] /\ s = (t + (L.FQ[a][k] - L.FQ[a][j] + 6)) % 4
    BY DEF Goes, Chained
  <1>2. /\ j \in Corner /\ k \in Corner /\ L.F2E[a][j] = r /\ n # r
        /\ a \in DOMAIN L.F2E /\ fx[a] = 2 /\ up[n] # Contracted
    BY <1>1 DEF Crossing
  <1>3. /\ r \in DOMAIN L.diff /\ n \in DOMAIN L.diff /\ L.FQ[a][j] \in 0 .. 3 /\ L.FQ[a][k] \in 0 .. 3
        /\ L.diff[n] \in Vec /\ L.diff[r] \in Vec
        /\ None # Contracted /\ None # Dropped /\ Contracted # Dropped
        /\ Contracted \notin DOMAIN L.diff /\ None \notin DOMAIN L.diff /\ Dropped \notin DOMAIN L.diff
    BY <1>1, <1>2, GraphFacts DEF Level
  <1>4. <<r, t>> \in (DOMAIN L.diff) \X (0 .. 3) /\ <<r, t>>[1] = r /\ <<r, t>>[2] = t
    BY <1>1 DEF Turning
  <1>5. t \in 0 .. 3 /\ up[r] \in {None, Dropped} /\ L.diff[e0] = rshift90(L.diff[r], t)
    BY <1>1, <1>4 DEF Turning
  <1>6. s \in 0 .. 3
    BY <1>1, <1>3, <1>5
  <1>7. a \in SidesIn(L, n)
    BY <1>1, <1>2, SideFacts
  <1>8. up[n] \in {None, Dropped}
    <2> SUFFICES ASSUME up[n] \in DOMAIN L.diff PROVE FALSE
      BY <1>1, <1>2, <1>3 DEF Contracts
    <2>1. LeadsTo(L, fx, up, orient, nE, n, up[n])
      BY <1>1, <1>3 DEF Links
    <2>2. up[r] \in {up[n], Contracted}
      BY <2>1, <1>2, <1>7 DEF LeadsTo
    <2> QED
      BY <2>2, <1>3, <1>5
  <1>9. /\ \A i \in Corner : i = j \/ i = k \/ up[L.F2E[a][i]] = Contracted
        /\ L.diff[r] = rshift90(L.diff[n], (L.FQ[a][k] - L.FQ[a][j] + 6) % 4)
    <2>1. up[r] # Contracted
      BY <1>3, <1>5
    <2> QED
      BY <2>1, <1>1, CrossedFace
  <1>10. L.diff[e0] = rshift90(L.diff[n], s)
    <2> DEFINE q == (L.FQ[a][k] - L.FQ[a][j] + 6) % 4
    <2>1. q \in 0 .. 3 /\ (q + t) % 4 = s
      <3>1. \A z, y \in Int : (z % 4) \in 0 .. 3 /\ ((z % 4) + y) % 4 = (y + z) % 4
        OBVIOUS
      <3>2. t \in Int /\ L.FQ[a][k] - L.FQ[a][j] + 6 \in Int
        BY ONLY <1>3, <1>5
      <3>3. PICK z \in Int : z = L.FQ[a][k] - L.FQ[a][j] + 6
        BY ONLY <3>2
      <3>4. q = z % 4 /\ s = (t + z) % 4
        BY ONLY <1>1, <3>3
      <3> QED
        BY ONLY <3>1, <3>2, <3>4
    <2> HIDE DEF q
    <2>2. rshift90(rshift90(L.diff[n], q), t) = rshift90(L.diff[n], (q + t) % 4)
      BY <2>1, <1>3, <1>5, TurnTwice
    <2> QED
      BY <2>1, <2>2, <1>5, <1>9 DEF q
  <1>11. ASSUME NEW p \in P, p[1] = n PROVE p[2] = s
    <2>1. p[2] = (t + L.FQ[a][k] - L.FQ[a][j] + 6) % 4
      BY <1>1, <1>2, <1>4, <1>11 DEF Consistent
    <2>2. (t + L.FQ[a][k] - L.FQ[a][j] + 6) = (t + (L.FQ[a][k] - L.FQ[a][j] + 6))
      BY <1>3, <1>5
    <2> QED
      BY <2>1, <2>2, <1>1
  <1>12. e0 \in DOMAIN L.diff
    BY <1>1 DEF Starts
  <1> QED
    BY <1>1, <1>2, <1>3, <1>5, <1>6, <1>7, <1>8, <1>9, <1>10, <1>11, <1>12

(* The chain with the edge it reaches is a chain.                            *)
LEMMA ChainGrows ==
  ASSUME NEW L, NEW fx, NEW up, NEW orient, NEW nE, NEW e0, NEW f0, NEW P, NEW r, NEW wf,
         NEW a, NEW j, NEW k, NEW t, NEW n, NEW s,
         Goes(L, fx, up, orient, nE, e0, f0, P, r, wf, a, j, k, t, n, s)
  PROVE  Chained(L, fx, up, e0, f0, P \union {<<n, s>>}, n, a)
  <1> DEFINE Q == P \union {<<n, s>>}
  <1>0. /\ Level(L) /\ Chained(L, fx, up, e0, f0, P, r, wf)
        /\ a = OtherSide(L, r, wf) /\ <<r, t>> \in P
        /\ s = (t + (L.FQ[a][k] - L.FQ[a][j] + 6)) % 4
    BY DEF Goes
  <1>1. /\ Starts(L, fx, up, e0, f0) /\ Turning(L, up, e0, P) /\ Consistent(L, fx, P)
        /\ \A p \in P : Joins(L, fx, up, e0, f0, P, r, a, p[1])
    BY <1>0 DEF Chained
  <1>2. /\ r \in DOMAIN L.diff /\ n \in DOMAIN L.diff /\ n # r /\ a \in DOMAIN L.F2E /\ fx[a] = 2
        /\ j \in Corner /\ k \in Corner /\ L.F2E[a][j] = r /\ L.F2E[a][k] = n
        /\ a \in SidesIn(L, n) /\ t \in 0 .. 3 /\ s \in 0 .. 3
        /\ L.FQ[a][j] \in 0 .. 3 /\ L.FQ[a][k] \in 0 .. 3
        /\ up[r] \in {None, Dropped} /\ up[n] \in {None, Dropped}
        /\ \A i \in Corner : i = j \/ i = k \/ up[L.F2E[a][i]] = Contracted
        /\ L.diff[e0] = rshift90(L.diff[n], s)
        /\ \A p \in P : p[1] = n => p[2] = s
    BY CrossFacts
  <1>3. <<n, s>>[1] = n /\ <<n, s>>[2] = s /\ <<r, t>>[1] = r /\ <<r, t>>[2] = t
    OBVIOUS
  <1>4. up[n] # Contracted /\ up[r] # Contracted /\ a # None
    BY <1>0, <1>2, GraphFacts DEF Level
  <1>5. \A p \in P : p = <<p[1], p[2]>>
    BY <1>1 DEF Turning
  <1>6. Turning(L, up, e0, Q)
    <2>1. Q \subseteq (DOMAIN L.diff) \X (0 .. 3) /\ <<e0, 0>> \in Q
      BY <1>1, <1>2 DEF Turning
    <2>2. \A p, q \in Q : p[1] = q[1] => p[2] = q[2]
      BY <1>1, <1>2, <1>3 DEF Turning
    <2>3. \A p \in Q : up[p[1]] \in {None, Dropped} /\ L.diff[e0] = rshift90(L.diff[p[1]], p[2])
      BY <1>1, <1>2, <1>3 DEF Turning
    <2> QED
      BY <2>1, <2>2, <2>3 DEF Turning
  <1>7. Consistent(L, fx, Q)
    <2>1. CASE On(P, n)
      <3>1. <<n, s>> \in P
        BY <2>1, <1>2, <1>5 DEF On
      <3>2. Q = P
        BY <3>1
      <3> QED
        BY <3>2, <1>1
    <2>2. CASE ~ On(P, n)
      <3>1. ASSUME NEW f \in DOMAIN L.F2E, fx[f] = 2, NEW x \in Corner, NEW y \in Corner,
                   NEW q \in P, L.F2E[f][x] = n, q[1] = L.F2E[f][y]
            PROVE  f = a /\ q[1] = r /\ q[2] = t /\ x = k /\ y = j
        <4>1. f \in SidesIn(L, q[1])
          BY <1>0, <3>1, SideFacts
        <4>2. Joins(L, fx, up, e0, f0, P, r, a, q[1])
          BY <1>1
        <4>3. q[1] = r /\ f = a
          BY <4>1, <4>2, <3>1, <2>2, <1>4 DEF Joins
        <4>4. q[2] = t
          BY <4>3, <1>0, <1>1, <1>3 DEF Turning
        <4>5. x = k /\ y = j
          BY <4>3, <3>1, <1>2, <1>4
        <4> QED
          BY <4>3, <4>4, <4>5
      <3>2. s = (t + L.FQ[a][k] - L.FQ[a][j] + 6) % 4 /\ t = (s + L.FQ[a][j] - L.FQ[a][k] + 6) % 4
        <4>1. \A z, y, x \in 0 .. 3 : \A w \in 0 .. 3 : w = (z + (x - y + 6)) % 4 =>
                w = (z + x - y + 6) % 4 /\ z = (w + y - x + 6) % 4
          OBVIOUS
        <4>2. PICK x \in 0 .. 3, y \in 0 .. 3 : x = L.FQ[a][k] /\ y = L.FQ[a][j]
          BY <1>2
        <4>3. s = (t + (x - y + 6)) % 4 /\ t \in 0 .. 3 /\ s \in 0 .. 3
          BY ONLY <1>0, <1>2, <4>2
        <4>4. s = (t + x - y + 6) % 4 /\ t = (s + y - x + 6) % 4
          BY ONLY <4>1, <4>3
        <4> QED
          BY ONLY <4>2, <4>4
      <3>3. ASSUME NEW f \in DOMAIN L.F2E, fx[f] = 2, NEW x \in Corner, NEW y \in Corner,
                   NEW p \in Q, NEW q \in Q, p[1] = L.F2E[f][x], q[1] = L.F2E[f][y], p[1] # q[1]
            PROVE  q[2] = (p[2] + L.FQ[f][y] - L.FQ[f][x] + 6) % 4
        <4>1. CASE p \in P /\ q \in P
          BY <4>1, <3>3, <1>1 DEF Consistent
        <4>2. CASE p = <<n, s>> /\ q \in P
          <5>1. f = a /\ q[2] = t /\ x = k /\ y = j
            BY <4>2, <3>1, <3>3, <1>3
          <5> QED
            BY <5>1, <4>2, <3>2, <1>3
        <4>3. CASE q = <<n, s>> /\ p \in P
          <5>1. f = a /\ p[2] = t /\ x = j /\ y = k
            BY <4>3, <3>1, <3>3, <1>3
          <5> QED
            BY <5>1, <4>3, <3>2, <1>3
        <4> QED
          BY <4>1, <4>2, <4>3, <3>3
      <3> QED
        BY <3>3 DEF Consistent
    <2> QED
      BY <2>1, <2>2
  <1>8. On(Q, n) /\ \A e : On(P, e) => On(Q, e)
    BY <1>3 DEF On
  <1>9. \A i \in Corner : On(Q, L.F2E[a][i]) \/ up[L.F2E[a][i]] = Contracted
    BY <1>2, <1>8, <1>0, <1>3 DEF On
  <1>10. ASSUME NEW e, On(Q, e)
         PROVE  Joins(L, fx, up, e0, f0, Q, n, OtherSide(L, n, a), e)
    <2>1. CASE e = n
      <3>1. /\ SidesIn(L, n) = {a, OtherSide(L, n, a)} \ {None}
            /\ L.E2F[n][2] = None => OtherSide(L, n, a) = None
        <4>1. Level(L) /\ n \in DOMAIN L.diff /\ a \in SidesIn(L, n)
          BY ONLY <1>0, <1>2
        <4> QED
          BY ONLY <4>1, OtherSideFacts
      <3> QED
        BY <3>1, <2>1, <1>2, <1>9 DEF Joins
    <2>2. CASE e # n
      <3>1. On(P, e)
        BY <2>2, <1>10, <1>3 DEF On
      <3>2. Joins(L, fx, up, e0, f0, P, r, a, e)
        BY <3>1, <1>1 DEF On
      <3>3. L.E2F[e][2] # None
        BY <3>2, <1>4 DEF Joins
      <3>4. \E f \in SidesIn(L, e) : fx[f] = 2
        BY <3>2 DEF Joins
      <3>5. ASSUME NEW f \in SidesIn(L, e)
            PROVE  \/ fx[f] = 2 /\ \A i \in Corner : On(Q, L.F2E[f][i]) \/ up[L.F2E[f][i]] = Contracted
                   \/ fx[f] # 2 /\ e = e0 /\ f = f0
        BY <3>2, <3>5, <1>2, <1>8, <1>9 DEF Joins
      <3> QED
        BY <3>3, <3>4, <3>5 DEF Joins
    <2> QED
      BY <2>1, <2>2
  <1>11. \A p \in Q : Joins(L, fx, up, e0, f0, Q, n, OtherSide(L, n, a), p[1])
    BY <1>10 DEF On
  <1> QED
    BY <1>1, <1>2, <1>6, <1>7, <1>8, <1>11 DEF Chained

(* A chain begins with one edge.                                             *)
LEMMA ChainBegins ==
  ASSUME NEW L, Level(L), NEW fx, NEW up, NEW orient, NEW nE, Contracts(L, fx, up, orient),
         Links(L, fx, up, orient, nE), NEW e0, NEW f0, Starts(L, fx, up, e0, f0)
  PROVE  Chained(L, fx, up, e0, f0, {<<e0, 0>>}, e0, f0)
  <1> DEFINE P == {<<e0, 0>>}
  <1>1. e0 \in DOMAIN L.diff /\ up[e0] = None /\ f0 \in SidesIn(L, e0) /\ fx[f0] # 2
    BY DEF Starts
  <1>2. L.diff[e0] \in Vec /\ L.diff[e0] = rshift90(L.diff[e0], 0) /\ 0 \in 0 .. 3
    BY <1>1, GraphFacts, Turned DEF Level
  <1>3. <<e0, 0>>[1] = e0 /\ <<e0, 0>>[2] = 0
    OBVIOUS
  <1>4. Turning(L, up, e0, P)
    BY <1>1, <1>2, <1>3 DEF Turning
  <1>5. Consistent(L, fx, P)
    BY DEF Consistent
  <1>6. On(P, e0)
    BY <1>3 DEF On
  <1>7. Joins(L, fx, up, e0, f0, P, e0, OtherSide(L, e0, f0), e0)
    <2>1. \E f \in SidesIn(L, e0) : fx[f] = 2
      BY <1>1 DEF Links
    <2>2. /\ SidesIn(L, e0) = {f0, OtherSide(L, e0, f0)} \ {None}
          /\ L.E2F[e0][2] = None => OtherSide(L, e0, f0) = None
      BY <1>1, OtherSideFacts
    <2> QED
      BY <2>1, <2>2, <1>1 DEF Joins
  <1> QED
    BY <1>1, <1>3, <1>4, <1>5, <1>6, <1>7 DEF Chained

(***************************************************************************)
(* A chain at its end, between the faces f0 and g, becomes one edge.       *)
(***************************************************************************)
Whole(L, fx, up, e0, f0, g, P) ==
  /\ Starts(L, fx, up, e0, f0) /\ On(P, e0)
  /\ \A e : On(P, e) => e \in DOMAIN L.diff /\ up[e] \in {None, Dropped}
  /\ \A e : On(P, e) =>
       /\ \A f \in SidesIn(L, e) :
            IF fx[f] = 2 THEN \A j \in Corner : On(P, L.F2E[f][j]) \/ up[L.F2E[f][j]] = Contracted
            ELSE f \in {f0, g}
       /\ L.E2F[e][2] = None => g = None
  /\ g # None => g \in DOMAIN L.F2E /\ fx[g] # 2 /\ \E j \in Corner : On(P, L.F2E[g][j])
  /\ f0 # g => \A f \in DOMAIN L.F2E : fx[f] # 2 =>
       \A j, k \in Corner : On(P, L.F2E[f][j]) /\ On(P, L.F2E[f][k]) => j = k

Merges(L, up, orient, nE, e0, f0, g, P, up2, orient2, nE2) ==
  /\ up2 = [e \in DOMAIN L.diff |-> IF On(P, e) THEN e0 ELSE up[e]]
  /\ orient2 \in [DOMAIN L.diff -> 0 .. 3] /\ orient2[e0] = 0
  /\ \A e \in DOMAIN L.diff :
       IF On(P, e) THEN L.diff[e0] = rshift90(L.diff[e], orient2[e]) ELSE orient2[e] = orient[e]
  /\ nE2 = [e \in DOMAIN nE \union {e0} |-> IF e = e0 THEN <<f0, g>> ELSE nE[e]]

LEMMA MergeLinks ==
  ASSUME NEW L, Level(L), NEW fx, NEW up, NEW orient, NEW nE, Contracts(L, fx, up, orient),
         Links(L, fx, up, orient, nE), NEW e0, NEW f0, NEW g, NEW P,
         Whole(L, fx, up, e0, f0, g, P), NEW up2, NEW orient2, NEW nE2,
         Merges(L, up, orient, nE, e0, f0, g, P, up2, orient2, nE2)
  PROVE  Contracts(L, fx, up2, orient2) /\ Links(L, fx, up2, orient2, nE2)
  <1>1. /\ e0 \in DOMAIN L.diff /\ up[e0] = None /\ f0 \in SidesIn(L, e0) /\ fx[f0] # 2 /\ On(P, e0)
        /\ \A e : On(P, e) => e \in DOMAIN L.diff /\ up[e] \in {None, Dropped}
    BY DEF Whole, Starts
  <1>2. /\ None # Contracted /\ None # Dropped /\ Contracted # Dropped
        /\ Contracted \notin DOMAIN L.diff /\ None \notin DOMAIN L.diff /\ Dropped \notin DOMAIN L.diff
        /\ \A f \in DOMAIN L.F2E : \A j \in Corner : L.F2E[f][j] \in DOMAIN L.diff
        /\ None \notin DOMAIN L.F2E
    BY GraphFacts DEF Level
  <1>3. f0 \in DOMAIN L.F2E
    BY <1>1, SideFacts
  <1>4. \A e \in DOMAIN L.diff : up2[e] = IF On(P, e) THEN e0 ELSE up[e]
    BY DEF Merges
  <1>5. /\ orient2 \in [DOMAIN L.diff -> 0 .. 3] /\ orient2[e0] = 0
        /\ \A e \in DOMAIN L.diff :
             IF On(P, e) THEN L.diff[e0] = rshift90(L.diff[e], orient2[e]) ELSE orient2[e] = orient[e]
    BY DEF Merges
  <1>6. /\ DOMAIN nE2 = DOMAIN nE \union {e0} /\ nE2[e0] = <<f0, g>>
        /\ \A u \in DOMAIN nE : u # e0 => nE2[u] = nE[u]
    BY DEF Merges
  <1>7. /\ \A u \in DOMAIN nE : Borders(L, fx, up, nE, u)
        /\ \A e \in DOMAIN L.diff : up[e] \in DOMAIN L.diff => LeadsTo(L, fx, up, orient, nE, e, up[e])
    BY DEF Links
  <1>8. \A u \in DOMAIN nE : u \in DOMAIN L.diff /\ up[u] = u /\ ~ On(P, u) /\ u # e0
    BY <1>1, <1>2, <1>7 DEF Borders
  <1>9. ASSUME NEW e \in DOMAIN L.diff, up[e] \in DOMAIN L.diff
        PROVE  up[e] \in DOMAIN nE /\ ~ On(P, e)
    BY <1>1, <1>2, <1>7, <1>9 DEF LeadsTo
  <1>10. /\ \A e \in DOMAIN L.diff : up2[e] = e0 => On(P, e)
         /\ \A e \in DOMAIN L.diff : up2[e] # e0 => ~ On(P, e) /\ up2[e] = up[e]
         /\ \A e \in DOMAIN L.diff : up[e] \notin {None, Dropped} => up2[e] = up[e]
    BY <1>1, <1>4, <1>8, <1>9
  <1>11. Contracts(L, fx, up2, orient2)
    <2>1. up2 \in [DOMAIN L.diff -> DOMAIN L.diff \union {None, Contracted, Dropped}]
      BY <1>1 DEF Contracts, Merges
    <2>2. \A e \in DOMAIN L.diff : (up2[e] = Contracted) <=> (up[e] = Contracted)
      BY <1>1, <1>2, <1>10
    <2> QED
      BY <1>2, <1>5, <2>1, <2>2 DEF Contracts
  <1>12. ASSUME NEW e \in DOMAIN L.diff
         PROVE  /\ up2[e] = Dropped => \A f \in SidesIn(L, e) : fx[f] = 2
                /\ up2[e] = None =>
                     (\E f \in SidesIn(L, e) : fx[f] = 2) /\ (\E f \in SidesIn(L, e) : fx[f] # 2)
    BY <1>1, <1>2, <1>10 DEF Links
  <1>13. ASSUME NEW e \in DOMAIN L.diff, up2[e] \in DOMAIN L.diff
         PROVE  LeadsTo(L, fx, up2, orient2, nE2, e, up2[e])
    <2>1. CASE On(P, e)
      <3>1. up2[e] = e0 /\ L.diff[e0] = rshift90(L.diff[e], orient2[e])
        BY <2>1, <1>4, <1>5
      <3>2. ASSUME NEW f \in SidesIn(L, e)
            PROVE  IF fx[f] = 2 THEN \A j \in Corner : up2[L.F2E[f][j]] \in {e0, Contracted}
                   ELSE f \in {f0, g}
        <4>1. CASE fx[f] = 2
          <5>1. \A j \in Corner : On(P, L.F2E[f][j]) \/ up[L.F2E[f][j]] = Contracted
            BY <4>1, <2>1 DEF Whole
          <5>2. f \in DOMAIN L.F2E
            BY SideFacts
          <5>3. \A j \in Corner : up2[L.F2E[f][j]] \in {e0, Contracted}
            BY <5>1, <5>2, <1>2, <1>4, <1>10
          <5> QED
            BY <5>3, <4>1
        <4>2. CASE fx[f] # 2
          BY <4>2, <2>1 DEF Whole
        <4> QED
          BY <4>1, <4>2
      <3>3. L.E2F[e][2] = None => g = None
        BY <2>1 DEF Whole
      <3> QED
        BY <3>1, <3>2, <3>3, <1>5, <1>6 DEF LeadsTo
    <2>2. CASE ~ On(P, e)
      <3>1. PICK u : u = up[e]
        OBVIOUS
      <3>2. up2[e] = u /\ u \in DOMAIN nE /\ orient2[e] = orient[e]
        BY <3>1, <2>2, <1>4, <1>5, <1>9, <1>13
      <3>3. LeadsTo(L, fx, up, orient, nE, e, u)
        BY <3>1, <3>2, <1>8, <1>7
      <3>4. orient2[u] = 0 /\ nE2[u] = nE[u] /\ u \in DOMAIN nE2
        BY <3>2, <3>3, <1>5, <1>6, <1>8 DEF LeadsTo
      <3>5. ASSUME NEW f \in SidesIn(L, e), fx[f] = 2, NEW j \in Corner
            PROVE  up2[L.F2E[f][j]] \in {u, Contracted}
        <4>1. up[L.F2E[f][j]] \in {u, Contracted} /\ f \in DOMAIN L.F2E
          BY <3>3, <3>5, SideFacts DEF LeadsTo
        <4>2. u \notin {None, Dropped}
          BY <3>2, <1>2, <1>8
        <4> QED
          BY <4>1, <4>2, <1>2, <1>10
      <3> QED
        BY <3>2, <3>3, <3>4, <3>5 DEF LeadsTo
    <2> QED
      BY <2>1, <2>2
  <1>14. ASSUME NEW u \in DOMAIN nE2 PROVE Borders(L, fx, up2, nE2, u)
    <2>1. CASE u = e0
      <3>1. up2[e0] = e0
        BY <1>1, <1>4
      <3>2. g # None => g \in DOMAIN L.F2E /\ fx[g] # 2 /\ \E j \in Corner : On(P, L.F2E[g][j])
        BY DEF Whole
      <3>3. nE2[e0] \in [1 .. 2 -> DOMAIN L.F2E \union {None}] /\ nE2[e0][1] = f0 /\ nE2[e0][2] = g
        <4>1. f0 \in DOMAIN L.F2E \union {None} /\ g \in DOMAIN L.F2E \union {None}
          BY <1>3, <3>2
        <4> QED
          BY ONLY <4>1, <1>6
      <3>4. \E j \in Corner : L.F2E[f0][j] = e0
        BY <1>1, SideFacts
      <3>5. \E j \in Corner : up2[L.F2E[f0][j]] = e0
        BY <3>4, <3>1
      <3>6. g # None => fx[g] # 2 /\ \E j \in Corner : up2[L.F2E[g][j]] = e0
        BY <3>2, <1>2, <1>4
      <3>7. f0 # g => \A f \in DOMAIN L.F2E : fx[f] # 2 =>
              \A j, k \in Corner : up2[L.F2E[f][j]] = e0 /\ up2[L.F2E[f][k]] = e0 => j = k
        BY <1>2, <1>10 DEF Whole
      <3>8. \A x \in 1 .. 2 : x = 1 \/ x = 2
        OBVIOUS
      <3> QED
        BY <3>1, <3>3, <3>5, <3>6, <3>7, <3>8, <2>1, <1>1, <1>2, <1>3 DEF Borders
    <2>2. CASE u # e0
      <3>1. u \in DOMAIN nE /\ nE2[u] = nE[u] /\ Borders(L, fx, up, nE, u)
        BY <2>2, <1>6, <1>7
      <3>2. u \in DOMAIN L.diff /\ up2[u] = u
        BY <3>1, <1>4, <1>8
      <3>3. \A x \in DOMAIN L.diff : (up2[x] = u) <=> (up[x] = u)
        BY <2>2, <3>2, <1>2, <1>10
      <3>4. nE[u] \in [1 .. 2 -> DOMAIN L.F2E \union {None}]
        BY <3>1 DEF Borders
      <3>5. \A x \in 1 .. 2 : nE[u][x] # None => nE[u][x] \in DOMAIN L.F2E
        BY <3>4
      <3> QED
        BY <3>1, <3>2, <3>3, <3>5, <1>2 DEF Borders
    <2> QED
      BY <2>1, <2>2
  <1> QED
    BY <1>11, <1>12, <1>13, <1>14 DEF Links

(* The chain ends at the boundary or at a face that is not crushed.          *)
LEMMA EndIsWhole ==
  ASSUME NEW L, Level(L), NEW fx, NEW up, NEW e0, NEW f0, NEW P, NEW r, NEW wf, NEW a,
         Chained(L, fx, up, e0, f0, P, r, wf), a = OtherSide(L, r, wf),
         a # None => fx[a] # 2
  PROVE  Whole(L, fx, up, e0, f0, a, P)
  <1>1. /\ Starts(L, fx, up, e0, f0) /\ Turning(L, up, e0, P)
        /\ On(P, r) /\ wf \in SidesIn(L, r)
    BY DEF Chained
  <1>2. \A e : On(P, e) => e \in DOMAIN L.diff /\ up[e] \in {None, Dropped}
    <2>1. \A p \in P : p[1] \in DOMAIN L.diff /\ up[p[1]] \in {None, Dropped}
      BY <1>1 DEF Turning
    <2> QED
      BY <2>1 DEF On
  <1>3. On(P, e0)
    <2>1. <<e0, 0>> \in P /\ <<e0, 0>>[1] = e0
      BY <1>1 DEF Turning
    <2> QED
      BY <2>1 DEF On
  <1>4. \A e : On(P, e) => Joins(L, fx, up, e0, f0, P, r, a, e)
    BY DEF Chained, On
  <1>5. None \notin DOMAIN L.F2E /\ r \in DOMAIN L.diff
    BY <1>1, <1>2, GraphFacts DEF Level
  <1>6. \A e : \A f \in SidesIn(L, e) : f # None
    BY DEF SidesIn
  <1>7. ASSUME NEW e, On(P, e)
        PROVE  /\ \A f \in SidesIn(L, e) :
                    IF fx[f] = 2
                    THEN \A j \in Corner : On(P, L.F2E[f][j]) \/ up[L.F2E[f][j]] = Contracted
                    ELSE f \in {f0, a}
               /\ L.E2F[e][2] = None => a = None
    BY <1>4, <1>6, <1>7 DEF Joins
  <1>8. ASSUME a # None
        PROVE  a \in DOMAIN L.F2E /\ fx[a] # 2 /\ a \in SidesIn(L, r) /\ \E j \in Corner : L.F2E[a][j] = r
    <2>1. a \in SidesIn(L, r)
      BY <1>1, <1>5, <1>8, OtherSideFacts
    <2> QED
      BY <2>1, <1>5, <1>8, SideFacts
  <1>9. ASSUME f0 # a, NEW f \in DOMAIN L.F2E, fx[f] # 2, NEW j \in Corner, NEW k \in Corner,
               On(P, L.F2E[f][j]), On(P, L.F2E[f][k])
        PROVE  j = k
    <2>1. /\ f \in SidesIn(L, L.F2E[f][j]) /\ f \in SidesIn(L, L.F2E[f][k])
          /\ L.F2E[f][j] \in DOMAIN L.diff
      BY <1>2, <1>9, SideFacts
    <2>2. Joins(L, fx, up, e0, f0, P, r, a, L.F2E[f][j]) /\ Joins(L, fx, up, e0, f0, P, r, a, L.F2E[f][k])
      BY <1>4, <1>9
    <2>3. L.F2E[f][j] = L.F2E[f][k]
      BY <2>1, <2>2, <1>9 DEF Joins
    <2>4. \E h \in SidesIn(L, L.F2E[f][j]) : fx[h] = 2
      BY <2>2 DEF Joins
    <2>5. L.E2F[L.F2E[f][j]][1] # L.E2F[L.F2E[f][j]][2]
      BY <2>1, <2>4, <1>9 DEF SidesIn
    <2> QED
      BY <2>1, <2>3, <2>5 DEF Level, Sided
  <1> QED
    BY <1>1, <1>2, <1>3, <1>7, <1>8, <1>9 DEF Whole

(* The chain ends at a crushed face whose other edges are one.               *)
LEMMA DeadEndIsWhole ==
  ASSUME NEW L, Level(L), NEW fx, NEW up, NEW e0, NEW f0, NEW P, NEW r, NEW wf, NEW a,
         Chained(L, fx, up, e0, f0, P, r, wf), a = OtherSide(L, r, wf), a # None, fx[a] = 2,
         \A j \in Corner : L.F2E[a][j] = r \/ up[L.F2E[a][j]] = Contracted
  PROVE  Whole(L, fx, up, e0, f0, f0, P)
  <1>1. /\ Starts(L, fx, up, e0, f0) /\ Turning(L, up, e0, P)
        /\ On(P, r) /\ wf \in SidesIn(L, r)
    BY DEF Chained
  <1>2. \A e : On(P, e) => e \in DOMAIN L.diff /\ up[e] \in {None, Dropped}
    <2>1. \A p \in P : p[1] \in DOMAIN L.diff /\ up[p[1]] \in {None, Dropped}
      BY <1>1 DEF Turning
    <2> QED
      BY <2>1 DEF On
  <1>3. On(P, e0)
    <2>1. <<e0, 0>> \in P /\ <<e0, 0>>[1] = e0
      BY <1>1 DEF Turning
    <2> QED
      BY <2>1 DEF On
  <1>4. \A e : On(P, e) => Joins(L, fx, up, e0, f0, P, r, a, e)
    BY DEF Chained, On
  <1>5. ASSUME NEW e, On(P, e)
        PROVE  /\ \A f \in SidesIn(L, e) :
                    IF fx[f] = 2
                    THEN \A j \in Corner : On(P, L.F2E[f][j]) \/ up[L.F2E[f][j]] = Contracted
                    ELSE f \in {f0, f0}
               /\ L.E2F[e][2] = None => f0 = None
    BY <1>1, <1>4, <1>5 DEF Joins
  <1>6. /\ e0 \in DOMAIN L.diff /\ fx[f0] # 2
        /\ f0 \in DOMAIN L.F2E /\ \E j \in Corner : L.F2E[f0][j] = e0
    BY <1>1, SideFacts DEF Starts
  <1>7. \E j \in Corner : On(P, L.F2E[f0][j])
    BY <1>3, <1>6
  <1> QED
    BY <1>1, <1>2, <1>3, <1>5, <1>6, <1>7 DEF Whole

-----------------------------------------------------------------------------
(***************************************************************************)
(* The next level, once every edge has its place.                          *)
(***************************************************************************)
Contracting == Contracts(Top, fixed_faces, toUpper, toUpperOrients)
Linking == Links(Top, fixed_faces, toUpper, toUpperOrients, nE2F)
Built == Level(Top) /\ Closed(Top) /\ Contracting /\ Linking /\ \A e \in Edges : toUpper[e] # None

LEMMA UpperFacts ==
  ASSUME Built
  PROVE  /\ UpperEdges \subseteq Edges
         /\ UpperFaces = {f \in Faces : fixed_faces[f] # 2}
         /\ \A e \in Edges : toUpper[e] \in Edges =>
              /\ toUpper[e] \in UpperEdges
              /\ LeadsTo(Top, fixed_faces, toUpper, toUpperOrients, nE2F, e, toUpper[e])
         /\ \A e \in Edges : toUpper[e] \in UpperEdges => toUpper[e] \in Edges
         /\ \A u \in UpperEdges : /\ toUpper[u] = u /\ toUpperOrients[u] = 0
                                  /\ Borders(Top, fixed_faces, toUpper, nE2F, u)
         /\ \A f \in UpperFaces : \A j \in Corner : toUpper[Top.F2E[f][j]] \in Edges
  <1>1. /\ None # Contracted /\ None # Dropped /\ Contracted # Dropped
        /\ Contracted \notin Edges /\ None \notin Edges /\ Dropped \notin Edges
        /\ \A f \in Faces : \A j \in Corner : Top.F2E[f][j] \in Edges
    BY GraphFacts DEF Built, Level, Edges, Faces
  <1>2. \A e \in Edges : toUpper[e] \in Edges \union {Contracted, Dropped}
    BY DEF Built, Contracting, Contracts, Edges
  <1>3. \A e \in Edges : toUpper[e] \in Edges =>
          LeadsTo(Top, fixed_faces, toUpper, toUpperOrients, nE2F, e, toUpper[e])
    BY DEF Built, Linking, Links, Edges
  <1>4. UpperEdges = {toUpper[e] : e \in Edges} \intersect Edges
    BY <1>1, <1>2 DEF UpperEdges
  <1>5. ASSUME NEW u \in UpperEdges
        PROVE  /\ toUpper[u] = u /\ toUpperOrients[u] = 0
               /\ Borders(Top, fixed_faces, toUpper, nE2F, u)
    <2>1. PICK e \in Edges : toUpper[e] = u /\ u \in Edges
      BY <1>4
    <2>2. u \in DOMAIN nE2F /\ toUpperOrients[u] = 0
      BY <2>1, <1>3 DEF LeadsTo
    <2>3. Borders(Top, fixed_faces, toUpper, nE2F, u)
      BY <2>2 DEF Built, Linking, Links
    <2> QED
      BY <2>2, <2>3 DEF Borders
  <1>6. ASSUME NEW f \in Faces, fixed_faces[f] # 2, NEW j \in Corner
        PROVE  toUpper[Top.F2E[f][j]] \in Edges
    <2>1. f \in SidesIn(Top, Top.F2E[f][j]) /\ Top.F2E[f][j] \in Edges
      BY <1>1, SideFacts DEF Built, Faces
    <2>2. toUpper[Top.F2E[f][j]] # Contracted
      BY <2>1, <1>6 DEF Built, Contracting, Contracts, Edges
    <2>3. toUpper[Top.F2E[f][j]] # Dropped
      BY <2>1, <1>6 DEF Built, Linking, Links, Edges
    <2> QED
      BY <2>1, <2>2, <2>3, <1>2
  <1>7. ASSUME NEW f \in Faces, fixed_faces[f] = 2
        PROVE  f \notin UpperFaces
    <2>1. PICK j \in Corner : toUpper[Top.F2E[f][j]] = Contracted
      BY <1>7 DEF Built, Contracting, Contracts, Faces
    <2> QED
      BY <2>1, <1>1, <1>4 DEF UpperFaces
  <1>8. UpperFaces = {f \in Faces : fixed_faces[f] # 2}
    BY <1>1, <1>4, <1>6, <1>7 DEF UpperFaces
  <1> QED
    BY <1>3, <1>4, <1>5, <1>6, <1>8

(* The first edge of a chain, or one without a turn, has the difference.     *)
LEMMA UpperDiffFacts ==
  ASSUME Built, NEW u \in UpperEdges
  PROVE  UpperDiff(u) = Top.diff[u]
  <1> DEFINE S == {e \in Below(u) : toUpperOrients[e] = 0}
  <1>1. u \in S /\ u \in Edges
    BY UpperFacts DEF Below
  <1>2. PICK n \in Nat : Edges \subseteq 1 .. n
    BY DEF Built, Level, Graph, Bounded, Edges
  <1>3. S \in SUBSET (1 .. n) /\ S # {}
    BY <1>1, <1>2 DEF Below
  <1>4. Max(S) \in S
    <2> HIDE DEF S
    <2> QED
      BY <1>3, MaxIn
  <1>5. PICK m \in Edges : m = Max(S) /\ toUpper[m] = u /\ toUpperOrients[m] = 0
    BY <1>4 DEF Below
  <1>6. Top.diff[u] = rshift90(Top.diff[m], 0)
    BY <1>1, <1>5, UpperFacts DEF LeadsTo
  <1>7. Top.diff[m] \in Vec
    BY GraphFacts DEF Built, Level, Edges
  <1> QED
    BY <1>5, <1>6, <1>7, Turned DEF UpperDiff

LEMMA UpperAllowFacts ==
  ASSUME Built, NEW u \in UpperEdges, NEW d \in 1 .. 2
  PROVE  UpperAllow(u, d) \in {0, 1}
  <1> DEFINE At(e) == IF toUpperOrients[e] % 2 = 0 THEN d ELSE 3 - d
             decided == {e \in Below(u) : Top.allow[e][At(e)] # 1}
  <1>1. \A e : At(e) \in 1 .. 2
    OBVIOUS
  <1>2. PICK n \in Nat : Edges \subseteq 1 .. n
    BY DEF Built, Level, Graph, Bounded, Edges
  <1>3. decided \in SUBSET (1 .. n) /\ decided \subseteq Edges
    BY <1>2 DEF Below
  <1>4. \A e \in Edges : \A c \in 1 .. 2 : Top.allow[e][c] \in {0, 1}
    BY DEF Built, Level, Graph, Edges
  <1>5. UpperAllow(u, d) = IF decided = {} THEN 1 ELSE Top.allow[Max(decided)][At(Max(decided))]
    BY DEF UpperAllow
  <1>6. decided # {} => Max(decided) \in Edges
    <2> HIDE DEF decided
    <2> QED
      BY <1>3, MaxIn
  <1> HIDE DEF decided, At
  <1> QED
    BY <1>1, <1>4, <1>5, <1>6

LEMMA TurnsAway == \A q, o \in 0 .. 3 : /\ (q + 4 - o) % 4 \in 0 .. 3
                                        /\ (o + ((q + 4 - o) % 4)) % 4 = q
                                        /\ (((q + 4 - o) % 4) + o) % 4 = q
  OBVIOUS

LEMMA UpperIsLevel ==
  ASSUME Built
  PROVE  Level(UpperLevel) /\ Closed(UpperLevel)
  <1> DEFINE U == UpperLevel
  <1>1. /\ U.F2E = [f \in UpperFaces |-> [j \in Corner |-> toUpper[Top.F2E[f][j]]]]
        /\ U.FQ = [f \in UpperFaces |->
                     [j \in Corner |-> (Top.FQ[f][j] + 4 - toUpperOrients[Top.F2E[f][j]]) % 4]]
        /\ U.E2F = [u \in UpperEdges |->
                      [s \in 1 .. 2 |-> IF nE2F[u][s] \in UpperFaces THEN nE2F[u][s] ELSE None]]
        /\ U.diff = [u \in UpperEdges |-> UpperDiff(u)]
        /\ U.allow = [u \in UpperEdges |-> <<UpperAllow(u, 1), UpperAllow(u, 2)>>]
        /\ U.sing = Top.sing \intersect UpperFaces
    BY DEF UpperLevel
  <1> HIDE DEF U
  <1>2. DOMAIN U.diff = UpperEdges /\ DOMAIN U.F2E = UpperFaces
    BY <1>1
  <1>3. /\ UpperEdges \subseteq Edges /\ UpperFaces = {f \in Faces : fixed_faces[f] # 2}
        /\ UpperFaces \subseteq Faces
        /\ \A f \in UpperFaces : \A j \in Corner :
             toUpper[Top.F2E[f][j]] \in Edges /\ Top.F2E[f][j] \in Edges
    BY UpperFacts, GraphFacts DEF Built, Level, Edges, Faces
  <1>4. \A f \in UpperFaces : \A j \in Corner :
          /\ toUpper[Top.F2E[f][j]] \in UpperEdges
          /\ LeadsTo(Top, fixed_faces, toUpper, toUpperOrients, nE2F, Top.F2E[f][j], toUpper[Top.F2E[f][j]])
    BY <1>3, UpperFacts
  <1>5. \A f \in UpperFaces : \A j \in Corner :
          Top.FQ[f][j] \in 0 .. 3 /\ toUpperOrients[Top.F2E[f][j]] \in 0 .. 3
    BY <1>3, GraphFacts DEF Built, Level, Contracting, Contracts, Edges, Faces
  <1>6. /\ \A f \in UpperFaces : \A j \in Corner : U.F2E[f][j] = toUpper[Top.F2E[f][j]]
        /\ \A f \in UpperFaces : \A j \in Corner :
             U.FQ[f][j] = (Top.FQ[f][j] + 4 - toUpperOrients[Top.F2E[f][j]]) % 4
        /\ \A u \in UpperEdges : U.diff[u] = Top.diff[u]
    BY <1>1, UpperDiffFacts
  <1>7. Graph(U)
    <2>1. Bounded(DOMAIN U.diff) /\ Bounded(DOMAIN U.F2E)
      BY <1>2, <1>3 DEF Built, Level, Graph, Bounded, Edges, Faces
    <2>2. U.F2E \in [DOMAIN U.F2E -> [Corner -> DOMAIN U.diff]]
      BY <1>1, <1>2, <1>4
    <2>3. U.FQ \in [DOMAIN U.F2E -> [Corner -> 0 .. 3]]
      <3>1. \A f \in UpperFaces : \A j \in Corner :
              U.FQ[f][j] \in 0 .. 3
        BY <1>5, <1>6, TurnsAway
      <3>2. DOMAIN U.F2E = UpperFaces
        BY <1>2
      <3>3. U.FQ = [f \in UpperFaces |-> [j \in Corner |-> (Top.FQ[f][j] + 4 - toUpperOrients[Top.F2E[f][j]]) % 4]]
        BY <1>1
      <3>4. \A f \in UpperFaces : U.FQ[f] \in [Corner -> 0 .. 3]
        BY ONLY <3>1, <3>3
      <3> QED
        BY ONLY <3>2, <3>3, <3>4
    <2>4. U.diff \in [DOMAIN U.diff -> Vec]
      BY <1>1, <1>2, <1>3, <1>6, GraphFacts DEF Built, Level, Edges
    <2>5. U.allow \in [DOMAIN U.diff -> [1 .. 2 -> {0, 1}]]
      <3>1. \A u \in UpperEdges : UpperAllow(u, 1) \in {0, 1} /\ UpperAllow(u, 2) \in {0, 1}
        BY UpperAllowFacts
      <3>2. \A u \in UpperEdges : <<UpperAllow(u, 1), UpperAllow(u, 2)>> \in [1 .. 2 -> {0, 1}]
        BY <3>1
      <3> QED
        BY <1>1, <1>2, <3>2
    <2>6. {"diff", "FQ"} \subseteq DOMAIN U
      BY DEF U, UpperLevel
    <2> QED
      BY <2>1, <2>2, <2>3, <2>4, <2>5, <2>6 DEF Graph
  <1>8. ASSUME NEW u \in UpperEdges
        PROVE  /\ toUpper[u] = u /\ Borders(Top, fixed_faces, toUpper, nE2F, u)
               /\ \A s \in 1 .. 2 : nE2F[u][s] = None \/ nE2F[u][s] \in UpperFaces
               /\ \A s \in 1 .. 2 : U.E2F[u][s] = nE2F[u][s]
    <2>1. toUpper[u] = u /\ Borders(Top, fixed_faces, toUpper, nE2F, u)
      BY UpperFacts
    <2>2. nE2F[u] \in [1 .. 2 -> Faces \union {None}]
      BY <2>1 DEF Borders, Faces
    <2>3. \A s \in 1 .. 2 : nE2F[u][s] # None => nE2F[u][s] \in Faces /\ fixed_faces[nE2F[u][s]] # 2
      BY <2>1, <2>2 DEF Borders
    <2>4. \A s \in 1 .. 2 : nE2F[u][s] = None \/ nE2F[u][s] \in UpperFaces
      BY <2>3, <1>3
    <2> QED
      BY <2>1, <2>4, <1>1
  <1>9. Sided(U)
    <2>1. U.E2F \in [DOMAIN U.diff -> [1 .. 2 -> DOMAIN U.F2E \union {None}]]
      BY <1>1, <1>2
    <2>2. ASSUME NEW f \in UpperFaces, NEW j \in Corner
          PROVE  f \in SidesIn(U, U.F2E[f][j])
      <3>1. PICK u \in UpperEdges, e \in Edges :
              /\ u = toUpper[Top.F2E[f][j]] /\ e = Top.F2E[f][j]
              /\ LeadsTo(Top, fixed_faces, toUpper, toUpperOrients, nE2F, e, u)
        BY <1>3, <1>4
      <3>2. f \in SidesIn(Top, e) /\ fixed_faces[f] # 2
        BY <3>1, <1>3, SideFacts DEF Built, Faces
      <3>3. f \in {nE2F[u][1], nE2F[u][2]} /\ f # None
        BY <3>1, <3>2 DEF LeadsTo, SidesIn
      <3>4. U.E2F[u][1] = nE2F[u][1] /\ U.E2F[u][2] = nE2F[u][2]
        BY <1>8
      <3> QED
        BY <3>1, <3>3, <3>4, <1>6 DEF SidesIn
    <2>3. ASSUME NEW u \in UpperEdges
          PROVE  /\ U.E2F[u][1] # None
                 /\ \A f \in SidesIn(U, u) : \E j \in Corner : U.F2E[f][j] = u
                 /\ U.E2F[u][1] # U.E2F[u][2] =>
                      \A f \in UpperFaces : \A j, k \in Corner :
                        U.F2E[f][j] = u /\ U.F2E[f][k] = u => j = k
      <3>1. U.E2F[u][1] = nE2F[u][1] /\ U.E2F[u][2] = nE2F[u][2]
        BY <1>8
      <3>2. nE2F[u][1] # None
        BY <1>8 DEF Borders
      <3>3. ASSUME NEW f \in SidesIn(U, u) PROVE \E j \in Corner : U.F2E[f][j] = u
        <4>1. PICK s \in 1 .. 2 : f = nE2F[u][s] /\ f # None
          BY <3>1 DEF SidesIn
        <4>2. \E j \in Corner : toUpper[Top.F2E[f][j]] = u
          BY <4>1, <1>8 DEF Borders
        <4>3. f \in UpperFaces
          BY <4>1, <1>8
        <4> QED
          BY <4>2, <4>3, <1>6
      <3>4. ASSUME U.E2F[u][1] # U.E2F[u][2], NEW f \in UpperFaces, NEW j \in Corner, NEW k \in Corner,
                   U.F2E[f][j] = u, U.F2E[f][k] = u
            PROVE  j = k
        <4>1. toUpper[Top.F2E[f][j]] = u /\ toUpper[Top.F2E[f][k]] = u
          BY <3>4, <1>6
        <4>2. f \in DOMAIN Top.F2E /\ fixed_faces[f] # 2 /\ nE2F[u][1] # nE2F[u][2]
          BY <3>1, <3>4, <1>3 DEF Faces
        <4> QED
          BY <4>1, <4>2, <1>8 DEF Borders
      <3> QED
        BY <3>1, <3>2, <3>3, <3>4
    <2> QED
      BY <2>1, <2>2, <2>3, <1>2 DEF Sided
  <1>10. ASSUME NEW f \in UpperFaces, f \notin U.sing PROVE Residual(U, f) = Zero
    <2>1. ASSUME NEW j \in Corner
          PROVE  rshift90(U.diff[U.F2E[f][j]], U.FQ[f][j]) = rshift90(Top.diff[Top.F2E[f][j]], Top.FQ[f][j])
      <3>1. PICK u \in UpperEdges, e \in Edges, q \in 0 .. 3, o \in 0 .. 3 :
              /\ u = toUpper[Top.F2E[f][j]] /\ e = Top.F2E[f][j] /\ q = Top.FQ[f][j] /\ o = toUpperOrients[e]
              /\ LeadsTo(Top, fixed_faces, toUpper, toUpperOrients, nE2F, e, u)
        BY <1>3, <1>4, <1>5
      <3>2. U.F2E[f][j] = u /\ U.FQ[f][j] = (q + 4 - o) % 4 /\ U.diff[u] = rshift90(Top.diff[e], o)
        BY <3>1, <1>6 DEF LeadsTo
      <3>3. Top.diff[e] \in Vec
        BY GraphFacts DEF Built, Level, Edges
      <3>4. rshift90(rshift90(Top.diff[e], o), (q + 4 - o) % 4) = rshift90(Top.diff[e], q)
        BY <3>3, TurnTwice, TurnsAway
      <3> QED
        BY <3>1, <3>2, <3>4
    <2>2. Residual(U, f) = Residual(Top, f)
      BY <2>1 DEF Residual, Corner
    <2>3. f \in Faces /\ f \notin Top.sing
      BY <1>1, <1>3, <1>10
    <2> QED
      BY <2>2, <2>3 DEF Built, Closed, Faces
  <1>11. Closed(U)
    BY <1>2, <1>10 DEF Closed
  <1> QED
    BY <1>7, <1>9, <1>11 DEF Level, U

-----------------------------------------------------------------------------
(***************************************************************************)
(* What PropagateEdge would make of a new level.                           *)
(***************************************************************************)
Survives(upper, below, up) ==
  LET L == Lowered(upper, below, up)
      LeadsUp(f) == \E j \in Corner : up.edge[below.F2E[f][j]] >= 0
  IN  /\ \A e \in DOMAIN below.diff :
           \/ L.diff[e] = below.diff[e]
           \/ \A f \in {below.E2F[e][1], below.E2F[e][2]} \ {None} : ~ LeadsUp(f)
      /\ L.FQ = below.FQ

LEMMA UpperSurvives ==
  ASSUME Built
  PROVE  Survives(UpperLevel, Top, [edge |-> toUpper, orient |-> toUpperOrients])
  <1> DEFINE up == [edge |-> toUpper, orient |-> toUpperOrients]
             L == Lowered(UpperLevel, Top, up)
  <1>1. /\ up.edge = toUpper /\ up.orient = toUpperOrients
        /\ DOMAIN UpperLevel.diff = UpperEdges /\ DOMAIN UpperLevel.F2E = UpperFaces
        /\ \A u \in UpperEdges : UpperLevel.diff[u] = Top.diff[u]
        /\ \A f \in UpperFaces : \A j \in Corner :
             UpperLevel.FQ[f][j] = (Top.FQ[f][j] + 4 - toUpperOrients[Top.F2E[f][j]]) % 4
    BY UpperDiffFacts DEF UpperLevel
  <1>2. {"diff", "FQ"} \subseteq DOMAIN Top
    BY DEF Built, Level, Graph
  <1>3. /\ L.diff = [e \in Edges |-> IF toUpper[e] \in UpperEdges
                                     THEN rshift90(UpperLevel.diff[toUpper[e]], (4 - toUpperOrients[e]) % 4)
                                     ELSE Zero]
        /\ L.FQ = [f \in Faces |-> IF f \in UpperFaces
                                   THEN [j \in Corner |-> (UpperLevel.FQ[f][j] + toUpperOrients[Top.F2E[f][j]]) % 4]
                                   ELSE Top.FQ[f]]
    <2>1. PICK V, M, w : V = UpperLevel /\ M = Top /\ w = up
      OBVIOUS
    <2>2. /\ w.edge = toUpper /\ w.orient = toUpperOrients /\ L = Lowered(V, M, w)
          /\ DOMAIN V.diff = UpperEdges /\ DOMAIN V.F2E = UpperFaces
          /\ {"diff", "FQ"} \subseteq DOMAIN M /\ DOMAIN M.diff = Edges /\ DOMAIN M.F2E = Faces
      BY <1>1, <1>2, <2>1 DEF Edges, Faces
    <2> HIDE DEF L, up
    <2>3. /\ L.diff = [e \in DOMAIN M.diff |-> IF w.edge[e] \in DOMAIN V.diff
                                       THEN rshift90(V.diff[w.edge[e]], (4 - w.orient[e]) % 4)
                                       ELSE Zero]
          /\ L.FQ = [f \in DOMAIN M.F2E |-> IF f \in DOMAIN V.F2E
                                      THEN [j \in Corner |-> (V.FQ[f][j] + w.orient[M.F2E[f][j]]) % 4]
                                      ELSE M.FQ[f]]
      BY ONLY <2>2 DEF Lowered
    <2> QED
      BY ONLY <2>1, <2>2, <2>3
  <1> HIDE DEF L, up
  <1>4. /\ \A e \in Edges : Top.diff[e] \in Vec /\ toUpperOrients[e] \in 0 .. 3
        /\ \A e \in Edges : toUpper[e] \in Edges \union {Contracted, Dropped}
        /\ \A f \in Faces : \A j \in Corner : Top.F2E[f][j] \in Edges /\ Top.FQ[f][j] \in 0 .. 3
        /\ Top.FQ \in [Faces -> [Corner -> 0 .. 3]]
        /\ Edges \subseteq Nat
    BY GraphFacts DEF Built, Level, Graph, Contracting, Contracts, Edges, Faces
  <1>5. ~ (Contracted >= 0) /\ ~ (Dropped >= 0) /\ Contracted \notin Edges /\ Dropped \notin Edges
        /\ Contracted # Dropped
    <2>1. Contracted \notin Edges /\ Dropped \notin Edges /\ Contracted # Dropped
      BY GraphFacts DEF Built, Level, Edges
    <2> QED
      BY <2>1 DEF Contracted, Dropped
  <1>6. ASSUME NEW e \in Edges, toUpper[e] \in Edges PROVE L.diff[e] = Top.diff[e]
    <2>1. PICK u \in UpperEdges, o \in 0 .. 3 :
            /\ u = toUpper[e] /\ o = toUpperOrients[e] /\ Top.diff[u] = rshift90(Top.diff[e], o)
      BY <1>4, <1>6, UpperFacts DEF LeadsTo
    <2>2. L.diff[e] = rshift90(rshift90(Top.diff[e], o), (4 - o) % 4)
      BY <1>1, <1>3, <2>1
    <2> QED
      BY <2>2, <1>4, TurnBack
  <1>7. ASSUME NEW e \in Edges, toUpper[e] = Contracted PROVE L.diff[e] = Top.diff[e]
    <2>1. Top.diff[e] = Zero
      BY <1>7 DEF Built, Contracting, Contracts, Edges
    <2>2. toUpper[e] \notin UpperEdges
      BY <1>7 DEF UpperEdges
    <2> QED
      BY <2>1, <2>2, <1>3
  <1>8. ASSUME NEW e \in Edges, toUpper[e] = Dropped, NEW f \in SidesIn(Top, e), NEW j \in Corner
        PROVE  ~ (toUpper[Top.F2E[f][j]] >= 0)
    <2>1. f \in Faces /\ fixed_faces[f] = 2 /\ \E i \in Corner : Top.F2E[f][i] = e
      BY <1>8, SideFacts DEF Built, Linking, Links, Edges, Faces
    <2>2. PICK x \in Edges : x = Top.F2E[f][j] /\ f \in SidesIn(Top, x)
      BY <1>4, <2>1, SideFacts DEF Built, Faces
    <2>3. toUpper[x] \notin Edges
      <3> SUFFICES ASSUME toUpper[x] \in Edges PROVE FALSE
        OBVIOUS
      <3>1. LeadsTo(Top, fixed_faces, toUpper, toUpperOrients, nE2F, x, toUpper[x])
        BY UpperFacts
      <3>2. toUpper[e] \in {toUpper[x], Contracted}
        BY <2>1, <2>2, <3>1 DEF LeadsTo
      <3> QED
        BY <3>2, <1>5, <1>8
    <2> QED
      BY <2>2, <2>3, <1>4, <1>5
  <1>9. L.FQ = Top.FQ
    <2>1. ASSUME NEW f \in UpperFaces
          PROVE  [j \in Corner |-> (UpperLevel.FQ[f][j] + toUpperOrients[Top.F2E[f][j]]) % 4] = Top.FQ[f]
      <3>1. f \in Faces
        BY UpperFacts
      <3>2. ASSUME NEW j \in Corner
            PROVE  (UpperLevel.FQ[f][j] + toUpperOrients[Top.F2E[f][j]]) % 4 = Top.FQ[f][j]
        <4>1. PICK q \in 0 .. 3, o \in 0 .. 3 : q = Top.FQ[f][j] /\ o = toUpperOrients[Top.F2E[f][j]]
          BY <1>4, <3>1
        <4>2. UpperLevel.FQ[f][j] = (q + 4 - o) % 4
          BY <1>1, <4>1
        <4>3. (((q + 4 - o) % 4) + o) % 4 = q
          BY ONLY q \in 0 .. 3, o \in 0 .. 3, TurnsAway
        <4> QED
          BY ONLY <4>1, <4>2, <4>3
      <3>3. Top.FQ[f] \in [Corner -> 0 .. 3]
        BY <1>4, <3>1
      <3> QED
        BY <3>2, <3>3
    <2> QED
      BY <2>1, <1>3, <1>4
  <1>10. \A e \in Edges :
           \/ L.diff[e] = Top.diff[e]
           \/ \A f \in SidesIn(Top, e) : ~ \E j \in Corner : toUpper[Top.F2E[f][j]] >= 0
    BY <1>4, <1>6, <1>7, <1>8
  <1> QED
    BY <1>1, <1>9, <1>10 DEF Survives, SidesIn, Edges, L, up

-----------------------------------------------------------------------------
(***************************************************************************)
(* The first level of a hierarchy: the faces at an edge are its sides.     *)
(***************************************************************************)
At(F2E, e, h) == \E j \in Corner : F2E[h][j] = e
Once(F2E, e, h) == \A j, k \in Corner : F2E[h][j] = e /\ F2E[h][k] = e => j = k

TwoFaces(F2E, edges) ==
  \A e \in edges : \E f, g \in DOMAIN F2E :
    /\ \A h \in DOMAIN F2E : At(F2E, e, h) <=> h \in {f, g}
    /\ f # g => \A h \in DOMAIN F2E : Once(F2E, e, h)

LEMMA LeastAndGreatest ==
  ASSUME NEW n \in Nat, NEW f \in 1 .. n, NEW g \in 1 .. n
  PROVE  /\ {Min({f, g}), Max({f, g})} = {f, g}
         /\ f # g => Min({f, g}) # Max({f, g})
  <1>1. PICK x \in {f, g}, y \in {f, g} : /\ \A z \in {f, g} : x <= z
                                          /\ \A z \in {f, g} : y >= z
    <2>1. CASE f <= g
      <3>1. /\ \A z \in {f, g} : f <= z
            /\ \A z \in {f, g} : g >= z
        BY <2>1
      <3> QED
        BY <3>1
    <2>2. CASE ~ (f <= g)
      <3>1. /\ \A z \in {f, g} : g <= z
            /\ \A z \in {f, g} : f >= z
        BY <2>2
      <3> QED
        BY <3>1
    <2> QED
      BY <2>1, <2>2
  <1>2. Min({f, g}) \in {f, g} /\ \A z \in {f, g} : Min({f, g}) <= z
    BY <1>1 DEF Min
  <1>3. Max({f, g}) \in {f, g} /\ \A z \in {f, g} : Max({f, g}) >= z
    BY <1>1 DEF Max
  <1> QED
    BY <1>2, <1>3

Between(F2E, edges, e, f, g, s) ==
  /\ F2E \in [DOMAIN F2E -> [Corner -> edges]] /\ Bounded(DOMAIN F2E)
  /\ e \in edges /\ f \in DOMAIN F2E /\ g \in DOMAIN F2E
  /\ \A h \in DOMAIN F2E : At(F2E, e, h) <=> h \in {f, g}
  /\ s = Sides(F2E, edges)[e]

LEMMA SidesFound ==
  ASSUME NEW F2E, NEW edges, NEW e, NEW f, NEW g, NEW s, Between(F2E, edges, e, f, g, s)
  PROVE  /\ s \in [1 .. 2 -> DOMAIN F2E \union {None}] /\ s[1] # None
         /\ {s[1], s[2]} \ {None} = {f, g}
         /\ s[1] # s[2] /\ f = g => \A h \in DOMAIN F2E : Once(F2E, e, h)
  <1> DEFINE uses == {d \in (DOMAIN F2E) \X Corner : F2E[d[1]][d[2]] = e}
             fs == {d[1] : d \in uses}
  <1>0. /\ F2E \in [DOMAIN F2E -> [Corner -> edges]] /\ Bounded(DOMAIN F2E)
        /\ e \in edges /\ f \in DOMAIN F2E /\ g \in DOMAIN F2E
        /\ \A h \in DOMAIN F2E : At(F2E, e, h) <=> h \in {f, g}
        /\ s = Sides(F2E, edges)[e]
    BY DEF Between
  <1>1. s = <<Min(fs), IF Cardinality(uses) = 1 THEN None ELSE Max(fs)>>
    BY <1>0 DEF Sides
  <1>2. fs = {f, g}
    <2>1. ASSUME NEW h \in fs PROVE h \in {f, g}
      <3>1. PICK d \in uses : h = d[1]
        OBVIOUS
      <3>2. h \in DOMAIN F2E /\ d[2] \in Corner /\ F2E[h][d[2]] = e
        BY <3>1
      <3> QED
        BY <3>2, <1>0 DEF At
    <2>2. ASSUME NEW h \in {f, g} PROVE h \in fs
      <3>1. PICK j \in Corner : F2E[h][j] = e
        BY <1>0 DEF At
      <3>2. <<h, j>> \in uses /\ <<h, j>>[1] = h
        BY <3>1, <1>0
      <3> QED
        BY <3>2
    <2> QED
      BY <2>1, <2>2
  <1>3. PICK n \in Nat : DOMAIN F2E \subseteq 1 .. n
    BY <1>0 DEF Bounded
  <1>4. IsFiniteSet(uses)
    <2>1. IsFiniteSet(DOMAIN F2E) /\ IsFiniteSet(Corner)
      <3>0. 1 \in Int /\ n \in Int /\ 3 \in Int
        OBVIOUS
      <3>1. IsFiniteSet(1 .. n) /\ IsFiniteSet(1 .. 3)
        BY <3>0, FS_Interval
      <3> QED
        BY <3>1, <1>3, FS_Subset DEF Corner
    <2>2. IsFiniteSet((DOMAIN F2E) \X Corner)
      BY <2>1, FS_Product
    <2>3. uses \subseteq (DOMAIN F2E) \X Corner
      OBVIOUS
    <2> QED
      BY <2>2, <2>3, FS_Subset
  <1>5. Cardinality(uses) = 1 => \E d : uses = {d}
    <2> HIDE DEF uses
    <2> QED
      BY <1>4, FS_Singleton
  <1> HIDE DEF fs
  <1>6. /\ {Min(fs), Max(fs)} = {f, g} /\ (f # g => Min(fs) # Max(fs))
        /\ None \notin DOMAIN F2E
    <2>1. {Min({f, g}), Max({f, g})} = {f, g} /\ (f # g => Min({f, g}) # Max({f, g}))
      <3>1. n \in Nat /\ f \in 1 .. n /\ g \in 1 .. n
        BY <1>0, <1>3
      <3> QED
        BY ONLY <3>1, LeastAndGreatest, ZenonT(40)
    <2>2. None \notin DOMAIN F2E
      BY <1>3 DEF None
    <2> QED
      BY <2>1, <2>2, <1>2
  <1>7. CASE Cardinality(uses) = 1
    <2>1. PICK d : uses = {d}
      BY <1>5, <1>7
    <2>2. f = g
      <3>1. \A h \in fs : h = d[1]
        BY <2>1 DEF fs
      <3>2. f \in fs /\ g \in fs
        BY ONLY <1>2
      <3> QED
        BY ONLY <3>1, <3>2
    <2>3. s = <<f, None>>
      BY <1>1, <1>6, <1>7, <2>2
    <2>4. \A h \in DOMAIN F2E : \A j, k \in Corner : F2E[h][j] = e /\ F2E[h][k] = e => j = k
      <3> SUFFICES ASSUME NEW h \in DOMAIN F2E, NEW j \in Corner, NEW k \in Corner,
                          F2E[h][j] = e, F2E[h][k] = e
                   PROVE  j = k
        OBVIOUS
      <3>1. <<h, j>> \in uses /\ <<h, k>> \in uses
        OBVIOUS
      <3>2. <<h, j>> = <<h, k>>
        BY <3>1, <2>1
      <3> QED
        BY <3>2
    <2>5. s \in [1 .. 2 -> DOMAIN F2E \union {None}]
      BY <2>3, <1>0
    <2> QED
      BY <2>2, <2>3, <2>4, <2>5, <1>0, <1>6 DEF Once
  <1>8. CASE Cardinality(uses) # 1
    <2>1. s = <<Min(fs), Max(fs)>>
      BY <1>1, <1>8
    <2>2. s \in [1 .. 2 -> DOMAIN F2E \union {None}]
      <3>1. Min(fs) \in DOMAIN F2E /\ Max(fs) \in DOMAIN F2E
        BY <1>0, <1>6
      <3> QED
        BY <2>1, <3>1
    <2>3. s[1] = Min(fs) /\ s[2] = Max(fs)
      BY <2>1
    <2>4. f = g => s[1] = s[2]
      BY <2>3, <1>6
    <2> QED
      BY <2>2, <2>3, <2>4, <1>0, <1>6
  <1> QED
    BY <1>7, <1>8

LEMMA FirstIsLevel ==
  ASSUME NEW F2E, NEW FQ, NEW diff, NEW allow, Bounded(DOMAIN diff), Bounded(DOMAIN F2E),
         F2E \in [DOMAIN F2E -> [Corner -> DOMAIN diff]], FQ \in [DOMAIN F2E -> [Corner -> 0 .. 3]],
         diff \in [DOMAIN diff -> Vec], allow \in [DOMAIN diff -> [1 .. 2 -> {0, 1}]],
         TwoFaces(F2E, DOMAIN diff)
  PROVE  Level(FirstLevel(F2E, FQ, diff, allow)) /\ Closed(FirstLevel(F2E, FQ, diff, allow))
  <1>1. PICK L : L = FirstLevel(F2E, FQ, diff, allow)
    OBVIOUS
  <1>2. /\ L.F2E = F2E /\ L.FQ = FQ /\ L.diff = diff /\ L.allow = allow
        /\ L.E2F = Sides(F2E, DOMAIN diff) /\ {"diff", "FQ"} \subseteq DOMAIN L
        /\ L.sing = {f \in DOMAIN F2E : Residual([F2E |-> F2E, FQ |-> FQ, diff |-> diff], f) # Zero}
    BY <1>1 DEF FirstLevel
  <1>3. Graph(L)
    BY <1>2 DEF Graph
  <1>4. ASSUME NEW f \in DOMAIN L.F2E, f \notin L.sing PROVE Residual(L, f) = Zero
    <2>1. Residual([F2E |-> F2E, FQ |-> FQ, diff |-> diff], f) = Residual(L, f)
      BY <1>2 DEF Residual
    <2> QED
      BY <2>1, <1>2, <1>4
  <1>5. ASSUME NEW e \in DOMAIN diff
        PROVE  /\ L.E2F[e] \in [1 .. 2 -> DOMAIN F2E \union {None}] /\ L.E2F[e][1] # None
               /\ \A h \in DOMAIN F2E : At(F2E, e, h) <=> h \in SidesIn(L, e)
               /\ SidesIn(L, e) \subseteq DOMAIN F2E
               /\ L.E2F[e][1] # L.E2F[e][2] => \A h \in DOMAIN F2E : Once(F2E, e, h)
    <2>1. PICK f \in DOMAIN F2E, g \in DOMAIN F2E :
            /\ \A h \in DOMAIN F2E : At(F2E, e, h) <=> h \in {f, g}
            /\ f # g => \A h \in DOMAIN F2E : Once(F2E, e, h)
      BY DEF TwoFaces
    <2>2. L.E2F[e] = Sides(F2E, DOMAIN diff)[e]
      BY <1>2
    <2>3. /\ L.E2F[e] \in [1 .. 2 -> DOMAIN F2E \union {None}] /\ L.E2F[e][1] # None
          /\ {L.E2F[e][1], L.E2F[e][2]} \ {None} = {f, g}
          /\ L.E2F[e][1] # L.E2F[e][2] /\ f = g => \A h \in DOMAIN F2E : Once(F2E, e, h)
      <3>1. PICK s : s = L.E2F[e]
        OBVIOUS
      <3>2. /\ F2E \in [DOMAIN F2E -> [Corner -> DOMAIN diff]] /\ Bounded(DOMAIN F2E)
            /\ f \in DOMAIN F2E /\ g \in DOMAIN F2E /\ e \in DOMAIN diff
            /\ s = Sides(F2E, DOMAIN diff)[e]
            /\ \A h \in DOMAIN F2E : At(F2E, e, h) <=> h \in {f, g}
        BY <2>1, <2>2, <3>1
      <3>3. /\ s \in [1 .. 2 -> DOMAIN F2E \union {None}] /\ s[1] # None
            /\ {s[1], s[2]} \ {None} = {f, g}
            /\ s[1] # s[2] /\ f = g => \A h \in DOMAIN F2E : Once(F2E, e, h)
        <4>1. Between(F2E, DOMAIN diff, e, f, g, s)
          BY ONLY <3>2 DEF Between
        <4> QED
          BY ONLY <4>1, SidesFound
      <3> QED
        BY ONLY <3>1, <3>3
    <2> QED
      BY <2>1, <2>3 DEF SidesIn
  <1>6. L.E2F \in [DOMAIN L.diff -> [1 .. 2 -> DOMAIN L.F2E \union {None}]]
    <2>1. DOMAIN L.E2F = DOMAIN diff /\ L.E2F = [e \in DOMAIN diff |-> L.E2F[e]]
      BY <1>2 DEF Sides
    <2> QED
      BY <2>1, <1>2, <1>5
  <1>7. \A f \in DOMAIN L.F2E : \A j \in Corner : f \in SidesIn(L, L.F2E[f][j])
    <2>1. \A f \in DOMAIN F2E : \A j \in Corner : F2E[f][j] \in DOMAIN diff /\ At(F2E, F2E[f][j], f)
      BY DEF At
    <2> QED
      BY <2>1, <1>2, <1>5
  <1>8. ASSUME NEW e \in DOMAIN L.diff
        PROVE  /\ L.E2F[e][1] # None
               /\ \A f \in SidesIn(L, e) : \E j \in Corner : L.F2E[f][j] = e
               /\ L.E2F[e][1] # L.E2F[e][2] =>
                    \A f \in DOMAIN L.F2E : \A j, k \in Corner :
                      L.F2E[f][j] = e /\ L.F2E[f][k] = e => j = k
    BY <1>2, <1>5 DEF At, Once
  <1>9. Sided(L)
    BY <1>6, <1>7, <1>8 DEF Sided
  <1> QED
    BY <1>1, <1>3, <1>4, <1>9 DEF Level, Closed

(* A level is a mesh, whose first level can be built.                        *)
LEMMA LevelIsMesh ==
  ASSUME NEW L, Level(L)
  PROVE  TwoFaces(L.F2E, DOMAIN L.diff)
  <1> SUFFICES ASSUME NEW e \in DOMAIN L.diff
               PROVE  \E f, g \in DOMAIN L.F2E :
                        /\ \A h \in DOMAIN L.F2E : At(L.F2E, e, h) <=> h \in {f, g}
                        /\ f # g => \A h \in DOMAIN L.F2E : Once(L.F2E, e, h)
    BY DEF TwoFaces
  <1>1. /\ SidesIn(L, e) \subseteq DOMAIN L.F2E /\ L.E2F[e][1] \in SidesIn(L, e)
        /\ L.E2F[e][2] # None => L.E2F[e][2] \in SidesIn(L, e)
        /\ \A h \in DOMAIN L.F2E : At(L.F2E, e, h) <=> h \in SidesIn(L, e)
    BY SideFacts DEF At
  <1>2. L.E2F[e][1] # L.E2F[e][2] => \A h \in DOMAIN L.F2E : Once(L.F2E, e, h)
    BY DEF Level, Sided, Once
  <1>3. CASE L.E2F[e][2] = None
    <2>1. PICK f \in DOMAIN L.F2E : f = L.E2F[e][1] /\ SidesIn(L, e) = {f, f}
      BY <1>1, <1>3 DEF SidesIn
    <2> QED
      BY <2>1, <1>1
  <1>4. CASE L.E2F[e][2] # None
    <2>1. PICK f \in DOMAIN L.F2E, g \in DOMAIN L.F2E :
            f = L.E2F[e][1] /\ g = L.E2F[e][2] /\ SidesIn(L, e) = {f, g}
      BY <1>1, <1>4 DEF SidesIn
    <2> QED
      BY <2>1, <1>1, <1>2
  <1> QED
    BY <1>3, <1>4

LEMMA MeshIsGraph ==
  ASSUME NEW m, Triangulated(m)
  PROVE  /\ Bounded(DOMAIN m.diff) /\ Bounded(DOMAIN m.F2E)
         /\ m.F2E \in [DOMAIN m.F2E -> [Corner -> DOMAIN m.diff]]
         /\ m.FQ \in [DOMAIN m.F2E -> [Corner -> 0 .. 3]]
         /\ m.diff \in [DOMAIN m.diff -> Vec] /\ m.allow \in [DOMAIN m.diff -> [1 .. 2 -> {0, 1}]]
         /\ TwoFaces(m.F2E, DOMAIN m.diff)
  <1>1. /\ m.diff \in Seq(Vec) /\ m.F2E \in Seq([Corner -> DOMAIN m.diff])
        /\ m.FQ \in [DOMAIN m.F2E -> [Corner -> 0 .. 3]]
        /\ m.allow \in [DOMAIN m.diff -> [1 .. 2 -> {0, 1}]]
    BY DEF Triangulated, Vec, Corner
  <1>2. /\ DOMAIN m.diff = 1 .. Len(m.diff) /\ Len(m.diff) \in Nat
        /\ DOMAIN m.F2E = 1 .. Len(m.F2E) /\ Len(m.F2E) \in Nat
        /\ m.diff \in [DOMAIN m.diff -> Vec] /\ m.F2E \in [DOMAIN m.F2E -> [Corner -> DOMAIN m.diff]]
    BY <1>1
  <1>3. ASSUME NEW e \in DOMAIN m.diff
        PROVE  \E f, g \in DOMAIN m.F2E :
                 /\ \A h \in DOMAIN m.F2E : At(m.F2E, e, h) <=> h \in {f, g}
                 /\ f # g => \A h \in DOMAIN m.F2E : Once(m.F2E, e, h)
    <2>1. PICK f \in DOMAIN m.F2E, g \in DOMAIN m.F2E :
            {h \in DOMAIN m.F2E : \E j \in Corner : m.F2E[h][j] = e} = {f, g}
      BY DEF Triangulated, Corner
    <2>2. \A h \in DOMAIN m.F2E : Once(m.F2E, e, h)
      BY DEF Triangulated, Corner, Once
    <2>3. \A h \in DOMAIN m.F2E : At(m.F2E, e, h) <=> h \in {f, g}
      BY <2>1 DEF At
    <2> QED
      BY <2>2, <2>3
  <1> QED
    BY <1>1, <1>2, <1>3 DEF Bounded, TwoFaces

-----------------------------------------------------------------------------
(***************************************************************************)
(* FixFlip: the fan of a directed edge and the differences after it        *)
(* shrinks.                                                                *)
(***************************************************************************)
Paired == E2E \in [Dart -> Dart \union {NoDart}]

FanEnd(w, first, N) == NextInFan(Last(w))[1] \in {NoDart, first} \/ Len(w) >= N
FanBy(g, w, first, N) ==
  IF FanEnd(w, first, N) THEN Append(w, NextInFan(Last(w))) ELSE g[Append(w, NextInFan(Last(w)))]

LEMMA DartFacts ==
  ASSUME Level(Top)
  PROVE  /\ IsFiniteSet(Dart) /\ Cardinality(Dart) \in Nat
         /\ \A d \in Dart : Edge(d) \in Edges /\ Turns(d) \in 0 .. 3 /\ Next3(d) \in Dart
  <1>1. PICK n \in Nat : Faces \subseteq 1 .. n
    BY DEF Level, Graph, Bounded, Faces
  <1>2. IsFiniteSet(Faces) /\ IsFiniteSet(Corner)
    <2>0. 1 \in Int /\ n \in Int /\ 3 \in Int
      OBVIOUS
    <2>1. IsFiniteSet(1 .. n) /\ IsFiniteSet(1 .. 3)
      BY <2>0, FS_Interval
    <2> QED
      BY <1>1, <2>1, FS_Subset DEF Corner
  <1>3. IsFiniteSet(Dart)
    BY <1>2, FS_Product DEF Dart
  <1>4. ASSUME NEW d \in Dart
        PROVE  Edge(d) \in Edges /\ Turns(d) \in 0 .. 3 /\ Next3(d) \in Dart
    <2>1. d[1] \in Faces /\ d[2] \in Corner
      BY DEF Dart
    <2>2. (d[2] % 3) + 1 \in Corner
      BY <2>1 DEF Corner
    <2> QED
      BY <2>1, <2>2, GraphFacts DEF Edge, Turns, Next3, Dart, Level, Faces, Edges
  <1> QED
    BY <1>3, <1>4, FS_CardinalityType

LEMMA NextInFanTyped ==
  ASSUME Level(Top), Paired, NEW x \in Dart \X Vec
  PROVE  /\ NextInFan(x) \in (Dart \union {NoDart}) \X Vec
         /\ NextInFan(x)[1] # NoDart => NextInFan(x) \in Dart \X Vec
  <1> DEFINE t == E2E[x[1]]
             n == Next3(t)
             turned == rshift90(x[2], Turns(t))
             back == <<-turned[1], -turned[2]>>
  <1>1. x[1] \in Dart /\ x[2] \in Vec /\ t \in Dart \union {NoDart}
    BY DEF Paired
  <1>2. Zero \in Vec
    BY DEF Zero, Vec
  <1>3. CASE t = NoDart
    BY <1>2, <1>3 DEF NextInFan
  <1>4. CASE t # NoDart
    <2>1. t \in Dart /\ n \in Dart /\ Turns(t) \in 0 .. 3 /\ Turns(n) \in 0 .. 3
      BY <1>1, <1>4, DartFacts
    <2>2. turned \in Vec
      BY <1>1, <2>1, TurnType
    <2>3. back \in Vec
      <3> HIDE DEF turned
      <3> QED
        BY <2>2 DEF Vec
    <2>4. (4 - Turns(n)) % 4 \in 0 .. 3
      BY <2>1
    <2>5. rshift90(back, (4 - Turns(n)) % 4) \in Vec
      <3> HIDE DEF back, n
      <3> QED
        BY <2>3, <2>4, TurnType
    <2>6. NextInFan(x) = <<n, rshift90(back, (4 - Turns(n)) % 4)>>
      BY <1>4 DEF NextInFan
    <2> HIDE DEF back, n, t, turned
    <2> QED
      BY <2>1, <2>5, <2>6
  <1> QED
    BY <1>3, <1>4

LEMMA FanTyped ==
  ASSUME Level(Top), Paired, NEW first \in Dart
  PROVE  Fan(first) \in Seq((Dart \union {NoDart}) \X Vec)
  <1>0. PICK N, X, Y, S, V, start :
          /\ N = Cardinality(Dart) /\ X = Dart \X Vec /\ Y = (Dart \union {NoDart}) \X Vec
          /\ S = Seq(X) \ {<<>>} /\ V = Seq(Y) /\ start = <<<<first, Top.diff[Edge(first)]>>>>
    OBVIOUS
  <1>1. N \in Nat /\ X \subseteq Y
    BY <1>0, DartFacts
  <1>2. start \in S
    BY <1>0, DartFacts, GraphFacts DEF Level, Edges
  <1>3. ASSUME NEW w \in S
        PROVE  /\ Len(w) \in Nat /\ Append(w, NextInFan(Last(w))) \in V
               /\ ~ FanEnd(w, first, N) => /\ Append(w, NextInFan(Last(w))) \in S
                                           /\ Len(Append(w, NextInFan(Last(w)))) = Len(w) + 1
                                           /\ Len(w) < N
    <2>1. w \in Seq(X) /\ Len(w) \in Nat /\ Len(w) > 0 /\ Last(w) \in X
      BY <1>0 DEF Last
    <2>2. PICK y : y = NextInFan(Last(w))
      OBVIOUS
    <2>3. y \in Y /\ (y[1] # NoDart => y \in X)
      BY <1>0, <2>1, <2>2, NextInFanTyped
    <2>4. w \in Seq(Y)
      BY <1>1, <2>1
    <2>5. Append(w, y) \in V
      BY <1>0, <2>3, <2>4
    <2>6. ~ FanEnd(w, first, N) => y[1] # NoDart /\ ~ (Len(w) >= N)
      BY <2>2 DEF FanEnd
    <2>7. y \in X => Append(w, y) \in S /\ Len(Append(w, y)) = Len(w) + 1
      BY <1>0, <2>1
    <2>8. ~ (Len(w) >= N) => Len(w) < N
      BY <1>1, <2>1
    <2> QED
      BY <2>1, <2>2, <2>3, <2>5, <2>6, <2>7, <2>8
  <1>4. Fan(first) = (CHOOSE g : g = [w \in S |-> FanBy(g, w, first, N)])[start]
    BY <1>0 DEF Fan, FanBy, FanEnd, Vec
  <1>5. \E g : g = [w \in S |-> FanBy(g, w, first, N)]
    <2>1. PICK W : W = [S -> V]
      OBVIOUS
    <2>2. PICK m : m = [w \in S |-> IF Len(w) >= N THEN 0 ELSE N - Len(w)]
      OBVIOUS
    <2>3. PICK up : up = [g \in W |-> [w \in S |-> FanBy(g, w, first, N)]]
      OBVIOUS
    <2>4. \A w \in S, g \in W : FanBy(g, w, first, N) \in V
      BY <1>3, <2>1 DEF FanBy
    <2>5. \A g \in W : up[g] = [w \in S |-> FanBy(g, w, first, N)]
      BY <2>3
    <2>6. up \in [W -> W]
      <3>1. \A g \in W : [w \in S |-> FanBy(g, w, first, N)] \in W
        BY <2>1, <2>4
      <3> QED
        BY <2>3, <3>1
    <2>7. m \in [S -> Nat]
      BY <1>1, <1>3, <2>2
    <2>8. ASSUME NEW w \in S, ~ FanEnd(w, first, N) PROVE m[Append(w, NextInFan(Last(w)))] < m[w]
      <3>1. PICK u \in S : u = Append(w, NextInFan(Last(w)))
        BY <1>3, <2>8
      <3>2. Len(w) < N /\ Len(u) = Len(w) + 1 /\ Len(w) \in Nat
        BY <1>3, <2>8, <3>1
      <3>3. /\ m[w] = (IF Len(w) >= N THEN 0 ELSE N - Len(w))
            /\ m[u] = (IF Len(u) >= N THEN 0 ELSE N - Len(u))
        BY <2>2
      <3>4. m[u] < m[w]
        BY ONLY <1>1, <3>2, <3>3
      <3> QED
        BY <3>1, <3>4
    <2>9. \A w \in S : \A f, g \in W :
            (\A u \in S : m[u] < m[w] => f[u] = g[u]) => up[f][w] = up[g][w]
      <3> SUFFICES ASSUME NEW w \in S, NEW f \in W, NEW g \in W,
                          \A u \in S : m[u] < m[w] => f[u] = g[u]
                   PROVE  up[f][w] = up[g][w]
        OBVIOUS
      <3>1. FanBy(f, w, first, N) = FanBy(g, w, first, N)
        <4>1. CASE FanEnd(w, first, N)
          BY <4>1 DEF FanBy
        <4>2. CASE ~ FanEnd(w, first, N)
          <5>1. f[Append(w, NextInFan(Last(w)))] = g[Append(w, NextInFan(Last(w)))]
            BY <1>3, <2>8, <4>2
          <5> QED
            BY <4>2, <5>1 DEF FanBy
        <4> QED
          BY <4>1, <4>2
      <3>2. up[f][w] = FanBy(f, w, first, N) /\ up[g][w] = FanBy(g, w, first, N)
        BY <2>5
      <3> QED
        BY <3>1, <3>2
    <2>10. V # {}
      <3>1. start \in V
        BY <1>0, <1>1, <1>2
      <3> QED
        BY <3>1
    <2>11. ByMeasure(S, V, W, m, up)
      BY <2>1, <2>6, <2>7, <2>9, <2>10 DEF ByMeasure
    <2>12. PICK g \in W : g = up[g]
      BY <2>11, RecursionByMeasure
    <2>13. g = [w \in S |-> FanBy(g, w, first, N)]
      BY <2>5, <2>12
    <2> QED
      BY <2>13
  <1> DEFINE From == CHOOSE g : g = [w \in S |-> FanBy(g, w, first, N)]
  <1>6. From = [w \in S |-> FanBy(From, w, first, N)]
    BY <1>5
  <1>7. \A w \in S : From[w] = FanBy(From, w, first, N)
    <2> HIDE DEF From
    <2> QED
      BY <1>6
  <1> HIDE DEF From
  <1> DEFINE Bad == {n \in Nat : \E w \in S : N - Len(w) <= n /\ From[w] \notin V}
  <1>8. Bad = {}
    <2> SUFFICES ASSUME Bad # {} PROVE FALSE
      OBVIOUS
    <2>1. PICK n \in Bad : \A k \in Bad : n <= k
      BY LeastNatural
    <2>2. PICK w \in S : N - Len(w) <= n /\ From[w] \notin V
      BY <2>1
    <2>3. ~ FanEnd(w, first, N)
      BY <1>3, <1>7, <2>2 DEF FanBy
    <2>4. PICK u \in S : u = Append(w, NextInFan(Last(w)))
      BY <1>3, <2>3
    <2>5. Len(u) = Len(w) + 1 /\ From[w] = From[u] /\ Len(w) \in Nat /\ Len(w) < N
      BY <1>3, <1>7, <2>3, <2>4 DEF FanBy
    <2>6. n - 1 \in Nat /\ N - Len(u) <= n - 1
      <3>1. n \in Nat
        OBVIOUS
      <3> QED
        BY ONLY <1>1, <2>2, <2>5, <3>1
    <2>7. n - 1 \in Bad
      BY <2>2, <2>5, <2>6
    <2>8. ~ (n <= n - 1)
      OBVIOUS
    <2> QED
      BY <2>1, <2>7, <2>8
  <1>9. From[start] \in V
    <2> SUFFICES ASSUME From[start] \notin V PROVE FALSE
      OBVIOUS
    <2>1. N - Len(start) <= N
      BY <1>1, <1>2, <1>3
    <2>2. N \in Bad
      BY <1>1, <1>2, <2>1
    <2> QED
      BY <1>8, <2>2
  <1> QED
    BY <1>0, <1>4, <1>9 DEF From

Fanned(fan) == fan \in Seq((Dart \union {NoDart}) \X Vec)

ChangedBy(h, fan, i, e) ==
  [k \in 0 .. i |->
     IF k = 0 THEN Top.diff[e]
     ELSE IF Edge(fan[k][1]) = e THEN Minus(h[k - 1], fan[k][2]) ELSE h[k - 1]]

LEMMA AfterTyped ==
  ASSUME Level(Top), NEW fan, Fanned(fan), NEW i \in 1 .. Len(fan), Edge(fan[i][1]) \in Edges
  PROVE  After(fan, i) \in Vec
  <1>0. PICK e \in Edges : e = Edge(fan[i][1])
    OBVIOUS
  <1>1. Top.diff[e] \in Vec /\ i \in Nat /\ \A k \in 1 .. i : fan[k][2] \in Vec
    <2>1. Top.diff[e] \in Vec
      BY GraphFacts DEF Level, Edges
    <2>2. i \in Nat /\ \A k \in 1 .. i : k \in 1 .. Len(fan)
      BY DEF Fanned
    <2>3. \A k \in 1 .. Len(fan) : fan[k] \in (Dart \union {NoDart}) \X Vec
      BY DEF Fanned
    <2> QED
      BY <2>1, <2>2, <2>3
  <1>2. \A v, w \in Vec : Minus(v, w) \in Vec
    <2> SUFFICES ASSUME NEW v \in Vec, NEW w \in Vec PROVE Minus(v, w) \in Vec
      OBVIOUS
    <2>1. v[1] \in Int /\ v[2] \in Int /\ w[1] \in Int /\ w[2] \in Int
      BY DEF Vec
    <2>2. v[1] - w[1] \in Int /\ v[2] - w[2] \in Int
      BY <2>1
    <2> QED
      BY <2>2 DEF Minus, Vec
  <1>3. PICK step : step = [p \in (1 .. i) \X Vec |->
                              IF Edge(fan[p[1]][1]) = e THEN Minus(p[2], fan[p[1]][2]) ELSE p[2]]
    OBVIOUS
  <1>4. step \in [(1 .. i) \X Vec -> Vec]
    <2>1. \A p \in (1 .. i) \X Vec :
            (IF Edge(fan[p[1]][1]) = e THEN Minus(p[2], fan[p[1]][2]) ELSE p[2]) \in Vec
      BY <1>1, <1>2
    <2> QED
      BY <1>3, <2>1
  <1>5. PICK g \in [0 .. i -> Vec] : g[0] = Top.diff[e] /\ \A k \in 1 .. i : g[k] = step[<<k, g[k - 1]>>]
    <2>1. PICK c : c = Top.diff[e]
      OBVIOUS
    <2>2. IterateTyped(i, Vec, c, step)
      BY <1>1, <1>4, <2>1 DEF IterateTyped
    <2>3. PICK g : Iterates(g, i, Vec, c, step)
      BY ONLY <2>2, IterateRecursion
    <2> QED
      BY <2>1, <2>3 DEF Iterates
  <1>6. \E h : h = ChangedBy(h, fan, i, e)
    <2>1. \A k \in 1 .. i : g[k - 1] \in Vec /\
            g[k] = IF Edge(fan[k][1]) = e THEN Minus(g[k - 1], fan[k][2]) ELSE g[k - 1]
      <3> SUFFICES ASSUME NEW k \in 1 .. i
                   PROVE  g[k - 1] \in Vec /\
                          g[k] = IF Edge(fan[k][1]) = e THEN Minus(g[k - 1], fan[k][2]) ELSE g[k - 1]
        OBVIOUS
      <3>1. k - 1 \in 0 .. i
        BY <1>1
      <3>2. \A x \in Vec : step[<<k, x>>] = IF Edge(fan[k][1]) = e THEN Minus(x, fan[k][2]) ELSE x
        BY <1>3
      <3> QED
        BY <1>5, <3>1, <3>2
    <2>2. \A k \in 0 .. i : k = 0 \/ k \in 1 .. i
      BY <1>1
    <2>3. \A k \in 0 .. i : g[k] = ChangedBy(g, fan, i, e)[k]
      BY <1>5, <2>1, <2>2 DEF ChangedBy
    <2>4. g = [k \in 0 .. i |-> g[k]]
      OBVIOUS
    <2>5. g = ChangedBy(g, fan, i, e)
      BY <2>3, <2>4 DEF ChangedBy
    <2> QED
      BY <2>5
  <1> DEFINE U == CHOOSE h : h = ChangedBy(h, fan, i, e)
  <1>7. U = ChangedBy(U, fan, i, e)
    BY <1>6
  <1>8. After(fan, i) = U[i]
    BY <1>0 DEF After, ChangedBy
  <1> HIDE DEF U
  <1>9. /\ U[0] = Top.diff[e]
        /\ \A k \in 1 .. i : U[k] = IF Edge(fan[k][1]) = e THEN Minus(U[k - 1], fan[k][2]) ELSE U[k - 1]
    <2>1. 0 \in 0 .. i /\ \A k \in 1 .. i : k \in 0 .. i /\ k # 0
      BY <1>1
    <2>2. PICK C : C = ChangedBy(U, fan, i, e)
      OBVIOUS
    <2>3. /\ C[0] = Top.diff[e]
          /\ \A k \in 1 .. i : C[k] = IF Edge(fan[k][1]) = e THEN Minus(U[k - 1], fan[k][2]) ELSE U[k - 1]
      BY <2>1, <2>2 DEF ChangedBy
    <2> QED
      BY <1>7, <2>2, <2>3
  <1> DEFINE Bad == {k \in 0 .. i : U[k] \notin Vec}
  <1>10. Bad = {}
    <2> SUFFICES ASSUME Bad # {} PROVE FALSE
      OBVIOUS
    <2>1. Bad \in SUBSET Nat
      OBVIOUS
    <2> HIDE DEF Bad
    <2>2. PICK k \in Bad : \A j \in Bad : k <= j
      BY <2>1, LeastNatural
    <2>3. k \in 0 .. i /\ U[k] \notin Vec /\ k # 0
      BY <1>1, <1>9 DEF Bad
    <2>4. k \in 1 .. i /\ k - 1 \in 0 .. i /\ ~ (k <= k - 1)
      BY <2>3
    <2>5. U[k - 1] \in Vec
      BY <2>2, <2>4 DEF Bad
    <2> QED
      BY <1>1, <1>2, <1>9, <2>3, <2>4, <2>5
  <1> QED
    BY <1>1, <1>8, <1>10

LEMMA ShrunkIsLevel ==
  ASSUME Level(Top), NEW fan, Fanned(fan)
  PROVE  Level(Shrunk(fan)) /\ Shrunk(fan).F2E = Top.F2E
  <1> DEFINE n == Len(fan) - 1
             moved == {Edge(fan[i][1]) : i \in 1 .. n}
             Visits(e) == {i \in 1 .. n : Edge(fan[i][1]) = e}
             new == [e \in Edges |-> IF e \in moved THEN After(fan, Max(Visits(e))) ELSE Top.diff[e]]
  <1>1. PICK M : M = Shrunk(fan)
    OBVIOUS
  <1>2. {"diff", "FQ"} \subseteq DOMAIN Top
    BY DEF Level, Graph
  <1>3. ASSUME NEW e \in Edges PROVE new[e] \in Vec
    <2>1. CASE e \in moved
      <3>1. Visits(e) # {} /\ Visits(e) \in SUBSET (1 .. Len(fan)) /\ Len(fan) \in Nat
        <4>1. Len(fan) \in Nat
          BY DEF Fanned
        <4>2. \A i \in 1 .. n : i \in 1 .. Len(fan)
          BY <4>1
        <4> QED
          BY <4>1, <4>2, <2>1
      <3>2. Max(Visits(e)) \in Visits(e)
        <4> HIDE DEF Visits
        <4> QED
          BY <3>1, MaxIn
      <3>3. PICK i \in 1 .. Len(fan) : i = Max(Visits(e)) /\ Edge(fan[i][1]) = e
        BY <3>1, <3>2
      <3>4. After(fan, i) \in Vec
        BY <3>3, AfterTyped
      <3> QED
        BY <2>1, <3>3, <3>4
    <2>2. CASE e \notin moved
      BY <2>2, GraphFacts DEF Level, Edges
    <2> QED
      BY <2>1, <2>2
  <1>4. M = [Top EXCEPT !.diff = new]
    BY <1>1 DEF Shrunk
  <1>5. DOMAIN new = Edges /\ new \in [Edges -> Vec]
    BY <1>3
  <1> HIDE DEF new
  <1>6. /\ M.diff = new /\ M.F2E = Top.F2E /\ M.FQ = Top.FQ /\ M.E2F = Top.E2F
        /\ M.allow = Top.allow /\ M.sing = Top.sing /\ DOMAIN M = DOMAIN Top
    BY <1>2, <1>4
  <1>7. DOMAIN M.diff = DOMAIN Top.diff
    BY <1>5, <1>6 DEF Edges
  <1>8. Graph(M)
    BY <1>5, <1>6, <1>7 DEF Level, Graph, Edges
  <1>9. \A e : SidesIn(M, e) = SidesIn(Top, e)
    BY <1>6 DEF SidesIn
  <1>10. Sided(M)
    BY <1>6, <1>7, <1>9 DEF Level, Sided
  <1> QED
    BY <1>1, <1>6, <1>8, <1>10 DEF Level

LEMMA OppositeTyped ==
  ASSUME Level(Top), NEW d \in Dart
  PROVE  Opposite(Top, d) \in Dart \union {NoDart}
  <1> DEFINE e == Top.F2E[d[1]][d[2]]
             Corners(f) == {j \in Corner : Top.F2E[f][j] = e}
             s == Top.E2F[e]
             first == <<s[1], Min(Corners(s[1]))>>
             last == <<s[2], Max(Corners(s[2]))>>
  <1>1. e \in Edges
    BY DartFacts DEF Edge
  <1>2. CASE None \in {s[1], s[2]}
    BY <1>2 DEF Opposite
  <1>3. CASE None \notin {s[1], s[2]}
    <2>1. s[1] \in SidesIn(Top, e) /\ s[2] \in SidesIn(Top, e)
      BY <1>3 DEF SidesIn
    <2>2. s[1] \in Faces /\ s[2] \in Faces /\ Corners(s[1]) # {} /\ Corners(s[2]) # {}
      <3>1. ASSUME NEW f \in SidesIn(Top, e) PROVE f \in Faces /\ Corners(f) # {}
        <4>1. f \in Faces /\ \E j \in Corner : Top.F2E[f][j] = e
          <5> HIDE DEF e
          <5> QED
            BY <1>1, SideFacts DEF Edges, Faces
        <4> QED
          BY <4>1
      <3> QED
        BY <2>1, <3>1
    <2>3. \A f : Corners(f) \in SUBSET Nat /\ Corners(f) \in SUBSET (1 .. 3) /\ 3 \in Nat
      BY DEF Corner
    <2>4. Min(Corners(s[1])) \in Corners(s[1]) /\ Max(Corners(s[2])) \in Corners(s[2])
      <3> HIDE DEF Corners
      <3> QED
        BY <2>2, <2>3, MinIn, MaxIn
    <2>5. first \in Dart /\ last \in Dart
      BY <2>2, <2>4 DEF Dart
    <2>6. Opposite(Top, d) \in {first, last, NoDart}
      BY <1>3 DEF Opposite
    <2> HIDE DEF first, last
    <2> QED
      BY <2>5, <2>6
  <1> QED
    BY <1>2, <1>3

-----------------------------------------------------------------------------
(***************************************************************************)
(* The inductive invariant.  While a level is built it is closed and what  *)
(* was linked leads up; while FixFlip is on a level it stays a level.      *)
(***************************************************************************)
Stack(s) == \E S : s \in Seq(S)

Stacked ==
  /\ Stack(levels) /\ Stack(ups) /\ Len(levels) >= 1
  /\ Len(ups) = Len(levels) - 1 /\ base \in 0 .. (Len(levels) - 1)

Unlinked == toUpper \in [Edges -> {None, Contracted}] /\ toUpperOrients = Blank(Top, 0)

Follows(L, fx, up, w) ==
  /\ w.paths \in Seq((DOMAIN L.diff) \X (0 .. 3)) /\ w.paths # <<>>
  /\ w.paths[1][2] = 0
  /\ Chained(L, fx, up, w.paths[1][1], w.f0, Range(w.paths), Last(w.paths)[1], w.f)

Following == Follows(Top, fixed_faces, toUpper, walk)

Working ==
  /\ Stacked /\ Level(Top) /\ DifferencesSurvive
  /\ \/ pc = "contract" /\ Closed(Top) /\ Contracting /\ Unlinked
     \/ pc = "chains" /\ Closed(Top) /\ Contracting /\ Linking
     \/ pc = "follow" /\ Closed(Top) /\ Contracting /\ Linking /\ Following
     \/ pc = "fix" /\ Paired /\ flipped \subseteq Faces

IInv ==
  \/ pc = "called" /\ Triangulated(mesh) /\ levels = <<>> /\ ups = <<>> /\ base = 0
  \/ pc \in {"propagate", "done", "exit"}
  \/ Working

LEMMA StackFacts ==
  ASSUME NEW s, Stack(s), NEW x
  PROVE  /\ Len(s) \in Nat
         /\ Stack(Append(s, x)) /\ Len(Append(s, x)) = Len(s) + 1
         /\ Append(s, x)[Len(s) + 1] = x
         /\ \A i \in 1 .. Len(s) : Append(s, x)[i] = s[i]
         /\ Len(s) >= 1 =>
              /\ Stack([s EXCEPT ![Len(s)] = x]) /\ Len([s EXCEPT ![Len(s)] = x]) = Len(s)
              /\ [s EXCEPT ![Len(s)] = x][Len(s)] = x
  <1>1. PICK S : s \in Seq(S)
    BY DEF Stack
  <1>2. PICK T : T = S \union {x}
    OBVIOUS
  <1>3. s \in Seq(T) /\ x \in T /\ Len(s) \in Nat
    BY <1>1, <1>2
  <1>4. /\ Append(s, x) \in Seq(T) /\ Len(Append(s, x)) = Len(s) + 1
        /\ Append(s, x)[Len(s) + 1] = x
        /\ \A i \in 1 .. Len(s) : Append(s, x)[i] = s[i]
    BY <1>3
  <1>5. Len(s) >= 1 => /\ [s EXCEPT ![Len(s)] = x] \in Seq(T)
                       /\ Len([s EXCEPT ![Len(s)] = x]) = Len(s)
                       /\ [s EXCEPT ![Len(s)] = x][Len(s)] = x
    BY <1>3
  <1> QED
    BY <1>3, <1>4, <1>5 DEF Stack

(* What Prepare sets is right for any level.                                 *)
LEMMA Prepared ==
  ASSUME NEW L, Level(L)
  PROVE  /\ Contracts(L, Fixed(L), Blank(L, None), Blank(L, 0))
         /\ Blank(L, None) \in [DOMAIN L.diff -> {None, Contracted}]
  <1>1. None # Contracted
    BY GraphFacts DEF Level
  <1>2. /\ Fixed(L) \in [DOMAIN L.F2E -> 0 .. 2]
        /\ \A f \in DOMAIN L.F2E : Fixed(L)[f] = IF f \in L.sing THEN 1 ELSE 0
    BY DEF Fixed
  <1>3. /\ Blank(L, None) \in [DOMAIN L.diff -> {None}]
        /\ \A e \in DOMAIN L.diff : Blank(L, None)[e] = None
        /\ Blank(L, 0) \in [DOMAIN L.diff -> 0 .. 3]
    BY DEF Blank
  <1>4. \A f \in DOMAIN L.F2E : Fixed(L)[f] # 2 /\ (f \in L.sing => Fixed(L)[f] # 0)
    BY <1>2
  <1> QED
    BY <1>1, <1>2, <1>3, <1>4 DEF Contracts

(* A new top level, from which contracting begins.                           *)
LEMMA Restarts ==
  ASSUME NEW L, Level(L), Closed(L), Prepare(L), pc' = "contract", Stacked', Top' = L,
         DifferencesSurvive'
  PROVE  IInv'
  <1>1. fixed_faces' = Fixed(L) /\ toUpper' = Blank(L, None) /\ toUpperOrients' = Blank(L, 0)
    BY DEF Prepare
  <1>2. Contracting'
    BY <1>1, Prepared DEF Contracting
  <1>3. Unlinked'
    BY <1>1, Prepared DEF Unlinked, Edges
  <1> QED
    BY <1>2, <1>3 DEF IInv, Working

LEMMA InitIsRight == ASSUME Init PROVE IInv
  BY MeshesAssumption DEF Init, IInv

LEMMA BeginIsRight ==
  ASSUME IInv, Begin
  PROVE  IInv'
  <1>1. Triangulated(mesh) /\ ups = <<>> /\ base = 0
    BY DEF Begin, IInv, Working
  <1>2. PICK L : /\ L = FirstLevel(mesh.F2E, mesh.FQ, mesh.diff, mesh.allow)
                 /\ levels' = <<L>> /\ Prepare(L) /\ pc' = "contract" /\ ups' = ups /\ base' = base
    BY DEF Begin
  <1>3. Level(L) /\ Closed(L)
    <2>1. PICK F, Q, D, A : F = mesh.F2E /\ Q = mesh.FQ /\ D = mesh.diff /\ A = mesh.allow
      OBVIOUS
    <2>2. /\ Bounded(DOMAIN D) /\ Bounded(DOMAIN F)
          /\ F \in [DOMAIN F -> [Corner -> DOMAIN D]] /\ Q \in [DOMAIN F -> [Corner -> 0 .. 3]]
          /\ D \in [DOMAIN D -> Vec] /\ A \in [DOMAIN D -> [1 .. 2 -> {0, 1}]]
          /\ TwoFaces(F, DOMAIN D) /\ L = FirstLevel(F, Q, D, A)
      BY <1>1, <1>2, <2>1, MeshIsGraph
    <2> QED
      BY ONLY <2>2, FirstIsLevel
  <1>4. Len(levels') = 1 /\ levels'[1] = L /\ Stack(levels') /\ Stack(ups') /\ Len(ups') = 0
    <2>1. <<L>> \in Seq({L}) /\ <<>> \in Seq({L})
      OBVIOUS
    <2> QED
      BY <1>1, <1>2, <2>1 DEF Stack
  <1>5. Stacked' /\ Top' = L
    BY <1>1, <1>2, <1>4 DEF Stacked, Top
  <1>6. DifferencesSurvive'
    <2>1. ~ (Len(levels') - base' > 1)
      BY <1>1, <1>2, <1>4
    <2> QED
      BY <2>1 DEF DifferencesSurvive
  <1> QED
    BY <1>2, <1>3, <1>5, <1>6, Restarts

LEMMA RecurseIsRight ==
  ASSUME IInv, Recurse
  PROVE  IInv'
  <1>1. Stacked /\ Level(Top)
    BY DEF Recurse, IInv, Working
  <1>2. PICK L : /\ L = FirstLevel(Top.F2E, Top.FQ, Top.diff, Top.allow)
                 /\ levels' = [levels EXCEPT ![Len(levels)] = L] /\ Prepare(L) /\ pc' = "contract"
                 /\ ups' = ups /\ base' = Len(levels) - 1
    BY DEF Recurse
  <1>3. Level(L) /\ Closed(L)
    <2>1. PICK F, Q, D, A : F = Top.F2E /\ Q = Top.FQ /\ D = Top.diff /\ A = Top.allow
      OBVIOUS
    <2>2. TwoFaces(F, DOMAIN D)
      BY <1>1, <2>1, LevelIsMesh
    <2>3. /\ Bounded(DOMAIN D) /\ Bounded(DOMAIN F)
          /\ F \in [DOMAIN F -> [Corner -> DOMAIN D]] /\ Q \in [DOMAIN F -> [Corner -> 0 .. 3]]
          /\ D \in [DOMAIN D -> Vec] /\ A \in [DOMAIN D -> [1 .. 2 -> {0, 1}]]
          /\ L = FirstLevel(F, Q, D, A)
      BY <1>1, <1>2, <2>1 DEF Level, Graph
    <2> QED
      BY ONLY <2>2, <2>3, FirstIsLevel
  <1>4. /\ Len(levels') = Len(levels) /\ levels'[Len(levels)] = L /\ Stack(levels')
        /\ Len(levels) \in Nat /\ Len(levels) >= 1
    <2>1. PICK s : s = levels
      OBVIOUS
    <2>2. Stack(s) /\ Len(s) >= 1 /\ levels' = [s EXCEPT ![Len(s)] = L]
      BY <1>1, <1>2, <2>1 DEF Stacked
    <2>3. /\ Len(s) \in Nat /\ Stack([s EXCEPT ![Len(s)] = L]) /\ Len([s EXCEPT ![Len(s)] = L]) = Len(s)
          /\ [s EXCEPT ![Len(s)] = L][Len(s)] = L
      BY ONLY <2>2, StackFacts, Zenon
    <2> QED
      BY ONLY <2>1, <2>2, <2>3
  <1>5. Stacked' /\ Top' = L
    BY <1>1, <1>2, <1>4 DEF Stacked, Top
  <1>6. DifferencesSurvive'
    <2>1. ~ (Len(levels') - base' > 1)
      BY <1>2, <1>4
    <2> QED
      BY <2>1 DEF DifferencesSurvive
  <1> QED
    BY <1>2, <1>3, <1>5, <1>6, Restarts

LEMMA LiftIsRight ==
  ASSUME IInv, Lift
  PROVE  IInv'
  <1>1. Stacked /\ Level(Top) /\ Closed(Top) /\ Contracting /\ Linking /\ pc = "chains"
    BY DEF Lift, IInv, Working
  <1>2. Built /\ base' = base
    BY <1>1 DEF Lift, Built
  <1>3. CASE Cardinality(UpperEdges) = Cardinality(Edges)
    <2>1. /\ pc' = "fix" /\ levels' = levels /\ ups' = ups
          /\ E2E' = [d \in Faces \X Corner |-> Opposite(Top, d)]
      BY <1>3 DEF Lift
    <2>2. Top' = Top /\ Stacked' /\ Dart' = Dart
      BY <1>1, <1>2, <2>1 DEF Top, Stacked, Dart, Faces
    <2>3. E2E' \in [Dart -> Dart \union {NoDart}]
      BY <1>1, <2>1, OppositeTyped DEF Dart
    <2>4. Paired' /\ flipped' \subseteq Faces'
      <3>1. flipped' = Flips(Top) /\ Faces' = Faces
        BY <1>3, <2>2 DEF Lift, Faces
      <3> QED
        BY <2>2, <2>3, <3>1 DEF Paired, Flips, Faces
    <2>5. DifferencesSurvive'
      BY <2>1 DEF DifferencesSurvive
    <2> QED
      BY <1>1, <2>1, <2>2, <2>4, <2>5 DEF IInv, Working
  <1>4. CASE Cardinality(UpperEdges) # Cardinality(Edges)
    <2>1. PICK L, up : /\ L = UpperLevel /\ up = [edge |-> toUpper, orient |-> toUpperOrients]
                       /\ pc' = "contract" /\ levels' = Append(levels, L) /\ Prepare(L)
                       /\ ups' = Append(ups, up)
      BY <1>4 DEF Lift
    <2>2. Level(L) /\ Closed(L) /\ Survives(L, Top, up)
      BY <1>2, <2>1, UpperIsLevel, UpperSurvives
    <2>3. PICK n \in Nat : n = Len(levels) /\ n >= 1
      BY <1>1, StackFacts DEF Stacked
    <2>4. /\ Stack(levels') /\ Len(levels') = n + 1 /\ levels'[n + 1] = L /\ levels'[n] = Top
      <3>1. n \in 1 .. Len(levels)
        BY <2>3
      <3>2. PICK s : s = levels
        OBVIOUS
      <3>3. Stack(s) /\ levels' = Append(s, L) /\ n = Len(s) /\ n \in 1 .. Len(s) /\ s[n] = Top
        BY <1>1, <2>1, <2>3, <3>1, <3>2 DEF Stacked, Top
      <3>4. /\ Stack(Append(s, L)) /\ Len(Append(s, L)) = Len(s) + 1
            /\ Append(s, L)[Len(s) + 1] = L
            /\ \A i \in 1 .. Len(s) : Append(s, L)[i] = s[i]
        BY ONLY <3>3, StackFacts, ZenonT(40)
      <3> QED
        BY ONLY <3>3, <3>4, Zenon
    <2>5. Stack(ups') /\ Len(ups') = n /\ ups'[n] = up
      <3>1. Len(ups) = n - 1 /\ (n - 1) + 1 = n
        BY <1>1, <2>3 DEF Stacked
      <3>2. PICK s : s = ups
        OBVIOUS
      <3>3. Stack(s) /\ ups' = Append(s, up) /\ Len(s) + 1 = n
        BY <1>1, <2>1, <3>1, <3>2 DEF Stacked
      <3>4. /\ Stack(Append(s, up)) /\ Len(Append(s, up)) = Len(s) + 1
            /\ Append(s, up)[Len(s) + 1] = up
        BY ONLY <3>3, StackFacts, Zenon
      <3> QED
        BY ONLY <3>3, <3>4, Zenon
    <2>6. Stacked' /\ Top' = L
      <3>1. base \in 0 .. (n - 1)
        BY <1>1, <2>3 DEF Stacked
      <3>2. base \in 0 .. ((n + 1) - 1) /\ n + 1 >= 1 /\ n = (n + 1) - 1
        BY <3>1
      <3> QED
        BY <1>2, <2>4, <2>5, <3>2 DEF Stacked, Top
    <2>7. DifferencesSurvive'
      <3>1. Survives(levels'[Len(levels')], levels'[Len(levels') - 1], ups'[Len(levels') - 1])
        <4>1. (n + 1) - 1 = n
          OBVIOUS
        <4> QED
          BY <2>2, <2>4, <2>5, <4>1
      <3> QED
        BY <3>1 DEF DifferencesSurvive, Survives
    <2> QED
      BY <2>1, <2>2, <2>6, <2>7, Restarts
  <1> QED
    BY <1>3, <1>4

-----------------------------------------------------------------------------
(***************************************************************************)
(* The steps that build a level.                                           *)
(***************************************************************************)
Kept == levels' = levels /\ ups' = ups /\ base' = base

LEMMA KeptFacts ==
  ASSUME Kept
  PROVE  /\ Top' = Top /\ Edges' = Edges /\ Faces' = Faces /\ Dart' = Dart
         /\ Stacked => Stacked'
         /\ pc' # "contract" => DifferencesSurvive'
         /\ pc' = "contract" /\ pc = "contract" /\ DifferencesSurvive => DifferencesSurvive'
  BY DEF Kept, Top, Edges, Faces, Dart, Stacked, DifferencesSurvive

LEMMA SidesSame == \A e : SidesOf(e) = SidesIn(Top, e) /\ \A f \in SidesOf(e) : f # None
  BY DEF SidesOf, SidesIn

LEMMA ContractIsRight ==
  ASSUME IInv, Contract
  PROVE  IInv'
  <1>1. /\ pc = "contract" /\ Stacked /\ Level(Top) /\ Closed(Top) /\ Contracting /\ Unlinked
        /\ DifferencesSurvive
    BY DEF Contract, IInv, Working
  <1>2. PICK e \in Edges :
          /\ Contractible(e) /\ toUpper' = [toUpper EXCEPT ![e] = Contracted]
          /\ fixed_faces' =
               [f \in Faces |-> IF f \in SidesOf(e) THEN 2
                                ELSE IF f \in Around(SidesOf(e)) /\ fixed_faces[f] = 0 THEN 1
                                ELSE fixed_faces[f]]
    BY DEF Contract
  <1>3. pc' = pc /\ Kept /\ toUpperOrients' = toUpperOrients
    BY DEF Contract, Kept
  <1>4. Top.diff[e] = Zero /\ toUpper[e] = None /\ \A f \in SidesIn(Top, e) : fixed_faces[f] = 0
    BY <1>2, SidesSame DEF Contractible
  <1>5. ASSUME NEW f \in Faces
        PROVE  /\ fixed_faces[f] \in 0 .. 2 /\ fixed_faces'[f] \in 0 .. 2
               /\ f \in SidesIn(Top, e) => fixed_faces'[f] = 2
               /\ f \notin SidesIn(Top, e) => (fixed_faces'[f] = 2 <=> fixed_faces[f] = 2)
               /\ fixed_faces[f] # 0 => fixed_faces'[f] # 0
    <2>1. fixed_faces[f] \in 0 .. 2
      BY <1>1 DEF Contracting, Contracts, Faces
    <2>2. fixed_faces'[f] = IF f \in SidesIn(Top, e) THEN 2
                            ELSE IF f \in Around(SidesOf(e)) /\ fixed_faces[f] = 0 THEN 1
                            ELSE fixed_faces[f]
      BY <1>2, SidesSame
    <2> QED
      BY <2>1, <2>2
  <1>6. /\ None # Contracted /\ Contracted \notin Edges
        /\ \A f \in Faces : \A j \in Corner : Top.F2E[f][j] \in Edges
        /\ \A d \in Edges : SidesIn(Top, d) \subseteq Faces
    BY <1>1, GraphFacts, SideFacts DEF Level, Edges, Faces
  <1>7. /\ toUpper \in [Edges -> {None, Contracted}]
        /\ toUpper' \in [Edges -> {None, Contracted}]
        /\ \A d \in Edges : toUpper'[d] = Contracted <=> d = e \/ toUpper[d] = Contracted
    BY <1>1, <1>2, <1>6 DEF Unlinked
  <1>8. Contracts(Top, fixed_faces', toUpper', toUpperOrients)
    <2>1. fixed_faces' \in [Faces -> 0 .. 2]
      BY <1>2, <1>5
    <2>2. ASSUME NEW d \in Edges, toUpper'[d] = Contracted
          PROVE  Top.diff[d] = Zero /\ \A f \in SidesIn(Top, d) : fixed_faces'[f] = 2
      <3>1. CASE d = e
        BY <3>1, <1>4, <1>5, <1>6
      <3>2. CASE toUpper[d] = Contracted
        <4>1. Top.diff[d] = Zero /\ \A f \in SidesIn(Top, d) : fixed_faces[f] = 2
          BY <3>2, <1>1 DEF Contracting, Contracts, Edges
        <4> QED
          BY <4>1, <1>5, <1>6
      <3> QED
        BY <2>2, <3>1, <3>2, <1>7
    <2>3. ASSUME NEW f \in Faces, fixed_faces'[f] = 2
          PROVE  f \notin Top.sing /\ \E j \in Corner : toUpper'[Top.F2E[f][j]] = Contracted
      <3>1. CASE f \in SidesIn(Top, e)
        <4>1. f \notin Top.sing
          BY <3>1, <1>1, <1>4 DEF Contracting, Contracts, Faces
        <4>2. \E j \in Corner : Top.F2E[f][j] = e
          BY <3>1, <1>1, SideFacts DEF Edges
        <4> QED
          BY <4>1, <4>2, <1>7
      <3>2. CASE f \notin SidesIn(Top, e)
        <4>1. fixed_faces[f] = 2
          BY <2>3, <3>2, <1>5
        <4>2. f \notin Top.sing /\ \E j \in Corner : toUpper[Top.F2E[f][j]] = Contracted
          BY <4>1, <1>1 DEF Contracting, Contracts, Faces
        <4> QED
          BY <4>2, <1>6, <1>7
      <3> QED
        BY <3>1, <3>2
    <2>4. \A f \in Faces : f \in Top.sing => fixed_faces'[f] # 0
      BY <1>1, <1>5 DEF Contracting, Contracts, Faces
    <2>5. toUpperOrients \in [Edges -> 0 .. 3]
      BY <1>1 DEF Contracting, Contracts, Edges
    <2>6. toUpper' \in [Edges -> Edges \union {None, Contracted, Dropped}]
      BY <1>7
    <2> QED
      BY <2>1, <2>2, <2>3, <2>4, <2>5, <2>6 DEF Contracts, Edges, Faces
  <1>9. /\ Top' = Top /\ Edges' = Edges /\ Stacked' /\ DifferencesSurvive'
    BY <1>1, <1>3, KeptFacts
  <1>10. Contracting'
    BY <1>3, <1>8, <1>9 DEF Contracting
  <1>11. Unlinked'
    BY <1>1, <1>3, <1>7, <1>9 DEF Unlinked
  <1> QED
    BY <1>1, <1>3, <1>9, <1>10, <1>11 DEF IInv, Working

LEMMA ClassifyIsRight ==
  ASSUME IInv, Classify
  PROVE  IInv'
  <1>1. /\ pc = "contract" /\ Stacked /\ Level(Top) /\ Closed(Top) /\ Contracting /\ Unlinked
    BY DEF Classify, IInv, Working
  <1>2. PICK kept :
          /\ kept = {e \in Edges : toUpper[e] = None /\ ~ \E f \in SidesOf(e) : Crushed(f)}
          /\ toUpper' =
               [e \in Edges |-> IF toUpper[e] = Contracted THEN Contracted
                                ELSE IF \A f \in SidesOf(e) : Crushed(f) THEN Dropped
                                ELSE IF e \in kept THEN e
                                ELSE None]
          /\ nE2F' = [e \in kept |-> Top.E2F[e]]
    BY DEF Classify
  <1>3. pc' = "chains" /\ Kept /\ toUpperOrients' = toUpperOrients /\ fixed_faces' = fixed_faces
    BY DEF Classify, Kept
  <1>4. /\ None # Contracted /\ None # Dropped /\ Contracted # Dropped
        /\ Contracted \notin Edges /\ None \notin Edges /\ Dropped \notin Edges
        /\ \A f \in Faces : \A j \in Corner : Top.F2E[f][j] \in Edges
        /\ \A e \in Edges : SidesIn(Top, e) \subseteq Faces /\ Top.E2F[e][1] \in SidesIn(Top, e)
        /\ \A e \in Edges : Top.diff[e] \in Vec
    BY <1>1, GraphFacts, SideFacts DEF Level, Edges, Faces
  <1>5. \A e : \A f \in SidesIn(Top, e) : Crushed(f) <=> fixed_faces[f] = 2
    BY SidesSame DEF Crushed
  <1>6. \A e \in Edges : toUpper[e] \in {None, Contracted} /\ toUpperOrients[e] = 0
    BY <1>1 DEF Unlinked, Blank, Edges
  <1>7. \A e \in Edges : e \in kept <=> toUpper[e] = None /\ \A f \in SidesIn(Top, e) : fixed_faces[f] # 2
    BY <1>2, <1>5, SidesSame
  <1>8. ASSUME NEW e \in Edges
        PROVE  toUpper'[e] = IF toUpper[e] = Contracted THEN Contracted
                             ELSE IF \A f \in SidesIn(Top, e) : fixed_faces[f] = 2 THEN Dropped
                             ELSE IF e \in kept THEN e
                             ELSE None
    BY <1>2, <1>5, SidesSame
  <1>9. ASSUME NEW e \in Edges
        PROVE  /\ toUpper'[e] = Contracted <=> toUpper[e] = Contracted
               /\ toUpper'[e] = Dropped => \A f \in SidesIn(Top, e) : fixed_faces[f] = 2
               /\ toUpper'[e] = None => (\E f \in SidesIn(Top, e) : fixed_faces[f] = 2)
                                        /\ (\E f \in SidesIn(Top, e) : fixed_faces[f] # 2)
               /\ toUpper'[e] \in Edges => toUpper'[e] = e /\ e \in kept
               /\ e \in kept => toUpper'[e] = e
    BY <1>4, <1>6, <1>7, <1>8
  <1>10. Contracts(Top, fixed_faces, toUpper', toUpperOrients)
    <2>1. toUpper' \in [Edges -> Edges \union {None, Contracted, Dropped}]
      BY <1>2
    <2> QED
      BY <2>1, <1>1, <1>4, <1>9 DEF Contracting, Contracts, Edges, Faces
  <1>11. ASSUME NEW e \in kept
         PROVE  LeadsTo(Top, fixed_faces, toUpper', toUpperOrients, nE2F', e, e)
    <2>1. e \in Edges /\ toUpperOrients[e] = 0 /\ e \in DOMAIN nE2F' /\ nE2F'[e] = Top.E2F[e]
      BY <1>2, <1>6
    <2>2. Top.diff[e] = rshift90(Top.diff[e], 0)
      BY <2>1, <1>4, Turned
    <2>3. \A f \in SidesIn(Top, e) : fixed_faces[f] # 2 /\ f \in {nE2F'[e][1], nE2F'[e][2]}
      BY <2>1, <1>7 DEF SidesIn
    <2> QED
      BY <2>1, <2>2, <2>3 DEF LeadsTo
  <1>12. ASSUME NEW u \in kept
         PROVE  Borders(Top, fixed_faces, toUpper', nE2F', u)
    <2>1. u \in Edges /\ toUpper'[u] = u /\ nE2F'[u] = Top.E2F[u]
      BY <1>2, <1>9
    <2>2. nE2F'[u] \in [1 .. 2 -> Faces \union {None}] /\ nE2F'[u][1] # None
      BY <1>1, <2>1 DEF Level, Sided, Edges, Faces
    <2>3. ASSUME NEW s \in 1 .. 2, nE2F'[u][s] # None
          PROVE  fixed_faces[nE2F'[u][s]] # 2 /\ \E j \in Corner : toUpper'[Top.F2E[nE2F'[u][s]][j]] = u
      <3>1. nE2F'[u][s] \in SidesIn(Top, u)
        BY <2>1, <2>3 DEF SidesIn
      <3>2. \E j \in Corner : Top.F2E[nE2F'[u][s]][j] = u
        BY <1>1, <2>1, <3>1, SideFacts DEF Edges
      <3> QED
        BY <2>1, <3>1, <3>2, <1>7
    <2>4. nE2F'[u][1] # nE2F'[u][2] =>
            \A f \in Faces : fixed_faces[f] # 2 =>
              \A j, k \in Corner : toUpper'[Top.F2E[f][j]] = u /\ toUpper'[Top.F2E[f][k]] = u => j = k
      <3>1. \A f \in Faces : \A j \in Corner : toUpper'[Top.F2E[f][j]] = u => Top.F2E[f][j] = u
        BY <1>4, <1>9, <2>1
      <3> QED
        BY <3>1, <1>1, <2>1 DEF Level, Sided, Edges, Faces
    <2> QED
      BY <2>1, <2>2, <2>3, <2>4 DEF Borders, Edges, Faces
  <1>13. Links(Top, fixed_faces, toUpper', toUpperOrients, nE2F')
    <2>1. DOMAIN nE2F' = kept
      BY <1>2
    <2>2. \A e \in Edges : toUpper'[e] \in Edges =>
            LeadsTo(Top, fixed_faces, toUpper', toUpperOrients, nE2F', e, toUpper'[e])
      BY <1>9, <1>11
    <2> QED
      BY <2>1, <2>2, <1>9, <1>12 DEF Links, Edges
  <1>14. Top' = Top /\ Stacked' /\ DifferencesSurvive'
    BY <1>1, <1>3, KeptFacts
  <1>15. Contracting' /\ Linking'
    BY <1>3, <1>10, <1>13, <1>14 DEF Contracting, Linking
  <1> QED
    BY <1>1, <1>3, <1>14, <1>15 DEF IInv, Working

LEMMA StartChainIsRight ==
  ASSUME IInv, StartChain
  PROVE  IInv'
  <1>1. pc = "chains" /\ Stacked /\ Level(Top) /\ Closed(Top) /\ Contracting /\ Linking
    BY DEF StartChain, IInv, Working
  <1>2a. PICK e \in Edges : \E f \in SidesOf(e) :
           /\ IsLeast(e, {d \in Edges : toUpper[d] = None}) /\ ~ Crushed(f)
           /\ walk' = [f0 |-> f, f |-> f, paths |-> <<<<e, 0>>>>]
    BY DEF StartChain
  <1>2. PICK f \in SidesOf(e) :
          /\ IsLeast(e, {d \in Edges : toUpper[d] = None}) /\ ~ Crushed(f)
          /\ walk' = [f0 |-> f, f |-> f, paths |-> <<<<e, 0>>>>]
    BY <1>2a
  <1>3. /\ pc' = "follow" /\ Kept /\ toUpper' = toUpper /\ toUpperOrients' = toUpperOrients
        /\ fixed_faces' = fixed_faces /\ nE2F' = nE2F
    BY DEF StartChain, Kept
  <1>4. Starts(Top, fixed_faces, toUpper, e, f)
    <2>1. toUpper[e] = None /\ f \in SidesIn(Top, e) /\ f # None
      BY <1>2, SidesSame DEF IsLeast
    <2>2. fixed_faces[f] # 2
      BY <1>2, <2>1 DEF Crushed
    <2> QED
      BY <2>1, <2>2 DEF Starts, Edges
  <1>5. Chained(Top, fixed_faces, toUpper, e, f, {<<e, 0>>}, e, f)
    BY <1>1, <1>4, ChainBegins DEF Contracting, Linking
  <1>6. Follows(Top, fixed_faces, toUpper, walk')
    <2>1. PICK P : P = <<<<e, 0>>>>
      OBVIOUS
    <2>2. /\ P \in Seq(Edges \X (0 .. 3)) /\ P # <<>> /\ P[1] = <<e, 0>> /\ Len(P) = 1
          /\ Range(P) = {<<e, 0>>} /\ Last(P) = <<e, 0>>
      <3>1. /\ P \in Seq(Edges \X (0 .. 3)) /\ P # <<>> /\ P[1] = <<e, 0>> /\ Len(P) = 1
            /\ DOMAIN P = {1}
        BY <2>1
      <3>2. Range(P) = {<<e, 0>>}
        BY <3>1 DEF Range
      <3>3. Last(P) = <<e, 0>>
        BY <3>1 DEF Last
      <3> QED
        BY <3>1, <3>2, <3>3
    <2>3. walk'.paths = P /\ walk'.f0 = f /\ walk'.f = f
      BY <1>2, <2>1
    <2>4. <<e, 0>>[1] = e /\ <<e, 0>>[2] = 0
      OBVIOUS
    <2> QED
      BY <1>5, <2>2, <2>3, <2>4 DEF Follows, Edges
  <1>7. Top' = Top /\ Stacked' /\ DifferencesSurvive'
    BY <1>1, <1>3, KeptFacts
  <1>8. Contracting' /\ Linking' /\ Following'
    BY <1>1, <1>3, <1>6, <1>7 DEF Contracting, Linking, Following
  <1> QED
    BY <1>1, <1>3, <1>7, <1>8 DEF IInv, Working

(* The chain being followed.                                                 *)
LEMMA WalkFacts ==
  ASSUME Level(Top), Following
  PROVE  /\ Across = OtherSide(Top, Reached, walk.f)
         /\ Chained(Top, fixed_faces, toUpper, walk.paths[1][1], walk.f0, Range(walk.paths), Reached, walk.f)
         /\ Len(walk.paths) \in Nat /\ Len(walk.paths) >= 1
         /\ DOMAIN walk.paths = 1 .. Len(walk.paths)
         /\ \A i \in 1 .. Len(walk.paths) :
              walk.paths[i] \in Range(walk.paths) /\ walk.paths[i] \in Edges \X (0 .. 3)
         /\ Last(walk.paths) = walk.paths[Len(walk.paths)]
         /\ Reached \in Edges /\ walk.f \in SidesIn(Top, Reached)
         /\ Across # None => Across \in SidesIn(Top, Reached) /\ Across \in Faces
         /\ walk.paths[1][1] \in Edges /\ walk.paths[1][2] = 0
  <1>1. /\ walk.paths \in Seq(Edges \X (0 .. 3)) /\ walk.paths # <<>> /\ walk.paths[1][2] = 0
        /\ Chained(Top, fixed_faces, toUpper, walk.paths[1][1], walk.f0, Range(walk.paths), Reached, walk.f)
    BY DEF Following, Follows, Reached, Edges
  <1>2. /\ Len(walk.paths) \in Nat /\ Len(walk.paths) >= 1 /\ DOMAIN walk.paths = 1 .. Len(walk.paths)
        /\ \A i \in 1 .. Len(walk.paths) : walk.paths[i] \in Edges \X (0 .. 3)
    BY <1>1
  <1>3. \A i \in 1 .. Len(walk.paths) : walk.paths[i] \in Range(walk.paths)
    BY <1>2 DEF Range
  <1>4. Last(walk.paths) = walk.paths[Len(walk.paths)]
    BY DEF Last
  <1>5. Reached \in Edges /\ walk.paths[1][1] \in Edges
    <2>1. Len(walk.paths) \in 1 .. Len(walk.paths) /\ 1 \in 1 .. Len(walk.paths)
      BY <1>2
    <2> QED
      BY <2>1, <1>2, <1>4 DEF Reached
  <1>6. walk.f \in SidesIn(Top, Reached)
    BY <1>1 DEF Chained
  <1>7. Across = OtherSide(Top, Reached, walk.f)
    BY DEF Across, OtherSide
  <1>8. Across # None => Across \in SidesIn(Top, Reached) /\ Across \in Faces
    <2>1. Across # None => Across \in SidesIn(Top, Reached)
      BY <1>5, <1>6, <1>7, OtherSideFacts DEF Edges
    <2> QED
      BY <2>1, <1>5, SideFacts DEF Edges, Faces
  <1> QED
    BY <1>1, <1>2, <1>3, <1>4, <1>5, <1>6, <1>7, <1>8

LEMMA CrossIsRight ==
  ASSUME IInv, Cross
  PROVE  IInv'
  <1>1. pc = "follow" /\ Stacked /\ Level(Top) /\ Closed(Top) /\ Contracting /\ Linking /\ Following
    BY DEF Cross, IInv, Working
  <1>2a. PICK k \in Exits :
           walk' = [f0 |-> walk.f0, f |-> Across, paths |-> Append(walk.paths,
                     <<Top.F2E[Across][k],
                       (Last(walk.paths)[2] + (Top.FQ[Across][k] - Top.FQ[Across][Entry] + 6)) % 4>>)]
    BY DEF Cross
  <1>2. PICK next :
          /\ next = <<Top.F2E[Across][k],
                      (Last(walk.paths)[2] + (Top.FQ[Across][k] - Top.FQ[Across][Entry] + 6)) % 4>>
          /\ walk' = [f0 |-> walk.f0, f |-> Across, paths |-> Append(walk.paths, next)]
    BY <1>2a
  <1>3. /\ pc' = "follow" /\ Kept /\ toUpper' = toUpper /\ toUpperOrients' = toUpperOrients
        /\ fixed_faces' = fixed_faces /\ nE2F' = nE2F /\ Across # None /\ fixed_faces[Across] = 2
    BY <1>1 DEF Cross, Kept, Crushed
  <1>4. PICK P, r, a, j, t, n, s :
          /\ P = Range(walk.paths) /\ r = Reached /\ a = Across /\ j = Entry /\ t = Last(walk.paths)[2]
          /\ n = Top.F2E[a][k] /\ s = (t + (Top.FQ[a][k] - Top.FQ[a][j] + 6)) % 4
    OBVIOUS
  <1>5. a \in Faces /\ a \in SidesIn(Top, r) /\ r \in Edges
    BY <1>1, <1>3, <1>4, WalkFacts
  <1>6. j \in Corner /\ Top.F2E[a][j] = r
    <2> DEFINE T == {i \in Corner : Top.F2E[a][i] = r}
    <2>1. T # {}
      BY <1>1, <1>5, SideFacts DEF Edges
    <2>2. T \in SUBSET Nat
      BY DEF Corner
    <2>3. j = Min(T)
      BY <1>4 DEF Entry
    <2>4. Min(T) \in T
      <3> HIDE DEF T
      <3> QED
        BY <2>1, <2>2, MinIn
    <2> QED
      BY <2>3, <2>4
  <1>7. Crossing(Top, fixed_faces, toUpper, r, a, j, k)
    BY <1>2, <1>3, <1>4, <1>5, <1>6 DEF Exits, Crossing, Faces
  <1>8. <<r, t>> \in P
    <2>1. Len(walk.paths) \in 1 .. Len(walk.paths)
      BY <1>1, WalkFacts
    <2>2. Last(walk.paths) \in P /\ Last(walk.paths) \in Edges \X (0 .. 3)
      BY <1>1, <1>4, <2>1, WalkFacts
    <2>3. Last(walk.paths) = <<r, t>>
      BY <1>4, <2>2 DEF Reached
    <2> QED
      BY <2>2, <2>3
  <1>9. PICK e0, f0, wf : e0 = walk.paths[1][1] /\ f0 = walk.f0 /\ wf = walk.f
    OBVIOUS
  <1>10. Chained(Top, fixed_faces, toUpper, e0, f0, P, r, wf) /\ a = OtherSide(Top, r, wf)
    BY <1>1, <1>4, <1>9, WalkFacts
  <1>11. Goes(Top, fixed_faces, toUpper, toUpperOrients, nE2F, e0, f0, P, r, wf, a, j, k, t, n, s)
    BY <1>1, <1>4, <1>7, <1>8, <1>10 DEF Goes, Contracting, Linking
  <1>12. Chained(Top, fixed_faces, toUpper, e0, f0, P \union {<<n, s>>}, n, a)
    BY <1>11, ChainGrows
  <1>13. <<n, s>> \in Edges \X (0 .. 3)
    BY <1>11, CrossFacts DEF Edges
  <1>14. Follows(Top, fixed_faces, toUpper, walk')
    <2>1. PICK w, x : w = walk.paths /\ x = <<n, s>> /\ x = next
      BY <1>2, <1>4
    <2>2. w \in Seq(Edges \X (0 .. 3)) /\ w # <<>> /\ w[1][2] = 0 /\ x \in Edges \X (0 .. 3)
      BY <1>1, <1>13, <2>1 DEF Following, Follows, Edges
    <2>3. PICK v : v = Append(w, x)
      OBVIOUS
    <2>4. /\ v \in Seq(Edges \X (0 .. 3)) /\ v # <<>> /\ v[1] = w[1]
          /\ Len(v) = Len(w) + 1 /\ v[Len(w) + 1] = x
          /\ DOMAIN v = 1 .. (Len(w) + 1) /\ DOMAIN w = 1 .. Len(w)
          /\ Len(w) \in Nat /\ \A i \in 1 .. Len(w) : v[i] = w[i]
      BY <2>2, <2>3
    <2>5. Range(v) = Range(w) \union {x}
      <3>1. ASSUME NEW y \in Range(v) PROVE y \in Range(w) \union {x}
        <4>1. PICK i \in 1 .. (Len(w) + 1) : y = v[i]
          BY <2>4 DEF Range
        <4>2. i \in 1 .. Len(w) \/ i = Len(w) + 1
          BY <2>4
        <4> QED
          BY <4>1, <4>2, <2>4 DEF Range
      <3>2. Range(w) \subseteq Range(v)
        <4> SUFFICES ASSUME NEW y \in Range(w) PROVE y \in Range(v)
          OBVIOUS
        <4>1. PICK i \in 1 .. Len(w) : y = w[i]
          BY <2>4 DEF Range
        <4>2. i \in 1 .. (Len(w) + 1)
          BY <2>4
        <4> QED
          BY <4>1, <4>2, <2>4 DEF Range
      <3>3. x \in Range(v)
        <4>1. Len(w) + 1 \in 1 .. (Len(w) + 1)
          BY <2>4
        <4> QED
          BY <4>1, <2>4 DEF Range
      <3> QED
        BY <3>1, <3>2, <3>3
    <2>6. Last(v) = x /\ x[1] = n
      BY <2>1, <2>4 DEF Last
    <2>7. walk'.paths = v /\ walk'.f0 = f0 /\ walk'.f = a
      BY <1>2, <1>4, <1>9, <2>1, <2>3
    <2>8. Chained(Top, fixed_faces, toUpper, v[1][1], f0, Range(v), Last(v)[1], a)
      BY <1>4, <1>9, <1>12, <2>1, <2>4, <2>5, <2>6
    <2>9. v[1][2] = 0
      BY <2>2, <2>4
    <2> QED
      BY ONLY <2>4, <2>7, <2>8, <2>9 DEF Follows, Edges
  <1>15. Top' = Top /\ Stacked' /\ DifferencesSurvive'
    BY <1>1, <1>3, KeptFacts
  <1>16. Contracting' /\ Linking' /\ Following'
    BY <1>1, <1>3, <1>14, <1>15 DEF Contracting, Linking, Following
  <1> QED
    BY <1>1, <1>3, <1>15, <1>16 DEF IInv, Working

(* The turns given to the edges of a chain that ends.                        *)
MergeTurns(turn) ==
  \A j \in 1 .. Len(walk.paths) :
    /\ turn[j] \in 0 .. 3
    /\ Top.diff[walk.paths[1][1]] = rshift90(Top.diff[walk.paths[j][1]], turn[j])
    /\ walk.paths[j][1] = walk.paths[1][1] => turn[j] = 0

LEMMA MergeIsRight ==
  ASSUME Level(Top), Contracting, Linking, Following, NEW g, NEW turn, Merge(g, turn), MergeTurns(turn),
         Whole(Top, fixed_faces, toUpper, walk.paths[1][1], walk.f0, g, Range(walk.paths))
  PROVE  /\ Contracts(Top, fixed_faces, toUpper', toUpperOrients')
         /\ Links(Top, fixed_faces, toUpper', toUpperOrients', nE2F')
  <1>0. PICK P, e0, f0, w : P = Range(walk.paths) /\ e0 = walk.paths[1][1] /\ f0 = walk.f0 /\ w = walk.paths
    OBVIOUS
  <1>1. /\ Len(w) \in Nat /\ Len(w) >= 1 /\ DOMAIN w = 1 .. Len(w)
        /\ \A i \in 1 .. Len(w) : w[i] \in P /\ w[i] \in Edges \X (0 .. 3)
        /\ e0 \in Edges
    BY <1>0, WalkFacts
  <1> DEFINE chain == {p[1] : p \in P}
             Visits(e) == {j \in 1 .. Len(w) : w[j][1] = e}
  <1>2. /\ toUpper' = [e \in Edges |-> IF e \in chain THEN e0 ELSE toUpper[e]]
        /\ toUpperOrients' = [e \in Edges |-> IF e \in chain THEN turn[Max(Visits(e))] ELSE toUpperOrients[e]]
        /\ nE2F' = [e \in DOMAIN nE2F \union {e0} |-> IF e = e0 THEN <<f0, g>> ELSE nE2F[e]]
    BY <1>0, <1>1 DEF Merge
  <1>3. \A e : e \in chain <=> On(P, e)
    BY DEF On
  <1>4. ASSUME NEW e \in chain
        PROVE  \E j \in 1 .. Len(w) : j = Max(Visits(e)) /\ w[j][1] = e
    <2>1. PICK p \in P : p[1] = e
      OBVIOUS
    <2>2. PICK i \in 1 .. Len(w) : p = w[i]
      BY <1>0, <1>1 DEF Range
    <2>3. Visits(e) # {} /\ Visits(e) \in SUBSET (1 .. Len(w))
      BY <2>1, <2>2
    <2>4. Max(Visits(e)) \in Visits(e)
      <3> HIDE DEF Visits
      <3> QED
        BY <1>1, <2>3, MaxIn
    <2> QED
      BY <2>4
  <1> HIDE DEF chain, Visits
  <1>5. \A j \in 1 .. Len(w) : /\ turn[j] \in 0 .. 3
                               /\ Top.diff[e0] = rshift90(Top.diff[w[j][1]], turn[j])
                               /\ w[j][1] = e0 => turn[j] = 0
    BY <1>0 DEF MergeTurns
  <1>6. ASSUME NEW e \in Edges
        PROVE  /\ toUpperOrients'[e] \in 0 .. 3
               /\ IF On(P, e) THEN Top.diff[e0] = rshift90(Top.diff[e], toUpperOrients'[e])
                  ELSE toUpperOrients'[e] = toUpperOrients[e]
               /\ On(P, e) /\ e = e0 => toUpperOrients'[e] = 0
    <2>1. CASE e \in chain
      <3>1. PICK j \in 1 .. Len(w) : j = Max(Visits(e)) /\ w[j][1] = e
        BY <2>1, <1>4
      <3>2. toUpperOrients'[e] = turn[j]
        BY <2>1, <3>1, <1>2
      <3> QED
        BY <2>1, <3>1, <3>2, <1>3, <1>5
    <2>2. CASE e \notin chain
      BY <2>2, <1>2, <1>3 DEF Contracting, Contracts, Edges
    <2> QED
      BY <2>1, <2>2
  <1>7. On(P, e0)
    BY <1>0 DEF Whole
  <1>8. Merges(Top, toUpper, toUpperOrients, nE2F, e0, f0, g, P, toUpper', toUpperOrients', nE2F')
    <2>1. toUpper' = [e \in Edges |-> IF On(P, e) THEN e0 ELSE toUpper[e]]
      BY <1>2, <1>3
    <2>2. toUpperOrients' \in [Edges -> 0 .. 3]
      BY <1>2, <1>6
    <2> QED
      BY <2>1, <2>2, <1>1, <1>2, <1>6, <1>7 DEF Merges, Edges
  <1>9. Whole(Top, fixed_faces, toUpper, e0, f0, g, P)
    BY <1>0
  <1> QED
    BY <1>8, <1>9, MergeLinks DEF Contracting, Linking

LEMMA EndChainIsRight ==
  ASSUME IInv, EndChain
  PROVE  IInv'
  <1>1. pc = "follow" /\ Stacked /\ Level(Top) /\ Closed(Top) /\ Contracting /\ Linking /\ Following
    BY DEF EndChain, IInv, Working
  <1>2. PICK turn : turn = [j \in DOMAIN walk.paths |-> walk.paths[j][2]]
    OBVIOUS
  <1>3. /\ pc' = "chains" /\ Kept /\ fixed_faces' = fixed_faces /\ ~ Crushed(Across)
        /\ Merge(Across, turn)
    BY <1>2 DEF EndChain, Kept
  <1>4. Whole(Top, fixed_faces, toUpper, walk.paths[1][1], walk.f0, Across, Range(walk.paths))
    <2>1. Across # None => fixed_faces[Across] # 2
      BY <1>3 DEF Crushed
    <2> QED
      BY <1>1, <2>1, WalkFacts, EndIsWhole
  <1>5. MergeTurns(turn)
    <2>1. Turning(Top, toUpper, walk.paths[1][1], Range(walk.paths))
      BY <1>1, WalkFacts DEF Chained
    <2> SUFFICES ASSUME NEW j \in 1 .. Len(walk.paths)
                 PROVE  /\ turn[j] \in 0 .. 3
                        /\ Top.diff[walk.paths[1][1]] = rshift90(Top.diff[walk.paths[j][1]], turn[j])
                        /\ walk.paths[j][1] = walk.paths[1][1] => turn[j] = 0
      BY DEF MergeTurns
    <2>2. turn[j] = walk.paths[j][2] /\ walk.paths[j] \in Range(walk.paths)
          /\ walk.paths[j] \in Edges \X (0 .. 3)
      BY <1>1, <1>2, WalkFacts
    <2>3. <<walk.paths[1][1], 0>> \in Range(walk.paths)
      BY <2>1 DEF Turning
    <2>4. <<walk.paths[1][1], 0>>[1] = walk.paths[1][1] /\ <<walk.paths[1][1], 0>>[2] = 0
      OBVIOUS
    <2> QED
      BY <2>1, <2>2, <2>3, <2>4 DEF Turning
  <1>6. /\ Contracts(Top, fixed_faces, toUpper', toUpperOrients')
        /\ Links(Top, fixed_faces, toUpper', toUpperOrients', nE2F')
    BY <1>1, <1>3, <1>4, <1>5, MergeIsRight
  <1>7. Top' = Top /\ Stacked' /\ DifferencesSurvive'
    BY <1>1, <1>3, KeptFacts
  <1>8. Contracting' /\ Linking'
    BY <1>3, <1>6, <1>7 DEF Contracting, Linking
  <1> QED
    BY <1>1, <1>3, <1>7, <1>8 DEF IInv, Working

LEMMA DeadEndIsRight ==
  ASSUME IInv, DeadEnd
  PROVE  IInv'
  <1>1. pc = "follow" /\ Stacked /\ Level(Top) /\ Closed(Top) /\ Contracting /\ Linking /\ Following
    BY DEF DeadEnd, IInv, Working
  <1>2. CASE Top.diff[Reached] # Zero
    <2>1. pc' = "exit"
      BY <1>2 DEF DeadEnd
    <2> QED
      BY <2>1 DEF IInv
  <1>3. CASE Top.diff[Reached] = Zero
    <2>1. PICK turn : turn = [j \in DOMAIN walk.paths |-> 0]
      OBVIOUS
    <2>2. /\ pc' = "chains" /\ Kept /\ fixed_faces' = fixed_faces /\ Merge(walk.f0, turn)
          /\ Across # None /\ fixed_faces[Across] = 2 /\ Exits = {}
      BY <1>3, <2>1 DEF DeadEnd, Kept, Crushed
    <2>3. Whole(Top, fixed_faces, toUpper, walk.paths[1][1], walk.f0, walk.f0, Range(walk.paths))
      <3>1. \A j \in Corner : Top.F2E[Across][j] = Reached \/ toUpper[Top.F2E[Across][j]] = Contracted
        BY <2>2 DEF Exits
      <3> QED
        BY <1>1, <2>2, <3>1, WalkFacts, DeadEndIsWhole
    <2>4. MergeTurns(turn)
      <3>1. Turning(Top, toUpper, walk.paths[1][1], Range(walk.paths))
        BY <1>1, WalkFacts DEF Chained
      <3>2. PICK x \in Edges : x = walk.paths[1][1]
        BY <1>1, WalkFacts
      <3>3. Top.diff[x] = Zero
        <4>1. Len(walk.paths) \in 1 .. Len(walk.paths)
          BY <1>1, WalkFacts
        <4>2. PICK p \in Range(walk.paths) : p \in Edges \X (0 .. 3) /\ p[1] = Reached
          BY <1>1, <4>1, WalkFacts DEF Reached
        <4>3. Top.diff[x] = rshift90(Zero, p[2])
          BY <1>3, <3>1, <3>2, <4>2 DEF Turning
        <4> QED
          BY <4>2, <4>3, ZeroTurned
      <3> SUFFICES ASSUME NEW j \in 1 .. Len(walk.paths)
                   PROVE  /\ turn[j] \in 0 .. 3
                          /\ Top.diff[walk.paths[1][1]] = rshift90(Top.diff[walk.paths[j][1]], turn[j])
                          /\ walk.paths[j][1] = walk.paths[1][1] => turn[j] = 0
        BY DEF MergeTurns
      <3>4. turn[j] = 0
        BY <1>1, <2>1, WalkFacts
      <3>5. PICK p \in Edges \X (0 .. 3) : p = walk.paths[j] /\ p \in Range(walk.paths)
        BY <1>1, WalkFacts
      <3>6. PICK d \in Vec, o \in 0 .. 3 : d = Top.diff[p[1]] /\ o = p[2]
        BY <1>1, <3>5, GraphFacts DEF Level, Edges
      <3>7. Zero = rshift90(d, o)
        BY <3>1, <3>2, <3>3, <3>5, <3>6 DEF Turning
      <3>8. d = Zero
        BY <3>7, TurnBack, ZeroTurned
      <3>9. Zero = rshift90(Zero, 0)
        BY ZeroTurned
      <3> QED
        BY <3>2, <3>3, <3>4, <3>5, <3>6, <3>8, <3>9
    <2>5. /\ Contracts(Top, fixed_faces, toUpper', toUpperOrients')
          /\ Links(Top, fixed_faces, toUpper', toUpperOrients', nE2F')
      BY <1>1, <2>2, <2>3, <2>4, MergeIsRight
    <2>6. Top' = Top /\ Stacked' /\ DifferencesSurvive'
      BY <1>1, <2>2, KeptFacts
    <2>7. Contracting' /\ Linking'
      BY <2>2, <2>5, <2>6 DEF Contracting, Linking
    <2> QED
      BY <1>1, <2>2, <2>6, <2>7 DEF IInv, Working
  <1> QED
    BY <1>2, <1>3

-----------------------------------------------------------------------------
(***************************************************************************)
(* FixFlip, and the theorem.                                               *)
(***************************************************************************)
LEMMA FixFaceIsRight ==
  ASSUME IInv, FixFace
  PROVE  IInv'
  <1>1. pc = "fix" /\ Stacked /\ Level(Top) /\ Paired /\ flipped \subseteq Faces
    BY DEF FixFace, IInv, Working
  <1>2. pc' = "fix" /\ ups' = ups /\ base' = base /\ E2E' = E2E /\ flipped' \subseteq flipped
    BY <1>1 DEF FixFace
  <1>3. \/ levels' = levels
        \/ \E d \in Dart : levels' = [levels EXCEPT ![Len(levels)] = Shrunk(Fan(d))]
    <2> SUFFICES ASSUME levels' # levels
                 PROVE  \E d \in Dart : levels' = [levels EXCEPT ![Len(levels)] = Shrunk(Fan(d))]
      OBVIOUS
    <2>1. PICK f \in flipped :
            \E works \in {{i \in 1 .. 6 : CheckShrink(Tried(f)[i], max_len)}} :
              works # {} /\ levels' = [levels EXCEPT ![Len(levels)] = Shrunk(Fan(Tried(f)[Min(works)]))]
      BY DEF FixFace
    <2>2. PICK works : /\ works = {i \in 1 .. 6 : CheckShrink(Tried(f)[i], max_len)} /\ works # {}
                       /\ levels' = [levels EXCEPT ![Len(levels)] = Shrunk(Fan(Tried(f)[Min(works)]))]
      BY <2>1
    <2>3. PICK i \in 1 .. 6 : i = Min(works) /\ CheckShrink(Tried(f)[i], max_len)
      <3>1. works \in SUBSET Nat
        BY <2>2
      <3>2. Min(works) \in works
        BY <2>2, <3>1, MinIn
      <3> QED
        BY <2>2, <3>2
    <2>4. Tried(f)[i] \in Dart \union {NoDart}
      <3>1. \A j \in Corner : <<f, j>> \in Dart /\ E2E[<<f, j>>] \in Dart \union {NoDart}
        BY <1>1 DEF Paired, Dart
      <3>2. i \in {1, 2, 3, 4, 5, 6} /\ 1 \in Corner /\ 2 \in Corner /\ 3 \in Corner
        BY DEF Corner
      <3> QED
        BY <3>1, <3>2 DEF Tried
    <2>5. Tried(f)[i] # NoDart
      BY <2>3 DEF CheckShrink
    <2> QED
      BY <2>2, <2>3, <2>4, <2>5
  <1>4. DifferencesSurvive'
    BY <1>2 DEF DifferencesSurvive
  <1>5. CASE levels' = levels
    <2>1. Kept
      BY <1>2, <1>5 DEF Kept
    <2>2. Stacked' /\ Top' = Top /\ Dart' = Dart /\ Faces' = Faces
      BY <1>1, <2>1, KeptFacts
    <2> QED
      BY <1>1, <1>2, <1>4, <2>2 DEF IInv, Working, Paired
  <1>6. CASE levels' # levels
    <2>1. PICK d \in Dart : levels' = [levels EXCEPT ![Len(levels)] = Shrunk(Fan(d))]
      BY <1>3, <1>6
    <2>2. PICK L, s : L = Shrunk(Fan(d)) /\ s = levels
      OBVIOUS
    <2>3. Level(L) /\ L.F2E = Top.F2E
      BY <1>1, <2>2, FanTyped, ShrunkIsLevel DEF Fanned
    <2>4. Stack(s) /\ Len(s) >= 1 /\ levels' = [s EXCEPT ![Len(s)] = L]
      BY <1>1, <2>1, <2>2 DEF Stacked
    <2>5. /\ Len(s) \in Nat /\ Stack([s EXCEPT ![Len(s)] = L]) /\ Len([s EXCEPT ![Len(s)] = L]) = Len(s)
          /\ [s EXCEPT ![Len(s)] = L][Len(s)] = L
      BY ONLY <2>4, StackFacts, Zenon
    <2>6. Stacked' /\ Top' = L
      BY <1>1, <1>2, <2>2, <2>4, <2>5 DEF Stacked, Top
    <2>7. Faces' = Faces /\ Dart' = Dart
      BY <2>3, <2>6 DEF Faces, Dart
    <2> QED
      BY <1>1, <1>2, <1>4, <2>3, <2>6, <2>7 DEF IInv, Working, Paired
  <1> QED
    BY <1>5, <1>6

LEMMA NextLengthIsRight ==
  ASSUME IInv, NextLength
  PROVE  IInv'
  <1>1. pc = "fix" /\ Stacked /\ Level(Top) /\ Paired /\ flipped \subseteq Faces
    BY DEF NextLength, IInv, Working
  <1>2. pc' = pc /\ Kept /\ E2E' = E2E /\ flipped' = flipped
    BY DEF NextLength, Kept
  <1>3. Stacked' /\ Top' = Top /\ Dart' = Dart /\ Faces' = Faces /\ DifferencesSurvive'
    BY <1>1, <1>2, KeptFacts
  <1> QED
    BY <1>1, <1>2, <1>3 DEF IInv, Working, Paired

LEMMA StutterIsRight ==
  ASSUME IInv, UNCHANGED vars
  PROVE  IInv'
  <1>1. /\ pc' = pc /\ mesh' = mesh /\ levels' = levels /\ ups' = ups /\ base' = base
        /\ fixed_faces' = fixed_faces /\ toUpper' = toUpper /\ toUpperOrients' = toUpperOrients
        /\ nE2F' = nE2F /\ walk' = walk /\ E2E' = E2E /\ flipped' = flipped
    BY DEF vars, building, fixing
  <1>2. CASE Working
    <2>1. Top' = Top /\ Stacked' /\ DifferencesSurvive' /\ Edges' = Edges /\ Faces' = Faces /\ Dart' = Dart
      BY <1>1, <1>2, KeptFacts DEF Kept, Working
    <2>2. /\ Contracting => Contracting'
          /\ Linking => Linking'
          /\ Unlinked => Unlinked'
          /\ Following => Following'
          /\ Paired => Paired'
      BY <1>1, <2>1 DEF Contracting, Linking, Unlinked, Following, Paired
    <2> QED
      BY <1>1, <1>2, <2>1, <2>2 DEF IInv, Working
  <1>3. CASE ~ Working
    BY <1>1, <1>3 DEF IInv
  <1> QED
    BY <1>2, <1>3

LEMMA NextIsRight ==
  ASSUME IInv, [Next]_vars
  PROVE  IInv'
  <1>1. CASE GiveUp
    BY <1>1 DEF GiveUp, IInv
  <1>2. CASE PropagateEdge
    BY <1>2 DEF PropagateEdge, IInv
  <1> QED
    BY <1>1, <1>2, BeginIsRight, ContractIsRight, ClassifyIsRight, StartChainIsRight, CrossIsRight,
       EndChainIsRight, DeadEndIsRight, LiftIsRight, FixFaceIsRight, NextLengthIsRight,
       RecurseIsRight, StutterIsRight DEF Next

(* Contracting loses nothing: from the level that DownsampleEdgeGraph has    *)
(* built, PropagateEdge would give back every difference and every turn of   *)
(* the level below, but for the edges of a crushed piece without a way up.   *)
THEOREM ContractingLosesNothing == Spec => []DifferencesSurvive
  <1>1. Init => IInv
    BY InitIsRight
  <1>2. IInv /\ [Next]_vars => IInv'
    BY NextIsRight
  <1>3. IInv => DifferencesSurvive
    <2>1. pc # "contract" => DifferencesSurvive
      BY DEF DifferencesSurvive
    <2> QED
      BY <2>1 DEF IInv, Working
  <1> QED
    BY <1>1, <1>2, <1>3, PTL DEF Spec
=============================================================================
