-------------------------- MODULE IndexMapProofs --------------------------
(***************************************************************************)
(* Proofs about IndexMap, for every surface: while long edges are halved   *)
(* in place, before and after flips are removed, the two sides of an edge  *)
(* stay paired and agree.                                                  *)
(*                                                                         *)
(* MapInv is the invariant.  While edges are halved, the surface is sewn   *)
(* together in pairs and the differences are those of the turns and frames *)
(* (BeingHalved); while flips are removed, the first level is that of the  *)
(* surface and the levels above hang together (Tower), which needs the     *)
(* invariant of EdgeHierarchyProofs.                                       *)
(***************************************************************************)
EXTENDS IndexMap, EdgeHierarchyProofs

-----------------------------------------------------------------------------
(***************************************************************************)
(* Differences that are turns of each other.                               *)
(***************************************************************************)
Turnable(c, d) == \E t \in 0 .. 3 : rshift90(c, t) = d

LEMMA TurnableFacts ==
  ASSUME NEW c \in Vec, NEW d \in Vec, NEW e \in Vec
  PROVE  /\ Turnable(c, c)
         /\ Turnable(c, d) => Turnable(d, c)
         /\ Turnable(c, d) /\ Turnable(d, e) => Turnable(c, e)
         /\ Turnable(c, Minus(Zero, c))
  <1>1. Turnable(c, c)
    BY Turned DEF Turnable
  <1>2. ASSUME Turnable(c, d) PROVE Turnable(d, c)
    <2>1. PICK t \in 0 .. 3 : rshift90(c, t) = d
      BY <1>2 DEF Turnable
    <2> QED
      BY <2>1, TurnBack DEF Turnable
  <1>3. ASSUME Turnable(c, d), Turnable(d, e) PROVE Turnable(c, e)
    <2>1. PICK t \in 0 .. 3, u \in 0 .. 3 : rshift90(c, t) = d /\ rshift90(d, u) = e
      BY <1>3 DEF Turnable
    <2>2. (t + u) % 4 \in 0 .. 3
      OBVIOUS
    <2> QED
      BY <2>1, <2>2, TurnTwice DEF Turnable
  <1>4. Turnable(c, Minus(Zero, c))
    <2>1. PICK i \in Int, j \in Int : c = <<i, j>>
      BY DEF Vec
    <2>2. Minus(Zero, c) = <<0 - i, 0 - j>>
      BY <2>1 DEF Minus, Zero
    <2>3. 0 - i = -i /\ 0 - j = -j
      BY <2>1
    <2>4. rshift90(c, 2) = <<-i, -j>>
      BY <2>1, Turned
    <2> QED
      BY <2>2, <2>3, <2>4 DEF Turnable
  <1> QED
    BY <1>1, <1>2, <1>3, <1>4

LEMMA VecFacts ==
  ASSUME NEW c \in Vec, NEW d \in Vec
  PROVE  Plus(c, d) \in Vec /\ Minus(c, d) \in Vec /\ Zero \in Vec
  <1>1. PICK i \in Int, j \in Int : c = <<i, j>>
    BY DEF Vec
  <1>2. PICK k \in Int, l \in Int : d = <<k, l>>
    BY DEF Vec
  <1>3. Plus(c, d) = <<i + k, j + l>> /\ Minus(c, d) = <<i - k, j - l>>
    BY <1>1, <1>2 DEF Plus, Minus
  <1>4. i + k \in Int /\ j + l \in Int /\ i - k \in Int /\ j - l \in Int
    OBVIOUS
  <1> QED
    BY <1>3, <1>4 DEF Vec, Zero

(* What is turned alike stays a turn.                                        *)
LEMMA MinusTurned ==
  ASSUME NEW c \in Vec, NEW d \in Vec, NEW t \in 0 .. 3
  PROVE  rshift90(Minus(c, d), t) = Minus(rshift90(c, t), rshift90(d, t))
  <1>1. PICK i \in Int, j \in Int : c = <<i, j>>
    BY DEF Vec
  <1>2. PICK k \in Int, l \in Int : d = <<k, l>>
    BY DEF Vec
  <1>3. PICK m : m = Minus(c, d)
    OBVIOUS
  <1>4. m = <<i - k, j - l>> /\ m \in Vec /\ m[1] = i - k /\ m[2] = j - l
    BY <1>1, <1>2, <1>3, VecFacts DEF Minus
  <1>5. /\ c[1] = i /\ c[2] = j /\ d[1] = k /\ d[2] = l
        /\ -(i - k) = (-i) - (-k) /\ -(j - l) = (-j) - (-l)
    BY <1>1, <1>2
  <1>6. CASE t = 0
    BY <1>3, <1>6, <1>4, Turned
  <1>7. CASE t = 1
    <2>1. rshift90(c, 1) = <<-j, i>> /\ rshift90(d, 1) = <<-l, k>> /\ rshift90(m, 1) = <<-(j - l), i - k>>
      BY <1>4, <1>5, Turned
    <2> QED
      BY <2>1, <1>3, <1>5, <1>7 DEF Minus
  <1>8. CASE t = 2
    <2>1. /\ rshift90(c, 2) = <<-i, -j>> /\ rshift90(d, 2) = <<-k, -l>>
          /\ rshift90(m, 2) = <<-(i - k), -(j - l)>>
      BY <1>4, <1>5, Turned
    <2> QED
      BY <2>1, <1>3, <1>5, <1>8 DEF Minus
  <1>9. CASE t = 3
    <2>1. rshift90(c, 3) = <<j, -i>> /\ rshift90(d, 3) = <<l, -k>> /\ rshift90(m, 3) = <<j - l, -(i - k)>>
      BY <1>4, <1>5, Turned
    <2> QED
      BY <2>1, <1>3, <1>5, <1>9 DEF Minus
  <1> QED
    BY <1>6, <1>7, <1>8, <1>9

LEMMA HalfTyped ==
  ASSUME NEW d \in Vec
  PROVE  Half(d) \in Vec
  <1>1. PICK i \in Int, j \in Int : d = <<i, j>>
    BY DEF Vec
  <1>2. PICK h : h = Half(d)
    OBVIOUS
  <1>3. /\ h[1] = (IF i < 0 THEN -((-i) \div 2) ELSE i \div 2)
        /\ h[2] = (IF j < 0 THEN -((-j) \div 2) ELSE j \div 2)
        /\ h = <<h[1], h[2]>>
    BY <1>1, <1>2 DEF Half
  <1>4. -i \in Int /\ -j \in Int /\ i \div 2 \in Int /\ j \div 2 \in Int
    OBVIOUS
  <1>5. (-i) \div 2 \in Int /\ (-j) \div 2 \in Int
    BY <1>4
  <1>6. h[1] \in Int /\ h[2] \in Int
    BY <1>3, <1>4, <1>5
  <1> QED
    BY <1>2, <1>3, <1>6 DEF Vec

-----------------------------------------------------------------------------
(***************************************************************************)
(* Linking the parts of a face.                                            *)
(***************************************************************************)
(* The darts of K are in pairs, or alone.                                    *)
Sealed(T, K) ==
  /\ K \subseteq DOMAIN T /\ NoDart \notin K
  /\ \A z \in K : T[z] # NoDart => T[z] \in K /\ T[T[z]] = z

(* A face with the darts p and q that stay is cut into b and a.              *)
CutInto(T, K, p, q, b, a) ==
  /\ Sealed(T, K) /\ p \in K /\ q \in K /\ p # q
  /\ T[p] \notin {p, q} /\ T[q] \notin {p, q}
  /\ b \in Nat /\ a \in Nat /\ b # a
  /\ \A z \in K : z[1] \in {a, b} => z \in {p, q}

Moved(K, p, q, b, a) ==
  [z \in K |-> IF z = p THEN <<b, 2>> ELSE IF z = q THEN <<a, 2>> ELSE z]

SideCut(T, K, x, p, q, b, a, N, M) ==
  /\ p = Prev3(x) /\ q = Next3(x) /\ CutInto(T, K, p, q, b, a)
  /\ N = LinkSide(T, x, b, a) /\ M = Moved(K, p, q, b, a)

NowLinked(T, K, b, a, N, M) ==
  /\ \A z \in K : N[M[z]] = IF T[z] = NoDart THEN NoDart ELSE M[T[z]]
  /\ N[<<b, 1>>] = <<a, 3>> /\ N[<<a, 3>>] = <<b, 1>>
  /\ DOMAIN N = DOMAIN T \union {<<b, 1>>, <<b, 2>>, <<a, 2>>, <<a, 3>>}
  /\ \A u \in DOMAIN T \ K : u # NoDart /\ u[1] \notin {a, b} => N[u] = T[u]

LEMMA SideLinked ==
  ASSUME NEW T, NEW K, NEW x, NEW p, NEW q, NEW b, NEW a, NEW N, NEW M,
         SideCut(T, K, x, p, q, b, a, N, M)
  PROVE  NowLinked(T, K, b, a, N, M)
  <1>0. PICK b1, b2, a2, a3 : b1 = <<b, 1>> /\ b2 = <<b, 2>> /\ a2 = <<a, 2>> /\ a3 = <<a, 3>>
    OBVIOUS
  <1>1. /\ p = Prev3(x) /\ q = Next3(x) /\ CutInto(T, K, p, q, b, a)
        /\ N = LinkSide(T, x, b, a) /\ M = Moved(K, p, q, b, a)
    BY DEF SideCut
  <1>19. PICK tp, tq : tp = T[p] /\ tq = T[q]
    OBVIOUS
  <1>2. /\ K \subseteq DOMAIN T /\ NoDart \notin K /\ p \in K /\ q \in K /\ p # q
        /\ \A z \in K : T[z] # NoDart => T[z] \in K /\ T[T[z]] = z
        /\ T[p] \notin {p, q} /\ T[q] \notin {p, q}
        /\ b \in Nat /\ a \in Nat /\ b # a
        /\ \A z \in K : z[1] \in {a, b} => z \in {p, q}
    BY <1>1 DEF CutInto, Sealed
  <1>3. /\ b1 # NoDart /\ b2 # NoDart /\ a2 # NoDart /\ a3 # NoDart
        /\ b1 # b2 /\ b1 # a2 /\ b1 # a3 /\ b2 # a2 /\ b2 # a3 /\ a2 # a3
        /\ b1[1] = b /\ b2[1] = b /\ a2[1] = a /\ a3[1] = a
    BY <1>0, <1>2 DEF NoDart, None
  <1>4. \A z \in K : z \notin {p, q} => z \notin {b1, b2, a2, a3}
    BY <1>2, <1>3
  <1>5. PICK T1 : T1 = Link(T, b1, a3)
    OBVIOUS
  <1>6. PICK T2 : T2 = Link(T1, b2, T[p])
    OBVIOUS
  <1>7. N = Link(T2, a2, T[q])
    BY <1>0, <1>1, <1>5, <1>6 DEF LinkSide
  <1>8. /\ DOMAIN T1 = DOMAIN T \union {b1, a3} /\ T1[b1] = a3 /\ T1[a3] = b1
        /\ \A u \in DOMAIN T : u # b1 /\ u # a3 => T1[u] = T[u]
    BY ONLY <1>3, <1>5 DEF Link
  <1>9. /\ tp = NoDart =>
             /\ DOMAIN T2 = DOMAIN T1 \union {b2} /\ T2[b2] = NoDart
             /\ \A u \in DOMAIN T1 : u # b2 /\ u # NoDart => T2[u] = T1[u]
        /\ tp # NoDart =>
             /\ DOMAIN T2 = DOMAIN T1 \union {b2, tp} /\ T2[b2] = tp /\ T2[tp] = b2
             /\ \A u \in DOMAIN T1 : u # b2 /\ u # tp => T2[u] = T1[u]
    BY ONLY <1>3, <1>6, <1>19 DEF Link
  <1>10. /\ tq = NoDart =>
              /\ DOMAIN N = DOMAIN T2 \union {a2} /\ N[a2] = NoDart
              /\ \A u \in DOMAIN T2 : u # a2 /\ u # NoDart => N[u] = T2[u]
         /\ tq # NoDart =>
              /\ DOMAIN N = DOMAIN T2 \union {a2, tq} /\ N[a2] = tq /\ N[tq] = a2
              /\ \A u \in DOMAIN T2 : u # a2 /\ u # tq => N[u] = T2[u]
    BY ONLY <1>3, <1>7, <1>19 DEF Link
  <1>11. /\ T[p] # NoDart => T[p] \in K /\ T[p] \notin {b1, b2, a2, a3} /\ T[T[p]] = p
         /\ T[q] # NoDart => T[q] \in K /\ T[q] \notin {b1, b2, a2, a3} /\ T[T[q]] = q
    BY <1>2, <1>4
  <1>12. DOMAIN N = DOMAIN T \union {b1, b2, a2, a3}
    BY <1>2, <1>8, <1>9, <1>10, <1>19, <1>11
  <1>13. T[q] # T[p] \/ T[q] = NoDart
    BY <1>2, <1>11
  <1>14. N[b2] = T[p] /\ N[a2] = T[q] /\ N[b1] = a3 /\ N[a3] = b1
    <2>1. T2[b2] = T[p]
      BY <1>9, <1>19
    <2>2. N[b2] = T2[b2]
      BY <1>3, <1>9, <1>10, <1>19, <1>11
    <2>3. b1 \in DOMAIN T1 /\ a3 \in DOMAIN T1
      BY <1>8
    <2>4. T2[b1] = T1[b1] /\ T2[a3] = T1[a3] /\ b1 \in DOMAIN T2 /\ a3 \in DOMAIN T2
      BY <1>3, <1>9, <1>19, <1>11, <2>3
    <2>5. N[b1] = T2[b1] /\ N[a3] = T2[a3]
      BY <1>3, <1>10, <1>19, <1>11, <2>4
    <2>6. N[a2] = T[q]
      BY <1>10, <1>19
    <2> QED
      BY <2>1, <2>2, <2>4, <2>5, <2>6, <1>8
  <1>15. ASSUME NEW u \in DOMAIN T, u # NoDart, u \notin {b1, b2, a2, a3}, u # T[p], u # T[q]
         PROVE  N[u] = T[u]
    <2>1. u \in DOMAIN T1 /\ T1[u] = T[u]
      BY <1>8, <1>15
    <2>2. u \in DOMAIN T2 /\ T2[u] = T1[u]
      BY <1>9, <1>19, <1>15, <2>1
    <2> QED
      BY <1>10, <1>19, <1>15, <2>1, <2>2
  <1>16. /\ M[p] = b2 /\ M[q] = a2
         /\ \A z \in K : z \notin {p, q} => M[z] = z
    BY <1>0, <1>1, <1>2 DEF Moved
  <1>17. ASSUME NEW z \in K
         PROVE  N[M[z]] = IF T[z] = NoDart THEN NoDart ELSE M[T[z]]
    <2>1. CASE z = p
      BY <2>1, <1>2, <1>11, <1>14, <1>16
    <2>2. CASE z = q
      BY <2>2, <1>2, <1>11, <1>14, <1>16
    <2>3. CASE z \notin {p, q} /\ T[z] = p
      <3>1. z = T[p] /\ T[p] # NoDart
        BY <2>3, <1>2
      <3>2. z # T[q]
        BY <2>3, <3>1, <1>11, <1>2
      <3>3. T2[z] = b2 /\ z \in DOMAIN T2
        BY <3>1, <1>9, <1>19
      <3>4. z # a2
        BY <2>3, <1>4
      <3>5. N[z] = b2
        BY <3>2, <3>3, <3>4, <1>10, <1>19
      <3> QED
        BY <2>3, <3>5, <1>16, <1>2
    <2>4. CASE z \notin {p, q} /\ T[z] = q
      <3>1. z = T[q] /\ T[q] # NoDart
        BY <2>4, <1>2
      <3>2. N[z] = a2
        BY <3>1, <1>10, <1>19
      <3> QED
        BY <2>4, <3>2, <1>16, <1>2
    <2>5. CASE z \notin {p, q} /\ T[z] \notin {p, q}
      <3>1. z # T[p] /\ z # T[q]
        BY <2>5, <1>2, <1>11
      <3>2. N[z] = T[z]
        BY <3>1, <2>5, <1>2, <1>4, <1>15
      <3> QED
        BY <2>5, <3>2, <1>2, <1>16
    <2> QED
      BY <2>1, <2>2, <2>3, <2>4, <2>5
  <1>18. ASSUME NEW u \in DOMAIN T \ K, u # NoDart, u[1] \notin {a, b}
         PROVE  N[u] = T[u]
    <2>1. u \notin {b1, b2, a2, a3}
      BY <1>18, <1>3
    <2>2. u # T[p] /\ u # T[q]
      BY <1>18, <1>11
    <2> QED
      BY <2>1, <2>2, <1>15, <1>18
  <1> QED
    BY <1>0, <1>12, <1>14, <1>17, <1>18 DEF NowLinked

-----------------------------------------------------------------------------
(***************************************************************************)
(* A surface whose darts are sewn together in pairs: n faces, v vertices,  *)
(* m edges.                                                                *)
(***************************************************************************)
Darts(n) == (1 .. n) \X Corner
StartIn(tri, z) == tri[z[1]][z[2]]
EndIn(tri, z) == tri[z[1]][(z[2] % 3) + 1]
Num(ids, z) == ids[z[1]][z[2]]

Crossed(tri, opp, ids, z, y) ==
  /\ opp[y] = z /\ Num(ids, y) = Num(ids, z)
  /\ StartIn(tri, y) = EndIn(tri, z) /\ StartIn(tri, z) = EndIn(tri, y)

Joined(n, tri, opp, ids, ends, rim, z) ==
  /\ ends[Num(ids, z)] = {StartIn(tri, z), EndIn(tri, z)}
  /\ opp[z] = NoDart <=> z \in rim
  /\ opp[z] # NoDart => opp[z] \in Darts(n) /\ Crossed(tri, opp, ids, z, opp[z])

Tables(n, v, m, tri, opp, ids, ends) ==
  /\ n \in Nat /\ v \in Nat /\ m \in Nat
  /\ tri \in [1 .. n -> [Corner -> 1 .. v]] /\ ids \in [1 .. n -> [Corner -> 1 .. m]]
  /\ DOMAIN opp = Darts(n) /\ DOMAIN ends = 1 .. m
  /\ \A f \in 1 .. n : \A i, j \in Corner : tri[f][i] = tri[f][j] => i = j

Alike(ids, opp, y, z) == Num(ids, y) = Num(ids, z) => y = z \/ y = opp[z]

Sewn(n, v, m, tri, opp, ids, ends, rim) ==
  /\ Tables(n, v, m, tri, opp, ids, ends)
  /\ \A e \in 1 .. m : \E z \in Darts(n) : Num(ids, z) = e
  /\ \A z \in Darts(n) : Joined(n, tri, opp, ids, ends, rim, z)
  /\ \A y, z \in Darts(n) : Alike(ids, opp, y, z)

(* The darts of K go to other places, and those at a seam are new.           *)
Goes1(K, loc, tri, opp, ids, ends, rim, tri2, opp2, ids2, ends2, rim2, z) ==
  /\ StartIn(tri2, loc[z]) = StartIn(tri, z) /\ EndIn(tri2, loc[z]) = EndIn(tri, z)
  /\ Num(ids2, loc[z]) = Num(ids, z) /\ ends2[Num(ids, z)] = ends[Num(ids, z)]
  /\ opp2[loc[z]] = (IF opp[z] = NoDart THEN NoDart ELSE loc[opp[z]])
  /\ loc[z] \in rim2 <=> z \in rim
  /\ opp[z] # NoDart => opp[z] \in K

SeamDart(n2, tri2, opp2, ids2, ends2, rim2, news, seam, s) ==
  /\ Joined(n2, tri2, opp2, ids2, ends2, rim2, s)
  /\ Num(ids2, s) \in news
  /\ \A t \in seam : Alike(ids2, opp2, s, t)

Resews(n, v, m, tri, opp, ids, ends, rim,
       n2, v2, m2, tri2, opp2, ids2, ends2, rim2, K, loc, seam, news) ==
  /\ Sewn(n, v, m, tri, opp, ids, ends, rim)
  /\ Tables(n2, v2, m2, tri2, opp2, ids2, ends2)
  /\ K \subseteq Darts(n) /\ loc \in [K -> Darts(n2)] /\ NoDart \notin Darts(n2)
  /\ \A u \in Darts(n2) : u \in seam \/ \E z \in K : u = loc[z]
  /\ \A z \in K :
       Goes1(K, loc, tri, opp, ids, ends, rim, tri2, opp2, ids2, ends2, rim2, z)
  /\ \A s \in seam : SeamDart(n2, tri2, opp2, ids2, ends2, rim2, news, seam, s)
  /\ seam \subseteq Darts(n2)
  /\ \A z \in K : Num(ids, z) \notin news
  /\ \A e \in news : \E s \in seam : Num(ids2, s) = e
  /\ \A e \in (1 .. m2) \ news : \E z \in K : Num(ids, z) = e

LEMMA Resewn ==
  ASSUME NEW n, NEW v, NEW m, NEW tri, NEW opp, NEW ids, NEW ends, NEW rim,
         NEW n2, NEW v2, NEW m2, NEW tri2, NEW opp2, NEW ids2, NEW ends2, NEW rim2,
         NEW K, NEW loc, NEW seam, NEW news,
         Resews(n, v, m, tri, opp, ids, ends, rim,
                n2, v2, m2, tri2, opp2, ids2, ends2, rim2, K, loc, seam, news)
  PROVE  Sewn(n2, v2, m2, tri2, opp2, ids2, ends2, rim2)
  <1>0. /\ Sewn(n, v, m, tri, opp, ids, ends, rim)
        /\ Tables(n2, v2, m2, tri2, opp2, ids2, ends2)
        /\ K \subseteq Darts(n) /\ loc \in [K -> Darts(n2)] /\ NoDart \notin Darts(n2)
        /\ \A u \in Darts(n2) : u \in seam \/ \E z \in K : u = loc[z]
        /\ \A z \in K :
             Goes1(K, loc, tri, opp, ids, ends, rim, tri2, opp2, ids2, ends2, rim2, z)
        /\ \A s \in seam : SeamDart(n2, tri2, opp2, ids2, ends2, rim2, news, seam, s)
        /\ seam \subseteq Darts(n2)
        /\ \A z \in K : Num(ids, z) \notin news
        /\ \A e \in news : \E s \in seam : Num(ids2, s) = e
        /\ \A e \in (1 .. m2) \ news : \E z \in K : Num(ids, z) = e
    BY DEF Resews
  <1> USE <1>0
  <1>1. /\ \A z \in Darts(n) : Joined(n, tri, opp, ids, ends, rim, z)
        /\ \A y, z \in Darts(n) : Alike(ids, opp, y, z)
    BY DEF Sewn
  <1>2. ASSUME NEW e \in 1 .. m2
        PROVE  \E z \in Darts(n2) : Num(ids2, z) = e
    <2>1. CASE e \in news
      BY <2>1
    <2>2. CASE e \notin news
      <3>1. PICK z \in K : Num(ids, z) = e
        BY <2>2
      <3>2. Num(ids2, loc[z]) = e /\ loc[z] \in Darts(n2)
        BY <3>1 DEF Goes1
      <3> QED
        BY <3>2
    <2> QED
      BY <2>1, <2>2
  <1>3. ASSUME NEW z \in K
        PROVE  Joined(n2, tri2, opp2, ids2, ends2, rim2, loc[z])
    <2>1. /\ Joined(n, tri, opp, ids, ends, rim, z)
          /\ Goes1(K, loc, tri, opp, ids, ends, rim, tri2, opp2, ids2, ends2, rim2, z)
      BY <1>1
    <2>2. PICK y : y = opp[z]
      OBVIOUS
    <2>3. CASE y = NoDart
      BY <2>1, <2>2, <2>3 DEF Joined, Goes1
    <2>4. CASE y # NoDart
      <3>1. /\ y \in K /\ y \in Darts(n) /\ Crossed(tri, opp, ids, z, y)
        BY <2>1, <2>2, <2>4 DEF Joined, Goes1
      <3>2. Goes1(K, loc, tri, opp, ids, ends, rim, tri2, opp2, ids2, ends2, rim2, y)
        BY <3>1
      <3>3. z # NoDart
        BY <3>2, <3>1, <1>1, <2>1 DEF Joined, Goes1, Crossed, Darts, NoDart, None
      <3>4. opp2[loc[z]] = loc[y] /\ opp2[loc[y]] = loc[z] /\ loc[y] \in Darts(n2)
        BY <2>1, <2>2, <2>4, <3>1, <3>2, <3>3 DEF Goes1, Crossed
      <3>5. Crossed(tri2, opp2, ids2, loc[z], loc[y])
        BY <2>1, <3>1, <3>2, <3>4 DEF Goes1, Crossed
      <3>6. loc[y] # NoDart
        BY <3>4
      <3> QED
        BY <2>1, <2>2, <2>4, <3>4, <3>5, <3>6 DEF Joined, Goes1
    <2> QED
      BY <2>3, <2>4
  <1>4. ASSUME NEW w \in Darts(n2)
        PROVE  Joined(n2, tri2, opp2, ids2, ends2, rim2, w)
    <2>1. CASE w \in seam
      BY <2>1 DEF SeamDart
    <2>2. CASE \E z \in K : w = loc[z]
      BY <2>2, <1>3
    <2> QED
      BY <2>1, <2>2
  <1>5. ASSUME NEW w \in Darts(n2), NEW u \in Darts(n2), Num(ids2, w) = Num(ids2, u)
        PROVE  w = u \/ w = opp2[u]
    <2>1. CASE w \in seam /\ u \in seam
      BY <2>1, <1>5 DEF SeamDart, Alike
    <2>2. ASSUME NEW z \in K, w = loc[z] PROVE w = u \/ w = opp2[u]
      <3>1. Num(ids2, w) \notin news
        BY <2>2 DEF Goes1
      <3>2. u \notin seam
        BY <3>1, <1>5 DEF SeamDart
      <3>3. PICK y \in K : u = loc[y]
        BY <3>2
      <3>4. Num(ids, z) = Num(ids, y)
        BY <2>2, <3>3, <1>5 DEF Goes1
      <3>5. z = y \/ z = opp[y]
        BY <3>4, <1>1 DEF Alike
      <3>6. CASE z = opp[y]
        <4>1. z # NoDart
          BY DEF Darts, NoDart, None
        <4> QED
          BY <4>1, <2>2, <3>3, <3>6 DEF Goes1
      <3> QED
        BY <3>5, <3>6, <2>2, <3>3
    <2>3. ASSUME NEW z \in K, u = loc[z], w \in seam PROVE FALSE
      BY <2>3, <1>5 DEF Goes1, SeamDart
    <2> QED
      BY <2>1, <2>2, <2>3
  <1> QED
    BY <1>2, <1>4, <1>5 DEF Sewn, Alike

(* The three darts of a face.                                                *)
LEMMA FaceDarts ==
  ASSUME NEW n \in Nat, NEW x \in Darts(n), NEW tri,
         NEW p, p = Prev3(x), NEW q, q = Next3(x)
  PROVE  /\ p \in Darts(n) /\ q \in Darts(n) /\ p # q /\ p # x /\ q # x
         /\ p[1] = x[1] /\ q[1] = x[1] /\ x[1] \in 1 .. n
         /\ \A z \in Darts(n) : z[1] = x[1] => z \in {x, p, q}
         /\ EndIn(tri, x) = StartIn(tri, q) /\ EndIn(tri, q) = StartIn(tri, p)
         /\ EndIn(tri, p) = StartIn(tri, x)
  <1>1. PICK f \in 1 .. n, j \in Corner : x = <<f, j>>
    BY DEF Darts
  <1>2. PICK k, l : k = (j % 3) + 1 /\ l = (k % 3) + 1
    OBVIOUS
  <1>3. /\ k \in Corner /\ l \in Corner /\ k # l /\ k # j /\ l # j /\ (l % 3) + 1 = j
        /\ \A i \in Corner : i \in {j, k, l}
    BY <1>2 DEF Corner
  <1>4. q = <<f, k>> /\ p = <<f, l>>
    BY <1>1, <1>2 DEF Next3, Prev3
  <1>5. ASSUME NEW z \in Darts(n), z[1] = x[1] PROVE z \in {x, p, q}
    <2>1. PICK g \in 1 .. n, i \in Corner : z = <<g, i>>
      BY DEF Darts
    <2> QED
      BY <2>1, <1>1, <1>3, <1>4, <1>5
  <1>6. p \in Darts(n) /\ q \in Darts(n)
    BY <1>3, <1>4 DEF Darts
  <1>7. EndIn(tri, x) = StartIn(tri, q) /\ EndIn(tri, q) = StartIn(tri, p) /\ EndIn(tri, p) = StartIn(tri, x)
    BY <1>1, <1>2, <1>3, <1>4 DEF EndIn, StartIn
  <1> QED
    BY <1>1, <1>3, <1>4, <1>5, <1>6, <1>7

LEMMA HeadsDiffer ==
  ASSUME NEW n, NEW v, NEW m, NEW tri, NEW opp, NEW ids, NEW ends,
         Tables(n, v, m, tri, opp, ids, ends),
         NEW y \in Darts(n), NEW z \in Darts(n), y[1] = z[1], y # z
  PROVE  StartIn(tri, y) # StartIn(tri, z)
  <1>1. PICK f \in 1 .. n, j \in Corner : y = <<f, j>>
    BY DEF Darts
  <1>2. PICK g \in 1 .. n, k \in Corner : z = <<g, k>>
    BY DEF Darts
  <1>3. f = g /\ j # k
    BY <1>1, <1>2
  <1> QED
    BY <1>1, <1>2, <1>3 DEF Tables, StartIn

(* An edge has its sides in different faces.                                 *)
LEMMA OtherFace ==
  ASSUME NEW n, NEW v, NEW m, NEW tri, NEW opp, NEW ids, NEW ends, NEW rim,
         Sewn(n, v, m, tri, opp, ids, ends, rim),
         NEW x \in Darts(n), opp[x] # NoDart
  PROVE  /\ opp[x] \in Darts(n) /\ opp[x][1] # x[1] /\ opp[opp[x]] = x
         /\ Num(ids, opp[x]) = Num(ids, x)
         /\ StartIn(tri, opp[x]) = EndIn(tri, x) /\ StartIn(tri, x) = EndIn(tri, opp[x])
  <1>1. PICK y : y = opp[x]
    OBVIOUS
  <1>2. PICK p, q : p = Prev3(x) /\ q = Next3(x)
    OBVIOUS
  <1>3. Tables(n, v, m, tri, opp, ids, ends) /\ n \in Nat
    BY DEF Sewn, Tables
  <1>4. y \in Darts(n) /\ Crossed(tri, opp, ids, x, y)
    BY <1>1 DEF Sewn, Joined
  <1>5. /\ p \in Darts(n) /\ q \in Darts(n) /\ p # q /\ p # x /\ q # x
        /\ p[1] = x[1] /\ q[1] = x[1]
        /\ \A z \in Darts(n) : z[1] = x[1] => z \in {x, p, q}
        /\ EndIn(tri, x) = StartIn(tri, q) /\ EndIn(tri, q) = StartIn(tri, p)
        /\ EndIn(tri, p) = StartIn(tri, x)
    BY <1>2, <1>3, FaceDarts
  <1>6. StartIn(tri, y) = EndIn(tri, x) /\ StartIn(tri, x) = EndIn(tri, y) /\ opp[y] = x
        /\ Num(ids, y) = Num(ids, x)
    BY <1>4 DEF Crossed
  <1>7. /\ StartIn(tri, x) # StartIn(tri, q) /\ StartIn(tri, p) # StartIn(tri, x)
        /\ StartIn(tri, p) # StartIn(tri, q)
    BY ONLY <1>3, <1>5, HeadsDiffer
  <1>8. ASSUME y[1] = x[1] PROVE FALSE
    <2>1. y \in {x, p, q}
      BY <1>4, <1>5, <1>8
    <2> QED
      BY <2>1, <1>5, <1>6, <1>7
  <1> QED
    BY <1>1, <1>4, <1>6, <1>8

(* The face of x is cut at w into b, behind w, and a, ahead of it.           *)
CutSide(tri, ids, rim, x, b, a, w, h1, h2, i, side, tri2, ids2, rim2) ==
  /\ tri2[b] = <<w, StartIn(tri, Prev3(x)), StartIn(tri, x)>>
  /\ tri2[a] = <<w, StartIn(tri, Next3(x)), StartIn(tri, Prev3(x))>>
  /\ ids2[b] = <<i, Num(ids, Prev3(x)), h1>> /\ ids2[a] = <<h2, Num(ids, Next3(x)), i>>
  /\ <<b, 1>> \notin rim2 /\ (<<b, 2>> \in rim2 <=> Prev3(x) \in rim)
  /\ <<b, 3>> \in rim2 <=> side
  /\ <<a, 1>> \in rim2 <=> side
  /\ (<<a, 2>> \in rim2 <=> Next3(x) \in rim) /\ <<a, 3>> \notin rim2

SideEnds(tri, tri2, x, b, a, w) ==
  /\ StartIn(tri2, <<b, 1>>) = w /\ EndIn(tri2, <<b, 1>>) = StartIn(tri, Prev3(x))
  /\ StartIn(tri2, <<b, 2>>) = StartIn(tri, Prev3(x)) /\ EndIn(tri2, <<b, 2>>) = StartIn(tri, x)
  /\ StartIn(tri2, <<b, 3>>) = StartIn(tri, x) /\ EndIn(tri2, <<b, 3>>) = w
  /\ StartIn(tri2, <<a, 1>>) = w /\ EndIn(tri2, <<a, 1>>) = StartIn(tri, Next3(x))
  /\ StartIn(tri2, <<a, 2>>) = StartIn(tri, Next3(x)) /\ EndIn(tri2, <<a, 2>>) = StartIn(tri, Prev3(x))
  /\ StartIn(tri2, <<a, 3>>) = StartIn(tri, Prev3(x)) /\ EndIn(tri2, <<a, 3>>) = w

SideNums(ids, ids2, x, b, a, h1, h2, i) ==
  /\ Num(ids2, <<b, 1>>) = i /\ Num(ids2, <<b, 2>>) = Num(ids, Prev3(x))
  /\ Num(ids2, <<b, 3>>) = h1
  /\ Num(ids2, <<a, 1>>) = h2 /\ Num(ids2, <<a, 2>>) = Num(ids, Next3(x))
  /\ Num(ids2, <<a, 3>>) = i

LEMMA SideTables ==
  ASSUME NEW tri, NEW ids, NEW rim, NEW x, NEW b, NEW a, NEW w, NEW h1, NEW h2, NEW i,
         NEW side, NEW tri2, NEW ids2, NEW rim2,
         CutSide(tri, ids, rim, x, b, a, w, h1, h2, i, side, tri2, ids2, rim2)
  PROVE  SideEnds(tri, tri2, x, b, a, w) /\ SideNums(ids, ids2, x, b, a, h1, h2, i)
  <1>1. PICK s, p, q, np, nq :
          /\ s = StartIn(tri, x) /\ p = StartIn(tri, Prev3(x)) /\ q = StartIn(tri, Next3(x))
          /\ np = Num(ids, Prev3(x)) /\ nq = Num(ids, Next3(x))
    OBVIOUS
  <1>2. tri2[b] = <<w, p, s>> /\ tri2[a] = <<w, q, p>>
        /\ ids2[b] = <<i, np, h1>> /\ ids2[a] = <<h2, nq, i>>
    BY <1>1 DEF CutSide
  <1>3. (1 % 3) + 1 = 2 /\ (2 % 3) + 1 = 3 /\ (3 % 3) + 1 = 1
    OBVIOUS
  <1>4. SideEnds(tri, tri2, x, b, a, w)
    BY ONLY <1>1, <1>2, <1>3 DEF SideEnds, StartIn, EndIn
  <1>5. SideNums(ids, ids2, x, b, a, h1, h2, i)
    BY ONLY <1>1, <1>2 DEF SideNums, Num
  <1> QED
    BY <1>4, <1>5

Kept2(n, tri, ids, rim, tri2, ids2, rim2, faces) ==
  \A f \in (1 .. n) \ faces :
    /\ tri2[f] = tri[f] /\ ids2[f] = ids[f]
    /\ \A j \in Corner : <<f, j>> \in rim2 <=> <<f, j>> \in rim

LEMMA KeptDarts ==
  ASSUME NEW n, NEW tri, NEW ids, NEW rim, NEW tri2, NEW ids2, NEW rim2, NEW faces,
         Kept2(n, tri, ids, rim, tri2, ids2, rim2, faces),
         NEW z \in Darts(n), z[1] \notin faces
  PROVE  /\ StartIn(tri2, z) = StartIn(tri, z) /\ EndIn(tri2, z) = EndIn(tri, z)
         /\ Num(ids2, z) = Num(ids, z) /\ (z \in rim2 <=> z \in rim)
  <1>1. PICK f \in 1 .. n, j \in Corner : z = <<f, j>>
    BY DEF Darts
  <1>2. f \notin faces
    BY <1>1
  <1>3. /\ tri2[f] = tri[f] /\ ids2[f] = ids[f]
        /\ <<f, j>> \in rim2 <=> <<f, j>> \in rim
    BY <1>2 DEF Kept2
  <1> QED
    BY <1>1, <1>3 DEF StartIn, EndIn, Num

(* New ends at w, where the edge of x was.                                   *)
EndsHalved(m, m2, ends, ends2, c, s, w) ==
  /\ DOMAIN ends2 = 1 .. m2 /\ ends2[c] = {s, w}
  /\ \A e \in 1 .. m : e # c => ends2[e] = ends[e]

Keeps(tri, ids, rim, tri2, ids2, rim2, z, y) ==
  /\ StartIn(tri2, y) = StartIn(tri, z) /\ EndIn(tri2, y) = EndIn(tri, z)
  /\ Num(ids2, y) = Num(ids, z) /\ (y \in rim2 <=> z \in rim)

LEMMA SideKeeps ==
  ASSUME NEW n \in Nat, NEW x \in Darts(n),
         NEW tri, NEW ids, NEW rim, NEW b, NEW a, NEW w, NEW h1, NEW h2, NEW i,
         NEW side, NEW tri2, NEW ids2, NEW rim2,
         CutSide(tri, ids, rim, x, b, a, w, h1, h2, i, side, tri2, ids2, rim2)
  PROVE  /\ Keeps(tri, ids, rim, tri2, ids2, rim2, Prev3(x), <<b, 2>>)
         /\ Keeps(tri, ids, rim, tri2, ids2, rim2, Next3(x), <<a, 2>>)
  <1>1. PICK p, q : p = Prev3(x) /\ q = Next3(x)
    OBVIOUS
  <1>2. EndIn(tri, q) = StartIn(tri, p) /\ EndIn(tri, p) = StartIn(tri, x)
    BY <1>1, FaceDarts
  <1>3. SideEnds(tri, tri2, x, b, a, w) /\ SideNums(ids, ids2, x, b, a, h1, h2, i)
    BY SideTables, Zenon
  <1>4. (<<b, 2>> \in rim2 <=> p \in rim) /\ (<<a, 2>> \in rim2 <=> q \in rim)
    BY <1>1 DEF CutSide
  <1> QED
    BY ONLY <1>1, <1>2, <1>3, <1>4 DEF Keeps, SideEnds, SideNums

(* Only the darts of an edge have its number.                                *)
LEMMA NumberKept ==
  ASSUME NEW n, NEW v, NEW m, NEW tri, NEW opp, NEW ids, NEW ends, NEW rim,
         Sewn(n, v, m, tri, opp, ids, ends, rim),
         NEW x \in Darts(n), NEW z \in Darts(n), z # x, z # opp[x]
  PROVE  Num(ids, z) # Num(ids, x) /\ Num(ids, z) \in 1 .. m
  <1>1. Alike(ids, opp, z, x) /\ Tables(n, v, m, tri, opp, ids, ends)
    BY DEF Sewn
  <1>2. PICK f \in 1 .. n, j \in Corner : z = <<f, j>>
    BY DEF Darts
  <1>3. Num(ids, z) \in 1 .. m
    BY <1>1, <1>2 DEF Tables, Num
  <1> QED
    BY <1>1, <1>3 DEF Alike

HalvedAlone(n, v, m, tri, opp, ids, ends, rim, x, tri2, opp2, ids2, ends2, rim2) ==
  LET b == x[1]
      a == n + 1
      w == v + 1
  IN
  /\ tri2 \in [1 .. n + 1 -> [Corner -> 1 .. v + 1]]
  /\ ids2 \in [1 .. n + 1 -> [Corner -> 1 .. m + 2]]
  /\ CutSide(tri, ids, rim, x, b, a, w, Num(ids, x), m + 1, m + 2, TRUE, tri2, ids2, rim2)
  /\ Kept2(n, tri, ids, rim, tri2, ids2, rim2, {b})
  /\ opp2 = LinkHalves(LinkSide(opp, x, b, a), NoDart, b, a, 0, 0)
  /\ EndsHalved(m, m + 2, ends, ends2, Num(ids, x), StartIn(tri, x), w)
  /\ ends2[m + 1] = {w, StartIn(tri, Next3(x))} /\ ends2[m + 2] = {w, StartIn(tri, Prev3(x))}

LEMMA TypedDart ==
  ASSUME NEW n \in Nat, NEW z \in Darts(n)
  PROVE  z[1] \in 1 .. n /\ z[2] \in Corner /\ z = <<z[1], z[2]>> /\ z # NoDart
  BY DEF Darts, NoDart, None, Corner

LEMMA SewnAtBoundary ==
  ASSUME NEW n, NEW v, NEW m, NEW tri, NEW opp, NEW ids, NEW ends, NEW rim,
         Sewn(n, v, m, tri, opp, ids, ends, rim),
         NEW x \in Darts(n), opp[x] = NoDart,
         NEW tri2, NEW opp2, NEW ids2, NEW ends2, NEW rim2,
         HalvedAlone(n, v, m, tri, opp, ids, ends, rim, x, tri2, opp2, ids2, ends2, rim2)
  PROVE  Sewn(n + 1, v + 1, m + 2, tri2, opp2, ids2, ends2, rim2)
  <1>1. PICK p, q : p = Prev3(x) /\ q = Next3(x)
    OBVIOUS
  <1>2. PICK b, a, w, c : b = x[1] /\ a = n + 1 /\ w = v + 1 /\ c = Num(ids, x)
    OBVIOUS
  <1>3. /\ Tables(n, v, m, tri, opp, ids, ends) /\ n \in Nat /\ v \in Nat /\ m \in Nat
        /\ DOMAIN opp = Darts(n)
    BY DEF Sewn, Tables
  <1>4. PICK K : K = Darts(n) \ {x}
    OBVIOUS
  <1>5. /\ p \in Darts(n) /\ q \in Darts(n) /\ p # q /\ p # x /\ q # x
        /\ p[1] = b /\ q[1] = b /\ b \in 1 .. n
        /\ \A z \in Darts(n) : z[1] = b => z \in {x, p, q}
        /\ EndIn(tri, x) = StartIn(tri, q) /\ EndIn(tri, q) = StartIn(tri, p)
        /\ EndIn(tri, p) = StartIn(tri, x)
    BY <1>1, <1>2, <1>3, FaceDarts
  <1>6. ASSUME NEW z \in K, opp[z] # NoDart
        PROVE  opp[z] \in K /\ opp[opp[z]] = z /\ opp[z][1] # z[1]
    <2>1. z \in Darts(n) /\ z # NoDart
      BY <1>3, <1>4, TypedDart
    <2>2. opp[z] \in Darts(n) /\ opp[opp[z]] = z /\ opp[z][1] # z[1]
      BY <2>1, <1>6, OtherFace
    <2> QED
      BY <2>1, <2>2, <1>4
  <1>7. /\ \A z \in K : z \in Darts(n) /\ z # NoDart /\ z[1] \in 1 .. n
        /\ p \in K /\ q \in K /\ b \in Nat /\ a \in Nat /\ b # a /\ NoDart \notin K
    BY <1>2, <1>3, <1>4, <1>5, TypedDart
  <1>8. opp[p] \notin {p, q} /\ opp[q] \notin {p, q}
    BY <1>5, <1>6, <1>7
  <1>9. ASSUME NEW z \in K, z[1] \in {a, b} PROVE z \in {p, q}
    <2>1. z[1] # a
      BY <1>2, <1>3, <1>7
    <2> QED
      BY <2>1, <1>4, <1>5, <1>9
  <1>10. CutInto(opp, K, p, q, b, a)
    <2>1. Sealed(opp, K)
      BY <1>3, <1>4, <1>6, <1>7 DEF Sealed
    <2> QED
      BY <2>1, <1>5, <1>7, <1>8, <1>9 DEF CutInto
  <1>11. PICK N, M : N = LinkSide(opp, x, b, a) /\ M = Moved(K, p, q, b, a)
    OBVIOUS
  <1>12. /\ \A z \in K : N[M[z]] = IF opp[z] = NoDart THEN NoDart ELSE M[opp[z]]
         /\ N[<<b, 1>>] = <<a, 3>> /\ N[<<a, 3>>] = <<b, 1>>
         /\ DOMAIN N = Darts(n) \union {<<b, 1>>, <<b, 2>>, <<a, 2>>, <<a, 3>>}
    <2>1. SideCut(opp, K, x, p, q, b, a, N, M)
      BY <1>1, <1>10, <1>11 DEF SideCut
    <2>2. NowLinked(opp, K, b, a, N, M)
      BY ONLY <2>1, SideLinked, Zenon
    <2> QED
      BY <2>2, <1>3 DEF NowLinked
  <1>13. PICK b1, b2, b3, a1, a2, a3 :
           /\ b1 = <<b, 1>> /\ b2 = <<b, 2>> /\ b3 = <<b, 3>>
           /\ a1 = <<a, 1>> /\ a2 = <<a, 2>> /\ a3 = <<a, 3>>
    OBVIOUS
  <1>14. /\ opp2 = Link(Link(N, b3, NoDart), a1, NoDart)
         /\ CutSide(tri, ids, rim, x, b, a, w, c, m + 1, m + 2, TRUE, tri2, ids2, rim2)
         /\ Kept2(n, tri, ids, rim, tri2, ids2, rim2, {b})
         /\ EndsHalved(m, m + 2, ends, ends2, c, StartIn(tri, x), w)
         /\ ends2[m + 1] = {w, StartIn(tri, q)} /\ ends2[m + 2] = {w, StartIn(tri, p)}
    BY <1>1, <1>2, <1>11, <1>13 DEF HalvedAlone, LinkHalves
  <1>15. /\ DOMAIN opp2 = DOMAIN N \union {b3, a1} /\ opp2[b3] = NoDart /\ opp2[a1] = NoDart
         /\ \A u \in DOMAIN N : u # b3 /\ u # a1 /\ u # NoDart => opp2[u] = N[u]
    <2>1. b3 # NoDart /\ a1 # NoDart /\ b3 # a1
      BY <1>7, <1>13 DEF NoDart, None
    <2> QED
      BY <2>1, <1>14 DEF Link
  <1>16. /\ M[p] = b2 /\ M[q] = a2 /\ \A z \in K : z \notin {p, q} => M[z] = z /\ z[1] \notin {a, b}
         /\ DOMAIN M = K /\ M \in [K -> Darts(n) \union {b2, a2}]
    <2>1. M = [z \in K |-> IF z = p THEN b2 ELSE IF z = q THEN a2 ELSE z]
      BY <1>1, <1>11, <1>13 DEF Moved
    <2>2. /\ M[p] = b2 /\ M[q] = a2 /\ \A z \in K : z \notin {p, q} => M[z] = z
          /\ DOMAIN M = K
      BY <2>1, <1>5, <1>7
    <2>3. \A z \in K : M[z] \in Darts(n) \union {b2, a2}
      BY <2>2, <1>7
    <2>4. M \in [K -> Darts(n) \union {b2, a2}]
      BY <2>1, <2>3
    <2> QED
      BY <2>2, <2>4, <1>9
  <1>17. Darts(n + 1) = Darts(n) \union {a1, a2, a3} /\ b1 \in Darts(n) /\ b2 \in Darts(n) /\ b3 \in Darts(n)
    <2>1. 1 .. (n + 1) = (1 .. n) \union {a}
      BY <1>2, <1>3
    <2>2. Corner = {1, 2, 3}
      BY DEF Corner
    <2> QED
      BY <2>1, <2>2, <1>5, <1>13 DEF Darts
  <1>18. /\ b3 \notin {b1, b2, a1, a2, a3} /\ a1 \notin {b1, b2, b3, a2, a3}
         /\ b1 \notin {a3} /\ NoDart \notin {b1, b2, b3, a1, a2, a3}
    BY <1>7, <1>13 DEF NoDart, None
  <1>19. Tables(n + 1, v + 1, m + 2, tri2, opp2, ids2, ends2)
    <2>1. DOMAIN opp2 = Darts(n + 1)
      BY <1>12, <1>13, <1>15, <1>17
    <2>2. /\ tri2 \in [1 .. n + 1 -> [Corner -> 1 .. v + 1]] /\ DOMAIN ends2 = 1 .. (m + 2)
          /\ ids2 \in [1 .. n + 1 -> [Corner -> 1 .. m + 2]]
      BY DEF HalvedAlone, EndsHalved
    <2>3. ASSUME NEW f \in 1 .. (n + 1), NEW i \in Corner, NEW j \in Corner, tri2[f][i] = tri2[f][j]
          PROVE  i = j
      <3>1. StartIn(tri, x) \in 1 .. v /\ StartIn(tri, p) \in 1 .. v /\ StartIn(tri, q) \in 1 .. v
        BY <1>3, <1>5 DEF Tables, StartIn, Darts
      <3>2. StartIn(tri, x) # StartIn(tri, p) /\ StartIn(tri, x) # StartIn(tri, q) /\ StartIn(tri, p) # StartIn(tri, q)
        BY ONLY <1>2, <1>3, <1>5, HeadsDiffer
      <3>3. w \notin 1 .. v
        BY <1>2, <1>3
      <3>4. CASE f = b
        <4>1. tri2[f] = <<w, StartIn(tri, p), StartIn(tri, x)>>
          BY <1>1, <1>14, <3>4 DEF CutSide
        <4> QED
          BY <4>1, <3>1, <3>2, <3>3, <2>3 DEF Corner
      <3>5. CASE f = a
        <4>1. tri2[f] = <<w, StartIn(tri, q), StartIn(tri, p)>>
          BY <1>1, <1>14, <3>5 DEF CutSide
        <4> QED
          BY <4>1, <3>1, <3>2, <3>3, <2>3 DEF Corner
      <3>6. CASE f \notin {b, a}
        <4>1. f \in 1 .. n /\ tri2[f] = tri[f]
          BY <3>6, <1>2, <1>3, <1>14 DEF Kept2
        <4> QED
          BY <4>1, <2>3, <1>3 DEF Tables
      <3> QED
        BY <3>4, <3>5, <3>6
    <2> QED
      BY <2>1, <2>2, <2>3, <1>3 DEF Tables
  <1>20. SideEnds(tri, tri2, x, b, a, w) /\ SideNums(ids, ids2, x, b, a, c, m + 1, m + 2)
    BY <1>14, SideTables
  <1>21. ASSUME NEW z \in K
         PROVE  Keeps(tri, ids, rim, tri2, ids2, rim2, z, M[z])
    <2>1. Keeps(tri, ids, rim, tri2, ids2, rim2, p, b2) /\ Keeps(tri, ids, rim, tri2, ids2, rim2, q, a2)
      BY <1>1, <1>3, <1>13, <1>14, SideKeeps
    <2>2. CASE z \notin {p, q}
      <3>1. z \in Darts(n) /\ z[1] \notin {b} /\ M[z] = z
        BY <2>2, <1>7, <1>16
      <3>2. /\ StartIn(tri2, z) = StartIn(tri, z) /\ EndIn(tri2, z) = EndIn(tri, z)
            /\ Num(ids2, z) = Num(ids, z) /\ (z \in rim2 <=> z \in rim)
        BY ONLY <1>14, <3>1, KeptDarts
      <3> QED
        BY <3>1, <3>2 DEF Keeps
    <2> QED
      BY <2>1, <2>2, <1>16
  <1>22. ASSUME NEW z \in K
         PROVE  Num(ids, z) # c /\ Num(ids, z) \in 1 .. m /\ ends2[Num(ids, z)] = ends[Num(ids, z)]
    <2>1. Num(ids, z) # c /\ Num(ids, z) \in 1 .. m
      BY <1>2, <1>4, <1>7, NumberKept
    <2> QED
      BY <2>1, <1>14 DEF EndsHalved
  <1>23. ASSUME NEW z \in K
         PROVE  Goes1(K, M, tri, opp, ids, ends, rim, tri2, opp2, ids2, ends2, rim2, z)
    <2>1. M[z] \in DOMAIN N /\ M[z] # b3 /\ M[z] # a1 /\ M[z] # NoDart
      BY <1>7, <1>12, <1>13, <1>16, <1>18
    <2>2. opp2[M[z]] = IF opp[z] = NoDart THEN NoDart ELSE M[opp[z]]
      BY <2>1, <1>12, <1>15
    <2>3. Keeps(tri, ids, rim, tri2, ids2, rim2, z, M[z]) /\ ends2[Num(ids, z)] = ends[Num(ids, z)]
      BY <1>21, <1>22
    <2>4. opp[z] # NoDart => opp[z] \in K
      BY <1>6
    <2> QED
      BY <2>2, <2>3, <2>4 DEF Goes1, Keeps
  <1>24. PICK seam, news : seam = {b1, b3, a1, a3} /\ news = {c, m + 1, m + 2}
    OBVIOUS
  <1>25. /\ Num(ids2, b1) = m + 2 /\ Num(ids2, b3) = c /\ Num(ids2, a1) = m + 1 /\ Num(ids2, a3) = m + 2
         /\ c \in 1 .. m /\ c # m + 1 /\ c # m + 2 /\ m + 1 # m + 2
    <2>1. c \in 1 .. m
      BY <1>2, <1>3 DEF Num, Tables, Darts
    <2> QED
      BY <2>1, <1>3, <1>13, <1>20 DEF SideNums
  <1>26. opp2[b1] = a3 /\ opp2[a3] = b1
    BY <1>12, <1>13, <1>15, <1>18
  <1>27. /\ StartIn(tri2, b1) = w /\ EndIn(tri2, b1) = StartIn(tri, p)
         /\ StartIn(tri2, b3) = StartIn(tri, x) /\ EndIn(tri2, b3) = w
         /\ StartIn(tri2, a1) = w /\ EndIn(tri2, a1) = StartIn(tri, q)
         /\ StartIn(tri2, a3) = StartIn(tri, p) /\ EndIn(tri2, a3) = w
    BY <1>1, <1>13, <1>20 DEF SideEnds
  <1>28. b1 \notin rim2 /\ b3 \in rim2 /\ a1 \in rim2 /\ a3 \notin rim2
    BY <1>13, <1>14 DEF CutSide
  <1>29. ASSUME NEW s \in seam
         PROVE  SeamDart(n + 1, tri2, opp2, ids2, ends2, rim2, news, seam, s)
    <2>1. Num(ids2, s) \in news
      BY <1>24, <1>25
    <2>2. ASSUME NEW t \in seam PROVE Alike(ids2, opp2, s, t)
      BY <1>24, <1>25, <1>26 DEF Alike
    <2>3. Joined(n + 1, tri2, opp2, ids2, ends2, rim2, s)
      <3>1. ends2[Num(ids2, s)] = {StartIn(tri2, s), EndIn(tri2, s)}
        BY <1>14, <1>24, <1>25, <1>27 DEF EndsHalved
      <3>2. opp2[s] = NoDart <=> s \in rim2
        BY <1>15, <1>18, <1>24, <1>26, <1>28
      <3>3. ASSUME opp2[s] # NoDart
            PROVE  opp2[s] \in Darts(n + 1) /\ Crossed(tri2, opp2, ids2, s, opp2[s])
        BY <3>3, <1>15, <1>17, <1>24, <1>25, <1>26, <1>27 DEF Crossed
      <3> QED
        BY <3>1, <3>2, <3>3 DEF Joined
    <2> QED
      BY <2>1, <2>2, <2>3 DEF SeamDart
  <1>30. ASSUME NEW u \in Darts(n + 1)
         PROVE  u \in seam \/ \E z \in K : u = M[z]
    <2>1. CASE u[1] \in {b, a}
      <3>1. u[2] \in {1, 2, 3} /\ u = <<u[1], u[2]>>
        BY DEF Darts, Corner
      <3>2. u \in {b1, b2, b3, a1, a2, a3}
        BY <2>1, <3>1, <1>13
      <3> QED
        BY <3>2, <1>7, <1>16, <1>24
    <2>2. CASE u[1] \notin {b, a}
      <3>1. u \in Darts(n)
        BY <2>2, <1>13, <1>17
      <3>2. u \in K /\ u \notin {p, q}
        BY <3>1, <2>2, <1>2, <1>4, <1>5
      <3> QED
        BY <3>2, <1>16
    <2> QED
      BY <2>1, <2>2
  <1>31. ASSUME NEW e \in (1 .. (m + 2)) \ news
         PROVE  \E z \in K : Num(ids, z) = e
    <2>1. e \in 1 .. m /\ e # c
      BY <1>3, <1>24
    <2>2. PICK z \in Darts(n) : Num(ids, z) = e
      BY <2>1 DEF Sewn
    <2>3. z # x
      BY <2>1, <2>2, <1>2
    <2> QED
      BY <2>2, <2>3, <1>4
  <1>32. \A e \in news : \E s \in seam : Num(ids2, s) = e
    BY <1>24, <1>25
  <1>33. \A z \in K : Num(ids, z) \notin news
    BY <1>3, <1>22, <1>24
  <1>34. /\ K \subseteq Darts(n) /\ M \in [K -> Darts(n + 1)] /\ NoDart \notin Darts(n + 1)
         /\ seam \subseteq Darts(n + 1)
    <2>1. NoDart \notin Darts(n)
      BY <1>3, TypedDart
    <2> QED
      BY <2>1, <1>4, <1>16, <1>17, <1>18, <1>24
  <1>35. PICK n2, v2, m2 : n2 = n + 1 /\ v2 = v + 1 /\ m2 = m + 2
    OBVIOUS
  <1>36. Sewn(n2, v2, m2, tri2, opp2, ids2, ends2, rim2)
    <2>1. Resews(n, v, m, tri, opp, ids, ends, rim,
                 n2, v2, m2, tri2, opp2, ids2, ends2, rim2, K, M, seam, news)
      BY ONLY Sewn(n, v, m, tri, opp, ids, ends, rim), <1>19, <1>23, <1>29, <1>30, <1>31,
              <1>32, <1>33, <1>34, <1>35 DEF Resews
    <2> QED
      BY ONLY <2>1, Resewn, Zenon
  <1> QED
    BY <1>35, <1>36

HalvedShared(n, v, m, tri, opp, ids, ends, rim, x, tri2, opp2, ids2, ends2, rim2) ==
  LET y == opp[x]
      b == x[1]
      a == n + 2
      c == n + 1
      d == y[1]
      w == v + 1
      e == Num(ids, x)
  IN
  /\ tri2 \in [1 .. n + 2 -> [Corner -> 1 .. v + 1]]
  /\ ids2 \in [1 .. n + 2 -> [Corner -> 1 .. m + 3]]
  /\ CutSide(tri, ids, rim, x, b, a, w, e, m + 1, m + 2, FALSE, tri2, ids2, rim2)
  /\ CutSide(tri, ids, rim, y, c, d, w, m + 1, e, m + 3, FALSE, tri2, ids2, rim2)
  /\ Kept2(n, tri, ids, rim, tri2, ids2, rim2, {b, d})
  /\ opp2 = LinkHalves(LinkSide(LinkSide(opp, x, b, a), y, c, d), y, b, a, c, d)
  /\ EndsHalved(m, m + 3, ends, ends2, e, StartIn(tri, x), w)
  /\ ends2[m + 1] = {w, StartIn(tri, Next3(x))}
  /\ ends2[m + 2] = {w, StartIn(tri, Prev3(x))} /\ ends2[m + 3] = {w, StartIn(tri, Prev3(y))}

LEMMA SewnBetween ==
  ASSUME NEW n, NEW v, NEW m, NEW tri, NEW opp, NEW ids, NEW ends, NEW rim,
         Sewn(n, v, m, tri, opp, ids, ends, rim),
         NEW x \in Darts(n), opp[x] # NoDart,
         NEW tri2, NEW opp2, NEW ids2, NEW ends2, NEW rim2,
         HalvedShared(n, v, m, tri, opp, ids, ends, rim, x, tri2, opp2, ids2, ends2, rim2)
  PROVE  Sewn(n + 2, v + 1, m + 3, tri2, opp2, ids2, ends2, rim2)
  <1>1. PICK y, p, q, r, s : y = opp[x] /\ p = Prev3(x) /\ q = Next3(x) /\ r = Prev3(y) /\ s = Next3(y)
    OBVIOUS
  <1>2. PICK b, a, c, d, w, e :
          /\ b = x[1] /\ a = n + 2 /\ c = n + 1 /\ d = y[1] /\ w = v + 1 /\ e = Num(ids, x)
    OBVIOUS
  <1>3. /\ Tables(n, v, m, tri, opp, ids, ends) /\ n \in Nat /\ v \in Nat /\ m \in Nat
        /\ DOMAIN opp = Darts(n)
    BY DEF Sewn, Tables
  <1>4. /\ y \in Darts(n) /\ d # b /\ opp[y] = x /\ Num(ids, y) = e /\ x # y
        /\ StartIn(tri, y) = EndIn(tri, x) /\ StartIn(tri, x) = EndIn(tri, y)
    BY <1>1, <1>2, OtherFace
  <1>5. /\ p \in Darts(n) /\ q \in Darts(n) /\ p # q /\ p # x /\ q # x
        /\ p[1] = b /\ q[1] = b /\ b \in 1 .. n
        /\ \A z \in Darts(n) : z[1] = b => z \in {x, p, q}
        /\ EndIn(tri, x) = StartIn(tri, q) /\ EndIn(tri, q) = StartIn(tri, p)
        /\ EndIn(tri, p) = StartIn(tri, x)
    BY <1>1, <1>2, <1>3, FaceDarts
  <1>6. /\ r \in Darts(n) /\ s \in Darts(n) /\ r # s /\ r # y /\ s # y
        /\ r[1] = d /\ s[1] = d /\ d \in 1 .. n
        /\ \A z \in Darts(n) : z[1] = d => z \in {y, r, s}
        /\ EndIn(tri, y) = StartIn(tri, s) /\ EndIn(tri, s) = StartIn(tri, r)
        /\ EndIn(tri, r) = StartIn(tri, y)
    BY <1>1, <1>2, <1>3, <1>4, FaceDarts
  <1>7. PICK K : K = Darts(n) \ {x, y}
    OBVIOUS
  <1>8. x # NoDart /\ y # NoDart
    BY <1>3, <1>4, TypedDart
  <1>9. ASSUME NEW z \in K, opp[z] # NoDart
        PROVE  opp[z] \in K /\ opp[opp[z]] = z /\ opp[z][1] # z[1]
    <2>1. z \in Darts(n) /\ z # x /\ z # y
      BY <1>7
    <2>2. opp[z] \in Darts(n) /\ opp[opp[z]] = z /\ opp[z][1] # z[1]
      BY <2>1, <1>9, OtherFace
    <2> QED
      BY <2>1, <2>2, <1>1, <1>4, <1>7
  <1>10. \A z \in K : z \in Darts(n) /\ z # NoDart /\ z[1] \in 1 .. n
    BY <1>3, <1>7, TypedDart
  <1>11. /\ p \in K /\ q \in K /\ r \in K /\ s \in K /\ NoDart \notin K
         /\ a \in Nat /\ b \in Nat /\ c \in Nat /\ d \in Nat
         /\ a # b /\ a # c /\ a # d /\ b # c /\ b # d /\ c # d /\ a \notin 1 .. n /\ c \notin 1 .. n
         /\ {p, q} \intersect {r, s} = {}
    BY <1>2, <1>3, <1>4, <1>5, <1>6, <1>7, <1>10
  <1>12. ASSUME NEW z \in K, z[1] \in {a, b} PROVE z \in {p, q}
    BY <1>12, <1>5, <1>7, <1>10, <1>11
  <1>13. ASSUME NEW z \in K, z[1] \in {c, d} PROVE z \in {r, s}
    BY <1>13, <1>6, <1>7, <1>10, <1>11
  <1>14. CutInto(opp, K, p, q, b, a)
    <2>1. Sealed(opp, K)
      BY <1>3, <1>7, <1>9, <1>11 DEF Sealed
    <2>2. opp[p] \notin {p, q} /\ opp[q] \notin {p, q}
      BY <1>5, <1>9, <1>11
    <2> QED
      BY <2>1, <2>2, <1>5, <1>11, <1>12 DEF CutInto
  <1>15. PICK N1, M1 : N1 = LinkSide(opp, x, b, a) /\ M1 = Moved(K, p, q, b, a)
    OBVIOUS
  <1>16. /\ \A z \in K : N1[M1[z]] = IF opp[z] = NoDart THEN NoDart ELSE M1[opp[z]]
         /\ N1[<<b, 1>>] = <<a, 3>> /\ N1[<<a, 3>>] = <<b, 1>>
         /\ DOMAIN N1 = Darts(n) \union {<<b, 1>>, <<b, 2>>, <<a, 2>>, <<a, 3>>}
    <2>1. SideCut(opp, K, x, p, q, b, a, N1, M1)
      BY <1>1, <1>14, <1>15 DEF SideCut
    <2>2. NowLinked(opp, K, b, a, N1, M1)
      BY ONLY <2>1, SideLinked, Zenon
    <2> QED
      BY <2>2, <1>3 DEF NowLinked
  <1>17. PICK b1, b2, b3, a1, a2, a3, c1, c2, c3, d1, d2, d3 :
           /\ b1 = <<b, 1>> /\ b2 = <<b, 2>> /\ b3 = <<b, 3>>
           /\ a1 = <<a, 1>> /\ a2 = <<a, 2>> /\ a3 = <<a, 3>>
           /\ c1 = <<c, 1>> /\ c2 = <<c, 2>> /\ c3 = <<c, 3>>
           /\ d1 = <<d, 1>> /\ d2 = <<d, 2>> /\ d3 = <<d, 3>>
    OBVIOUS
  <1>18. /\ b1[1] = b /\ b2[1] = b /\ b3[1] = b /\ a1[1] = a /\ a2[1] = a /\ a3[1] = a
         /\ c1[1] = c /\ c2[1] = c /\ c3[1] = c /\ d1[1] = d /\ d2[1] = d /\ d3[1] = d
         /\ b1 # b2 /\ b1 # b3 /\ b2 # b3 /\ a1 # a2 /\ a1 # a3 /\ a2 # a3
         /\ c1 # c2 /\ c1 # c3 /\ c2 # c3 /\ d1 # d2 /\ d1 # d3 /\ d2 # d3
    BY <1>17
  <1>19. NoDart \notin {b1, b2, b3, a1, a2, a3, c1, c2, c3, d1, d2, d3}
    BY <1>11, <1>17 DEF NoDart, None
  <1>20. /\ M1[p] = b2 /\ M1[q] = a2 /\ \A z \in K : z \notin {p, q} => M1[z] = z /\ z[1] \notin {a, b}
         /\ \A z \in K : M1[z] \in Darts(n) \union {b2, a2} /\ M1[z] # NoDart
    <2>1. M1 = [z \in K |-> IF z = p THEN b2 ELSE IF z = q THEN a2 ELSE z]
      BY <1>15, <1>17 DEF Moved
    <2>2. /\ M1[p] = b2 /\ M1[q] = a2 /\ \A z \in K : z \notin {p, q} => M1[z] = z
      BY <2>1, <1>5, <1>11
    <2>3. \A z \in K : M1[z] \in Darts(n) \union {b2, a2} /\ M1[z] # NoDart
      BY <2>2, <1>10, <1>19
    <2> QED
      BY <2>2, <2>3, <1>12
  <1>21. PICK K2 : K2 = {M1[z] : z \in K}
    OBVIOUS
  <1>22. ASSUME NEW z \in K2
         PROVE  /\ z \in DOMAIN N1 /\ z # NoDart /\ (z = b2 \/ z = a2 \/ (z \in K /\ z[1] \notin {a, b}))
                /\ N1[z] # NoDart => N1[z] \in K2 /\ N1[N1[z]] = z
    <2>1. PICK u \in K : z = M1[u]
      BY <1>21
    <2>2. z \in DOMAIN N1 /\ z # NoDart
      BY <2>1, <1>16, <1>17, <1>20
    <2>3. z = b2 \/ z = a2 \/ (z \in K /\ z[1] \notin {a, b})
      BY <2>1, <1>20
    <2>4. ASSUME N1[z] # NoDart PROVE N1[z] \in K2 /\ N1[N1[z]] = z
      <3>1. opp[u] # NoDart /\ N1[z] = M1[opp[u]]
        BY <2>1, <2>4, <1>16
      <3>2. opp[u] \in K /\ opp[opp[u]] = u /\ u # NoDart
        BY <3>1, <1>9, <1>10
      <3> QED
        BY <3>1, <3>2, <2>1, <1>16, <1>21
    <2> QED
      BY <2>2, <2>3, <2>4
  <1>23. r \in K2 /\ s \in K2 /\ M1[r] = r /\ M1[s] = s
    BY <1>11, <1>20, <1>21
  <1>24. CutInto(N1, K2, r, s, c, d)
    <2>1. Sealed(N1, K2)
      BY <1>22 DEF Sealed
    <2>2. ASSUME NEW z \in {r, s} PROVE N1[z] \notin {r, s}
      <3>1. z \in K /\ N1[z] = IF opp[z] = NoDart THEN NoDart ELSE M1[opp[z]]
        BY <1>11, <1>16, <1>23
      <3>2. CASE opp[z] = NoDart
        BY <3>1, <3>2, <1>10, <1>11
      <3>3. CASE opp[z] # NoDart
        <4>1. opp[z] \in K /\ opp[z][1] # d
          BY <3>1, <3>3, <1>9, <1>6
        <4>2. M1[opp[z]] \in {b2, a2} \/ M1[opp[z]] = opp[z]
          BY <4>1, <1>20
        <4> QED
          BY <3>1, <3>3, <4>1, <4>2, <1>6, <1>11, <1>18
      <3> QED
        BY <3>2, <3>3
    <2>3. ASSUME NEW z \in K2, z[1] \in {d, c} PROVE z \in {r, s}
      BY <2>3, <1>11, <1>13, <1>18, <1>22
    <2> QED
      BY <2>1, <2>2, <2>3, <1>6, <1>11, <1>23 DEF CutInto
  <1>25. PICK N2, M2 : N2 = LinkSide(N1, y, c, d) /\ M2 = Moved(K2, r, s, c, d)
    OBVIOUS
  <1>26. /\ \A z \in K2 : N2[M2[z]] = IF N1[z] = NoDart THEN NoDart ELSE M2[N1[z]]
         /\ N2[c1] = d3 /\ N2[d3] = c1
         /\ DOMAIN N2 = DOMAIN N1 \union {c1, c2, d2, d3}
         /\ \A u \in DOMAIN N1 \ K2 : u # NoDart /\ u[1] \notin {d, c} => N2[u] = N1[u]
    <2>1. SideCut(N1, K2, y, r, s, c, d, N2, M2)
      BY <1>1, <1>24, <1>25 DEF SideCut
    <2>2. NowLinked(N1, K2, c, d, N2, M2)
      BY ONLY <2>1, SideLinked, Zenon
    <2> QED
      BY <2>2, <1>17 DEF NowLinked
  <1>27. /\ M2[r] = c2 /\ M2[s] = d2 /\ \A z \in K2 : z \notin {r, s} => M2[z] = z
    <2>1. M2 = [z \in K2 |-> IF z = r THEN c2 ELSE IF z = s THEN d2 ELSE z]
      BY <1>17, <1>25 DEF Moved
    <2> QED
      BY <2>1, <1>6, <1>23
  <1>28. PICK M : M = [z \in K |-> M2[M1[z]]]
    OBVIOUS
  <1>29. /\ M[p] = b2 /\ M[q] = a2 /\ M[r] = c2 /\ M[s] = d2
         /\ \A z \in K : z \notin {p, q, r, s} => M[z] = z /\ z[1] \notin {a, b, c, d}
         /\ DOMAIN M = K
    <2>1. b2 \notin {r, s} /\ a2 \notin {r, s}
      BY <1>6, <1>11, <1>18
    <2>2. b2 \in K2 /\ a2 \in K2 /\ \A z \in K : M1[z] \in K2
      BY <1>11, <1>20, <1>21
    <2>3. M[p] = b2 /\ M[q] = a2
      BY <2>1, <2>2, <1>11, <1>20, <1>27, <1>28
    <2>4. M[r] = c2 /\ M[s] = d2
      BY <1>11, <1>23, <1>27, <1>28
    <2>5. ASSUME NEW z \in K, z \notin {p, q, r, s} PROVE M[z] = z /\ z[1] \notin {a, b, c, d}
      <3>1. M1[z] = z /\ z \in K2
        BY <2>2, <2>5, <1>20
      <3>2. M[z] = z
        BY <3>1, <2>5, <1>27, <1>28
      <3> QED
        BY <3>2, <2>5, <1>12, <1>13
    <2> QED
      BY <2>3, <2>4, <2>5, <1>28
  <1>30. ASSUME NEW z \in K
         PROVE  N2[M[z]] = IF opp[z] = NoDart THEN NoDart ELSE M[opp[z]]
    <2>1. M1[z] \in K2 /\ M[z] = M2[M1[z]]
      BY <1>21, <1>28
    <2>2. N2[M[z]] = IF N1[M1[z]] = NoDart THEN NoDart ELSE M2[N1[M1[z]]]
      BY <2>1, <1>26
    <2>3. CASE opp[z] = NoDart
      BY <2>2, <2>3, <1>16
    <2>4. CASE opp[z] # NoDart
      <3>1. opp[z] \in K /\ N1[M1[z]] = M1[opp[z]]
        BY <2>4, <1>9, <1>16
      <3>2. M1[opp[z]] # NoDart /\ M[opp[z]] = M2[M1[opp[z]]]
        BY <3>1, <1>20, <1>28
      <3> QED
        BY <2>2, <2>4, <3>1, <3>2
    <2> QED
      BY <2>3, <2>4
  <1>31. N2[b1] = a3 /\ N2[a3] = b1 /\ N2[c1] = d3 /\ N2[d3] = c1
    <2>1. b1 \in DOMAIN N1 /\ a3 \in DOMAIN N1 /\ N1[b1] = a3 /\ N1[a3] = b1
      BY <1>16, <1>17
    <2>2. b1 \notin K2 /\ a3 \notin K2
      BY <1>11, <1>18, <1>22
    <2> QED
      BY <2>1, <2>2, <1>11, <1>18, <1>19, <1>26
  <1>32. /\ opp2 = Link(Link(N2, b3, d1), c3, a1)
         /\ CutSide(tri, ids, rim, x, b, a, w, e, m + 1, m + 2, FALSE, tri2, ids2, rim2)
         /\ CutSide(tri, ids, rim, y, c, d, w, m + 1, e, m + 3, FALSE, tri2, ids2, rim2)
         /\ Kept2(n, tri, ids, rim, tri2, ids2, rim2, {b, d})
         /\ EndsHalved(m, m + 3, ends, ends2, e, StartIn(tri, x), w)
         /\ ends2[m + 1] = {w, StartIn(tri, q)} /\ ends2[m + 2] = {w, StartIn(tri, p)}
         /\ ends2[m + 3] = {w, StartIn(tri, r)}
    <2>1. LinkHalves(N2, y, b, a, c, d) = Link(Link(N2, b3, d1), c3, a1)
      BY <1>8, <1>17 DEF LinkHalves
    <2> QED
      BY <2>1, <1>1, <1>2, <1>15, <1>25 DEF HalvedShared
  <1>33. /\ DOMAIN opp2 = DOMAIN N2 \union {b3, d1, c3, a1}
         /\ opp2[b3] = d1 /\ opp2[d1] = b3 /\ opp2[c3] = a1 /\ opp2[a1] = c3
         /\ \A u \in DOMAIN N2 : u \notin {b3, d1, c3, a1} => opp2[u] = N2[u]
    <2>1. b3 # d1 /\ b3 # c3 /\ b3 # a1 /\ d1 # c3 /\ d1 # a1 /\ c3 # a1
      BY <1>11, <1>18
    <2>2. PICK N3 : N3 = Link(N2, b3, d1)
      OBVIOUS
    <2>3. /\ DOMAIN N3 = DOMAIN N2 \union {b3, d1} /\ N3[b3] = d1 /\ N3[d1] = b3
          /\ \A u \in DOMAIN N2 : u \notin {b3, d1} => N3[u] = N2[u]
      BY ONLY <2>1, <2>2, <1>19 DEF Link
    <2>4. /\ DOMAIN opp2 = DOMAIN N3 \union {c3, a1} /\ opp2[c3] = a1 /\ opp2[a1] = c3
          /\ \A u \in DOMAIN N3 : u \notin {c3, a1} => opp2[u] = N3[u]
      BY ONLY <2>1, <2>2, <1>19, <1>32 DEF Link
    <2> QED
      BY <2>1, <2>3, <2>4
  <1>34. /\ Darts(n + 2) = Darts(n) \union {a1, a2, a3, c1, c2, c3}
         /\ {b1, b2, b3, d1, d2, d3} \subseteq Darts(n)
    <2>1. 1 .. (n + 2) = (1 .. n) \union {a, c}
      BY <1>2, <1>3
    <2>2. Corner = {1, 2, 3}
      BY DEF Corner
    <2> QED
      BY <2>1, <2>2, <1>5, <1>6, <1>17 DEF Darts
  <1>35. PICK k1, k2, k3 : k1 = m + 1 /\ k2 = m + 2 /\ k3 = m + 3
    OBVIOUS
  <1>36. /\ SideEnds(tri, tri2, x, b, a, w) /\ SideNums(ids, ids2, x, b, a, e, k1, k2)
         /\ SideEnds(tri, tri2, y, c, d, w) /\ SideNums(ids, ids2, y, c, d, k1, e, k3)
    BY <1>32, <1>35, SideTables
  <1>37. Tables(n + 2, v + 1, m + 3, tri2, opp2, ids2, ends2)
    <2>1. DOMAIN opp2 = Darts(n + 2)
      <3>1. DOMAIN N1 = Darts(n) \union {b1, b2, a2, a3}
        BY ONLY <1>16, <1>17
      <3>2. DOMAIN N2 = DOMAIN N1 \union {c1, c2, d2, d3}
        BY <1>26
      <3>3. DOMAIN opp2 = DOMAIN N2 \union {b3, d1, c3, a1}
        BY <1>33
      <3> QED
        BY ONLY <3>1, <3>2, <3>3, <1>34
    <2>2. /\ tri2 \in [1 .. n + 2 -> [Corner -> 1 .. v + 1]] /\ DOMAIN ends2 = 1 .. (m + 3)
          /\ ids2 \in [1 .. n + 2 -> [Corner -> 1 .. m + 3]]
      BY DEF HalvedShared, EndsHalved
    <2>3. ASSUME NEW f \in 1 .. (n + 2), NEW i \in Corner, NEW j \in Corner, tri2[f][i] = tri2[f][j]
          PROVE  i = j
      <3>1. /\ StartIn(tri, x) \in 1 .. v /\ StartIn(tri, p) \in 1 .. v /\ StartIn(tri, q) \in 1 .. v
            /\ StartIn(tri, y) \in 1 .. v /\ StartIn(tri, r) \in 1 .. v /\ StartIn(tri, s) \in 1 .. v
        BY <1>3, <1>4, <1>5, <1>6 DEF Tables, StartIn, Darts
      <3>2. StartIn(tri, x) # StartIn(tri, p) /\ StartIn(tri, x) # StartIn(tri, q) /\ StartIn(tri, p) # StartIn(tri, q)
        BY ONLY <1>2, <1>3, <1>5, HeadsDiffer
      <3>3. StartIn(tri, y) # StartIn(tri, r) /\ StartIn(tri, y) # StartIn(tri, s) /\ StartIn(tri, r) # StartIn(tri, s)
        BY ONLY <1>2, <1>3, <1>4, <1>6, HeadsDiffer
      <3>4. w \notin 1 .. v
        BY <1>2, <1>3
      <3>5. CASE f = b
        <4>1. tri2[f] = <<w, StartIn(tri, p), StartIn(tri, x)>>
          BY <1>1, <1>32, <3>5 DEF CutSide
        <4> QED
          BY <4>1, <3>1, <3>2, <3>4, <2>3 DEF Corner
      <3>6. CASE f = a
        <4>1. tri2[f] = <<w, StartIn(tri, q), StartIn(tri, p)>>
          BY <1>1, <1>32, <3>6 DEF CutSide
        <4> QED
          BY <4>1, <3>1, <3>2, <3>4, <2>3 DEF Corner
      <3>7. CASE f = c
        <4>1. tri2[f] = <<w, StartIn(tri, r), StartIn(tri, y)>>
          BY <1>1, <1>32, <3>7 DEF CutSide
        <4> QED
          BY <4>1, <3>1, <3>3, <3>4, <2>3 DEF Corner
      <3>8. CASE f = d
        <4>1. tri2[f] = <<w, StartIn(tri, s), StartIn(tri, r)>>
          BY <1>1, <1>32, <3>8 DEF CutSide
        <4> QED
          BY <4>1, <3>1, <3>3, <3>4, <2>3 DEF Corner
      <3>9. CASE f \notin {b, a, c, d}
        <4>1. f \in 1 .. n /\ tri2[f] = tri[f]
          BY <3>9, <1>2, <1>3, <1>32 DEF Kept2
        <4> QED
          BY <4>1, <2>3, <1>3 DEF Tables
      <3> QED
        BY <3>5, <3>6, <3>7, <3>8, <3>9
    <2> QED
      BY <2>1, <2>2, <2>3, <1>3 DEF Tables
  <1>38. ASSUME NEW z \in K
         PROVE  Keeps(tri, ids, rim, tri2, ids2, rim2, z, M[z])
    <2>1. Keeps(tri, ids, rim, tri2, ids2, rim2, p, b2) /\ Keeps(tri, ids, rim, tri2, ids2, rim2, q, a2)
      BY <1>1, <1>3, <1>17, <1>32, SideKeeps
    <2>2. Keeps(tri, ids, rim, tri2, ids2, rim2, r, c2) /\ Keeps(tri, ids, rim, tri2, ids2, rim2, s, d2)
      BY <1>1, <1>3, <1>4, <1>17, <1>32, SideKeeps
    <2>3. CASE z \notin {p, q, r, s}
      <3>1. z \in Darts(n) /\ z[1] \notin {b, d} /\ M[z] = z
        BY <2>3, <1>10, <1>29
      <3>2. /\ StartIn(tri2, z) = StartIn(tri, z) /\ EndIn(tri2, z) = EndIn(tri, z)
            /\ Num(ids2, z) = Num(ids, z) /\ (z \in rim2 <=> z \in rim)
        BY ONLY <1>32, <3>1, KeptDarts
      <3> QED
        BY <3>1, <3>2 DEF Keeps
    <2> QED
      BY <2>1, <2>2, <2>3, <1>29
  <1>39. ASSUME NEW z \in K
         PROVE  Num(ids, z) # e /\ Num(ids, z) \in 1 .. m /\ ends2[Num(ids, z)] = ends[Num(ids, z)]
    <2>1. Num(ids, z) # e /\ Num(ids, z) \in 1 .. m
      BY <1>1, <1>2, <1>7, <1>10, NumberKept
    <2> QED
      BY <2>1, <1>32 DEF EndsHalved
  <1>40. /\ M \in [K -> Darts(n + 2)]
         /\ \A z \in K : M[z] \in DOMAIN N2 /\ M[z] \notin {b1, b3, a1, a3, c1, c3, d1, d3}
    <2>1. ASSUME NEW z \in K PROVE M[z] \in Darts(n + 2) /\ M[z] \in DOMAIN N2 /\ M[z] \notin {b1, b3, a1, a3, c1, c3, d1, d3}
      <3>1. CASE z \in {p, q, r, s}
        <4>1. M[z] \in {b2, a2, c2, d2}
          BY <3>1, <1>29
        <4>2. {b2, a2, c2, d2} \subseteq DOMAIN N2
          BY <1>16, <1>17, <1>26
        <4>3. {b2, a2, c2, d2} \subseteq Darts(n + 2)
          BY <1>34
        <4>4. {b2, a2, c2, d2} \intersect {b1, b3, a1, a3, c1, c3, d1, d3} = {}
          BY <1>11, <1>18
        <4> QED
          BY <4>1, <4>2, <4>3, <4>4
      <3>2. CASE z \notin {p, q, r, s}
        <4>1. M[z] = z /\ z[1] \notin {a, b, c, d} /\ z \in Darts(n)
          BY <3>2, <1>10, <1>29
        <4>2. z \in DOMAIN N2
          BY <4>1, <1>16, <1>26
        <4>3. z \notin {b1, b3, a1, a3, c1, c3, d1, d3}
          BY <4>1, <1>18
        <4> QED
          BY <4>1, <4>2, <4>3, <1>34
      <3> QED
        BY <3>1, <3>2
    <2> QED
      BY <2>1, <1>28
  <1>41. ASSUME NEW z \in K
         PROVE  Goes1(K, M, tri, opp, ids, ends, rim, tri2, opp2, ids2, ends2, rim2, z)
    <2>1. opp2[M[z]] = IF opp[z] = NoDart THEN NoDart ELSE M[opp[z]]
      BY <1>30, <1>33, <1>40
    <2>2. Keeps(tri, ids, rim, tri2, ids2, rim2, z, M[z]) /\ ends2[Num(ids, z)] = ends[Num(ids, z)]
      BY <1>38, <1>39
    <2>3. opp[z] # NoDart => opp[z] \in K
      BY <1>9
    <2> QED
      BY <2>1, <2>2, <2>3 DEF Goes1, Keeps
  <1>42. PICK seam, news : seam = {b1, b3, a1, a3, c1, c3, d1, d3} /\ news = {e, k1, k2, k3}
    OBVIOUS
  <1>43. /\ Num(ids2, b1) = k2 /\ Num(ids2, b3) = e /\ Num(ids2, a1) = k1 /\ Num(ids2, a3) = k2
         /\ Num(ids2, c1) = k3 /\ Num(ids2, c3) = k1 /\ Num(ids2, d1) = e /\ Num(ids2, d3) = k3
    BY <1>17, <1>36 DEF SideNums
  <1>44. /\ e \in 1 .. m /\ e # k1 /\ e # k2 /\ e # k3 /\ k1 # k2 /\ k1 # k3 /\ k2 # k3
         /\ k1 \notin 1 .. m /\ k2 \notin 1 .. m /\ k3 \notin 1 .. m
    <2>1. e \in 1 .. m
      BY <1>2, <1>3 DEF Num, Tables, Darts
    <2> QED
      BY <2>1, <1>3, <1>35
  <1>45. /\ opp2[b1] = a3 /\ opp2[a3] = b1 /\ opp2[c1] = d3 /\ opp2[d3] = c1
    <2>1. {b1, a3, c1, d3} \subseteq DOMAIN N2
      BY <1>16, <1>17, <1>26
    <2>2. {b1, a3, c1, d3} \intersect {b3, d1, c3, a1} = {}
      BY <1>11, <1>18
    <2> QED
      BY <2>1, <2>2, <1>31, <1>33
  <1>46. /\ StartIn(tri2, b1) = w /\ EndIn(tri2, b1) = StartIn(tri, p)
         /\ StartIn(tri2, b3) = StartIn(tri, x) /\ EndIn(tri2, b3) = w
         /\ StartIn(tri2, a1) = w /\ EndIn(tri2, a1) = StartIn(tri, q)
         /\ StartIn(tri2, a3) = StartIn(tri, p) /\ EndIn(tri2, a3) = w
         /\ StartIn(tri2, c1) = w /\ EndIn(tri2, c1) = StartIn(tri, r)
         /\ StartIn(tri2, c3) = StartIn(tri, q) /\ EndIn(tri2, c3) = w
         /\ StartIn(tri2, d1) = w /\ EndIn(tri2, d1) = StartIn(tri, x)
         /\ StartIn(tri2, d3) = StartIn(tri, r) /\ EndIn(tri2, d3) = w
    BY <1>1, <1>4, <1>5, <1>6, <1>17, <1>36 DEF SideEnds
  <1>47. seam \intersect rim2 = {}
    BY <1>17, <1>32, <1>42 DEF CutSide
  <1>48. seam \subseteq Darts(n + 2) /\ NoDart \notin seam
    BY <1>19, <1>34, <1>42
  <1>49. ASSUME NEW g \in seam, NEW h \in seam,
                opp2[g] = h, opp2[h] = g, Num(ids2, h) = Num(ids2, g),
                StartIn(tri2, h) = EndIn(tri2, g), StartIn(tri2, g) = EndIn(tri2, h),
                ends2[Num(ids2, g)] = {StartIn(tri2, g), EndIn(tri2, g)}
         PROVE  /\ Joined(n + 2, tri2, opp2, ids2, ends2, rim2, g)
                /\ Joined(n + 2, tri2, opp2, ids2, ends2, rim2, h)
    <2>1. Crossed(tri2, opp2, ids2, g, h) /\ Crossed(tri2, opp2, ids2, h, g)
      BY <1>49 DEF Crossed
    <2>2. g # NoDart /\ h # NoDart /\ g \notin rim2 /\ h \notin rim2
      BY <1>47, <1>48
    <2> QED
      BY <2>1, <2>2, <1>48, <1>49 DEF Joined
  <1>50. /\ ends2[e] = {StartIn(tri, x), w} /\ ends2[k1] = {w, StartIn(tri, q)}
         /\ ends2[k2] = {w, StartIn(tri, p)} /\ ends2[k3] = {w, StartIn(tri, r)}
    BY <1>32, <1>35 DEF EndsHalved
  <1>51. \A g \in seam : Joined(n + 2, tri2, opp2, ids2, ends2, rim2, g)
    <2>1. b1 \in seam /\ b3 \in seam /\ a1 \in seam /\ a3 \in seam
          /\ c1 \in seam /\ c3 \in seam /\ d1 \in seam /\ d3 \in seam
      BY <1>42
    <2>2. /\ Joined(n + 2, tri2, opp2, ids2, ends2, rim2, b1)
          /\ Joined(n + 2, tri2, opp2, ids2, ends2, rim2, a3)
      BY <2>1, <1>43, <1>45, <1>46, <1>49, <1>50
    <2>3. /\ Joined(n + 2, tri2, opp2, ids2, ends2, rim2, b3)
          /\ Joined(n + 2, tri2, opp2, ids2, ends2, rim2, d1)
      BY <2>1, <1>33, <1>43, <1>46, <1>49, <1>50
    <2>4. /\ Joined(n + 2, tri2, opp2, ids2, ends2, rim2, a1)
          /\ Joined(n + 2, tri2, opp2, ids2, ends2, rim2, c3)
      BY <2>1, <1>33, <1>43, <1>46, <1>49, <1>50
    <2>5. /\ Joined(n + 2, tri2, opp2, ids2, ends2, rim2, c1)
          /\ Joined(n + 2, tri2, opp2, ids2, ends2, rim2, d3)
      BY <2>1, <1>43, <1>45, <1>46, <1>49, <1>50
    <2> QED
      BY <2>2, <2>3, <2>4, <2>5, <1>42
  <1>52. ASSUME NEW g \in seam, NEW h \in seam, Num(ids2, g) = Num(ids2, h)
         PROVE  g = h \/ g = opp2[h]
    <2>1. \/ g \in {b1, a3} /\ h \in {b1, a3}
          \/ g \in {b3, d1} /\ h \in {b3, d1}
          \/ g \in {a1, c3} /\ h \in {a1, c3}
          \/ g \in {c1, d3} /\ h \in {c1, d3}
      BY <1>42, <1>43, <1>44, <1>52
    <2> QED
      BY <2>1, <1>33, <1>45
  <1>53. \A g \in seam : SeamDart(n + 2, tri2, opp2, ids2, ends2, rim2, news, seam, g)
    BY <1>42, <1>43, <1>51, <1>52 DEF SeamDart, Alike
  <1>54. ASSUME NEW u \in Darts(n + 2)
         PROVE  u \in seam \/ \E z \in K : u = M[z]
    <2>1. CASE u[1] \in {a, b, c, d}
      <3>1. u[2] \in {1, 2, 3} /\ u = <<u[1], u[2]>>
        BY DEF Darts, Corner
      <3>2. u \in {b1, b2, b3, a1, a2, a3, c1, c2, c3, d1, d2, d3}
        BY <2>1, <3>1, <1>17
      <3> QED
        BY <3>2, <1>11, <1>29, <1>42
    <2>2. CASE u[1] \notin {a, b, c, d}
      <3>1. u \in Darts(n)
        BY <2>2, <1>18, <1>34
      <3>2. u \in K /\ u \notin {p, q, r, s}
        BY <3>1, <2>2, <1>2, <1>5, <1>6, <1>7
      <3> QED
        BY <3>2, <1>29
    <2> QED
      BY <2>1, <2>2
  <1>55. ASSUME NEW g \in (1 .. (m + 3)) \ news
         PROVE  \E z \in K : Num(ids, z) = g
    <2>1. g \in 1 .. m /\ g # e
      BY <1>3, <1>35, <1>42
    <2>2. PICK z \in Darts(n) : Num(ids, z) = g
      BY <2>1 DEF Sewn
    <2>3. z # x /\ z # y
      BY <2>1, <2>2, <1>2, <1>4
    <2> QED
      BY <2>2, <2>3, <1>7
  <1>56. \A g \in news : \E h \in seam : Num(ids2, h) = g
    BY <1>42, <1>43
  <1>57. \A z \in K : Num(ids, z) \notin news
    BY <1>39, <1>42, <1>44
  <1>58. K \subseteq Darts(n) /\ NoDart \notin Darts(n + 2)
    <2>1. NoDart \notin Darts(n)
      BY <1>3, TypedDart
    <2> QED
      BY <2>1, <1>7, <1>19, <1>34
  <1>59. PICK n2, v2, m2 : n2 = n + 2 /\ v2 = v + 1 /\ m2 = m + 3
    OBVIOUS
  <1>60. Sewn(n2, v2, m2, tri2, opp2, ids2, ends2, rim2)
    <2>1. Resews(n, v, m, tri, opp, ids, ends, rim,
                 n2, v2, m2, tri2, opp2, ids2, ends2, rim2, K, M, seam, news)
      BY ONLY Sewn(n, v, m, tri, opp, ids, ends, rim), <1>37, <1>40, <1>41, <1>48, <1>53, <1>54,
              <1>55, <1>56, <1>57, <1>58, <1>59 DEF Resews
    <2> QED
      BY ONLY <2>1, Resewn, Zenon
  <1> QED
    BY <1>59, <1>60

-----------------------------------------------------------------------------
(***************************************************************************)
(* What Replace writes.                                                    *)
(***************************************************************************)
PartOf(numbers, parts, f) == parts[CHOOSE k \in DOMAIN numbers : numbers[k] = f]

Apart(numbers, parts) ==
  /\ DOMAIN parts = DOMAIN numbers
  /\ \A k, l \in DOMAIN numbers : numbers[k] = numbers[l] => k = l

LEMMA PartFound ==
  ASSUME NEW numbers, NEW parts, Apart(numbers, parts), NEW k \in DOMAIN numbers
  PROVE  PartOf(numbers, parts, numbers[k]) = parts[k] /\ numbers[k] \in Range(numbers)
  BY DEF PartOf, Apart, Range

LEMMA RangeFacts ==
  ASSUME NEW numbers, NEW f \in Range(numbers)
  PROVE  \E k \in DOMAIN numbers : f = numbers[k]
  BY DEF Range

LEMMA UpdatedFacts ==
  ASSUME NEW table, NEW new
  PROVE  /\ DOMAIN Updated(table, new) = DOMAIN table \union DOMAIN new
         /\ \A i \in DOMAIN new : Updated(table, new)[i] = new[i]
         /\ \A i \in DOMAIN table \ DOMAIN new : Updated(table, new)[i] = table[i]
         /\ \A S : /\ \A i \in DOMAIN new : new[i] \in S
                   /\ \A i \in DOMAIN table : table[i] \in S
                   => Updated(table, new) \in [DOMAIN table \union DOMAIN new -> S]
  BY DEF Updated

(* The queue has no other entries than before, and those of the parts.       *)
LEMMA QueueFacts ==
  ASSUME NEW e, NEW S, NEW g \in DOMAIN (Popped(e) (+) SetToBag(S))
  PROVE  g \in DOMAIN queue \/ g \in S
  <1>1. DOMAIN SetToBag(S) = S
    BY DEF SetToBag
  <1>2. DOMAIN Popped(e) \subseteq DOMAIN queue
    BY DEF Popped, (-)
  <1>3. DOMAIN (Popped(e) (+) SetToBag(S)) = DOMAIN Popped(e) \union DOMAIN SetToBag(S)
    BY DEF (+)
  <1> QED
    BY <1>1, <1>2, <1>3

LEMMA PoppedFacts ==
  ASSUME NEW e
  PROVE  DOMAIN Popped(e) \subseteq DOMAIN queue
  BY DEF Popped, (-)

Touched(parts) == UNION {Range(parts[k].ids) : k \in DOMAIN parts}

Rewritten(numbers, vals, old, new) ==
  /\ DOMAIN new = DOMAIN old \union Range(numbers) /\ new = [f \in DOMAIN new |-> new[f]]
  /\ \A k \in DOMAIN numbers : new[numbers[k]] = vals[k]
  /\ \A f \in DOMAIN old \ Range(numbers) : new[f] = old[f]

LEMMA RewrittenBy ==
  ASSUME NEW numbers, NEW parts, Apart(numbers, parts), NEW vals, NEW old, NEW new, NEW g,
         new = Updated(old, [f \in Range(numbers) |-> g[f]]),
         \A k \in DOMAIN numbers : g[numbers[k]] = vals[k]
  PROVE  Rewritten(numbers, vals, old, new)
  <1>1. /\ DOMAIN new = DOMAIN old \union Range(numbers)
        /\ \A i \in Range(numbers) : new[i] = g[i]
        /\ \A i \in DOMAIN old \ Range(numbers) : new[i] = old[i]
        /\ new = [f \in DOMAIN new |-> new[f]]
    BY DEF Updated
  <1> QED
    BY <1>1, PartFound DEF Rewritten

Replacing(e, x, numbers, parts) ==
  LET vn == Cardinality(DOMAIN Q) + 1
      changed == Range(numbers) \X Corner
      touched == Touched(parts)
      Part(f) == PartOf(numbers, parts, f)
      EndsOf(d) == LET z == CHOOSE z \in changed : Part(z[1]).ids[z[2]] = d
                   IN {Part(z[1]).v[z[2]], Part(z[1]).v[(z[2] % 3) + 1]}
  IN
  /\ F' = Updated(F, [f \in Range(numbers) |-> Part(f).v])
  /\ Q' = Append(Q, Q[Start(x)])
  /\ face_edgeIds' = Updated(face_edgeIds, [f \in Range(numbers) |-> Part(f).ids])
  /\ edge_values' = Updated([edge_values EXCEPT ![Id(x)] = {Start(x), vn}],
                            [d \in touched \ DOMAIN edge_values |-> EndsOf(d)])
  /\ edge_diff' = Updated(edge_diff, [d \in touched |-> Written(parts, d)])
  /\ diffs' = Updated(diffs, [z \in changed |-> Part(z[1]).diff[z[2]]])
  /\ Boundary_edges' =
       (Boundary_edges \ changed) \union {z \in changed : Part(z[1]).flag[z[2]]}
  /\ face_edgeOrients' =
       Updated(face_edgeOrients,
               [f \in Range(numbers) |-> FixOrient(Part(f), edge_diff').orients])
  /\ face_spaces' =
       Updated(face_spaces, [f \in Range(numbers) |-> FixOrient(Part(f), edge_diff').space])
  /\ \A g \in DOMAIN queue' : g \in DOMAIN queue \/ g.id \in changed

LEMMA ReplaceIsReplacing ==
  ASSUME NEW e, NEW x, NEW numbers, NEW parts, Replace(e, x, numbers, parts)
  PROVE  Replacing(e, x, numbers, parts)
  <1>1. /\ F' = Updated(F, [f \in Range(numbers) |-> PartOf(numbers, parts, f).v])
        /\ Q' = Append(Q, Q[Start(x)])
        /\ face_edgeIds' =
             Updated(face_edgeIds, [f \in Range(numbers) |-> PartOf(numbers, parts, f).ids])
    BY DEF Replace, PartOf
  <1>2. edge_diff' = Updated(edge_diff, [d \in Touched(parts) |-> Written(parts, d)])
    BY DEF Replace, Touched
  <1>3. /\ diffs' = Updated(diffs, [z \in Range(numbers) \X Corner |->
                                      PartOf(numbers, parts, z[1]).diff[z[2]]])
        /\ Boundary_edges' =
             (Boundary_edges \ (Range(numbers) \X Corner))
               \union {z \in Range(numbers) \X Corner : PartOf(numbers, parts, z[1]).flag[z[2]]}
    BY DEF Replace, PartOf
  <1>4. edge_values' =
          LET changed == Range(numbers) \X Corner
              Part(f) == PartOf(numbers, parts, f)
              EndsOf(d) == LET z == CHOOSE z \in changed : Part(z[1]).ids[z[2]] = d
                           IN {Part(z[1]).v[z[2]], Part(z[1]).v[(z[2] % 3) + 1]}
          IN Updated([edge_values EXCEPT ![Id(x)] = {Start(x), Cardinality(DOMAIN Q) + 1}],
                     [d \in Touched(parts) \ DOMAIN edge_values |-> EndsOf(d)])
    BY DEF Replace, PartOf, Touched
  <1>5. PICK fixed : /\ fixed = [f \in Range(numbers) |-> FixOrient(PartOf(numbers, parts, f), edge_diff')]
                     /\ face_edgeOrients' =
                          Updated(face_edgeOrients, [f \in Range(numbers) |-> fixed[f].orients])
                     /\ face_spaces' =
                          Updated(face_spaces, [f \in Range(numbers) |-> fixed[f].space])
    BY DEF Replace, PartOf
  <1>6. /\ [f \in Range(numbers) |-> fixed[f].orients]
             = [f \in Range(numbers) |-> FixOrient(PartOf(numbers, parts, f), edge_diff').orients]
        /\ [f \in Range(numbers) |-> fixed[f].space]
             = [f \in Range(numbers) |-> FixOrient(PartOf(numbers, parts, f), edge_diff').space]
    BY <1>5
  <1>7. ASSUME NEW g \in DOMAIN queue'
        PROVE  g \in DOMAIN queue \/ g.id \in Range(numbers) \X Corner
    <2>1. PICK S : /\ queue' = Popped(e) (+) SetToBag(S)
                   /\ S = {QueueEntry(z, {F'[z[1]][z[2]], F'[z[1]][(z[2] % 3) + 1]}, diffs'[z]) : z \in
                             {w \in Rescheduled(numbers) \X Corner : Long(diffs'[w])}}
      BY DEF Replace
    <2>2. g \in DOMAIN queue \/ g \in S
      BY <2>1, QueueFacts
    <2>3. ASSUME g \in S PROVE g.id \in Range(numbers) \X Corner
      <3>1. PICK z \in Rescheduled(numbers) \X Corner :
              g = QueueEntry(z, {F'[z[1]][z[2]], F'[z[1]][(z[2] % 3) + 1]}, diffs'[z])
        BY <2>1, <2>3
      <3> QED
        BY <3>1 DEF QueueEntry, Rescheduled
    <2> QED
      BY <2>2, <2>3
  <1> QED
    BY <1>1, <1>2, <1>3, <1>4, <1>5, <1>6, <1>7 DEF Replacing

-----------------------------------------------------------------------------
(***************************************************************************)
(* Turns from the frames.                                                  *)
(***************************************************************************)
LEMMA Remainders ==
  ASSUME NEW a \in Int
  PROVE  /\ Rem4(a) \in -3 .. 3
         /\ \E k \in Int : a = Rem4(a) + 4 * k
         /\ a >= 0 => Rem4(a) \in 0 .. 3 /\ Rem4(a) = a % 4
  <1>1. CASE a >= 0
    <2>1. Rem4(a) = a % 4
      BY <1>1 DEF Rem4
    <2>2. a % 4 \in 0 .. 3 /\ a \div 4 \in Int /\ a = (a % 4) + 4 * (a \div 4)
      BY <1>1
    <2> QED
      BY <2>1, <2>2
  <1>2. CASE a < 0
    <2>1. PICK b \in Int : b = -a
      OBVIOUS
    <2>2. b > 0 /\ a = -b /\ Rem4(a) = -(b % 4)
      BY <1>2, <2>1 DEF Rem4
    <2>3. PICK r \in Int, d \in Int : r = b % 4 /\ d = b \div 4 /\ r \in 0 .. 3 /\ b = r + 4 * d
      BY <2>2
    <2>4. -r \in -3 .. 3 /\ -d \in Int /\ a = (-r) + 4 * (-d)
      BY <2>2, <2>3
    <2> QED
      BY <1>2, <2>2, <2>3, <2>4
  <1> QED
    BY <1>1, <1>2

LEMMA SameRemainder ==
  ASSUME NEW a \in Int, a >= 0, NEW o \in 0 .. 3, NEW k \in Int, a = o + 4 * k
  PROVE  Rem4(a) = o
  <1>1. Rem4(a) = a % 4 /\ a % 4 \in 0 .. 3
    BY Remainders
  <1>2. a = (a % 4) + 4 * (a \div 4) /\ a \div 4 \in Int
    OBVIOUS
  <1>3. PICK r \in Int, d \in Int : r = a % 4 /\ d = a \div 4
    BY <1>2
  <1>4. r \in 0 .. 3 /\ r + 4 * d = o + 4 * k
    BY <1>1, <1>2, <1>3
  <1>5. r = o
    BY ONLY <1>4, o \in 0 .. 3, k \in Int, d \in Int
  <1> QED
    BY <1>1, <1>3, <1>5

LEMMA Compatible ==
  ASSUME NEW a \in 0 .. 11, NEW b \in 0 .. 11
  PROVE  compat_orientation(a, b) \in -1 .. 2
  <1>1. PICK c \in Int : c = (a - b + 13) % 12 /\ c \in 0 .. 11
    OBVIOUS
  <1>2. PICK t \in Int : t = c \div 3 /\ t \in 0 .. 3
    BY <1>1
  <1>3. compat_orientation(a, b) = IF t = 3 THEN -1 ELSE t
    BY <1>1, <1>2 DEF compat_orientation
  <1> QED
    BY <1>2, <1>3

Spaces == [orient : 0 .. 3, d : [Corner -> -3 .. 3], q : 0 .. 11]

(* The turn that AnalyzeOrient gives to an edge from v1 to v2.               *)
Analyzed(frames, v1, v2, orient, dj, q) ==
  LET u == Min({v1, v2})
      back == IF v1 # u THEN 2 ELSE 0
  IN  Rem4(orient + dj + back + compat_orientation(frames[u], q) + 4)

LEMMA AnalyzedIs ==
  ASSUME NEW p, NEW j \in Corner
  PROVE  AnalyzeOrient(p)[j]
           = Analyzed(Q, p.v[j], p.v[(j % 3) + 1], p.space.orient, p.space.d[j], p.space.q)
  BY DEF AnalyzeOrient, Analyzed

LEMMA LesserOfTwo ==
  ASSUME NEW v1 \in Int, NEW v2 \in Int
  PROVE  Min({v1, v2}) = IF v1 <= v2 THEN v1 ELSE v2
  BY DEF Min

FrameAt(frames, v1, v2, orient, dj, q) ==
  /\ v1 \in Int /\ v2 \in Int /\ orient \in 0 .. 3 /\ dj \in -3 .. 3 /\ q \in 0 .. 11
  /\ v1 <= v2 => frames[v1] \in 0 .. 11
  /\ v1 > v2 => frames[v2] \in 0 .. 11

Follows1(frames, v1, v2, orient, dj, q) ==
  \A o \in 0 .. 3 :
    \A d2 : d2 = Rem4(dj + o - Analyzed(frames, v1, v2, orient, dj, q)) =>
      /\ d2 \in -3 .. 3
      /\ Analyzed(frames, v1, v2, orient, d2, q) = o

(* A turn is in 0 .. 3, and follows a change of d.                           *)
LEMMA AnalyzedFacts ==
  ASSUME NEW frames, NEW v1, NEW v2, NEW orient, NEW dj, NEW q,
         FrameAt(frames, v1, v2, orient, dj, q)
  PROVE  /\ Analyzed(frames, v1, v2, orient, dj, q) \in 0 .. 3
         /\ Follows1(frames, v1, v2, orient, dj, q)
  <1>0. /\ v1 \in Int /\ v2 \in Int /\ orient \in 0 .. 3 /\ dj \in -3 .. 3 /\ q \in 0 .. 11
        /\ v1 <= v2 => frames[v1] \in 0 .. 11
        /\ v1 > v2 => frames[v2] \in 0 .. 11
    BY DEF FrameAt
  <1> USE <1>0
  <1>1. PICK u : u = Min({v1, v2})
    OBVIOUS
  <1>2. frames[u] \in 0 .. 11
    BY <1>1, LesserOfTwo
  <1>3. PICK c : c = compat_orientation(frames[u], q)
    OBVIOUS
  <1>4. c \in -1 .. 2
    BY <1>2, <1>3, Compatible
  <1>5. PICK back \in {0, 2} : back = IF v1 # u THEN 2 ELSE 0
    OBVIOUS
  <1>6. PICK rest \in Int : rest = orient + back + c + 4 /\ rest >= 3
    BY <1>4
  <1>7. ASSUME NEW d \in -3 .. 3
        PROVE  Analyzed(frames, v1, v2, orient, d, q) = Rem4(d + rest) /\ d + rest \in Int /\ d + rest >= 0
    <2>1. Analyzed(frames, v1, v2, orient, d, q) = Rem4(orient + d + back + c + 4)
      BY <1>1, <1>3, <1>5 DEF Analyzed
    <2>2. orient + d + back + c + 4 = d + rest
      BY <1>4, <1>6
    <2> QED
      BY <2>1, <2>2, <1>6
  <1>8. PICK w : w = Analyzed(frames, v1, v2, orient, dj, q)
    OBVIOUS
  <1>9. w = Rem4(dj + rest) /\ w \in 0 .. 3
    BY <1>7, <1>8, Remainders
  <1>10. ASSUME NEW o \in 0 .. 3, NEW d2, d2 = Rem4(dj + o - w)
         PROVE  d2 \in -3 .. 3 /\ Analyzed(frames, v1, v2, orient, d2, q) = o
    <2>1. PICK g \in Int : g = dj + o - w
      BY <1>9
    <2>2. d2 \in -3 .. 3 /\ \E k \in Int : g = d2 + 4 * k
      BY <2>1, <1>10, Remainders
    <2>3. PICK k \in Int : g = d2 + 4 * k
      BY <2>2
    <2>4. PICK h \in Int : h = dj + rest
      BY <1>6
    <2>5. PICK l \in Int : h = w + 4 * l
      BY <2>4, <1>9, Remainders
    <2>6. PICK a \in Int : a = d2 + rest
      BY <1>6, <2>2
    <2>7. a >= 0 /\ Analyzed(frames, v1, v2, orient, d2, q) = Rem4(a)
      BY <1>7, <2>2, <2>6
    <2>8. a = o + 4 * (l - k) /\ l - k \in Int
      <3>1. d2 \in Int /\ w \in Int /\ o \in Int /\ dj \in Int
        BY <2>2, <1>9
      <3>2. d2 = dj + o - w - 4 * k
        BY ONLY <2>1, <2>3, <3>1, k \in Int, g \in Int
      <3>3. dj + rest = w + 4 * l
        BY ONLY <2>4, <2>5
      <3>4. a = o + 4 * l - 4 * k
        BY ONLY <2>6, <3>1, <3>2, <3>3, k \in Int, l \in Int, rest \in Int
      <3> QED
        BY ONLY <3>1, <3>4, k \in Int, l \in Int
    <2> QED
      BY <2>2, <2>7, <2>8, SameRemainder
  <1> QED
    BY <1>8, <1>9, <1>10 DEF Follows1

Seen(p) ==
  \A j \in Corner :
    /\ p.v[j] \in Int /\ p.v[(j % 3) + 1] \in Int
    /\ p.v[j] <= p.v[(j % 3) + 1] => Q[p.v[j]] \in 0 .. 11
    /\ p.v[j] > p.v[(j % 3) + 1] => Q[p.v[(j % 3) + 1]] \in 0 .. 11

LEMMA OrientTyped ==
  ASSUME NEW p, p.space \in Spaces, Seen(p), NEW j \in Corner
  PROVE  /\ AnalyzeOrient(p)[j] \in 0 .. 3
         /\ p.space.orient \in 0 .. 3 /\ p.space.q \in 0 .. 11 /\ p.space.d[j] \in -3 .. 3
  <1>1. PICK a, b, o, d, q, x : /\ a = p.v[j] /\ b = p.v[(j % 3) + 1] /\ o = p.space.orient
                             /\ d = p.space.d[j] /\ q = p.space.q /\ x = AnalyzeOrient(p)[j]
    OBVIOUS
  <1>2. o \in 0 .. 3 /\ q \in 0 .. 11 /\ d \in -3 .. 3
    BY <1>1 DEF Spaces
  <1>3. /\ a \in Int /\ b \in Int
        /\ a <= b => Q[a] \in 0 .. 11
        /\ a > b => Q[b] \in 0 .. 11
    BY <1>1 DEF Seen
  <1>4. x = Analyzed(Q, a, b, o, d, q)
    BY <1>1, AnalyzedIs
  <1>6. FrameAt(Q, a, b, o, d, q)
    BY ONLY <1>2, <1>3 DEF FrameAt
  <1>5. x \in 0 .. 3
    BY ONLY <1>4, <1>6, AnalyzedFacts
  <1> QED
    BY <1>1, <1>2, <1>5

Framed(frames, v, space, orients) ==
  \A j \in Corner :
    orients[j] = Analyzed(frames, v[j], v[(j % 3) + 1], space.orient, space.d[j], space.q)

LEMMA FixOrientFacts ==
  ASSUME NEW p, p.space \in Spaces, Seen(p), NEW diff,
         \A j \in Corner : diff[p.ids[j]] \in Vec /\ Turnable(diff[p.ids[j]], p.diff[j]),
         NEW fixed, fixed = FixOrient(p, diff)
  PROVE  /\ fixed.orients \in [Corner -> 0 .. 3] /\ fixed.space \in Spaces
         /\ \A j \in Corner : rshift90(diff[p.ids[j]], fixed.orients[j]) = p.diff[j]
         /\ Framed(Q, p.v, fixed.space, fixed.orients)
  <1>1. PICK was, orients :
          /\ was = AnalyzeOrient(p)
          /\ orients = [j \in Corner |->
               IF rshift90(diff[p.ids[j]], was[j]) = p.diff[j] THEN was[j]
               ELSE Min({t \in 0 .. 3 : rshift90(diff[p.ids[j]], t) = p.diff[j]} \union {4})]
    OBVIOUS
  <1>2. fixed = [orients |-> orients,
                 space |-> [p.space EXCEPT
                              !.d = [j \in Corner |-> Rem4(@[j] + orients[j] - was[j])]]]
    BY <1>1 DEF FixOrient
  <1>3. ASSUME NEW j \in Corner
        PROVE  orients[j] \in 0 .. 3 /\ rshift90(diff[p.ids[j]], orients[j]) = p.diff[j]
    <2>1. was[j] \in 0 .. 3
      BY <1>1, OrientTyped
    <2>2. CASE rshift90(diff[p.ids[j]], was[j]) = p.diff[j]
      BY <2>1, <2>2, <1>1
    <2>3. CASE rshift90(diff[p.ids[j]], was[j]) # p.diff[j]
      <3>1. PICK S : S = {t \in 0 .. 3 : rshift90(diff[p.ids[j]], t) = p.diff[j]}
        OBVIOUS
      <3>2. PICK t \in 0 .. 3 : t \in S
        BY <3>1 DEF Turnable
      <3>3. S \union {4} \in SUBSET Nat /\ S \union {4} # {} /\ t < 4 /\ t \in S \union {4}
        BY <3>1, <3>2
      <3>4. \E x \in S \union {4} : \A y \in S \union {4} : x <= y
        BY <3>3, LeastNatural
      <3>5. Min(S \union {4}) \in S \union {4} /\ Min(S \union {4}) <= t
        BY <3>3, <3>4 DEF Min
      <3>6. Min(S \union {4}) \in S
        BY <3>3, <3>5
      <3>7. orients[j] = Min(S \union {4})
        BY <2>3, <3>1, <1>1
      <3> QED
        BY <3>1, <3>6, <3>7
    <2> QED
      BY <2>2, <2>3
  <1>4. PICK d2 : d2 = [j \in Corner |-> Rem4(p.space.d[j] + orients[j] - was[j])]
    OBVIOUS
  <1>5. PICK sp : sp = fixed.space
    OBVIOUS
  <1>6. sp.orient = p.space.orient /\ sp.q = p.space.q /\ sp.d = d2 /\ fixed.orients = orients
        /\ sp = [orient |-> p.space.orient, d |-> d2, q |-> p.space.q]
    BY <1>2, <1>4, <1>5 DEF Spaces
  <1>7. ASSUME NEW j \in Corner
        PROVE  /\ d2[j] \in -3 .. 3
               /\ orients[j] = Analyzed(Q, p.v[j], p.v[(j % 3) + 1], p.space.orient, d2[j], p.space.q)
    <2>1. PICK a, b, o, d, q, x, t : /\ a = p.v[j] /\ b = p.v[(j % 3) + 1] /\ o = p.space.orient
                               /\ d = p.space.d[j] /\ q = p.space.q /\ x = was[j] /\ t = orients[j]
      OBVIOUS
    <2>2. o \in 0 .. 3 /\ q \in 0 .. 11 /\ d \in -3 .. 3
      BY <2>1, OrientTyped
    <2>3. /\ a \in Int /\ b \in Int
          /\ a <= b => Q[a] \in 0 .. 11
          /\ a > b => Q[b] \in 0 .. 11
      BY <2>1 DEF Seen
    <2>4. x = Analyzed(Q, a, b, o, d, q) /\ t \in 0 .. 3
      BY <1>1, <1>3, <2>1, AnalyzedIs
    <2>5. PICK c : c = Rem4(d + t - Analyzed(Q, a, b, o, d, q))
      OBVIOUS
    <2>6. c \in -3 .. 3 /\ Analyzed(Q, a, b, o, c, q) = t
      <3>1. FrameAt(Q, a, b, o, d, q)
        BY ONLY <2>2, <2>3 DEF FrameAt
      <3>2. Follows1(Q, a, b, o, d, q)
        BY ONLY <3>1, AnalyzedFacts
      <3> QED
        BY ONLY <2>4, <2>5, <3>2 DEF Follows1
    <2>7. d2[j] = c
      BY <1>4, <2>1, <2>4, <2>5
    <2> QED
      BY <2>1, <2>6, <2>7
  <1>8. d2 \in [Corner -> -3 .. 3] /\ p.space.orient \in 0 .. 3 /\ p.space.q \in 0 .. 11
    BY <1>4, <1>7 DEF Spaces
  <1>9. sp \in Spaces
    BY <1>6, <1>8 DEF Spaces
  <1>10. Framed(Q, p.v, sp, orients)
    BY <1>6, <1>7 DEF Framed
  <1>11. orients \in [Corner -> 0 .. 3]
    BY <1>1, <1>3
  <1> QED
    BY <1>3, <1>5, <1>6, <1>9, <1>10, <1>11

(* What is written for an edge comes from one of the parts that have it.     *)
LEMMA WrittenBySome ==
  ASSUME NEW L \in Nat, NEW parts, DOMAIN parts = 1 .. L,
         \A k \in 1 .. L : DOMAIN parts[k].ids = Corner,
         NEW e \in Touched(parts)
  PROVE  \E k \in 1 .. L, j \in Corner :
           /\ parts[k].ids[j] = e
           /\ Written(parts, e)
                = rshift90(parts[k].diff[j], Rem4(4 - AnalyzeOrient(parts[k])[j]))
  <1>1. PICK k \in 1 .. L, j \in Corner : parts[k].ids[j] = e
    BY DEF Touched, Range
  <1>2. PICK S : S = {l \in DOMAIN parts : \E c \in Corner : parts[l].ids[c] = e}
    OBVIOUS
  <1>3. S \in SUBSET (1 .. L) /\ S # {}
    BY <1>1, <1>2
  <1>4. PICK i : i = Max(S)
    OBVIOUS
  <1>5. i \in S
    BY <1>3, <1>4, MaxIn
  <1>6. PICK T : T = {c \in Corner : parts[i].ids[c] = e}
    OBVIOUS
  <1>7. T \in SUBSET (1 .. 3) /\ T # {} /\ 3 \in Nat
    BY <1>2, <1>5, <1>6 DEF Corner
  <1>8. PICK c : c = Max(T)
    OBVIOUS
  <1>9. c \in T
    BY <1>7, <1>8, MaxIn
  <1>10. Written(parts, e) = rshift90(parts[i].diff[c], Rem4(4 - AnalyzeOrient(parts[i])[c]))
    BY <1>2, <1>4, <1>6, <1>8 DEF Written
  <1> QED
    BY <1>2, <1>3, <1>5, <1>6, <1>9, <1>10

-----------------------------------------------------------------------------
(***************************************************************************)
(* The tables of a subdivision.                                            *)
(***************************************************************************)
Surfaced(n, m) ==
  /\ n \in Nat /\ m \in Nat /\ Q \in Seq(0 .. 11)
  /\ edge_diff \in [1 .. m -> Vec] /\ face_edgeOrients \in [1 .. n -> [Corner -> 0 .. 3]]
  /\ Sewn(n, Len(Q), m, F, mE2E, face_edgeIds, edge_values, Boundary_edges)

Turned1(diff, ids, orients, ds, z) ==
  rshift90(diff[ids[z[1]][z[2]]], orients[z[1]][z[2]]) = ds[z]

Halving(n) ==
  /\ diffs \in [Darts(n) -> Vec] /\ face_spaces \in [1 .. n -> Spaces]
  /\ \A z \in Darts(n) : Turned1(edge_diff, face_edgeIds, face_edgeOrients, diffs, z)
  /\ \A f \in 1 .. n : Framed(Q, F[f], face_spaces[f], face_edgeOrients[f])
  /\ \A g \in DOMAIN queue : g.id \in Darts(n)

Low(v, lq) ==
  \A j \in Corner :
    /\ v[j] \in Int /\ v[(j % 3) + 1] \in Int
    /\ v[j] <= v[(j % 3) + 1] => v[j] \in 1 .. lq
    /\ v[j] > v[(j % 3) + 1] => v[(j % 3) + 1] \in 1 .. lq

(* The edge j of the part p is the one of z, which stays.                    *)
OldEdge(p, j, z) ==
  /\ p.ids[j] = Id(z) /\ p.diff[j] = diffs[z]
  /\ AnalyzeOrient(p)[j] = face_edgeOrients[z[1]][z[2]]

PartRight(m2, news, n, p) ==
  /\ p.space \in Spaces /\ Low(p.v, Len(Q))
  /\ p.ids \in [Corner -> 1 .. m2] /\ p.diff \in [Corner -> Vec]
  /\ \A j \in Corner : p.ids[j] \in news \/ \E z \in Darts(n) : Id(z) \notin news /\ OldEdge(p, j, z)

Cutting(n, m, n2, m2, L, numbers, parts, news) ==
  /\ n2 \in Nat /\ m2 \in Nat /\ L \in Nat
  /\ DOMAIN numbers = 1 .. L /\ DOMAIN parts = 1 .. L /\ Apart(numbers, parts)
  /\ 1 .. n2 = (1 .. n) \union Range(numbers)
  /\ 1 .. m2 = (1 .. m) \union news
  /\ \A d \in news : \E k \in 1 .. L, j \in Corner : parts[k].ids[j] = d
  /\ \A k \in 1 .. L : PartRight(m2, news, n, parts[k])
  /\ \A k, l \in 1 .. L : \A j, i \in Corner :
       parts[k].ids[j] = parts[l].ids[i] /\ parts[k].ids[j] \in news
         => Turnable(parts[k].diff[j], parts[l].diff[i])
  /\ \A z \in Darts(n) : z[1] \notin Range(numbers) => Id(z) \notin news

LEMMA PartSeen ==
  ASSUME Q \in Seq(0 .. 11), NEW p, Low(p.v, Len(Q))
  PROVE  Seen(p)
  <1>1. \A u \in 1 .. Len(Q) : Q[u] \in 0 .. 11
    OBVIOUS
  <1> QED
    BY <1>1 DEF Low, Seen

LEMMA WrittenRight ==
  ASSUME NEW n, NEW m, Surfaced(n, m), Halving(n),
         NEW n2, NEW m2, NEW L, NEW numbers, NEW parts, NEW news,
         Cutting(n, m, n2, m2, L, numbers, parts, news),
         NEW d \in Touched(parts)
  PROVE  /\ Written(parts, d) \in Vec
         /\ \A k \in 1 .. L, j \in Corner :
              parts[k].ids[j] = d => Turnable(Written(parts, d), parts[k].diff[j])
         /\ d \notin news => Written(parts, d) = edge_diff[d]
  <1>1. /\ L \in Nat /\ DOMAIN parts = 1 .. L
        /\ \A k \in 1 .. L : PartRight(m2, news, n, parts[k])
    BY DEF Cutting
  <1>2. \A k \in 1 .. L : DOMAIN parts[k].ids = Corner
    BY <1>1 DEF PartRight
  <1>3. PICK k \in 1 .. L, j \in Corner :
          /\ parts[k].ids[j] = d
          /\ Written(parts, d) = rshift90(parts[k].diff[j], Rem4(4 - AnalyzeOrient(parts[k])[j]))
    BY <1>1, <1>2, WrittenBySome
  <1>4. PICK p, c, o : p = parts[k] /\ c = p.diff[j] /\ o = AnalyzeOrient(p)[j]
    OBVIOUS
  <1>5. p.space \in Spaces /\ Low(p.v, Len(Q)) /\ c \in Vec
    BY <1>1, <1>4 DEF PartRight
  <1>6. o \in 0 .. 3
    BY <1>4, <1>5, PartSeen, OrientTyped DEF Surfaced
  <1>7. Rem4(4 - o) = (4 - o) % 4 /\ (4 - o) % 4 \in 0 .. 3
    <2>1. 4 - o \in Int /\ 4 - o >= 0
      BY <1>6
    <2> QED
      BY <2>1, Remainders
  <1>8. PICK b : b = Written(parts, d)
    OBVIOUS
  <1>9. b = rshift90(c, (4 - o) % 4) /\ b \in Vec /\ Turnable(c, b)
    <2>1. b = rshift90(c, (4 - o) % 4)
      BY <1>3, <1>4, <1>7, <1>8
    <2> QED
      BY <2>1, <1>5, <1>7, TurnType DEF Turnable
  <1>10. ASSUME d \notin news
         PROVE  b = edge_diff[d]
    <2>1. PICK z \in Darts(n) : OldEdge(p, j, z)
      BY <1>1, <1>3, <1>4, <1>10 DEF PartRight
    <2>2. /\ rshift90(edge_diff[d], o) = c
      BY <2>1, <1>3, <1>4 DEF OldEdge, Halving, Turned1, Id
    <2>3. edge_diff[d] \in Vec
      <3>1. d \in 1 .. m
        <4>1. p.ids[j] \in 1 .. m2 /\ 1 .. m2 = (1 .. m) \union news
          BY <1>1, <1>4 DEF PartRight, Cutting
        <4> QED
          BY <4>1, <1>3, <1>4, <1>10
      <3> QED
        BY <3>1 DEF Surfaced
    <2> QED
      BY <2>2, <2>3, <1>6, <1>9, TurnBack
  <1>11. ASSUME NEW l \in 1 .. L, NEW i \in Corner, parts[l].ids[i] = d
         PROVE  Turnable(b, parts[l].diff[i])
    <2>1. PICK g : g = parts[l].diff[i]
      OBVIOUS
    <2>2. g \in Vec
      BY <1>1, <2>1 DEF PartRight
    <2>3. CASE d \in news
      <3>1. Turnable(c, g)
        BY <2>1, <2>3, <1>3, <1>4, <1>11 DEF Cutting
      <3> QED
        BY <3>1, <2>1, <2>2, <1>5, <1>9, TurnableFacts
    <2>4. CASE d \notin news
      <3>1. PICK z \in Darts(n) : OldEdge(parts[l], i, z)
        BY <1>1, <1>11, <2>4 DEF PartRight
      <3>2. rshift90(edge_diff[d], face_edgeOrients[z[1]][z[2]]) = g
        BY <3>1, <2>1, <1>11 DEF OldEdge, Halving, Turned1, Id
      <3>3. face_edgeOrients[z[1]][z[2]] \in 0 .. 3
        BY DEF Surfaced, Darts
      <3> QED
        BY <3>2, <3>3, <2>1, <2>4, <1>10 DEF Turnable
    <2> QED
      BY <2>3, <2>4
  <1> QED
    BY <1>8, <1>9, <1>10, <1>11

LEMMA TouchedIs ==
  ASSUME NEW n, NEW m, NEW n2, NEW m2, NEW L, NEW numbers, NEW parts, NEW news,
         Cutting(n, m, n2, m2, L, numbers, parts, news)
  PROVE  /\ Touched(parts) \subseteq 1 .. m2 /\ news \subseteq Touched(parts)
         /\ \A k \in 1 .. L, j \in Corner : parts[k].ids[j] \in Touched(parts)
  <1>1. /\ DOMAIN parts = 1 .. L
        /\ \A k \in 1 .. L : parts[k].ids \in [Corner -> 1 .. m2]
        /\ \A d \in news : \E k \in 1 .. L, j \in Corner : parts[k].ids[j] = d
    BY DEF Cutting, PartRight
  <1>2. \A k \in 1 .. L, j \in Corner : parts[k].ids[j] \in Touched(parts)
    BY <1>1 DEF Touched, Range
  <1>3. ASSUME NEW d \in Touched(parts) PROVE d \in 1 .. m2
    <2>1. PICK k \in 1 .. L : d \in Range(parts[k].ids)
      BY <1>1 DEF Touched
    <2> QED
      BY <2>1, <1>1 DEF Range
  <1> QED
    BY <1>1, <1>2, <1>3

(* The frames of the old vertices stay.                                      *)
LEMMA FramesGrow ==
  ASSUME NEW Q1 \in Seq(0 .. 11), NEW Q2, NEW c \in 0 .. 11, Q2 = Append(Q1, c),
         NEW v, Low(v, Len(Q1)), NEW space, NEW orients, Framed(Q1, v, space, orients)
  PROVE  Framed(Q2, v, space, orients)
  <1>1. \A u \in 1 .. Len(Q1) : Q2[u] = Q1[u]
    OBVIOUS
  <1>2. SUFFICES ASSUME NEW j \in Corner
                 PROVE  orients[j] = Analyzed(Q2, v[j], v[(j % 3) + 1], space.orient, space.d[j], space.q)
    BY DEF Framed
  <1>3. PICK a, b : a = v[j] /\ b = v[(j % 3) + 1]
    OBVIOUS
  <1>4. a \in Int /\ b \in Int /\ (a <= b => a \in 1 .. Len(Q1)) /\ (a > b => b \in 1 .. Len(Q1))
    BY <1>3 DEF Low
  <1>5. Min({a, b}) = IF a <= b THEN a ELSE b
    BY <1>4, LesserOfTwo
  <1>6. PICK u : u = Min({a, b})
    OBVIOUS
  <1>7. Q2[u] = Q1[u]
    BY <1>1, <1>4, <1>5, <1>6
  <1>8. Analyzed(Q2, a, b, space.orient, space.d[j], space.q)
          = Analyzed(Q1, a, b, space.orient, space.d[j], space.q)
    BY <1>6, <1>7 DEF Analyzed
  <1> QED
    BY <1>3, <1>8 DEF Framed

(* A face has different vertices, so one of two is not the greatest.         *)
LEMMA LowFace ==
  ASSUME NEW lq \in Nat, NEW v \in [Corner -> 1 .. lq + 1],
         \A i, j \in Corner : v[i] = v[j] => i = j
  PROVE  Low(v, lq)
  <1>1. ASSUME NEW j \in Corner
        PROVE  /\ v[j] \in Int /\ v[(j % 3) + 1] \in Int
               /\ v[j] <= v[(j % 3) + 1] => v[j] \in 1 .. lq
               /\ v[j] > v[(j % 3) + 1] => v[(j % 3) + 1] \in 1 .. lq
    <2>1. PICK i \in Corner : i = (j % 3) + 1 /\ i # j
      BY DEF Corner
    <2>2. v[i] \in 1 .. lq + 1 /\ v[j] \in 1 .. lq + 1 /\ v[i] # v[j]
      BY <2>1
    <2> QED
      BY <2>1, <2>2
  <1> QED
    BY <1>1 DEF Low

(* The differences of the edges after a replacement.                         *)
Rediffed(m2, edges, parts, diff2) ==
  /\ diff2 \in [1 .. m2 -> Vec]
  /\ \A k \in DOMAIN parts, j \in Corner : Turnable(diff2[parts[k].ids[j]], parts[k].diff[j])
  /\ \A d \in edges : diff2[d] = edge_diff[d]

LEMMA EdgesRewritten ==
  ASSUME NEW n, NEW m, Surfaced(n, m), Halving(n),
         NEW n2, NEW m2, NEW L, NEW numbers, NEW parts, NEW news,
         Cutting(n, m, n2, m2, L, numbers, parts, news),
         NEW e, NEW x, Replacing(e, x, numbers, parts)
  PROVE  Rediffed(m2, (1 .. m) \ news, parts, edge_diff')
  <1>1. PICK new : new = [d \in Touched(parts) |-> Written(parts, d)]
    OBVIOUS
  <1>2. edge_diff' = Updated(edge_diff, new)
    BY <1>1 DEF Replacing
  <1>3. /\ edge_diff \in [1 .. m -> Vec] /\ DOMAIN parts = 1 .. L /\ 1 .. m2 = (1 .. m) \union news
    BY DEF Surfaced, Cutting
  <1>4. /\ Touched(parts) \subseteq 1 .. m2 /\ news \subseteq Touched(parts)
        /\ \A k \in 1 .. L, j \in Corner : parts[k].ids[j] \in Touched(parts)
    BY TouchedIs
  <1>5. \A d \in Touched(parts) :
          /\ Written(parts, d) \in Vec
          /\ \A k \in 1 .. L, j \in Corner :
               parts[k].ids[j] = d => Turnable(Written(parts, d), parts[k].diff[j])
          /\ d \notin news => Written(parts, d) = edge_diff[d]
    BY WrittenRight
  <1>6. /\ DOMAIN new = Touched(parts) /\ \A d \in Touched(parts) : new[d] = Written(parts, d)
    BY <1>1
  <1>7. /\ edge_diff' \in [DOMAIN edge_diff \union DOMAIN new -> Vec]
        /\ \A d \in DOMAIN new : edge_diff'[d] = new[d]
        /\ \A d \in DOMAIN edge_diff \ DOMAIN new : edge_diff'[d] = edge_diff[d]
    <2>1. \A d \in DOMAIN new : new[d] \in Vec
      BY <1>5, <1>6
    <2>2. \A d \in DOMAIN edge_diff : edge_diff[d] \in Vec
      BY <1>3
    <2> QED
      BY ONLY <1>2, <2>1, <2>2 DEF Updated
  <1>8. edge_diff' \in [1 .. m2 -> Vec]
    <2>1. DOMAIN edge_diff \union DOMAIN new = 1 .. m2
      BY <1>3, <1>4, <1>6
    <2> QED
      BY <1>7, <2>1
  <1>9. ASSUME NEW k \in DOMAIN parts, NEW j \in Corner
        PROVE  Turnable(edge_diff'[parts[k].ids[j]], parts[k].diff[j])
    <2>1. PICK d : d = parts[k].ids[j] /\ d \in Touched(parts) /\ k \in 1 .. L
      BY <1>3, <1>4
    <2>2. edge_diff'[d] = Written(parts, d)
      BY <2>1, <1>6, <1>7
    <2> QED
      BY <2>1, <2>2, <1>5
  <1>10. ASSUME NEW d \in (1 .. m) \ news
         PROVE  edge_diff'[d] = edge_diff[d]
    BY <1>3, <1>5, <1>6, <1>7
  <1> QED
    BY <1>8, <1>9, <1>10 DEF Rediffed

(* The faces after a replacement: those of the parts.                        *)
Became(k, numbers, parts) ==
  LET f == numbers[k]
      p == parts[k]
  IN  /\ F'[f] = p.v /\ face_edgeIds'[f] = p.ids
      /\ face_edgeOrients'[f] = FixOrient(p, edge_diff').orients
      /\ face_spaces'[f] = FixOrient(p, edge_diff').space
      /\ \A j \in Corner : diffs'[<<f, j>>] = p.diff[j]
      /\ \A j \in Corner : <<f, j>> \in Boundary_edges' <=> p.flag[j]

Stayed(f) ==
  /\ F'[f] = F[f] /\ face_edgeIds'[f] = face_edgeIds[f]
  /\ face_edgeOrients'[f] = face_edgeOrients[f] /\ face_spaces'[f] = face_spaces[f]
  /\ \A j \in Corner : diffs'[<<f, j>>] = diffs[<<f, j>>]
  /\ \A j \in Corner : <<f, j>> \in Boundary_edges' <=> <<f, j>> \in Boundary_edges

Domains(n2) ==
  /\ F' = [f \in 1 .. n2 |-> F'[f]] /\ face_edgeIds' = [f \in 1 .. n2 |-> face_edgeIds'[f]]
  /\ face_edgeOrients' = [f \in 1 .. n2 |-> face_edgeOrients'[f]]
  /\ face_spaces' = [f \in 1 .. n2 |-> face_spaces'[f]]
  /\ diffs' = [z \in Darts(n2) |-> diffs'[z]]

LEMMA FacesRewritten ==
  ASSUME NEW n, NEW m, Surfaced(n, m), Halving(n),
         NEW n2, NEW m2, NEW L, NEW numbers, NEW parts, NEW news,
         Cutting(n, m, n2, m2, L, numbers, parts, news),
         NEW e, NEW x, Replacing(e, x, numbers, parts)
  PROVE  /\ Domains(n2)
         /\ \A k \in 1 .. L : Became(k, numbers, parts)
         /\ \A f \in (1 .. n) \ Range(numbers) : Stayed(f)
  <1>1. PICK R : R = Range(numbers)
    OBVIOUS
  <1>2. /\ DOMAIN numbers = 1 .. L /\ Apart(numbers, parts) /\ 1 .. n2 = (1 .. n) \union R
    BY <1>1 DEF Cutting
  <1>3. /\ DOMAIN F = 1 .. n /\ DOMAIN face_edgeIds = 1 .. n /\ DOMAIN face_edgeOrients = 1 .. n
        /\ DOMAIN face_spaces = 1 .. n /\ DOMAIN diffs = Darts(n)
    BY DEF Surfaced, Sewn, Tables, Halving
  <1>4. PICK gv, gi, go, gs :
          /\ gv = [f \in R |-> PartOf(numbers, parts, f).v]
          /\ gi = [f \in R |-> PartOf(numbers, parts, f).ids]
          /\ go = [f \in R |-> FixOrient(PartOf(numbers, parts, f), edge_diff').orients]
          /\ gs = [f \in R |-> FixOrient(PartOf(numbers, parts, f), edge_diff').space]
    OBVIOUS
  <1>5. PICK gd : gd = [z \in R \X Corner |-> PartOf(numbers, parts, z[1]).diff[z[2]]]
    OBVIOUS
  <1>6. /\ F' = Updated(F, gv) /\ face_edgeIds' = Updated(face_edgeIds, gi)
        /\ face_edgeOrients' = Updated(face_edgeOrients, go)
        /\ face_spaces' = Updated(face_spaces, gs) /\ diffs' = Updated(diffs, gd)
        /\ Boundary_edges' = (Boundary_edges \ (R \X Corner))
               \union {z \in R \X Corner : PartOf(numbers, parts, z[1]).flag[z[2]]}
    BY <1>1, <1>4, <1>5 DEF Replacing
  <1>7. /\ DOMAIN gv = R /\ DOMAIN gi = R /\ DOMAIN go = R /\ DOMAIN gs = R /\ DOMAIN gd = R \X Corner
    BY <1>4, <1>5
  <1>8. ASSUME NEW t, NEW g, DOMAIN t = 1 .. n, DOMAIN g = R
        PROVE  /\ Updated(t, g) = [f \in 1 .. n2 |-> Updated(t, g)[f]]
               /\ \A f \in R : Updated(t, g)[f] = g[f]
               /\ \A f \in (1 .. n) \ R : Updated(t, g)[f] = t[f]
    BY <1>2, <1>8 DEF Updated
  <1>9. Darts(n2) = Darts(n) \union (R \X Corner)
    BY <1>2 DEF Darts
  <1>10. /\ diffs' = [z \in Darts(n2) |-> diffs'[z]]
         /\ \A z \in R \X Corner : diffs'[z] = gd[z]
         /\ \A z \in Darts(n) \ (R \X Corner) : diffs'[z] = diffs[z]
    BY <1>3, <1>6, <1>7, <1>9 DEF Updated
  <1>11. Domains(n2)
    BY <1>3, <1>6, <1>7, <1>8, <1>10 DEF Domains
  <1>12. ASSUME NEW k \in 1 .. L
         PROVE  Became(k, numbers, parts)
    <2>1. PICK f, p : f = numbers[k] /\ p = parts[k]
      OBVIOUS
    <2>2. PartOf(numbers, parts, f) = p /\ f \in R
      BY <2>1, <1>1, <1>2, PartFound
    <2>3. /\ F'[f] = p.v /\ face_edgeIds'[f] = p.ids
      BY <2>2, <1>3, <1>4, <1>6, <1>7, <1>8
    <2>4. /\ face_edgeOrients'[f] = FixOrient(p, edge_diff').orients
          /\ face_spaces'[f] = FixOrient(p, edge_diff').space
      <3>1. face_edgeOrients'[f] = go[f] /\ face_spaces'[f] = gs[f]
        BY <2>2, <1>3, <1>6, <1>7, <1>8
      <3> QED
        BY <3>1, <2>2, <1>4
    <2>5. ASSUME NEW j \in Corner PROVE diffs'[<<f, j>>] = p.diff[j] /\ (<<f, j>> \in Boundary_edges' <=> p.flag[j])
      <3>1. PICK z : z = <<f, j>>
        OBVIOUS
      <3>2. z \in R \X Corner /\ z[1] = f /\ z[2] = j
        BY <3>1, <2>2
      <3>3. gd[z] = p.diff[j] /\ diffs'[z] = gd[z]
        BY <3>2, <2>2, <1>5, <1>10
      <3>4. z \in Boundary_edges' <=> p.flag[j]
        BY <3>2, <2>2, <1>6
      <3> QED
        BY <3>1, <3>3, <3>4
    <2> QED
      BY <2>1, <2>3, <2>4, <2>5 DEF Became
  <1>13. ASSUME NEW f \in (1 .. n) \ R
         PROVE  Stayed(f)
    <2>1. /\ F'[f] = F[f] /\ face_edgeIds'[f] = face_edgeIds[f]
          /\ face_edgeOrients'[f] = face_edgeOrients[f] /\ face_spaces'[f] = face_spaces[f]
      <3>1. Updated(F, gv)[f] = F[f] /\ Updated(face_edgeIds, gi)[f] = face_edgeIds[f]
        BY <1>3, <1>7 DEF Updated
      <3>2. /\ Updated(face_edgeOrients, go)[f] = face_edgeOrients[f]
            /\ Updated(face_spaces, gs)[f] = face_spaces[f]
        BY <1>3, <1>7 DEF Updated
      <3> QED
        BY <3>1, <3>2, <1>6
    <2>2. ASSUME NEW j \in Corner
          PROVE  diffs'[<<f, j>>] = diffs[<<f, j>>] /\ (<<f, j>> \in Boundary_edges' <=> <<f, j>> \in Boundary_edges)
      <3>1. <<f, j>> \in Darts(n) \ (R \X Corner)
        BY DEF Darts
      <3> QED
        BY <3>1, <1>6, <1>10
    <2> QED
      BY <2>1, <2>2 DEF Stayed
  <1> QED
    BY <1>1, <1>11, <1>12, <1>13

LEMMA DifferencesRebuilt ==
  ASSUME NEW n, NEW m, Surfaced(n, m), Halving(n),
         NEW n2, NEW m2, NEW L, NEW numbers, NEW parts, NEW news,
         Cutting(n, m, n2, m2, L, numbers, parts, news),
         NEW e, NEW x \in Darts(n), Replacing(e, x, numbers, parts),
         Sewn(n2, Len(Q) + 1, m2, F', mE2E', face_edgeIds', edge_values', Boundary_edges')
  PROVE  Surfaced(n2, m2)' /\ Halving(n2)'
  <1>1. /\ n2 \in Nat /\ m2 \in Nat /\ L \in Nat /\ DOMAIN parts = 1 .. L /\ DOMAIN numbers = 1 .. L
        /\ 1 .. n2 = (1 .. n) \union Range(numbers)
        /\ \A k \in 1 .. L : PartRight(m2, news, n, parts[k])
        /\ \A z \in Darts(n) : z[1] \notin Range(numbers) => Id(z) \notin news
    BY DEF Cutting
  <1>2. PICK q1, lq, s : q1 = Q /\ lq = Len(Q) /\ s = Q[Start(x)]
    OBVIOUS
  <1>3. /\ q1 \in Seq(0 .. 11) /\ lq \in Nat /\ s \in 0 .. 11 /\ Q' = Append(q1, s)
    <2>1. Start(x) \in 1 .. Len(Q)
      <3>1. F \in [1 .. n -> [Corner -> 1 .. Len(Q)]]
        BY DEF Surfaced, Sewn, Tables
      <3> QED
        BY <3>1 DEF Start, Darts
    <2>2. Q \in Seq(0 .. 11) /\ Q' = Append(Q, Q[Start(x)])
      BY DEF Surfaced, Replacing
    <2> QED
      BY <1>2, <2>1, <2>2
  <1>4. Q' \in Seq(0 .. 11) /\ Len(Q') = lq + 1
    BY <1>2, <1>3
  <1>5. Rediffed(m2, (1 .. m) \ news, parts, edge_diff')
    BY EdgesRewritten
  <1>6. /\ Domains(n2)
        /\ \A k \in 1 .. L : Became(k, numbers, parts)
        /\ \A f \in (1 .. n) \ Range(numbers) : Stayed(f)
    BY FacesRewritten
  <1>7. ASSUME NEW k \in 1 .. L
        PROVE  LET f == numbers[k] IN
               /\ face_edgeOrients'[f] \in [Corner -> 0 .. 3] /\ face_spaces'[f] \in Spaces
               /\ Framed(Q', F'[f], face_spaces'[f], face_edgeOrients'[f])
               /\ \A j \in Corner : /\ diffs'[<<f, j>>] \in Vec
                                    /\ Turned1(edge_diff', face_edgeIds', face_edgeOrients', diffs', <<f, j>>)
    <2>1. PICK f, p, fixed, d2 : f = numbers[k] /\ p = parts[k] /\ d2 = edge_diff' /\ fixed = FixOrient(p, d2)
      OBVIOUS
    <2>2. /\ p.space \in Spaces /\ Low(p.v, lq) /\ p.ids \in [Corner -> 1 .. m2]
          /\ p.diff \in [Corner -> Vec]
      BY <2>1, <1>1, <1>2 DEF PartRight
    <2>3. \A j \in Corner : d2[p.ids[j]] \in Vec /\ Turnable(d2[p.ids[j]], p.diff[j])
      BY <2>1, <2>2, <1>1, <1>5 DEF Rediffed
    <2>4. Seen(p)
      BY <1>2, <1>3, <2>2, PartSeen
    <2>5. /\ fixed.orients \in [Corner -> 0 .. 3] /\ fixed.space \in Spaces
          /\ \A j \in Corner : rshift90(d2[p.ids[j]], fixed.orients[j]) = p.diff[j]
          /\ Framed(Q, p.v, fixed.space, fixed.orients)
      BY ONLY <2>1, <2>2, <2>3, <2>4, FixOrientFacts
    <2>6. /\ F'[f] = p.v /\ face_edgeIds'[f] = p.ids
          /\ face_edgeOrients'[f] = fixed.orients /\ face_spaces'[f] = fixed.space
          /\ \A j \in Corner : diffs'[<<f, j>>] = p.diff[j]
      BY <1>6, <2>1 DEF Became
    <2>7. PICK q2, v, sp, os : q2 = Q' /\ v = p.v /\ sp = fixed.space /\ os = fixed.orients
      OBVIOUS
    <2>8. Framed(q2, v, sp, os)
      <3>1. q2 = Append(q1, s) /\ Low(v, Len(q1)) /\ Framed(q1, v, sp, os)
        BY <1>2, <1>3, <2>2, <2>5, <2>7
      <3> QED
        BY ONLY <1>3, <3>1, FramesGrow
    <2>9. ASSUME NEW j \in Corner
          PROVE  /\ diffs'[<<f, j>>] \in Vec
                 /\ Turned1(edge_diff', face_edgeIds', face_edgeOrients', diffs', <<f, j>>)
      BY <2>1, <2>2, <2>5, <2>6 DEF Turned1
    <2> QED
      BY <2>1, <2>5, <2>6, <2>7, <2>8, <2>9
  <1>8. ASSUME NEW f \in (1 .. n) \ Range(numbers)
        PROVE  /\ face_edgeOrients'[f] \in [Corner -> 0 .. 3] /\ face_spaces'[f] \in Spaces
               /\ Framed(Q', F'[f], face_spaces'[f], face_edgeOrients'[f])
               /\ \A j \in Corner : /\ diffs'[<<f, j>>] \in Vec
                                    /\ Turned1(edge_diff', face_edgeIds', face_edgeOrients', diffs', <<f, j>>)
    <2>1. Stayed(f)
      BY <1>6
    <2>2. PICK q2, v, sp, os : q2 = Q' /\ v = F[f] /\ sp = face_spaces[f] /\ os = face_edgeOrients[f]
      OBVIOUS
    <2>3. /\ F'[f] = v /\ face_edgeIds'[f] = face_edgeIds[f]
          /\ face_edgeOrients'[f] = os /\ face_spaces'[f] = sp
          /\ \A j \in Corner : diffs'[<<f, j>>] = diffs[<<f, j>>]
      BY <2>1, <2>2 DEF Stayed
    <2>4. /\ os \in [Corner -> 0 .. 3] /\ sp \in Spaces /\ v \in [Corner -> 1 .. lq]
          /\ Framed(q1, v, sp, os)
      BY <2>2, <1>2 DEF Surfaced, Halving, Sewn, Tables
    <2>5. Low(v, Len(q1))
      <3>1. ASSUME NEW j \in Corner
            PROVE  v[j] \in 1 .. lq /\ v[(j % 3) + 1] \in 1 .. lq
        <4>1. (j % 3) + 1 \in Corner
          BY DEF Corner
        <4> QED
          BY <4>1, <2>4
      <3> QED
        BY <3>1, <1>2 DEF Low
    <2>6. Framed(q2, v, sp, os)
      <3>1. q2 = Append(q1, s)
        BY <1>3, <2>2
      <3> QED
        BY ONLY <1>3, <2>4, <2>5, <3>1, FramesGrow
    <2>7. ASSUME NEW j \in Corner
          PROVE  /\ diffs'[<<f, j>>] \in Vec
                 /\ Turned1(edge_diff', face_edgeIds', face_edgeOrients', diffs', <<f, j>>)
      <3>0. <<f, j>> \in Darts(n)
        BY DEF Darts
      <3>1. PICK z \in Darts(n) : z = <<f, j>> /\ z[1] = f /\ z[2] = j
        BY <3>0
      <3>2. diffs[z] \in Vec /\ rshift90(edge_diff[face_edgeIds[f][j]], face_edgeOrients[f][j]) = diffs[z]
        BY <3>1 DEF Halving, Turned1
      <3>3. face_edgeIds[f][j] \in (1 .. m) \ news
        <4>1. Id(z) \notin news /\ Id(z) = face_edgeIds[f][j]
          BY <3>1, <1>1 DEF Id
        <4>2. face_edgeIds[f][j] \in 1 .. m
          BY DEF Surfaced, Sewn, Tables
        <4> QED
          BY <4>1, <4>2
      <3>4. edge_diff'[face_edgeIds[f][j]] = edge_diff[face_edgeIds[f][j]]
        BY <3>3, <1>5 DEF Rediffed
      <3> QED
        BY <2>2, <2>3, <3>1, <3>2, <3>4 DEF Turned1
    <2> QED
      BY <2>2, <2>3, <2>4, <2>6, <2>7
  <1>9. ASSUME NEW f \in 1 .. n2
        PROVE  /\ face_edgeOrients'[f] \in [Corner -> 0 .. 3] /\ face_spaces'[f] \in Spaces
               /\ Framed(Q', F'[f], face_spaces'[f], face_edgeOrients'[f])
               /\ \A j \in Corner : /\ diffs'[<<f, j>>] \in Vec
                                    /\ Turned1(edge_diff', face_edgeIds', face_edgeOrients', diffs', <<f, j>>)
    <2>1. CASE f \in Range(numbers)
      <3>1. PICK k \in 1 .. L : f = numbers[k]
        BY <2>1, <1>1, RangeFacts
      <3> QED
        BY <3>1, <1>7
    <2>2. CASE f \notin Range(numbers)
      BY <2>2, <1>1, <1>8
    <2> QED
      BY <2>1, <2>2
  <1>10. /\ face_edgeOrients' \in [1 .. n2 -> [Corner -> 0 .. 3]]
         /\ face_spaces' \in [1 .. n2 -> Spaces]
    BY <1>6, <1>9 DEF Domains
  <1>11. ASSUME NEW z \in Darts(n2)
         PROVE  /\ diffs'[z] \in Vec
                /\ Turned1(edge_diff', face_edgeIds', face_edgeOrients', diffs', z)
    <2>1. z[1] \in 1 .. n2 /\ z[2] \in Corner /\ z = <<z[1], z[2]>>
      BY DEF Darts
    <2> QED
      BY <2>1, <1>9
  <1>12. diffs' \in [Darts(n2) -> Vec]
    BY <1>6, <1>11 DEF Domains
  <1>13. ASSUME NEW g \in DOMAIN queue'
         PROVE  g.id \in Darts(n2)
    <2>1. g \in DOMAIN queue \/ g.id \in Range(numbers) \X Corner
      BY DEF Replacing
    <2>2. Darts(n) \subseteq Darts(n2) /\ Range(numbers) \X Corner \subseteq Darts(n2)
      BY <1>1 DEF Darts
    <2> QED
      BY <2>1, <2>2 DEF Halving
  <1>14. Surfaced(n2, m2)'
    <2>1. edge_diff' \in [1 .. m2 -> Vec]
      BY <1>5 DEF Rediffed
    <2>2. Sewn(n2, Len(Q'), m2, F', mE2E', face_edgeIds', edge_values', Boundary_edges')
      BY <1>2, <1>4
    <2> QED
      BY <1>1, <1>4, <1>10, <2>1, <2>2 DEF Surfaced
  <1>15. Halving(n2)'
    BY <1>9, <1>10, <1>11, <1>12, <1>13 DEF Halving
  <1> QED
    BY <1>14, <1>15

-----------------------------------------------------------------------------
(***************************************************************************)
(* The parts of a face.                                                    *)
(***************************************************************************)
(* A part has the old edge u in the middle.                                  *)
PartShape(p, u, w, i1, i3, c1, c3, d1, d3) ==
  /\ p.v = <<w, StartIn(F, u), EndIn(F, u)>>
  /\ p.ids = <<i1, Id(u), i3>> /\ p.diff = <<c1, diffs[u], c3>>
  /\ p.space = [orient |-> face_spaces[u[1]].orient, d |-> <<d1, D(u), d3>>,
                q |-> face_spaces[u[1]].q]

LEMMA TripleTyped ==
  ASSUME NEW S, NEW a \in S, NEW b \in S, NEW c \in S
  PROVE  <<a, b, c>> \in [Corner -> S]
  BY DEF Corner

LEMMA DartTables ==
  ASSUME NEW n, NEW m, Surfaced(n, m), Halving(n), NEW u \in Darts(n)
  PROVE  /\ n \in Nat /\ m \in Nat /\ Len(Q) \in Nat /\ u[1] \in 1 .. n /\ u[2] \in Corner
         /\ StartIn(F, u) \in 1 .. Len(Q) /\ EndIn(F, u) \in 1 .. Len(Q) /\ Id(u) \in 1 .. m
         /\ diffs[u] \in Vec /\ D(u) \in -3 .. 3 /\ face_spaces[u[1]] \in Spaces
         /\ StartIn(F, u) = Start(u) /\ Num(face_edgeIds, u) = Id(u)
         /\ Tables(n, Len(Q), m, F, mE2E, face_edgeIds, edge_values)
  <1>1. Tables(n, Len(Q), m, F, mE2E, face_edgeIds, edge_values) /\ n \in Nat /\ m \in Nat
    BY DEF Surfaced, Sewn
  <1>2. u[1] \in 1 .. n /\ u[2] \in Corner /\ (u[2] % 3) + 1 \in Corner
    BY DEF Darts, Corner
  <1>3. StartIn(F, u) \in 1 .. Len(Q) /\ EndIn(F, u) \in 1 .. Len(Q) /\ Id(u) \in 1 .. m
    BY <1>1, <1>2 DEF Tables, StartIn, EndIn, Id
  <1>4. diffs[u] \in Vec /\ face_spaces[u[1]] \in Spaces
    BY <1>2 DEF Halving
  <1>5. D(u) \in -3 .. 3
    BY <1>2, <1>4 DEF D, Spaces
  <1>6. StartIn(F, u) = Start(u) /\ Num(face_edgeIds, u) = Id(u)
    BY DEF StartIn, Start, Num, Id
  <1>7. Len(Q) \in Nat
    BY DEF Surfaced
  <1> QED
    BY <1>1, <1>2, <1>3, <1>4, <1>5, <1>6, <1>7

LEMMA ShapeRight ==
  ASSUME NEW n, NEW m, Surfaced(n, m), Halving(n), NEW u \in Darts(n),
         NEW m2 \in Nat, NEW news, news \subseteq 1 .. m2, 1 .. m \subseteq 1 .. m2, Id(u) \notin news,
         NEW p, NEW w, w = Len(Q) + 1, NEW i1 \in news, NEW i3 \in news,
         NEW c1 \in Vec, NEW c3 \in Vec, NEW d1 \in -3 .. 3, NEW d3 \in -3 .. 3,
         PartShape(p, u, w, i1, i3, c1, c3, d1, d3)
  PROVE  PartRight(m2, news, n, p) /\ p.v \in [Corner -> 1 .. Len(Q) + 1]
  <1>1. /\ u[1] \in 1 .. n /\ u[2] \in Corner /\ Len(Q) \in Nat
        /\ StartIn(F, u) \in 1 .. Len(Q) /\ EndIn(F, u) \in 1 .. Len(Q) /\ Id(u) \in 1 .. m
        /\ diffs[u] \in Vec /\ D(u) \in -3 .. 3 /\ face_spaces[u[1]] \in Spaces
    BY DartTables
  <1>2. PICK h, t, lq : h = StartIn(F, u) /\ t = EndIn(F, u) /\ lq = Len(Q)
    OBVIOUS
  <1>3. p.v = <<w, h, t>> /\ p.ids = <<i1, Id(u), i3>> /\ p.diff = <<c1, diffs[u], c3>>
    BY <1>2 DEF PartShape
  <1>4. PICK sp, dd : sp = p.space /\ dd = <<d1, D(u), d3>>
    OBVIOUS
  <1>5. sp = [orient |-> face_spaces[u[1]].orient, d |-> dd, q |-> face_spaces[u[1]].q]
    BY <1>4 DEF PartShape
  <1>6. dd \in [Corner -> -3 .. 3] /\ dd[2] = D(u)
    BY <1>1, <1>4, TripleTyped
  <1>7. face_spaces[u[1]].orient \in 0 .. 3 /\ face_spaces[u[1]].q \in 0 .. 11
    BY <1>1 DEF Spaces
  <1>8. sp \in Spaces
    BY <1>5, <1>6, <1>7 DEF Spaces
  <1>9. /\ h \in 1 .. lq /\ t \in 1 .. lq /\ lq \in Nat /\ w = lq + 1
        /\ h \in 1 .. (lq + 1) /\ t \in 1 .. (lq + 1) /\ w \in 1 .. (lq + 1)
    BY <1>1, <1>2
  <1>10. p.v \in [Corner -> 1 .. (lq + 1)]
    <2>1. PICK S : S = 1 .. (lq + 1)
      OBVIOUS
    <2>2. w \in S /\ h \in S /\ t \in S
      BY <1>9, <2>1
    <2>3. <<w, h, t>> \in [Corner -> S]
      BY ONLY <2>2, TripleTyped
    <2> QED
      BY <2>1, <2>3, <1>3
  <1>11. Low(p.v, lq)
    <2>1. ASSUME NEW j \in Corner
          PROVE  /\ p.v[j] \in Int /\ p.v[(j % 3) + 1] \in Int
                 /\ p.v[j] <= p.v[(j % 3) + 1] => p.v[j] \in 1 .. lq
                 /\ p.v[j] > p.v[(j % 3) + 1] => p.v[(j % 3) + 1] \in 1 .. lq
      <3>1. /\ j = 1 => p.v[j] = w /\ p.v[(j % 3) + 1] = h
            /\ j = 2 => p.v[j] = h /\ p.v[(j % 3) + 1] = t
            /\ j = 3 => p.v[j] = t /\ p.v[(j % 3) + 1] = w
        BY <1>3
      <3>2. j = 1 \/ j = 2 \/ j = 3
        BY DEF Corner
      <3>3. PICK a, b : a = p.v[j] /\ b = p.v[(j % 3) + 1]
        OBVIOUS
      <3>4. \/ a = w /\ b = h
            \/ a = h /\ b = t
            \/ a = t /\ b = w
        BY <3>1, <3>2, <3>3
      <3>5. a \in Int /\ b \in Int /\ (a <= b => a \in 1 .. lq) /\ (a > b => b \in 1 .. lq)
        BY ONLY <3>4, <1>9
      <3> QED
        BY <3>3, <3>5
    <2> QED
      BY <2>1 DEF Low
  <1>12. p.ids \in [Corner -> 1 .. m2]
    <2>1. PICK S, c : S = 1 .. m2 /\ c = Id(u)
      OBVIOUS
    <2>2. i1 \in S /\ c \in S /\ i3 \in S
      BY <1>1, <2>1
    <2>3. <<i1, c, i3>> \in [Corner -> S]
      BY ONLY <2>2, TripleTyped
    <2> QED
      BY <2>1, <2>3, <1>3
  <1>13. p.diff \in [Corner -> Vec]
    BY <1>1, <1>3, TripleTyped
  <1>14. OldEdge(p, 2, u)
    <2>1. p.ids[2] = Id(u) /\ p.diff[2] = diffs[u] /\ p.v[2] = h /\ p.v[3] = t
      BY <1>3
    <2>2. AnalyzeOrient(p)[2] = Analyzed(Q, h, t, sp.orient, sp.d[2], sp.q)
      <3>1. 2 \in Corner /\ (2 % 3) + 1 = 3
        BY DEF Corner
      <3> QED
        BY <3>1, <2>1, <1>4, AnalyzedIs
    <2>3. Framed(Q, F[u[1]], face_spaces[u[1]], face_edgeOrients[u[1]])
      BY <1>1 DEF Halving
    <2>4. face_edgeOrients[u[1]][u[2]]
            = Analyzed(Q, h, t, face_spaces[u[1]].orient, D(u), face_spaces[u[1]].q)
      BY <2>3, <1>1, <1>2 DEF Framed, StartIn, EndIn, D
    <2> QED
      BY <2>1, <2>2, <2>4, <1>5, <1>6 DEF OldEdge
  <1>15. ASSUME NEW j \in Corner
         PROVE  p.ids[j] \in news \/ \E z \in Darts(n) : Id(z) \notin news /\ OldEdge(p, j, z)
    <2>1. j = 1 \/ j = 2 \/ j = 3
      BY DEF Corner
    <2>2. p.ids[1] = i1 /\ p.ids[3] = i3
      BY <1>3
    <2> QED
      BY <2>1, <2>2, <1>14
  <1> QED
    BY <1>2, <1>4, <1>8, <1>10, <1>11, <1>12, <1>13, <1>15 DEF PartRight

(* The two parts of the face of x.                                           *)
TwoParts(x, p, q, w, half1, half2, inner, h, across, side) ==
  /\ p = Behind(x, w, half1, inner, h, across, side)
  /\ q = Ahead(x, w, half2, inner, h, across, side)

LEMMA PartsShaped ==
  ASSUME NEW n, NEW m, Surfaced(n, m), Halving(n), NEW x \in Darts(n),
         NEW p, NEW q, NEW w, NEW h1, NEW h2, NEW i, NEW h, NEW across, NEW side,
         TwoParts(x, p, q, w, h1, h2, i, h, across, side)
  PROVE  /\ PartShape(p, Prev3(x), w, i, h1, across, h, 0, D(x))
         /\ PartShape(q, Next3(x), w, h2, i, Minus(diffs[x], h), Minus(Zero, across), D(x), 0)
         /\ p.flag = <<FALSE, Prev3(x) \in Boundary_edges, side>>
         /\ q.flag = <<side, Next3(x) \in Boundary_edges, FALSE>>
  <1>1. PICK r, s : r = Prev3(x) /\ s = Next3(x)
    OBVIOUS
  <1>2. PICK sp : sp = face_spaces[x[1]]
    OBVIOUS
  <1>3. n \in Nat /\ sp \in Spaces
    BY <1>2, DartTables
  <1>4. /\ r[1] = x[1] /\ s[1] = x[1]
        /\ EndIn(F, r) = StartIn(F, x) /\ EndIn(F, s) = StartIn(F, r)
    BY <1>1, <1>3, FaceDarts
  <1>5. sp = [orient |-> sp.orient, d |-> sp.d, q |-> sp.q]
    BY <1>3 DEF Spaces
  <1>6. \A d : InSpace(x, d) = [orient |-> sp.orient, d |-> d, q |-> sp.q]
    BY <1>2, <1>5 DEF InSpace
  <1>7. /\ p.v = <<w, Start(r), Start(x)>> /\ p.ids = <<i, Id(r), h1>>
        /\ p.diff = <<across, diffs[r], h>> /\ p.flag = <<FALSE, r \in Boundary_edges, side>>
        /\ p.space = InSpace(x, <<0, D(r), D(x)>>)
    BY <1>1 DEF TwoParts, Behind
  <1>8. /\ q.v = <<w, Start(s), Start(r)>> /\ q.ids = <<h2, Id(s), i>>
        /\ q.diff = <<Minus(diffs[x], h), diffs[s], Minus(Zero, across)>>
        /\ q.flag = <<side, s \in Boundary_edges, FALSE>>
        /\ q.space = InSpace(x, <<D(x), D(s), 0>>)
    BY <1>1 DEF TwoParts, Ahead
  <1>9. \A z : Start(z) = StartIn(F, z)
    BY DEF Start, StartIn
  <1>10. PartShape(p, r, w, i, h1, across, h, 0, D(x))
    BY <1>2, <1>4, <1>6, <1>7, <1>9 DEF PartShape
  <1>11. PartShape(q, s, w, h2, i, Minus(diffs[x], h), Minus(Zero, across), D(x), 0)
    BY <1>2, <1>4, <1>6, <1>8, <1>9 DEF PartShape
  <1> QED
    BY <1>1, <1>7, <1>8, <1>10, <1>11

LEMMA PartsRight ==
  ASSUME NEW n, NEW m, Surfaced(n, m), Halving(n), NEW x \in Darts(n),
         NEW m2 \in Nat, NEW news, news \subseteq 1 .. m2, 1 .. m \subseteq 1 .. m2,
         Id(Prev3(x)) \notin news, Id(Next3(x)) \notin news,
         NEW p, NEW q, NEW w, w = Len(Q) + 1, NEW h1 \in news, NEW h2 \in news, NEW i \in news,
         NEW h \in Vec, NEW across \in Vec, NEW side,
         TwoParts(x, p, q, w, h1, h2, i, h, across, side)
  PROVE  /\ PartRight(m2, news, n, p) /\ PartRight(m2, news, n, q)
         /\ p.v \in [Corner -> 1 .. Len(Q) + 1] /\ q.v \in [Corner -> 1 .. Len(Q) + 1]
  <1>1. PICK r, s : r = Prev3(x) /\ s = Next3(x)
    OBVIOUS
  <1>2. n \in Nat /\ diffs[x] \in Vec /\ D(x) \in -3 .. 3 /\ 0 \in -3 .. 3
    BY DartTables
  <1>3. r \in Darts(n) /\ s \in Darts(n)
    BY <1>1, <1>2, FaceDarts
  <1>4. PICK c1, c3, d : c1 = Minus(diffs[x], h) /\ c3 = Minus(Zero, across) /\ d = D(x)
    OBVIOUS
  <1>5. c1 \in Vec /\ c3 \in Vec
    BY <1>2, <1>4, VecFacts
  <1>6. /\ PartShape(p, r, w, i, h1, across, h, 0, d)
        /\ PartShape(q, s, w, h2, i, c1, c3, d, 0)
    BY <1>1, <1>4, PartsShaped
  <1>7. PartRight(m2, news, n, p) /\ p.v \in [Corner -> 1 .. Len(Q) + 1]
    BY <1>1, <1>2, <1>3, <1>4, <1>6, ShapeRight
  <1>8. PartRight(m2, news, n, q) /\ q.v \in [Corner -> 1 .. Len(Q) + 1]
    BY <1>1, <1>2, <1>3, <1>4, <1>5, <1>6, ShapeRight
  <1> QED
    BY <1>7, <1>8

LEMMA Sizes ==
  ASSUME NEW n, NEW m, Surfaced(n, m)
  PROVE  /\ Cardinality(DOMAIN F) = n /\ Cardinality(DOMAIN edge_diff) = m
         /\ Cardinality(DOMAIN Q) = Len(Q)
  <1>1. /\ n \in Nat /\ m \in Nat /\ Len(Q) \in Nat /\ DOMAIN Q = 1 .. Len(Q)
        /\ DOMAIN F = 1 .. n /\ DOMAIN edge_diff = 1 .. m
    BY DEF Surfaced, Sewn, Tables
  <1>2. ASSUME NEW k \in Nat PROVE Cardinality(1 .. k) = k
    <2>1. 1 \in Int /\ k \in Int
      OBVIOUS
    <2>2. Cardinality(1 .. k) = IF 1 > k THEN 0 ELSE k - 1 + 1
      BY <2>1, FS_Interval
    <2> QED
      BY <2>2
  <1> QED
    BY <1>1, <1>2

(* The side of x after a replacement by its parts p and q.                   *)
LEMMA SideRewritten ==
  ASSUME NEW n, NEW m, Surfaced(n, m), Halving(n), NEW x \in Darts(n),
         NEW p, NEW q, NEW w, NEW h1, NEW h2, NEW i, NEW h, NEW across, NEW side,
         TwoParts(x, p, q, w, h1, h2, i, h, across, side),
         NEW numbers, NEW parts, NEW k, NEW l, NEW b, NEW a,
         numbers[k] = b, parts[k] = p, numbers[l] = a, parts[l] = q,
         Became(k, numbers, parts), Became(l, numbers, parts)
  PROVE  CutSide(F, face_edgeIds, Boundary_edges, x, b, a, w, h1, h2, i, side,
                 F', face_edgeIds', Boundary_edges')
  <1>1. PICK r, s : r = Prev3(x) /\ s = Next3(x)
    OBVIOUS
  <1>2. /\ F'[b] = p.v /\ face_edgeIds'[b] = p.ids
        /\ \A j \in Corner : <<b, j>> \in Boundary_edges' <=> p.flag[j]
    BY DEF Became
  <1>3. /\ F'[a] = q.v /\ face_edgeIds'[a] = q.ids
        /\ \A j \in Corner : <<a, j>> \in Boundary_edges' <=> q.flag[j]
    BY DEF Became
  <1>4. \A z : Start(z) = StartIn(F, z) /\ Id(z) = Num(face_edgeIds, z)
    BY DEF Start, StartIn, Id, Num
  <1>5. /\ p.v = <<w, Start(r), Start(x)>> /\ p.ids = <<i, Id(r), h1>>
        /\ p.flag = <<FALSE, r \in Boundary_edges, side>>
    BY ONLY <1>1, TwoParts(x, p, q, w, h1, h2, i, h, across, side) DEF TwoParts, Behind
  <1>6. /\ q.v = <<w, Start(s), Start(r)>> /\ q.ids = <<h2, Id(s), i>>
        /\ q.flag = <<side, s \in Boundary_edges, FALSE>>
    BY ONLY <1>1, TwoParts(x, p, q, w, h1, h2, i, h, across, side) DEF TwoParts, Ahead
  <1>7. 1 \in Corner /\ 2 \in Corner /\ 3 \in Corner
    BY DEF Corner
  <1>8. /\ <<b, 1>> \notin Boundary_edges' /\ (<<b, 2>> \in Boundary_edges' <=> r \in Boundary_edges)
        /\ <<b, 3>> \in Boundary_edges' <=> side
    <2>1. p.flag[1] = FALSE /\ p.flag[2] = (r \in Boundary_edges) /\ p.flag[3] = side
      BY ONLY <1>5
    <2> QED
      BY ONLY <2>1, <1>2, <1>7, Zenon
  <1>9. /\ <<a, 1>> \in Boundary_edges' <=> side
        /\ (<<a, 2>> \in Boundary_edges' <=> s \in Boundary_edges) /\ <<a, 3>> \notin Boundary_edges'
    <2>1. q.flag[3] = FALSE /\ q.flag[2] = (s \in Boundary_edges) /\ q.flag[1] = side
      BY ONLY <1>6
    <2> QED
      BY ONLY <2>1, <1>3, <1>7, Zenon
  <1> QED
    BY <1>1, <1>2, <1>3, <1>4, <1>5, <1>6, <1>8, <1>9 DEF CutSide

(* The ends of a new edge are those it has in a part.                        *)
NewEnds(d, L, parts) ==
  \E k \in 1 .. L, j \in Corner :
    /\ parts[k].ids[j] = d
    /\ edge_values'[d] = {parts[k].v[j], parts[k].v[(j % 3) + 1]}

LEMMA EndsRewritten ==
  ASSUME NEW n, NEW m, Surfaced(n, m), Halving(n),
         NEW n2, NEW m2, NEW L, NEW numbers, NEW parts, NEW news,
         Cutting(n, m, n2, m2, L, numbers, parts, news),
         NEW e, NEW x \in Darts(n), Replacing(e, x, numbers, parts)
  PROVE  /\ EndsHalved(m, m2, edge_values, edge_values', Id(x), Start(x), Len(Q) + 1)
         /\ \A d \in (1 .. m2) \ (1 .. m) : NewEnds(d, L, parts)
  <1>1. PICK R : R = Range(numbers)
    OBVIOUS
  <1>2. /\ DOMAIN numbers = 1 .. L /\ DOMAIN parts = 1 .. L /\ Apart(numbers, parts)
        /\ 1 .. m2 = (1 .. m) \union news
    BY DEF Cutting
  <1>3. Touched(parts) \subseteq 1 .. m2 /\ news \subseteq Touched(parts)
    BY TouchedIs
  <1>4. DOMAIN edge_values = 1 .. m /\ Id(x) \in 1 .. m /\ Cardinality(DOMAIN Q) = Len(Q)
    BY DartTables, Sizes DEF Tables
  <1>5. PICK t, g :
          /\ t = [edge_values EXCEPT ![Id(x)] = {Start(x), Cardinality(DOMAIN Q) + 1}]
          /\ g = [d \in Touched(parts) \ DOMAIN edge_values |->
                    LET z == CHOOSE z \in R \X Corner : PartOf(numbers, parts, z[1]).ids[z[2]] = d
                    IN {PartOf(numbers, parts, z[1]).v[z[2]],
                        PartOf(numbers, parts, z[1]).v[(z[2] % 3) + 1]}]
    OBVIOUS
  <1>6. edge_values' = Updated(t, g)
    BY <1>1, <1>5 DEF Replacing
  <1>7. /\ DOMAIN t = 1 .. m /\ t[Id(x)] = {Start(x), Len(Q) + 1}
        /\ \A d \in 1 .. m : d # Id(x) => t[d] = edge_values[d]
    BY <1>4, <1>5
  <1>8. DOMAIN g = Touched(parts) \ (1 .. m)
    BY <1>4, <1>5
  <1>9. /\ DOMAIN edge_values' = 1 .. m2
        /\ \A d \in 1 .. m : edge_values'[d] = t[d]
        /\ \A d \in DOMAIN g : edge_values'[d] = g[d]
    BY <1>2, <1>3, <1>6, <1>7, <1>8 DEF Updated
  <1>10. ASSUME NEW d \in (1 .. m2) \ (1 .. m)
         PROVE  NewEnds(d, L, parts)
    <2>1. d \in Touched(parts) /\ d \in DOMAIN g
      BY <1>2, <1>3, <1>8
    <2>2. PICK z : z = CHOOSE y \in R \X Corner : PartOf(numbers, parts, y[1]).ids[y[2]] = d
      OBVIOUS
    <2>3. \E y \in R \X Corner : PartOf(numbers, parts, y[1]).ids[y[2]] = d
      <3>1. PICK k \in 1 .. L, j \in Corner : parts[k].ids[j] = d
        BY <1>2 DEF Cutting
      <3>2. PartOf(numbers, parts, numbers[k]) = parts[k] /\ numbers[k] \in R
        BY <1>1, <1>2, PartFound
      <3>3. PICK y : y = <<numbers[k], j>>
        OBVIOUS
      <3>4. y \in R \X Corner /\ y[1] = numbers[k] /\ y[2] = j
        BY <3>2, <3>3
      <3> QED
        BY <3>1, <3>2, <3>4
    <2>4. z \in R \X Corner /\ PartOf(numbers, parts, z[1]).ids[z[2]] = d
      BY <2>2, <2>3
    <2>5. PICK k \in 1 .. L : z[1] = numbers[k]
      <3>1. z[1] \in Range(numbers) /\ DOMAIN numbers = 1 .. L
        BY <2>4, <1>1, <1>2
      <3> QED
        BY ONLY <3>1 DEF Range
    <2>6. PartOf(numbers, parts, z[1]) = parts[k]
      <3>1. PartOf(numbers, parts, numbers[k]) = parts[k]
        BY <1>2, PartFound
      <3> QED
        BY <2>5, <3>1
    <2>7. g[d] = {parts[k].v[z[2]], parts[k].v[(z[2] % 3) + 1]}
      BY <2>1, <2>2, <2>6, <1>5
    <2>8. z[2] \in Corner
      BY <2>4
    <2> QED
      BY <2>1, <2>4, <2>6, <2>7, <2>8, <1>9 DEF NewEnds
  <1>11. EndsHalved(m, m2, edge_values, edge_values', Id(x), Start(x), Len(Q) + 1)
    BY <1>4, <1>7, <1>9 DEF EndsHalved
  <1> QED
    BY <1>10, <1>11

LEMMA TablesRewritten ==
  ASSUME NEW n, NEW m, Surfaced(n, m), Halving(n),
         NEW n2, NEW m2, NEW L, NEW numbers, NEW parts, NEW news,
         Cutting(n, m, n2, m2, L, numbers, parts, news),
         NEW e, NEW x \in Darts(n), Replacing(e, x, numbers, parts),
         \A k \in 1 .. L : parts[k].v \in [Corner -> 1 .. Len(Q) + 1]
  PROVE  /\ F' \in [1 .. n2 -> [Corner -> 1 .. Len(Q) + 1]]
         /\ face_edgeIds' \in [1 .. n2 -> [Corner -> 1 .. m2]]
         /\ \A S : Range(numbers) \intersect (1 .. n) \subseteq S =>
              Kept2(n, F, face_edgeIds, Boundary_edges, F', face_edgeIds', Boundary_edges', S)
  <1>1. /\ Domains(n2)
        /\ \A k \in 1 .. L : Became(k, numbers, parts)
        /\ \A f \in (1 .. n) \ Range(numbers) : Stayed(f)
    BY FacesRewritten
  <1>2. /\ DOMAIN numbers = 1 .. L /\ 1 .. n2 = (1 .. n) \union Range(numbers)
        /\ 1 .. m2 = (1 .. m) \union news
        /\ \A k \in 1 .. L : parts[k].ids \in [Corner -> 1 .. m2]
    BY DEF Cutting, PartRight
  <1>3. /\ F \in [1 .. n -> [Corner -> 1 .. Len(Q)]] /\ Len(Q) \in Nat
        /\ face_edgeIds \in [1 .. n -> [Corner -> 1 .. m]]
    BY DEF Surfaced, Sewn, Tables
  <1>4. ASSUME NEW f \in 1 .. n2
        PROVE  F'[f] \in [Corner -> 1 .. Len(Q) + 1] /\ face_edgeIds'[f] \in [Corner -> 1 .. m2]
    <2>1. CASE f \in Range(numbers)
      <3>1. PICK k \in 1 .. L : f = numbers[k]
        BY <2>1, <1>2, RangeFacts
      <3> QED
        BY <3>1, <1>1, <1>2 DEF Became
    <2>2. CASE f \notin Range(numbers)
      <3>1. f \in 1 .. n /\ F'[f] = F[f] /\ face_edgeIds'[f] = face_edgeIds[f]
        BY <2>2, <1>1, <1>2 DEF Stayed
      <3>2. F[f] \in [Corner -> 1 .. Len(Q)] /\ 1 .. Len(Q) \subseteq 1 .. (Len(Q) + 1)
        BY <3>1, <1>3
      <3>3. face_edgeIds[f] \in [Corner -> 1 .. m] /\ 1 .. m \subseteq 1 .. m2
        BY <3>1, <1>2, <1>3
      <3> QED
        BY <3>1, <3>2, <3>3
    <2> QED
      BY <2>1, <2>2
  <1>5. /\ F' \in [1 .. n2 -> [Corner -> 1 .. Len(Q) + 1]]
        /\ face_edgeIds' \in [1 .. n2 -> [Corner -> 1 .. m2]]
    BY <1>1, <1>4 DEF Domains
  <1>6. ASSUME NEW S, Range(numbers) \intersect (1 .. n) \subseteq S
        PROVE  Kept2(n, F, face_edgeIds, Boundary_edges, F', face_edgeIds', Boundary_edges', S)
    BY <1>1, <1>6 DEF Kept2, Stayed
  <1> QED
    BY <1>5, <1>6

(* All that the parts have at a number are two differences.                  *)
PairedUp(L, parts, news) ==
  \A d \in news : \E a \in Vec, b \in Vec :
    /\ Turnable(a, b)
    /\ \A k \in 1 .. L, j \in Corner : parts[k].ids[j] = d => parts[k].diff[j] \in {a, b}

LEMMA PairsTurn ==
  ASSUME NEW L, NEW parts, NEW news, PairedUp(L, parts, news)
  PROVE  \A k, l \in 1 .. L : \A j, i \in Corner :
           parts[k].ids[j] = parts[l].ids[i] /\ parts[k].ids[j] \in news
             => Turnable(parts[k].diff[j], parts[l].diff[i])
  <1> SUFFICES ASSUME NEW k \in 1 .. L, NEW l \in 1 .. L, NEW j \in Corner, NEW i \in Corner,
                      parts[k].ids[j] = parts[l].ids[i], parts[k].ids[j] \in news
               PROVE  Turnable(parts[k].diff[j], parts[l].diff[i])
    OBVIOUS
  <1>1. PICK d, s, t : d = parts[k].ids[j] /\ s = parts[k].diff[j] /\ t = parts[l].diff[i]
    OBVIOUS
  <1>2. PICK a \in Vec, b \in Vec : Turnable(a, b) /\ s \in {a, b} /\ t \in {a, b}
    BY <1>1 DEF PairedUp
  <1>3. Turnable(b, a) /\ Turnable(a, a) /\ Turnable(b, b)
    BY <1>2, TurnableFacts
  <1> QED
    BY <1>1, <1>2, <1>3

LEMMA HalveAtBoundary ==
  ASSUME NEW n, NEW m, Surfaced(n, m), Halving(n),
         NEW e, NEW x \in Darts(n), mE2E[x] = NoDart,
         NEW cut, cut = AtBoundary(x, Cardinality(DOMAIN Q) + 1),
         Replace(e, x, cut.numbers, cut.parts), mE2E' = cut.opposites
  PROVE  Surfaced(n + 1, m + 2)' /\ Halving(n + 1)'
  <1>1. PICK b, a, w, c, n2, m2, k1 :
          /\ b = x[1] /\ a = n + 1 /\ w = Len(Q) + 1 /\ c = Id(x)
          /\ n2 = n + 1 /\ m2 = m + 2 /\ k1 = m + 1
    OBVIOUS
  <1>2. PICK h, across : /\ h = Half(diffs[x])
                         /\ across = Minus(Plus(diffs[x], diffs[Next3(x)]), h)
    OBVIOUS
  <1>3. PICK p, q : TwoParts(x, p, q, w, c, k1, m2, h, across, x \in Boundary_edges)
    BY DEF TwoParts
  <1>4. PICK numbers, parts : numbers = <<b, a>> /\ parts = <<p, q>>
    OBVIOUS
  <1>5. /\ cut.numbers = numbers /\ cut.parts = parts
        /\ cut.opposites = Linked(x, NoDart, b, a, 0, 0)
    BY <1>1, <1>2, <1>3, <1>4, Sizes DEF AtBoundary, TwoParts
  <1>6. Replacing(e, x, numbers, parts)
    BY <1>5, ReplaceIsReplacing
  <1>7. /\ n \in Nat /\ m \in Nat /\ Len(Q) \in Nat /\ c \in 1 .. m /\ b \in 1 .. n
        /\ diffs[x] \in Vec /\ Tables(n, Len(Q), m, F, mE2E, face_edgeIds, edge_values)
    BY <1>1, DartTables
  <1>8. PICK r, s : r = Prev3(x) /\ s = Next3(x)
    OBVIOUS
  <1>9. r \in Darts(n) /\ s \in Darts(n) /\ r # x /\ s # x
    BY <1>7, <1>8, FaceDarts
  <1>10. h \in Vec /\ across \in Vec
    <2>1. diffs[s] \in Vec
      BY <1>9, DartTables
    <2> QED
      BY <2>1, <1>2, <1>7, <1>8, HalfTyped, VecFacts
  <1>11. PICK news : news = {c, k1, m2}
    OBVIOUS
  <1>12. ASSUME NEW z \in Darts(n), z # x PROVE Id(z) \notin news
    <2>1. z # mE2E[x]
      BY <1>7, TypedDart
    <2>2. Sewn(n, Len(Q), m, F, mE2E, face_edgeIds, edge_values, Boundary_edges)
      BY DEF Surfaced
    <2>3. Num(face_edgeIds, z) # Num(face_edgeIds, x) /\ Num(face_edgeIds, z) \in 1 .. m
      BY <2>1, <2>2, <1>12, NumberKept
    <2>4. Id(z) # c /\ Id(z) \in 1 .. m
      BY <2>3, <1>1 DEF Num, Id
    <2> QED
      BY <2>4, <1>1, <1>7, <1>11
  <1>13. /\ n2 \in Nat /\ m2 \in Nat /\ k1 \in Nat /\ c # k1 /\ c # m2 /\ k1 # m2 /\ a # b /\ a \notin 1 .. n
         /\ 1 .. m2 = (1 .. m) \union news /\ 1 .. n2 = (1 .. n) \union {b, a}
         /\ c \in news /\ k1 \in news /\ m2 \in news
    <2>1. n2 = n + 1 /\ m2 = m + 2 /\ k1 = m + 1 /\ a = n + 1
      BY <1>1
    <2>2. n \in Nat /\ m \in Nat /\ b \in 1 .. n /\ c \in 1 .. m
      BY <1>1, <1>7
    <2> QED
      BY ONLY <2>1, <2>2, <1>11
  <1>14. /\ PartRight(m2, news, n, p) /\ PartRight(m2, news, n, q)
         /\ p.v \in [Corner -> 1 .. Len(Q) + 1] /\ q.v \in [Corner -> 1 .. Len(Q) + 1]
    <2>1. Id(Prev3(x)) \notin news /\ Id(Next3(x)) \notin news
      BY <1>8, <1>9, <1>12
    <2>2. news \subseteq 1 .. m2 /\ 1 .. m \subseteq 1 .. m2
      BY <1>13
    <2>3. PICK side : TwoParts(x, p, q, w, c, k1, m2, h, across, side)
      BY <1>3
    <2>4. w = Len(Q) + 1
      BY <1>1
    <2> QED
      <3>1. Surfaced(n, m) /\ Halving(n) /\ x \in Darts(n)
        OBVIOUS
      <3>2. m2 \in Nat /\ c \in news /\ k1 \in news /\ m2 \in news
        BY <1>13
      <3> QED
        BY ONLY <3>1, <3>2, <2>1, <2>2, <2>3, <2>4, <1>10, PartsRight
  <1>15. /\ DOMAIN numbers = 1 .. 2 /\ DOMAIN parts = 1 .. 2 /\ Range(numbers) = {b, a}
         /\ numbers[1] = b /\ numbers[2] = a /\ parts[1] = p /\ parts[2] = q
    BY <1>4 DEF Range
  <1>16. Apart(numbers, parts)
    BY <1>13, <1>15 DEF Apart
  <1>17. /\ p.ids = <<m2, Id(r), c>> /\ q.ids = <<k1, Id(s), m2>>
         /\ p.diff = <<across, diffs[r], h>>
         /\ q.diff = <<Minus(diffs[x], h), diffs[s], Minus(Zero, across)>>
         /\ p.v = <<w, Start(r), Start(x)>> /\ q.v = <<w, Start(s), Start(r)>>
    BY ONLY <1>3, <1>8 DEF TwoParts, Behind, Ahead
  <1>18. Id(r) \notin news /\ Id(s) \notin news
    BY <1>9, <1>12
  <1>19. ASSUME NEW k \in 1 .. 2, NEW j \in Corner, NEW d \in news, parts[k].ids[j] = d
         PROVE  \/ d = c /\ parts[k] = p /\ j = 3
                \/ d = k1 /\ parts[k] = q /\ j = 1
                \/ d = m2 /\ parts[k] = p /\ j = 1
                \/ d = m2 /\ parts[k] = q /\ j = 3
    <2>1. j = 1 \/ j = 2 \/ j = 3
      BY DEF Corner
    <2>2. k = 1 \/ k = 2
      OBVIOUS
    <2>3. CASE k = 1
      <3>1. p.ids[j] = d /\ p.ids[1] = m2 /\ p.ids[2] = Id(r) /\ p.ids[3] = c
        BY <2>3, <1>15, <1>17, <1>19
      <3> QED
        BY <2>1, <2>3, <3>1, <1>15, <1>18
    <2>4. CASE k = 2
      <3>1. q.ids[j] = d /\ q.ids[1] = k1 /\ q.ids[2] = Id(s) /\ q.ids[3] = m2
        BY <2>4, <1>15, <1>17, <1>19
      <3> QED
        BY <2>1, <2>4, <3>1, <1>15, <1>18
    <2> QED
      BY <2>2, <2>3, <2>4
  <1>20. PairedUp(2, parts, news)
    <2> SUFFICES ASSUME NEW d \in news
                 PROVE  \E g \in Vec, f \in Vec :
                          /\ Turnable(g, f)
                          /\ \A k \in 1 .. 2, j \in Corner :
                               parts[k].ids[j] = d => parts[k].diff[j] \in {g, f}
      BY DEF PairedUp
    <2>1. PICK g, f : g = Minus(diffs[x], h) /\ f = Minus(Zero, across)
      OBVIOUS
    <2>2. g \in Vec /\ f \in Vec /\ Turnable(across, f) /\ Turnable(g, g) /\ Turnable(h, h)
      BY <2>1, <1>7, <1>10, VecFacts, TurnableFacts
    <2>3. p.diff[1] = across /\ p.diff[3] = h /\ q.diff[1] = g /\ q.diff[3] = f
      BY <2>1, <1>17
    <2>4. CASE d = c
      BY <2>2, <2>3, <2>4, <1>10, <1>13, <1>19
    <2>5. CASE d = k1
      BY <2>2, <2>3, <2>5, <1>10, <1>13, <1>19
    <2>6. CASE d = m2
      BY <2>2, <2>3, <2>6, <1>10, <1>13, <1>19
    <2> QED
      BY <2>4, <2>5, <2>6, <1>11
  <1>21. Cutting(n, m, n2, m2, 2, numbers, parts, news)
    <2>1. \A d \in news : \E k \in 1 .. 2, j \in Corner : parts[k].ids[j] = d
      <3>1. parts[1].ids[3] = c /\ parts[2].ids[1] = k1 /\ parts[1].ids[1] = m2
        BY <1>15, <1>17
      <3>2. 1 \in 1 .. 2 /\ 2 \in 1 .. 2 /\ 1 \in Corner /\ 3 \in Corner
        BY DEF Corner
      <3> QED
        BY <3>1, <3>2, <1>11
    <2>2. \A k \in 1 .. 2 : PartRight(m2, news, n, parts[k])
      BY <1>14, <1>15
    <2>3. \A k, l \in 1 .. 2 : \A j, i \in Corner :
            parts[k].ids[j] = parts[l].ids[i] /\ parts[k].ids[j] \in news
              => Turnable(parts[k].diff[j], parts[l].diff[i])
      BY <1>20, PairsTurn
    <2>4. \A z \in Darts(n) : z[1] \notin Range(numbers) => Id(z) \notin news
      BY <1>1, <1>12, <1>15
    <2> QED
      BY <2>1, <2>2, <2>3, <2>4, <1>13, <1>15, <1>16 DEF Cutting
  <1>22. \A k \in 1 .. 2 : Became(k, numbers, parts)
    BY <1>6, <1>21, FacesRewritten
  <1>23. /\ F' \in [1 .. n2 -> [Corner -> 1 .. Len(Q) + 1]]
         /\ face_edgeIds' \in [1 .. n2 -> [Corner -> 1 .. m2]]
         /\ Kept2(n, F, face_edgeIds, Boundary_edges, F', face_edgeIds', Boundary_edges', {b})
    <2>1. \A k \in 1 .. 2 : parts[k].v \in [Corner -> 1 .. Len(Q) + 1]
      BY <1>14, <1>15
    <2>2. Range(numbers) \intersect (1 .. n) \subseteq {b}
      BY <1>13, <1>15
    <2> QED
      BY <2>1, <2>2, <1>6, <1>21, TablesRewritten
  <1>24. CutSide(F, face_edgeIds, Boundary_edges, x, b, a, w, c, k1, m2, TRUE,
                 F', face_edgeIds', Boundary_edges')
    <2>1. CutSide(F, face_edgeIds, Boundary_edges, x, b, a, w, c, k1, m2, x \in Boundary_edges,
                  F', face_edgeIds', Boundary_edges')
      BY <1>3, <1>15, <1>22, SideRewritten
    <2>2. x \in Boundary_edges
      BY DEF Surfaced, Sewn, Joined
    <2> QED
      BY <2>1, <2>2 DEF CutSide
  <1>25. /\ EndsHalved(m, m2, edge_values, edge_values', c, Start(x), w)
         /\ \A d \in (1 .. m2) \ (1 .. m) : NewEnds(d, 2, parts)
    BY <1>1, <1>6, <1>21, EndsRewritten
  <1>26. edge_values'[k1] = {w, Start(s)} /\ edge_values'[m2] = {w, Start(r)}
    <2>1. k1 \in (1 .. m2) \ (1 .. m) /\ m2 \in (1 .. m2) \ (1 .. m)
      BY <1>1, <1>7
    <2>2. PICK k \in 1 .. 2, j \in Corner :
            /\ parts[k].ids[j] = k1
            /\ edge_values'[k1] = {parts[k].v[j], parts[k].v[(j % 3) + 1]}
      BY <2>1, <1>25 DEF NewEnds
    <2>3. parts[k] = q /\ j = 1
      BY <2>2, <1>13, <1>19
    <2>4. PICK l \in 1 .. 2, i \in Corner :
            /\ parts[l].ids[i] = m2
            /\ edge_values'[m2] = {parts[l].v[i], parts[l].v[(i % 3) + 1]}
      BY <2>1, <1>25 DEF NewEnds
    <2>5. \/ parts[l] = p /\ i = 1
          \/ parts[l] = q /\ i = 3
      BY <2>4, <1>13, <1>19
    <2>6. /\ q.v[1] = w /\ q.v[(1 % 3) + 1] = Start(s) /\ q.v[3] = Start(r) /\ q.v[(3 % 3) + 1] = w
          /\ p.v[1] = w /\ p.v[(1 % 3) + 1] = Start(r)
      BY <1>17
    <2> QED
      BY <2>2, <2>3, <2>4, <2>5, <2>6
  <1>27. mE2E' = LinkHalves(LinkSide(mE2E, x, b, a), NoDart, b, a, 0, 0)
    BY <1>5 DEF Linked
  <1>28. HalvedAlone(n, Len(Q), m, F, mE2E, face_edgeIds, edge_values, Boundary_edges, x,
                     F', mE2E', face_edgeIds', edge_values', Boundary_edges')
    <2>1. /\ c = Num(face_edgeIds, x) /\ Start(x) = StartIn(F, x)
          /\ Start(s) = StartIn(F, Next3(x)) /\ Start(r) = StartIn(F, Prev3(x))
      BY <1>1, <1>8 DEF Num, Id, StartIn, Start
    <2> QED
      BY <2>1, <1>1, <1>23, <1>24, <1>25, <1>26, <1>27 DEF HalvedAlone
  <1>29. Sewn(n2, Len(Q) + 1, m2, F', mE2E', face_edgeIds', edge_values', Boundary_edges')
    <2>1. Sewn(n, Len(Q), m, F, mE2E, face_edgeIds, edge_values, Boundary_edges)
      BY DEF Surfaced
    <2> QED
      BY <2>1, <1>1, <1>28, SewnAtBoundary
  <1>30. Surfaced(n2, m2)' /\ Halving(n2)'
    BY <1>6, <1>21, <1>29, DifferencesRebuilt
  <1> QED
    BY <1>1, <1>30

LEMMA MinusBack ==
  ASSUME NEW a \in Vec, NEW b \in Vec
  PROVE  Minus(a, Minus(a, b)) = b
  <1>1. PICK i \in Int, j \in Int : a = <<i, j>>
    BY DEF Vec
  <1>2. PICK k \in Int, l \in Int : b = <<k, l>>
    BY DEF Vec
  <1>3. i - (i - k) = k /\ j - (j - l) = l
    OBVIOUS
  <1>4. Minus(a, Minus(a, b)) = <<i - (i - k), j - (j - l)>>
    BY <1>1, <1>2 DEF Minus
  <1> QED
    BY <1>2, <1>3, <1>4

LEMMA HalveBetween ==
  ASSUME NEW n, NEW m, Surfaced(n, m), Halving(n),
         NEW e, NEW x \in Darts(n), NEW y, y = mE2E[x], y # NoDart,
         NEW turn \in 0 .. 3, rshift90(diffs[x], turn) = diffs[y],
         NEW cut, cut = BetweenFaces(x, y, turn, Cardinality(DOMAIN Q) + 1),
         Replace(e, x, cut.numbers, cut.parts), mE2E' = cut.opposites
  PROVE  Surfaced(n + 2, m + 3)' /\ Halving(n + 2)'
  <1>1. PICK b, a, c, d, w, id, n2, k1, k2, k3 :
          /\ b = x[1] /\ a = n + 2 /\ c = n + 1 /\ d = y[1] /\ w = Len(Q) + 1 /\ id = Id(x)
          /\ n2 = n + 2 /\ k1 = m + 1 /\ k2 = m + 2 /\ k3 = m + 3
    OBVIOUS
  <1>2. PICK h, across : /\ h = Half(diffs[x])
                         /\ across = Minus(Plus(diffs[x], diffs[Next3(x)]), h)
    OBVIOUS
  <1>3. PICK h2, beyond : /\ h2 = Minus(diffs[y], rshift90(h, turn))
                          /\ beyond = Minus(Zero, Plus(diffs[Prev3(y)], h2))
    OBVIOUS
  <1>4. PICK p, q, s, t : /\ TwoParts(x, p, q, w, id, k1, k2, h, across, x \in Boundary_edges)
                          /\ TwoParts(y, s, t, w, k1, id, k3, h2, beyond, x \in Boundary_edges)
    BY DEF TwoParts
  <1>5. PICK numbers, parts : numbers = <<b, d, c, a>> /\ parts = <<p, t, s, q>>
    OBVIOUS
  <1>6. /\ cut.numbers = numbers /\ cut.parts = parts
        /\ cut.opposites = Linked(x, y, b, a, c, d)
    <2>1. /\ p = Behind(x, w, id, k2, h, across, x \in Boundary_edges)
          /\ q = Ahead(x, w, k1, k2, h, across, x \in Boundary_edges)
          /\ s = Behind(y, w, k1, k3, h2, beyond, x \in Boundary_edges)
          /\ t = Ahead(y, w, id, k3, h2, beyond, x \in Boundary_edges)
      BY <1>4 DEF TwoParts
    <2>2. Cardinality(DOMAIN F) = n /\ Cardinality(DOMAIN edge_diff) = m /\ Cardinality(DOMAIN Q) + 1 = w
      BY <1>1, Sizes
    <2>3. PICK one : one = AtBoundary(x, w)
      OBVIOUS
    <2>4. one.parts = <<p, q>>
      BY <2>1, <2>2, <2>3, <1>1, <1>2 DEF AtBoundary
    <2>5. one.parts[1] = p /\ one.parts[2] = q
      BY <2>4
    <2>6. cut.numbers = numbers /\ cut.opposites = Linked(x, y, b, a, c, d)
      BY <2>2, <1>1, <1>5 DEF BetweenFaces
    <2>7. cut.parts = <<one.parts[1], t, s, one.parts[2]>>
      BY <2>1, <2>2, <2>3, <1>1, <1>2, <1>3 DEF BetweenFaces
    <2> QED
      BY <2>5, <2>6, <2>7, <1>5
  <1>7. Replacing(e, x, numbers, parts)
    BY <1>6, ReplaceIsReplacing
  <1>8. /\ n \in Nat /\ m \in Nat /\ Len(Q) \in Nat /\ id \in 1 .. m /\ b \in 1 .. n
        /\ diffs[x] \in Vec /\ Tables(n, Len(Q), m, F, mE2E, face_edgeIds, edge_values)
        /\ Sewn(n, Len(Q), m, F, mE2E, face_edgeIds, edge_values, Boundary_edges)
    BY <1>1, DartTables DEF Surfaced
  <1>9. /\ y \in Darts(n) /\ d # b /\ Num(face_edgeIds, y) = Num(face_edgeIds, x)
        /\ StartIn(F, y) = EndIn(F, x)
    BY <1>1, <1>8, OtherFace
  <1>10. Id(y) = id /\ d \in 1 .. n /\ diffs[y] \in Vec
    BY <1>1, <1>9, DartTables
  <1>11. PICK xp, xn, yp, yn : xp = Prev3(x) /\ xn = Next3(x) /\ yp = Prev3(y) /\ yn = Next3(y)
    OBVIOUS
  <1>12. /\ xp \in Darts(n) /\ xn \in Darts(n) /\ xp # x /\ xn # x /\ xp[1] = b /\ xn[1] = b
         /\ EndIn(F, x) = StartIn(F, xn)
    BY <1>1, <1>8, <1>11, FaceDarts
  <1>13. /\ yp \in Darts(n) /\ yn \in Darts(n) /\ yp # y /\ yn # y /\ yp[1] = d /\ yn[1] = d
    BY <1>1, <1>8, <1>9, <1>11, FaceDarts
  <1>14. x[1] = b /\ y[1] = d
    BY <1>1
  <1>15. xp # y /\ xn # y /\ yp # x /\ yn # x
    BY <1>9, <1>12, <1>13, <1>14
  <1>16. h \in Vec /\ across \in Vec /\ h2 \in Vec /\ beyond \in Vec /\ rshift90(h, turn) \in Vec
    <2>1. diffs[xn] \in Vec /\ diffs[yp] \in Vec
      BY <1>12, <1>13, DartTables
    <2>2. h \in Vec
      BY <1>2, <1>8, HalfTyped
    <2>3. rshift90(h, turn) \in Vec
      BY <2>2, TurnType
    <2>4. across \in Vec /\ h2 \in Vec
      BY <2>1, <2>2, <2>3, <1>2, <1>3, <1>8, <1>10, <1>11, VecFacts
    <2>5. Zero \in Vec /\ Plus(diffs[yp], h2) \in Vec
      BY <2>1, <2>4, VecFacts
    <2>6. beyond \in Vec
      BY <2>5, <1>3, <1>11, VecFacts
    <2> QED
      BY <2>2, <2>3, <2>4, <2>6
  <1>17. PICK news : news = {id, k1, k2, k3}
    OBVIOUS
  <1>18. ASSUME NEW z \in Darts(n), z # x, z # y PROVE Id(z) \notin news
    <2>1. Num(face_edgeIds, z) # Num(face_edgeIds, x) /\ Num(face_edgeIds, z) \in 1 .. m
      BY <1>8, <1>18, NumberKept
    <2>2. PICK g : g = Id(z) /\ g # id /\ g \in 1 .. m
      BY <2>1, <1>1 DEF Num, Id
    <2>3. g # k1 /\ g # k2 /\ g # k3
      <3>1. k1 = m + 1 /\ k2 = m + 2 /\ k3 = m + 3 /\ m \in Nat
        BY <1>1, <1>8
      <3> QED
        BY ONLY <2>2, <3>1
    <2> QED
      BY <2>2, <2>3, <1>17
  <1>19. /\ n2 \in Nat /\ k1 \in Nat /\ k2 \in Nat /\ k3 \in Nat
         /\ id # k1 /\ id # k2 /\ id # k3 /\ k1 # k2 /\ k1 # k3 /\ k2 # k3
         /\ a # b /\ a # c /\ a # d /\ b # c /\ b # d /\ c # d /\ a \notin 1 .. n /\ c \notin 1 .. n
         /\ 1 .. k3 = (1 .. m) \union news /\ 1 .. n2 = (1 .. n) \union {b, d, c, a}
         /\ id \in news /\ k1 \in news /\ k2 \in news /\ k3 \in news
    <2>1. /\ n \in Nat /\ m \in Nat /\ b \in 1 .. n /\ d \in 1 .. n /\ b # d /\ id \in 1 .. m
      BY <1>8, <1>9, <1>10
    <2>2. /\ a = n + 2 /\ c = n + 1 /\ n2 = n + 2 /\ k1 = m + 1 /\ k2 = m + 2 /\ k3 = m + 3
      BY <1>1
    <2>3. /\ n2 \in Nat /\ k1 \in Nat /\ k2 \in Nat /\ k3 \in Nat
          /\ id # k1 /\ id # k2 /\ id # k3 /\ k1 # k2 /\ k1 # k3 /\ k2 # k3
          /\ a # b /\ a # c /\ a # d /\ b # c /\ b # d /\ c # d /\ a \notin 1 .. n /\ c \notin 1 .. n
      BY ONLY <2>1, <2>2
    <2>4. 1 .. k3 = (1 .. m) \union {id, k1, k2, k3}
      BY ONLY <2>1, <2>2
    <2>5. 1 .. n2 = (1 .. n) \union {b, d, c, a}
      BY ONLY <2>1, <2>2
    <2> QED
      BY <2>3, <2>4, <2>5, <1>17
  <1>20. Id(xp) \notin news /\ Id(xn) \notin news /\ Id(yp) \notin news /\ Id(yn) \notin news
    BY <1>12, <1>13, <1>15, <1>18
  <1>21. news \subseteq 1 .. k3 /\ 1 .. m \subseteq 1 .. k3
    BY <1>19
  <1>22. /\ PartRight(k3, news, n, p) /\ PartRight(k3, news, n, q)
         /\ p.v \in [Corner -> 1 .. Len(Q) + 1] /\ q.v \in [Corner -> 1 .. Len(Q) + 1]
    <2>1. Id(Prev3(x)) \notin news /\ Id(Next3(x)) \notin news
      BY <1>11, <1>20
    <2>2. PICK side : TwoParts(x, p, q, w, id, k1, k2, h, across, side)
      BY <1>4
    <2>3. w = Len(Q) + 1
      BY <1>1
    <2> QED
      BY <2>1, <2>2, <2>3, <1>16, <1>19, <1>21, PartsRight
  <1>23. /\ PartRight(k3, news, n, s) /\ PartRight(k3, news, n, t)
         /\ s.v \in [Corner -> 1 .. Len(Q) + 1] /\ t.v \in [Corner -> 1 .. Len(Q) + 1]
    <2>1. Id(Prev3(y)) \notin news /\ Id(Next3(y)) \notin news
      BY <1>11, <1>20
    <2>2. PICK side : TwoParts(y, s, t, w, k1, id, k3, h2, beyond, side)
      BY <1>4
    <2>3. w = Len(Q) + 1
      BY <1>1
    <2> QED
      BY <2>1, <2>2, <2>3, <1>9, <1>16, <1>19, <1>21, PartsRight
  <1>24. /\ DOMAIN numbers = 1 .. 4 /\ DOMAIN parts = 1 .. 4
         /\ numbers[1] = b /\ numbers[2] = d /\ numbers[3] = c /\ numbers[4] = a
         /\ parts[1] = p /\ parts[2] = t /\ parts[3] = s /\ parts[4] = q
    BY <1>5
  <1>25. Range(numbers) = {b, d, c, a}
    <2>1. \A k \in 1 .. 4 : k = 1 \/ k = 2 \/ k = 3 \/ k = 4
      OBVIOUS
    <2> QED
      BY <2>1, <1>24 DEF Range
  <1>26. Apart(numbers, parts)
    BY <1>19, <1>24 DEF Apart
  <1>27. /\ p.ids = <<k2, Id(xp), id>> /\ q.ids = <<k1, Id(xn), k2>>
         /\ p.diff = <<across, diffs[xp], h>>
         /\ q.diff = <<Minus(diffs[x], h), diffs[xn], Minus(Zero, across)>>
         /\ p.v = <<w, Start(xp), Start(x)>> /\ q.v = <<w, Start(xn), Start(xp)>>
    BY ONLY <1>4, <1>11 DEF TwoParts, Behind, Ahead
  <1>28. /\ s.ids = <<k3, Id(yp), k1>> /\ t.ids = <<id, Id(yn), k3>>
         /\ s.diff = <<beyond, diffs[yp], h2>>
         /\ t.diff = <<Minus(diffs[y], h2), diffs[yn], Minus(Zero, beyond)>>
         /\ s.v = <<w, Start(yp), Start(y)>> /\ t.v = <<w, Start(yn), Start(yp)>>
    BY ONLY <1>4, <1>11 DEF TwoParts, Behind, Ahead
  <1>29. ASSUME NEW k \in 1 .. 4, NEW j \in Corner, NEW g \in news, parts[k].ids[j] = g
         PROVE  \/ g = id /\ parts[k] = p /\ j = 3
                \/ g = id /\ parts[k] = t /\ j = 1
                \/ g = k1 /\ parts[k] = q /\ j = 1
                \/ g = k1 /\ parts[k] = s /\ j = 3
                \/ g = k2 /\ parts[k] = p /\ j = 1
                \/ g = k2 /\ parts[k] = q /\ j = 3
                \/ g = k3 /\ parts[k] = s /\ j = 1
                \/ g = k3 /\ parts[k] = t /\ j = 3
    <2>1. j = 1 \/ j = 2 \/ j = 3
      BY DEF Corner
    <2>2. k = 1 \/ k = 2 \/ k = 3 \/ k = 4
      OBVIOUS
    <2>3. CASE k = 1
      <3>1. p.ids[j] = g /\ p.ids[1] = k2 /\ p.ids[2] = Id(xp) /\ p.ids[3] = id
        BY <2>3, <1>24, <1>27, <1>29
      <3> QED
        BY <2>1, <2>3, <3>1, <1>20, <1>24
    <2>4. CASE k = 2
      <3>1. t.ids[j] = g /\ t.ids[1] = id /\ t.ids[2] = Id(yn) /\ t.ids[3] = k3
        BY <2>4, <1>24, <1>28, <1>29
      <3> QED
        BY <2>1, <2>4, <3>1, <1>20, <1>24
    <2>5. CASE k = 3
      <3>1. s.ids[j] = g /\ s.ids[1] = k3 /\ s.ids[2] = Id(yp) /\ s.ids[3] = k1
        BY <2>5, <1>24, <1>28, <1>29
      <3> QED
        BY <2>1, <2>5, <3>1, <1>20, <1>24
    <2>6. CASE k = 4
      <3>1. q.ids[j] = g /\ q.ids[1] = k1 /\ q.ids[2] = Id(xn) /\ q.ids[3] = k2
        BY <2>6, <1>24, <1>27, <1>29
      <3> QED
        BY <2>1, <2>6, <3>1, <1>20, <1>24
    <2> QED
      BY <2>2, <2>3, <2>4, <2>5, <2>6
  <1>30. PairedUp(4, parts, news)
    <2>1. PICK g1, f1, g2, f2 : /\ g1 = Minus(diffs[x], h) /\ f1 = Minus(Zero, across)
                                /\ g2 = Minus(diffs[y], h2) /\ f2 = Minus(Zero, beyond)
      OBVIOUS
    <2>2. g1 \in Vec /\ f1 \in Vec /\ g2 \in Vec /\ f2 \in Vec
      BY <2>1, <1>8, <1>10, <1>16, VecFacts
    <2>3. Turnable(across, f1) /\ Turnable(beyond, f2)
      BY <2>1, <1>16, TurnableFacts
    <2>4. Turnable(h, g2)
      <3>1. PICK u, v : u = diffs[y] /\ v = rshift90(h, turn)
        OBVIOUS
      <3>2. u \in Vec /\ v \in Vec /\ g2 = Minus(u, Minus(u, v))
        BY <3>1, <2>1, <1>3, <1>10, <1>16
      <3>3. g2 = v
        BY ONLY <3>2, MinusBack
      <3> QED
        BY <3>1, <3>3 DEF Turnable
    <2>5. Turnable(g1, h2)
      <3>1. rshift90(Minus(diffs[x], h), turn) = Minus(rshift90(diffs[x], turn), rshift90(h, turn))
        BY <1>8, <1>16, MinusTurned
      <3>2. rshift90(g1, turn) = h2
        BY <3>1, <2>1, <1>3
      <3> QED
        BY <3>2 DEF Turnable
    <2>6. /\ p.diff[1] = across /\ p.diff[3] = h /\ q.diff[1] = g1 /\ q.diff[3] = f1
          /\ s.diff[1] = beyond /\ s.diff[3] = h2 /\ t.diff[1] = g2 /\ t.diff[3] = f2
      BY <2>1, <1>27, <1>28
    <2> SUFFICES ASSUME NEW g \in news
                 PROVE  \E v1 \in Vec, v2 \in Vec :
                          /\ Turnable(v1, v2)
                          /\ \A k \in 1 .. 4, j \in Corner :
                               parts[k].ids[j] = g => parts[k].diff[j] \in {v1, v2}
      BY DEF PairedUp
    <2>7. id # k1 /\ id # k2 /\ id # k3 /\ k1 # k2 /\ k1 # k3 /\ k2 # k3
      BY <1>19
    <2>8. CASE g = id
      <3>1. \A k \in 1 .. 4, j \in Corner : parts[k].ids[j] = g => parts[k].diff[j] \in {h, g2}
        BY <2>6, <2>8, <2>7, <1>29
      <3>2. h \in Vec /\ g2 \in Vec /\ Turnable(h, g2)
        BY <2>2, <2>4, <1>16
      <3> QED
        BY <3>1, <3>2
    <2>9. CASE g = k1
      <3>1. \A k \in 1 .. 4, j \in Corner : parts[k].ids[j] = g => parts[k].diff[j] \in {g1, h2}
        BY <2>6, <2>9, <2>7, <1>29
      <3>2. g1 \in Vec /\ h2 \in Vec /\ Turnable(g1, h2)
        BY <2>2, <2>5, <1>16
      <3> QED
        BY <3>1, <3>2
    <2>10. CASE g = k2
      <3>1. \A k \in 1 .. 4, j \in Corner : parts[k].ids[j] = g => parts[k].diff[j] \in {across, f1}
        BY <2>6, <2>10, <2>7, <1>29
      <3>2. across \in Vec /\ f1 \in Vec /\ Turnable(across, f1)
        BY <2>2, <2>3, <1>16
      <3> QED
        BY <3>1, <3>2
    <2>11. CASE g = k3
      <3>1. \A k \in 1 .. 4, j \in Corner : parts[k].ids[j] = g => parts[k].diff[j] \in {beyond, f2}
        BY <2>6, <2>11, <2>7, <1>29
      <3>2. beyond \in Vec /\ f2 \in Vec /\ Turnable(beyond, f2)
        BY <2>2, <2>3, <1>16
      <3> QED
        BY <3>1, <3>2
    <2> QED
      BY <2>8, <2>9, <2>10, <2>11, <1>17
  <1>31. Cutting(n, m, n2, k3, 4, numbers, parts, news)
    <2>1. \A g \in news : \E k \in 1 .. 4, j \in Corner : parts[k].ids[j] = g
      <3>1. /\ parts[1].ids[3] = id /\ parts[4].ids[1] = k1 /\ parts[1].ids[1] = k2
            /\ parts[3].ids[1] = k3
        BY <1>24, <1>27, <1>28
      <3>2. 1 \in 1 .. 4 /\ 3 \in 1 .. 4 /\ 4 \in 1 .. 4 /\ 1 \in Corner /\ 3 \in Corner
        BY DEF Corner
      <3> QED
        BY <3>1, <3>2, <1>17
    <2>2. \A k \in 1 .. 4 : PartRight(k3, news, n, parts[k])
      <3>1. \A k \in 1 .. 4 : k = 1 \/ k = 2 \/ k = 3 \/ k = 4
        OBVIOUS
      <3> QED
        BY <3>1, <1>22, <1>23, <1>24
    <2>3. \A k, l \in 1 .. 4 : \A j, i \in Corner :
            parts[k].ids[j] = parts[l].ids[i] /\ parts[k].ids[j] \in news
              => Turnable(parts[k].diff[j], parts[l].diff[i])
      BY <1>30, PairsTurn
    <2>4. \A z \in Darts(n) : z[1] \notin Range(numbers) => Id(z) \notin news
      BY <1>14, <1>18, <1>25
    <2> QED
      BY <2>1, <2>2, <2>3, <2>4, <1>19, <1>24, <1>25, <1>26 DEF Cutting
  <1>32. \A k \in 1 .. 4 : Became(k, numbers, parts)
    BY <1>7, <1>31, FacesRewritten
  <1>33. /\ F' \in [1 .. n2 -> [Corner -> 1 .. Len(Q) + 1]]
         /\ face_edgeIds' \in [1 .. n2 -> [Corner -> 1 .. k3]]
         /\ Kept2(n, F, face_edgeIds, Boundary_edges, F', face_edgeIds', Boundary_edges', {b, d})
    <2>1. \A k \in 1 .. 4 : parts[k].v \in [Corner -> 1 .. Len(Q) + 1]
      <3>1. \A k \in 1 .. 4 : k = 1 \/ k = 2 \/ k = 3 \/ k = 4
        OBVIOUS
      <3> QED
        BY <3>1, <1>22, <1>23, <1>24
    <2>2. Range(numbers) \intersect (1 .. n) \subseteq {b, d}
      BY <1>19, <1>25
    <2>3. /\ F' \in [1 .. n2 -> [Corner -> 1 .. Len(Q) + 1]]
          /\ face_edgeIds' \in [1 .. n2 -> [Corner -> 1 .. k3]]
          /\ \A S : Range(numbers) \intersect (1 .. n) \subseteq S =>
               Kept2(n, F, face_edgeIds, Boundary_edges, F', face_edgeIds', Boundary_edges', S)
      <3>1. Surfaced(n, m) /\ Halving(n) /\ x \in Darts(n)
        OBVIOUS
      <3> QED
        BY ONLY <3>1, <2>1, <1>7, <1>31, TablesRewritten
    <2> QED
      BY ONLY <2>2, <2>3
  <1>34. x \notin Boundary_edges
    BY <1>8 DEF Sewn, Joined
  <1>35. CutSide(F, face_edgeIds, Boundary_edges, x, b, a, w, id, k1, k2, FALSE,
                 F', face_edgeIds', Boundary_edges')
    <2>1. CutSide(F, face_edgeIds, Boundary_edges, x, b, a, w, id, k1, k2, x \in Boundary_edges,
                  F', face_edgeIds', Boundary_edges')
      BY <1>4, <1>24, <1>32, SideRewritten
    <2> QED
      BY <2>1, <1>34 DEF CutSide
  <1>36. CutSide(F, face_edgeIds, Boundary_edges, y, c, d, w, k1, id, k3, FALSE,
                 F', face_edgeIds', Boundary_edges')
    <2>1. CutSide(F, face_edgeIds, Boundary_edges, y, c, d, w, k1, id, k3, x \in Boundary_edges,
                  F', face_edgeIds', Boundary_edges')
      BY <1>4, <1>9, <1>24, <1>32, SideRewritten
    <2> QED
      BY <2>1, <1>34 DEF CutSide
  <1>37. /\ EndsHalved(m, k3, edge_values, edge_values', id, Start(x), w)
         /\ \A g \in (1 .. k3) \ (1 .. m) : NewEnds(g, 4, parts)
    BY <1>1, <1>7, <1>31, EndsRewritten
  <1>38. ASSUME NEW g \in {k1, k2, k3}
         PROVE  \E k \in 1 .. 4, j \in Corner :
                  /\ parts[k].ids[j] = g
                  /\ edge_values'[g] = {parts[k].v[j], parts[k].v[(j % 3) + 1]}
    <2>1. g \in (1 .. k3) \ (1 .. m)
      BY <1>1, <1>8
    <2> QED
      BY <2>1, <1>37 DEF NewEnds
  <1>39. /\ p.v[1] = w /\ p.v[(1 % 3) + 1] = Start(xp)
         /\ q.v[1] = w /\ q.v[(1 % 3) + 1] = Start(xn) /\ q.v[3] = Start(xp) /\ q.v[(3 % 3) + 1] = w
         /\ s.v[1] = w /\ s.v[(1 % 3) + 1] = Start(yp) /\ s.v[3] = Start(y) /\ s.v[(3 % 3) + 1] = w
         /\ t.v[3] = Start(yp) /\ t.v[(3 % 3) + 1] = w
    BY <1>27, <1>28
  <1>40. Start(y) = Start(xn)
    BY <1>9, <1>12 DEF StartIn, Start
  <1>41. edge_values'[k1] = {w, Start(xn)}
    <2>1. PICK k \in 1 .. 4, j \in Corner :
            /\ parts[k].ids[j] = k1
            /\ edge_values'[k1] = {parts[k].v[j], parts[k].v[(j % 3) + 1]}
      BY <1>38
    <2>2. (parts[k] = q /\ j = 1) \/ (parts[k] = s /\ j = 3)
      BY <2>1, <1>19, <1>29
    <2> QED
      BY <2>1, <2>2, <1>39, <1>40
  <1>42. edge_values'[k2] = {w, Start(xp)}
    <2>1. PICK k \in 1 .. 4, j \in Corner :
            /\ parts[k].ids[j] = k2
            /\ edge_values'[k2] = {parts[k].v[j], parts[k].v[(j % 3) + 1]}
      BY <1>38
    <2>2. (parts[k] = p /\ j = 1) \/ (parts[k] = q /\ j = 3)
      BY <2>1, <1>19, <1>29
    <2> QED
      BY <2>1, <2>2, <1>39
  <1>43. edge_values'[k3] = {w, Start(yp)}
    <2>1. PICK k \in 1 .. 4, j \in Corner :
            /\ parts[k].ids[j] = k3
            /\ edge_values'[k3] = {parts[k].v[j], parts[k].v[(j % 3) + 1]}
      BY <1>38
    <2>2. (parts[k] = s /\ j = 1) \/ (parts[k] = t /\ j = 3)
      BY <2>1, <1>19, <1>29
    <2> QED
      BY <2>1, <2>2, <1>39
  <1>44. mE2E' = LinkHalves(LinkSide(LinkSide(mE2E, x, b, a), y, c, d), y, b, a, c, d)
    BY <1>6 DEF Linked
  <1>45. HalvedShared(n, Len(Q), m, F, mE2E, face_edgeIds, edge_values, Boundary_edges, x,
                      F', mE2E', face_edgeIds', edge_values', Boundary_edges')
    <2>1. /\ id = Num(face_edgeIds, x) /\ Start(x) = StartIn(F, x)
          /\ Start(xn) = StartIn(F, Next3(x)) /\ Start(xp) = StartIn(F, Prev3(x))
          /\ Start(yp) = StartIn(F, Prev3(y))
      BY <1>1, <1>11 DEF Num, Id, StartIn, Start
    <2> QED
      BY <2>1, <1>1, <1>33, <1>35, <1>36, <1>37, <1>41, <1>42, <1>43, <1>44 DEF HalvedShared
  <1>46. Sewn(n2, Len(Q) + 1, k3, F', mE2E', face_edgeIds', edge_values', Boundary_edges')
    BY <1>1, <1>8, <1>45, SewnBetween
  <1>47. Surfaced(n2, k3)' /\ Halving(n2)'
    BY <1>7, <1>31, <1>46, DifferencesRebuilt
  <1> QED
    BY <1>1, <1>47

-----------------------------------------------------------------------------
(***************************************************************************)
(* The steps of a subdivision.                                             *)
(***************************************************************************)
OnSurface == \E n, m : Surfaced(n, m)
BeingHalved == \E n, m : Surfaced(n, m) /\ Halving(n)

LEMMA HalveKeeps ==
  ASSUME Halve, BeingHalved
  PROVE  pc' = "spinning" \/ (pc' = pc /\ BeingHalved')
  <1>1. PICK n, m : Surfaced(n, m) /\ Halving(n)
    BY DEF BeingHalved
  <1>2. PICK e \in Foremost :
          LET x == e.id
              y == mE2E[x]
              vn == Cardinality(DOMAIN Q) + 1
          IN
          IF y # NoDart /\ Turns4(x, y) = {}
          THEN pc' = "spinning" /\ UNCHANGED <<graph, halving, queue>>
          ELSE \E cut \in {IF y = NoDart THEN AtBoundary(x, vn)
                          ELSE BetweenFaces(x, y, Min(Turns4(x, y)), vn)} :
                 /\ Replace(e, x, cut.numbers, cut.parts)
                 /\ mE2E' = cut.opposites
                 /\ UNCHANGED pc
    BY DEF Halve
  <1>3. PICK x, y : x = e.id /\ y = mE2E[x]
    OBVIOUS
  <1>4. x \in Darts(n)
    BY <1>1, <1>3 DEF Foremost, Halving
  <1>5. CASE y # NoDart /\ Turns4(x, y) = {}
    BY <1>2, <1>3, <1>5
  <1>6. CASE y = NoDart
    <2>1. PICK cut : /\ cut = AtBoundary(x, Cardinality(DOMAIN Q) + 1)
                     /\ Replace(e, x, cut.numbers, cut.parts) /\ mE2E' = cut.opposites /\ pc' = pc
      BY <1>2, <1>3, <1>6
    <2>2. Surfaced(n + 1, m + 2)' /\ Halving(n + 1)'
      BY <2>1, <1>1, <1>3, <1>4, <1>6, HalveAtBoundary
    <2> QED
      BY <2>1, <2>2 DEF BeingHalved
  <1>7. CASE y # NoDart /\ Turns4(x, y) # {}
    <2>1. PICK turn : turn = Min(Turns4(x, y))
      OBVIOUS
    <2>2. PICK cut : /\ cut = BetweenFaces(x, y, turn, Cardinality(DOMAIN Q) + 1)
                     /\ Replace(e, x, cut.numbers, cut.parts) /\ mE2E' = cut.opposites /\ pc' = pc
      BY <2>1, <1>2, <1>3, <1>7
    <2>3. turn \in 0 .. 3 /\ rshift90(diffs[x], turn) = diffs[y]
      <3>1. Turns4(x, y) \in SUBSET Nat
        BY DEF Turns4
      <3>2. turn \in Turns4(x, y)
        BY <3>1, <2>1, <1>7, MinIn
      <3> QED
        BY <3>2 DEF Turns4
    <2>4. Surfaced(n + 2, m + 3)' /\ Halving(n + 2)'
      BY <2>2, <2>3, <1>1, <1>3, <1>4, <1>7, HalveBetween
    <2> QED
      BY <2>2, <2>4 DEF BeingHalved
  <1> QED
    BY <1>5, <1>6, <1>7

LEMMA SurfaceSame ==
  ASSUME NEW n, NEW m, Surfaced(n, m), UNCHANGED <<graph, F, mE2E, Q, Boundary_edges, edge_values>>
  PROVE  Surfaced(n, m)'
  BY DEF Surfaced, graph

LEMMA DiscardKeeps ==
  ASSUME Discard, BeingHalved
  PROVE  BeingHalved'
  <1>1. PICK n, m : Surfaced(n, m) /\ Halving(n)
    BY DEF BeingHalved
  <1>2. PICK e : queue' = Popped(e)
    BY DEF Discard
  <1>3. /\ UNCHANGED <<graph, F, mE2E, Q, Boundary_edges, edge_values>>
        /\ edge_diff' = edge_diff /\ face_edgeIds' = face_edgeIds
        /\ face_edgeOrients' = face_edgeOrients /\ F' = F /\ Q' = Q
        /\ diffs' = diffs /\ face_spaces' = face_spaces
    BY DEF Discard, halving, graph
  <1>4. Surfaced(n, m)'
    BY <1>1, <1>3, SurfaceSame
  <1>5. \A g \in DOMAIN queue' : g.id \in Darts(n)
    BY <1>1, <1>2, PoppedFacts DEF Halving
  <1>6. Halving(n)'
    BY <1>1, <1>3, <1>5 DEF Halving
  <1> QED
    BY <1>4, <1>6 DEF BeingHalved

LEMMA GreaterOfTwo ==
  ASSUME NEW v1 \in Int, NEW v2 \in Int
  PROVE  Max({v1, v2}) = IF v1 <= v2 THEN v2 ELSE v1
  BY DEF Max

(* From the difference of the turns, AnalyzeOrient gives back the turn.      *)
LEMMA DifferenceBack ==
  ASSUME NEW o \in 0 .. 3, NEW value \in -1 .. 2, NEW back \in {0, 2}, NEW orient \in 0 .. 3,
         NEW off, off = (o + 8 - value - back) % 4, NEW d, d = (off + 4 - orient) % 4
  PROVE  off \in 0 .. 3 /\ d \in -3 .. 3 /\ Rem4(orient + d + back + value + 4) = o
  <1>1. PICK a \in Nat : a = o + 8 - value - back
    OBVIOUS
  <1>2. a % 4 \in 0 .. 3 /\ a \div 4 \in Int /\ a = 4 * (a \div 4) + (a % 4)
    OBVIOUS
  <1>3. PICK k \in Int : off \in 0 .. 3 /\ a = 4 * k + off
    BY <1>1, <1>2
  <1>4. PICK b \in Nat : b = off + 4 - orient
    BY <1>3
  <1>5. b % 4 \in 0 .. 3 /\ b \div 4 \in Int /\ b = 4 * (b \div 4) + (b % 4)
    OBVIOUS
  <1>6. PICK l \in Int : d \in 0 .. 3 /\ b = 4 * l + d
    BY <1>4, <1>5
  <1>7. PICK c \in Int : c = orient + d + back + value + 4 /\ c >= 0
    BY <1>6
  <1>8. c = o + 4 * (4 - k - l) /\ 4 - k - l \in Int
    <2>1. d = off + 4 - orient - 4 * l
      BY ONLY <1>3, <1>4, <1>6, orient \in 0 .. 3
    <2>2. off = o + 8 - value - back - 4 * k
      BY ONLY <1>1, <1>3, o \in 0 .. 3, value \in -1 .. 2, back \in {0, 2}
    <2>3. c = o + 16 - 4 * k - 4 * l
      BY ONLY <2>1, <2>2, <1>3, <1>6, <1>7, o \in 0 .. 3, value \in -1 .. 2, back \in {0, 2}, orient \in 0 .. 3
    <2> QED
      BY ONLY <2>3, k \in Int, l \in Int, o \in 0 .. 3
  <1>9. Rem4(c) = o
    BY <1>7, <1>8, SameRemainder
  <1> QED
    BY <1>3, <1>6, <1>7, <1>9

LEMMA SpaceFramed ==
  ASSUME NEW n, NEW m, Surfaced(n, m), NEW f \in 1 .. n, NEW sp, sp = Space(f)
  PROVE  sp \in Spaces /\ Framed(Q, F[f], sp, face_edgeOrients[f])
  <1>1. /\ Tables(n, Len(Q), m, F, mE2E, face_edgeIds, edge_values)
        /\ F \in [1 .. n -> [Corner -> 1 .. Len(Q)]]
        /\ \A i, j \in Corner : F[f][i] = F[f][j] => i = j
        /\ \A z \in Darts(n) : Joined(n, F, mE2E, face_edgeIds, edge_values, Boundary_edges, z)
        /\ Q \in Seq(0 .. 11) /\ face_edgeOrients[f] \in [Corner -> 0 .. 3]
    BY DEF Surfaced, Sewn, Tables
  <1>2. \A u \in 1 .. Len(Q) : Q[u] \in 0 .. 11 /\ u \in Int
    BY <1>1
  <1>3. PICK q : q = Q[F[f][1]] /\ q \in 0 .. 11
    BY <1>1, <1>2 DEF Corner
  <1>4. PICK off : off = [j \in Corner |-> OrientDiff(f, j)]
    OBVIOUS
  <1>5. ASSUME NEW j \in Corner
        PROVE  \E value \in -1 .. 2, back \in {0, 2} :
                 /\ off[j] = (face_edgeOrients[f][j] + 8 - value - back) % 4
                 /\ \A orient, d : Analyzed(Q, F[f][j], F[f][(j % 3) + 1], orient, d, q)
                                     = Rem4(orient + d + back + value + 4)
    <2>1. PICK a, b : a = F[f][j] /\ b = F[f][(j % 3) + 1]
      OBVIOUS
    <2>2. a \in 1 .. Len(Q) /\ b \in 1 .. Len(Q) /\ a # b
      <3>1. (j % 3) + 1 \in Corner /\ (j % 3) + 1 # j
        BY DEF Corner
      <3> QED
        BY <3>1, <2>1, <1>1
    <2>3. edge_values[face_edgeIds[f][j]] = {a, b}
      <3>1. <<f, j>> \in Darts(n)
        BY DEF Darts
      <3> QED
        BY <3>1, <2>1, <1>1 DEF Joined, Num, StartIn, EndIn
    <2>4. PICK u, v : u = Min({a, b}) /\ v = Max({a, b})
      OBVIOUS
    <2>5. a \in Int /\ b \in Int
      BY <2>2, <1>2
    <2>6. u = (IF a <= b THEN a ELSE b) /\ v = (IF a <= b THEN b ELSE a)
      BY <2>4, <2>5, LesserOfTwo, GreaterOfTwo
    <2>7. u \in 1 .. Len(Q) /\ (a = v <=> a # u)
      BY <2>2, <2>5, <2>6
    <2>8. PICK value : value = compat_orientation(Q[u], q)
      OBVIOUS
    <2>9. value \in -1 .. 2
      BY <2>7, <2>8, <1>2, <1>3, Compatible
    <2>10. PICK back \in {0, 2} : back = IF a = v THEN 2 ELSE 0
      OBVIOUS
    <2>11. off[j] = (face_edgeOrients[f][j] + 8 - value - back) % 4
      <3>1. off[j] = OrientDiff(f, j)
        BY <1>4
      <3> QED
        BY <3>1, <2>1, <2>3, <2>4, <2>8, <2>10, <1>3 DEF OrientDiff
    <2>12. ASSUME NEW orient, NEW d
           PROVE  Analyzed(Q, a, b, orient, d, q) = Rem4(orient + d + back + value + 4)
      BY <2>4, <2>7, <2>8, <2>10 DEF Analyzed
    <2> QED
      BY <2>1, <2>9, <2>11, <2>12
  <1>6. ASSUME NEW j \in Corner PROVE off[j] \in 0 .. 3
    <2>1. PICK value \in -1 .. 2, back \in {0, 2} : off[j] = (face_edgeOrients[f][j] + 8 - value - back) % 4
      BY <1>5
    <2>2. PICK o \in 0 .. 3 : o = face_edgeOrients[f][j]
      BY <1>1
    <2>3. o + 8 - value - back \in Int
      OBVIOUS
    <2> QED
      BY <2>1, <2>2, <2>3
  <1>7. PICK agreed : agreed = {off[j] : j \in {k \in Corner : \E l \in Corner \ {k} : off[l] = off[k]}}
    OBVIOUS
  <1>8. PICK orient : orient = IF agreed = {} THEN 0 ELSE Min(agreed)
    OBVIOUS
  <1>9. orient \in 0 .. 3
    <2>1. agreed \subseteq 0 .. 3 /\ agreed \in SUBSET Nat
      BY <1>6, <1>7
    <2>2. agreed # {} => Min(agreed) \in agreed
      BY <2>1, MinIn
    <2> QED
      BY <2>1, <2>2, <1>8
  <1>10. sp = [orient |-> orient, d |-> [j \in Corner |-> (off[j] + 4 - orient) % 4], q |-> q]
    BY <1>3, <1>4, <1>7, <1>8 DEF Space
  <1>11. ASSUME NEW j \in Corner
         PROVE  /\ sp.d[j] \in -3 .. 3
                /\ face_edgeOrients[f][j]
                     = Analyzed(Q, F[f][j], F[f][(j % 3) + 1], sp.orient, sp.d[j], sp.q)
    <2>1. PICK value \in -1 .. 2, back \in {0, 2} :
            /\ off[j] = (face_edgeOrients[f][j] + 8 - value - back) % 4
            /\ \A r, d : Analyzed(Q, F[f][j], F[f][(j % 3) + 1], r, d, q) = Rem4(r + d + back + value + 4)
      BY <1>5
    <2>2. PICK o \in 0 .. 3 : o = face_edgeOrients[f][j]
      BY <1>1
    <2>3. PICK d, g : d = sp.d[j] /\ g = off[j]
      OBVIOUS
    <2>4. g = (o + 8 - value - back) % 4 /\ d = (g + 4 - orient) % 4
      BY <2>1, <2>2, <2>3, <1>10
    <2>5. d \in -3 .. 3 /\ Rem4(orient + d + back + value + 4) = o
      BY ONLY <2>4, <1>9, o \in 0 .. 3, value \in -1 .. 2, back \in {0, 2}, DifferenceBack
    <2> QED
      BY <2>1, <2>2, <2>3, <2>5, <1>10
  <1>12. sp \in Spaces
    <2>1. sp.d \in [Corner -> -3 .. 3]
      BY <1>10, <1>11
    <2> QED
      BY <2>1, <1>3, <1>9, <1>10 DEF Spaces
  <1> QED
    BY <1>11, <1>12 DEF Framed

LEMMA BeginKeeps ==
  ASSUME BeginSubdivision, OnSurface
  PROVE  BeingHalved'
  <1>1. PICK n, m : Surfaced(n, m)
    BY DEF OnSurface
  <1>2. /\ diffs' = [x \in Halves |-> rshift90(edge_diff[Id(x)], face_edgeOrients[x[1]][x[2]])]
        /\ face_spaces' = [f \in DOMAIN F |-> Space(f)]
        /\ UNCHANGED <<graph, F, mE2E, Q, Boundary_edges, edge_values>>
        /\ edge_diff' = edge_diff /\ face_edgeIds' = face_edgeIds
        /\ face_edgeOrients' = face_edgeOrients /\ F' = F /\ Q' = Q
    BY DEF BeginSubdivision, graph
  <1>3. Surfaced(n, m)'
    BY <1>1, <1>2, SurfaceSame
  <1>4. /\ DOMAIN F = 1 .. n /\ Halves = Darts(n) /\ edge_diff \in [1 .. m -> Vec]
        /\ face_edgeIds \in [1 .. n -> [Corner -> 1 .. m]]
        /\ face_edgeOrients \in [1 .. n -> [Corner -> 0 .. 3]]
    BY <1>1 DEF Surfaced, Sewn, Tables, Halves, Darts
  <1>5. ASSUME NEW z \in Darts(n)
        PROVE  /\ diffs'[z] \in Vec
               /\ Turned1(edge_diff, face_edgeIds, face_edgeOrients, diffs', z)
    <2>1. diffs'[z] = rshift90(edge_diff[Id(z)], face_edgeOrients[z[1]][z[2]])
      BY <1>2, <1>4
    <2>2. edge_diff[Id(z)] \in Vec /\ face_edgeOrients[z[1]][z[2]] \in 0 .. 3
      BY <1>4 DEF Id, Darts
    <2> QED
      BY <2>1, <2>2, TurnType DEF Turned1, Id
  <1>6. diffs' \in [Darts(n) -> Vec]
    BY <1>2, <1>4, <1>5
  <1>7. ASSUME NEW f \in 1 .. n
        PROVE  face_spaces'[f] \in Spaces /\ Framed(Q, F[f], face_spaces'[f], face_edgeOrients[f])
    <2>1. face_spaces'[f] = Space(f)
      BY <1>2, <1>4
    <2> QED
      BY <2>1, <1>1, SpaceFramed
  <1>8. face_spaces' \in [1 .. n -> Spaces]
    BY <1>2, <1>4, <1>7
  <1>9. ASSUME NEW g \in DOMAIN queue'
        PROVE  g.id \in Darts(n)
    <2>1. PICK S : /\ queue' = SetToBag(S)
                   /\ S = {QueueEntry(x, Ends(x), diffs'[x]) : x \in
                             {y \in Halves : Long(diffs'[y]) /\ (mE2E[y] = NoDart \/ Before(y, mE2E[y]))}}
      BY DEF BeginSubdivision
    <2>2. g \in S
      BY <2>1 DEF SetToBag
    <2>3. PICK x \in Halves : g = QueueEntry(x, Ends(x), diffs'[x])
      BY <2>1, <2>2
    <2> QED
      BY <2>3, <1>4 DEF QueueEntry
  <1>10. Halving(n)'
    BY <1>2, <1>5, <1>6, <1>7, <1>8, <1>9 DEF Halving
  <1> QED
    BY <1>3, <1>10 DEF BeingHalved

-----------------------------------------------------------------------------
(***************************************************************************)
(* FixFlipHierarchy between the two subdivisions: the surface is a mesh it *)
(* can be called with, and the first level keeps its edges and faces.      *)
(***************************************************************************)
LEMMA EdgeInTwo ==
  ASSUME NEW n, NEW m, Surfaced(n, m), NEW e \in 1 .. m
  PROVE  /\ \E f, g \in 1 .. n : {h \in 1 .. n : \E j \in Corner : face_edgeIds[h][j] = e} = {f, g}
         /\ \A f \in 1 .. n : \A j, k \in Corner :
              face_edgeIds[f][j] = e /\ face_edgeIds[f][k] = e => j = k
  <1>1. /\ Sewn(n, Len(Q), m, F, mE2E, face_edgeIds, edge_values, Boundary_edges)
        /\ \A y, z \in Darts(n) : Num(face_edgeIds, y) = Num(face_edgeIds, z) => y = z \/ y = mE2E[z]
        /\ \A z \in Darts(n) : z # NoDart
    <2>1. \A z \in Darts(n) : z[1] \in Nat /\ z[1] # -1
      BY DEF Surfaced, Darts
    <2> QED
      BY <2>1 DEF Surfaced, Sewn, Alike, NoDart, None
  <1>2. PICK z \in Darts(n) : Num(face_edgeIds, z) = e
    BY <1>1 DEF Sewn
  <1>3. \A h \in 1 .. n : \A j \in Corner :
          /\ <<h, j>> \in Darts(n) /\ <<h, j>>[1] = h
          /\ Num(face_edgeIds, <<h, j>>) = face_edgeIds[h][j]
    BY DEF Darts, Num
  <1>4. z[1] \in 1 .. n /\ z[2] \in Corner /\ face_edgeIds[z[1]][z[2]] = e
    BY <1>2 DEF Darts, Num
  <1>5. PICK g \in 1 .. n : g = IF mE2E[z] = NoDart THEN z[1] ELSE mE2E[z][1]
    <2>1. mE2E[z] # NoDart => mE2E[z] \in Darts(n)
      BY <1>1, OtherFace
    <2> QED
      BY <2>1, <1>4 DEF Darts
  <1>6. \E j \in Corner : face_edgeIds[g][j] = e
    <2>1. CASE mE2E[z] = NoDart
      BY <2>1, <1>4, <1>5
    <2>2. CASE mE2E[z] # NoDart
      <3>1. mE2E[z] \in Darts(n) /\ Num(face_edgeIds, mE2E[z]) = e
        BY <2>2, <1>1, <1>2, OtherFace
      <3> QED
        BY <3>1, <2>2, <1>5 DEF Darts, Num
    <2> QED
      BY <2>1, <2>2
  <1>7. ASSUME NEW h \in 1 .. n, NEW j \in Corner, face_edgeIds[h][j] = e
        PROVE  h \in {z[1], g}
    <2>1. <<h, j>> = z \/ <<h, j>> = mE2E[z]
      <3>1. PICK y : y = <<h, j>>
        OBVIOUS
      <3>2. y \in Darts(n) /\ Num(face_edgeIds, y) = e
        BY <3>1, <1>3, <1>7
      <3>3. y = z \/ y = mE2E[z]
        BY <3>2, <1>1, <1>2
      <3> QED
        BY <3>1, <3>3
    <2>2. <<h, j>> # NoDart
      BY <1>1, <1>3
    <2> QED
      BY <2>1, <2>2, <1>3, <1>5
  <1>8. {h \in 1 .. n : \E j \in Corner : face_edgeIds[h][j] = e} = {z[1], g}
    BY <1>4, <1>6, <1>7
  <1>9. ASSUME NEW f \in 1 .. n, NEW j \in Corner, NEW k \in Corner,
               face_edgeIds[f][j] = e, face_edgeIds[f][k] = e
        PROVE  j = k
    <2>1. PICK y \in Darts(n), w \in Darts(n) : y = <<f, j>> /\ w = <<f, k>>
      BY <1>3
    <2>2. y = w \/ y = mE2E[w]
      BY <2>1, <1>1, <1>3, <1>9
    <2>3. CASE y = mE2E[w]
      <3>1. mE2E[w] # NoDart
        BY <2>3, <1>1
      <3>2. mE2E[w][1] # w[1]
        BY <3>1, <1>1, OtherFace
      <3> QED
        BY <3>2, <2>1, <2>3
    <2> QED
      BY <2>1, <2>2, <2>3
  <1> QED
    BY <1>4, <1>8, <1>9

LEMMA SurfaceIsMesh ==
  ASSUME NEW n, NEW m, Surfaced(n, m),
         NEW M, M = [F2E |-> face_edgeIds, FQ |-> face_edgeOrients, diff |-> edge_diff,
                     allow |-> [d \in DOMAIN edge_diff |-> <<1, 1>>]]
  PROVE  Triangulated(M)
  <1>1. /\ n \in Nat /\ m \in Nat /\ edge_diff \in [1 .. m -> Int \X Int]
        /\ face_edgeIds \in [1 .. n -> [1 .. 3 -> 1 .. m]]
        /\ face_edgeOrients \in [1 .. n -> [1 .. 3 -> 0 .. 3]]
    BY DEF Surfaced, Sewn, Tables, Vec, Corner
  <1>2. M.F2E = face_edgeIds /\ M.FQ = face_edgeOrients /\ M.diff = edge_diff
        /\ DOMAIN M.diff = 1 .. m /\ DOMAIN M.F2E = 1 .. n
        /\ M.allow = [d \in 1 .. m |-> <<1, 1>>]
    BY <1>1
  <1>3. M.diff \in Seq(Int \X Int) /\ M.F2E \in Seq([1 .. 3 -> DOMAIN M.diff])
    <2>1. PICK S : S = [1 .. 3 -> 1 .. m]
      OBVIOUS
    <2>2. face_edgeIds \in Seq(S)
      BY <2>1, <1>1
    <2>3. edge_diff \in Seq(Int \X Int)
      BY <1>1
    <2> QED
      BY <2>1, <2>2, <2>3, <1>2
  <1>4. M.allow \in [DOMAIN M.diff -> [1 .. 2 -> {0, 1}]]
    <2>1. <<1, 1>> \in [1 .. 2 -> {0, 1}]
      OBVIOUS
    <2> QED
      BY <2>1, <1>2
  <1>5. M.FQ \in [DOMAIN M.F2E -> [1 .. 3 -> 0 .. 3]]
    BY <1>1, <1>2
  <1>6. \A e \in DOMAIN M.diff :
          /\ \E f, g \in DOMAIN M.F2E : {h \in DOMAIN M.F2E : \E j \in 1 .. 3 : M.F2E[h][j] = e} = {f, g}
          /\ \A f \in DOMAIN M.F2E : \A j, k \in 1 .. 3 : M.F2E[f][j] = e /\ M.F2E[f][k] = e => j = k
    BY <1>2, EdgeInTwo DEF Corner
  <1> QED
    BY <1>3, <1>4, <1>5, <1>6 DEF Triangulated

(* The levels from that of the surface, whose edges and face edges are given,*)
(* to the top, with the turns between them.                                  *)
Tall(ls, us, ids, edges) ==
  /\ Stack(ls) /\ Stack(us) /\ Len(ls) >= 1 /\ Len(us) = Len(ls) - 1
  /\ ls[1].F2E = ids /\ DOMAIN ls[1].diff = edges
  /\ \A k \in 1 .. Len(ls) : Graph(ls[k])
  /\ \A k \in 1 .. Len(us) : us[k].orient \in [DOMAIN ls[k].diff -> 0 .. 3]

LEMMA TallReplaced ==
  ASSUME NEW ls, NEW us, NEW ids, NEW edges, Tall(ls, us, ids, edges),
         NEW L, Graph(L), L.F2E = ls[Len(ls)].F2E, DOMAIN L.diff = DOMAIN ls[Len(ls)].diff
  PROVE  Tall([ls EXCEPT ![Len(ls)] = L], us, ids, edges)
  <1>1. PICK n \in Nat : n = Len(ls) /\ n >= 1
    BY StackFacts DEF Tall
  <1>2. PICK t : t = [ls EXCEPT ![n] = L]
    OBVIOUS
  <1>3. Stack(t) /\ Len(t) = n /\ t[n] = L
    <2>1. /\ Len(ls) >= 1 =>
              /\ Stack([ls EXCEPT ![Len(ls)] = L]) /\ Len([ls EXCEPT ![Len(ls)] = L]) = Len(ls)
              /\ [ls EXCEPT ![Len(ls)] = L][Len(ls)] = L
      BY StackFacts DEF Tall
    <2> QED
      BY <2>1, <1>1, <1>2
  <1>4. \A k \in 1 .. n : k # n => t[k] = ls[k]
    BY <1>2
  <1>5. \A k \in 1 .. n : Graph(t[k]) /\ DOMAIN t[k].diff = DOMAIN ls[k].diff /\ t[k].F2E = ls[k].F2E
    BY <1>1, <1>3, <1>4 DEF Tall
  <1>6. Len(us) = n - 1 /\ 1 \in 1 .. n
    BY <1>1 DEF Tall
  <1>7. \A k \in 1 .. Len(us) : us[k].orient \in [DOMAIN t[k].diff -> 0 .. 3]
    BY <1>5, <1>6 DEF Tall
  <1>8. t[1].F2E = ids /\ DOMAIN t[1].diff = edges
    BY <1>5, <1>6 DEF Tall
  <1> QED
    BY <1>1, <1>2, <1>3, <1>5, <1>6, <1>7, <1>8 DEF Tall

LEMMA TallGrown ==
  ASSUME NEW ls, NEW us, NEW ids, NEW edges, Tall(ls, us, ids, edges),
         NEW L, Graph(L), NEW up, up.orient \in [DOMAIN ls[Len(ls)].diff -> 0 .. 3]
  PROVE  Tall(Append(ls, L), Append(us, up), ids, edges)
  <1>1. PICK n \in Nat : n = Len(ls) /\ n >= 1 /\ Len(us) = n - 1
    BY StackFacts DEF Tall
  <1>2. PICK t, u : t = Append(ls, L) /\ u = Append(us, up)
    OBVIOUS
  <1>3. Stack(t) /\ Len(t) = n + 1 /\ t[n + 1] = L /\ \A k \in 1 .. n : t[k] = ls[k]
    <2>1. /\ Stack(Append(ls, L)) /\ Len(Append(ls, L)) = Len(ls) + 1
          /\ Append(ls, L)[Len(ls) + 1] = L
          /\ \A i \in 1 .. Len(ls) : Append(ls, L)[i] = ls[i]
      <3>1. Stack(ls)
        BY DEF Tall
      <3> QED
        BY ONLY <3>1, StackFacts, ZenonT(40)
    <2> QED
      BY <2>1, <1>1, <1>2
  <1>4. Stack(u) /\ Len(u) = n /\ u[n] = up /\ \A k \in 1 .. (n - 1) : u[k] = us[k]
    <2>1. /\ Stack(Append(us, up)) /\ Len(Append(us, up)) = Len(us) + 1
          /\ Append(us, up)[Len(us) + 1] = up
          /\ \A i \in 1 .. Len(us) : Append(us, up)[i] = us[i]
      <3>1. Stack(us)
        BY DEF Tall
      <3> QED
        BY ONLY <3>1, StackFacts, ZenonT(40)
    <2>2. (n - 1) + 1 = n
      BY <1>1
    <2> QED
      BY <2>1, <2>2, <1>1, <1>2
  <1>5. \A k \in 1 .. (n + 1) : k = n + 1 \/ k \in 1 .. n
    BY <1>1
  <1>6. \A k \in 1 .. (n + 1) : Graph(t[k])
    BY <1>1, <1>3, <1>5 DEF Tall
  <1>7. \A k \in 1 .. n : k = n \/ k \in 1 .. (n - 1)
    BY <1>1
  <1>8. \A k \in 1 .. n : u[k].orient \in [DOMAIN t[k].diff -> 0 .. 3]
    <2>1. \A k \in 1 .. (n - 1) : k \in 1 .. n /\ us[k].orient \in [DOMAIN ls[k].diff -> 0 .. 3]
      BY <1>1 DEF Tall
    <2>2. n \in 1 .. n /\ t[n] = ls[n]
      BY <1>1, <1>3
    <2> QED
      BY <2>1, <2>2, <1>1, <1>3, <1>4, <1>7
  <1>9. t[1].F2E = ids /\ DOMAIN t[1].diff = edges
    <2>1. 1 \in 1 .. n
      BY <1>1
    <2> QED
      BY <2>1, <1>3 DEF Tall
  <1>10. Len(u) = Len(t) - 1 /\ Len(t) >= 1
    BY <1>1, <1>3, <1>4
  <1> QED
    BY <1>2, <1>3, <1>4, <1>6, <1>8, <1>9, <1>10 DEF Tall

LEMMA LoweredIsGraph ==
  ASSUME NEW up, NEW below, NEW upper, Graph(below), Graph(upper),
         up.orient \in [DOMAIN below.diff -> 0 .. 3],
         NEW L, L = Lowered(upper, below, up)
  PROVE  Graph(L) /\ L.F2E = below.F2E /\ DOMAIN L.diff = DOMAIN below.diff
  <1>1. PICK Down, T : /\ Down = [e \in DOMAIN below.diff |->
                              IF up.edge[e] \in DOMAIN upper.diff
                              THEN rshift90(upper.diff[up.edge[e]], (4 - up.orient[e]) % 4)
                              ELSE Zero]
                    /\ T = [f \in DOMAIN below.F2E |->
                              IF f \in DOMAIN upper.F2E
                              THEN [j \in Corner |-> (upper.FQ[f][j] + up.orient[below.F2E[f][j]]) % 4]
                              ELSE below.FQ[f]]
                    /\ L = [below EXCEPT !.diff = Down, !.FQ = T]
    BY DEF Lowered
  <1>2. /\ L.F2E = below.F2E /\ L.allow = below.allow /\ DOMAIN L = DOMAIN below
        /\ L.diff = Down /\ L.FQ = T
    <2>1. "diff" \in DOMAIN below /\ "FQ" \in DOMAIN below
      BY DEF Graph
    <2>2. PICK K : K = [below EXCEPT !.diff = Down]
      OBVIOUS
    <2>3. DOMAIN K = DOMAIN below /\ K.diff = Down /\ K.F2E = below.F2E /\ K.allow = below.allow
      BY <2>1, <2>2
    <2>4. L = [K EXCEPT !.FQ = T]
      BY <2>2, <1>1
    <2>5. DOMAIN L = DOMAIN K /\ L.FQ = T /\ L.diff = K.diff /\ L.F2E = K.F2E /\ L.allow = K.allow
      BY <2>1, <2>3, <2>4
    <2> QED
      BY <2>3, <2>5
  <1>3. ASSUME NEW e \in DOMAIN below.diff PROVE Down[e] \in Vec
    <2>1. CASE up.edge[e] \in DOMAIN upper.diff
      <3>1. PICK u \in DOMAIN upper.diff : u = up.edge[e] /\ upper.diff[u] \in Vec
        BY <2>1, GraphFacts
      <3>2. PICK o \in 0 .. 3 : o = up.orient[e]
        OBVIOUS
      <3>3. (4 - o) % 4 \in 0 .. 3
        OBVIOUS
      <3>4. Down[e] = rshift90(upper.diff[u], (4 - o) % 4)
        BY <1>1, <2>1, <3>1, <3>2
      <3> QED
        BY <3>1, <3>3, <3>4, TurnType
    <2>2. CASE up.edge[e] \notin DOMAIN upper.diff
      BY <2>2, <1>1, ZeroTurned
    <2> QED
      BY <2>1, <2>2
  <1>4. ASSUME NEW f \in DOMAIN below.F2E PROVE T[f] \in [Corner -> 0 .. 3]
    <2>1. CASE f \in DOMAIN upper.F2E
      <3>1. ASSUME NEW j \in Corner
            PROVE  (upper.FQ[f][j] + up.orient[below.F2E[f][j]]) % 4 \in 0 .. 3
        <4>1. PICK a \in 0 .. 3, o \in 0 .. 3 : a = upper.FQ[f][j] /\ o = up.orient[below.F2E[f][j]]
          BY <2>1, GraphFacts
        <4>2. (a + o) % 4 \in 0 .. 3
          OBVIOUS
        <4> QED
          BY <4>1, <4>2
      <3> QED
        BY <3>1, <2>1, <1>1
    <2>2. CASE f \notin DOMAIN upper.F2E
      BY <2>2, <1>1 DEF Graph
    <2> QED
      BY <2>1, <2>2
  <1>5. Down \in [DOMAIN below.diff -> Vec] /\ T \in [DOMAIN below.F2E -> [Corner -> 0 .. 3]]
    BY <1>1, <1>3, <1>4
  <1> QED
    BY <1>2, <1>5 DEF Graph

LEMMA TallLowered ==
  ASSUME NEW ls, NEW us, NEW ids, NEW edges, Tall(ls, us, ids, edges),
         NEW n, n = Len(ls) - 1, n # 0
  PROVE  Tall([k \in 1 .. n |-> IF k = n THEN Lowered(ls[n + 1], ls[n], us[n]) ELSE ls[k]],
              SubSeq(us, 1, n - 1), ids, edges)
  <1>1. n \in Nat /\ n >= 1 /\ Len(ls) = n + 1 /\ Len(us) = n
    BY StackFacts DEF Tall
  <1>2. PICK L : L = Lowered(ls[n + 1], ls[n], us[n])
    OBVIOUS
  <1>3. PICK t, u : /\ t = [k \in 1 .. n |-> IF k = n THEN L ELSE ls[k]]
                    /\ u = SubSeq(us, 1, n - 1)
    OBVIOUS
  <1>4. Graph(L) /\ L.F2E = ls[n].F2E /\ DOMAIN L.diff = DOMAIN ls[n].diff
    <2>1. n \in 1 .. Len(us) /\ n \in 1 .. Len(ls) /\ n + 1 \in 1 .. Len(ls)
      BY <1>1
    <2>2. Graph(ls[n]) /\ Graph(ls[n + 1]) /\ us[n].orient \in [DOMAIN ls[n].diff -> 0 .. 3]
      BY <2>1 DEF Tall
    <2> QED
      BY <2>2, <1>2, LoweredIsGraph
  <1>5. Stack(t) /\ Len(t) = n
    <2>1. PICK S : S = {t[k] : k \in 1 .. n}
      OBVIOUS
    <2>2. t \in [1 .. n -> S] /\ n \in Nat
      BY <2>1, <1>1, <1>3
    <2>3. t \in Seq(S) /\ Len(t) = n
      BY <2>2
    <2> QED
      BY <2>3 DEF Stack
  <1>6. Stack(u) /\ Len(u) = n - 1 /\ \A k \in 1 .. (n - 1) : u[k] = us[k]
    <2>1. PICK S : us \in Seq(S)
      BY DEF Tall, Stack
    <2>2. u \in Seq(S) /\ Len(u) = n - 1 /\ \A k \in 1 .. (n - 1) : u[k] = us[k]
      BY <2>1, <1>1, <1>3
    <2> QED
      BY <2>2 DEF Stack
  <1>7. ASSUME NEW k \in 1 .. n
        PROVE  Graph(t[k]) /\ t[k].F2E = ls[k].F2E /\ DOMAIN t[k].diff = DOMAIN ls[k].diff
    <2>1. k \in 1 .. Len(ls)
      BY <1>1
    <2> QED
      BY <2>1, <1>3, <1>4 DEF Tall
  <1>8. \A k \in 1 .. (n - 1) : u[k].orient \in [DOMAIN t[k].diff -> 0 .. 3]
    <2>1. \A k \in 1 .. (n - 1) : k \in 1 .. n
      BY <1>1
    <2> QED
      BY <2>1, <1>1, <1>6, <1>7 DEF Tall
  <1>9. t[1].F2E = ids /\ DOMAIN t[1].diff = edges
    <2>1. 1 \in 1 .. n
      BY <1>1
    <2> QED
      BY <2>1, <1>7 DEF Tall
  <1> QED
    BY <1>1, <1>2, <1>3, <1>5, <1>6, <1>7, <1>8, <1>9 DEF Tall

Tower == Tall(levels, ups, face_edgeIds, DOMAIN edge_diff)
Untowered == levels = <<>> /\ ups = <<>> /\ base = 0
Repairing == {"contract", "chains", "follow", "fix", "propagate", "done"}

(* What ComputeIndexMap keeps; nothing is said of a repair alone.            *)
MapInv ==
  \/ surface = NoSurface /\ pc \notin {"index", "split"}
  \/ pc \in {"exit", "spinning", "end"}
  \/ pc = "index" /\ OnSurface /\ (pass = 2 \/ Untowered)
  \/ pc = "split" /\ BeingHalved /\ (pass = 2 \/ Untowered)
  \/ /\ pc = "called" /\ OnSurface /\ IInv
     /\ mesh.F2E = face_edgeIds /\ DOMAIN mesh.diff = DOMAIN edge_diff
  \/ pc \in Repairing /\ OnSurface /\ IInv /\ Tower /\ (pc = "done" => Len(levels) = 1)

LEMMA TowerSame ==
  ASSUME UNCHANGED subdivision
  PROVE  /\ OnSurface => OnSurface'
         /\ levels' = levels /\ ups' = ups /\ Tower => Tower'
         /\ face_edgeIds' = face_edgeIds /\ DOMAIN edge_diff' = DOMAIN edge_diff
         /\ surface' = surface /\ pass' = pass
  <1>1. /\ UNCHANGED <<graph, F, mE2E, Q, Boundary_edges, edge_values>>
        /\ face_edgeIds' = face_edgeIds /\ edge_diff' = edge_diff /\ surface' = surface /\ pass' = pass
    BY DEF subdivision, halving, graph
  <1>2. OnSurface => OnSurface'
    <2> SUFFICES ASSUME OnSurface PROVE OnSurface'
      OBVIOUS
    <2>1. PICK n, m : Surfaced(n, m)
      BY DEF OnSurface
    <2>2. Surfaced(n, m)'
      BY <1>1, <2>1, SurfaceSame
    <2> QED
      BY <2>2 DEF OnSurface
  <1>3. levels' = levels /\ ups' = ups /\ Tower => Tower'
    BY <1>1 DEF Tower
  <1> QED
    BY <1>1, <1>2, <1>3

(* Every step of FixFlipHierarchy after the first keeps the tower.           *)
LEMMA TowerKept ==
  ASSUME Next, IInv, IInv', Tower, pc \in Repairing, UNCHANGED subdivision
  PROVE  /\ Tower' /\ pc' \in Repairing \union {"exit"}
         /\ pc' = "done" => Len(levels') = 1
  <1>1. face_edgeIds' = face_edgeIds /\ DOMAIN edge_diff' = DOMAIN edge_diff
    BY TowerSame
  <1>2. PICK ids, edges : ids = face_edgeIds /\ edges = DOMAIN edge_diff
    OBVIOUS
  <1>3. Tall(levels, ups, ids, edges)
    BY <1>2 DEF Tower
  <1>4. Tall(levels', ups', ids, edges) => Tower'
    BY <1>1, <1>2 DEF Tower
  <1>5. CASE Contract \/ Classify \/ StartChain \/ Cross \/ EndChain \/ DeadEnd \/ NextLength \/ GiveUp
    <2>1. levels' = levels /\ ups' = ups
      BY <1>5 DEF Contract, Classify, StartChain, Cross, EndChain, DeadEnd, NextLength, GiveUp
    <2>2. pc' \in (Repairing \ {"done"}) \union {"exit"}
      BY <1>5 DEF Contract, Classify, StartChain, Cross, EndChain, DeadEnd, NextLength, GiveUp, Repairing
    <2> QED
      BY <2>1, <2>2, <1>3, <1>4
  <1>6. CASE Lift
    <2>1. pc = "chains" /\ pc' \in {"fix", "contract"}
      BY <1>6 DEF Lift
    <2>2. pc' \in Repairing /\ pc' # "done"
      BY <2>1 DEF Repairing
    <2>3. CASE Cardinality(UpperEdges) = Cardinality(Edges)
      <3>1. levels' = levels /\ ups' = ups
        BY <1>6, <2>3 DEF Lift
      <3> QED
        BY <3>1, <2>2, <1>3, <1>4
    <2>4. CASE Cardinality(UpperEdges) # Cardinality(Edges)
      <3>1. PICK L, up : /\ L = UpperLevel /\ up = [edge |-> toUpper, orient |-> toUpperOrients]
                         /\ pc' = "contract" /\ levels' = Append(levels, L)
                         /\ ups' = Append(ups, up)
        BY <1>6, <2>4 DEF Lift
      <3>2. Working /\ Working'
        BY <2>1, <3>1 DEF IInv
      <3>3. up.orient \in [DOMAIN levels[Len(levels)].diff -> 0 .. 3]
        BY <2>1, <3>1, <3>2 DEF Working, Contracting, Contracts, Top
      <3>4. Graph(L)
        <4>1. Len(Append(levels, L)) = Len(levels) + 1 /\ Append(levels, L)[Len(levels) + 1] = L
          <5>1. Stack(levels)
            BY <3>2 DEF Working, Stacked
          <5> QED
            BY ONLY <5>1, StackFacts, ZenonT(40)
        <4>2. Graph(levels'[Len(levels')])
          BY <3>2 DEF Working, Level, Top
        <4> QED
          BY <4>1, <4>2, <3>1
      <3>5. Tall(Append(levels, L), Append(ups, up), ids, edges)
        BY <1>3, <3>3, <3>4, TallGrown
      <3> QED
        BY <3>1, <3>5, <2>2, <1>4
    <2> QED
      BY <2>3, <2>4
  <1>7. ASSUME NEW L, levels' = [levels EXCEPT ![Len(levels)] = L], ups' = ups, Graph(L),
               L.F2E = Top.F2E, DOMAIN L.diff = DOMAIN Top.diff
        PROVE  Tower'
    <2>1. Tall([levels EXCEPT ![Len(levels)] = L], ups, ids, edges)
      BY <1>3, <1>7, TallReplaced DEF Top
    <2> QED
      BY <2>1, <1>4, <1>7
  <1>8. ASSUME NEW L, levels' = [levels EXCEPT ![Len(levels)] = L], Working, Working'
        PROVE  Graph(L)
    <2>1. Stack(levels) /\ Len(levels) >= 1
      BY <1>8 DEF Working, Stacked
    <2>2. Len(levels') = Len(levels) /\ levels'[Len(levels)] = L
      BY ONLY <2>1, <1>8, StackFacts, ZenonT(40)
    <2>3. Graph(levels'[Len(levels')])
      BY <1>8 DEF Working, Level, Top
    <2> QED
      BY <2>2, <2>3
  <1>9. CASE Recurse
    <2>1. pc = "fix" /\ pc' = "contract"
      BY <1>9 DEF Recurse
    <2>2. Working /\ Working'
      BY <2>1 DEF IInv
    <2>3. PICK L : /\ L = FirstLevel(Top.F2E, Top.FQ, Top.diff, Top.allow)
                   /\ levels' = [levels EXCEPT ![Len(levels)] = L] /\ ups' = ups
      BY <1>9 DEF Recurse
    <2>4. L.F2E = Top.F2E /\ L.diff = Top.diff
      BY <2>3 DEF FirstLevel
    <2>5. Tower'
      BY <2>2, <2>3, <2>4, <1>7, <1>8
    <2> QED
      BY <2>1, <2>5 DEF Repairing
  <1>10. CASE FixFace
    <2>1. pc = "fix" /\ pc' = "fix" /\ ups' = ups
      BY <1>10 DEF FixFace
    <2>2. Working /\ Working'
      BY <2>1 DEF IInv
    <2>3. levels' = levels \/ \E d : levels' = [levels EXCEPT ![Len(levels)] = Shrunk(Fan(d))]
      BY <1>10 DEF FixFace
    <2>4. CASE levels' = levels
      BY <2>1, <2>4, <1>3, <1>4 DEF Repairing
    <2>5. ASSUME NEW d, levels' = [levels EXCEPT ![Len(levels)] = Shrunk(Fan(d))]
          PROVE  Tower'
      <3>1. PICK L : L = Shrunk(Fan(d))
        OBVIOUS
      <3>2. L.F2E = Top.F2E /\ DOMAIN L.diff = DOMAIN Top.diff
        <4>1. "diff" \in DOMAIN Top
          BY <2>2 DEF Working, Level, Graph
        <4> QED
          BY <4>1, <3>1 DEF Shrunk, Edges
      <3> QED
        BY <3>1, <3>2, <2>1, <2>2, <2>5, <1>7, <1>8
    <2> QED
      BY <2>1, <2>3, <2>4, <2>5 DEF Repairing
  <1>11. CASE PropagateEdge
    <2>1. CASE Len(levels) = 1
      <3>1. levels' = levels /\ ups' = ups /\ pc' = "done"
        BY <1>11, <2>1 DEF PropagateEdge
      <3> QED
        BY <3>1, <2>1, <1>3, <1>4 DEF Repairing
    <2>2. CASE Len(levels) # 1
      <3>1. PICK n : /\ n = Len(levels) - 1
                     /\ levels' = [k \in 1 .. n |->
                          IF k = n THEN Lowered(levels[n + 1], levels[n], ups[n]) ELSE levels[k]]
                     /\ ups' = SubSeq(ups, 1, n - 1) /\ pc' = pc /\ pc = "propagate"
        BY <1>11, <2>2 DEF PropagateEdge
      <3>2. n # 0
        BY <3>1, <2>2, <1>3, StackFacts DEF Tall
      <3>3. Tower'
        BY <3>1, <3>2, <1>3, <1>4, TallLowered
      <3> QED
        BY <3>1, <3>3 DEF Repairing
    <2> QED
      BY <2>1, <2>2
  <1>12. ~ Begin
    BY DEF Begin, Repairing
  <1> QED
    BY <1>5, <1>6, <1>9, <1>10, <1>11, <1>12 DEF Next

(* The first level is that of the surface.                                   *)
LEMMA TowerBegun ==
  ASSUME Begin, IInv, IInv', mesh.F2E = face_edgeIds, DOMAIN mesh.diff = DOMAIN edge_diff,
         UNCHANGED subdivision
  PROVE  Tower' /\ pc' = "contract"
  <1>1. PICK L : /\ L = FirstLevel(mesh.F2E, mesh.FQ, mesh.diff, mesh.allow)
                 /\ levels' = <<L>> /\ pc = "called" /\ pc' = "contract" /\ ups' = ups
    BY DEF Begin
  <1>2. ups = <<>> /\ Working'
    BY <1>1 DEF IInv, Working
  <1>3. Len(levels') = 1 /\ levels'[1] = L /\ Len(ups') = 0
    BY <1>1, <1>2
  <1>4. Graph(L) /\ Stack(levels') /\ Stack(ups')
    BY <1>2, <1>3 DEF Working, Level, Top, Stacked
  <1>5. L.F2E = mesh.F2E /\ L.diff = mesh.diff
    BY <1>1 DEF FirstLevel
  <1>6. face_edgeIds' = face_edgeIds /\ DOMAIN edge_diff' = DOMAIN edge_diff
    BY TowerSame
  <1>7. \A k \in 1 .. 1 : k = 1
    OBVIOUS
  <1>8. Tall(levels', ups', face_edgeIds', DOMAIN edge_diff')
    BY <1>3, <1>4, <1>5, <1>6, <1>7 DEF Tall
  <1> QED
    BY <1>1, <1>8 DEF Tower

-----------------------------------------------------------------------------
(***************************************************************************)
(* ComputeIndexMap, and the theorem.                                       *)
(***************************************************************************)
LEMMA SurfaceBegins ==
  ASSUME surface \in Surfaces, F = surface.F, mE2E = surface.mE2E, Q = surface.Q,
         Boundary_edges = {x \in Halves : mE2E[x] = NoDart},
         edge_values = surface.edge_values, edge_diff = surface.edge_diff,
         face_edgeIds = surface.face_edgeIds, face_edgeOrients = surface.face_edgeOrients
  PROVE  OnSurface
  <1>1. PICK n, m, v : n = Len(F) /\ m = Len(edge_diff) /\ v = Len(Q)
    OBVIOUS
  <1>2. PICK s : s = surface /\ Manifold(s)
    BY SurfacesAssumption
  <1>3. /\ s.Q = Q /\ s.F = F /\ s.mE2E = mE2E /\ s.edge_diff = edge_diff
        /\ s.edge_values = edge_values /\ s.face_edgeIds = face_edgeIds
        /\ s.face_edgeOrients = face_edgeOrients
    BY <1>2
  <1>4. /\ Q \in Seq(0 .. 11) /\ F \in Seq([Corner -> DOMAIN Q])
        /\ edge_diff \in Seq(Vec) /\ DOMAIN edge_values = DOMAIN edge_diff
        /\ face_edgeIds \in [DOMAIN F -> [Corner -> DOMAIN edge_diff]]
        /\ face_edgeOrients \in [DOMAIN F -> [Corner -> 0 .. 3]]
        /\ mE2E \in [(DOMAIN F) \X Corner -> ((DOMAIN F) \X Corner) \union {NoDart}]
        /\ \A f \in DOMAIN F : \A i, j \in Corner : F[f][i] = F[f][j] => i = j
    BY ONLY <1>2, <1>3 DEF Manifold, Vec, Corner
  <1>5. /\ n \in Nat /\ m \in Nat /\ v \in Nat /\ DOMAIN F = 1 .. n /\ DOMAIN Q = 1 .. v
        /\ DOMAIN edge_diff = 1 .. m
    BY ONLY <1>1, <1>4
  <1>6. /\ Halves = Darts(n) /\ mE2E \in [Darts(n) -> Darts(n) \union {NoDart}]
        /\ DOMAIN edge_values = 1 .. m /\ face_edgeIds \in [1 .. n -> [Corner -> 1 .. m]]
        /\ face_edgeOrients \in [1 .. n -> [Corner -> 0 .. 3]]
    BY ONLY <1>4, <1>5 DEF Halves, Darts
  <1>7. F \in [1 .. n -> [Corner -> 1 .. v]] /\ edge_diff \in [1 .. m -> Vec]
    <2>1. PICK S : S = [Corner -> 1 .. v] /\ F \in Seq(S)
      BY ONLY <1>4, <1>5
    <2>2. F \in [1 .. n -> S] /\ edge_diff \in [1 .. m -> Vec]
      BY ONLY <2>1, <1>1, <1>4
    <2> QED
      BY ONLY <2>1, <2>2
  <1>8. Tables(n, v, m, F, mE2E, face_edgeIds, edge_values)
    BY <1>4, <1>5, <1>6, <1>7 DEF Tables
  <1>9. /\ \A e \in 1 .. m : \E x \in Darts(n) : Num(face_edgeIds, x) = e
        /\ \A x \in Darts(n) :
             /\ edge_values[Num(face_edgeIds, x)] = {StartIn(F, x), EndIn(F, x)}
             /\ \A y \in Darts(n) : Num(face_edgeIds, x) = Num(face_edgeIds, y) => y = x \/ y = mE2E[x]
             /\ mE2E[x] # NoDart =>
                  /\ mE2E[mE2E[x]] = x /\ Num(face_edgeIds, mE2E[x]) = Num(face_edgeIds, x)
                  /\ StartIn(F, mE2E[x]) = EndIn(F, x) /\ StartIn(F, x) = EndIn(F, mE2E[x])
    <2>1. (DOMAIN s.F) \X (1 .. 3) = Darts(n) /\ DOMAIN s.edge_diff = 1 .. m
      BY ONLY <1>3, <1>5 DEF Darts, Corner
    <2>2. \A e \in DOMAIN s.edge_diff : \E x \in (DOMAIN s.F) \X (1 .. 3) : Num(s.face_edgeIds, x) = e
      BY ONLY <1>2, Zenon DEF Manifold, Num
    <2>3. ASSUME NEW x \in (DOMAIN s.F) \X (1 .. 3)
          PROVE  /\ s.edge_values[Num(s.face_edgeIds, x)] = {StartIn(s.F, x), EndIn(s.F, x)}
                 /\ \A y \in (DOMAIN s.F) \X (1 .. 3) :
                      Num(s.face_edgeIds, x) = Num(s.face_edgeIds, y) => y = x \/ y = s.mE2E[x]
                 /\ s.mE2E[x] # NoDart =>
                      /\ s.mE2E[s.mE2E[x]] = x /\ Num(s.face_edgeIds, s.mE2E[x]) = Num(s.face_edgeIds, x)
                      /\ StartIn(s.F, s.mE2E[x]) = EndIn(s.F, x) /\ StartIn(s.F, x) = EndIn(s.F, s.mE2E[x])
      BY ONLY <1>2, <2>3, Zenon DEF Manifold, Num, StartIn, EndIn
    <2>4. \A e \in 1 .. m : \E x \in Darts(n) : Num(face_edgeIds, x) = e
      BY ONLY <2>1, <2>2, <1>3
    <2> QED
      BY ONLY <2>1, <2>3, <2>4, <1>3
  <1>10. ASSUME NEW x \in Darts(n)
         PROVE  Joined(n, F, mE2E, face_edgeIds, edge_values, Boundary_edges, x)
    <2>1. mE2E[x] = NoDart <=> x \in Boundary_edges
      BY <1>6
    <2>2. mE2E[x] # NoDart => mE2E[x] \in Darts(n) /\ Crossed(F, mE2E, face_edgeIds, x, mE2E[x])
      BY <1>6, <1>9 DEF Crossed
    <2> QED
      BY <2>1, <2>2, <1>9 DEF Joined
  <1>11. \A y, x \in Darts(n) : Alike(face_edgeIds, mE2E, y, x)
    BY <1>9 DEF Alike
  <1>12. Sewn(n, v, m, F, mE2E, face_edgeIds, edge_values, Boundary_edges)
    BY <1>8, <1>9, <1>10, <1>11 DEF Sewn
  <1>13. Surfaced(n, m)
    BY <1>1, <1>4, <1>5, <1>6, <1>7, <1>12 DEF Surfaced
  <1> QED
    BY <1>13 DEF OnSurface

LEMMA MapBegins ==
  ASSUME IndexMapInit
  PROVE  MapInv
  <1>1. CASE Init /\ surface = NoSurface
    BY <1>1 DEF Init, MapInv
  <1>2. CASE ~ (Init /\ surface = NoSurface)
    <2>1. /\ surface \in Surfaces /\ F = surface.F /\ mE2E = surface.mE2E /\ Q = surface.Q
          /\ Boundary_edges = {x \in Halves : mE2E[x] = NoDart}
          /\ edge_values = surface.edge_values /\ edge_diff = surface.edge_diff
          /\ face_edgeIds = surface.face_edgeIds /\ face_edgeOrients = surface.face_edgeOrients
          /\ pc = "index" /\ levels = <<>> /\ ups = <<>> /\ base = 0
      BY <1>2 DEF IndexMapInit
    <2>2. OnSurface
      BY ONLY <2>1, SurfaceBegins
    <2> QED
      BY <2>1, <2>2 DEF MapInv, Untowered
  <1> QED
    BY <1>1, <1>2

LEMMA EndKeeps ==
  ASSUME EndSubdivision, MapInv
  PROVE  MapInv'
  <1>1. pc = "split" /\ BeingHalved /\ (pass = 2 \/ Untowered)
    BY DEF EndSubdivision, MapInv, Repairing
  <1>2. CASE pc' \in {"exit", "end"}
    BY <1>2 DEF MapInv
  <1>3. CASE pc' \notin {"exit", "end"}
    <2>1. PICK M : /\ pc' = "called" /\ mesh' = M /\ pass # 2
                   /\ M = [F2E |-> face_edgeIds, FQ |-> face_edgeOrients, diff |-> edge_diff,
                           allow |-> [d \in DOMAIN edge_diff |-> <<1, 1>>]]
                   /\ UNCHANGED subdivision /\ levels' = levels /\ ups' = ups /\ base' = base
      BY <1>3 DEF EndSubdivision
    <2>2. PICK n, m : Surfaced(n, m)
      BY <1>1 DEF BeingHalved
    <2>3. Triangulated(mesh')
      BY <2>1, <2>2, SurfaceIsMesh
    <2>4. levels' = <<>> /\ ups' = <<>> /\ base' = 0
      BY <1>1, <2>1 DEF Untowered
    <2>5. OnSurface
      BY <2>2 DEF OnSurface
    <2>6. OnSurface' /\ face_edgeIds' = face_edgeIds /\ DOMAIN edge_diff' = DOMAIN edge_diff
      BY <2>1, <2>5, TowerSame
    <2>7. mesh'.F2E = face_edgeIds' /\ DOMAIN mesh'.diff = DOMAIN edge_diff'
      BY <2>1, <2>6
    <2>8. IInv'
      BY <2>1, <2>3, <2>4 DEF IInv
    <2> QED
      BY <2>1, <2>6, <2>7, <2>8 DEF MapInv
  <1> QED
    BY <1>2, <1>3

LEMMA UpdateKeeps ==
  ASSUME UpdateGraphValue, MapInv
  PROVE  MapInv'
  <1>1. pc = "done" /\ OnSurface /\ Tower /\ Len(levels) = 1
    BY DEF UpdateGraphValue, MapInv
  <1>2. PICK L : /\ L = levels[1] /\ face_edgeIds' = L.F2E /\ face_edgeOrients' = L.FQ
                 /\ edge_diff' = L.diff /\ pc' = "index" /\ pass' = 2 /\ UNCHANGED halving
    BY <1>1 DEF UpdateGraphValue, Top
  <1>3. Graph(L) /\ L.F2E = face_edgeIds /\ DOMAIN L.diff = DOMAIN edge_diff
    <2>1. 1 \in 1 .. Len(levels)
      BY <1>1
    <2> QED
      BY <2>1, <1>1, <1>2 DEF Tower, Tall
  <1>4. PICK n, m : Surfaced(n, m)
    BY <1>1 DEF OnSurface
  <1>5. /\ F' = F /\ mE2E' = mE2E /\ Q' = Q /\ Boundary_edges' = Boundary_edges
        /\ edge_values' = edge_values /\ face_edgeIds' = face_edgeIds
    BY <1>2, <1>3 DEF halving
  <1>6. edge_diff' \in [1 .. m -> Vec] /\ face_edgeOrients' \in [1 .. n -> [Corner -> 0 .. 3]]
    <2>1. DOMAIN L.diff = 1 .. m /\ DOMAIN L.F2E = 1 .. n
      BY <1>3, <1>4 DEF Surfaced, Sewn, Tables
    <2> QED
      BY <2>1, <1>2, <1>3 DEF Graph
  <1>7. Surfaced(n, m)'
    BY <1>4, <1>5, <1>6 DEF Surfaced
  <1> QED
    BY <1>2, <1>7 DEF MapInv, OnSurface

LEMMA FixFlipKeeps ==
  ASSUME FixFlipHierarchy, MapInv
  PROVE  MapInv'
  <1>1. Next /\ UNCHANGED subdivision
    BY DEF FixFlipHierarchy
  <1>2. surface' = surface /\ (OnSurface => OnSurface')
        /\ face_edgeIds' = face_edgeIds /\ DOMAIN edge_diff' = DOMAIN edge_diff
    BY <1>1, TowerSame
  <1>3. pc \notin {"index", "split", "exit", "spinning", "end"} /\ pc' \notin {"index", "split"}
    <2>1. CASE Begin \/ Contract \/ Classify \/ StartChain \/ Cross \/ EndChain
      BY <2>1 DEF Begin, Contract, Classify, StartChain, Cross, EndChain
    <2>2. CASE DeadEnd \/ Lift \/ FixFace \/ NextLength \/ Recurse \/ GiveUp \/ PropagateEdge
      BY <2>2 DEF DeadEnd, Lift, FixFace, NextLength, Recurse, GiveUp, PropagateEdge
    <2> QED
      BY <1>1, <2>1, <2>2 DEF Next
  <1>4. CASE surface = NoSurface
    BY <1>2, <1>3, <1>4 DEF MapInv
  <1>5. CASE surface # NoSurface
    <2>1. OnSurface' /\ IInv
      BY <1>2, <1>3, <1>5 DEF MapInv
    <2>2. IInv'
      BY <1>1, <2>1, NextIsRight
    <2>3. CASE pc = "called"
      <3>1. Begin
        BY <1>1, <2>3 DEF Next, Contract, Classify, StartChain, Cross, EndChain, DeadEnd, Lift,
                          FixFace, NextLength, Recurse, GiveUp, PropagateEdge
      <3>2. mesh.F2E = face_edgeIds /\ DOMAIN mesh.diff = DOMAIN edge_diff
        BY <1>5, <2>3 DEF MapInv, Repairing
      <3>3. Tower' /\ pc' = "contract"
        BY <1>1, <2>1, <2>2, <3>1, <3>2, TowerBegun
      <3> QED
        BY <2>1, <2>2, <3>3 DEF MapInv, Repairing
    <2>4. CASE pc # "called"
      <3>1. pc \in Repairing /\ Tower
        BY <1>3, <1>5, <2>4 DEF MapInv
      <3>2. /\ Tower' /\ pc' \in Repairing \union {"exit"}
            /\ pc' = "done" => Len(levels') = 1
        BY <1>1, <2>1, <2>2, <3>1, TowerKept
      <3> QED
        BY <2>1, <2>2, <3>2 DEF MapInv
    <2> QED
      BY <2>3, <2>4
  <1> QED
    BY <1>4, <1>5

LEMMA MapStutters ==
  ASSUME MapInv, UNCHANGED <<vars, subdivision>>
  PROVE  MapInv'
  <1>1. /\ pc' = pc /\ UNCHANGED vars /\ UNCHANGED subdivision
        /\ mesh' = mesh /\ levels' = levels /\ ups' = ups /\ base' = base
    BY DEF vars
  <1>2. /\ surface' = surface /\ pass' = pass /\ (OnSurface => OnSurface') /\ (Tower => Tower')
        /\ face_edgeIds' = face_edgeIds /\ DOMAIN edge_diff' = DOMAIN edge_diff
    BY <1>1, TowerSame
  <1>3. IInv => IInv'
    BY <1>1, StutterIsRight
  <1>4. BeingHalved => BeingHalved'
    <2> SUFFICES ASSUME BeingHalved PROVE BeingHalved'
      OBVIOUS
    <2>1. PICK n, m : Surfaced(n, m) /\ Halving(n)
      BY DEF BeingHalved
    <2>2. /\ UNCHANGED <<graph, F, mE2E, Q, Boundary_edges, edge_values>>
          /\ edge_diff' = edge_diff /\ face_edgeIds' = face_edgeIds
          /\ face_edgeOrients' = face_edgeOrients /\ F' = F /\ Q' = Q
          /\ diffs' = diffs /\ face_spaces' = face_spaces /\ queue' = queue
      BY <1>1 DEF subdivision, halving, graph
    <2>3. Surfaced(n, m)'
      BY <2>1, <2>2, SurfaceSame
    <2>4. Halving(n)'
      BY <2>1, <2>2 DEF Halving
    <2> QED
      BY <2>3, <2>4 DEF BeingHalved
  <1>5. Untowered => Untowered'
    BY <1>1 DEF Untowered
  <1> QED
    BY <1>1, <1>2, <1>3, <1>4, <1>5 DEF MapInv

LEMMA MapKeeps ==
  ASSUME MapInv, [IndexMapNext]_<<vars, subdivision>>
  PROVE  MapInv'
  <1>1. CASE BeginSubdivision
    <2>1. pc = "index" /\ OnSurface /\ (pass = 2 \/ Untowered)
      BY <1>1 DEF BeginSubdivision, MapInv, Repairing
    <2>2. BeingHalved'
      BY <1>1, <2>1, BeginKeeps
    <2>3. pc' = "split" /\ pass' = pass /\ levels' = levels /\ ups' = ups /\ base' = base
      BY <1>1 DEF BeginSubdivision, hierarchy
    <2> QED
      BY <2>1, <2>2, <2>3 DEF MapInv, Untowered
  <1>2. CASE Discard
    <2>1. pc = "split" /\ BeingHalved /\ (pass = 2 \/ Untowered)
      BY <1>2 DEF Discard, MapInv, Repairing
    <2>2. BeingHalved'
      BY <1>2, <2>1, DiscardKeeps
    <2>3. pc' = pc /\ pass' = pass /\ levels' = levels /\ ups' = ups /\ base' = base
      BY <1>2 DEF Discard, hierarchy
    <2> QED
      BY <2>1, <2>2, <2>3 DEF MapInv, Untowered
  <1>3. CASE Halve
    <2>1. pc = "split" /\ BeingHalved /\ (pass = 2 \/ Untowered)
      BY <1>3 DEF Halve, MapInv, Repairing
    <2>2. pc' = "spinning" \/ (pc' = pc /\ BeingHalved')
      BY <1>3, <2>1, HalveKeeps
    <2>3. pass' = pass /\ levels' = levels /\ ups' = ups /\ base' = base
      BY <1>3 DEF Halve, hierarchy
    <2> QED
      BY <2>1, <2>2, <2>3 DEF MapInv, Untowered
  <1> QED
    BY <1>1, <1>2, <1>3, EndKeeps, UpdateKeeps, FixFlipKeeps, MapStutters DEF IndexMapNext

LEMMA HalvedAgree ==
  ASSUME BeingHalved
  PROVE  SidesAgree
  <1>1. PICK n, m : Surfaced(n, m) /\ Halving(n)
    BY DEF BeingHalved
  <1>2. /\ Sewn(n, Len(Q), m, F, mE2E, face_edgeIds, edge_values, Boundary_edges)
        /\ n \in Nat /\ DOMAIN F = 1 .. n /\ Halves = Darts(n)
    BY <1>1 DEF Surfaced, Sewn, Tables, Halves, Darts
  <1>3. ASSUME NEW x \in Darts(n)
        PROVE  LET y == mE2E[x] IN
               /\ edge_values[Id(x)] = Ends(x)
               /\ rshift90(edge_diff[Id(x)], face_edgeOrients[x[1]][x[2]]) = diffs[x]
               /\ (y = NoDart) = (x \in Boundary_edges)
               /\ y # NoDart =>
                    /\ mE2E[y] = x /\ Id(y) = Id(x)
                    /\ Start(y) = Start(Next3(x)) /\ Start(x) = Start(Next3(y))
    <2>1. Joined(n, F, mE2E, face_edgeIds, edge_values, Boundary_edges, x)
      BY <1>2 DEF Sewn
    <2>2. \A z : /\ Id(z) = Num(face_edgeIds, z) /\ Start(z) = StartIn(F, z)
                 /\ Start(Next3(z)) = EndIn(F, z)
      BY DEF Id, Num, Start, StartIn, EndIn, Next3
    <2>3. edge_values[Id(x)] = Ends(x)
      BY <2>1, <2>2 DEF Joined, Ends
    <2>4. rshift90(edge_diff[Id(x)], face_edgeOrients[x[1]][x[2]]) = diffs[x]
      BY <1>1 DEF Halving, Turned1, Id
    <2>5. (mE2E[x] = NoDart) = (x \in Boundary_edges)
      BY <2>1 DEF Joined
    <2>6. mE2E[x] # NoDart =>
            /\ mE2E[mE2E[x]] = x /\ Id(mE2E[x]) = Id(x)
            /\ Start(mE2E[x]) = Start(Next3(x)) /\ Start(x) = Start(Next3(mE2E[x]))
      BY <2>1, <2>2 DEF Joined, Crossed
    <2> QED
      BY <2>3, <2>4, <2>5, <2>6
  <1> QED
    BY <1>2, <1>3 DEF SidesAgree

(* For every surface that BuildEdgeInfo describes, whatever its differences, *)
(* turns and frames and however long its edges: while they are halved in     *)
(* place (subdivide.cpp:392-497), before and after flips are removed, the two*)
(* sides of an edge stay paired, with its number, ends and difference.       *)
THEOREM HalvingKeepsSidesTogether == IndexMapSpec => []SidesAgree
  <1>1. IndexMapInit => MapInv
    BY MapBegins
  <1>2. MapInv /\ [IndexMapNext]_<<vars, subdivision>> => MapInv'
    BY MapKeeps
  <1>3. MapInv => SidesAgree
    <2>1. pc # "split" => SidesAgree
      BY DEF SidesAgree
    <2> QED
      BY <2>1, HalvedAgree DEF MapInv, Repairing
  <1> QED
    BY <1>1, <1>2, <1>3, PTL DEF IndexMapSpec
=============================================================================
