--------------------------- MODULE QuadRepairProofs --------------------------
(***************************************************************************)
(* Proofs about QuadRepair, for every mesh of quads, every way to fill its *)
(* holes and every order of the splits.                                    *)
(***************************************************************************)
EXTENDS QuadRepair, RecursionTheorems, SequenceTheorems

(***************************************************************************)
(* Edges of a face, and meshes whose faces agree on their sense.           *)
(***************************************************************************)
LEMMA EdgeParts ==
  ASSUME NEW M, NEW e \in EdgesOf(M)
  PROVE  e = <<e[1], e[2]>> /\ e[1] \in DOMAIN M /\ e[2] \in Corner
  BY DEF EdgesOf

LEMMA EdgeFacts ==
  ASSUME NEW M, NEW e \in EdgesOf(M)
  PROVE  /\ Next4(e) \in EdgesOf(M) /\ Prev4(e) \in EdgesOf(M)
         /\ Next4(Prev4(e)) = e /\ Prev4(Next4(e)) = e
         /\ Next4(e)[1] = e[1] /\ Prev4(e)[1] = e[1]
         /\ Next4(e) # e /\ Prev4(e) # e /\ Next4(Next4(e)) # e
         /\ Next4(Next4(e)) = Prev4(Prev4(e))
  <1>1. PICK i \in DOMAIN M, j \in Corner : e = <<i, j>>
    BY DEF EdgesOf
  <1>2. CASE j = 1
    <2>1. Next4(e) = <<i, 2>> /\ Prev4(e) = <<i, 4>> /\ Next4(<<i, 2>>) = <<i, 3>>
          /\ Prev4(<<i, 4>>) = <<i, 3>> /\ Next4(<<i, 4>>) = <<i, 1>> /\ Prev4(<<i, 2>>) = <<i, 1>>
      BY <1>1, <1>2 DEF Next4, Prev4
    <2>. QED  BY <1>1, <1>2, <2>1 DEF EdgesOf, Corner
  <1>3. CASE j = 2
    <2>1. Next4(e) = <<i, 3>> /\ Prev4(e) = <<i, 1>> /\ Next4(<<i, 3>>) = <<i, 4>>
          /\ Prev4(<<i, 1>>) = <<i, 4>> /\ Next4(<<i, 1>>) = <<i, 2>> /\ Prev4(<<i, 3>>) = <<i, 2>>
      BY <1>1, <1>3 DEF Next4, Prev4
    <2>. QED  BY <1>1, <1>3, <2>1 DEF EdgesOf, Corner
  <1>4. CASE j = 3
    <2>1. Next4(e) = <<i, 4>> /\ Prev4(e) = <<i, 2>> /\ Next4(<<i, 4>>) = <<i, 1>>
          /\ Prev4(<<i, 2>>) = <<i, 1>> /\ Next4(<<i, 2>>) = <<i, 3>> /\ Prev4(<<i, 4>>) = <<i, 3>>
      BY <1>1, <1>4 DEF Next4, Prev4
    <2>. QED  BY <1>1, <1>4, <2>1 DEF EdgesOf, Corner
  <1>5. CASE j = 4
    <2>1. Next4(e) = <<i, 1>> /\ Prev4(e) = <<i, 3>> /\ Next4(<<i, 1>>) = <<i, 2>>
          /\ Prev4(<<i, 3>>) = <<i, 2>> /\ Next4(<<i, 3>>) = <<i, 4>> /\ Prev4(<<i, 1>>) = <<i, 4>>
      BY <1>1, <1>5 DEF Next4, Prev4
    <2>. QED  BY <1>1, <1>5, <2>1 DEF EdgesOf, Corner
  <1>. QED  BY <1>2, <1>3, <1>4, <1>5 DEF Corner

LEMMA NoneIsNoEdge == \A M : None \notin EdgesOf(M)
  BY DEF None, EdgesOf, Corner

(* Edges leave different vertices of a face, ...                             *)
Simple(M) == \A d, e \in EdgesOf(M) : d[1] = e[1] /\ From(M, d) = From(M, e) => d = e

(* ... and no two edges of a mesh have the same ends.                        *)
Injective(M) ==
  \A d, e \in EdgesOf(M) :
    From(M, d) = From(M, e) /\ From(M, Next4(d)) = From(M, Next4(e)) => d = e

Mesh(M, V) == M \in Seq([Corner -> V]) /\ Simple(M) /\ Injective(M)

LEMMA IntervalSize ==
  ASSUME NEW n, n \in Nat
  PROVE  IsFiniteSet(1 .. n) /\ Cardinality(1 .. n) = n
<1>1. 1 \in Int /\ n \in Int
  OBVIOUS
<1>2. IsFiniteSet(1 .. n) /\ Cardinality(1 .. n) = IF 1 > n THEN 0 ELSE n - 1 + 1
  BY <1>1, FS_Interval
<1>3. (IF 1 > n THEN 0 ELSE n - 1 + 1) = n
  OBVIOUS
<1> QED BY <1>2, <1>3

LEMMA CornersAreFour == IsFiniteSet(Corner) /\ Cardinality(Corner) = 4
<1>1. PICK n \in Nat : n = 4
  OBVIOUS
<1>2. IsFiniteSet(1 .. n) /\ Cardinality(1 .. n) = n
  BY IntervalSize
<1> QED BY <1>1, <1>2 DEF Corner

LEMMA SimpleMeans ==
  ASSUME NEW f, DOMAIN f = Corner
  PROVE  IsSimple(f) <=> \A j, k \in Corner : f[j] = f[k] => j = k
<1> DEFINE T == {f[j] : j \in Corner}
           h == [j \in Corner |-> f[j]]
<1>1. h \in Surjection(Corner, T)
  BY DEF Surjection
<1>2. Cardinality(T) <= 4 /\ (Cardinality(T) = 4 <=> h \in Injection(Corner, T))
  BY <1>1, CornersAreFour, FS_Surjection
<1>3. h \in Injection(Corner, T) <=> \A j, k \in Corner : f[j] = f[k] => j = k
  BY DEF Injection, IsInjective
<1> QED BY <1>2, <1>3 DEF IsSimple

LEMMA SimpleFacesMesh ==
  ASSUME NEW V, NEW M \in Seq([Corner -> V])
  PROVE  Simple(M) <=> \A i \in DOMAIN M : IsSimple(M[i])
<1>1. \A i \in DOMAIN M : DOMAIN M[i] = Corner
  OBVIOUS
<1>2. ASSUME Simple(M), NEW i \in DOMAIN M PROVE IsSimple(M[i])
  <2>1. ASSUME NEW j \in Corner, NEW k \in Corner, M[i][j] = M[i][k] PROVE j = k
    <3>1. <<i, j>> \in EdgesOf(M) /\ <<i, k>> \in EdgesOf(M)
      BY DEF EdgesOf
    <3>2. <<i, j>> = <<i, k>>
      BY <1>2, <2>1, <3>1 DEF Simple, From
    <3> QED BY <3>2
  <2> QED BY <1>1, <2>1, SimpleMeans
<1>3. ASSUME \A i \in DOMAIN M : IsSimple(M[i]) PROVE Simple(M)
  <2> SUFFICES ASSUME NEW d \in EdgesOf(M), NEW e \in EdgesOf(M), d[1] = e[1], From(M, d) = From(M, e)
               PROVE  d = e
    BY DEF Simple
  <2>1. d = <<d[1], d[2]>> /\ e = <<d[1], e[2]>> /\ d[1] \in DOMAIN M /\ d[2] \in Corner /\ e[2] \in Corner
    BY EdgeParts
  <2>2. M[d[1]][d[2]] = M[d[1]][e[2]]
    BY <2>1 DEF From
  <2>3. d[2] = e[2]
    BY <1>1, <1>3, <2>1, <2>2, SimpleMeans
  <2> QED BY <2>1, <2>3
<1> QED BY <1>2, <1>3

LEMMA EdgesCount ==
  ASSUME NEW V, NEW M \in Seq([Corner -> V])
  PROVE  IsFiniteSet(EdgesOf(M)) /\ Cardinality(EdgesOf(M)) = 4 * Len(M)
<1>1. DOMAIN M = 1 .. Len(M) /\ Len(M) \in Nat
  OBVIOUS
<1>2. IsFiniteSet(DOMAIN M) /\ Cardinality(DOMAIN M) = Len(M)
  <2>1. PICK n \in Nat : n = Len(M)
    BY <1>1
  <2>2. IsFiniteSet(1 .. n) /\ Cardinality(1 .. n) = n
    BY IntervalSize
  <2> QED BY <1>1, <2>1, <2>2
<1>3. IsFiniteSet((DOMAIN M) \X Corner)
      /\ Cardinality((DOMAIN M) \X Corner) = Cardinality(DOMAIN M) * Cardinality(Corner)
  BY <1>2, CornersAreFour, FS_Product
<1>4. Cardinality(DOMAIN M) * Cardinality(Corner) = 4 * Len(M)
  BY <1>1, <1>2, CornersAreFour
<1> QED BY <1>3, <1>4 DEF EdgesOf

LEMMA OrientedMeans ==
  ASSUME NEW V, NEW M \in Seq([Corner -> V])
  PROVE  IsOriented(M) <=> Injective(M)
<1> DEFINE E == EdgesOf(M)
           T == DirectedEdges(M)
           h == [e \in E |-> Ends(M, e)]
<1>1. h \in Surjection(E, T)
  BY DEF Surjection, DirectedEdges
<1>2. IsFiniteSet(E) /\ Cardinality(E) = 4 * Len(M)
  BY EdgesCount
<1>3. Cardinality(T) = Cardinality(E) <=> h \in Injection(E, T)
  <2> HIDE DEF E, T, h
  <2> QED BY <1>1, <1>2, FS_Surjection
<1>4. h \in Injection(E, T) <=> Injective(M)
  <2>1. h \in [E -> T]
    BY DEF DirectedEdges
  <2>2. \A d, e \in E : h[d] = h[e] <=> (From(M, d) = From(M, e) /\ From(M, Next4(d)) = From(M, Next4(e)))
    BY DEF Ends
  <2> HIDE DEF h
  <2> QED BY <2>1, <2>2 DEF Injection, IsInjective, Injective
<1> QED BY <1>2, <1>3, <1>4 DEF IsOriented

(***************************************************************************)
(* Opposites.                                                              *)
(***************************************************************************)
(* Of two edges with the same ends, one way and the other, each is the       *)
(* opposite of the other.                                                    *)
Across(M, d, e) ==
  From(M, d) = From(M, Next4(e)) /\ From(M, Next4(d)) = From(M, e)

Paired(O, E) ==
  O \in [E -> E \union {None}] /\ \A e \in E : O[e] # None => O[O[e]] = e

LEMMA OppositesFacts ==
  ASSUME NEW V, NEW M, Mesh(M, V)
  PROVE  /\ Paired(Opposites(M), EdgesOf(M))
         /\ \A e \in EdgesOf(M) : Opposites(M)[e] # None => Across(M, Opposites(M)[e], e)
         /\ \A d, e \in EdgesOf(M) : Across(M, d, e) => Opposites(M)[e] = d
<1> DEFINE E == EdgesOf(M)
           O == Opposites(M)
           S(e) == {d \in E : Across(M, d, e)}
<1>1. \A e \in E : O[e] = IF S(e) = {} THEN None ELSE CHOOSE d \in S(e) : TRUE
  <2> SUFFICES ASSUME NEW e \in E
               PROVE  O[e] = IF S(e) = {} THEN None ELSE CHOOSE d \in S(e) : TRUE
    OBVIOUS
  <2>1. S(e) = {d \in Leaving(M, Ends(M, e)[2]) : From(M, Next4(d)) = Ends(M, e)[1]}
    BY DEF Across, Leaving, Ends
  <2> HIDE DEF S
  <2> QED BY <2>1 DEF Opposites
<1>2. DOMAIN O = E
  BY DEF Opposites
<1>3. \A d, e \in E : d \in S(e) <=> Across(M, d, e)
  OBVIOUS
<1>4. \A e \in E : S(e) \subseteq E
  OBVIOUS
<1>5. \A e \in E : O[e] = None => S(e) = {}
  BY <1>1, <1>4, NoneIsNoEdge
<1>6. \A e \in E : O[e] # None => O[e] \in S(e)
  BY <1>1
<1>7. \A d, e \in E : Across(M, d, e) => O[e] = d
  <2> SUFFICES ASSUME NEW d \in E, NEW e \in E, Across(M, d, e) PROVE O[e] = d
    OBVIOUS
  <2>1. O[e] \in S(e)
    BY <1>3, <1>5, <1>6
  <2>2. O[e] \in E /\ Across(M, O[e], e)
    BY <2>1
  <2> QED BY <2>2 DEF Mesh, Injective, Across
<1>8. \A e \in E : O[e] # None => Across(M, O[e], e) /\ O[e] \in E
  BY <1>6
<1>9. Paired(O, E)
  <2>1. O \in [E -> E \union {None}]
    <3>1. O = [e \in E |-> O[e]]
      BY <1>2 DEF Opposites
    <3>2. \A e \in E : O[e] \in E \union {None}
      BY <1>8
    <3> HIDE DEF O, E
    <3> QED BY <3>1, <3>2
  <2>2. ASSUME NEW e \in E, O[e] # None PROVE O[O[e]] = e
    <3>1. Across(M, e, O[e])
      BY <1>8, <2>2 DEF Across
    <3> QED BY <1>7, <1>8, <2>2, <3>1
  <2> QED BY <2>1, <2>2 DEF Paired
<1> QED BY <1>7, <1>8, <1>9

(***************************************************************************)
(* Orbits of functions that are one to one where they are defined.         *)
(***************************************************************************)
OneToOne(next, D) ==
  /\ next \in [D -> D \union {None}] /\ None \notin D
  /\ \A x, y \in D : next[x] = next[y] /\ next[x] # None => x = y

Chain(w, next, D, e) ==
  /\ w \in Seq(D) /\ Len(w) > 0 /\ w[1] = e
  /\ \A k \in 1 .. (Len(w) - 1) : w[k + 1] = next[w[k]]
  /\ \A j, k \in 1 .. Len(w) : w[j] = w[k] => j = k

LEMMA ChainGrows ==
  ASSUME NEW D, NEW next, OneToOne(next, D), NEW e \in D, NEW w, Chain(w, next, D, e),
         next[w[Len(w)]] # None
  PROVE  /\ next[w[Len(w)]] \in D
         /\ next[w[Len(w)]] # e => \A k \in 1 .. Len(w) : w[k] # next[w[Len(w)]]
         /\ next[w[Len(w)]] # e => Chain(Append(w, next[w[Len(w)]]), next, D, e)
<1> DEFINE x == next[w[Len(w)]]
           n == Len(w)
<1>1. n \in Nat \ {0} /\ \A k \in 1 .. n : w[k] \in D
  BY DEF Chain
<1>2. x \in D
  BY <1>1 DEF OneToOne
<1>3. ASSUME x # e, NEW k \in 1 .. n PROVE w[k] # x
  <2> SUFFICES ASSUME w[k] = x PROVE FALSE
    OBVIOUS
  <2>1. k # 1
    BY <1>3 DEF Chain
  <2>2. k - 1 \in 1 .. (n - 1) /\ k - 1 \in 1 .. n /\ n \in 1 .. n /\ (k - 1) + 1 = k
    BY <1>1, <2>1
  <2>3. w[k] = next[w[k - 1]]
    BY <2>2 DEF Chain
  <2>4. w[k - 1] = w[n]
    BY <1>1, <2>2, <2>3 DEF OneToOne
  <2>5. k - 1 = n
    BY <2>2, <2>4 DEF Chain
  <2> QED BY <2>5
<1>4. ASSUME x # e PROVE Chain(Append(w, x), next, D, e)
  <2> DEFINE u == Append(w, x)
  <2>1. u \in Seq(D) /\ Len(u) = n + 1 /\ u[n + 1] = x /\ \A k \in 1 .. n : u[k] = w[k]
    BY <1>1, <1>2 DEF Chain
  <2>2. u[1] = e
    BY <1>1, <2>1 DEF Chain
  <2>3. ASSUME NEW k \in 1 .. (Len(u) - 1) PROVE u[k + 1] = next[u[k]]
    <3>1. CASE k = n
      BY <1>1, <2>1, <3>1
    <3>2. CASE k # n
      <4>1. k \in 1 .. (n - 1) /\ k \in 1 .. n /\ k + 1 \in 1 .. n
        BY <1>1, <2>1, <3>2
      <4> QED BY <2>1, <4>1 DEF Chain
    <3> QED BY <3>1, <3>2
  <2>4. ASSUME NEW j \in 1 .. Len(u), NEW k \in 1 .. Len(u), u[j] = u[k] PROVE j = k
    <3>1. j \in 1 .. n \/ j = n + 1
      BY <1>1, <2>1
    <3>2. k \in 1 .. n \/ k = n + 1
      BY <1>1, <2>1
    <3> QED BY <1>3, <1>4, <2>1, <2>4, <3>1, <3>2 DEF Chain
  <2> HIDE DEF u
  <2> QED BY <1>1, <2>1, <2>2, <2>3, <2>4 DEF Chain
<1> QED BY <1>2, <1>3, <1>4

(* What an orbit is.                                                         *)
IsOrbit(o, next, D, e) == Chain(o, next, D, e) /\ next[o[Len(o)]] \in {None, e}

(* The walk that an orbit is, from where it has come to.                     *)
Walks(W, next, D, e) ==
  \A w \in Seq(D) \ {<<>>} :
    W[w] = IF next[Last(w)] \in {None, e} \/ Len(w) >= Cardinality(D) THEN w
           ELSE W[Append(w, next[Last(w)])]

LEMMA OrbitWalks ==
  ASSUME NEW D, IsFiniteSet(D), NEW next, next \in [D -> D \union {None}], NEW e \in D
  PROVE  \E W : Walks(W, next, D, e) /\ Orbit(next, e) = W[<<e>>]
<1>0. PICK S : S = Seq(D) \ {<<>>}
  OBVIOUS
<1> DEFINE N == Cardinality(D)
           Stop(w) == next[Last(w)] \in {None, e} \/ Len(w) >= N
           By(g, w) == IF Stop(w) THEN w ELSE g[Append(w, next[Last(w)])]
<1>1. DOMAIN next = D /\ N \in Nat
  BY FS_CardinalityType
<1>2. Orbit(next, e) = (CHOOSE g : g = [w \in S |-> By(g, w)])[<<e>>]
  BY <1>0, <1>1 DEF Orbit
<1>3. \A w \in S : Last(w) = w[Len(w)] /\ Last(w) \in D /\ Len(w) \in Nat
  BY <1>0 DEF Last
<1>4. \A w \in S : ~ Stop(w) => next[Last(w)] \in D /\ Append(w, next[Last(w)]) \in S
                                /\ Len(Append(w, next[Last(w)])) = Len(w) + 1
  <2> SUFFICES ASSUME NEW w \in S, ~ Stop(w)
               PROVE  next[Last(w)] \in D /\ Append(w, next[Last(w)]) \in S
                      /\ Len(Append(w, next[Last(w)])) = Len(w) + 1
    OBVIOUS
  <2>1. next[Last(w)] \in D
    BY <1>3
  <2> QED BY <1>0, <2>1
<1>5. \E g : g = [w \in S |-> By(g, w)]
  <2>1. PICK W : W = [S -> S]
    OBVIOUS
  <2>2. PICK m : m = [w \in S |-> IF Len(w) >= N THEN 0 ELSE N - Len(w)]
    OBVIOUS
  <2> HIDE DEF By
  <2>3. PICK up : up = [g \in W |-> [w \in S |-> By(g, w)]]
    OBVIOUS
  <2>4. \A w \in S, g \in W : By(g, w) \in S
    BY <1>4, <2>1 DEF By
  <2>5. \A g \in W : up[g] = [w \in S |-> By(g, w)]
    BY <2>3
  <2>6. up \in [W -> W]
    <3>1. \A g \in W : [w \in S |-> By(g, w)] \in W
      BY <2>1, <2>4
    <3> QED BY <2>3, <3>1
  <2>7. m \in [S -> Nat]
    BY <1>1, <1>3, <2>2
  <2>8. \A w \in S : ~ Stop(w) => m[Append(w, next[Last(w)])] < m[w]
    <3> SUFFICES ASSUME NEW w \in S, ~ Stop(w) PROVE m[Append(w, next[Last(w)])] < m[w]
      OBVIOUS
    <3>1. Len(w) < N /\ Len(Append(w, next[Last(w)])) = Len(w) + 1 /\ Append(w, next[Last(w)]) \in S
      BY <1>1, <1>3, <1>4
    <3> QED BY <1>1, <1>3, <2>2, <3>1
  <2>9. \A w \in S : \A f, g \in W :
          (\A u \in S : m[u] < m[w] => f[u] = g[u]) => up[f][w] = up[g][w]
    <3> SUFFICES ASSUME NEW w \in S, NEW f \in W, NEW g \in W,
                        \A u \in S : m[u] < m[w] => f[u] = g[u]
                 PROVE  up[f][w] = up[g][w]
      OBVIOUS
    <3>1. By(f, w) = By(g, w)
      <4>1. CASE Stop(w)
        BY <4>1 DEF By
      <4>2. CASE ~ Stop(w)
        <5>1. f[Append(w, next[Last(w)])] = g[Append(w, next[Last(w)])]
          BY <1>4, <2>8, <4>2
        <5> QED BY <4>2, <5>1 DEF By
      <4> QED BY <4>1, <4>2
    <3>2. up[f] = [v \in S |-> By(f, v)] /\ up[g] = [v \in S |-> By(g, v)]
      BY <2>5
    <3> QED BY <3>1, <3>2
  <2>10. S # {}
    <3>1. <<e>> \in S
      BY <1>0
    <3> QED BY <3>1
  <2>11. ByMeasure(S, S, W, m, up)
    BY <2>1, <2>6, <2>7, <2>9, <2>10 DEF ByMeasure
  <2>12. PICK g \in W : g = up[g]
    BY <2>11, RecursionByMeasure
  <2> HIDE DEF By
  <2>13. g = [w \in S |-> By(g, w)]
    BY <2>5, <2>12
  <2> QED BY <2>13
<1> DEFINE W == CHOOSE g : g = [w \in S |-> By(g, w)]
<1>6. W = [w \in S |-> By(W, w)]
  <2> HIDE DEF By
  <2> QED BY <1>5
<1>7. \A w \in S : W[w] = IF Stop(w) THEN w ELSE W[Append(w, next[Last(w)])]
  <2> HIDE DEF W
  <2> QED BY <1>6
<1> QED BY <1>0, <1>2, <1>7 DEF Walks

LEMMA OrbitTyped ==
  ASSUME NEW D, IsFiniteSet(D), NEW next, next \in [D -> D \union {None}], NEW e \in D
  PROVE  Orbit(next, e) \in Seq(D) \ {<<>>}
<1>0. PICK S, N : S = Seq(D) \ {<<>>} /\ N = Cardinality(D)
  OBVIOUS
<1>1. PICK W : Walks(W, next, D, e) /\ Orbit(next, e) = W[<<e>>]
  BY OrbitWalks
<1> DEFINE Stop(w) == next[Last(w)] \in {None, e} \/ Len(w) >= N
<1>2. \A w \in S : W[w] = IF Stop(w) THEN w ELSE W[Append(w, next[Last(w)])]
  BY <1>0, <1>1 DEF Walks
<1>3. N \in Nat /\ <<e>> \in S
  BY <1>0, FS_CardinalityType
<1>4. \A w \in S : Len(w) \in Nat /\ (~ Stop(w) => Append(w, next[Last(w)]) \in S
                                      /\ Len(Append(w, next[Last(w)])) = Len(w) + 1)
  <2> SUFFICES ASSUME NEW w \in S
               PROVE  Len(w) \in Nat /\ (~ Stop(w) => Append(w, next[Last(w)]) \in S
                                        /\ Len(Append(w, next[Last(w)])) = Len(w) + 1)
    OBVIOUS
  <2>1. Last(w) \in D /\ w \in Seq(D)
    BY <1>0 DEF Last
  <2>2. ~ Stop(w) => next[Last(w)] \in D
    BY <2>1
  <2> QED BY <1>0, <2>1, <2>2
<1> DEFINE Bad == {n \in Nat : \E w \in S : N - Len(w) <= n /\ W[w] \notin S}
<1>5. Bad = {}
  <2> SUFFICES ASSUME Bad # {} PROVE FALSE
    OBVIOUS
  <2>1. PICK n \in Bad : \A k \in Bad : n <= k
    BY LeastNatural
  <2>2. PICK w \in S : N - Len(w) <= n /\ W[w] \notin S
    BY <2>1
  <2>3. ~ Stop(w)
    BY <1>2, <2>2
  <2> DEFINE u == Append(w, next[Last(w)])
  <2>4. u \in S /\ Len(u) = Len(w) + 1 /\ W[w] = W[u]
    BY <1>2, <1>4, <2>3
  <2>5. n - 1 \in Nat /\ N - Len(u) <= n - 1
    BY <1>3, <1>4, <2>2, <2>3, <2>4
  <2>6. n - 1 \in Bad
    BY <2>2, <2>4, <2>5
  <2> QED BY <2>1, <2>5, <2>6
<1>6. W[<<e>>] \in S
  <2> SUFFICES ASSUME W[<<e>>] \notin S PROVE FALSE
    OBVIOUS
  <2>1. N - Len(<<e>>) <= N
    BY <1>3
  <2>2. N \in Bad
    BY <1>3, <2>1
  <2> QED BY <1>5, <2>2
<1> QED BY <1>0, <1>1, <1>6

LEMMA OrbitIs ==
  ASSUME NEW D, IsFiniteSet(D), NEW next, OneToOne(next, D), NEW e \in D
  PROVE  IsOrbit(Orbit(next, e), next, D, e)
<1>0. PICK S : S = Seq(D) \ {<<>>}
  OBVIOUS
<1> DEFINE N == Cardinality(D)
           Stop(w) == next[Last(w)] \in {None, e} \/ Len(w) >= N
<1>1. DOMAIN next = D /\ N \in Nat
  BY FS_CardinalityType DEF OneToOne
<1>2. PICK W : Walks(W, next, D, e) /\ Orbit(next, e) = W[<<e>>]
  BY OrbitWalks DEF OneToOne
<1>3. \A w \in S : Last(w) = w[Len(w)] /\ Last(w) \in D /\ Len(w) \in Nat
  BY <1>0 DEF Last
<1>4. \A w \in S : ~ Stop(w) => next[Last(w)] \in D /\ Append(w, next[Last(w)]) \in S
                                /\ Len(Append(w, next[Last(w)])) = Len(w) + 1
  <2> SUFFICES ASSUME NEW w \in S, ~ Stop(w)
               PROVE  next[Last(w)] \in D /\ Append(w, next[Last(w)]) \in S
                      /\ Len(Append(w, next[Last(w)])) = Len(w) + 1
    OBVIOUS
  <2>1. next[Last(w)] \in D
    BY <1>3 DEF OneToOne
  <2> QED BY <1>0, <2>1
<1>7. \A w \in S : W[w] = IF Stop(w) THEN w ELSE W[Append(w, next[Last(w)])]
  BY <1>0, <1>2 DEF Walks
<1>8. \A n \in Nat : \A w \in S : Chain(w, next, D, e) /\ N - Len(w) <= n =>
                       Chain(W[w], next, D, e) /\ Stop(W[w]) /\ W[w] \in S
  <2> DEFINE Bad == {n \in Nat : \E w \in S : Chain(w, next, D, e) /\ N - Len(w) <= n /\
                       ~ (Chain(W[w], next, D, e) /\ Stop(W[w]) /\ W[w] \in S)}
  <2> SUFFICES ASSUME Bad # {} PROVE FALSE
    OBVIOUS
  <2>1. PICK n \in Bad : \A k \in Bad : n <= k
    BY LeastNatural
  <2>2. PICK w \in S : Chain(w, next, D, e) /\ N - Len(w) <= n /\
                       ~ (Chain(W[w], next, D, e) /\ Stop(W[w]) /\ W[w] \in S)
    BY <2>1
  <2>3. ~ Stop(w)
    BY <1>7, <2>2
  <2> DEFINE u == Append(w, next[Last(w)])
  <2>4. u \in S /\ Len(u) = Len(w) + 1 /\ W[w] = W[u]
    BY <1>4, <1>7, <2>3
  <2>5. Chain(u, next, D, e)
    BY <1>3, <2>2, <2>3, ChainGrows
  <2>6. n - 1 \in Nat /\ N - Len(u) <= n - 1
    BY <1>1, <1>3, <2>2, <2>3, <2>4
  <2>7. n - 1 \in Bad
    BY <2>2, <2>4, <2>5, <2>6
  <2> QED BY <2>1, <2>6, <2>7
<1>9. <<e>> \in S /\ Chain(<<e>>, next, D, e)
  BY <1>0 DEF Chain
<1> DEFINE o == W[<<e>>]
<1>10. Chain(o, next, D, e) /\ Stop(o) /\ o \in S
  <2>1. N - Len(<<e>>) <= N
    BY <1>1
  <2> QED BY <1>1, <1>8, <1>9, <2>1
<1> HIDE DEF o
<1>11. Last(o) = o[Len(o)] /\ Len(o) \in Nat \ {0}
  BY <1>0, <1>3, <1>10
<1>12. next[o[Len(o)]] \in {None, e}
  <2> SUFFICES ASSUME next[o[Len(o)]] \notin {None, e} PROVE FALSE
    OBVIOUS
  <2>1. next[o[Len(o)]] \in D /\ \A k \in 1 .. Len(o) : o[k] # next[o[Len(o)]]
    BY <1>10, ChainGrows
  <2>2. Len(o) >= N
    BY <1>10, <1>11
  <2> DEFINE T == D \ {next[o[Len(o)]]}
             h == [k \in 1 .. Len(o) |-> o[k]]
  <2>3. IsFiniteSet(T) /\ Cardinality(T) = N - 1
    BY <2>1, FS_RemoveElement
  <2>4. h \in Injection(1 .. Len(o), T)
    <3>1. \A k \in 1 .. Len(o) : o[k] \in T
      BY <1>10, <2>1 DEF Chain
    <3> QED BY <1>10, <3>1 DEF Injection, IsInjective, Chain
  <2>5. Cardinality(1 .. Len(o)) <= N - 1
    <3> HIDE DEF T, h
    <3> QED BY <2>3, <2>4, FS_Injection
  <2>6. Cardinality(1 .. Len(o)) = Len(o)
    BY <1>11, IntervalSize
  <2> QED BY <1>1, <1>11, <2>2, <2>5, <2>6
<1>13. Orbit(next, e) = o
  BY <1>2 DEF o
<1> QED BY <1>10, <1>12, <1>13 DEF IsOrbit

(***************************************************************************)
(* Chosen elements of a sequence.                                          *)
(***************************************************************************)
(* The number of elements of S up to k.                                      *)
Rank(S, k) == Cardinality({i \in S : i <= k})

LEMMA RankFacts ==
  ASSUME NEW n \in Nat, NEW S, S \subseteq 1 .. n
  PROVE  /\ IsFiniteSet(S) /\ Cardinality(S) \in Nat
         /\ Rank(S, 0) = 0 /\ Rank(S, n) = Cardinality(S)
         /\ \A k \in 0 .. n : Rank(S, k) \in Nat
         /\ \A k \in 1 .. n : k \in S => Rank(S, k) = Rank(S, k - 1) + 1
         /\ \A k \in 1 .. n : k \notin S => Rank(S, k) = Rank(S, k - 1)
         /\ \A j, k \in 0 .. n : j <= k => Rank(S, j) <= Rank(S, k)
<1> DEFINE B(k) == {i \in S : i <= k}
<1>0. \A i \in S : i \in Int /\ 1 <= i /\ i <= n
  OBVIOUS
<1>1. IsFiniteSet(S) /\ Cardinality(S) \in Nat
  <2>1. IsFiniteSet(1 .. n)
    BY IntervalSize
  <2>2. IsFiniteSet(S)
    BY <2>1, FS_Subset
  <2> QED BY <2>2, FS_CardinalityType
<1>2. \A k : B(k) \subseteq S /\ IsFiniteSet(B(k)) /\ Cardinality(B(k)) \in Nat
  <2> SUFFICES ASSUME NEW k PROVE B(k) \subseteq S /\ IsFiniteSet(B(k)) /\ Cardinality(B(k)) \in Nat
    OBVIOUS
  <2>1. B(k) \subseteq S
    OBVIOUS
  <2>2. IsFiniteSet(B(k))
    BY <1>1, <2>1, FS_Subset
  <2> QED BY <2>1, <2>2, FS_CardinalityType
<1>3. Rank(S, 0) = 0
  <2>0. \A i \in S : ~ (i <= 0)
    BY <1>0
  <2>1. B(0) = {}
    BY <2>0
  <2> QED BY <2>1, FS_EmptySet DEF Rank
<1>4. Rank(S, n) = Cardinality(S)
  <2>1. B(n) = S
    BY <1>0
  <2> QED BY <2>1 DEF Rank
<1>5. \A k : Rank(S, k) = Cardinality(B(k))
  BY DEF Rank
<1>6. ASSUME NEW k \in 1 .. n, k \in S PROVE Rank(S, k) = Rank(S, k - 1) + 1
  <2>0. (\A i \in S : i <= k <=> (i <= k - 1 \/ i = k)) /\ ~ (k <= k - 1)
    BY <1>0, <1>6
  <2>1. B(k) = B(k - 1) \union {k} /\ k \notin B(k - 1)
    <3> QED BY ONLY <1>6, <2>0
  <2> HIDE DEF B
  <2>2. Cardinality(B(k)) = Cardinality(B(k - 1)) + 1
    BY <1>2, <2>1, FS_AddElement
  <2> QED BY <1>5, <2>2
<1>7. ASSUME NEW k \in 1 .. n, k \notin S PROVE Rank(S, k) = Rank(S, k - 1)
  <2>0. \A i \in S : i <= k <=> i <= k - 1
    BY <1>0, <1>7
  <2>1. B(k) = B(k - 1)
    BY ONLY <2>0
  <2> HIDE DEF B
  <2> QED BY <1>5, <2>1
<1>8. ASSUME NEW j \in 0 .. n, NEW k \in 0 .. n, j <= k PROVE Rank(S, j) <= Rank(S, k)
  <2>0. \A i \in S : i <= j => i <= k
    BY <1>0, <1>8
  <2>1. B(j) \subseteq B(k)
    BY ONLY <2>0
  <2> HIDE DEF B
  <2> QED BY <1>2, <1>5, <2>1, FS_Subset
<1> HIDE DEF B
<1> QED BY <1>1, <1>2, <1>3, <1>4, <1>5, <1>6, <1>7, <1>8

LEMMA ChosenIs ==
  ASSUME NEW T, NEW s \in Seq(T), NEW S, S \subseteq DOMAIN s
  PROVE  /\ Chosen(s, S) \in Seq(T) /\ Len(Chosen(s, S)) = Cardinality(S) /\ Cardinality(S) \in Nat
         /\ \A i \in S : Rank(S, i) \in 1 .. Cardinality(S) /\ Chosen(s, S)[Rank(S, i)] = s[i]
         /\ \A p \in 1 .. Cardinality(S) : \E i \in S : Rank(S, i) = p
         /\ \A i, j \in S : i < j => Rank(S, i) < Rank(S, j)
<1>0. PICK m \in Nat : m = Len(s)
  OBVIOUS
<1>1. S \subseteq 1 .. m /\ \A k \in 1 .. m : s[k] \in T
  BY <1>0
<1>2. /\ IsFiniteSet(S) /\ Cardinality(S) \in Nat
      /\ Rank(S, 0) = 0 /\ Rank(S, m) = Cardinality(S)
      /\ \A k \in 0 .. m : Rank(S, k) \in Nat
      /\ \A k \in 1 .. m : k \in S => Rank(S, k) = Rank(S, k - 1) + 1
      /\ \A k \in 1 .. m : k \notin S => Rank(S, k) = Rank(S, k - 1)
      /\ \A j, k \in 0 .. m : j <= k => Rank(S, j) <= Rank(S, k)
  BY <1>1, RankFacts
<1>3. PICK V, c : V = Seq(T) /\ c = <<>>
  OBVIOUS
<1>4. PICK step : step = [p \in (1 .. m) \X V |-> IF p[1] \in S THEN Append(p[2], s[p[1]]) ELSE p[2]]
  OBVIOUS
<1>5. c \in V /\ step \in [(1 .. m) \X V -> V]
  <2>1. \A p \in (1 .. m) \X V : (IF p[1] \in S THEN Append(p[2], s[p[1]]) ELSE p[2]) \in V
    BY <1>1, <1>3
  <2> QED BY <1>3, <1>4, <2>1
<1>6. PICK g \in [0 .. m -> V] : g[0] = c /\ \A k \in 1 .. m : g[k] = step[<<k, g[k - 1]>>]
  <2>1. IterateTyped(m, V, c, step)
    BY <1>5 DEF IterateTyped
  <2>2. PICK g : Iterates(g, m, V, c, step)
    BY <2>1, IterateRecursion
  <2> QED BY <2>2 DEF Iterates
<1> DEFINE Body(h) == [k \in 0 .. m |-> IF k = 0 THEN <<>>
                          ELSE IF k \in S THEN Append(h[k - 1], s[k]) ELSE h[k - 1]]
<1>7. g = Body(g)
  <2>1. \A k \in 1 .. m : g[k - 1] \in V /\ step[<<k, g[k - 1]>>] = IF k \in S THEN Append(g[k - 1], s[k]) ELSE g[k - 1]
    <3> SUFFICES ASSUME NEW k \in 1 .. m
                 PROVE  g[k - 1] \in V /\ step[<<k, g[k - 1]>>] = IF k \in S THEN Append(g[k - 1], s[k]) ELSE g[k - 1]
      OBVIOUS
    <3>1. g[k - 1] \in V
      OBVIOUS
    <3>2. \A x \in V : step[<<k, x>>] = IF k \in S THEN Append(x, s[k]) ELSE x
      BY <1>4
    <3> QED BY <3>1, <3>2
  <2>2. \A k \in 0 .. m : g[k] = Body(g)[k]
    <3> SUFFICES ASSUME NEW k \in 0 .. m PROVE g[k] = Body(g)[k]
      OBVIOUS
    <3>1. k = 0 \/ k \in 1 .. m
      OBVIOUS
    <3> QED BY <1>3, <1>6, <2>1, <3>1
  <2>3. g = [k \in 0 .. m |-> g[k]] /\ Body(g) = [k \in 0 .. m |-> Body(g)[k]]
    OBVIOUS
  <2> HIDE DEF Body
  <2> QED BY <2>2, <2>3
<1> DEFINE U == CHOOSE h : h = Body(h)
<1>8. U = Body(U)
  <2> HIDE DEF Body
  <2> QED BY <1>7
<1>9. Chosen(s, S) = U[m]
  BY <1>0 DEF Chosen
<1>10. U[0] = <<>> /\ \A k \in 1 .. m : U[k] = IF k \in S THEN Append(U[k - 1], s[k]) ELSE U[k - 1]
  <2> HIDE DEF U
  <2>1. 0 \in 0 .. m /\ \A k \in 1 .. m : k \in 0 .. m /\ k # 0
    OBVIOUS
  <2>2. \A k \in 0 .. m : U[k] = Body(U)[k]
    BY <1>8
  <2> QED BY <2>1, <2>2
<1> HIDE DEF U, Body
<1> DEFINE Good(k) == /\ U[k] \in Seq(T) /\ Len(U[k]) = Rank(S, k)
                      /\ \A i \in S : i <= k => Rank(S, i) \in 1 .. Rank(S, k) /\ U[k][Rank(S, i)] = s[i]
                      /\ \A p \in 1 .. Rank(S, k) : \E i \in S : i <= k /\ Rank(S, i) = p
<1>11. \A k \in 0 .. m : Good(k)
  <2> DEFINE Bad == {k \in 0 .. m : ~ Good(k)}
  <2> SUFFICES ASSUME Bad # {} PROVE FALSE
    OBVIOUS
  <2>1. PICK k \in Bad : \A j \in Bad : k <= j
    <3>1. Bad \in SUBSET Nat
      OBVIOUS
    <3> HIDE DEF Bad
    <3> QED BY <3>1, LeastNatural
  <2>2. k # 0
    <3>1. \A i \in S : ~ (i <= 0)
      BY <1>1
    <3>2. Good(0)
      BY <1>2, <1>10, <3>1
    <3> QED BY <3>2
  <2>3. k \in 1 .. m /\ k - 1 \in 0 .. m /\ Good(k - 1)
    BY <2>1, <2>2
  <2>4. \A i \in S : i <= k => i = k \/ i <= k - 1
    BY <1>1, <2>3
  <2>5. CASE k \in S
    <3>1. Rank(S, k) = Rank(S, k - 1) + 1 /\ Rank(S, k - 1) \in Nat
      BY <1>2, <2>3, <2>5
    <3>2. U[k] = Append(U[k - 1], s[k]) /\ s[k] \in T
      BY <1>1, <1>10, <2>3, <2>5
    <3>3. U[k] \in Seq(T) /\ Len(U[k]) = Rank(S, k) /\ U[k][Rank(S, k)] = s[k]
          /\ \A p \in 1 .. Rank(S, k - 1) : U[k][p] = U[k - 1][p]
      BY <2>3, <3>1, <3>2
    <3>4. ASSUME NEW i \in S, i <= k PROVE Rank(S, i) \in 1 .. Rank(S, k) /\ U[k][Rank(S, i)] = s[i]
      <4>1. CASE i = k
        <5>1. Rank(S, k) \in 1 .. Rank(S, k)
          BY <3>1
        <5> QED BY <3>3, <4>1, <5>1
      <4>2. CASE i <= k - 1
        <5>1. Rank(S, i) \in 1 .. Rank(S, k - 1) /\ U[k - 1][Rank(S, i)] = s[i]
          BY <2>3, <4>2
        <5>2. PICK p \in 1 .. Rank(S, k - 1) : p = Rank(S, i)
          BY <5>1
        <5>3. p \in 1 .. Rank(S, k) /\ U[k][p] = U[k - 1][p]
          BY <3>1, <3>3
        <5> QED BY <5>1, <5>2, <5>3
      <4> QED BY <2>4, <3>4, <4>1, <4>2
    <3>5. ASSUME NEW p \in 1 .. Rank(S, k) PROVE \E i \in S : i <= k /\ Rank(S, i) = p
      <4>1. CASE p = Rank(S, k)
        BY <2>3, <2>5, <4>1
      <4>2. CASE p # Rank(S, k)
        <5>1. p \in 1 .. Rank(S, k - 1)
          BY <3>1, <4>2
        <5>2. PICK i \in S : i <= k - 1 /\ Rank(S, i) = p
          BY <2>3, <5>1
        <5>3. i <= k
          BY <1>1, <2>3, <5>2
        <5> QED BY <5>2, <5>3
      <4> QED BY <4>1, <4>2
    <3> QED BY <2>1, <3>3, <3>4, <3>5
  <2>6. CASE k \notin S
    <3>1. Rank(S, k) = Rank(S, k - 1) /\ U[k] = U[k - 1]
      BY <1>2, <1>10, <2>3, <2>6
    <3>2. \A i \in S : i <= k <=> i <= k - 1
      BY <1>1, <2>3, <2>6
    <3>3. Good(k)
      BY <2>3, <3>1, <3>2
    <3> QED BY <2>1, <3>3
  <2> QED BY <2>5, <2>6
<1>12. Good(m)
  BY <1>11
<1>13. \A i \in S : i <= m
  BY <1>1
<1>14. \A i, j \in S : i < j => Rank(S, i) < Rank(S, j)
  <2> SUFFICES ASSUME NEW i \in S, NEW j \in S, i < j PROVE Rank(S, i) < Rank(S, j)
    OBVIOUS
  <2>1. i \in 0 .. m /\ j \in 1 .. m /\ j - 1 \in 0 .. m /\ i <= j - 1
    BY <1>1
  <2>2. Rank(S, i) <= Rank(S, j - 1) /\ Rank(S, j) = Rank(S, j - 1) + 1
        /\ Rank(S, i) \in Nat /\ Rank(S, j - 1) \in Nat
    BY <1>2, <2>1
  <2> QED BY <2>2
<1> QED BY <1>2, <1>9, <1>12, <1>13, <1>14

(***************************************************************************)
(* Fans.                                                                   *)
(***************************************************************************)
LEMMA OrbitFacts ==
  ASSUME NEW D, NEW next, OneToOne(next, D), NEW e \in D, NEW o, IsOrbit(o, next, D, e)
  PROVE  /\ ToSet(o) \subseteq D /\ e \in ToSet(o) /\ Last(o) \in ToSet(o) /\ next[Last(o)] \in {None, e}
         /\ \A x \in ToSet(o) : next[x] # None => next[x] \in ToSet(o)
         /\ \A x \in ToSet(o) : x = e \/ \E y \in ToSet(o) : next[y] = x
         /\ \A A : e \in A /\ (\A x \in A : next[x] # None => next[x] \in A) => ToSet(o) \subseteq A
<1>1. /\ o \in Seq(D) /\ Len(o) \in Nat \ {0} /\ o[1] = e /\ next[o[Len(o)]] \in {None, e}
      /\ \A k \in 1 .. (Len(o) - 1) : o[k + 1] = next[o[k]]
  BY DEF IsOrbit, Chain
<1>2. PICK n \in Nat \ {0} : n = Len(o)
  BY <1>1
<1>3. ToSet(o) = {o[k] : k \in 1 .. n} /\ Last(o) = o[n] /\ \A k \in 1 .. n : o[k] \in D
  BY <1>1, <1>2 DEF ToSet, Last
<1>4. ToSet(o) \subseteq D /\ o[1] \in ToSet(o) /\ o[n] \in ToSet(o)
  BY <1>3
<1>5. ASSUME NEW x \in ToSet(o), next[x] # None PROVE next[x] \in ToSet(o)
  <2>1. PICK k \in 1 .. n : x = o[k]
    BY <1>3
  <2>2. CASE k = n
    BY <1>1, <1>2, <1>4, <1>5, <2>1, <2>2
  <2>3. CASE k # n
    <3>1. k \in 1 .. (Len(o) - 1) /\ k + 1 \in 1 .. n
      BY <1>2, <2>3
    <3> QED BY <1>1, <1>3, <2>1, <3>1
  <2> QED BY <2>2, <2>3
<1>6. ASSUME NEW x \in ToSet(o), x # e PROVE \E y \in ToSet(o) : next[y] = x
  <2>1. PICK k \in 1 .. n : x = o[k]
    BY <1>3
  <2>2. k # 1
    BY <1>1, <1>6, <2>1
  <2>3. k - 1 \in 1 .. (Len(o) - 1) /\ k - 1 \in 1 .. n /\ (k - 1) + 1 = k
    BY <1>2, <2>2
  <2>4. next[o[k - 1]] = x
    BY <1>1, <2>1, <2>3
  <2> QED BY <1>3, <2>3, <2>4
<1>7. ASSUME NEW A, e \in A, \A x \in A : next[x] # None => next[x] \in A PROVE ToSet(o) \subseteq A
  <2> DEFINE Bad == {k \in Nat : k \in 1 .. n /\ o[k] \notin A}
  <2> SUFFICES ASSUME Bad # {} PROVE FALSE
    BY <1>3
  <2>1. PICK k \in Bad : \A j \in Bad : k <= j
    BY LeastNatural
  <2>2. k \in 1 .. n /\ o[k] \notin A /\ k # 1
    BY <1>1, <1>7
  <2>3. k - 1 \in 1 .. (Len(o) - 1) /\ k - 1 \in 1 .. n /\ (k - 1) + 1 = k /\ k - 1 \in Nat
    BY <1>2, <2>2
  <2>4. o[k - 1] \in A
    BY <2>1, <2>3
  <2>5. o[k] = next[o[k - 1]] /\ o[k] # None
    <3>1. o[k] = next[o[k - 1]] /\ o[k] \in D
      BY <1>1, <1>3, <2>2, <2>3
    <3> QED BY <3>1 DEF OneToOne
  <2> QED BY <1>7, <2>2, <2>4, <2>5
<1> QED BY <1>1, <1>2, <1>3, <1>4, <1>5, <1>6, <1>7

LEMMA BackForth ==
  ASSUME NEW M, NEW O, Paired(O, EdgesOf(M))
  PROVE  /\ OneToOne(Back(O), EdgesOf(M)) /\ OneToOne(Forth(O), EdgesOf(M))
         /\ \A x, y \in EdgesOf(M) : Forth(O)[x] = y <=> Back(O)[y] = x
         /\ \A x \in EdgesOf(M) : Back(O)[x] = O[Prev4(x)]
         /\ \A x \in EdgesOf(M) : Forth(O)[x] = IF O[x] = None THEN None ELSE Next4(O[x])
<1>1. PICK E : E = EdgesOf(M)
  OBVIOUS
<1>2. /\ O \in [E -> E \union {None}] /\ None \notin E
      /\ \A x \in E : O[x] # None => O[O[x]] = x
  BY <1>1, NoneIsNoEdge DEF Paired
<1>3. \A x \in E : Next4(x) \in E /\ Prev4(x) \in E /\ Next4(Prev4(x)) = x /\ Prev4(Next4(x)) = x
  BY <1>1, EdgeFacts
<1>4. \A x \in E : Back(O)[x] = O[Prev4(x)]
  BY <1>2 DEF Back
<1>5. \A x \in E : Forth(O)[x] = IF O[x] = None THEN None ELSE Next4(O[x])
  BY <1>2 DEF Forth
<1>6. Back(O) \in [E -> E \union {None}]
  BY <1>2, <1>3 DEF Back
<1>7. Forth(O) \in [E -> E \union {None}]
  BY <1>2, <1>3 DEF Forth
<1>8. ASSUME NEW x \in E, NEW y \in E PROVE Forth(O)[x] = y <=> Back(O)[y] = x
  <2>1. Forth(O)[x] = y <=> O[x] = Prev4(y)
    BY <1>2, <1>3, <1>5
  <2>2. O[x] = Prev4(y) <=> O[Prev4(y)] = x
    BY <1>2, <1>3
  <2> QED BY <1>4, <2>1, <2>2
<1>9. OneToOne(Back(O), E)
  BY <1>2, <1>6, <1>8 DEF OneToOne
<1>10. OneToOne(Forth(O), E)
  BY <1>2, <1>7, <1>8 DEF OneToOne
<1> QED BY <1>1, <1>4, <1>5, <1>8, <1>9, <1>10

(* A set of edges that holds, with an edge, those after and before it around *)
(* its vertex.                                                               *)
Closed(A, O) ==
  \A x \in A : /\ Back(O)[x] # None => Back(O)[x] \in A
               /\ Forth(O)[x] # None => Forth(O)[x] \in A

LEMMA WalksAre ==
  ASSUME NEW V, NEW M \in Seq([Corner -> V]), NEW O, Paired(O, EdgesOf(M)), NEW e \in EdgesOf(M)
  PROVE  /\ IsOrbit(Backward(O, e), Back(O), EdgesOf(M), e)
         /\ IsOrbit(Forward(O, e), Forth(O), EdgesOf(M), e)
<1>1. IsFiniteSet(EdgesOf(M))
  BY EdgesCount
<1>2. OneToOne(Back(O), EdgesOf(M)) /\ OneToOne(Forth(O), EdgesOf(M))
  BY BackForth
<1> QED BY <1>1, <1>2, OrbitIs DEF Backward, Forward

LEMMA FanFacts ==
  ASSUME NEW V, NEW M \in Seq([Corner -> V]), NEW O, Paired(O, EdgesOf(M)), NEW e \in EdgesOf(M)
  PROVE  /\ e \in FanOf(O, e) /\ FanOf(O, e) \subseteq EdgesOf(M) /\ Closed(FanOf(O, e), O)
         /\ \A A : e \in A /\ Closed(A, O) => FanOf(O, e) \subseteq A
<1>1. PICK E, b, f : E = EdgesOf(M) /\ b = Backward(O, e) /\ f = Forward(O, e)
  OBVIOUS
<1>2. OneToOne(Back(O), E) /\ OneToOne(Forth(O), E)
      /\ \A x, y \in E : Forth(O)[x] = y <=> Back(O)[y] = x
  BY <1>1, BackForth
<1>3. IsOrbit(b, Back(O), E, e) /\ IsOrbit(f, Forth(O), E, e)
  BY <1>1, WalksAre
<1>4. /\ ToSet(b) \subseteq E /\ e \in ToSet(b)
      /\ \A x \in ToSet(b) : Back(O)[x] # None => Back(O)[x] \in ToSet(b)
      /\ \A x \in ToSet(b) : x = e \/ \E y \in ToSet(b) : Back(O)[y] = x
      /\ \A A : e \in A /\ (\A x \in A : Back(O)[x] # None => Back(O)[x] \in A) => ToSet(b) \subseteq A
  BY <1>1, <1>2, <1>3, OrbitFacts
<1>5. /\ ToSet(f) \subseteq E /\ e \in ToSet(f)
      /\ \A x \in ToSet(f) : Forth(O)[x] # None => Forth(O)[x] \in ToSet(f)
      /\ \A x \in ToSet(f) : x = e \/ \E y \in ToSet(f) : Forth(O)[y] = x
      /\ \A A : e \in A /\ (\A x \in A : Forth(O)[x] # None => Forth(O)[x] \in A) => ToSet(f) \subseteq A
  BY <1>1, <1>2, <1>3, OrbitFacts
<1>6. FanOf(O, e) = ToSet(b) \union ToSet(f)
  BY <1>1 DEF FanOf
<1>7. Closed(FanOf(O, e), O)
  <2> SUFFICES ASSUME NEW x \in ToSet(b) \union ToSet(f)
               PROVE  /\ Back(O)[x] # None => Back(O)[x] \in ToSet(b) \union ToSet(f)
                      /\ Forth(O)[x] # None => Forth(O)[x] \in ToSet(b) \union ToSet(f)
    BY <1>6 DEF Closed
  <2>1. CASE x = e
    BY <1>4, <1>5, <2>1
  <2>2. CASE x # e /\ x \in ToSet(b)
    <3>1. PICK y \in ToSet(b) : Back(O)[y] = x
      BY <1>4, <2>2
    <3>2. Forth(O)[x] = y
      BY <1>2, <1>4, <2>2, <3>1
    <3> QED BY <1>4, <2>2, <3>1, <3>2
  <2>3. CASE x # e /\ x \in ToSet(f)
    <3>1. PICK y \in ToSet(f) : Forth(O)[y] = x
      BY <1>5, <2>3
    <3>2. Back(O)[x] = y
      BY <1>2, <1>5, <2>3, <3>1
    <3> QED BY <1>5, <2>3, <3>1, <3>2
  <2> QED BY <2>1, <2>2, <2>3
<1>8. ASSUME NEW A, e \in A, Closed(A, O) PROVE FanOf(O, e) \subseteq A
  BY <1>4, <1>5, <1>6, <1>8 DEF Closed
<1> QED BY <1>1, <1>4, <1>5, <1>6, <1>7, <1>8

(* Edges next to each other around a vertex are in one fan.                  *)
LEMMA SameFan ==
  ASSUME NEW V, NEW M \in Seq([Corner -> V]), NEW O, Paired(O, EdgesOf(M)),
         NEW x \in EdgesOf(M), NEW y \in EdgesOf(M), Forth(O)[x] = y
  PROVE  FanOf(O, x) = FanOf(O, y)
<1>1. Back(O)[y] = x /\ x # None /\ y # None
  BY BackForth, NoneIsNoEdge
<1>2. /\ x \in FanOf(O, x) /\ Closed(FanOf(O, x), O)
      /\ \A A : x \in A /\ Closed(A, O) => FanOf(O, x) \subseteq A
  BY FanFacts
<1>3. /\ y \in FanOf(O, y) /\ Closed(FanOf(O, y), O)
      /\ \A A : y \in A /\ Closed(A, O) => FanOf(O, y) \subseteq A
  BY FanFacts
<1>4. y \in FanOf(O, x) /\ x \in FanOf(O, y)
  BY <1>1, <1>2, <1>3 DEF Closed
<1> QED BY <1>2, <1>3, <1>4

(* What the walk forward reaches from the first edge at the boundary, or     *)
(* from any edge when the walk backward comes around.                        *)
LEMMA ForwardClosed ==
  ASSUME NEW V, NEW M \in Seq([Corner -> V]), NEW O, Paired(O, EdgesOf(M)), NEW s \in EdgesOf(M),
         Back(O)[s] = None \/ Back(O)[Last(Backward(O, s))] = s
  PROVE  s \in ToSet(Forward(O, s)) /\ Closed(ToSet(Forward(O, s)), O)
<1>1. PICK E, b, f : E = EdgesOf(M) /\ b = Backward(O, s) /\ f = Forward(O, s)
  OBVIOUS
<1>2. /\ OneToOne(Back(O), E) /\ OneToOne(Forth(O), E) /\ None \notin E
      /\ \A x, y \in E : Forth(O)[x] = y <=> Back(O)[y] = x
  BY <1>1, BackForth, NoneIsNoEdge
<1>3. IsOrbit(b, Back(O), E, s) /\ IsOrbit(f, Forth(O), E, s)
  BY <1>1, WalksAre
<1>4. /\ ToSet(b) \subseteq E /\ s \in ToSet(b) /\ Last(b) \in ToSet(b)
      /\ \A x \in ToSet(b) : Back(O)[x] # None => Back(O)[x] \in ToSet(b)
      /\ \A x \in ToSet(b) : x = s \/ \E y \in ToSet(b) : Back(O)[y] = x
  BY <1>1, <1>2, <1>3, OrbitFacts
<1>5. /\ ToSet(f) \subseteq E /\ s \in ToSet(f) /\ Last(f) \in ToSet(f) /\ Forth(O)[Last(f)] \in {None, s}
      /\ \A x \in ToSet(f) : Forth(O)[x] # None => Forth(O)[x] \in ToSet(f)
      /\ \A x \in ToSet(f) : x = s \/ \E y \in ToSet(f) : Forth(O)[y] = x
      /\ \A A : s \in A /\ (\A x \in A : Forth(O)[x] # None => Forth(O)[x] \in A) => ToSet(f) \subseteq A
  BY <1>1, <1>2, <1>3, OrbitFacts
<1>6. Back(O)[s] # None => Back(O)[s] \in ToSet(f)
  <2> SUFFICES ASSUME Back(O)[s] # None PROVE Back(O)[s] \in ToSet(f)
    OBVIOUS
  <2>1. Back(O)[Last(b)] = s
    BY <1>1
  <2>2. \A x \in ToSet(b) : \E y \in ToSet(b) : Forth(O)[x] = y
    <3> SUFFICES ASSUME NEW x \in ToSet(b) PROVE \E y \in ToSet(b) : Forth(O)[x] = y
      OBVIOUS
    <3>1. PICK y \in ToSet(b) : Back(O)[y] = x
      BY <1>4, <2>1
    <3> QED BY <1>2, <1>4, <3>1
  <2>3. ToSet(f) \subseteq ToSet(b)
    <3>1. \A x \in ToSet(b) : Forth(O)[x] # None => Forth(O)[x] \in ToSet(b)
      BY <2>2
    <3> QED BY <1>4, <1>5, <3>1
  <2>4. Forth(O)[Last(f)] = s
    <3>1. Last(f) \in ToSet(b)
      BY <1>5, <2>3
    <3>2. PICK y \in ToSet(b) : Forth(O)[Last(f)] = y
      BY <2>2, <3>1
    <3>3. y # None
      BY <1>2, <1>4
    <3> QED BY <1>5, <3>2, <3>3
  <2>5. Back(O)[s] = Last(f)
    BY <1>1, <1>2, <1>5, <2>4
  <2> QED BY <1>5, <2>5
<1>7. Closed(ToSet(f), O)
  <2> SUFFICES ASSUME NEW x \in ToSet(f), Back(O)[x] # None PROVE Back(O)[x] \in ToSet(f)
    BY <1>5 DEF Closed
  <2>1. CASE x = s
    BY <1>6, <2>1
  <2>2. CASE x # s
    <3>1. PICK y \in ToSet(f) : Forth(O)[y] = x
      BY <1>5, <2>2
    <3> QED BY <1>2, <1>5, <3>1
  <2> QED BY <2>1, <2>2
<1> QED BY <1>1, <1>5, <1>7

LEMMA LeastIs ==
  ASSUME NEW V, NEW M \in Seq([Corner -> V]), NEW S, S \subseteq EdgesOf(M), S # {}
  PROVE  Least(S) \in S
<1>1. \A e \in S : e = <<e[1], e[2]>> /\ e[1] \in Nat /\ e[2] \in Nat
  <2>1. \A e \in S : e = <<e[1], e[2]>> /\ e[1] \in DOMAIN M /\ e[2] \in Corner
    BY EdgeParts
  <2>2. DOMAIN M \subseteq Nat /\ Corner \subseteq Nat
    BY DEF Corner
  <2> QED BY <2>1, <2>2
<1>2. PICK i \in {e[1] : e \in S} : \A k \in {e[1] : e \in S} : i <= k
  <2>1. {e[1] : e \in S} \in SUBSET Nat /\ {e[1] : e \in S} # {}
    BY <1>1
  <2> QED BY <2>1, LeastNatural
<1> DEFINE T == {e[2] : e \in {d \in S : d[1] = i}}
<1>3. PICK j \in T : \A k \in T : j <= k
  <2>1. T \in SUBSET Nat /\ T # {}
    BY <1>1, <1>2
  <2> HIDE DEF T
  <2> QED BY <2>1, LeastNatural
<1>4. PICK e \in S : e[1] = i /\ e[2] = j
  BY <1>3
<1>5. \A d \in S : d = e \/ Before(e, d)
  <2> SUFFICES ASSUME NEW d \in S PROVE d = e \/ Before(e, d)
    OBVIOUS
  <2>1. i <= d[1] /\ i \in Nat /\ d[1] \in Nat
    BY <1>1, <1>2
  <2>2. CASE d[1] = i
    <3>1. j <= d[2] /\ j \in Nat /\ d[2] \in Nat
      BY <1>1, <1>3, <1>4, <2>2
    <3>2. d[2] = j => d = e
      BY <1>1, <1>4, <2>2
    <3> QED BY <1>4, <2>2, <3>1, <3>2 DEF Before
  <2>3. CASE d[1] # i
    BY <1>4, <2>1, <2>3 DEF Before
  <2> QED BY <2>2, <2>3
<1> QED BY <1>5 DEF Least

LEMMA LeavingClosed ==
  ASSUME NEW V, NEW M, Mesh(M, V), NEW v
  PROVE  Closed(Leaving(M, v), Opposites(M)) /\ Leaving(M, v) \subseteq EdgesOf(M)
<1>1. PICK E, O : E = EdgesOf(M) /\ O = Opposites(M)
  OBVIOUS
<1>2. Paired(O, E) /\ \A e \in E : O[e] # None => Across(M, O[e], e)
  BY <1>1, OppositesFacts
<1>3. \A x \in E : Next4(x) \in E /\ Prev4(x) \in E /\ Next4(Prev4(x)) = x /\ Prev4(Next4(x)) = x
  BY <1>1, EdgeFacts
<1>4. \A x \in E : Back(O)[x] = O[Prev4(x)]
  BY <1>1, <1>2, BackForth
<1>5. \A x \in E : Forth(O)[x] = IF O[x] = None THEN None ELSE Next4(O[x])
  BY <1>1, <1>2, BackForth
<1>6. \A x \in E : O[x] # None => O[x] \in E
  BY <1>2 DEF Paired
<1> SUFFICES ASSUME NEW x \in E, From(M, x) = v
             PROVE  /\ Back(O)[x] # None => Back(O)[x] \in E /\ From(M, Back(O)[x]) = v
                    /\ Forth(O)[x] # None => Forth(O)[x] \in E /\ From(M, Forth(O)[x]) = v
  BY <1>1 DEF Leaving, Closed
<1>7. ASSUME Back(O)[x] # None PROVE Back(O)[x] \in E /\ From(M, Back(O)[x]) = v
  <2>1. O[Prev4(x)] \in E /\ Across(M, O[Prev4(x)], Prev4(x))
    BY <1>2, <1>3, <1>4, <1>6, <1>7
  <2> QED BY <1>3, <1>4, <2>1 DEF Across
<1>8. ASSUME Forth(O)[x] # None PROVE Forth(O)[x] \in E /\ From(M, Forth(O)[x]) = v
  <2>1. O[x] # None /\ Forth(O)[x] = Next4(O[x])
    BY <1>5, <1>8
  <2>2. O[x] \in E /\ Across(M, O[x], x)
    BY <1>2, <1>6, <2>1
  <2> QED BY <1>3, <2>1, <2>2 DEF Across
<1> QED BY <1>7, <1>8

(* The edge the list V2E has for a vertex begins a fan of that vertex.       *)
LEMMA StartIs ==
  ASSUME NEW V, NEW M, Mesh(M, V), NEW v, Leaving(M, v) # {}
  PROVE  LET s == Start(M, Opposites(M), v)
             f == ToSet(Forward(Opposites(M), s))
         IN  /\ s \in Leaving(M, v) /\ s \in f /\ Closed(f, Opposites(M)) /\ f \subseteq Leaving(M, v)
             /\ Back(Opposites(M))[s] = None \/ Back(Opposites(M))[Last(Backward(Opposites(M), s))] = s
<1>1. PICK E, O, l, L : E = EdgesOf(M) /\ O = Opposites(M) /\ L = Leaving(M, v) /\ l = Least(L)
  OBVIOUS
<1>2. M \in Seq([Corner -> V]) /\ Paired(O, E)
  BY <1>1, OppositesFacts DEF Mesh
<1>3. Closed(L, O) /\ L \subseteq E
  BY <1>1, LeavingClosed
<1>4. l \in L
  BY <1>1, <1>2, <1>3, LeastIs
<1>5. PICK b, s : b = Backward(O, l) /\ s = Start(M, O, v)
  OBVIOUS
<1>6. s = IF O[Prev4(Last(b))] = None THEN Last(b) ELSE l
  BY <1>1, <1>5 DEF Start
<1>7. OneToOne(Back(O), E) /\ \A x \in E : Back(O)[x] = O[Prev4(x)]
  BY <1>1, <1>2, BackForth
<1>8. IsOrbit(b, Back(O), E, l)
  BY <1>1, <1>2, <1>3, <1>4, <1>5, WalksAre
<1>9. /\ ToSet(b) \subseteq E /\ Last(b) \in ToSet(b) /\ Back(O)[Last(b)] \in {None, l}
      /\ \A A : l \in A /\ (\A x \in A : Back(O)[x] # None => Back(O)[x] \in A) => ToSet(b) \subseteq A
  BY <1>3, <1>4, <1>7, <1>8, OrbitFacts
<1>10. ToSet(b) \subseteq L
  BY <1>3, <1>4, <1>9 DEF Closed
<1>11. s \in L /\ (Back(O)[s] = None \/ Back(O)[Last(Backward(O, s))] = s)
  <2>1. Last(b) \in E /\ Back(O)[Last(b)] = O[Prev4(Last(b))]
    BY <1>7, <1>9
  <2>2. CASE Back(O)[Last(b)] = None
    BY <1>6, <1>9, <1>10, <2>1, <2>2
  <2>3. CASE Back(O)[Last(b)] # None
    BY <1>4, <1>5, <1>6, <1>9, <2>1, <2>3
  <2> QED BY <2>2, <2>3
<1>12. s \in ToSet(Forward(O, s)) /\ Closed(ToSet(Forward(O, s)), O)
  BY <1>1, <1>2, <1>3, <1>11, ForwardClosed
<1>13. ToSet(Forward(O, s)) \subseteq L
  <2>1. IsOrbit(Forward(O, s), Forth(O), E, s) /\ OneToOne(Forth(O), E)
    BY <1>1, <1>2, <1>3, <1>11, WalksAre, BackForth
  <2>2. \A A : s \in A /\ (\A x \in A : Forth(O)[x] # None => Forth(O)[x] \in A)
                  => ToSet(Forward(O, s)) \subseteq A
    BY <1>3, <1>11, <2>1, OrbitFacts
  <2> QED BY <1>3, <1>11, <2>2 DEF Closed
<1> QED BY <1>1, <1>5, <1>11, <1>12, <1>13

(***************************************************************************)
(* Meshes in which the faces of each vertex are one fan.                   *)
(***************************************************************************)
(* y follows x around their vertex.                                          *)
Touch(M, x, y) == From(M, x) = From(M, y) /\ From(M, Next4(x)) = From(M, Prev4(y))

Saturated(M, A) ==
  \A x \in A : \A y \in EdgesOf(M) : Touch(M, x, y) \/ Touch(M, y, x) => y \in A

OneFanEach(M) ==
  \A A \in SUBSET EdgesOf(M) :
    Saturated(M, A) => \A x \in A : \A y \in EdgesOf(M) : From(M, x) = From(M, y) => y \in A

LEMMA TouchIs ==
  ASSUME NEW V, NEW M, Mesh(M, V), NEW x \in EdgesOf(M), NEW y \in EdgesOf(M)
  PROVE  Touch(M, x, y) <=> Forth(Opposites(M))[x] = y
<1>1. PICK E, O : E = EdgesOf(M) /\ O = Opposites(M)
  OBVIOUS
<1>2. /\ Paired(O, E) /\ \A e \in E : O[e] # None => Across(M, O[e], e)
      /\ \A d, e \in E : Across(M, d, e) => O[e] = d
  BY <1>1, OppositesFacts
<1>3. Prev4(y) \in E /\ Next4(Prev4(y)) = y /\ y # None /\ Prev4(y) # None
  BY <1>1, EdgeFacts, NoneIsNoEdge
<1>4. Forth(O)[x] = IF O[x] = None THEN None ELSE Next4(O[x])
  BY <1>1, <1>2, BackForth
<1>5. ASSUME Touch(M, x, y) PROVE Forth(O)[x] = y
  <2>1. O[x] = Prev4(y)
    BY <1>1, <1>2, <1>3, <1>5 DEF Touch, Across
  <2> QED BY <1>3, <1>4, <2>1
<1>6. ASSUME Forth(O)[x] = y PROVE Touch(M, x, y)
  <2>1. O[x] # None /\ y = Next4(O[x])
    BY <1>3, <1>4, <1>6
  <2>2. O[x] \in E /\ Across(M, O[x], x)
    BY <1>1, <1>2, <2>1 DEF Paired
  <2>3. Prev4(y) = O[x]
    BY <1>1, <2>1, <2>2, EdgeFacts
  <2> QED BY <2>1, <2>2, <2>3 DEF Touch, Across
<1> QED BY <1>1, <1>5, <1>6

LEMMA SaturatedIs ==
  ASSUME NEW V, NEW M, Mesh(M, V), NEW A, A \subseteq EdgesOf(M)
  PROVE  Saturated(M, A) <=> Closed(A, Opposites(M))
<1>1. PICK E, O : E = EdgesOf(M) /\ O = Opposites(M)
  OBVIOUS
<1>2. Paired(O, E)
  BY <1>1, OppositesFacts
<1>3. /\ OneToOne(Back(O), E) /\ OneToOne(Forth(O), E) /\ None \notin E
      /\ \A x, y \in E : Forth(O)[x] = y <=> Back(O)[y] = x
  BY <1>1, <1>2, BackForth, NoneIsNoEdge
<1>4. \A x \in E : (Back(O)[x] # None => Back(O)[x] \in E) /\ (Forth(O)[x] # None => Forth(O)[x] \in E)
  BY <1>3 DEF OneToOne
<1>5. \A x, y \in E : Touch(M, x, y) <=> Forth(O)[x] = y
  BY <1>1, TouchIs
<1>6. ASSUME Saturated(M, A) PROVE Closed(A, O)
  BY <1>1, <1>3, <1>4, <1>5, <1>6 DEF Saturated, Closed
<1>7. ASSUME Closed(A, O) PROVE Saturated(M, A)
  <2> SUFFICES ASSUME NEW x \in A, NEW y \in E, Touch(M, x, y) \/ Touch(M, y, x) PROVE y \in A
    BY <1>1 DEF Saturated
  <2>1. x \in E /\ y # None
    BY <1>1, <1>3
  <2>2. Forth(O)[x] = y \/ Back(O)[x] = y
    BY <1>3, <1>5, <2>1
  <2> QED BY <1>7, <2>1, <2>2 DEF Closed
<1> QED BY <1>1, <1>6, <1>7

LEMMA FewFans ==
  ASSUME NEW V, NEW M, Mesh(M, V),
         \A v \in V : Cardinality({FanOf(Opposites(M), e) : e \in Leaving(M, v)}) <= 1
  PROVE  OneFanEach(M)
<1>1. PICK E, O : E = EdgesOf(M) /\ O = Opposites(M)
  OBVIOUS
<1>2. Paired(O, E) /\ M \in Seq([Corner -> V])
  BY <1>1, OppositesFacts DEF Mesh
<1> SUFFICES ASSUME NEW A, A \subseteq E, Saturated(M, A), NEW x \in A, NEW y \in E, From(M, x) = From(M, y)
             PROVE  y \in A
  BY <1>1 DEF OneFanEach
<1>3. PICK L, v : v = From(M, x) /\ L = Leaving(M, v)
  OBVIOUS
<1>4. x \in L /\ y \in L /\ L \subseteq E /\ v \in V
  <2>1. x \in E /\ x[1] \in DOMAIN M /\ x[2] \in Corner
    BY <1>1, EdgeParts
  <2>2. v \in V
    BY <1>2, <1>3, <2>1 DEF From
  <2> QED BY <1>1, <1>3, <2>1, <2>2 DEF Leaving
<1> DEFINE T == {FanOf(O, e) : e \in L}
           h == [e \in L |-> FanOf(O, e)]
<1>5. IsFiniteSet(T)
  <2>1. IsFiniteSet(L)
    BY <1>1, <1>2, <1>4, EdgesCount, FS_Subset
  <2>2. h \in Surjection(L, T)
    BY DEF Surjection
  <2> HIDE DEF h, T
  <2> QED BY <2>1, <2>2, FS_Surjection
<1>6. Cardinality(T) <= 1
  BY <1>1, <1>3, <1>4
<1>7. FanOf(O, x) \in T /\ FanOf(O, y) \in T
  BY <1>4
<1>8. FanOf(O, x) = FanOf(O, y)
  <2> HIDE DEF T
  <2>1. Cardinality(T) \in Nat /\ Cardinality(T) # 0
    BY <1>5, <1>7, FS_CardinalityType, FS_EmptySet
  <2>2. Cardinality(T) = 1
    BY <1>6, <2>1
  <2> QED BY <1>5, <1>7, <2>2, FS_Singleton
<1>9. y \in FanOf(O, y) /\ FanOf(O, x) \subseteq A
  <2>1. Closed(A, O)
    BY <1>1, SaturatedIs
  <2> QED BY <1>1, <1>2, <2>1, FanFacts
<1> QED BY <1>8, <1>9

LEMMA ManifoldIs ==
  ASSUME NEW V, NEW M, Mesh(M, V), OneFanEach(M), NEW v, Leaving(M, v) # {}
  PROVE  LET s == Start(M, Opposites(M), v)
         IN  s \in Leaving(M, v) /\ ToSet(Forward(Opposites(M), s)) = Leaving(M, v)
<1>1. PICK s, f : s = Start(M, Opposites(M), v) /\ f = ToSet(Forward(Opposites(M), s))
  OBVIOUS
<1>2. s \in Leaving(M, v) /\ s \in f /\ Closed(f, Opposites(M)) /\ f \subseteq Leaving(M, v)
  BY <1>1, StartIs
<1>3. f \subseteq EdgesOf(M)
  BY <1>2 DEF Leaving
<1>4. Saturated(M, f)
  BY <1>2, <1>3, SaturatedIs
<1>5. \A y \in Leaving(M, v) : y \in EdgesOf(M) /\ From(M, s) = From(M, y)
  BY <1>2 DEF Leaving
<1>6. Leaving(M, v) \subseteq f
  BY <1>2, <1>3, <1>4, <1>5 DEF OneFanEach
<1> QED BY <1>1, <1>2, <1>6

(***************************************************************************)
(* Meshes made from others: with other labels, or of some of the faces.    *)
(***************************************************************************)
LEMMA FromTyped ==
  ASSUME NEW V, NEW M \in Seq([Corner -> V]), NEW e \in EdgesOf(M)
  PROVE  From(M, e) \in V
  BY EdgeParts DEF From

LEMMA Relabelled ==
  ASSUME NEW V, NEW M, Mesh(M, V), NEW W, NEW N, N \in Seq([Corner -> W]), DOMAIN N = DOMAIN M,
         \A d, e \in EdgesOf(M) : From(N, d) = From(N, e) => From(M, d) = From(M, e)
  PROVE  EdgesOf(N) = EdgesOf(M) /\ Mesh(N, W)
<1>1. EdgesOf(N) = EdgesOf(M)
  BY DEF EdgesOf
<1>2. \A e \in EdgesOf(M) : Next4(e) \in EdgesOf(M)
  BY EdgeFacts
<1>3. Simple(N)
  BY <1>1 DEF Mesh, Simple
<1>4. Injective(N)
  BY <1>1, <1>2 DEF Mesh, Injective
<1> QED BY <1>1, <1>3, <1>4 DEF Mesh

LEMMA OppositesSame ==
  ASSUME NEW V, NEW M, Mesh(M, V), NEW W, NEW N, Mesh(N, W), EdgesOf(N) = EdgesOf(M),
         \A d, e \in EdgesOf(M) : Across(N, d, e) <=> Across(M, d, e)
  PROVE  Opposites(N) = Opposites(M)
<1>1. PICK E, O, P : E = EdgesOf(M) /\ O = Opposites(M) /\ P = Opposites(N)
  OBVIOUS
<1>2. /\ Paired(O, E) /\ \A e \in E : O[e] # None => Across(M, O[e], e)
      /\ \A d, e \in E : Across(M, d, e) => O[e] = d
  BY <1>1, OppositesFacts
<1>3. /\ Paired(P, E) /\ \A e \in E : P[e] # None => Across(N, P[e], e)
      /\ \A d, e \in E : Across(N, d, e) => P[e] = d
  BY <1>1, OppositesFacts
<1>4. O \in [E -> E \union {None}] /\ P \in [E -> E \union {None}]
  BY <1>2, <1>3 DEF Paired
<1>5. \A e \in E : O[e] = P[e]
  <2> SUFFICES ASSUME NEW e \in E PROVE O[e] = P[e]
    OBVIOUS
  <2>1. CASE O[e] # None
    <3>1. O[e] \in E
      BY <1>4, <2>1
    <3> QED BY <1>1, <1>2, <1>3, <2>1, <3>1
  <2>2. CASE P[e] # None
    <3>1. P[e] \in E
      BY <1>4, <2>2
    <3> QED BY <1>1, <1>2, <1>3, <2>2, <3>1
  <2> QED BY <2>1, <2>2
<1> QED BY <1>1, <1>4, <1>5

(* The edge e of the faces N chosen from those of M is one of face i of M.   *)
Comes(N, M, S, e, i) ==
  /\ i \in S /\ e = <<Rank(S, i), e[2]>> /\ <<i, e[2]>> \in EdgesOf(M)
  /\ From(N, e) = From(M, <<i, e[2]>>) /\ From(N, Next4(e)) = From(M, Next4(<<i, e[2]>>))

LEMMA ChosenEdges ==
  ASSUME NEW V, NEW M \in Seq([Corner -> V]), NEW S, S \subseteq DOMAIN M,
         NEW N, N = Chosen(M, S), NEW e \in EdgesOf(N)
  PROVE  \E i : Comes(N, M, S, e, i)
<1>2. /\ N \in Seq([Corner -> V]) /\ Len(N) = Cardinality(S) /\ Cardinality(S) \in Nat
      /\ \A i \in S : Rank(S, i) \in 1 .. Cardinality(S) /\ N[Rank(S, i)] = M[i]
      /\ \A p \in 1 .. Cardinality(S) : \E i \in S : Rank(S, i) = p
  BY ChosenIs
<1>3. e = <<e[1], e[2]>> /\ e[1] \in 1 .. Cardinality(S) /\ e[2] \in Corner
  BY <1>2, EdgeParts
<1>4. PICK i \in S : Rank(S, i) = e[1]
  BY <1>2, <1>3
<1>5. N[e[1]] = M[i]
  BY <1>2, <1>4
<1>6. <<i, e[2]>> \in EdgesOf(M)
  BY <1>3 DEF EdgesOf
<1>7. From(N, e) = From(M, <<i, e[2]>>) /\ From(N, Next4(e)) = From(M, Next4(<<i, e[2]>>))
  BY <1>5 DEF From, Next4
<1> QED BY <1>3, <1>4, <1>6, <1>7 DEF Comes

LEMMA ChosenMesh ==
  ASSUME NEW V, NEW M \in Seq([Corner -> V]), NEW S, S \subseteq DOMAIN M,
         \A d, e \in EdgesOf(M) :
           d[1] \in S /\ e[1] \in S /\ From(M, d) = From(M, e)
           /\ (d[1] = e[1] \/ From(M, Next4(d)) = From(M, Next4(e))) => d = e
  PROVE  Mesh(Chosen(M, S), V)
<1>1. PICK N : N = Chosen(M, S)
  OBVIOUS
<1>2. /\ N \in Seq([Corner -> V])
      /\ \A i, j \in S : i < j => Rank(S, i) < Rank(S, j)
      /\ \A i \in S : Rank(S, i) \in 1 .. Cardinality(S)
  BY <1>1, ChosenIs
<1>3. \A i, j \in S : Rank(S, i) = Rank(S, j) => i = j
  <2> SUFFICES ASSUME NEW i \in S, NEW j \in S, Rank(S, i) = Rank(S, j) PROVE i = j
    OBVIOUS
  <2>1. i \in Int /\ j \in Int /\ Rank(S, i) \in Int
    BY <1>2
  <2>2. ~ (i < j) /\ ~ (j < i)
    BY <1>2, <2>1
  <2> QED BY <2>1, <2>2
<1>4. ASSUME NEW d \in EdgesOf(N), NEW e \in EdgesOf(N), From(N, d) = From(N, e),
             d[1] = e[1] \/ From(N, Next4(d)) = From(N, Next4(e))
      PROVE  d = e
  <2>1. PICK i : Comes(N, M, S, d, i)
    BY <1>1, ChosenEdges
  <2>2. PICK j : Comes(N, M, S, e, j)
    BY <1>1, ChosenEdges
  <2>3. <<i, d[2]>>[1] = i /\ <<j, e[2]>>[1] = j
    OBVIOUS
  <2>4. d[1] = e[1] => i = j
    BY <1>3, <2>1, <2>2 DEF Comes
  <2>5. <<i, d[2]>> = <<j, e[2]>>
    BY <1>4, <2>1, <2>2, <2>3, <2>4 DEF Comes
  <2>6. i = j /\ d[2] = e[2]
    BY <2>5
  <2> QED BY <2>1, <2>2, <2>6 DEF Comes
<1>5. Simple(N) /\ Injective(N)
  BY <1>4 DEF Simple, Injective
<1> QED BY <1>1, <1>2, <1>5 DEF Mesh

(* All faces of a mesh.                                                      *)
LEMMA AllChosen ==
  ASSUME NEW V, NEW M, Mesh(M, V)
  PROVE  Mesh(Chosen(M, (DOMAIN M) \ {}), V)
<1>1. M \in Seq([Corner -> V])
  BY DEF Mesh
<1>2. \A d, e \in EdgesOf(M) :
        From(M, d) = From(M, e) /\ (d[1] = e[1] \/ From(M, Next4(d)) = From(M, Next4(e))) => d = e
  BY DEF Mesh, Simple, Injective
<1> QED BY <1>1, <1>2, ChosenMesh

(***************************************************************************)
(* Two faces become one.                                                   *)
(***************************************************************************)
LEMMA FourEdges ==
  ASSUME NEW M, NEW d \in EdgesOf(M), NEW e \in EdgesOf(M), d[1] = e[1]
  PROVE  d \in {e, Next4(e), Next4(Next4(e)), Prev4(e)}
<1>1. d = <<e[1], d[2]>> /\ e = <<e[1], e[2]>> /\ d[2] \in Corner /\ e[2] \in Corner
  BY EdgeParts
<1>2. PICK i, j, k : i = e[1] /\ j = e[2] /\ k = d[2]
  OBVIOUS
<1>3. /\ Next4(<<i, j>>) = <<i, (j % 4) + 1>> /\ Prev4(<<i, j>>) = <<i, ((j + 2) % 4) + 1>>
      /\ Next4(Next4(<<i, j>>)) = <<i, (((j % 4) + 1) % 4) + 1>>
  BY DEF Next4, Prev4
<1>4. k = j \/ k = (j % 4) + 1 \/ k = ((j + 2) % 4) + 1 \/ k = (((j % 4) + 1) % 4) + 1
  <2>1. j \in 1 .. 4 /\ k \in 1 .. 4
    BY <1>1, <1>2 DEF Corner
  <2>2. j = 1 \/ j = 2 \/ j = 3 \/ j = 4
    BY <2>1
  <2>3. k = 1 \/ k = 2 \/ k = 3 \/ k = 4
    BY <2>1
  <2>4. CASE j = 1
    BY <2>3, <2>4
  <2>5. CASE j = 2
    BY <2>3, <2>5
  <2>6. CASE j = 3
    BY <2>3, <2>6
  <2>7. CASE j = 4
    BY <2>3, <2>7
  <2> QED BY <2>2, <2>4, <2>5, <2>6, <2>7
<1>5. d = <<i, k>> /\ e = <<i, j>>
  BY <1>1, <1>2
<1> QED BY <1>3, <1>4, <1>5

(* The edges of the faces that are not in X differ.                          *)
Differ(G, X) ==
  \A d, e \in EdgesOf(G) :
    d[1] \notin X /\ e[1] \notin X /\ From(G, d) = From(G, e)
    /\ (d[1] = e[1] \/ From(G, Next4(d)) = From(G, Next4(e))) => d = e

(* The faces G, but for those in X, with the edges of the mesh M: faces of T *)
(* may be others than in M, with edges of faces of T; their vertices in M    *)
(* are marked (in K), or the sweep has passed them (they are not in D).      *)
Merged(V, M, G, T, X, K, D) ==
  /\ Mesh(M, V) /\ G \in Seq([Corner -> V]) /\ DOMAIN G = DOMAIN M
  /\ X \subseteq T /\ T \subseteq DOMAIN M
  /\ \A i \in (DOMAIN M) \ T : G[i] = M[i]
  /\ \A e \in EdgesOf(M) : e[1] \in T => From(M, e) \in K \/ From(M, e) \notin D
  /\ \A e \in EdgesOf(G) : e[1] \in T \ X => \E g \in EdgesOf(M) : g[1] \in T /\ Ends(G, e) = Ends(M, g)
  /\ Differ(G, X)

(* The two faces around a vertex.                                            *)
LEMMA TwoFaces ==
  ASSUME NEW V, NEW M, Mesh(M, V), NEW v, Leaving(M, v) # {},
         NEW a, a = Start(M, Opposites(M), v), NEW b, b = Opposites(M)[Prev4(a)],
         Len(Backward(Opposites(M), a)) = 2
  PROVE  /\ a \in EdgesOf(M) /\ b \in EdgesOf(M) /\ From(M, a) = v /\ From(M, b) = v
         /\ a[1] # b[1]
         /\ From(M, Next4(b)) = From(M, Prev4(a)) /\ From(M, Next4(a)) = From(M, Prev4(b))
<1>1. PICK E, O, w : E = EdgesOf(M) /\ O = Opposites(M) /\ w = Backward(O, a)
  OBVIOUS
<1>2. M \in Seq([Corner -> V]) /\ Paired(O, E) /\ \A e \in E : O[e] # None => Across(M, O[e], e)
  BY <1>1, OppositesFacts DEF Mesh
<1>3. a \in Leaving(M, v) /\ (Back(O)[a] = None \/ Back(O)[Last(w)] = a)
  BY <1>1, StartIs
<1>4. a \in E /\ From(M, a) = v
  BY <1>1, <1>3 DEF Leaving
<1>5. IsOrbit(w, Back(O), E, a)
  BY <1>1, <1>2, <1>4, WalksAre
<1>6. OneToOne(Back(O), E) /\ \A x \in E : Back(O)[x] = O[Prev4(x)]
  BY <1>1, <1>2, BackForth
<1>7. w \in Seq(E) /\ Len(w) = 2 /\ w[1] = a /\ w[2] = Back(O)[w[1]] /\ w[1] # w[2]
  <2>1. /\ w \in Seq(E) /\ w[1] = a /\ \A k \in 1 .. (Len(w) - 1) : w[k + 1] = Back(O)[w[k]]
        /\ \A j, k \in 1 .. Len(w) : w[j] = w[k] => j = k
    BY <1>5 DEF IsOrbit, Chain
  <2>2. PICK k \in Nat : k = 1
    OBVIOUS
  <2>3. Len(w) = 2 /\ k \in 1 .. (Len(w) - 1) /\ k \in 1 .. Len(w) /\ k + 1 \in 1 .. Len(w)
    BY <1>1, <2>2
  <2>4. w[k + 1] = Back(O)[w[k]] /\ (w[k] = w[k + 1] => k = k + 1)
    BY <2>1, <2>3
  <2>5. k + 1 = 2 /\ k # k + 1
    BY <2>2
  <2> QED BY <2>1, <2>2, <2>3, <2>4, <2>5
<1>8. w[2] = b /\ b # a /\ b \in E /\ b # None /\ Last(w) = b
  <2>1. w[2] = b
    BY <1>1, <1>4, <1>6, <1>7
  <2>2. b \in E
    BY <1>7, <2>1
  <2> QED BY <1>1, <1>7, <2>1, <2>2, NoneIsNoEdge DEF Last
<1>9. O[Prev4(a)] = b /\ O[Prev4(b)] = a
  <2>1. Back(O)[a] = b
    BY <1>7, <1>8
  <2> QED BY <1>3, <1>4, <1>6, <1>8, <2>1
<1>10. \A x \in E : Next4(x) \in E /\ Prev4(x) \in E /\ Next4(Prev4(x)) = x
  BY <1>1, EdgeFacts
<1>11. Across(M, b, Prev4(a)) /\ Across(M, a, Prev4(b))
  BY <1>1, <1>2, <1>4, <1>8, <1>9, <1>10, NoneIsNoEdge
<1>12. From(M, b) = v /\ From(M, Next4(b)) = From(M, Prev4(a)) /\ From(M, Next4(a)) = From(M, Prev4(b))
  BY <1>4, <1>8, <1>10, <1>11 DEF Across
<1>13. a[1] # b[1]
  BY <1>1, <1>4, <1>8, <1>12 DEF Mesh, Simple
<1> QED BY <1>1, <1>4, <1>8, <1>12, <1>13

LEMMA Quad ==
  ASSUME NEW V, NEW p \in V, NEW q \in V, NEW r \in V, NEW s \in V, NEW f, f = <<p, q, r, s>>
  PROVE  /\ f \in [Corner -> V] /\ f[1] = p /\ f[2] = q /\ f[3] = r /\ f[4] = s
         /\ ToSet(f) = {p, q, r, s}
<1>1. DOMAIN f = 1 .. 4 /\ f[1] = p /\ f[2] = q /\ f[3] = r /\ f[4] = s
  OBVIOUS
<1>2. \A j \in 1 .. 4 : j = 1 \/ j = 2 \/ j = 3 \/ j = 4
  OBVIOUS
<1>3. f \in Seq(V)
  OBVIOUS
<1>4. f = [j \in 1 .. 4 |-> f[j]]
  BY <1>1, <1>3
<1>5. \A j \in 1 .. 4 : f[j] \in V
  BY <1>1, <1>2
<1>6. f \in [Corner -> V]
  BY <1>4, <1>5 DEF Corner
<1>7. 1 \in 1 .. 4 /\ 2 \in 1 .. 4 /\ 3 \in 1 .. 4 /\ 4 \in 1 .. 4
  OBVIOUS
<1>8. ToSet(f) = {p, q, r, s}
  BY <1>1, <1>2, <1>7 DEF ToSet
<1> QED BY <1>1, <1>6, <1>8

(* The ends of the edges of a face.                                          *)
LEMMA QuadEnds ==
  ASSUME NEW M, NEW e \in EdgesOf(M)
  PROVE  /\ e[2] = 1 => Ends(M, e) = <<M[e[1]][1], M[e[1]][2]>>
         /\ e[2] = 2 => Ends(M, e) = <<M[e[1]][2], M[e[1]][3]>>
         /\ e[2] = 3 => Ends(M, e) = <<M[e[1]][3], M[e[1]][4]>>
         /\ e[2] = 4 => Ends(M, e) = <<M[e[1]][4], M[e[1]][1]>>
<1>1. PICK i, j : e = <<i, j>> /\ e[1] = i /\ e[2] = j
  BY EdgeParts
<1>2. CASE j = 1
  <2>1. Next4(<<i, j>>) = <<i, 2>>
    BY <1>2 DEF Next4
  <2> QED BY <1>1, <1>2, <2>1 DEF Ends, From
<1>3. CASE j = 2
  <2>1. Next4(<<i, j>>) = <<i, 3>>
    BY <1>3 DEF Next4
  <2> QED BY <1>1, <1>3, <2>1 DEF Ends, From
<1>4. CASE j = 3
  <2>1. Next4(<<i, j>>) = <<i, 4>>
    BY <1>4 DEF Next4
  <2> QED BY <1>1, <1>4, <2>1 DEF Ends, From
<1>5. CASE j = 4
  <2>1. Next4(<<i, j>>) = <<i, 1>>
    BY <1>5 DEF Next4
  <2> QED BY <1>1, <1>5, <2>1 DEF Ends, From
<1> QED BY <1>1, <1>2, <1>3, <1>4, <1>5

Merging(V, M, G, T, X, K, D, v, a, b, q, H, Y, C) ==
  /\ Merged(V, M, G, T, X, K, D)
  /\ v \in D /\ v \notin K /\ Leaving(M, v) # {}
  /\ a = Start(M, Opposites(M), v) /\ b = Opposites(M)[Prev4(a)]
  /\ Len(Backward(Opposites(M), a)) = 2
  /\ q = <<From(G, Next4(a)), From(G, Next4(Next4(a))), From(G, Next4(b)), From(G, Next4(Next4(b)))>>
  /\ H = IF IsSimple(q) THEN [G EXCEPT ![a[1]] = q] ELSE G
  /\ Y = X \union (IF IsSimple(q) THEN {b[1]} ELSE {a[1], b[1]})
  /\ C \subseteq D \ {v}

LEMMA Merge ==
  ASSUME NEW V, NEW M, NEW G, NEW T, NEW X, NEW K, NEW D, NEW v, NEW a, NEW b, NEW q, NEW H, NEW Y, NEW C,
         Merging(V, M, G, T, X, K, D, v, a, b, q, H, Y, C)
  PROVE  Merged(V, M, H, T \union {a[1], b[1]}, Y, K \union ToSet(q), C)
<1> /\ Merged(V, M, G, T, X, K, D)
    /\ v \in D /\ v \notin K /\ Leaving(M, v) # {}
    /\ a = Start(M, Opposites(M), v) /\ b = Opposites(M)[Prev4(a)]
    /\ Len(Backward(Opposites(M), a)) = 2
    /\ q = <<From(G, Next4(a)), From(G, Next4(Next4(a))), From(G, Next4(b)), From(G, Next4(Next4(b)))>>
    /\ H = IF IsSimple(q) THEN [G EXCEPT ![a[1]] = q] ELSE G
    /\ Y = X \union (IF IsSimple(q) THEN {b[1]} ELSE {a[1], b[1]})
    /\ C \subseteq D \ {v}
  BY DEF Merging
<1>1. PICK E, U : E = EdgesOf(M) /\ U = T \union {a[1], b[1]}
  OBVIOUS
<1>2. /\ Mesh(M, V) /\ G \in Seq([Corner -> V]) /\ DOMAIN G = DOMAIN M
      /\ X \subseteq T /\ T \subseteq DOMAIN M
      /\ \A i \in (DOMAIN M) \ T : G[i] = M[i]
      /\ \A e \in E : e[1] \in T => From(M, e) \in K \/ From(M, e) \notin D
      /\ \A e \in EdgesOf(G) : e[1] \in T \ X => \E g \in E : g[1] \in T /\ Ends(G, e) = Ends(M, g)
      /\ Differ(G, X)
  BY <1>1 DEF Merged
<1>3. /\ a \in E /\ b \in E /\ From(M, a) = v /\ From(M, b) = v /\ a[1] # b[1]
      /\ From(M, Next4(b)) = From(M, Prev4(a)) /\ From(M, Next4(a)) = From(M, Prev4(b))
  BY <1>1, <1>2, TwoFaces
<1>4. a[1] \in DOMAIN M /\ b[1] \in DOMAIN M /\ a[1] \notin T /\ b[1] \notin T
  <2>1. a[1] \in DOMAIN M /\ b[1] \in DOMAIN M
    BY <1>1, <1>3, EdgeParts
  <2> QED BY <1>2, <1>3, <2>1
<1>5. PICK g1, g2, g3, g4 : g1 = Next4(a) /\ g2 = Next4(Next4(a)) /\ g3 = Next4(b) /\ g4 = Next4(Next4(b))
  OBVIOUS
<1>6. /\ g1 \in E /\ g2 \in E /\ g3 \in E /\ g4 \in E
      /\ g1[1] = a[1] /\ g2[1] = a[1] /\ g3[1] = b[1] /\ g4[1] = b[1]
      /\ Next4(g2) = Prev4(a) /\ Next4(g4) = Prev4(b)
  <2>1. \A x \in E : Next4(x) \in E /\ Prev4(x) \in E /\ Next4(x)[1] = x[1] /\ Next4(Prev4(x)) = x
                     /\ Next4(Next4(x)) = Prev4(Prev4(x))
    BY <1>1, EdgeFacts
  <2> QED BY <1>3, <1>5, <2>1
<1>7. \A e \in E : e[1] \notin T => From(G, e) = From(M, e) /\ From(G, Next4(e)) = From(M, Next4(e))
  <2>1. \A e \in E : e[1] \in DOMAIN M /\ Next4(e)[1] = e[1]
    BY <1>1, EdgeParts, EdgeFacts
  <2> QED BY <1>2, <2>1 DEF From
<1>8. q = <<From(M, g1), From(M, g2), From(M, g3), From(M, g4)>>
  BY <1>4, <1>5, <1>6, <1>7
<1>9. /\ q \in [Corner -> V] /\ ToSet(q) = {From(M, g1), From(M, g2), From(M, g3), From(M, g4)}
      /\ q[1] = From(M, g1) /\ q[2] = From(M, g2) /\ q[3] = From(M, g3) /\ q[4] = From(M, g4)
  <2>1. M \in Seq([Corner -> V])
    BY <1>2 DEF Mesh
  <2>2. From(M, g1) \in V /\ From(M, g2) \in V /\ From(M, g3) \in V /\ From(M, g4) \in V
    BY <1>1, <1>6, <2>1, FromTyped
  <2> QED BY <1>8, <2>2, Quad
<1>10. /\ Ends(M, g1) = <<q[1], q[2]>> /\ Ends(M, g2) = <<q[2], q[3]>>
       /\ Ends(M, g3) = <<q[3], q[4]>> /\ Ends(M, g4) = <<q[4], q[1]>>
  BY <1>3, <1>5, <1>6, <1>9 DEF Ends
<1>11. DOMAIN H = DOMAIN M /\ H \in Seq([Corner -> V])
       /\ (\A i \in DOMAIN M : i # a[1] => H[i] = G[i]) /\ (IsSimple(q) => H[a[1]] = q)
  <2>1. G \in [1 .. Len(G) -> [Corner -> V]] /\ Len(G) \in Nat /\ DOMAIN M = 1 .. Len(G)
    BY <1>2
  <2>2. H \in [1 .. Len(G) -> [Corner -> V]]
    BY <1>9, <2>1
  <2>3. H \in Seq([Corner -> V]) /\ DOMAIN H = DOMAIN M
    <3>1. PICK n \in Nat : n = Len(G)
      BY <2>1
    <3>2. PICK S : S = [Corner -> V]
      OBVIOUS
    <3>3. H \in [1 .. n -> S] /\ DOMAIN M = 1 .. n
      BY <2>1, <2>2, <3>1, <3>2
    <3>4. H \in Seq(S)
      BY ONLY <3>3, n \in Nat
    <3> QED BY <3>2, <3>3, <3>4
  <2>4. \A i \in DOMAIN M : i # a[1] => H[i] = G[i]
    BY <1>2
  <2>5. IsSimple(q) => H[a[1]] = q
    BY <1>2, <1>4
  <2> QED BY <2>3, <2>4, <2>5
<1>12. EdgesOf(H) = E /\ EdgesOf(G) = E
  BY <1>1, <1>2, <1>11 DEF EdgesOf
<1>13. \A e \in E : Next4(e) \in E /\ Next4(e)[1] = e[1] /\ e[1] \in DOMAIN M
  BY <1>1, EdgeFacts, EdgeParts
<1>14. \A e \in E : e[1] # a[1] \/ ~ IsSimple(q) => From(H, e) = From(G, e) /\ Ends(H, e) = Ends(G, e)
                                                     /\ From(H, Next4(e)) = From(G, Next4(e))
  <2> SUFFICES ASSUME NEW e \in E, e[1] # a[1] \/ ~ IsSimple(q)
               PROVE  From(H, e) = From(G, e) /\ From(H, Next4(e)) = From(G, Next4(e))
    BY DEF Ends
  <2>1. H[e[1]] = G[e[1]]
    BY <1>11, <1>13
  <2> QED BY <1>13, <2>1 DEF From
<1>15. \A e \in E : e[1] = a[1] /\ IsSimple(q) => \E g \in {g1, g2, g3, g4} : Ends(H, e) = Ends(M, g)
  <2> SUFFICES ASSUME NEW e \in E, e[1] = a[1], IsSimple(q)
               PROVE  \E g \in {g1, g2, g3, g4} : Ends(H, e) = Ends(M, g)
    OBVIOUS
  <2>1. e = <<e[1], e[2]>> /\ e[2] \in Corner /\ e[1] \in DOMAIN H /\ H[e[1]] = q
    BY <1>1, <1>4, <1>11, EdgeParts
  <2>2. e[2] = 1 \/ e[2] = 2 \/ e[2] = 3 \/ e[2] = 4
    BY <2>1 DEF Corner
  <2>3. /\ e[2] = 1 => Ends(H, e) = <<q[1], q[2]>>
        /\ e[2] = 2 => Ends(H, e) = <<q[2], q[3]>>
        /\ e[2] = 3 => Ends(H, e) = <<q[3], q[4]>>
        /\ e[2] = 4 => Ends(H, e) = <<q[4], q[1]>>
    <3>1. e \in EdgesOf(H)
      BY <1>12
    <3>2. /\ e[2] = 1 => Ends(H, e) = <<H[e[1]][1], H[e[1]][2]>>
          /\ e[2] = 2 => Ends(H, e) = <<H[e[1]][2], H[e[1]][3]>>
          /\ e[2] = 3 => Ends(H, e) = <<H[e[1]][3], H[e[1]][4]>>
          /\ e[2] = 4 => Ends(H, e) = <<H[e[1]][4], H[e[1]][1]>>
      BY ONLY <3>1, QuadEnds
    <3>3. H[e[1]] = q
      BY <2>1
    <3> QED BY ONLY <3>2, <3>3
  <2> QED BY <1>10, <2>2, <2>3
<1>16. /\ Y \subseteq U /\ U \subseteq DOMAIN M /\ b[1] \in Y /\ X \subseteq Y
       /\ Y \subseteq X \union {a[1], b[1]} /\ (IsSimple(q) \/ a[1] \in Y)
  BY <1>1, <1>2, <1>4
<1>17. \A i \in (DOMAIN M) \ U : H[i] = M[i]
  BY <1>1, <1>2, <1>11
<1>18. ASSUME NEW e \in E, e[1] \in U PROVE From(M, e) \in K \union ToSet(q) \/ From(M, e) \notin C
  <2>1. CASE e[1] \in T
    BY <1>2, <2>1
  <2>2. CASE e[1] = a[1]
    <3>1. e \in {a, g1, g2, Prev4(a)}
      BY <1>1, <1>3, <1>5, <2>2, FourEdges
    <3> QED BY <1>3, <1>5, <1>9, <3>1
  <2>3. CASE e[1] = b[1]
    <3>1. e \in {b, g3, g4, Prev4(b)}
      BY <1>1, <1>3, <1>5, <2>3, FourEdges
    <3> QED BY <1>3, <1>5, <1>9, <3>1
  <2> QED BY <1>1, <1>18, <2>1, <2>2, <2>3
<1>19. ASSUME NEW e \in E, e[1] \in U \ Y PROVE \E g \in E : g[1] \in U /\ Ends(H, e) = Ends(M, g)
  <2>1. CASE e[1] = a[1]
    <3>1. IsSimple(q)
      BY <1>16, <1>19, <2>1
    <3>2. PICK g \in {g1, g2, g3, g4} : Ends(H, e) = Ends(M, g)
      BY <1>15, <2>1, <3>1
    <3>3. g \in E /\ g[1] \in U
      BY <1>1, <1>6
    <3> QED BY <3>2, <3>3
  <2>2. CASE e[1] # a[1]
    <3>1. e[1] \in T \ X
      BY <1>1, <1>16, <1>19, <2>2
    <3>2. PICK g \in E : g[1] \in T /\ Ends(G, e) = Ends(M, g)
      BY <1>2, <1>12, <3>1
    <3>3. Ends(H, e) = Ends(G, e)
      BY <1>14, <2>2
    <3> QED BY <1>1, <3>2, <3>3
  <2> QED BY <2>1, <2>2
<1>20. ASSUME NEW d \in E, NEW e \in E, d[1] = a[1], IsSimple(q), e[1] # a[1], e[1] \notin Y,
              Ends(H, d) = Ends(H, e)
       PROVE  FALSE
  <2>1. PICK g \in {g1, g2, g3, g4} : Ends(H, d) = Ends(M, g)
    BY <1>15, <1>20
  <2>2. g \in E /\ g[1] \in {a[1], b[1]}
    BY <1>6
  <2>3. PICK k \in E : Ends(G, e) = Ends(M, k) /\ (k[1] \in T \/ k = e)
    <3>1. CASE e[1] \in T
      BY <1>2, <1>12, <1>16, <1>20, <3>1
    <3>2. CASE e[1] \notin T
      BY <1>7, <3>2 DEF Ends
    <3> QED BY <3>1, <3>2
  <2>4. Ends(M, k) = Ends(M, g)
    BY <1>14, <1>20, <2>1, <2>3
  <2>5. k = g
    BY <1>1, <1>2, <2>2, <2>4 DEF Mesh, Injective, Ends
  <2> QED BY <1>4, <1>16, <1>20, <2>2, <2>3, <2>5
<1>21. Differ(H, Y)
  <2> SUFFICES ASSUME NEW d \in E, NEW e \in E, d[1] \notin Y, e[1] \notin Y, From(H, d) = From(H, e),
                      d[1] = e[1] \/ From(H, Next4(d)) = From(H, Next4(e))
               PROVE  d = e
    BY <1>12 DEF Differ
  <2>1. CASE IsSimple(q) /\ d[1] = a[1] /\ e[1] = a[1]
    <3>1. d = <<d[1], d[2]>> /\ e = <<e[1], e[2]>> /\ d[2] \in Corner /\ e[2] \in Corner
      BY <1>1, EdgeParts
    <3>2. q[d[2]] = q[e[2]]
      <4>1. From(H, d) = H[d[1]][d[2]] /\ From(H, e) = H[e[1]][e[2]]
        BY DEF From
      <4>2. H[a[1]] = q
        BY <1>11, <2>1
      <4> QED BY <2>1, <4>1, <4>2
    <3>3. d[2] = e[2]
      BY <1>9, <2>1, <3>1, <3>2, SimpleMeans
    <3> QED BY <2>1, <3>1, <3>3
  <2>2. CASE IsSimple(q) /\ d[1] = a[1] /\ e[1] # a[1]
    <3>1. Ends(H, d) = Ends(H, e)
      BY <2>2 DEF Ends
    <3> QED BY <1>20, <2>2, <3>1
  <2>3. CASE IsSimple(q) /\ e[1] = a[1] /\ d[1] # a[1]
    <3>1. Ends(H, d) = Ends(H, e)
      BY <2>3 DEF Ends
    <3> QED BY <1>20, <2>3, <3>1
  <2>4. CASE ~ IsSimple(q) \/ (d[1] # a[1] /\ e[1] # a[1])
    <3>1. From(G, d) = From(G, e) /\ (d[1] = e[1] \/ From(G, Next4(d)) = From(G, Next4(e)))
      BY <1>14, <2>4
    <3>2. d[1] \notin X /\ e[1] \notin X
      BY <1>16
    <3> QED BY <1>2, <1>12, <3>1, <3>2 DEF Differ
  <2> QED BY <2>1, <2>2, <2>3, <2>4
<1>22. Merged(V, M, H, U, Y, K \union ToSet(q), C)
  <2>1. Mesh(M, V) /\ H \in Seq([Corner -> V]) /\ DOMAIN H = DOMAIN M /\ Y \subseteq U /\ U \subseteq DOMAIN M
    BY <1>2, <1>11, <1>16
  <2> QED BY ONLY <1>1, <1>12, <1>17, <1>18, <1>19, <1>21, <2>1 DEF Merged
<1> QED BY <1>1, <1>22

(***************************************************************************)
(* A vertex of several fans becomes several.                               *)
(***************************************************************************)
(* g numbers the fans of v in M; N has a vertex of its own for each fan      *)
(* numbered from 1 on.                                                       *)
Numbering(n, M, v, k, g, N) ==
  /\ n \in Nat /\ Mesh(M, 1 .. n) /\ v \in 1 .. n /\ k \in Nat
  /\ \A x \in Leaving(M, v) : g[x] \in 0 .. k
  /\ \A x, y \in Leaving(M, v) : FanOf(Opposites(M), x) = FanOf(Opposites(M), y) => g[x] = g[y]
  /\ N \in Seq([Corner -> 1 .. (n + k)]) /\ DOMAIN N = DOMAIN M
  /\ \A e \in EdgesOf(M) : From(N, e) = IF From(M, e) = v /\ g[e] > 0 THEN n + g[e] ELSE From(M, e)

LEMMA Numbered ==
  ASSUME NEW n, NEW M, NEW v, NEW k, NEW g, NEW N, Numbering(n, M, v, k, g, N)
  PROVE  Mesh(N, 1 .. (n + k)) /\ EdgesOf(N) = EdgesOf(M) /\ Opposites(N) = Opposites(M)
<1> /\ n \in Nat /\ Mesh(M, 1 .. n) /\ v \in 1 .. n /\ k \in Nat
    /\ \A x \in Leaving(M, v) : g[x] \in 0 .. k
    /\ \A x, y \in Leaving(M, v) : FanOf(Opposites(M), x) = FanOf(Opposites(M), y) => g[x] = g[y]
    /\ N \in Seq([Corner -> 1 .. (n + k)]) /\ DOMAIN N = DOMAIN M
    /\ \A e \in EdgesOf(M) : From(N, e) = IF From(M, e) = v /\ g[e] > 0 THEN n + g[e] ELSE From(M, e)
  BY DEF Numbering
<1>1. PICK E, O, L : E = EdgesOf(M) /\ O = Opposites(M) /\ L = Leaving(M, v)
  OBVIOUS
<1>2. M \in Seq([Corner -> 1 .. n]) /\ Paired(O, E)
      /\ (\A e \in E : O[e] # None => Across(M, O[e], e))
      /\ (\A d, e \in E : Across(M, d, e) => O[e] = d)
  BY <1>1, OppositesFacts DEF Mesh
<1>3. \A e \in E : From(M, e) \in 1 .. n
  BY <1>1, <1>2, FromTyped
<1>4. \A e \in E : From(M, e) = v <=> e \in L
  BY <1>1 DEF Leaving
<1>5. \A e \in E : e \in L /\ g[e] > 0 => From(N, e) = n + g[e] /\ g[e] \in Nat /\ From(N, e) \notin 1 .. n
  BY <1>1, <1>4
<1>6. \A e \in E : ~ (e \in L /\ g[e] > 0) => From(N, e) = From(M, e)
  BY <1>1, <1>4
<1>7. \A d, e \in E : From(N, d) = From(N, e) => From(M, d) = From(M, e)
  <2> SUFFICES ASSUME NEW d \in E, NEW e \in E, From(N, d) = From(N, e) PROVE From(M, d) = From(M, e)
    OBVIOUS
  <2>1. CASE d \in L /\ g[d] > 0
    BY <1>3, <1>4, <1>5, <1>6, <2>1
  <2>2. CASE e \in L /\ g[e] > 0
    BY <1>3, <1>4, <1>5, <1>6, <2>2
  <2>3. CASE ~ (d \in L /\ g[d] > 0) /\ ~ (e \in L /\ g[e] > 0)
    BY <1>6, <2>3
  <2> QED BY <2>1, <2>2, <2>3
<1>8. EdgesOf(N) = E /\ Mesh(N, 1 .. (n + k))
  <2>1. \A d, e \in EdgesOf(M) : From(N, d) = From(N, e) => From(M, d) = From(M, e)
    BY <1>1, <1>7
  <2>2. EdgesOf(N) = EdgesOf(M) /\ Mesh(N, 1 .. (n + k))
    BY <2>1, Relabelled
  <2> QED BY <1>1, <2>2
<1>9. \A x, y \in E : x \in L /\ y \in L /\ Forth(O)[x] = y => From(N, x) = From(N, y)
  <2> SUFFICES ASSUME NEW x \in E, NEW y \in E, x \in L, y \in L, Forth(O)[x] = y
               PROVE  From(N, x) = From(N, y)
    OBVIOUS
  <2>0. Forth(O)[x] = y
    OBVIOUS
  <2>1. FanOf(O, x) = FanOf(O, y)
    <3>1. PICK V : V = 1 .. n
      OBVIOUS
    <3>2. M \in Seq([Corner -> V]) /\ Paired(O, EdgesOf(M)) /\ x \in EdgesOf(M) /\ y \in EdgesOf(M)
      BY <1>1, <1>2, <3>1
    <3> QED BY ONLY <2>0, <3>2, SameFan
  <2>2. g[x] = g[y]
    BY <1>1, <2>1
  <2> QED BY <1>4, <1>5, <1>6, <2>2
<1>10. \A x \in E : Next4(x) \in E /\ Next4(x) # None
  BY <1>1, EdgeFacts, NoneIsNoEdge
<1>11. ASSUME NEW d \in E, NEW e \in E, O[e] = d
       PROVE  From(N, d) = From(N, Next4(e)) /\ From(M, d) = From(M, Next4(e))
  <2>1. d # None
    BY <1>1, NoneIsNoEdge
  <2>2. O[d] = e /\ e # None
    BY <1>1, <1>2, <1>11, <2>1, NoneIsNoEdge DEF Paired
  <2>3. From(M, d) = From(M, Next4(e))
    BY <1>2, <1>11, <2>1 DEF Across
  <2>4. Forth(O)[d] = Next4(e)
    BY <1>1, <1>2, <2>2, BackForth
  <2>5. CASE d \in L
    <3>1. Next4(e) \in L
      BY <1>4, <1>10, <2>3, <2>5
    <3> QED BY <1>9, <1>10, <2>3, <2>4, <2>5, <3>1
  <2>6. CASE d \notin L
    <3>1. Next4(e) \notin L
      BY <1>4, <1>10, <2>3, <2>6
    <3> QED BY <1>6, <1>10, <2>3, <2>6, <3>1
  <2> QED BY <2>5, <2>6
<1>12. \A d, e \in E : Across(N, d, e) <=> Across(M, d, e)
  <2> SUFFICES ASSUME NEW d \in E, NEW e \in E PROVE Across(N, d, e) <=> Across(M, d, e)
    OBVIOUS
  <2>1. ASSUME Across(N, d, e) PROVE Across(M, d, e)
    BY <1>7, <1>10, <2>1 DEF Across
  <2>2. ASSUME Across(M, d, e) PROVE Across(N, d, e)
    <3>1. O[e] = d /\ d # None
      BY <1>1, <1>2, <2>2, NoneIsNoEdge
    <3>2. O[d] = e
      BY <1>2, <3>1 DEF Paired
    <3>3. From(N, d) = From(N, Next4(e)) /\ From(N, e) = From(N, Next4(d))
      BY <1>11, <3>1, <3>2
    <3> QED BY <3>3 DEF Across
  <2> QED BY <2>1, <2>2
<1>13. Opposites(N) = Opposites(M)
  BY <1>1, <1>8, <1>12, OppositesSame
<1> QED BY <1>1, <1>8, <1>13

(***************************************************************************)
(* A vertex is split in two.                                               *)
(***************************************************************************)
(* H is M with the edges fan[p + 1] .. fan[t] of v moved to a new vertex,    *)
(* and one more face, with the corners Z(M, 1) .. Z(M, 4).                   *)
Z(M, j)     == <<Len(M) + 1, j>>
Out(M, e)   == From(M, Next4(e))
In(M, e)    == From(M, Prev4(e))

SplitAt(n, M, v, m, fan, p, t, H) ==
  /\ n \in Nat /\ Mesh(M, 1 .. n) /\ v \in 1 .. n
  /\ m \in Nat /\ fan \in [1 .. m -> Leaving(M, v)] /\ \A e \in Leaving(M, v) : \E k \in 1 .. m : fan[k] = e
  /\ \A j, k \in 1 .. m : fan[j] = fan[k] => j = k
  /\ \A k \in 1 .. m : k + 1 \in 1 .. m => In(M, fan[k + 1]) = Out(M, fan[k])
  /\ p \in 1 .. m /\ t \in 1 .. m /\ p < t
  /\ H \in Seq([Corner -> 1 .. (n + 1)]) /\ Len(H) = Len(M) + 1
  /\ H[Len(M) + 1] = <<n + 1, Out(M, fan[p]), v, Out(M, fan[t])>>
  /\ \A e \in EdgesOf(M) :
       From(H, e) = IF \E k \in (p + 1) .. t : fan[k] = e THEN n + 1 ELSE From(M, e)

OneMore(M, V, H, W) ==
  M \in Seq([Corner -> V]) /\ H \in Seq([Corner -> W]) /\ Len(H) = Len(M) + 1

LEMMA LastFace ==
  ASSUME NEW M, NEW V, NEW H, NEW W, OneMore(M, V, H, W)
  PROVE  /\ EdgesOf(H) = EdgesOf(M) \union {Z(M, 1), Z(M, 2), Z(M, 3), Z(M, 4)}
         /\ \A e \in EdgesOf(M) : e[1] # Len(M) + 1
         /\ Next4(Z(M, 1)) = Z(M, 2) /\ Next4(Z(M, 2)) = Z(M, 3)
         /\ Next4(Z(M, 3)) = Z(M, 4) /\ Next4(Z(M, 4)) = Z(M, 1)
         /\ Prev4(Z(M, 1)) = Z(M, 4) /\ Prev4(Z(M, 2)) = Z(M, 1)
         /\ Prev4(Z(M, 3)) = Z(M, 2) /\ Prev4(Z(M, 4)) = Z(M, 3)
         /\ \A j : From(H, Z(M, j)) = H[Len(M) + 1][j]
<1>1. PICK l \in Nat : l = Len(M) /\ DOMAIN M = 1 .. l /\ DOMAIN H = 1 .. (l + 1)
  BY DEF OneMore
<1>2. Corner = {1, 2, 3, 4}
  BY DEF Corner
<1>3. \A e \in EdgesOf(M) : e[1] # l + 1
  BY <1>1, EdgeParts
<1>4. EdgesOf(H) = EdgesOf(M) \union {<<l + 1, 1>>, <<l + 1, 2>>, <<l + 1, 3>>, <<l + 1, 4>>}
  <2>1. 1 .. (l + 1) = (1 .. l) \union {l + 1}
    BY <1>1
  <2>2. \A e : e \in EdgesOf(H) <=> (\E i \in 1 .. (l + 1), j \in Corner : e = <<i, j>>)
    BY <1>1 DEF EdgesOf
  <2>3. \A e : e \in EdgesOf(M) <=> (\E i \in 1 .. l, j \in Corner : e = <<i, j>>)
    BY <1>1 DEF EdgesOf
  <2>4. PICK A, B, C, x : A = EdgesOf(H) /\ B = EdgesOf(M) /\ C = 1 .. l /\ x = l + 1
    OBVIOUS
  <2>5. \A e : e \in A <=> e \in B \/ (\E j \in Corner : e = <<x, j>>)
    BY <2>1, <2>2, <2>3, <2>4
  <2>6. \A e : e \in A <=> e \in B \union {<<x, 1>>, <<x, 2>>, <<x, 3>>, <<x, 4>>}
    BY ONLY <2>5, <1>2
  <2> QED BY ONLY <2>4, <2>6
<1>5. /\ Next4(<<l + 1, 1>>) = <<l + 1, 2>> /\ Next4(<<l + 1, 2>>) = <<l + 1, 3>>
      /\ Next4(<<l + 1, 3>>) = <<l + 1, 4>> /\ Next4(<<l + 1, 4>>) = <<l + 1, 1>>
      /\ Prev4(<<l + 1, 1>>) = <<l + 1, 4>> /\ Prev4(<<l + 1, 2>>) = <<l + 1, 1>>
      /\ Prev4(<<l + 1, 3>>) = <<l + 1, 2>> /\ Prev4(<<l + 1, 4>>) = <<l + 1, 3>>
  BY DEF Next4, Prev4
<1>6. \A j : From(H, <<l + 1, j>>) = H[l + 1][j]
  BY <1>1 DEF From
<1> QED BY <1>1, <1>3, <1>4, <1>5, <1>6 DEF Z

LEMMA IntervalAll ==
  ASSUME NEW lo \in Int, NEW hi \in Int, NEW S,
         \A k \in lo .. hi : k + 1 \in lo .. hi => (k \in S <=> k + 1 \in S),
         NEW j \in lo .. hi, NEW k \in lo .. hi, j \in S
  PROVE  k \in S
<1>1. \A i \in Nat : j + i \in lo .. hi => j + i \in S
  <2> DEFINE Bad == {i \in Nat : j + i \in lo .. hi /\ j + i \notin S}
  <2> SUFFICES ASSUME Bad # {} PROVE FALSE
    OBVIOUS
  <2>1. PICK i \in Bad : \A d \in Bad : i <= d
    BY LeastNatural
  <2>2. i # 0
    OBVIOUS
  <2>3. i - 1 \in Nat /\ j + (i - 1) \in lo .. hi /\ (j + (i - 1)) + 1 = j + i
    BY <2>2
  <2>4. j + (i - 1) \in S
    BY <2>1, <2>3
  <2> QED BY <2>3, <2>4
<1>2. \A i \in Nat : j - i \in lo .. hi => j - i \in S
  <2> DEFINE Bad == {i \in Nat : j - i \in lo .. hi /\ j - i \notin S}
  <2> SUFFICES ASSUME Bad # {} PROVE FALSE
    OBVIOUS
  <2>1. PICK i \in Bad : \A d \in Bad : i <= d
    BY LeastNatural
  <2>2. i # 0
    OBVIOUS
  <2>3. i - 1 \in Nat /\ j - (i - 1) \in lo .. hi /\ (j - i) + 1 = j - (i - 1)
    BY <2>2
  <2>4. j - (i - 1) \in S
    BY <2>1, <2>3
  <2> QED BY <2>3, <2>4
<1>3. CASE j <= k
  <2>1. k - j \in Nat /\ j + (k - j) = k
    BY <1>3
  <2> QED BY <1>1, <2>1
<1>4. CASE k <= j
  <2>1. j - k \in Nat /\ j - (j - k) = k
    BY <1>4
  <2> QED BY <1>2, <2>1
<1> QED BY <1>3, <1>4

SplitKnown(n, M, v, m, fan, p, t, H) ==
  /\ n \in Nat /\ m \in Nat /\ v \in 1 .. n /\ p \in 1 .. m /\ t \in 1 .. m /\ p < t
  /\ \A e \in EdgesOf(M) : From(M, e) \in 1 .. n /\ Next4(e) \in EdgesOf(M) /\ Prev4(e) \in EdgesOf(M)
                           /\ Next4(Prev4(e)) = e /\ Prev4(Next4(e)) = e
  /\ \A k \in 1 .. m : fan[k] \in EdgesOf(M) /\ From(M, fan[k]) = v
  /\ \A e \in EdgesOf(M) : From(M, e) = v => \E k \in 1 .. m : fan[k] = e
  /\ \A d, e \in EdgesOf(M) : From(M, d) = v /\ From(M, e) = v /\ Out(M, d) = Out(M, e) => d = e
  /\ \A d, e \in EdgesOf(M) : From(M, d) = v /\ From(M, e) = v /\ In(M, d) = In(M, e) => d = e
  /\ \A k \in 1 .. m : Out(M, fan[k]) \in 1 .. n /\ Out(M, fan[k]) # v /\ In(M, fan[k]) # v
  /\ \A j, k \in 1 .. m : Out(M, fan[j]) = Out(M, fan[k]) => j = k
  /\ \A k \in 1 .. m : k + 1 \in 1 .. m => In(M, fan[k + 1]) = Out(M, fan[k])
  /\ \A e \in EdgesOf(M) : From(M, e) # v => From(H, e) = From(M, e)
  /\ \A k \in 1 .. m : k \in (p + 1) .. t => From(H, fan[k]) = n + 1
  /\ \A k \in 1 .. m : k \notin (p + 1) .. t => From(H, fan[k]) = v
  /\ \A d, e \in EdgesOf(M) : From(H, d) = From(H, e) => From(M, d) = From(M, e)

LEMMA SplitIsKnown ==
  ASSUME NEW n, NEW M, NEW v, NEW m, NEW fan, NEW p, NEW t, NEW H, SplitAt(n, M, v, m, fan, p, t, H)
  PROVE  SplitKnown(n, M, v, m, fan, p, t, H)
<1>1. PICK E, L : E = EdgesOf(M) /\ L = Leaving(M, v)
  OBVIOUS
<1>2. /\ n \in Nat /\ Mesh(M, 1 .. n) /\ v \in 1 .. n
      /\ m \in Nat /\ fan \in [1 .. m -> L] /\ \A e \in L : \E k \in 1 .. m : fan[k] = e
      /\ \A j, k \in 1 .. m : fan[j] = fan[k] => j = k
      /\ \A k \in 1 .. m : k + 1 \in 1 .. m => In(M, fan[k + 1]) = Out(M, fan[k])
      /\ p \in 1 .. m /\ t \in 1 .. m /\ p < t
      /\ \A e \in E : From(H, e) = IF \E k \in (p + 1) .. t : fan[k] = e THEN n + 1 ELSE From(M, e)
  BY <1>1 DEF SplitAt
<1>3. \A e \in E : From(M, e) \in 1 .. n
  <2>1. M \in Seq([Corner -> 1 .. n])
    BY <1>2 DEF Mesh
  <2> QED BY <1>1, <2>1, FromTyped
<1>4. \A e \in E : /\ Next4(e) \in E /\ Prev4(e) \in E /\ Next4(Prev4(e)) = e /\ Prev4(Next4(e)) = e
                   /\ Next4(e)[1] = e[1] /\ Prev4(e)[1] = e[1] /\ Next4(e) # e /\ Prev4(e) # e
  BY <1>1, EdgeFacts
<1>5. \A e \in E : From(M, e) = v <=> e \in L
  BY <1>1 DEF Leaving
<1>6. \A k \in 1 .. m : fan[k] \in E /\ From(M, fan[k]) = v
  BY <1>1, <1>2 DEF Leaving
<1>7. \A e \in E : From(M, e) = v => \E k \in 1 .. m : fan[k] = e
  BY <1>2, <1>5
<1>8. \A d, e \in E : From(M, d) = v /\ From(M, e) = v /\ Out(M, d) = Out(M, e) => d = e
  BY <1>1, <1>2 DEF Mesh, Injective, Out
<1>9. ASSUME NEW d \in E, NEW e \in E, From(M, d) = v, From(M, e) = v, In(M, d) = In(M, e) PROVE d = e
  <2>1. Prev4(d) = Prev4(e)
    BY <1>1, <1>2, <1>4, <1>9 DEF Mesh, Injective, In
  <2>2. Next4(Prev4(d)) = d /\ Next4(Prev4(e)) = e
    BY <1>4
  <2> QED BY <2>1, <2>2
<1>10. \A e \in E : From(M, Next4(e)) # From(M, e) /\ From(M, Prev4(e)) # From(M, e)
  BY <1>1, <1>2, <1>4 DEF Mesh, Simple
<1>11. \A k \in 1 .. m : Out(M, fan[k]) \in 1 .. n /\ Out(M, fan[k]) # v /\ In(M, fan[k]) # v
  BY <1>3, <1>4, <1>6, <1>10 DEF Out, In
<1>12. \A j, k \in 1 .. m : Out(M, fan[j]) = Out(M, fan[k]) => j = k
  BY <1>2, <1>6, <1>8
<1>13. (p + 1) .. t \subseteq 1 .. m
  BY <1>2
<1>14. \A e \in E : From(M, e) # v => From(H, e) = From(M, e)
  BY <1>2, <1>6, <1>13
<1>15. \A k \in 1 .. m : k \in (p + 1) .. t => From(H, fan[k]) = n + 1
  BY <1>2, <1>6
<1>16. \A k \in 1 .. m : k \notin (p + 1) .. t => From(H, fan[k]) = v
  <2> SUFFICES ASSUME NEW k \in 1 .. m, k \notin (p + 1) .. t PROVE From(H, fan[k]) = v
    OBVIOUS
  <2>1. \A j \in (p + 1) .. t : fan[j] # fan[k]
    BY <1>2, <1>13
  <2> QED BY <1>2, <1>6, <2>1
<1>17. ASSUME NEW d \in E, NEW e \in E, From(H, d) = From(H, e) PROVE From(M, d) = From(M, e)
  <2>1. \A x \in E : From(H, x) = From(M, x) \/ (From(H, x) = n + 1 /\ From(M, x) = v)
    BY <1>2, <1>6, <1>13
  <2>2. \A x \in E : From(M, x) # n + 1
    BY <1>2, <1>3
  <2> QED BY <1>17, <2>1, <2>2
<1> QED BY <1>1, <1>2, <1>3, <1>4, <1>6, <1>7, <1>8, <1>9, <1>11, <1>12, <1>14, <1>15, <1>16, <1>17 DEF SplitKnown

LEMMA SplitMesh ==
  ASSUME NEW n, NEW M, NEW v, NEW m, NEW fan, NEW p, NEW t, NEW H, SplitAt(n, M, v, m, fan, p, t, H)
  PROVE  Mesh(H, 1 .. (n + 1))
<1>1. PICK E, w, z1, z2, z3, z4, r, s :
        /\ E = EdgesOf(M) /\ w = n + 1
        /\ z1 = Z(M, 1) /\ z2 = Z(M, 2) /\ z3 = Z(M, 3) /\ z4 = Z(M, 4)
        /\ r = Out(M, fan[p]) /\ s = Out(M, fan[t])
  OBVIOUS
<1>2. SplitKnown(n, M, v, m, fan, p, t, H)
  BY SplitIsKnown
<1>3. Mesh(M, 1 .. n) /\ M \in Seq([Corner -> 1 .. n])
  BY DEF SplitAt, Mesh
<1>4. /\ EdgesOf(H) = E \union {z1, z2, z3, z4} /\ \A e \in E : e[1] # Len(M) + 1
      /\ Next4(z1) = z2 /\ Next4(z2) = z3 /\ Next4(z3) = z4 /\ Next4(z4) = z1
      /\ From(H, z1) = w /\ From(H, z2) = r /\ From(H, z3) = v /\ From(H, z4) = s
  <2>1. OneMore(M, 1 .. n, H, 1 .. (n + 1)) /\ H[Len(M) + 1] = <<w, r, v, s>>
    BY <1>1, <1>3 DEF SplitAt, OneMore
  <2>2. /\ EdgesOf(H) = EdgesOf(M) \union {Z(M, 1), Z(M, 2), Z(M, 3), Z(M, 4)}
        /\ \A e \in EdgesOf(M) : e[1] # Len(M) + 1
        /\ Next4(Z(M, 1)) = Z(M, 2) /\ Next4(Z(M, 2)) = Z(M, 3)
        /\ Next4(Z(M, 3)) = Z(M, 4) /\ Next4(Z(M, 4)) = Z(M, 1)
        /\ \A j : From(H, Z(M, j)) = H[Len(M) + 1][j]
    BY ONLY <2>1, LastFace
  <2>3. From(H, Z(M, 1)) = w /\ From(H, Z(M, 2)) = r /\ From(H, Z(M, 3)) = v /\ From(H, Z(M, 4)) = s
    BY ONLY <2>1, <2>2
  <2> QED BY ONLY <1>1, <2>2, <2>3
<1>5. \A z \in {z1, z2, z3, z4} : z[1] = Len(M) + 1
  BY <1>1 DEF Z
<1>6. w # r /\ w # v /\ w # s /\ r # v /\ r # s /\ v # s /\ w \notin 1 .. n
  BY <1>1, <1>2 DEF SplitKnown
<1>7. \A y, z \in {z1, z2, z3, z4} : From(H, y) = From(H, z) => y = z
  BY <1>4, <1>6
<1>8. \A d, e \in E : From(H, d) = From(H, e) => From(M, d) = From(M, e)
  BY <1>1, <1>2 DEF SplitKnown
<1>9. Simple(H)
  <2> SUFFICES ASSUME NEW d \in EdgesOf(H), NEW e \in EdgesOf(H), d[1] = e[1], From(H, d) = From(H, e)
               PROVE  d = e
    BY DEF Simple
  <2>1. CASE d \in E /\ e \in E
    BY <1>1, <1>3, <1>8, <2>1 DEF Mesh, Simple
  <2> QED BY <1>4, <1>5, <1>7, <2>1
<1>10. \A e \in E : From(M, e) \in 1 .. n /\ Next4(e) \in E
  BY <1>1, <1>2 DEF SplitKnown
<1>11. \A e \in E : From(H, e) = w => \E k \in (p + 1) .. t : k \in 1 .. m /\ fan[k] = e
  <2> SUFFICES ASSUME NEW e \in E, From(H, e) = w PROVE \E k \in (p + 1) .. t : k \in 1 .. m /\ fan[k] = e
    OBVIOUS
  <2>1. From(M, e) = v
    BY <1>1, <1>2, <1>6, <1>10 DEF SplitKnown
  <2>2. PICK k \in 1 .. m : fan[k] = e
    BY <1>1, <1>2, <2>1 DEF SplitKnown
  <2>3. k \in (p + 1) .. t
    BY <1>1, <1>2, <1>6, <2>2 DEF SplitKnown
  <2> QED BY <2>2, <2>3
<1>12. \A e \in E : From(H, e) = v => \E k \in 1 .. m : k \notin (p + 1) .. t /\ fan[k] = e
  <2> SUFFICES ASSUME NEW e \in E, From(H, e) = v PROVE \E k \in 1 .. m : k \notin (p + 1) .. t /\ fan[k] = e
    OBVIOUS
  <2>1. From(M, e) = v
    BY <1>1, <1>2 DEF SplitKnown
  <2>2. PICK k \in 1 .. m : fan[k] = e
    BY <1>1, <1>2, <2>1 DEF SplitKnown
  <2>3. k \notin (p + 1) .. t
    BY <1>1, <1>2, <1>6, <2>2 DEF SplitKnown
  <2> QED BY <2>2, <2>3
<1>13. \A e \in E : From(H, e) # w /\ From(H, e) # v => From(M, e) = From(H, e)
  BY <1>1, <1>2 DEF SplitKnown
<1>14. ASSUME NEW d \in E, NEW z \in {z1, z2, z3, z4}, From(H, d) = From(H, z),
              From(H, Next4(d)) = From(H, Next4(z))
       PROVE  FALSE
  <2>0. Next4(d) \in E
    BY <1>10
  <2>1. CASE z = z1
    <3>1. PICK k \in (p + 1) .. t : k \in 1 .. m /\ fan[k] = d
      BY <1>4, <1>11, <1>14, <2>1
    <3>2. From(M, Next4(d)) = r
      BY <1>4, <1>6, <1>13, <1>14, <2>0, <2>1
    <3>3. k = p
      BY <1>1, <1>2, <3>1, <3>2 DEF SplitKnown, Out
    <3> QED BY <1>2, <3>1, <3>3 DEF SplitKnown
  <2>2. CASE z = z2
    <3>1. PICK k \in 1 .. m : k \notin (p + 1) .. t /\ fan[k] = Next4(d)
      BY <1>4, <1>12, <1>14, <2>0, <2>2
    <3>2. From(M, d) = r
      BY <1>4, <1>6, <1>13, <1>14, <2>2
    <3>3. In(M, fan[k]) = r
      BY <1>1, <1>2, <3>1, <3>2 DEF SplitKnown, In
    <3>4. p + 1 \in 1 .. m /\ p + 1 \in (p + 1) .. t
      BY <1>2 DEF SplitKnown
    <3>5. In(M, fan[p + 1]) = r
      BY <1>1, <1>2, <3>4 DEF SplitKnown
    <3>6. fan[p + 1] = fan[k]
      BY <1>2, <3>1, <3>3, <3>4, <3>5 DEF SplitKnown
    <3>7. p + 1 = k
      BY <3>1, <3>4, <3>6 DEF SplitAt
    <3> QED BY <3>1, <3>4, <3>7
  <2>3. CASE z = z3
    <3>1. PICK k \in 1 .. m : k \notin (p + 1) .. t /\ fan[k] = d
      BY <1>4, <1>12, <1>14, <2>3
    <3>2. From(M, Next4(d)) = s
      BY <1>4, <1>6, <1>13, <1>14, <2>0, <2>3
    <3>3. k = t
      BY <1>1, <1>2, <3>1, <3>2 DEF SplitKnown, Out
    <3> QED BY <1>2, <3>1, <3>3 DEF SplitKnown
  <2>4. CASE z = z4
    <3>1. PICK k \in (p + 1) .. t : k \in 1 .. m /\ fan[k] = Next4(d)
      BY <1>4, <1>11, <1>14, <2>0, <2>4
    <3>2. From(M, d) = s
      BY <1>4, <1>6, <1>13, <1>14, <2>4
    <3>3. In(M, fan[k]) = s
      BY <1>1, <1>2, <3>1, <3>2 DEF SplitKnown, In
    <3>4. k - 1 \in 1 .. m /\ (k - 1) + 1 = k /\ k - 1 # t
      BY <1>2, <3>1 DEF SplitKnown
    <3>5. In(M, fan[k]) = Out(M, fan[k - 1])
      BY <1>2, <3>1, <3>4 DEF SplitKnown
    <3>6. k - 1 = t
      BY <1>1, <1>2, <3>3, <3>4, <3>5 DEF SplitKnown
    <3> QED BY <3>4, <3>6
  <2> QED BY <2>1, <2>2, <2>3, <2>4
<1>15. Injective(H)
  <2> SUFFICES ASSUME NEW d \in EdgesOf(H), NEW e \in EdgesOf(H), From(H, d) = From(H, e),
                      From(H, Next4(d)) = From(H, Next4(e))
               PROVE  d = e
    BY DEF Injective
  <2>1. CASE d \in E /\ e \in E
    BY <1>1, <1>3, <1>8, <1>10, <2>1 DEF Mesh, Injective
  <2>2. CASE d \in E /\ e \notin E
    BY <1>4, <1>14, <2>2
  <2>3. CASE d \notin E /\ e \in E
    BY <1>4, <1>14, <2>3
  <2>4. CASE d \notin E /\ e \notin E
    BY <1>4, <1>7, <2>4
  <2> QED BY <2>1, <2>2, <2>3, <2>4
<1> QED BY <1>9, <1>15 DEF Mesh, SplitAt

LEMMA SplitCorners ==
  ASSUME NEW n, NEW M, NEW v, NEW m, NEW fan, NEW p, NEW t, NEW H, SplitAt(n, M, v, m, fan, p, t, H)
  PROVE  /\ EdgesOf(H) = EdgesOf(M) \union {Z(M, 1), Z(M, 2), Z(M, 3), Z(M, 4)}
         /\ Next4(Z(M, 1)) = Z(M, 2) /\ Next4(Z(M, 2)) = Z(M, 3)
         /\ Next4(Z(M, 3)) = Z(M, 4) /\ Next4(Z(M, 4)) = Z(M, 1)
         /\ Prev4(Z(M, 1)) = Z(M, 4) /\ Prev4(Z(M, 2)) = Z(M, 1)
         /\ Prev4(Z(M, 3)) = Z(M, 2) /\ Prev4(Z(M, 4)) = Z(M, 3)
         /\ From(H, Z(M, 1)) = n + 1 /\ From(H, Z(M, 2)) = Out(M, fan[p])
         /\ From(H, Z(M, 3)) = v /\ From(H, Z(M, 4)) = Out(M, fan[t])
<1>1. OneMore(M, 1 .. n, H, 1 .. (n + 1)) /\ H[Len(M) + 1] = <<n + 1, Out(M, fan[p]), v, Out(M, fan[t])>>
  BY DEF SplitAt, OneMore, Mesh
<1>2. /\ EdgesOf(H) = EdgesOf(M) \union {Z(M, 1), Z(M, 2), Z(M, 3), Z(M, 4)}
      /\ Next4(Z(M, 1)) = Z(M, 2) /\ Next4(Z(M, 2)) = Z(M, 3)
      /\ Next4(Z(M, 3)) = Z(M, 4) /\ Next4(Z(M, 4)) = Z(M, 1)
      /\ Prev4(Z(M, 1)) = Z(M, 4) /\ Prev4(Z(M, 2)) = Z(M, 1)
      /\ Prev4(Z(M, 3)) = Z(M, 2) /\ Prev4(Z(M, 4)) = Z(M, 3)
      /\ \A j : From(H, Z(M, j)) = H[Len(M) + 1][j]
  BY ONLY <1>1, LastFace
<1>3. /\ From(H, Z(M, 1)) = n + 1 /\ From(H, Z(M, 2)) = Out(M, fan[p])
      /\ From(H, Z(M, 3)) = v /\ From(H, Z(M, 4)) = Out(M, fan[t])
  BY ONLY <1>1, <1>2
<1> QED BY ONLY <1>2, <1>3

(* Edges next to each other around a vertex that is not split stay so, or a  *)
(* corner of the new face comes between them.                                *)
LEMMA SplitTouches ==
  ASSUME NEW n, NEW M, NEW v, NEW m, NEW fan, NEW p, NEW t, NEW H, SplitAt(n, M, v, m, fan, p, t, H),
         NEW d \in EdgesOf(M), NEW e \in EdgesOf(M), Touch(M, d, e), From(M, d) # v
  PROVE  \/ Touch(H, d, e)
         \/ Touch(H, d, Z(M, 2)) /\ Touch(H, Z(M, 2), e)
         \/ Touch(H, d, Z(M, 4)) /\ Touch(H, Z(M, 4), e)
<1>1. PICK E, w, z1, z2, z3, z4, r, s :
        /\ E = EdgesOf(M) /\ w = n + 1
        /\ z1 = Z(M, 1) /\ z2 = Z(M, 2) /\ z3 = Z(M, 3) /\ z4 = Z(M, 4)
        /\ r = Out(M, fan[p]) /\ s = Out(M, fan[t])
  OBVIOUS
<1>2. SplitKnown(n, M, v, m, fan, p, t, H)
  BY SplitIsKnown
<1>3. /\ Next4(z2) = z3 /\ Prev4(z2) = z1 /\ Next4(z4) = z1 /\ Prev4(z4) = z3
      /\ From(H, z1) = w /\ From(H, z2) = r /\ From(H, z3) = v /\ From(H, z4) = s
  BY <1>1, SplitCorners
<1>4. From(M, d) = From(M, e) /\ From(M, Next4(d)) = From(M, Prev4(e))
  BY DEF Touch
<1>5. From(H, d) = From(M, d) /\ From(H, e) = From(M, d)
  BY <1>2, <1>4 DEF SplitKnown
<1>6. d \in E /\ e \in E /\ Next4(d) \in E /\ Prev4(e) \in E /\ Prev4(Next4(d)) = d /\ Next4(Prev4(e)) = e
  BY <1>1, <1>2 DEF SplitKnown
<1>7. CASE From(M, Next4(d)) # v
  <2>1. From(H, Next4(d)) = From(H, Prev4(e))
    BY <1>1, <1>2, <1>4, <1>6, <1>7 DEF SplitKnown
  <2> QED BY <1>5, <2>1 DEF Touch
<1>8. CASE From(M, Next4(d)) = v
  <2>1. PICK a \in 1 .. m : fan[a] = Next4(d)
    BY <1>1, <1>2, <1>6, <1>8 DEF SplitKnown
  <2>2. PICK b \in 1 .. m : fan[b] = Prev4(e)
    BY <1>1, <1>2, <1>4, <1>6, <1>8 DEF SplitKnown
  <2>3. In(M, fan[a]) = From(M, d) /\ Out(M, fan[b]) = From(M, d)
    BY <1>4, <1>6, <2>1, <2>2 DEF In, Out
  <2>4. b + 1 \in 1 .. m => a = b + 1
    <3> SUFFICES ASSUME b + 1 \in 1 .. m PROVE a = b + 1
      OBVIOUS
    <3>1. In(M, fan[b + 1]) = In(M, fan[a])
      BY <1>2, <2>2, <2>3 DEF SplitKnown
    <3>2. fan[a] = fan[b + 1]
      BY <1>2, <2>1, <3>1 DEF SplitKnown
    <3> QED BY <2>1, <3>2 DEF SplitAt
  <2>5. a - 1 \in 1 .. m => b = a - 1
    <3> SUFFICES ASSUME a - 1 \in 1 .. m PROVE b = a - 1
      OBVIOUS
    <3>1. (a - 1) + 1 = a
      BY <1>2, <2>1 DEF SplitKnown
    <3>2. Out(M, fan[a - 1]) = Out(M, fan[b])
      BY <1>2, <2>1, <2>3, <3>1 DEF SplitKnown
    <3> QED BY <1>2, <2>2, <3>2 DEF SplitKnown
  <2>6. m \in Nat /\ p \in 1 .. m /\ t \in 1 .. m /\ p < t
    BY <1>2 DEF SplitKnown
  <2>7. From(H, Next4(d)) = IF a \in (p + 1) .. t THEN w ELSE v
    BY <1>1, <1>2, <2>1 DEF SplitKnown
  <2>8. From(H, Prev4(e)) = IF b \in (p + 1) .. t THEN w ELSE v
    BY <1>1, <1>2, <2>2 DEF SplitKnown
  <2>9. CASE a \in (p + 1) .. t /\ b \notin (p + 1) .. t
    <3>1. b = p
      BY <2>1, <2>2, <2>5, <2>6, <2>9
    <3>2. Touch(H, d, z2)
      BY <1>1, <1>3, <1>5, <2>3, <2>7, <2>9, <3>1 DEF Touch
    <3>3. Touch(H, z2, e)
      BY <1>1, <1>3, <1>5, <2>3, <2>8, <2>9, <3>1 DEF Touch
    <3> QED BY <1>1, <3>2, <3>3
  <2>10. CASE a \notin (p + 1) .. t /\ b \in (p + 1) .. t
    <3>1. b = t
      BY <2>1, <2>2, <2>4, <2>6, <2>10
    <3>2. Touch(H, d, z4)
      BY <1>1, <1>3, <1>5, <2>3, <2>7, <2>10, <3>1 DEF Touch
    <3>3. Touch(H, z4, e)
      BY <1>1, <1>3, <1>5, <2>3, <2>8, <2>10, <3>1 DEF Touch
    <3> QED BY <1>1, <3>2, <3>3
  <2>11. CASE a \in (p + 1) .. t <=> b \in (p + 1) .. t
    <3>1. From(H, Next4(d)) = From(H, Prev4(e))
      BY <2>7, <2>8, <2>11
    <3> QED BY <1>5, <3>1 DEF Touch
  <2> QED BY <2>9, <2>10, <2>11
<1> QED BY <1>7, <1>8

LEMMA SplitOneFan ==
  ASSUME NEW n, NEW M, NEW v, NEW m, NEW fan, NEW p, NEW t, NEW H, SplitAt(n, M, v, m, fan, p, t, H),
         OneFanEach(M)
  PROVE  OneFanEach(H)
<1>1. PICK E, w, z1, z2, z3, z4, r, s :
        /\ E = EdgesOf(M) /\ w = n + 1
        /\ z1 = Z(M, 1) /\ z2 = Z(M, 2) /\ z3 = Z(M, 3) /\ z4 = Z(M, 4)
        /\ r = Out(M, fan[p]) /\ s = Out(M, fan[t])
  OBVIOUS
<1>2. SplitKnown(n, M, v, m, fan, p, t, H)
  BY SplitIsKnown
<1>3. /\ EdgesOf(H) = E \union {z1, z2, z3, z4}
      /\ Next4(z1) = z2 /\ Next4(z2) = z3 /\ Next4(z3) = z4 /\ Next4(z4) = z1
      /\ Prev4(z1) = z4 /\ Prev4(z2) = z1 /\ Prev4(z3) = z2 /\ Prev4(z4) = z3
      /\ From(H, z1) = w /\ From(H, z2) = r /\ From(H, z3) = v /\ From(H, z4) = s
  BY <1>1, SplitCorners
<1>4. /\ n \in Nat /\ m \in Nat /\ v \in 1 .. n /\ p \in 1 .. m /\ t \in 1 .. m /\ p < t
      /\ p + 1 \in 1 .. m /\ p \notin (p + 1) .. t /\ p + 1 \in (p + 1) .. t /\ t \in (p + 1) .. t
  BY <1>2 DEF SplitKnown
<1>5. w # r /\ w # v /\ w # s /\ r # v /\ r # s /\ v # s
  BY <1>1, <1>2 DEF SplitKnown
<1>6. \A e \in E : Next4(e) \in E /\ Prev4(e) \in E /\ Next4(Prev4(e)) = e /\ Prev4(Next4(e)) = e
  BY <1>1, <1>2 DEF SplitKnown
<1>7. \A e \in E : From(M, e) # v => From(H, e) = From(M, e) /\ From(H, e) # w
  BY <1>1, <1>2, <1>4 DEF SplitKnown
<1>8. \A k \in 1 .. m : fan[k] \in E /\ From(M, fan[k]) = v
                        /\ From(H, fan[k]) = IF k \in (p + 1) .. t THEN w ELSE v
  BY <1>1, <1>2 DEF SplitKnown
<1>9. \A e \in E : From(M, e) = v => \E k \in 1 .. m : fan[k] = e
  BY <1>1, <1>2 DEF SplitKnown
<1>10. \A k \in 1 .. m : /\ From(M, Next4(fan[k])) = Out(M, fan[k]) /\ From(M, Prev4(fan[k])) = In(M, fan[k])
                         /\ From(H, Next4(fan[k])) = Out(M, fan[k]) /\ From(H, Prev4(fan[k])) = In(M, fan[k])
  <2> SUFFICES ASSUME NEW k \in 1 .. m
               PROVE  /\ From(H, Next4(fan[k])) = Out(M, fan[k]) /\ From(H, Prev4(fan[k])) = In(M, fan[k])
    BY DEF Out, In
  <2>1. From(M, Next4(fan[k])) # v /\ From(M, Prev4(fan[k])) # v
    BY <1>2 DEF SplitKnown, Out, In
  <2> QED BY <1>6, <1>7, <1>8, <2>1 DEF Out, In
<1>11. \A k \in 1 .. m : k + 1 \in 1 .. m => In(M, fan[k + 1]) = Out(M, fan[k])
  BY <1>2 DEF SplitKnown
<1>12. r = Out(M, fan[p]) /\ s = Out(M, fan[t]) /\ In(M, fan[p + 1]) = r
  BY <1>1, <1>4, <1>11
<1> SUFFICES ASSUME NEW A, A \subseteq EdgesOf(H), Saturated(H, A),
                    NEW x \in A, NEW y \in EdgesOf(H), From(H, x) = From(H, y)
             PROVE  y \in A
  BY DEF OneFanEach
<1>13. \A d, e \in EdgesOf(H) : Touch(H, d, e) => (d \in A <=> e \in A)
  BY DEF Saturated
<1>14. \A k \in 1 .. m : k + 1 \in 1 .. m /\ From(H, fan[k]) = From(H, fan[k + 1]) =>
                          (fan[k] \in A <=> fan[k + 1] \in A)
  <2> SUFFICES ASSUME NEW k \in 1 .. m, k + 1 \in 1 .. m, From(H, fan[k]) = From(H, fan[k + 1])
               PROVE  fan[k] \in A <=> fan[k + 1] \in A
    OBVIOUS
  <2>1. Touch(H, fan[k], fan[k + 1])
    BY <1>10, <1>11 DEF Touch
  <2> QED BY <1>3, <1>8, <1>13, <2>1
<1>15. z1 \in A <=> fan[p + 1] \in A
  <2>1. Touch(H, z1, fan[p + 1])
    BY <1>3, <1>4, <1>8, <1>10, <1>12 DEF Touch
  <2> QED BY <1>3, <1>4, <1>8, <1>13, <2>1
<1>16. z3 \in A <=> fan[p] \in A
  <2>1. Touch(H, fan[p], z3)
    BY <1>3, <1>4, <1>8, <1>10, <1>12 DEF Touch
  <2> QED BY <1>3, <1>4, <1>8, <1>13, <2>1
<1>17. t + 1 \in 1 .. m => (z3 \in A <=> fan[t + 1] \in A)
  <2> SUFFICES ASSUME t + 1 \in 1 .. m PROVE z3 \in A <=> fan[t + 1] \in A
    OBVIOUS
  <2>0. t + 1 \notin (p + 1) .. t /\ In(M, fan[t + 1]) = s
    BY <1>4, <1>11, <1>12
  <2>1. Touch(H, z3, fan[t + 1])
    BY <1>3, <1>4, <1>8, <1>10, <1>12, <2>0 DEF Touch
  <2> QED BY <1>3, <1>8, <1>13, <2>1
<1>18. z2 \in A <=> Next4(fan[p]) \in A
  <2>1. Touch(H, z2, Next4(fan[p]))
    BY <1>3, <1>4, <1>6, <1>8, <1>10, <1>12 DEF Touch
  <2> QED BY <1>3, <1>4, <1>6, <1>8, <1>13, <2>1
<1>19. z4 \in A <=> Next4(fan[t]) \in A
  <2>1. Touch(H, z4, Next4(fan[t]))
    BY <1>3, <1>4, <1>6, <1>8, <1>10, <1>12 DEF Touch
  <2> QED BY <1>3, <1>4, <1>6, <1>8, <1>13, <2>1
<1>20. \A d, e \in E : d \in A /\ From(M, d) = From(M, e) /\ From(M, d) # v => e \in A
  <2> SUFFICES ASSUME NEW d \in E, NEW e \in E, d \in A, From(M, d) = From(M, e), From(M, d) # v
               PROVE  e \in A
    OBVIOUS
  <2> DEFINE B == {c \in E : c \in A /\ From(M, c) = From(M, d)}
  <2>1. \A b, c \in E : Touch(M, b, c) /\ From(M, b) # v => (b \in A <=> c \in A)
    <3> SUFFICES ASSUME NEW b \in E, NEW c \in E, Touch(M, b, c), From(M, b) # v PROVE b \in A <=> c \in A
      OBVIOUS
    <3>1. Touch(H, b, c) \/ (Touch(H, b, z2) /\ Touch(H, z2, c)) \/ (Touch(H, b, z4) /\ Touch(H, z4, c))
      BY <1>1, SplitTouches
    <3> QED BY <1>3, <1>13, <3>1
  <2>2. Saturated(M, B)
    <3> SUFFICES ASSUME NEW b \in B, NEW c \in E, Touch(M, b, c) \/ Touch(M, c, b) PROVE c \in B
      BY <1>1 DEF Saturated
    <3>1. From(M, b) = From(M, c)
      BY DEF Touch
    <3> QED BY <2>1, <3>1
  <2>3. d \in B /\ B \subseteq EdgesOf(M)
    BY <1>1
  <2>4. e \in B
    BY <1>1, <2>2, <2>3 DEF OneFanEach
  <2> QED BY <2>4
<1>21. \A k \in (p + 1) .. t : k \in 1 .. m
  BY <1>4
<1>22. \A j, k \in (p + 1) .. t : fan[j] \in A => fan[k] \in A
  <2> DEFINE S == {k \in (p + 1) .. t : fan[k] \in A}
  <2>1. \A k \in (p + 1) .. t : k + 1 \in (p + 1) .. t => (k \in S <=> k + 1 \in S)
    BY <1>8, <1>14, <1>21
  <2>2. p + 1 \in Int /\ t \in Int
    BY <1>4
  <2> SUFFICES ASSUME NEW j \in (p + 1) .. t, NEW k \in (p + 1) .. t, fan[j] \in A PROVE fan[k] \in A
    OBVIOUS
  <2>3. j \in S
    OBVIOUS
  <2>4. k \in S
    <3> HIDE DEF S
    <3> QED BY <2>1, <2>2, <2>3, IntervalAll
  <2> QED BY <2>4
<1>23. \A j, k \in 1 .. p : fan[j] \in A => fan[k] \in A
  <2> DEFINE S == {k \in 1 .. p : fan[k] \in A}
  <2>1. \A k \in 1 .. p : k + 1 \in 1 .. p => (k \in S <=> k + 1 \in S)
    <3>1. \A k \in 1 .. p : k \in 1 .. m /\ k \notin (p + 1) .. t
      BY <1>4
    <3> QED BY <1>8, <1>14, <3>1
  <2>2. 1 \in Int /\ p \in Int
    BY <1>4
  <2> SUFFICES ASSUME NEW j \in 1 .. p, NEW k \in 1 .. p, fan[j] \in A PROVE fan[k] \in A
    OBVIOUS
  <2>3. j \in S
    OBVIOUS
  <2>4. k \in S
    <3> HIDE DEF S
    <3> QED BY <2>1, <2>2, <2>3, IntervalAll
  <2> QED BY <2>4
<1>24. \A j, k \in (t + 1) .. m : fan[j] \in A => fan[k] \in A
  <2> DEFINE S == {k \in (t + 1) .. m : fan[k] \in A}
  <2>1. \A k \in (t + 1) .. m : k + 1 \in (t + 1) .. m => (k \in S <=> k + 1 \in S)
    <3>1. \A k \in (t + 1) .. m : k \in 1 .. m /\ k \notin (p + 1) .. t
      BY <1>4
    <3> QED BY <1>8, <1>14, <3>1
  <2>2. t + 1 \in Int /\ m \in Int
    BY <1>4
  <2> SUFFICES ASSUME NEW j \in (t + 1) .. m, NEW k \in (t + 1) .. m, fan[j] \in A PROVE fan[k] \in A
    OBVIOUS
  <2>3. j \in S
    OBVIOUS
  <2>4. k \in S
    <3> HIDE DEF S
    <3> QED BY <2>1, <2>2, <2>3, IntervalAll
  <2> QED BY <2>4
<1>25. CASE From(H, x) = w
  <2>1. \A e \in EdgesOf(H) : From(H, e) = w => e = z1 \/ \E k \in (p + 1) .. t : fan[k] = e
    <3> SUFFICES ASSUME NEW e \in E, From(H, e) = w PROVE \E k \in (p + 1) .. t : fan[k] = e
      BY <1>3, <1>5
    <3>1. From(M, e) = v
      BY <1>7
    <3> QED BY <1>5, <1>8, <1>9, <3>1
  <2>2. \A k \in (p + 1) .. t : fan[k] \in A <=> z1 \in A
    BY <1>4, <1>15, <1>22
  <2>3. \A e \in EdgesOf(H) : From(H, e) = w => (e \in A <=> z1 \in A)
    BY <2>1, <2>2
  <2>4. x \in EdgesOf(H) /\ From(H, y) = w
    BY <1>25
  <2> QED BY <1>25, <2>3, <2>4
<1>26. CASE From(H, x) = v
  <2>1. \A e \in EdgesOf(H) : From(H, e) = v =>
          e = z3 \/ (\E k \in 1 .. p : fan[k] = e) \/ (\E k \in (t + 1) .. m : fan[k] = e)
    <3> SUFFICES ASSUME NEW e \in E, From(H, e) = v
                 PROVE  (\E k \in 1 .. p : fan[k] = e) \/ (\E k \in (t + 1) .. m : fan[k] = e)
      BY <1>3, <1>5
    <3>1. From(M, e) = v
      BY <1>7
    <3>2. PICK k \in 1 .. m : fan[k] = e /\ k \notin (p + 1) .. t
      BY <1>5, <1>8, <1>9, <3>1
    <3>3. k \in 1 .. p \/ k \in (t + 1) .. m
      BY <1>4, <3>2
    <3> QED BY <3>2, <3>3
  <2>2. p \in 1 .. p
    BY <1>4
  <2>3. \A k \in 1 .. p : fan[k] \in A <=> z3 \in A
    BY <1>16, <1>23, <2>2
  <2>4. \A k \in (t + 1) .. m : fan[k] \in A <=> z3 \in A
    <3> SUFFICES ASSUME NEW k \in (t + 1) .. m PROVE fan[k] \in A <=> z3 \in A
      OBVIOUS
    <3>1. t + 1 \in 1 .. m /\ t + 1 \in (t + 1) .. m
      BY <1>4
    <3> QED BY <1>17, <1>24, <3>1
  <2>5. \A e \in EdgesOf(H) : From(H, e) = v => (e \in A <=> z3 \in A)
    BY <2>1, <2>3, <2>4
  <2>6. x \in EdgesOf(H) /\ From(H, y) = v
    BY <1>26
  <2> QED BY <1>26, <2>5, <2>6
<1>27. CASE From(H, x) # w /\ From(H, x) # v
  <2>1. \A e \in E : From(H, e) = From(H, x) => From(M, e) = From(H, x)
    <3> SUFFICES ASSUME NEW e \in E, From(H, e) = From(H, x) PROVE From(M, e) = From(H, x)
      OBVIOUS
    <3>1. From(M, e) # v
      BY <1>8, <1>9, <1>27
    <3> QED BY <1>7, <3>1
  <2>2. \A e \in EdgesOf(H) : From(H, e) = From(H, x) =>
          \E d \in E : From(M, d) = From(H, x) /\ (d \in A <=> e \in A)
    <3> SUFFICES ASSUME NEW e \in EdgesOf(H), From(H, e) = From(H, x)
                 PROVE  \E d \in E : From(M, d) = From(H, x) /\ (d \in A <=> e \in A)
      OBVIOUS
    <3>1. CASE e \in E
      BY <2>1, <3>1
    <3>2. CASE e = z2
      <4>1. Next4(fan[p]) \in E /\ From(M, Next4(fan[p])) = r
        BY <1>4, <1>6, <1>8, <1>10, <1>12
      <4> QED BY <1>3, <1>18, <3>2, <4>1
    <3>3. CASE e = z4
      <4>1. Next4(fan[t]) \in E /\ From(M, Next4(fan[t])) = s
        BY <1>4, <1>6, <1>8, <1>10, <1>12
      <4> QED BY <1>3, <1>19, <3>3, <4>1
    <3> QED BY <1>3, <1>27, <3>1, <3>2, <3>3
  <2>3. PICK d \in E : From(M, d) = From(H, x) /\ d \in A
    BY <2>2
  <2>4. PICK e \in E : From(M, e) = From(H, x) /\ (e \in A <=> y \in A)
    BY <2>2
  <2> QED BY <1>20, <1>27, <2>3, <2>4
<1> QED BY <1>25, <1>26, <1>27

(***************************************************************************)
(* The sweep over the vertices of high valence.                            *)
(***************************************************************************)
(* fan, of m edges, is the fan of v in M.                                    *)
FanIs(M, v, m, fan) ==
  /\ m \in Nat /\ fan \in [1 .. m -> Leaving(M, v)] /\ \A e \in Leaving(M, v) : \E k \in 1 .. m : fan[k] = e
  /\ \A j, k \in 1 .. m : fan[j] = fan[k] => j = k
  /\ \A k \in 1 .. m : k + 1 \in 1 .. m => In(M, fan[k + 1]) = Out(M, fan[k])

LEMMA ForwardIs ==
  ASSUME NEW V, NEW M, Mesh(M, V), OneFanEach(M), NEW v, Leaving(M, v) # {},
         NEW fan, fan = Forward(Opposites(M), Start(M, Opposites(M), v))
  PROVE  FanIs(M, v, Len(fan), fan) /\ fan \in Seq(EdgesOf(M)) /\ fan # <<>> /\ Last(fan) \in EdgesOf(M)
<1>1. PICK E, O, s : E = EdgesOf(M) /\ O = Opposites(M) /\ s = Start(M, O, v)
  OBVIOUS
<1>2. M \in Seq([Corner -> V]) /\ Paired(O, E)
  BY <1>1, OppositesFacts DEF Mesh
<1>3. s \in Leaving(M, v) /\ ToSet(fan) = Leaving(M, v)
  BY <1>1, ManifoldIs
<1>4. s \in E
  BY <1>1, <1>3 DEF Leaving
<1>5. IsOrbit(fan, Forth(O), E, s) /\ OneToOne(Forth(O), E)
  BY <1>1, <1>2, <1>4, WalksAre, BackForth
<1>6. Chain(fan, Forth(O), E, s)
  BY <1>5 DEF IsOrbit
<1>7. PICK m : m = Len(fan)
  OBVIOUS
<1>8. /\ fan \in Seq(E) /\ m \in Nat /\ m > 0
      /\ \A k \in 1 .. (m - 1) : fan[k + 1] = Forth(O)[fan[k]]
      /\ \A j, k \in 1 .. m : fan[j] = fan[k] => j = k
  BY <1>6, <1>7 DEF Chain
<1>9. fan \in [1 .. m -> E] /\ ToSet(fan) = {fan[k] : k \in 1 .. m}
  BY <1>7, <1>8 DEF ToSet
<1>10. fan \in [1 .. m -> Leaving(M, v)] /\ \A e \in Leaving(M, v) : \E k \in 1 .. m : fan[k] = e
  <2>1. \A k \in 1 .. m : fan[k] \in Leaving(M, v)
    BY <1>3, <1>9
  <2>2. \A e \in Leaving(M, v) : \E k \in 1 .. m : fan[k] = e
    BY <1>3, <1>9
  <2> QED BY <1>9, <2>1, <2>2
<1>11. ASSUME NEW k \in 1 .. m, k + 1 \in 1 .. m PROVE In(M, fan[k + 1]) = Out(M, fan[k])
  <2>1. k \in 1 .. (m - 1)
    BY <1>8, <1>11
  <2>2. fan[k + 1] = Forth(O)[fan[k]] /\ fan[k] \in E /\ fan[k + 1] \in E
    BY <1>8, <1>9, <1>11, <2>1
  <2>3. Touch(M, fan[k], fan[k + 1])
    BY <1>1, <2>2, TouchIs
  <2> QED BY <2>3 DEF Touch, In, Out
<1>12. FanIs(M, v, m, fan)
  BY <1>8, <1>10, <1>11 DEF FanIs
<1>13. fan # <<>> /\ Last(fan) \in E
  BY <1>7, <1>8, <1>9 DEF Last
<1> QED BY <1>1, <1>7, <1>8, <1>12, <1>13

(* G is what the splits of vertices in K make of M, a mesh of n vertices: a  *)
(* corner that is no longer what it was is a new vertex now, and was marked  *)
(* with the corners beside it; the corners of new faces are marked or new.   *)
Splitting(M, n, G, k, K) ==
  /\ n \in Nat /\ k \in Nat /\ n <= k
  /\ Mesh(M, 1 .. n) /\ OneFanEach(M) /\ Mesh(G, 1 .. k) /\ OneFanEach(G)
  /\ Len(M) <= Len(G)
  /\ \A e \in EdgesOf(M) : From(G, e) # From(M, e) =>
       From(M, e) \in K /\ Out(M, e) \in K /\ In(M, e) \in K /\ From(G, e) > n
  /\ \A e \in EdgesOf(G) : e \in EdgesOf(M) \/ From(G, e) \in K \/ From(G, e) > n

LEMMA MoreEdges ==
  ASSUME NEW V, NEW M \in Seq([Corner -> V]), NEW W, NEW G \in Seq([Corner -> W]), Len(M) <= Len(G)
  PROVE  EdgesOf(M) \subseteq EdgesOf(G)
<1>1. DOMAIN M \subseteq DOMAIN G
  <2>1. DOMAIN M = 1 .. Len(M) /\ DOMAIN G = 1 .. Len(G) /\ Len(M) \in Nat /\ Len(G) \in Nat
    OBVIOUS
  <2> QED BY <2>1
<1> QED BY <1>1 DEF EdgesOf

LEMMA FanKept ==
  ASSUME NEW M, NEW n, NEW G, NEW k, NEW K, Splitting(M, n, G, k, K), NEW v \in 1 .. n, v \notin K
  PROVE  /\ Leaving(G, v) = Leaving(M, v) /\ EdgesOf(M) \subseteq EdgesOf(G)
         /\ \A e \in Leaving(M, v) : Out(G, e) = Out(M, e) /\ In(G, e) = In(M, e)
<1>1. PICK E, D : E = EdgesOf(M) /\ D = EdgesOf(G)
  OBVIOUS
<1>2. E \subseteq D
  BY <1>1, MoreEdges DEF Splitting, Mesh
<1>3. /\ \A e \in E : From(G, e) # From(M, e) =>
           From(M, e) \in K /\ Out(M, e) \in K /\ In(M, e) \in K /\ From(G, e) > n
      /\ \A e \in D : e \in E \/ From(G, e) \in K \/ From(G, e) > n
      /\ ~ (v > n)
  BY <1>1 DEF Splitting
<1>4. \A e : e \in Leaving(G, v) <=> e \in Leaving(M, v)
  <2> SUFFICES ASSUME NEW e PROVE e \in D /\ From(G, e) = v <=> e \in E /\ From(M, e) = v
    BY <1>1 DEF Leaving
  <2>1. e \in D /\ From(G, e) = v => e \in E
    BY <1>3
  <2> QED BY <1>2, <1>3, <2>1
<1>5. ASSUME NEW e \in Leaving(M, v) PROVE Out(G, e) = Out(M, e) /\ In(G, e) = In(M, e)
  <2>1. e \in E /\ From(M, e) = v
    BY <1>1 DEF Leaving
  <2>2. /\ Next4(e) \in E /\ Prev4(e) \in E /\ Prev4(Next4(e)) = e /\ Next4(Prev4(e)) = e
    BY <1>1, <2>1, EdgeFacts
  <2>3. From(G, Next4(e)) = From(M, Next4(e)) /\ From(G, Prev4(e)) = From(M, Prev4(e))
    BY <1>3, <2>1, <2>2 DEF In, Out
  <2> QED BY <2>3 DEF In, Out
<1> QED BY <1>1, <1>2, <1>4, <1>5

(* One split more.                                                           *)
SplitMore(M, n, G, k, K, v, m, fan, p, t, H) ==
  /\ Splitting(M, n, G, k, K) /\ v \in 1 .. n /\ v \notin K /\ FanIs(M, v, m, fan)
  /\ p \in 1 .. m /\ t \in 1 .. m /\ p < t
  /\ H = Append([f \in DOMAIN G |-> [j \in Corner |->
                   IF \E l \in (p + 1) .. t : fan[l] = <<f, j>> THEN k + 1 ELSE G[f][j]]],
                <<k + 1, Out(G, fan[p]), v, Out(G, fan[t])>>)

LEMMA SplitIs ==
  ASSUME NEW M, NEW n, NEW G, NEW k, NEW K, NEW v, NEW m, NEW fan, NEW p, NEW t, NEW H,
         SplitMore(M, n, G, k, K, v, m, fan, p, t, H)
  PROVE  SplitAt(k, G, v, m, fan, p, t, H)
<1>1. /\ Splitting(M, n, G, k, K) /\ v \in 1 .. n /\ v \notin K /\ FanIs(M, v, m, fan)
      /\ p \in 1 .. m /\ t \in 1 .. m /\ p < t
  BY DEF SplitMore
<1>2. PICK L : L = Leaving(M, v)
  OBVIOUS
<1>3. Leaving(G, v) = L /\ \A e \in L : Out(G, e) = Out(M, e) /\ In(G, e) = In(M, e)
  BY <1>1, <1>2, FanKept
<1>4. n \in Nat /\ k \in Nat /\ n <= k /\ Mesh(G, 1 .. k)
  BY <1>1 DEF Splitting
<1>5. /\ m \in Nat /\ fan \in [1 .. m -> L] /\ \A e \in L : \E l \in 1 .. m : fan[l] = e
      /\ \A i, j \in 1 .. m : fan[i] = fan[j] => i = j
      /\ \A l \in 1 .. m : l + 1 \in 1 .. m => In(M, fan[l + 1]) = Out(M, fan[l])
  BY <1>1, <1>2 DEF FanIs
<1>6. \A l \in 1 .. m : l + 1 \in 1 .. m => In(G, fan[l + 1]) = Out(G, fan[l])
  BY <1>3, <1>5
<1>7. v \in 1 .. k
  BY <1>1, <1>4
<1>8. PICK W : W = 1 .. (k + 1)
  OBVIOUS
<1>9. 1 .. k \subseteq W /\ k + 1 \in W
  BY <1>4, <1>8
<1>10. G \in Seq([Corner -> 1 .. k])
  BY <1>4 DEF Mesh
<1>11. fan[p] \in EdgesOf(G) /\ fan[t] \in EdgesOf(G)
  BY <1>1, <1>3, <1>5 DEF Leaving
<1>12. Out(G, fan[p]) \in 1 .. k /\ Out(G, fan[t]) \in 1 .. k
  BY <1>10, <1>11, EdgeFacts, FromTyped DEF Out
<1>13. PICK q : q = <<k + 1, Out(G, fan[p]), v, Out(G, fan[t])>>
  OBVIOUS
<1>14. q \in [Corner -> W]
  BY <1>7, <1>9, <1>12, <1>13, Quad
<1>15. PICK N : N = [f \in DOMAIN G |-> [j \in Corner |->
                       IF \E l \in (p + 1) .. t : fan[l] = <<f, j>> THEN k + 1 ELSE G[f][j]]]
  OBVIOUS
<1>16. \A f \in DOMAIN G : N[f] \in [Corner -> W]
  BY <1>9, <1>10, <1>15
<1>17. N \in Seq([Corner -> W]) /\ Len(N) = Len(G) /\ DOMAIN N = DOMAIN G
  <2>1. PICK l \in Nat : l = Len(G) /\ DOMAIN G = 1 .. l
    BY <1>10
  <2>2. N \in [1 .. l -> [Corner -> W]]
    BY <1>15, <1>16, <2>1
  <2> QED BY <2>1, <2>2
<1>18. H = Append(N, q)
  BY <1>13, <1>15 DEF SplitMore
<1>19. H \in Seq([Corner -> W]) /\ Len(H) = Len(G) + 1 /\ H[Len(G) + 1] = q
       /\ \A f \in DOMAIN G : H[f] = N[f]
  <2>1. PICK l \in Nat : l = Len(G) /\ DOMAIN G = 1 .. l
    BY <1>10
  <2>2. PICK Q : Q = [Corner -> W]
    OBVIOUS
  <2>3. N \in Seq(Q) /\ q \in Q /\ Len(N) = l
    BY <1>14, <1>17, <2>1, <2>2
  <2>4. H \in Seq(Q) /\ Len(H) = l + 1 /\ H[l + 1] = q /\ \A f \in 1 .. l : H[f] = N[f]
    BY ONLY <1>18, <2>3
  <2> QED BY <2>1, <2>2, <2>4
<1>20. \A e \in EdgesOf(G) :
         From(H, e) = IF \E l \in (p + 1) .. t : fan[l] = e THEN k + 1 ELSE From(G, e)
  <2> SUFFICES ASSUME NEW e \in EdgesOf(G)
               PROVE  From(H, e) = IF \E l \in (p + 1) .. t : fan[l] = e THEN k + 1 ELSE From(G, e)
    OBVIOUS
  <2>1. e = <<e[1], e[2]>> /\ e[1] \in DOMAIN G /\ e[2] \in Corner
    BY EdgeParts
  <2>2. PICK f, j : f = e[1] /\ j = e[2]
    OBVIOUS
  <2>3. e = <<f, j>> /\ f \in DOMAIN G /\ j \in Corner
    BY <2>1, <2>2
  <2>4. H[f] = N[f]
    BY <1>19, <2>3
  <2>5. N[f][j] = IF \E l \in (p + 1) .. t : fan[l] = <<f, j>> THEN k + 1 ELSE G[f][j]
    BY ONLY <1>15, <2>3
  <2>6. H[f][j] = IF \E l \in (p + 1) .. t : fan[l] = e THEN k + 1 ELSE G[f][j]
    BY ONLY <2>3, <2>4, <2>5
  <2> QED BY ONLY <2>2, <2>6 DEF From
<1> QED BY <1>1, <1>3, <1>4, <1>5, <1>6, <1>7, <1>8, <1>13, <1>19, <1>20 DEF SplitAt

RingOf(G, fan, m) == {Out(G, fan[l]) : l \in 1 .. m}

LEMMA SplitKeeps ==
  ASSUME NEW M, NEW n, NEW G, NEW k, NEW K, NEW v, NEW m, NEW fan, NEW p, NEW t, NEW H,
         SplitMore(M, n, G, k, K, v, m, fan, p, t, H)
  PROVE  Splitting(M, n, H, k + 1, K \union {v} \union RingOf(G, fan, m))
<1>0. PICK R : R = RingOf(G, fan, m)
  OBVIOUS
<1>1. /\ Splitting(M, n, G, k, K) /\ v \in 1 .. n /\ v \notin K /\ FanIs(M, v, m, fan)
      /\ p \in 1 .. m /\ t \in 1 .. m /\ p < t
  BY DEF SplitMore
<1>2. SplitAt(k, G, v, m, fan, p, t, H)
  BY SplitIs
<1>3. Mesh(H, 1 .. (k + 1))
  BY <1>2, SplitMesh
<1>4. n \in Nat /\ k \in Nat /\ n <= k /\ Mesh(M, 1 .. n) /\ OneFanEach(M) /\ Mesh(G, 1 .. k) /\ OneFanEach(G)
      /\ Len(M) <= Len(G)
  BY <1>1 DEF Splitting
<1>5. OneFanEach(H)
  BY <1>2, <1>4, SplitOneFan
<1>6. PICK E, D, L : E = EdgesOf(M) /\ D = EdgesOf(G) /\ L = Leaving(M, v)
  OBVIOUS
<1>7. Leaving(G, v) = L /\ E \subseteq D /\ \A e \in L : Out(G, e) = Out(M, e) /\ In(G, e) = In(M, e)
  BY <1>1, <1>6, FanKept
<1>8. /\ m \in Nat /\ fan \in [1 .. m -> L]
      /\ \A l \in 1 .. m : l + 1 \in 1 .. m => In(M, fan[l + 1]) = Out(M, fan[l])
  BY <1>1, <1>6 DEF FanIs
<1>9. /\ \A e \in E : From(G, e) # From(M, e) =>
           From(M, e) \in K /\ Out(M, e) \in K /\ In(M, e) \in K /\ From(G, e) > n
      /\ \A e \in D : e \in E \/ From(G, e) \in K \/ From(G, e) > n
  BY <1>1, <1>6 DEF Splitting
<1>10. /\ Len(H) = Len(G) + 1
       /\ \A e \in D : From(H, e) = IF \E l \in (p + 1) .. t : fan[l] = e THEN k + 1 ELSE From(G, e)
  BY <1>2, <1>6 DEF SplitAt
<1>11. PICK Y : Y = K \union {v} \union R
  OBVIOUS
<1>12. \A l \in 1 .. m : Out(M, fan[l]) \in Y /\ fan[l] \in L
  BY <1>0, <1>7, <1>8, <1>11 DEF RingOf
<1>13. ASSUME NEW e \in E, From(H, e) # From(M, e)
       PROVE  From(M, e) \in Y /\ Out(M, e) \in Y /\ In(M, e) \in Y /\ From(H, e) > n
  <2>0. e \in D
    BY <1>7
  <2>1. CASE \E l \in (p + 1) .. t : fan[l] = e
    <3>1. PICK l \in (p + 1) .. t : fan[l] = e
      BY <2>1
    <3>2. l \in 1 .. m /\ l - 1 \in 1 .. m /\ (l - 1) + 1 = l
      BY <1>1, <1>8, <3>1
    <3>3. From(M, e) = v
      BY <1>6, <1>12, <3>1, <3>2 DEF Leaving
    <3>4. In(M, e) = Out(M, fan[l - 1])
      BY <1>8, <3>1, <3>2
    <3>5. In(M, e) \in Y /\ Out(M, e) \in Y
      BY <1>12, <3>1, <3>2, <3>4
    <3>6. From(H, e) = k + 1 /\ k + 1 > n
      BY <1>4, <1>10, <2>0, <2>1
    <3> QED BY <1>11, <3>3, <3>5, <3>6
  <2>2. CASE ~ \E l \in (p + 1) .. t : fan[l] = e
    <3>1. From(H, e) = From(G, e)
      BY <1>10, <2>0, <2>2
    <3> QED BY <1>9, <1>11, <1>13, <3>1
  <2> QED BY <2>1, <2>2
<1>14. ASSUME NEW e \in EdgesOf(H) PROVE e \in E \/ From(H, e) \in Y \/ From(H, e) > n
  <2>1. /\ EdgesOf(H) = D \union {Z(G, 1), Z(G, 2), Z(G, 3), Z(G, 4)}
        /\ From(H, Z(G, 1)) = k + 1 /\ From(H, Z(G, 2)) = Out(G, fan[p])
        /\ From(H, Z(G, 3)) = v /\ From(H, Z(G, 4)) = Out(G, fan[t])
    BY <1>2, <1>6, SplitCorners
  <2>2. Out(G, fan[p]) \in Y /\ Out(G, fan[t]) \in Y /\ v \in Y /\ k + 1 > n
    BY <1>0, <1>1, <1>4, <1>11 DEF RingOf
  <2>3. CASE e \in {Z(G, 1), Z(G, 2), Z(G, 3), Z(G, 4)}
    BY ONLY <2>1, <2>2, <2>3
  <2>4. CASE e \in D
    <3>1. CASE \E l \in (p + 1) .. t : fan[l] = e
      <4>1. From(H, e) = k + 1
        BY <1>10, <2>4, <3>1
      <4> QED BY <2>2, <4>1
    <3>2. CASE ~ \E l \in (p + 1) .. t : fan[l] = e
      <4>1. From(H, e) = From(G, e)
        BY <1>10, <2>4, <3>2
      <4> QED BY <1>9, <1>11, <2>4, <4>1
    <3> QED BY <3>1, <3>2
  <2> QED BY <2>1, <2>3, <2>4
<1>15. k + 1 \in Nat /\ n <= k + 1 /\ Len(M) <= Len(H)
  <2>1. Len(M) \in Nat /\ Len(G) \in Nat
    BY <1>4 DEF Mesh
  <2> QED BY <1>4, <1>10, <2>1
<1>16. Splitting(M, n, H, k + 1, Y)
  BY <1>3, <1>4, <1>5, <1>6, <1>13, <1>14, <1>15 DEF Splitting
<1> QED BY <1>0, <1>11, <1>16

(***************************************************************************)
(* Where the faces are: B has, of each face M had at first, the vertices   *)
(* of its corners before any split, P of each vertex the one it was.       *)
(***************************************************************************)
FaceAt(P, f) == [j \in Corner |-> P[f[j]]]

Placed(B, P, M) ==
  /\ Len(B) \in Nat /\ Len(M) >= Len(B)
  /\ \A i \in DOMAIN M :
       IF i <= Len(B) THEN FaceAt(P, M[i]) = B[i] ELSE FaceAt(P, M[i])[1] = FaceAt(P, M[i])[3]

(* All corners of M are in N too, and where they were.                       *)
SamePlaces(M, P, N, Q) == \A e \in EdgesOf(M) : Q[From(N, e)] = P[From(M, e)]

LEMMA SameFaces ==
  ASSUME NEW M, NEW P, NEW N, NEW Q, SamePlaces(M, P, N, Q), NEW i \in DOMAIN M
  PROVE  FaceAt(Q, N[i]) = FaceAt(P, M[i])
<1> SUFFICES ASSUME NEW j \in Corner PROVE Q[N[i][j]] = P[M[i][j]]
  BY DEF FaceAt
<1>1. PICK e : e = <<i, j>>
  OBVIOUS
<1>2. e \in EdgesOf(M) /\ e[1] = i /\ e[2] = j
  BY <1>1 DEF EdgesOf
<1> QED BY <1>2 DEF SamePlaces, From

LEMMA PlacedAgain ==
  ASSUME NEW M, NEW P, NEW N, NEW Q, SamePlaces(M, P, N, Q), DOMAIN N = DOMAIN M, Len(N) = Len(M),
         NEW B, Placed(B, P, M)
  PROVE  Placed(B, Q, N)
  BY SameFaces DEF Placed

LEMMA PlacedMore ==
  ASSUME NEW n, NEW M, NEW v, NEW m, NEW fan, NEW p, NEW t, NEW H, SplitAt(n, M, v, m, fan, p, t, H),
         NEW P \in Seq(Nat), Len(P) = n, NEW Q, Q = Append(P, P[v]), NEW B, Placed(B, P, M)
  PROVE  Placed(B, Q, H)
<1>1. /\ n \in Nat /\ Mesh(M, 1 .. n) /\ v \in 1 .. n /\ fan \in [1 .. m -> Leaving(M, v)]
      /\ m \in Nat /\ p \in 1 .. m /\ t \in 1 .. m
      /\ H \in Seq([Corner -> 1 .. (n + 1)]) /\ Len(H) = Len(M) + 1
      /\ H[Len(M) + 1] = <<n + 1, Out(M, fan[p]), v, Out(M, fan[t])>>
      /\ \A e \in EdgesOf(M) :
           From(H, e) = IF \E k \in (p + 1) .. t : fan[k] = e THEN n + 1 ELSE From(M, e)
  BY DEF SplitAt
<1>2. M \in Seq([Corner -> 1 .. n])
  BY <1>1 DEF Mesh
<1>3. Q[n + 1] = P[v] /\ \A w \in 1 .. n : Q[w] = P[w]
  <2>1. PICK x : x = P[v]
    OBVIOUS
  <2>2. x \in Nat /\ Q = Append(P, x)
    BY <1>1, <2>1
  <2>3. Len(P) = n
    OBVIOUS
  <2>4. Q[n + 1] = x /\ \A w \in 1 .. n : Q[w] = P[w]
    <3>1. P \in Seq(Nat)
      OBVIOUS
    <3> QED BY ONLY <2>2, <2>3, <3>1
  <2> QED BY <2>1, <2>4
<1>4. SamePlaces(M, P, H, Q)
  <2> SUFFICES ASSUME NEW e \in EdgesOf(M) PROVE Q[From(H, e)] = P[From(M, e)]
    BY DEF SamePlaces
  <2>1. From(M, e) \in 1 .. n
    BY <1>2, FromTyped
  <2>2. CASE \E k \in (p + 1) .. t : fan[k] = e
    <3>1. PICK k \in (p + 1) .. t : fan[k] = e
      BY <2>2
    <3>2. k \in 1 .. m
      BY <1>1, <3>1
    <3>3. From(M, e) = v
      BY <1>1, <3>1, <3>2 DEF Leaving
    <3>4. From(H, e) = n + 1
      BY <1>1, <2>2
    <3> QED BY <1>3, <3>3, <3>4
  <2>3. CASE ~ \E k \in (p + 1) .. t : fan[k] = e
    <3>1. From(H, e) = From(M, e)
      BY <1>1, <2>3
    <3> QED BY <1>3, <2>1, <3>1
  <2> QED BY <2>2, <2>3
<1>5. PICK l \in Nat : l = Len(M) /\ DOMAIN M = 1 .. l /\ DOMAIN H = 1 .. (l + 1)
  BY <1>1, <1>2
<1>6. Len(B) \in Nat /\ l >= Len(B) /\ Len(H) >= Len(B)
  BY <1>1, <1>5 DEF Placed
<1>7. ASSUME NEW i \in DOMAIN H
      PROVE  IF i <= Len(B) THEN FaceAt(Q, H[i]) = B[i] ELSE FaceAt(Q, H[i])[1] = FaceAt(Q, H[i])[3]
  <2>1. CASE i \in 1 .. l
    <3>0. i \in DOMAIN M
      BY <1>5, <2>1
    <3>1. FaceAt(Q, H[i]) = FaceAt(P, M[i])
      BY ONLY <1>4, <3>0, SameFaces
    <3>2. IF i <= Len(B) THEN FaceAt(P, M[i]) = B[i] ELSE FaceAt(P, M[i])[1] = FaceAt(P, M[i])[3]
      BY <3>0 DEF Placed
    <3> QED BY ONLY <3>1, <3>2
  <2>2. CASE i = l + 1
    <3>1. ~ (i <= Len(B))
      BY <1>6, <2>2
    <3>2. H[i][1] = n + 1 /\ H[i][3] = v
      BY <1>1, <1>5, <2>2
    <3>3. Q[H[i][1]] = Q[H[i][3]]
      BY <1>1, <1>3, <3>2
    <3>4. 1 \in Corner /\ 3 \in Corner
      BY DEF Corner
    <3>5. \A j \in Corner : FaceAt(Q, H[i])[j] = Q[H[i][j]]
      BY DEF FaceAt
    <3> QED BY ONLY <3>1, <3>3, <3>4, <3>5
  <2> QED BY <1>5, <2>1, <2>2
<1> QED BY <1>6, <1>7 DEF Placed

(* The vertices of M that have no face are left out.                         *)
Packed(n, M, P, S, N, Q) ==
  /\ n \in Nat /\ Mesh(M, 1 .. n) /\ P \in Seq(Nat) /\ Len(P) = n /\ S = VerticesOf(M)
  /\ N = [i \in DOMAIN M |-> [j \in Corner |-> Rank(S, M[i][j])]]
  /\ Q = Chosen(P, S)

LEMMA PackedMesh ==
  ASSUME NEW n, NEW M, NEW P, NEW S, NEW N, NEW Q, Packed(n, M, P, S, N, Q)
  PROVE  /\ Q \in Seq(Nat) /\ Mesh(N, 1 .. Len(Q)) /\ EdgesOf(N) = EdgesOf(M)
         /\ DOMAIN N = DOMAIN M /\ Len(N) = Len(M) /\ SamePlaces(M, P, N, Q)
         /\ \A v \in 1 .. Len(Q) : Leaving(N, v) # {}
         /\ \A d, e \in EdgesOf(M) : From(N, d) = From(N, e) <=> From(M, d) = From(M, e)
<1>1. /\ n \in Nat /\ Mesh(M, 1 .. n) /\ P \in Seq(Nat) /\ Len(P) = n /\ S = VerticesOf(M)
      /\ N = [i \in DOMAIN M |-> [j \in Corner |-> Rank(S, M[i][j])]]
      /\ Q = Chosen(P, S)
  BY DEF Packed
<1>2. M \in Seq([Corner -> 1 .. n])
  BY <1>1 DEF Mesh
<1>3. S \subseteq 1 .. n /\ S \subseteq DOMAIN P
  <2>1. \A e \in EdgesOf(M) : From(M, e) \in 1 .. n
    BY <1>2, FromTyped
  <2>2. S \subseteq 1 .. n
    BY <1>1, <2>1 DEF VerticesOf
  <2>3. DOMAIN P = 1 .. n
    BY <1>1
  <2> QED BY <2>2, <2>3
<1>4. PICK c : c = Cardinality(S)
  OBVIOUS
<1>5. /\ Q \in Seq(Nat) /\ Len(Q) = c /\ c \in Nat
      /\ \A i \in S : Rank(S, i) \in 1 .. c /\ Q[Rank(S, i)] = P[i]
      /\ \A p \in 1 .. c : \E i \in S : Rank(S, i) = p
      /\ \A i, j \in S : i < j => Rank(S, i) < Rank(S, j)
  BY <1>1, <1>3, <1>4, ChosenIs
<1>6. \A e \in EdgesOf(M) : From(M, e) \in S /\ From(N, e) = Rank(S, From(M, e))
  <2> SUFFICES ASSUME NEW e \in EdgesOf(M) PROVE From(M, e) \in S /\ From(N, e) = Rank(S, From(M, e))
    OBVIOUS
  <2>1. e[1] \in DOMAIN M /\ e[2] \in Corner
    BY EdgeParts
  <2> QED BY <1>1, <2>1 DEF From, VerticesOf
<1>7. \A i, j \in S : Rank(S, i) = Rank(S, j) => i = j
  <2> SUFFICES ASSUME NEW i \in S, NEW j \in S, Rank(S, i) = Rank(S, j) PROVE i = j
    OBVIOUS
  <2>1. i \in Int /\ j \in Int /\ Rank(S, i) \in Int
    BY <1>3, <1>5
  <2>2. ~ (i < j) /\ ~ (j < i)
    BY <1>5, <2>1
  <2> QED BY <2>1, <2>2
<1>8. \A d, e \in EdgesOf(M) : From(N, d) = From(N, e) <=> From(M, d) = From(M, e)
  BY <1>6, <1>7
<1>9. \A i \in DOMAIN M : \A j \in Corner : M[i][j] \in S
  <2> SUFFICES ASSUME NEW i \in DOMAIN M, NEW j \in Corner PROVE M[i][j] \in S
    OBVIOUS
  <2>1. PICK e : e = <<i, j>>
    OBVIOUS
  <2>2. e \in EdgesOf(M) /\ e[1] = i /\ e[2] = j
    BY <2>1 DEF EdgesOf
  <2> QED BY <1>6, <2>2 DEF From
<1>10. N \in Seq([Corner -> 1 .. c]) /\ DOMAIN N = DOMAIN M /\ Len(N) = Len(M)
  <2>1. PICK l \in Nat : l = Len(M) /\ DOMAIN M = 1 .. l
    BY <1>2
  <2>2. PICK W : W = 1 .. c
    OBVIOUS
  <2>3. \A i \in DOMAIN M : \A j \in Corner : Rank(S, M[i][j]) \in W
    BY <1>5, <1>9, <2>2
  <2>4. N \in [1 .. l -> [Corner -> W]]
    BY ONLY <1>1, <2>1, <2>3
  <2> QED BY <2>1, <2>2, <2>4
<1>11. EdgesOf(N) = EdgesOf(M) /\ Mesh(N, 1 .. c)
  <2>1. PICK U, W : U = 1 .. n /\ W = 1 .. c
    OBVIOUS
  <2>2. Mesh(M, U) /\ N \in Seq([Corner -> W]) /\ DOMAIN N = DOMAIN M
    BY <1>1, <1>10, <2>1
  <2>3. \A d, e \in EdgesOf(M) : From(N, d) = From(N, e) => From(M, d) = From(M, e)
    BY <1>8
  <2>4. EdgesOf(N) = EdgesOf(M) /\ Mesh(N, W)
    BY ONLY <2>2, <2>3, Relabelled
  <2> QED BY <2>1, <2>4
<1>12. SamePlaces(M, P, N, Q)
  BY <1>5, <1>6 DEF SamePlaces
<1>13. ASSUME NEW v \in 1 .. c PROVE Leaving(N, v) # {}
  <2>1. PICK i \in S : Rank(S, i) = v
    BY <1>5
  <2>2. PICK e \in EdgesOf(M) : i = From(M, e)
    BY <1>1, <2>1 DEF VerticesOf
  <2>3. e \in Leaving(N, v)
    BY <1>6, <1>11, <2>1, <2>2 DEF Leaving
  <2> QED BY <2>3
<1> QED BY <1>5, <1>8, <1>10, <1>11, <1>12, <1>13

LEMMA SameOneFan ==
  ASSUME NEW M, NEW N, EdgesOf(N) = EdgesOf(M), OneFanEach(M),
         \A d, e \in EdgesOf(M) : From(N, d) = From(N, e) <=> From(M, d) = From(M, e)
  PROVE  OneFanEach(N)
<1>1. PICK E : E = EdgesOf(M) /\ E = EdgesOf(N)
  OBVIOUS
<1>2. \A e \in E : Next4(e) \in E /\ Prev4(e) \in E
  BY <1>1, EdgeFacts
<1>3. \A x, y \in E : Touch(N, x, y) <=> Touch(M, x, y)
  BY <1>1, <1>2 DEF Touch
<1> SUFFICES ASSUME NEW A, A \subseteq E, Saturated(N, A), NEW x \in A, NEW y \in E, From(N, x) = From(N, y)
             PROVE  y \in A
  BY <1>1 DEF OneFanEach
<1>4. Saturated(M, A)
  BY <1>1, <1>3 DEF Saturated
<1>5. From(M, x) = From(M, y)
  BY <1>1
<1> QED BY <1>1, <1>4, <1>5 DEF OneFanEach

(* The fans of a vertex, and how many of them are before that of e.          *)
FansOf(M, v) == {FanOf(Opposites(M), e) : e \in Leaving(M, v)}

GroupOf(M, v, e) ==
  Cardinality({f \in FansOf(M, v) : Before(Least(f), Least(FanOf(Opposites(M), e)))})

LEMMA GroupBound ==
  ASSUME NEW V, NEW M, Mesh(M, V), NEW v
  PROVE  /\ Cardinality(FansOf(M, v)) \in Nat
         /\ \A e \in Leaving(M, v) : GroupOf(M, v, e) \in 0 .. (Cardinality(FansOf(M, v)) - 1)
<1>1. PICK E, O, L, T : E = EdgesOf(M) /\ O = Opposites(M) /\ L = Leaving(M, v) /\ T = FansOf(M, v)
  OBVIOUS
<1>2. M \in Seq([Corner -> V]) /\ Paired(O, E)
  BY <1>1, OppositesFacts DEF Mesh
<1>3. L \subseteq E /\ T = {FanOf(O, e) : e \in L}
  BY <1>1 DEF Leaving, FansOf
<1>4. IsFiniteSet(T) /\ Cardinality(T) \in Nat
  <2>1. IsFiniteSet(L)
    BY <1>1, <1>2, <1>3, EdgesCount, FS_Subset
  <2>2. PICK h : h = [e \in L |-> FanOf(O, e)]
    OBVIOUS
  <2>3. h \in Surjection(L, T)
    BY <1>3, <2>2 DEF Surjection
  <2>4. IsFiniteSet(T)
    BY <2>1, <2>3, FS_Surjection
  <2> QED BY <2>4, FS_CardinalityType
<1>5. ASSUME NEW e \in L PROVE GroupOf(M, v, e) \in 0 .. (Cardinality(T) - 1)
  <2>1. PICK x, fan : fan = FanOf(O, e) /\ x = Least(fan)
    OBVIOUS
  <2>2. PICK S : S = {f \in T : Before(Least(f), x)}
    OBVIOUS
  <2>3. fan \in T /\ fan \subseteq E /\ e \in fan
    BY <1>1, <1>2, <1>3, <2>1, FanFacts
  <2>4. x \in E
    BY <1>1, <1>2, <2>1, <2>3, LeastIs
  <2>5. x[1] \in Int /\ x[2] \in Int
    <3>1. x[1] \in DOMAIN M /\ x[2] \in Corner
      BY <1>1, <2>4, EdgeParts
    <3>2. DOMAIN M = 1 .. Len(M) /\ Len(M) \in Nat
      BY <1>2
    <3> QED BY <3>1, <3>2 DEF Corner
  <2>6. ~ Before(x, x)
    BY <2>5 DEF Before
  <2>7. S \subseteq T \ {fan} /\ IsFiniteSet(T \ {fan}) /\ Cardinality(T \ {fan}) = Cardinality(T) - 1
    <3>1. fan \notin S
      BY <2>1, <2>2, <2>6
    <3>2. S \subseteq T \ {fan}
      BY <2>2, <3>1
    <3> QED BY <1>4, <2>3, <3>2, FS_RemoveElement
  <2>8. Cardinality(S) \in Nat /\ Cardinality(S) <= Cardinality(T) - 1
    <3>1. IsFiniteSet(S) /\ Cardinality(S) <= Cardinality(T \ {fan})
      BY <2>7, FS_Subset
    <3>2. Cardinality(S) \in Nat
      BY <3>1, FS_CardinalityType
    <3> QED BY <2>7, <3>1, <3>2
  <2>9. GroupOf(M, v, e) = Cardinality(S)
    BY <1>1, <2>1, <2>2 DEF GroupOf
  <2> QED BY <1>4, <2>8, <2>9
<1> QED BY <1>1, <1>4, <1>5

(* The fans of v are vertices of their own.                                  *)
FansApart(n, M, v, k, P, N, Q) ==
  /\ n \in Nat /\ Mesh(M, 1 .. n) /\ v \in 1 .. n /\ P \in Seq(Nat) /\ Len(P) = n
  /\ k \in Nat /\ k = Cardinality(FansOf(M, v)) - 1
  /\ N = [i \in DOMAIN M |-> [j \in Corner |->
            IF M[i][j] = v /\ GroupOf(M, v, <<i, j>>) > 0
            THEN n + GroupOf(M, v, <<i, j>>) ELSE M[i][j]]]
  /\ Q = P \o [i \in 1 .. k |-> P[v]]

LEMMA FansApartMesh ==
  ASSUME NEW n, NEW M, NEW v, NEW k, NEW P, NEW N, NEW Q, FansApart(n, M, v, k, P, N, Q)
  PROVE  /\ Q \in Seq(Nat) /\ Mesh(N, 1 .. Len(Q)) /\ Opposites(N) = Opposites(M)
         /\ DOMAIN N = DOMAIN M /\ Len(N) = Len(M) /\ SamePlaces(M, P, N, Q)
<1>1. /\ n \in Nat /\ Mesh(M, 1 .. n) /\ v \in 1 .. n /\ P \in Seq(Nat) /\ Len(P) = n
      /\ k \in Nat /\ k = Cardinality(FansOf(M, v)) - 1
      /\ N = [i \in DOMAIN M |-> [j \in Corner |->
                IF M[i][j] = v /\ GroupOf(M, v, <<i, j>>) > 0
                THEN n + GroupOf(M, v, <<i, j>>) ELSE M[i][j]]]
      /\ Q = P \o [i \in 1 .. k |-> P[v]]
  BY DEF FansApart
<1>2. PICK L, g : L = Leaving(M, v) /\ g = [e \in L |-> GroupOf(M, v, e)]
  OBVIOUS
<1>3. \A e \in L : g[e] = GroupOf(M, v, e) /\ g[e] \in 0 .. k
  <2>1. \A e \in L : GroupOf(M, v, e) \in 0 .. k
    BY <1>1, <1>2, GroupBound
  <2> QED BY <1>2, <2>1
<1>4. \A x, y \in L : FanOf(Opposites(M), x) = FanOf(Opposites(M), y) => g[x] = g[y]
  BY <1>3 DEF GroupOf
<1>5. M \in Seq([Corner -> 1 .. n])
  BY <1>1 DEF Mesh
<1>6. PICK W, w : W = 1 .. w /\ w = n + k
  OBVIOUS
<1>7. \A x \in 1 .. n : x \in W
  BY <1>1, <1>6
<1>8. \A e \in L : n + g[e] \in W
  BY <1>1, <1>3, <1>6
<1>9. ASSUME NEW i \in DOMAIN M, NEW j \in Corner
      PROVE  /\ N[i][j] = IF M[i][j] = v /\ g[<<i, j>>] > 0 THEN n + g[<<i, j>>] ELSE M[i][j]
             /\ N[i][j] \in W
  <2>1. PICK e : e = <<i, j>>
    OBVIOUS
  <2>2. N[i][j] = IF M[i][j] = v /\ GroupOf(M, v, e) > 0 THEN n + GroupOf(M, v, e) ELSE M[i][j]
    BY <1>1, <2>1
  <2>3. M[i][j] = v => e \in L
    <3>1. e \in EdgesOf(M) /\ e[1] = i /\ e[2] = j
      BY <2>1 DEF EdgesOf
    <3> QED BY <1>2, <3>1 DEF Leaving, From
  <2>4. M[i][j] \in 1 .. n
    BY <1>5
  <2>5. N[i][j] = IF M[i][j] = v /\ g[e] > 0 THEN n + g[e] ELSE M[i][j]
    BY <1>3, <2>2, <2>3
  <2> QED BY <1>7, <1>8, <2>1, <2>3, <2>4, <2>5
<1>10. N \in Seq([Corner -> W]) /\ DOMAIN N = DOMAIN M /\ Len(N) = Len(M)
  <2>1. PICK l \in Nat : l = Len(M) /\ DOMAIN M = 1 .. l
    BY <1>5
  <2>2. N = [i \in 1 .. l |-> [j \in Corner |-> N[i][j]]]
    BY <1>1, <2>1
  <2>3. \A i \in 1 .. l : \A j \in Corner : N[i][j] \in W
    BY <1>9, <2>1
  <2>4. N \in [1 .. l -> [Corner -> W]]
    BY ONLY <2>2, <2>3
  <2> QED BY <2>1, <2>4
<1>11. \A e \in EdgesOf(M) : From(N, e) = IF From(M, e) = v /\ g[e] > 0 THEN n + g[e] ELSE From(M, e)
  <2> SUFFICES ASSUME NEW e \in EdgesOf(M)
               PROVE  From(N, e) = IF From(M, e) = v /\ g[e] > 0 THEN n + g[e] ELSE From(M, e)
    OBVIOUS
  <2>1. PICK i, j : i = e[1] /\ j = e[2]
    OBVIOUS
  <2>2. e = <<i, j>> /\ i \in DOMAIN M /\ j \in Corner
    BY <2>1, EdgeParts
  <2>3. From(N, e) = N[i][j] /\ From(M, e) = M[i][j]
    BY <2>1 DEF From
  <2> QED BY <1>9, <2>2, <2>3
<1>12. Mesh(N, 1 .. (n + k)) /\ Opposites(N) = Opposites(M)
  <2>1. n \in Nat /\ Mesh(M, 1 .. n) /\ v \in 1 .. n /\ k \in Nat
    BY <1>1
  <2>2. \A x \in Leaving(M, v) : g[x] \in 0 .. k
    BY <1>2, <1>3
  <2>3. \A x, y \in Leaving(M, v) : FanOf(Opposites(M), x) = FanOf(Opposites(M), y) => g[x] = g[y]
    BY <1>2, <1>4
  <2>4. N \in Seq([Corner -> 1 .. (n + k)]) /\ DOMAIN N = DOMAIN M
    BY <1>6, <1>10
  <2>5. Numbering(n, M, v, k, g, N)
    BY ONLY <1>11, <2>1, <2>2, <2>3, <2>4 DEF Numbering
  <2> QED BY ONLY <2>5, Numbered
<1>13. Q \in Seq(Nat) /\ Len(Q) = n + k
  <2>1. PICK x \in Nat : x = P[v]
    BY <1>1
  <2>2. PICK R : R = [i \in 1 .. k |-> x]
    OBVIOUS
  <2>3. R \in Seq(Nat) /\ Len(R) = k
    BY <1>1, <2>2
  <2>4. Q = P \o R
    BY <1>1, <2>1, <2>2
  <2>5. P \in Seq(Nat) /\ Len(P) = n
    BY <1>1
  <2>6. Q \in Seq(Nat) /\ Len(Q) = Len(P) + Len(R)
    BY ONLY <2>3, <2>4, <2>5, ConcatProperties
  <2> QED BY <2>3, <2>5, <2>6
<1>14. (\A x \in 1 .. n : Q[x] = P[x]) /\ (\A x \in 1 .. k : Q[n + x] = P[v])
  <2>1. PICK x \in Nat : x = P[v]
    BY <1>1
  <2>2. PICK R : R = [i \in 1 .. k |-> x]
    OBVIOUS
  <2>3. R \in Seq(Nat) /\ Len(R) = k
    BY <1>1, <2>2
  <2>3a. \A i \in 1 .. k : R[i] = x
    BY <2>2
  <2>4. Q = P \o R
    BY <1>1, <2>1, <2>2
  <2>5. \A i \in 1 .. (n + k) : Q[i] = IF i <= n THEN P[i] ELSE R[i - n]
    <3>1. P \in Seq(Nat) /\ Len(P) = n
      BY <1>1
    <3>2. \A i \in 1 .. (Len(P) + Len(R)) : Q[i] = IF i <= Len(P) THEN P[i] ELSE R[i - Len(P)]
      BY ONLY <2>3, <2>4, <3>1, ConcatProperties
    <3> QED BY <2>3, <3>1, <3>2
  <2>6. \A i \in 1 .. n : i \in 1 .. (n + k) /\ i <= n
    BY <1>1
  <2>7. \A i \in 1 .. k : n + i \in 1 .. (n + k) /\ ~ (n + i <= n) /\ (n + i) - n = i
    BY <1>1
  <2> QED BY <2>1, <2>3a, <2>5, <2>6, <2>7
<1>15. SamePlaces(M, P, N, Q)
  <2> SUFFICES ASSUME NEW e \in EdgesOf(M) PROVE Q[From(N, e)] = P[From(M, e)]
    BY DEF SamePlaces
  <2>1. From(M, e) \in 1 .. n
    BY <1>5, FromTyped
  <2>2. CASE From(M, e) = v /\ g[e] > 0
    <3>1. e \in L
      BY <1>2, <2>2 DEF Leaving
    <3>2. g[e] \in 1 .. k
      BY <1>1, <1>3, <2>2, <3>1
    <3>3. From(N, e) = n + g[e]
      BY <1>11, <2>2
    <3> QED BY <1>14, <2>2, <3>2, <3>3
  <2>3. CASE ~ (From(M, e) = v /\ g[e] > 0)
    <3>1. From(N, e) = From(M, e)
      BY <1>11, <2>3
    <3> QED BY <1>14, <2>1, <3>1
  <2> QED BY <2>2, <2>3
<1> QED BY <1>10, <1>12, <1>13, <1>15

(* A finite, non-empty set of naturals has a greatest element.               *)
LEMMA MaxIs ==
  ASSUME NEW S \in SUBSET Nat, IsFiniteSet(S), S # {}
  PROVE  Max(S) \in S /\ \A y \in S : Max(S) >= y
<1> DEFINE Top(T) == \E x \in T : \A y \in T : x >= y
           Bad == {k \in Nat : \E T \in SUBSET S : T # {} /\ Cardinality(T) = k /\ ~ Top(T)}
<1>0. \A T \in SUBSET S : IsFiniteSet(T) /\ Cardinality(T) \in Nat
  BY FS_Subset, FS_CardinalityType
<1>1. Bad = {}
  <2> SUFFICES ASSUME Bad # {} PROVE FALSE
    OBVIOUS
  <2>1. PICK k \in Bad : \A j \in Bad : k <= j
    <3>1. Bad \in SUBSET Nat
      OBVIOUS
    <3> HIDE DEF Bad
    <3> QED BY <3>1, LeastNatural
  <2>2. PICK T \in SUBSET S : T # {} /\ Cardinality(T) = k /\ ~ Top(T)
    BY <2>1
  <2>3. PICK x \in T : TRUE
    BY <2>2
  <2>4. T \ {x} \in SUBSET S /\ Cardinality(T \ {x}) = k - 1 /\ k - 1 \in Nat
    <3>1. T \ {x} \in SUBSET S /\ Cardinality(T \ {x}) = k - 1
      BY <1>0, <2>2, <2>3, FS_RemoveElement
    <3>2. Cardinality(T \ {x}) \in Nat
      BY <1>0, <3>1
    <3> QED BY <3>1, <3>2
  <2>5. k - 1 \notin Bad
    BY <2>1, <2>4
  <2>6. x \in Nat
    BY <2>2, <2>3
  <2>7. CASE T \ {x} = {}
    <3>1. T = {x}
      BY <2>3, <2>7
    <3>2. Top(T)
      BY <2>6, <3>1
    <3> QED BY <2>2, <3>2
  <2>8. CASE T \ {x} # {}
    <3>1. Top(T \ {x})
      BY <2>4, <2>5, <2>8
    <3>2. PICK z \in T \ {x} : \A y \in T \ {x} : z >= y
      BY <3>1
    <3>3. \A y \in T : y \in Nat
      BY <2>2
    <3>4. CASE z >= x
      <4>1. \A y \in T : z >= y
        BY <3>2, <3>4
      <4> QED BY <2>2, <3>2, <4>1
    <3>5. CASE ~ (z >= x)
      <4>1. \A y \in T : x >= y
        BY <2>6, <3>2, <3>3, <3>5
      <4> QED BY <2>2, <2>3, <4>1
    <3> QED BY <3>4, <3>5
  <2> QED BY <2>7, <2>8
<1>2. Top(S)
  BY <1>0, <1>1
<1> QED BY <1>2 DEF Max

(***************************************************************************)
(* The invariant.  Of the mesh M the lists were made from the state keeps  *)
(* the lists only; so the invariant says that there is one.                *)
(***************************************************************************)
Passes == {"degenerate", "holes", "two", "fans", "high", "zero", "done"}

Numbers ==
  /\ pc \in Passes /\ Vset \in Seq(Nat) /\ update \in BOOLEAN
  /\ pc # "two" => erased = {}
  /\ pc \in {"degenerate", "holes"} => marks = {} /\ update = FALSE

AtFirst == pc = "degenerate" => F \in Seq([Corner -> DOMAIN Vset]) /\ IsOriented(SimpleFaces(F))

AtHoles ==
  pc = "holes" =>
    /\ Mesh(F, DOMAIN Vset)
    /\ \E M : Mesh(M, DOMAIN Vset) /\ E2E = Opposites(M) /\ Len(M) <= Len(F)

AtTwo ==
  pc = "two" =>
    \E M, T : /\ Merged(DOMAIN Vset, M, F, T, erased, marks, todo)
              /\ E2E = Opposites(M) /\ V2E = Starts(M, E2E, DOMAIN Vset)
              /\ todo \subseteq DOMAIN Vset
              /\ update = FALSE => F = M /\ erased = {}

AtFans == pc = "fans" => Mesh(F, DOMAIN Vset) /\ E2E = Opposites(F) /\ Placed(before, Vset, F)

Lists(M, n) ==
  /\ E2E = Opposites(M) /\ V2E = Starts(M, E2E, 1 .. n)
  /\ valences = [v \in 1 .. n |-> Valence(M, V2E, E2E, v)]
  /\ todo \subseteq {v \in 1 .. n : valences[v] > 5}

AtHigh ==
  pc = "high" => /\ \E M, n : Splitting(M, n, F, Len(Vset), marks) /\ Lists(M, n)
                 /\ Placed(before, Vset, F)

AtZero == pc = "zero" => Mesh(F, DOMAIN Vset) /\ OneFanEach(F) /\ Placed(before, Vset, F)

AtDone ==
  pc = "done" => /\ Mesh(F, DOMAIN Vset) /\ OneFanEach(F) /\ Placed(before, Vset, F)
                 /\ E2E = Opposites(F) /\ V2E = Starts(F, E2E, DOMAIN Vset)
                 /\ \A v \in DOMAIN Vset : Leaving(F, v) # {}

RepairInv == Numbers /\ AtFirst /\ AtHoles /\ AtTwo /\ AtFans /\ AtHigh /\ AtZero /\ AtDone

LEMMA VerticesCount == Vset \in Seq(Nat) => Len(Vset) \in Nat /\ DOMAIN Vset = 1 .. Len(Vset)
  OBVIOUS

LEMMA InitRepair == Init => RepairInv
<1> SUFFICES ASSUME Init PROVE RepairInv
  OBVIOUS
<1>1. /\ pc = "degenerate" /\ F \in Meshes /\ erased = {} /\ marks = {} /\ update = FALSE
      /\ Vset = [v \in 1 .. Max(VerticesOf(F)) |-> v]
  BY DEF Init
<1>2. F \in Seq([Corner -> Nat \ {0}]) /\ F # <<>> /\ IsOriented(SimpleFaces(F))
  BY <1>1, MeshesAreOriented
<1>3. PICK E, S, T : E = EdgesOf(F) /\ S = VerticesOf(F) /\ T = Nat \ {0}
  OBVIOUS
<1>4. F \in Seq([Corner -> T])
  BY <1>2, <1>3
<1>5. S = {From(F, e) : e \in E} /\ \A e \in E : From(F, e) \in T
  BY <1>3, <1>4, FromTyped DEF VerticesOf
<1>6. IsFiniteSet(S)
  <2>1. IsFiniteSet(E)
    BY <1>3, <1>4, EdgesCount
  <2>2. PICK h : h = [e \in E |-> From(F, e)]
    OBVIOUS
  <2>3. h \in Surjection(E, S)
    BY <1>5, <2>2 DEF Surjection
  <2> QED BY <2>1, <2>3, FS_Surjection
<1>7. S # {}
  <2>1. 1 \in DOMAIN F
    BY <1>2
  <2>2. <<1, 1>> \in E
    BY <1>3, <2>1 DEF EdgesOf, Corner
  <2> QED BY <1>5, <2>2
<1>8. S \in SUBSET Nat
  BY <1>3, <1>5
<1>9. PICK m : m = Max(S)
  OBVIOUS
<1>10. m \in Nat /\ \A y \in S : y \in 1 .. m
  <2>1. m \in S /\ \A y \in S : m >= y
    BY <1>6, <1>7, <1>8, <1>9, MaxIs
  <2>2. \A y \in S : y \in Nat \ {0}
    BY <1>3, <1>5
  <2> QED BY <1>8, <2>1, <2>2
<1>11. Vset = [v \in 1 .. m |-> v]
  BY <1>1, <1>3, <1>9
<1>12. Vset \in Seq(Nat) /\ DOMAIN Vset = 1 .. m
  BY <1>10, <1>11
<1>13. F \in Seq([Corner -> 1 .. m])
  <2>1. PICK W, l : W = 1 .. m /\ l = Len(F)
    OBVIOUS
  <2>2. l \in Nat /\ F \in [1 .. l -> [Corner -> T]]
    BY <1>4, <2>1
  <2>3. \A i \in 1 .. l : \A j \in Corner : F[i][j] \in W
    <3> SUFFICES ASSUME NEW i \in 1 .. l, NEW j \in Corner PROVE F[i][j] \in W
      OBVIOUS
    <3>1. PICK e : e = <<i, j>>
      OBVIOUS
    <3>2. e \in E /\ e[1] = i /\ e[2] = j
      BY <1>3, <2>2, <3>1 DEF EdgesOf
    <3>3. From(F, e) \in S
      BY <1>5, <3>2
    <3> QED BY <1>10, <2>1, <3>2, <3>3 DEF From
  <2>4. F \in [1 .. l -> [Corner -> W]]
    BY ONLY <2>2, <2>3
  <2>5. F \in Seq([Corner -> W])
    BY <2>2, <2>4
  <2> QED BY <2>1, <2>5
<1> QED BY <1>1, <1>2, <1>12, <1>13
       DEF RepairInv, Numbers, AtFirst, AtHoles, AtTwo, AtFans, AtHigh, AtZero, AtDone, Passes

LEMMA OnlySimple ==
  ASSUME NEW V, NEW M \in Seq([Corner -> V]), IsOriented(SimpleFaces(M))
  PROVE  Mesh(SimpleFaces(M), V)
<1>1. PICK S, N : S = {i \in DOMAIN M : IsSimple(M[i])} /\ N = SimpleFaces(M)
  OBVIOUS
<1>2. N = Chosen(M, S) /\ S \subseteq DOMAIN M
  BY <1>1 DEF SimpleFaces
<1>3. /\ N \in Seq([Corner -> V]) /\ Len(N) = Cardinality(S) /\ Cardinality(S) \in Nat
      /\ \A i \in S : N[Rank(S, i)] = M[i]
      /\ \A p \in 1 .. Cardinality(S) : \E i \in S : Rank(S, i) = p
  BY <1>2, ChosenIs
<1>4. \A p \in DOMAIN N : IsSimple(N[p])
  <2> SUFFICES ASSUME NEW p \in DOMAIN N PROVE IsSimple(N[p])
    OBVIOUS
  <2>1. p \in 1 .. Cardinality(S)
    BY <1>3
  <2>2. PICK i \in S : Rank(S, i) = p
    BY <1>3, <2>1
  <2>3. N[p] = M[i]
    BY <1>3, <2>2
  <2> QED BY <1>1, <2>3
<1>5. Simple(N) /\ Injective(N)
  BY <1>1, <1>3, <1>4, SimpleFacesMesh, OrientedMeans
<1> QED BY <1>1, <1>3, <1>5 DEF Mesh

LEMMA DegenerateStep == RepairInv /\ EraseDegenerate => RepairInv'
<1> SUFFICES ASSUME RepairInv, EraseDegenerate PROVE RepairInv'
  OBVIOUS
<1>1. /\ pc = "degenerate" /\ pc' = "holes" /\ F' = SimpleFaces(F) /\ Vset' = Vset
      /\ E2E' = Opposites(F') /\ marks' = marks /\ erased' = erased /\ update' = update
  BY DEF EraseDegenerate, Direct, sweep
<1>2. Numbers /\ F \in Seq([Corner -> DOMAIN Vset]) /\ IsOriented(SimpleFaces(F))
  BY <1>1 DEF RepairInv, AtFirst
<1>3. Mesh(F', DOMAIN Vset')
  BY <1>1, <1>2, OnlySimple
<1>4. Len(F') <= Len(F')
  <2>1. Len(F') \in Nat
    BY <1>3 DEF Mesh
  <2> QED BY <2>1
<1>5. AtHoles'
  BY <1>1, <1>3, <1>4 DEF AtHoles
<1>6. Numbers'
  BY <1>1, <1>2 DEF Numbers, Passes
<1> QED BY <1>1, <1>5, <1>6 DEF RepairInv, AtFirst, AtTwo, AtFans, AtHigh, AtZero, AtDone

(* The sweep for vertices of two faces begins.                               *)
LEMMA MergedFirst ==
  ASSUME NEW V, NEW M, Mesh(M, V)
  PROVE  Merged(V, M, M, {}, {}, {}, V)
<1>1. M \in Seq([Corner -> V]) /\ Simple(M) /\ Injective(M)
  BY DEF Mesh
<1>2. Differ(M, {})
  BY <1>1 DEF Differ, Simple, Injective
<1> QED BY <1>1, <1>2 DEF Merged

LEMMA TwoBegins ==
  ASSUME pc' = "two", Vset' \in Seq(Nat), Mesh(F', DOMAIN Vset'), E2E' = Opposites(F'),
         V2E' = Starts(F', E2E', DOMAIN Vset'), todo' = DOMAIN Vset',
         marks' = {}, erased' = {}, update' = FALSE
  PROVE  RepairInv'
<1>1. Merged(DOMAIN Vset', F', F', {}, erased', marks', todo')
  BY MergedFirst
<1>2. PICK M, T : M = F' /\ T = {}
  OBVIOUS
<1>3. /\ Merged(DOMAIN Vset', M, F', T, erased', marks', todo')
      /\ E2E' = Opposites(M) /\ V2E' = Starts(M, E2E', DOMAIN Vset')
      /\ todo' \subseteq DOMAIN Vset'
      /\ update' = FALSE => F' = M /\ erased' = {}
  BY <1>1, <1>2
<1>4. AtTwo'
  BY <1>3 DEF AtTwo
<1>5. Numbers'
  BY DEF Numbers, Passes
<1> QED BY <1>4, <1>5 DEF RepairInv, AtFirst, AtHoles, AtFans, AtHigh, AtZero, AtDone

LEMMA HolesStep == RepairInv /\ HolesFixed => RepairInv'
<1> SUFFICES ASSUME RepairInv, HolesFixed PROVE RepairInv'
  OBVIOUS
<1>1. /\ pc = "holes" /\ pc' = "two" /\ F' = F /\ Vset' = Vset
      /\ E2E' = Opposites(F') /\ V2E' = Starts(F', E2E', DOMAIN Vset') /\ todo' = DOMAIN Vset
      /\ marks' = marks /\ erased' = erased /\ update' = update
  BY DEF HolesFixed, Direct
<1>2. Numbers /\ Mesh(F, DOMAIN Vset)
  BY <1>1 DEF RepairInv, AtHoles
<1>3. Vset \in Seq(Nat) /\ marks = {} /\ erased = {} /\ update = FALSE
  BY <1>1, <1>2 DEF Numbers
<1> QED BY <1>1, <1>2, <1>3, TwoBegins

LEMMA StartsIs ==
  ASSUME NEW V, NEW M, Mesh(M, V), NEW W, NEW v \in W, Starts(M, Opposites(M), W)[v] # None
  PROVE  Leaving(M, v) # {} /\ Starts(M, Opposites(M), W)[v] = Start(M, Opposites(M), v)
  BY DEF Starts

LEMMA RemoveTwoStep == RepairInv /\ RemoveTwo => RepairInv'
<1> SUFFICES ASSUME RepairInv, RemoveTwo PROVE RepairInv'
  OBVIOUS
<1>1. pc = "two" /\ update' = TRUE /\ pc' = pc /\ E2E' = E2E /\ V2E' = V2E /\ Vset' = Vset
  BY DEF RemoveTwo
<1>2. PICK v \in todo :
        /\ Untouched(v)
        /\ LET a == V2E[v][1]
               b == E2E[Prev4(V2E[v])][1]
               q == Neighbours(v)
           IN  /\ marks' = marks \union ToSet(q)
               /\ F' = IF IsSimple(q) THEN [F EXCEPT ![a] = q] ELSE F
               /\ erased' = erased \union (IF IsSimple(q) THEN {b} ELSE {a, b})
        /\ todo' = {w \in todo : w > v}
  BY DEF RemoveTwo
<1>3. PICK V : V = DOMAIN Vset
  OBVIOUS
<1>4. PICK M, T : /\ Merged(V, M, F, T, erased, marks, todo)
                  /\ E2E = Opposites(M) /\ V2E = Starts(M, E2E, V)
                  /\ todo \subseteq V
  BY <1>1, <1>3 DEF RepairInv, AtTwo
<1>5. Numbers /\ Vset \in Seq(Nat)
  BY DEF RepairInv, Numbers
<1>6. PICK a, b, q : a = V2E[v] /\ b = E2E[Prev4(a)] /\ q = Neighbours(v)
  OBVIOUS
<1>7. /\ q = <<From(F, Next4(a)), From(F, Next4(Next4(a))), From(F, Next4(b)), From(F, Next4(Next4(b)))>>
      /\ F' = IF IsSimple(q) THEN [F EXCEPT ![a[1]] = q] ELSE F
      /\ erased' = erased \union (IF IsSimple(q) THEN {b[1]} ELSE {a[1], b[1]})
      /\ marks' = marks \union ToSet(q)
  BY <1>2, <1>6 DEF Neighbours
<1>8. v \notin marks /\ a # None /\ Len(Backward(E2E, a)) = 2
  BY <1>2, <1>6 DEF Untouched, HasTwoFaces
<1>9. Mesh(M, V)
  BY <1>4 DEF Merged
<1>10. Leaving(M, v) # {} /\ a = Start(M, Opposites(M), v)
  BY <1>4, <1>6, <1>8, <1>9, StartsIs
<1>11. todo' \subseteq todo \ {v} /\ todo' \subseteq V
  <2>1. \A x \in V : x \in Nat
    BY <1>3, <1>5
  <2>2. ~ (v > v)
    BY <1>4, <2>1
  <2> QED BY <1>2, <1>4, <2>2
<1>12. Merging(V, M, F, T, erased, marks, todo, v, a, b, q, F', erased', todo')
  BY <1>2, <1>4, <1>6, <1>7, <1>8, <1>10, <1>11 DEF Merging
<1>13. PICK U : U = T \union {a[1], b[1]}
  OBVIOUS
<1>14. Merged(V, M, F', U, erased', marks', todo')
  BY <1>7, <1>12, <1>13, Merge
<1>15. AtTwo'
  <2>1. /\ Merged(DOMAIN Vset', M, F', U, erased', marks', todo')
        /\ E2E' = Opposites(M) /\ V2E' = Starts(M, E2E', DOMAIN Vset')
        /\ todo' \subseteq DOMAIN Vset'
        /\ update' = FALSE => F' = M /\ erased' = {}
    BY <1>1, <1>3, <1>4, <1>11, <1>14
  <2> QED BY <2>1 DEF AtTwo
<1>16. Numbers'
  BY <1>1, <1>5 DEF Numbers
<1> QED BY <1>1, <1>15, <1>16 DEF RepairInv, AtFirst, AtHoles, AtFans, AtHigh, AtZero, AtDone

(* What is left of the faces in a sweep.                                     *)
LEMMA KeptIsMesh == RepairInv /\ pc # "degenerate" => Mesh(Kept, DOMAIN Vset)
<1> SUFFICES ASSUME RepairInv, pc # "degenerate" PROVE Mesh(Kept, DOMAIN Vset)
  OBVIOUS
<1>1. PICK V : V = DOMAIN Vset
  OBVIOUS
<1>2. CASE pc = "two"
  <2>1. PICK M, T : Merged(V, M, F, T, erased, marks, todo)
    BY <1>1, <1>2 DEF RepairInv, AtTwo
  <2>2. F \in Seq([Corner -> V]) /\ Differ(F, erased)
    BY <2>1 DEF Merged
  <2>3. PICK S : S = (DOMAIN F) \ erased
    OBVIOUS
  <2>4. \A d, e \in EdgesOf(F) :
          d[1] \in S /\ e[1] \in S /\ From(F, d) = From(F, e)
          /\ (d[1] = e[1] \/ From(F, Next4(d)) = From(F, Next4(e))) => d = e
    BY <2>2, <2>3 DEF Differ
  <2>5. Mesh(Chosen(F, S), V)
    BY <2>2, <2>3, <2>4, ChosenMesh
  <2> QED BY <1>1, <2>3, <2>5 DEF Kept
<1>3. CASE pc # "two"
  <2>1. Mesh(F, V)
    <3>1. CASE pc = "high"
      <4>1. PICK M, n : Splitting(M, n, F, Len(Vset), marks)
        BY <3>1 DEF RepairInv, AtHigh
      <4>2. Mesh(F, 1 .. Len(Vset))
        BY <4>1 DEF Splitting
      <4> QED BY <1>1, <4>2, VerticesCount DEF RepairInv, Numbers
    <3>2. CASE pc # "high"
      BY <1>1, <1>3, <3>2 DEF RepairInv, Numbers, Passes, AtHoles, AtFans, AtZero, AtDone
    <3> QED BY <3>1, <3>2
  <2>2. erased = {}
    BY <1>3 DEF RepairInv, Numbers
  <2>3. Mesh(Chosen(F, (DOMAIN F) \ {}), V)
    BY <2>1, AllChosen
  <2> QED BY <1>1, <2>2, <2>3 DEF Kept
<1> QED BY <1>2, <1>3

LEMMA EndTwoStep == RepairInv /\ EndTwo => RepairInv'
<1> SUFFICES ASSUME RepairInv, EndTwo PROVE RepairInv'
  OBVIOUS
<1>1. pc = "two" /\ Vset' = Vset
  BY DEF EndTwo
<1>2. Numbers /\ Vset \in Seq(Nat) /\ update \in BOOLEAN
  BY DEF RepairInv, Numbers
<1>3. CASE update
  <2>1. /\ F' = Kept /\ E2E' = Opposites(F') /\ V2E' = Starts(F', E2E', DOMAIN Vset')
        /\ todo' = DOMAIN Vset /\ marks' = {} /\ erased' = {} /\ update' = FALSE /\ pc' = pc
    BY <1>3 DEF EndTwo, Direct
  <2>2. Mesh(Kept, DOMAIN Vset)
    BY <1>1, KeptIsMesh
  <2> QED BY <1>1, <1>2, <2>1, <2>2, TwoBegins
<1>4. CASE ~ update
  <2>1. /\ pc' = "fans" /\ marks' = {} /\ erased' = {} /\ update' = FALSE
        /\ before' = [i \in DOMAIN F |-> [j \in Corner |-> Vset[F[i][j]]]]
        /\ F' = F /\ E2E' = E2E /\ V2E' = V2E
    BY <1>4 DEF EndTwo, NoSweep
  <2>2. PICK M, T : /\ Merged(DOMAIN Vset, M, F, T, erased, marks, todo)
                    /\ E2E = Opposites(M) /\ (update = FALSE => F = M)
    BY <1>1 DEF RepairInv, AtTwo
  <2>3. Mesh(F, DOMAIN Vset) /\ E2E = Opposites(F)
    BY <1>2, <1>4, <2>2 DEF Merged
  <2>4. Placed(before', Vset, F)
    <3>1. PICK l \in Nat : l = Len(F) /\ DOMAIN F = 1 .. l
      BY <2>3 DEF Mesh
    <3>2. before' = [i \in 1 .. l |-> FaceAt(Vset, F[i])]
      BY <2>1, <3>1 DEF FaceAt
    <3>3. Len(before') = l /\ \A i \in DOMAIN F : i <= l /\ FaceAt(Vset, F[i]) = before'[i]
      BY <3>1, <3>2
    <3> QED BY <3>1, <3>3 DEF Placed
  <2>5. AtFans'
    BY <1>1, <2>1, <2>3, <2>4 DEF AtFans
  <2>6. Numbers'
    BY <1>1, <1>2, <2>1 DEF Numbers, Passes
  <2> QED BY <2>1, <2>5, <2>6 DEF RepairInv, AtFirst, AtHoles, AtTwo, AtHigh, AtZero, AtDone
<1> QED BY <1>2, <1>3, <1>4

LEMMA SplitFansStep == RepairInv /\ SplitFans => RepairInv'
<1> SUFFICES ASSUME RepairInv, SplitFans PROVE RepairInv'
  OBVIOUS
<1>1. /\ pc = "fans" /\ pc' = pc /\ E2E' = E2E /\ before' = before
      /\ marks' = marks /\ erased' = erased /\ update' = update
  BY DEF SplitFans, sweep
<1>2. PICK v \in DOMAIN Vset :
        /\ Cardinality(Fans(v)) > 1
        /\ F' = [i \in DOMAIN F |-> [j \in Corner |->
                   IF F[i][j] = v /\ Group(v, <<i, j>>) > 0
                   THEN Len(Vset) + Group(v, <<i, j>>) ELSE F[i][j]]]
        /\ Vset' = Vset \o [i \in 1 .. (Cardinality(Fans(v)) - 1) |-> Vset[v]]
  BY DEF SplitFans
<1>3. Numbers /\ Mesh(F, DOMAIN Vset) /\ E2E = Opposites(F) /\ Placed(before, Vset, F)
  BY <1>1 DEF RepairInv, AtFans
<1>4. PICK n \in Nat : n = Len(Vset) /\ DOMAIN Vset = 1 .. n /\ Vset \in Seq(Nat)
  BY <1>3 DEF Numbers
<1>5. Fans(v) = FansOf(F, v) /\ \A e : Group(v, e) = GroupOf(F, v, e)
  <2>1. Fans(v) = FansOf(F, v)
    BY <1>3 DEF Fans, FansOf
  <2> QED BY <1>3, <2>1 DEF Group, GroupOf
<1>6. PICK k : k = Cardinality(FansOf(F, v)) - 1
  OBVIOUS
<1>7. k \in Nat
  <2>1. Cardinality(FansOf(F, v)) \in Nat
    BY <1>3, GroupBound
  <2> QED BY <1>2, <1>5, <1>6, <2>1
<1>8. FansApart(n, F, v, k, Vset, F', Vset')
  BY <1>2, <1>3, <1>4, <1>5, <1>6, <1>7 DEF FansApart
<1>9. /\ Vset' \in Seq(Nat) /\ Mesh(F', 1 .. Len(Vset')) /\ Opposites(F') = Opposites(F)
      /\ DOMAIN F' = DOMAIN F /\ Len(F') = Len(F) /\ SamePlaces(F, Vset, F', Vset')
  BY <1>8, FansApartMesh
<1>10. Placed(before', Vset', F')
  BY <1>1, <1>3, <1>9, PlacedAgain
<1>11. Mesh(F', DOMAIN Vset')
  BY <1>9
<1>12. AtFans'
  BY <1>1, <1>3, <1>9, <1>10, <1>11 DEF AtFans
<1>13. Numbers'
  BY <1>1, <1>3, <1>9 DEF Numbers
<1> QED BY <1>1, <1>12, <1>13 DEF RepairInv, AtFirst, AtHoles, AtTwo, AtHigh, AtZero, AtDone

LEMMA SplittingFirst ==
  ASSUME NEW n \in Nat, NEW M, Mesh(M, 1 .. n), OneFanEach(M)
  PROVE  Splitting(M, n, M, n, {})
<1>1. Len(M) <= Len(M)
  <2>1. Len(M) \in Nat
    BY DEF Mesh
  <2> QED BY <2>1
<1> QED BY <1>1 DEF Splitting

LEMMA HighBegins ==
  ASSUME pc' = "high", Vset' \in Seq(Nat), Mesh(F', DOMAIN Vset'), OneFanEach(F'),
         StartHigh, Placed(before', Vset', F')
  PROVE  RepairInv'
<1>1. PICK M, n : M = F' /\ n = Len(Vset')
  OBVIOUS
<1>2. n \in Nat /\ DOMAIN Vset' = 1 .. n
  BY <1>1
<1>3. /\ E2E' = Opposites(F') /\ V2E' = Starts(F', E2E', DOMAIN Vset')
      /\ valences' = [v \in DOMAIN Vset' |-> Valence(F', V2E', E2E', v)]
      /\ todo' = {v \in DOMAIN valences' : valences'[v] > 5}
      /\ marks' = {} /\ erased' = {} /\ update' = FALSE
  BY DEF StartHigh, Direct
<1>4. Splitting(M, n, F', Len(Vset'), marks')
  BY <1>1, <1>2, <1>3, SplittingFirst
<1>5. Lists(M, n)'
  <2>1. DOMAIN valences' = 1 .. n
    BY <1>2, <1>3
  <2> QED BY <1>1, <1>2, <1>3, <2>1 DEF Lists
<1>6. AtHigh'
  BY <1>4, <1>5 DEF AtHigh
<1>7. Numbers'
  BY <1>3 DEF Numbers, Passes
<1> QED BY <1>6, <1>7 DEF RepairInv, AtFirst, AtHoles, AtTwo, AtFans, AtZero, AtDone

LEMMA FansSplitStep == RepairInv /\ FansSplit => RepairInv'
<1> SUFFICES ASSUME RepairInv, FansSplit PROVE RepairInv'
  OBVIOUS
<1>1. /\ pc = "fans" /\ pc' = "high" /\ F' = F /\ Vset' = Vset /\ before' = before /\ StartHigh
      /\ \A v \in DOMAIN Vset : Cardinality(Fans(v)) <= 1
  BY DEF FansSplit
<1>2. Numbers /\ Mesh(F, DOMAIN Vset) /\ E2E = Opposites(F) /\ Placed(before, Vset, F)
  BY <1>1 DEF RepairInv, AtFans
<1>3. \A v \in DOMAIN Vset : Cardinality({FanOf(Opposites(F), e) : e \in Leaving(F, v)}) <= 1
  BY <1>1, <1>2 DEF Fans
<1>4. OneFanEach(F)
  BY <1>2, <1>3, FewFans
<1>5. Vset \in Seq(Nat)
  BY <1>2 DEF Numbers
<1> QED BY <1>1, <1>2, <1>4, <1>5, HighBegins

(* Half way around the fan of a vertex that the sweep comes to.              *)
LEMMA HighVertex ==
  ASSUME NEW M, NEW n, Mesh(M, 1 .. n), OneFanEach(M), Lists(M, n), NEW v \in todo,
         NEW fan, fan = Forward(E2E, V2E[v]), NEW step, step = (valences[v] + 1) \div 2
  PROVE  /\ v \in 1 .. n /\ FanIs(M, v, Len(fan), fan) /\ step \in Nat /\ step > 0
         /\ fan \in Seq(EdgesOf(M))
<1>1. /\ E2E = Opposites(M) /\ V2E = Starts(M, E2E, 1 .. n)
      /\ valences = [w \in 1 .. n |-> Valence(M, V2E, E2E, w)]
      /\ v \in 1 .. n /\ valences[v] > 5
  BY DEF Lists
<1>2. V2E[v] # None
  <2>1. valences[v] = Valence(M, V2E, E2E, v)
    BY <1>1
  <2> QED BY <1>1, <2>1 DEF Valence
<1>3. Leaving(M, v) # {} /\ V2E[v] = Start(M, Opposites(M), v)
  BY <1>1, <1>2, StartsIs
<1>4. fan = Forward(Opposites(M), Start(M, Opposites(M), v))
  BY <1>1, <1>3
<1>5. FanIs(M, v, Len(fan), fan) /\ fan \in Seq(EdgesOf(M))
  BY <1>3, <1>4, ForwardIs
<1>6. valences[v] \in Nat
  <2>1. valences[v] = Len(fan) + (IF E2E[Last(fan)] = None THEN 1 ELSE 0)
    BY <1>1, <1>2 DEF Valence
  <2>2. Len(fan) \in Nat
    BY <1>5
  <2> QED BY <2>1, <2>2
<1>7. step \in Nat /\ step > 0
  BY <1>1, <1>6
<1> QED BY <1>1, <1>5, <1>7

LEMMA SplitHighStep == RepairInv /\ SplitHigh => RepairInv'
<1> SUFFICES ASSUME RepairInv, SplitHigh PROVE RepairInv'
  OBVIOUS
<1>1. /\ pc = "high" /\ pc' = pc /\ E2E' = E2E /\ V2E' = V2E /\ valences' = valences /\ before' = before
      /\ erased' = erased
  BY DEF SplitHigh
<1>2. PICK v \in todo :
        /\ todo' = todo \ {v}
        /\ LET fan  == Forward(E2E, V2E[v])
               ring == [i \in DOMAIN fan |-> From(F, Next4(fan[i]))]
               step == (valences[v] + 1) \div 2
               new  == Len(Vset) + 1
           IN  IF v \in marks \/ ToSet(ring) \intersect marks # {} \/ Splits(v, ring) = {}
               THEN UNCHANGED <<F, Vset, marks, update>>
               ELSE \E i \in Splits(v, ring) :
                      /\ F' = Append([f \in DOMAIN F |-> [j \in Corner |->
                                        IF \E k \in Moved(i, step) : fan[k] = <<f, j>>
                                        THEN new ELSE F[f][j]]],
                                     <<new, ring[i], v, ring[i + step]>>)
                      /\ Vset' = Append(Vset, Vset[v])
                      /\ marks' = marks \union {v} \union ToSet(ring)
                      /\ update' = TRUE
  BY DEF SplitHigh
<1> DEFINE fan  == Forward(E2E, V2E[v])
           ring == [i \in DOMAIN fan |-> From(F, Next4(fan[i]))]
           step == (valences[v] + 1) \div 2
           new  == Len(Vset) + 1
<1>3. /\ fan = Forward(E2E, V2E[v])
      /\ ring = [i \in DOMAIN fan |-> From(F, Next4(fan[i]))]
      /\ step = (valences[v] + 1) \div 2
      /\ new  = Len(Vset) + 1
  OBVIOUS
<1>4. IF v \in marks \/ ToSet(ring) \intersect marks # {} \/ Splits(v, ring) = {}
      THEN UNCHANGED <<F, Vset, marks, update>>
      ELSE \E i \in Splits(v, ring) :
             /\ F' = Append([f \in DOMAIN F |-> [j \in Corner |->
                               IF \E k \in Moved(i, step) : fan[k] = <<f, j>>
                               THEN new ELSE F[f][j]]],
                            <<new, ring[i], v, ring[i + step]>>)
             /\ Vset' = Append(Vset, Vset[v])
             /\ marks' = marks \union {v} \union ToSet(ring)
             /\ update' = TRUE
  BY <1>2
<1> HIDE DEF fan, ring, step, new
<1>5. PICK M, n : Splitting(M, n, F, Len(Vset), marks) /\ Lists(M, n)
  BY <1>1 DEF RepairInv, AtHigh
<1>6. Numbers /\ Placed(before, Vset, F)
  BY <1>1 DEF RepairInv, AtHigh
<1>7. PICK l \in Nat : l = Len(Vset) /\ Vset \in Seq(Nat) /\ DOMAIN Vset = 1 .. l
  BY <1>6 DEF Numbers
<1>8. Lists(M, n)'
  BY <1>1, <1>2, <1>5 DEF Lists
<1>9. CASE UNCHANGED <<F, Vset, marks, update>>
  <2>1. AtHigh'
    BY <1>1, <1>5, <1>6, <1>8, <1>9 DEF AtHigh
  <2>2. Numbers'
    BY <1>1, <1>6, <1>9 DEF Numbers
  <2> QED BY <1>1, <2>1, <2>2 DEF RepairInv, AtFirst, AtHoles, AtTwo, AtFans, AtZero, AtDone
<1>10. CASE ~ (v \in marks \/ ToSet(ring) \intersect marks # {} \/ Splits(v, ring) = {})
  <2>1. PICK i \in Splits(v, ring) :
          /\ F' = Append([f \in DOMAIN F |-> [j \in Corner |->
                            IF \E k \in Moved(i, step) : fan[k] = <<f, j>>
                            THEN new ELSE F[f][j]]],
                         <<new, ring[i], v, ring[i + step]>>)
          /\ Vset' = Append(Vset, Vset[v])
          /\ marks' = marks \union {v} \union ToSet(ring)
          /\ update' = TRUE
    BY <1>4, <1>10
  <2>2. Mesh(M, 1 .. n) /\ OneFanEach(M) /\ n \in Nat /\ Len(M) <= Len(F) /\ Mesh(F, 1 .. l)
    BY <1>5, <1>7 DEF Splitting
  <2>3. PICK m : m = Len(fan)
    OBVIOUS
  <2>4. v \in 1 .. n /\ FanIs(M, v, m, fan) /\ step \in Nat /\ step > 0 /\ fan \in Seq(EdgesOf(M))
    BY <1>3, <1>5, <2>2, <2>3, HighVertex
  <2>5. DOMAIN fan = 1 .. m /\ m \in Nat /\ Len(ring) = m /\ DOMAIN ring = 1 .. m
        /\ \A k \in 1 .. m : ring[k] = Out(F, fan[k])
    BY <1>3, <2>3, <2>4 DEF Out
  <2>6. i \in 1 .. (m - step)
    BY <1>3, <2>1, <2>5 DEF Splits
  <2>7. PICK t : t = i + step
    OBVIOUS
  <2>8. i \in 1 .. m /\ t \in 1 .. m /\ i < t
    BY <2>4, <2>5, <2>6, <2>7
  <2>9. Moved(i, step) = (i + 1) .. t /\ new = l + 1
    BY <1>3, <1>7, <2>7 DEF Moved
  <2>10. F' = Append([f \in DOMAIN F |-> [j \in Corner |->
                        IF \E k \in (i + 1) .. t : fan[k] = <<f, j>> THEN l + 1 ELSE F[f][j]]],
                     <<l + 1, Out(F, fan[i]), v, Out(F, fan[t])>>)
    <3>1. ring[i] = Out(F, fan[i]) /\ ring[i + step] = Out(F, fan[t])
      BY <2>5, <2>7, <2>8
    <3> QED BY <2>1, <2>9, <3>1
  <2>11. SplitMore(M, n, F, l, marks, v, m, fan, i, t, F')
    BY <1>5, <1>7, <1>10, <2>4, <2>8, <2>10 DEF SplitMore
  <2>13. ToSet(ring) = RingOf(F, fan, m)
    BY <2>5 DEF ToSet, RingOf
  <2>14. Splitting(M, n, F', l + 1, marks \union {v} \union RingOf(F, fan, m))
    BY <2>11, SplitKeeps
  <2>15. SplitAt(l, F, v, m, fan, i, t, F')
    BY <2>11, SplitIs
  <2>16. Placed(before, Vset', F')
    <3>1. Vset \in Seq(Nat) /\ Len(Vset) = l /\ Vset' = Append(Vset, Vset[v]) /\ Placed(before, Vset, F)
      BY <1>6, <1>7, <2>1
    <3> QED BY ONLY <2>15, <3>1, PlacedMore
  <2>17. Vset' \in Seq(Nat) /\ Len(Vset') = l + 1
    <3>1. PICK x : x = Vset[v]
      OBVIOUS
    <3>2. v \in 1 .. l
      BY <1>7, <2>15 DEF SplitAt
    <3>3. x \in Nat /\ Vset' = Append(Vset, x)
      BY <1>7, <2>1, <3>1, <3>2
    <3> QED BY <1>7, <3>3
  <2>18. AtHigh'
    BY <1>1, <1>8, <2>1, <2>13, <2>14, <2>16, <2>17 DEF AtHigh
  <2>19. Numbers'
    BY <1>1, <1>6, <2>1, <2>17 DEF Numbers
  <2> QED BY <1>1, <2>18, <2>19 DEF RepairInv, AtFirst, AtHoles, AtTwo, AtFans, AtZero, AtDone
<1> QED BY <1>4, <1>9, <1>10

LEMMA EndHighStep == RepairInv /\ EndHigh => RepairInv'
<1> SUFFICES ASSUME RepairInv, EndHigh PROVE RepairInv'
  OBVIOUS
<1>1. pc = "high" /\ F' = F /\ Vset' = Vset /\ before' = before
  BY DEF EndHigh
<1>2. Numbers /\ Placed(before, Vset, F)
  BY <1>1 DEF RepairInv, AtHigh
<1>3. PICK M, n : Splitting(M, n, F, Len(Vset), marks)
  BY <1>1 DEF RepairInv, AtHigh
<1>4. Vset \in Seq(Nat) /\ Mesh(F, DOMAIN Vset) /\ OneFanEach(F)
  <2>1. Vset \in Seq(Nat) /\ DOMAIN Vset = 1 .. Len(Vset)
    BY <1>2 DEF Numbers
  <2> QED BY <1>3, <2>1 DEF Splitting
<1>5. CASE update
  <2>1. StartHigh /\ pc' = pc
    BY <1>5 DEF EndHigh
  <2> QED BY <1>1, <1>2, <1>4, <2>1, HighBegins
<1>6. CASE ~ update
  <2>1. pc' = "zero" /\ marks' = {} /\ erased' = {} /\ update' = FALSE
    BY <1>6 DEF EndHigh, NoSweep
  <2>2. AtZero'
    BY <1>1, <1>2, <1>4 DEF AtZero
  <2>3. Numbers'
    BY <1>1, <1>2, <2>1 DEF Numbers, Passes
  <2> QED BY <2>1, <2>2, <2>3 DEF RepairInv, AtFirst, AtHoles, AtTwo, AtFans, AtHigh, AtDone
<1> QED BY <1>2, <1>5, <1>6 DEF Numbers

LEMMA RemoveZeroStep == RepairInv /\ RemoveZero => RepairInv'
<1> SUFFICES ASSUME RepairInv, RemoveZero PROVE RepairInv'
  OBVIOUS
<1>1. /\ pc = "zero" /\ pc' = "done" /\ before' = before
      /\ F' = [i \in DOMAIN F |-> [j \in Corner |-> compact_index(F[i][j])]]
      /\ Vset' = MovedUp
      /\ E2E' = Opposites(F') /\ V2E' = Starts(F', E2E', DOMAIN Vset')
      /\ marks' = marks /\ erased' = erased /\ update' = update
  BY DEF RemoveZero, Direct, sweep
<1>2. Numbers /\ Mesh(F, DOMAIN Vset) /\ OneFanEach(F) /\ Placed(before, Vset, F)
  BY <1>1 DEF RepairInv, AtZero
<1>3. PICK n \in Nat : n = Len(Vset) /\ DOMAIN Vset = 1 .. n /\ Vset \in Seq(Nat)
  BY <1>2 DEF Numbers
<1>4. PICK S : S = VerticesOf(F)
  OBVIOUS
<1>5. Packed(n, F, Vset, S, F', Vset')
  <2>1. \A v : compact_index(v) = Rank(S, v)
    BY <1>4 DEF compact_index, Rank
  <2> QED BY <1>1, <1>2, <1>3, <1>4, <2>1 DEF Packed, MovedUp
<1>6. /\ Vset' \in Seq(Nat) /\ Mesh(F', 1 .. Len(Vset')) /\ EdgesOf(F') = EdgesOf(F)
      /\ DOMAIN F' = DOMAIN F /\ Len(F') = Len(F) /\ SamePlaces(F, Vset, F', Vset')
      /\ \A v \in 1 .. Len(Vset') : Leaving(F', v) # {}
      /\ \A d, e \in EdgesOf(F) : From(F', d) = From(F', e) <=> From(F, d) = From(F, e)
  BY <1>5, PackedMesh
<1>7. OneFanEach(F')
  BY <1>2, <1>6, SameOneFan
<1>8. Placed(before', Vset', F')
  BY <1>1, <1>2, <1>6, PlacedAgain
<1>9. AtDone'
  <2>1. DOMAIN Vset' = 1 .. Len(Vset')
    BY <1>6
  <2> QED BY <1>1, <1>6, <1>7, <1>8, <2>1 DEF AtDone
<1>10. Numbers'
  BY <1>1, <1>2, <1>6 DEF Numbers, Passes
<1> QED BY <1>1, <1>9, <1>10 DEF RepairInv, AtFirst, AtHoles, AtTwo, AtFans, AtHigh, AtZero

(***************************************************************************)
(* Filling holes: quads are added.                                         *)
(***************************************************************************)
Quads(V) == {q \in [Corner -> V] : IsSimple(q)}

(* Meshes with all faces of M, or as many.                                   *)
LEMMA AddsKeeps ==
  ASSUME NEW V, NEW M, Mesh(M, V), NEW q \in Quads(V)
  PROVE  Mesh(Adds(M, q), V) /\ Len(M) <= Len(Adds(M, q))
<1>0. q \in [Corner -> V] /\ IsSimple(q)
  BY DEF Quads
<1>1. M \in Seq([Corner -> V]) /\ Simple(M) /\ Injective(M)
  BY DEF Mesh
<1>2. PICK l \in Nat : l = Len(M) /\ DOMAIN M = 1 .. l
  BY <1>1
<1>3. CASE DirectedEdges(<<q>>) \intersect DirectedEdges(M) # {}
  BY <1>2, <1>3 DEF Adds
<1>4. CASE DirectedEdges(<<q>>) \intersect DirectedEdges(M) = {}
  <2>1. PICK N, Q : N = Adds(M, q) /\ Q = [Corner -> V]
    OBVIOUS
  <2>2. N = Append(M, q) /\ M \in Seq(Q) /\ q \in Q
    BY <1>0, <1>1, <1>4, <2>1 DEF Adds
  <2>3. /\ N \in Seq(Q) /\ Len(N) = l + 1 /\ DOMAIN N = 1 .. (l + 1) /\ N[l + 1] = q
        /\ \A i \in 1 .. l : N[i] = M[i]
    BY <1>2, <2>2
  <2>4. \A i \in DOMAIN N : IsSimple(N[i])
    <3>1. \A i \in DOMAIN M : IsSimple(M[i])
      BY <1>1, SimpleFacesMesh
    <3> QED BY <1>0, <1>2, <2>3, <3>1
  <2>5. Simple(N)
    BY <2>1, <2>3, <2>4, SimpleFacesMesh
  <2>6. ASSUME NEW e \in EdgesOf(N), e[1] \in 1 .. l
        PROVE  e \in EdgesOf(M) /\ From(N, e) = From(M, e) /\ From(N, Next4(e)) = From(M, Next4(e))
    <3>1. e = <<e[1], e[2]>> /\ e[2] \in Corner
      BY EdgeParts
    <3>2. e \in EdgesOf(M)
      BY <1>2, <2>6, <3>1 DEF EdgesOf
    <3>3. Next4(e)[1] = e[1]
      BY DEF Next4
    <3> QED BY <2>3, <2>6, <3>2, <3>3 DEF From
  <2>7. ASSUME NEW e \in EdgesOf(N), e[1] = l + 1
        PROVE  <<From(N, e), From(N, Next4(e))>> \in DirectedEdges(<<q>>)
    <3>1. PICK j, x : j = e[2] /\ x = <<1, j>>
      OBVIOUS
    <3>2. j \in Corner
      BY <3>1, EdgeParts
    <3>3. x \in EdgesOf(<<q>>)
      BY <3>1, <3>2 DEF EdgesOf
    <3>4. From(N, e) = From(<<q>>, x) /\ From(N, Next4(e)) = From(<<q>>, Next4(x))
      BY <2>3, <2>7, <3>1 DEF From, Next4
    <3> QED BY <3>3, <3>4 DEF DirectedEdges, Ends
  <2>8. \A e \in EdgesOf(M) : <<From(M, e), From(M, Next4(e))>> \in DirectedEdges(M)
    BY DEF DirectedEdges, Ends
  <2>9. \A e \in EdgesOf(N) : e[1] \in 1 .. l \/ e[1] = l + 1
    <3>1. \A e \in EdgesOf(N) : e[1] \in 1 .. (l + 1)
      BY <2>3, EdgeParts
    <3> QED BY <3>1
  <2>10. Injective(N)
    <3> SUFFICES ASSUME NEW d \in EdgesOf(N), NEW e \in EdgesOf(N),
                        From(N, d) = From(N, e), From(N, Next4(d)) = From(N, Next4(e))
                 PROVE  d = e
      BY DEF Injective
    <3>1. CASE d[1] \in 1 .. l /\ e[1] \in 1 .. l
      BY <1>1, <2>6, <3>1 DEF Injective
    <3>2. CASE d[1] = l + 1 /\ e[1] = l + 1
      BY <2>5, <3>2 DEF Simple
    <3>3. CASE d[1] \in 1 .. l /\ e[1] = l + 1
      BY <1>4, <2>6, <2>7, <2>8, <3>3
    <3>4. CASE d[1] = l + 1 /\ e[1] \in 1 .. l
      BY <1>4, <2>6, <2>7, <2>8, <3>4
    <3> QED BY <2>9, <3>1, <3>2, <3>3, <3>4
  <2>11. l <= l + 1
    BY <1>2
  <2> QED BY <1>2, <2>1, <2>3, <2>5, <2>10, <2>11 DEF Mesh
<1> QED BY <1>3, <1>4

LEMMA AllAddedKeeps ==
  ASSUME NEW V, NEW M, Mesh(M, V), NEW quads \in Seq(Quads(V))
  PROVE  Mesh(AllAdded(M, quads), V) /\ Len(M) <= Len(AllAdded(M, quads))
<1>1. PICK m \in Nat : m = Len(quads)
  OBVIOUS
<1>2. \A k \in 1 .. m : quads[k] \in Quads(V)
  BY <1>1
<1>3. PICK S : S = {N \in Seq([Corner -> V]) : Mesh(N, V) /\ Len(M) <= Len(N)}
  OBVIOUS
<1>4. M \in S
  <2>1. M \in Seq([Corner -> V]) /\ Len(M) \in Nat
    BY DEF Mesh
  <2> QED BY <1>3, <2>1
<1>5. \A N \in S, q \in Quads(V) : Adds(N, q) \in S
  <2> SUFFICES ASSUME NEW N \in S, NEW q \in Quads(V) PROVE Adds(N, q) \in S
    OBVIOUS
  <2>1. Mesh(N, V) /\ Len(M) <= Len(N)
    BY <1>3
  <2>2. Mesh(Adds(N, q), V) /\ Len(N) <= Len(Adds(N, q))
    BY <2>1, AddsKeeps
  <2>3. Adds(N, q) \in Seq([Corner -> V]) /\ Len(M) \in Nat /\ Len(N) \in Nat /\ Len(Adds(N, q)) \in Nat
    BY <2>1, <2>2 DEF Mesh
  <2>4. Len(M) <= Len(Adds(N, q))
    BY <2>1, <2>2, <2>3
  <2> QED BY <1>3, <2>2, <2>3, <2>4
<1>6. PICK step : step = [p \in (1 .. m) \X S |-> Adds(p[2], quads[p[1]])]
  OBVIOUS
<1>7. IterateTyped(m, S, M, step)
  <2>1. \A p \in (1 .. m) \X S : Adds(p[2], quads[p[1]]) \in S
    BY <1>2, <1>5
  <2> QED BY <1>4, <1>6, <2>1 DEF IterateTyped
<1>8. PICK g \in [0 .. m -> S] : g[0] = M /\ \A k \in 1 .. m : g[k] = step[<<k, g[k - 1]>>]
  <2>1. PICK g : Iterates(g, m, S, M, step)
    BY <1>7, IterateRecursion
  <2> QED BY <2>1 DEF Iterates
<1> DEFINE Body(h) == [k \in 0 .. m |-> IF k = 0 THEN M ELSE Adds(h[k - 1], quads[k])]
<1>9. g = Body(g)
  <2>1. \A k \in 1 .. m : g[k] = Adds(g[k - 1], quads[k])
    <3> SUFFICES ASSUME NEW k \in 1 .. m PROVE g[k] = Adds(g[k - 1], quads[k])
      OBVIOUS
    <3>1. g[k - 1] \in S
      OBVIOUS
    <3>2. \A x \in S : step[<<k, x>>] = Adds(x, quads[k])
      BY <1>6
    <3> QED BY <1>8, <3>1, <3>2
  <2>2. \A k \in 0 .. m : g[k] = Body(g)[k]
    <3> SUFFICES ASSUME NEW k \in 0 .. m PROVE g[k] = Body(g)[k]
      OBVIOUS
    <3>1. k = 0 \/ k \in 1 .. m
      OBVIOUS
    <3> QED BY <1>8, <2>1, <3>1
  <2>3. g = [k \in 0 .. m |-> g[k]] /\ Body(g) = [k \in 0 .. m |-> Body(g)[k]]
    OBVIOUS
  <2> HIDE DEF Body
  <2> QED BY <2>2, <2>3
<1> DEFINE U == CHOOSE h : h = Body(h)
<1>10. U = Body(U)
  <2> HIDE DEF Body
  <2> QED BY <1>9
<1>11. AllAdded(M, quads) = U[m]
  BY <1>1 DEF AllAdded
<1>12. U[0] = M /\ \A k \in 1 .. m : U[k] = Adds(U[k - 1], quads[k])
  <2> HIDE DEF U
  <2>1. 0 \in 0 .. m /\ \A k \in 1 .. m : k \in 0 .. m /\ k # 0
    OBVIOUS
  <2>2. \A k \in 0 .. m : U[k] = Body(U)[k]
    BY <1>10
  <2> QED BY <2>1, <2>2
<1> HIDE DEF U, Body
<1>13. \A k \in 0 .. m : U[k] \in S
  <2> DEFINE Bad == {k \in 0 .. m : U[k] \notin S}
  <2> SUFFICES ASSUME Bad # {} PROVE FALSE
    OBVIOUS
  <2>1. PICK k \in Bad : \A j \in Bad : k <= j
    <3>1. Bad \in SUBSET Nat
      OBVIOUS
    <3> HIDE DEF Bad
    <3> QED BY <3>1, LeastNatural
  <2>2. k \in 1 .. m
    BY <1>4, <1>12, <2>1
  <2>3. k - 1 \in 0 .. m /\ U[k - 1] \in S
    BY <2>1, <2>2
  <2>4. U[k] \in S
    BY <1>2, <1>5, <1>12, <2>2, <2>3
  <2> QED BY <2>1, <2>4
<1>14. U[m] \in S
  BY <1>13
<1> QED BY <1>3, <1>11, <1>14

(***************************************************************************)
(* The boundary of a hole.                                                 *)
(***************************************************************************)
LEMMA AroundTyped ==
  ASSUME NEW V, NEW M, Mesh(M, V), E2E = Opposites(M), NEW x \in EdgesOf(M), E2E[x] = None
  PROVE  Around(x) = None \/ (Around(x) \in EdgesOf(M) /\ E2E[Around(x)] = None)
<1>1. PICK E, O, s, y : E = EdgesOf(M) /\ O = Opposites(M) /\ s = Next4(x) /\ y = Last(Forward(O, s))
  OBVIOUS
<1>2. M \in Seq([Corner -> V]) /\ Paired(O, E)
  BY <1>1, OppositesFacts DEF Mesh
<1>3. s \in E /\ Prev4(s) = x /\ s # None
  BY <1>1, EdgeFacts, NoneIsNoEdge
<1>4. IsOrbit(Forward(O, s), Forth(O), E, s) /\ OneToOne(Forth(O), E)
      /\ \A z \in E : Forth(O)[z] = IF O[z] = None THEN None ELSE Next4(O[z])
  <2>1. Paired(O, EdgesOf(M)) /\ s \in EdgesOf(M)
    BY <1>1, <1>2, <1>3
  <2>2. IsOrbit(Forward(O, s), Forth(O), E, s)
    BY <1>1, <1>2, <2>1, WalksAre
  <2>3. OneToOne(Forth(O), E) /\ \A z \in E : Forth(O)[z] = IF O[z] = None THEN None ELSE Next4(O[z])
    BY <1>1, <2>1, BackForth
  <2> QED BY <2>2, <2>3
<1>5. y \in E /\ Forth(O)[y] \in {None, s}
  BY <1>1, <1>3, <1>4, OrbitFacts
<1>6. O[y] = None
  <2> SUFFICES ASSUME O[y] # None PROVE FALSE
    OBVIOUS
  <2>1. O[y] \in E /\ O[O[y]] = y /\ y # None
    BY <1>1, <1>2, <1>5, NoneIsNoEdge DEF Paired
  <2>2. Next4(O[y]) \in E /\ Prev4(Next4(O[y])) = O[y] /\ Next4(O[y]) # None
    BY <1>1, <2>1, EdgeFacts, NoneIsNoEdge
  <2>3. Next4(O[y]) = s
    BY <1>4, <1>5, <2>2
  <2>4. O[y] = x
    BY <1>3, <2>2, <2>3
  <2> QED BY <1>1, <2>1, <2>4
<1>7. Around(x) \in {None, y}
  BY <1>1 DEF Around
<1> QED BY <1>1, <1>5, <1>6, <1>7

LEMMA LoopTyped ==
  ASSUME NEW V, NEW M, Mesh(M, V), E2E = Opposites(M), NEW e \in EdgesOf(M), E2E[e] = None
  PROVE  LoopEdges(e) \in Seq(EdgesOf(M))
<1>1. M \in Seq([Corner -> V]) /\ DOMAIN E2E = EdgesOf(M)
  BY OppositesFacts DEF Mesh, Paired
<1>2. PICK D : D = {x \in DOMAIN E2E : E2E[x] = None}
  OBVIOUS
<1>3. D \subseteq EdgesOf(M) /\ IsFiniteSet(D) /\ e \in D
  BY <1>1, <1>2, EdgesCount, FS_Subset
<1>4. PICK next : next = [x \in D |-> Around(x)]
  OBVIOUS
<1>5. \A x \in D : Around(x) \in D \union {None}
  BY <1>1, <1>2, AroundTyped
<1>6. next \in [D -> D \union {None}]
  BY <1>4, <1>5
<1>7. Orbit(next, e) \in Seq(D) \ {<<>>}
  BY <1>3, <1>6, OrbitTyped
<1>8. LoopEdges(e) = Orbit(next, e)
  BY <1>2, <1>4 DEF LoopEdges
<1>9. LoopEdges(e) \in Seq(D)
  BY <1>7, <1>8
<1> QED BY <1>3, <1>9, SeqMonotonic

(***************************************************************************)
(* Filling holes: loops and their fillings.                                *)
(***************************************************************************)
Loops(V) == {l \in Seq(V) : IsInjective(l)}

LEMMA PartIsLoop ==
  ASSUME NEW V, NEW l \in Loops(V), NEW i \in 1 .. Len(l), NEW j \in i .. Len(l)
  PROVE  /\ SubSeq(l, i, j) \in Loops(V) /\ Len(SubSeq(l, i, j)) = j - i + 1
         /\ \A k \in 1 .. (j - i + 1) : SubSeq(l, i, j)[k] = l[i + k - 1]
<1>1. l \in Seq(V) /\ IsInjective(l)
  BY DEF Loops
<1>2. PICK n \in Nat : n = Len(l) /\ DOMAIN l = 1 .. n
  BY <1>1
<1>3. i \in Int /\ j \in Int /\ i <= j /\ 1 <= i /\ j <= n
  BY <1>2
<1>4. \A k \in i .. j : l[k] \in V
  BY <1>1, <1>2, <1>3
<1>5. PICK p : p = SubSeq(l, i, j)
  OBVIOUS
<1>6. p \in Seq(V) /\ Len(p) = j - i + 1 /\ \A k \in 1 .. (j - i + 1) : p[k] = l[i + k - 1]
  BY <1>3, <1>4, <1>5, SubSeqProperties
<1>7. IsInjective(p)
  <2> SUFFICES ASSUME NEW a \in DOMAIN p, NEW b \in DOMAIN p, p[a] = p[b] PROVE a = b
    BY DEF IsInjective
  <2>1. a \in 1 .. (j - i + 1) /\ b \in 1 .. (j - i + 1)
    BY <1>6
  <2>2. i + a - 1 \in DOMAIN l /\ i + b - 1 \in DOMAIN l
    BY <1>2, <1>3, <2>1
  <2>3. l[i + a - 1] = l[i + b - 1]
    BY <1>6, <2>1
  <2>4. i + a - 1 = i + b - 1
    BY <1>1, <2>2, <2>3 DEF IsInjective
  <2> QED BY <1>3, <2>1, <2>4
<1> QED BY <1>5, <1>6, <1>7 DEF Loops

(* What a quad leaves of a loop.                                             *)
FirstLeft(l, s)  == SubSeq(l, 2, s[1])
SecondLeft(l, s) == SubSeq(l, s[1], s[2])
ThirdLeft(l, s)  == SubSeq(l, s[2], Len(l)) \o <<l[1]>>

SmallerLoop(V, n, r) == r \in Loops(V) /\ Len(r) \in Nat /\ Len(r) < n

LEMMA LoopsLeft ==
  ASSUME NEW V, NEW l \in Loops(V), NEW s \in Segments(Len(l))
  PROVE  /\ SmallerLoop(V, Len(l), FirstLeft(l, s)) /\ SmallerLoop(V, Len(l), SecondLeft(l, s))
         /\ SmallerLoop(V, Len(l), ThirdLeft(l, s))
<1>1. l \in Seq(V) /\ IsInjective(l)
  BY DEF Loops
<1>2. PICK n \in Nat : n = Len(l) /\ DOMAIN l = 1 .. n
  BY <1>1
<1>3. PICK i, j : i = s[1] /\ j = s[2]
  OBVIOUS
<1>4. i \in 3 .. n /\ j \in 4 .. n /\ i < j
  BY <1>2, <1>3 DEF Segments
<1>5. i \in Int /\ j \in Int /\ 3 <= i /\ i < j /\ j <= n
  BY <1>4
<1>6. SmallerLoop(V, n, SubSeq(l, 2, i))
  <2>1. PICK k : k = 2
    OBVIOUS
  <2>2. k \in 1 .. Len(l) /\ i \in k .. Len(l)
    BY <1>2, <1>5, <2>1
  <2>3. SubSeq(l, k, i) \in Loops(V) /\ Len(SubSeq(l, k, i)) = i - k + 1
    BY <2>2, PartIsLoop
  <2> QED BY <1>5, <2>1, <2>3 DEF SmallerLoop
<1>7. SmallerLoop(V, n, SubSeq(l, i, j))
  <2>2. i \in 1 .. Len(l) /\ j \in i .. Len(l)
    BY <1>2, <1>5
  <2>3. SubSeq(l, i, j) \in Loops(V) /\ Len(SubSeq(l, i, j)) = j - i + 1
    BY <2>2, PartIsLoop
  <2> QED BY <1>5, <2>3 DEF SmallerLoop
<1>8. SmallerLoop(V, n, SubSeq(l, j, n) \o <<l[1]>>)
  <2>1. j \in 1 .. Len(l) /\ n \in j .. Len(l)
    BY <1>2, <1>5
  <2>2. PICK p, m, x : p = SubSeq(l, j, n) /\ m = n - j + 1 /\ x = l[1]
    OBVIOUS
  <2>3. p \in Loops(V) /\ Len(p) = m /\ \A k \in 1 .. m : p[k] = l[j + k - 1]
    BY <2>1, <2>2, PartIsLoop
  <2>4. p \in Seq(V) /\ IsInjective(p) /\ m \in Nat /\ m + 1 < n /\ DOMAIN p = 1 .. m
    BY <1>5, <2>2, <2>3 DEF Loops
  <2>5. 1 \in DOMAIN l /\ x \in V
    BY <1>1, <1>2, <1>5, <2>2
  <2>6. PICK q : q = p \o <<x>>
    OBVIOUS
  <2>7. <<x>> \in Seq(V) /\ Len(<<x>>) = 1 /\ <<x>>[1] = x
    BY <2>5
  <2>8. q \in Seq(V) /\ Len(q) = m + 1
        /\ \A k \in 1 .. (m + 1) : q[k] = IF k <= m THEN p[k] ELSE <<x>>[k - m]
    <3>1. /\ q \in Seq(V) /\ Len(q) = Len(p) + Len(<<x>>)
          /\ \A k \in 1 .. Len(p) + Len(<<x>>) : q[k] = IF k <= Len(p) THEN p[k] ELSE <<x>>[k - Len(p)]
      BY ONLY <2>4, <2>6, <2>7, ConcatProperties
    <3> QED BY <2>3, <2>7, <3>1
  <2>9. (\A k \in 1 .. m : q[k] = p[k]) /\ q[m + 1] = x /\ DOMAIN q = 1 .. (m + 1)
    <3>1. (m + 1) - m = 1 /\ ~ (m + 1 <= m) /\ m + 1 \in 1 .. (m + 1)
      BY <2>4
    <3>2. q[m + 1] = x
      BY <2>7, <2>8, <3>1
    <3>3. \A k \in 1 .. m : k \in 1 .. (m + 1) /\ k <= m
      BY <2>4
    <3> QED BY <2>8, <3>2, <3>3
  <2>10. \A k \in 1 .. m : p[k] # x
    <3> SUFFICES ASSUME NEW k \in 1 .. m, p[k] = x PROVE FALSE
      OBVIOUS
    <3>1. j + k - 1 \in DOMAIN l /\ j + k - 1 # 1
      BY <1>2, <1>5, <2>2, <2>4
    <3>2. l[j + k - 1] = l[1]
      BY <2>2, <2>3
    <3> QED BY <1>1, <2>5, <3>1, <3>2 DEF IsInjective
  <2>11. IsInjective(q)
    <3> SUFFICES ASSUME NEW a \in DOMAIN q, NEW b \in DOMAIN q, q[a] = q[b] PROVE a = b
      BY DEF IsInjective
    <3>1. (a \in 1 .. m \/ a = m + 1) /\ (b \in 1 .. m \/ b = m + 1)
      BY <2>4, <2>9
    <3> QED BY <2>4, <2>9, <2>10, <3>1 DEF IsInjective
  <2> QED BY <2>2, <2>4, <2>6, <2>8, <2>11 DEF SmallerLoop, Loops
<1> QED BY <1>2, <1>3, <1>6, <1>7, <1>8 DEF FirstLeft, SecondLeft, ThirdLeft

LeftOf(f, cut, rest) == IF cut THEN f[rest] ELSE {<<>>}

FilledWith(q, A, B, C) == {<<q>> \o a[1] \o a[2] \o a[3] : a \in A \X B \X C}

FilledAt(f, l, s) ==
  FilledWith(<<l[1], l[s[2]], l[s[1]], l[2]>>,
             LeftOf(f, s[1] > 3, FirstLeft(l, s)),
             LeftOf(f, s[2] > s[1] + 1, SecondLeft(l, s)),
             LeftOf(f, s[2] < Len(l), ThirdLeft(l, s)))

LEMMA FilledIs ==
  ASSUME NEW f, NEW l
  PROVE  FilledBy(f, l) = IF Len(l) < 4 THEN {<<>>}
                          ELSE IF Len(l) = 4 THEN {<<<<l[1], l[4], l[3], l[2]>>>>}
                          ELSE UNION {FilledAt(f, l, s) : s \in Segments(Len(l))}
  BY DEF FilledBy, FilledAt, FilledWith, LeftOf, FirstLeft, SecondLeft, ThirdLeft

(* f and g agree on the loops of fewer than n edges.                         *)
AgreeBelow(V, n, f, g) == \A r \in Loops(V) : Len(r) < n => f[r] = g[r]

LEMMA FilledSame ==
  ASSUME NEW V, NEW l \in Loops(V), NEW f, NEW g, AgreeBelow(V, Len(l), f, g)
  PROVE  FilledBy(f, l) = FilledBy(g, l)
<1>1. \A s \in Segments(Len(l)) : FilledAt(f, l, s) = FilledAt(g, l, s)
  <2> SUFFICES ASSUME NEW s \in Segments(Len(l)) PROVE FilledAt(f, l, s) = FilledAt(g, l, s)
    OBVIOUS
  <2>1. /\ SmallerLoop(V, Len(l), FirstLeft(l, s)) /\ SmallerLoop(V, Len(l), SecondLeft(l, s))
        /\ SmallerLoop(V, Len(l), ThirdLeft(l, s))
    BY LoopsLeft
  <2>2. \A cut : /\ LeftOf(f, cut, FirstLeft(l, s)) = LeftOf(g, cut, FirstLeft(l, s))
                 /\ LeftOf(f, cut, SecondLeft(l, s)) = LeftOf(g, cut, SecondLeft(l, s))
                 /\ LeftOf(f, cut, ThirdLeft(l, s)) = LeftOf(g, cut, ThirdLeft(l, s))
    BY <2>1 DEF LeftOf, AgreeBelow, SmallerLoop
  <2> QED BY <2>2 DEF FilledAt
<1>2. {FilledAt(f, l, s) : s \in Segments(Len(l))} = {FilledAt(g, l, s) : s \in Segments(Len(l))}
  BY ONLY <1>1
<1> QED BY ONLY <1>2, FilledIs

(* Four different corners of a loop make a quad.                             *)
LEMMA LoopQuad ==
  ASSUME NEW V, NEW l \in Loops(V), NEW i \in DOMAIN l, NEW j \in DOMAIN l, NEW k \in DOMAIN l,
         NEW m \in DOMAIN l, i # j, i # k, i # m, j # k, j # m, k # m
  PROVE  <<l[i], l[j], l[k], l[m]>> \in Quads(V)
<1>1. l \in Seq(V) /\ IsInjective(l)
  BY DEF Loops
<1>2. l[i] \in V /\ l[j] \in V /\ l[k] \in V /\ l[m] \in V
  BY <1>1
<1>3. l[i] # l[j] /\ l[i] # l[k] /\ l[i] # l[m] /\ l[j] # l[k] /\ l[j] # l[m] /\ l[k] # l[m]
  BY <1>1 DEF IsInjective
<1>4. PICK f : f = <<l[i], l[j], l[k], l[m]>>
  OBVIOUS
<1>5. f \in [Corner -> V] /\ f[1] = l[i] /\ f[2] = l[j] /\ f[3] = l[k] /\ f[4] = l[m]
  BY <1>2, <1>4, Quad
<1>6. \A a, b \in Corner : f[a] = f[b] => a = b
  <2>1. Corner = {1, 2, 3, 4}
    BY DEF Corner
  <2> QED BY ONLY <1>3, <1>5, <2>1
<1>7. IsSimple(f)
  BY <1>5, <1>6, SimpleMeans
<1> QED BY <1>4, <1>5, <1>7 DEF Quads

LEMMA FilledWithTyped ==
  ASSUME NEW T, NEW q \in T, NEW A \in SUBSET Seq(T), NEW B \in SUBSET Seq(T), NEW C \in SUBSET Seq(T)
  PROVE  FilledWith(q, A, B, C) \in SUBSET Seq(T)
<1> SUFFICES ASSUME NEW z \in FilledWith(q, A, B, C) PROVE z \in Seq(T)
  OBVIOUS
<1>0. PICK a \in A, b \in B, c \in C : z = <<q>> \o a \o b \o c
  <2>1. PICK t \in A \X B \X C : z = <<q>> \o t[1] \o t[2] \o t[3]
    BY DEF FilledWith
  <2> QED BY <2>1
<1>1. a \in Seq(T) /\ b \in Seq(T) /\ c \in Seq(T) /\ <<q>> \in Seq(T)
  OBVIOUS
<1>2. PICK x : x = <<q>> \o a
  OBVIOUS
<1>3. x \in Seq(T)
  BY <1>1, <1>2, ConcatProperties
<1>4. PICK y : y = x \o b
  OBVIOUS
<1>5. y \in Seq(T)
  BY <1>1, <1>3, <1>4, ConcatProperties
<1>6. y \o c \in Seq(T)
  BY <1>1, <1>5, ConcatProperties
<1> QED BY <1>0, <1>2, <1>4, <1>6

TypedBelow(V, n, f) == \A r \in Loops(V) : Len(r) < n => f[r] \in SUBSET Seq(Quads(V))

LEMMA FilledTyped ==
  ASSUME NEW V, NEW l \in Loops(V), NEW f, TypedBelow(V, Len(l), f)
  PROVE  FilledBy(f, l) \in SUBSET Seq(Quads(V))
<1>1. PICK T : T = Quads(V)
  OBVIOUS
<1>2. PICK n \in Nat : n = Len(l) /\ DOMAIN l = 1 .. n
  BY DEF Loops
<1>3. <<>> \in Seq(T)
  OBVIOUS
<1>4. CASE n < 4
  BY <1>1, <1>2, <1>3, <1>4, FilledIs
<1>5. CASE n = 4
  <2>1. PICK a, b, c, d : a = 1 /\ b = 4 /\ c = 3 /\ d = 2
    OBVIOUS
  <2>2. a \in DOMAIN l /\ b \in DOMAIN l /\ c \in DOMAIN l /\ d \in DOMAIN l
        /\ a # b /\ a # c /\ a # d /\ b # c /\ b # d /\ c # d
    BY <1>2, <1>5, <2>1
  <2>3. <<l[a], l[b], l[c], l[d]>> \in T
    BY <1>1, <2>2, LoopQuad
  <2>4. <<l[1], l[4], l[3], l[2]>> \in T
    BY <2>1, <2>3
  <2>5. <<<<l[1], l[4], l[3], l[2]>>>> \in Seq(T)
    BY <2>4
  <2>6. FilledBy(f, l) = {<<<<l[1], l[4], l[3], l[2]>>>>}
    <3>1. ~ (Len(l) < 4) /\ Len(l) = 4
      BY <1>2, <1>5
    <3> QED BY <3>1, FilledIs
  <2> QED BY ONLY <1>1, <2>5, <2>6
<1>6. CASE ~ (n < 4) /\ n # 4
  <2>1. FilledBy(f, l) = UNION {FilledAt(f, l, s) : s \in Segments(n)}
    <3>1. ~ (n < 4) /\ n # 4
      BY ONLY <1>2, <1>6
    <3>2. FilledBy(f, l) = IF n < 4 THEN {<<>>}
                           ELSE IF n = 4 THEN {<<<<l[1], l[4], l[3], l[2]>>>>}
                           ELSE UNION {FilledAt(f, l, s) : s \in Segments(n)}
      BY <1>2, FilledIs
    <3> QED BY ONLY <3>1, <3>2
  <2>2. ASSUME NEW s \in Segments(n) PROVE FilledAt(f, l, s) \in SUBSET Seq(T)
    <3>1. /\ SmallerLoop(V, n, FirstLeft(l, s)) /\ SmallerLoop(V, n, SecondLeft(l, s))
          /\ SmallerLoop(V, n, ThirdLeft(l, s))
      BY <1>2, LoopsLeft
    <3>2. \A cut : /\ LeftOf(f, cut, FirstLeft(l, s)) \in SUBSET Seq(T)
                   /\ LeftOf(f, cut, SecondLeft(l, s)) \in SUBSET Seq(T)
                   /\ LeftOf(f, cut, ThirdLeft(l, s)) \in SUBSET Seq(T)
      <4>1. f[FirstLeft(l, s)] \in SUBSET Seq(T) /\ f[SecondLeft(l, s)] \in SUBSET Seq(T)
            /\ f[ThirdLeft(l, s)] \in SUBSET Seq(T)
        BY <1>1, <1>2, <3>1 DEF TypedBelow, SmallerLoop
      <4> QED BY <1>3, <4>1 DEF LeftOf
    <3>3. PICK i, j, a, b : i = s[1] /\ j = s[2] /\ a = 1 /\ b = 2
      OBVIOUS
    <3>4. i \in 3 .. n /\ j \in 4 .. n /\ i < j
      BY <3>3 DEF Segments
    <3>5. /\ a \in DOMAIN l /\ b \in DOMAIN l /\ i \in DOMAIN l /\ j \in DOMAIN l
          /\ a # j /\ a # i /\ a # b /\ j # i /\ j # b /\ i # b
      BY <1>2, <3>3, <3>4
    <3>6. <<l[a], l[j], l[i], l[b]>> \in T
      BY <1>1, <3>5, LoopQuad
    <3>7. PICK q : q = <<l[1], l[s[2]], l[s[1]], l[2]>>
      OBVIOUS
    <3>8. q \in T
      BY <3>3, <3>6, <3>7
    <3>9. PICK A, B, C : /\ A = LeftOf(f, s[1] > 3, FirstLeft(l, s))
                         /\ B = LeftOf(f, s[2] > s[1] + 1, SecondLeft(l, s))
                         /\ C = LeftOf(f, s[2] < Len(l), ThirdLeft(l, s))
      OBVIOUS
    <3>10. A \in SUBSET Seq(T) /\ B \in SUBSET Seq(T) /\ C \in SUBSET Seq(T)
      BY <3>2, <3>9
    <3>11. FilledWith(q, A, B, C) \in SUBSET Seq(T)
      BY ONLY <3>8, <3>10, FilledWithTyped
    <3> QED BY ONLY <3>7, <3>9, <3>11 DEF FilledAt
  <2> QED BY <1>1, <2>1, <2>2
<1> QED BY <1>2, <1>4, <1>5, <1>6

LEMMA FillingsTyped ==
  ASSUME NEW l \in SimpleLoops
  PROVE  Fillings[l] \in SUBSET Seq(Quads(DOMAIN Vset))
<1>1. PICK V, S, T, W : V = DOMAIN Vset /\ S = Loops(V) /\ T = SUBSET Seq(Quads(V)) /\ W = [S -> T]
  OBVIOUS
<1>2. S = SimpleLoops
  BY <1>1 DEF SimpleLoops, Loops
<1>3. PICK m : m = [r \in S |-> Len(r)]
  OBVIOUS
<1>4. m \in [S -> Nat]
  <2>1. \A r \in S : Len(r) \in Nat
    BY <1>1 DEF Loops
  <2> QED BY <1>3, <2>1
<1>5. PICK up : up = [f \in W |-> [r \in S |-> FilledBy(f, r)]]
  OBVIOUS
<1>6. \A f \in W : \A r \in S : FilledBy(f, r) \in T
  <2> SUFFICES ASSUME NEW f \in W, NEW r \in S PROVE FilledBy(f, r) \in T
    OBVIOUS
  <2>1. TypedBelow(V, Len(r), f)
    BY <1>1 DEF TypedBelow
  <2> QED BY <1>1, <2>1, FilledTyped
<1>7. up \in [W -> W]
  BY <1>1, <1>5, <1>6
<1>8. \A x \in S : \A f, g \in W :
        (\A y \in S : m[y] < m[x] => f[y] = g[y]) => up[f][x] = up[g][x]
  <2> SUFFICES ASSUME NEW x \in S, NEW f \in W, NEW g \in W, \A y \in S : m[y] < m[x] => f[y] = g[y]
               PROVE  up[f][x] = up[g][x]
    OBVIOUS
  <2>1. AgreeBelow(V, Len(x), f, g)
    BY <1>1, <1>3 DEF AgreeBelow
  <2>2. FilledBy(f, x) = FilledBy(g, x)
    BY <1>1, <2>1, FilledSame
  <2> QED BY <1>5, <2>2
<1>9. ByMeasure(S, T, W, m, up)
  <2>1. T # {}
    BY <1>1
  <2> QED BY <1>1, <1>4, <1>7, <1>8, <2>1 DEF ByMeasure
<1>10. PICK fill \in W : fill = up[fill]
  BY <1>9, RecursionByMeasure
<1> DEFINE Body(h) == [r \in SimpleLoops |-> FilledBy(h, r)]
<1>11. fill = Body(fill)
  BY <1>2, <1>5, <1>10
<1> DEFINE U == CHOOSE h : h = Body(h)
<1>12. U = Body(U)
  <2> HIDE DEF Body
  <2> QED BY <1>11
<1>13. Fillings = U
  BY DEF Fillings
<1>14. \A r \in S : U[r] = FilledBy(U, r)
  <2> HIDE DEF U
  <2> QED BY <1>2, <1>12
<1> HIDE DEF U, Body
<1>15. \A r \in S : U[r] \in T
  <2> DEFINE Bad == {n \in Nat : \E r \in S : Len(r) = n /\ U[r] \notin T}
  <2> SUFFICES ASSUME NEW x \in S, U[x] \notin T PROVE FALSE
    OBVIOUS
  <2>1. Len(x) \in Bad
    BY <1>1 DEF Loops
  <2>2. PICK n \in Bad : \A k \in Bad : n <= k
    <3>1. Bad \in SUBSET Nat
      OBVIOUS
    <3> HIDE DEF Bad
    <3> QED BY <2>1, <3>1, LeastNatural
  <2>3. PICK r \in S : Len(r) = n /\ U[r] \notin T
    BY <2>2
  <2>4. \A y \in S : Len(y) < n => U[y] \in T
    <3> SUFFICES ASSUME NEW y \in S, Len(y) < n, U[y] \notin T PROVE FALSE
      OBVIOUS
    <3>1. Len(y) \in Bad
      BY <1>1 DEF Loops
    <3> QED BY <2>2, <3>1
  <2>5. TypedBelow(V, Len(r), U)
    BY <1>1, <2>3, <2>4 DEF TypedBelow
  <2>6. FilledBy(U, r) \in T
    BY <1>1, <2>5, FilledTyped
  <2> QED BY <1>14, <2>3, <2>6
<1> QED BY <1>1, <1>2, <1>13, <1>15

(***************************************************************************)
(* Filling holes: a boundary is cut into loops, which are filled in turn.  *)
(***************************************************************************)
LEMMA AmongIsLoop ==
  ASSUME NEW V, NEW s \in Seq(V), NEW met
  PROVE  Among(s, met) \in Loops(V)
<1>1. PICK S : S = {k \in DOMAIN s : met[s[k]] # 0 /\ \A l \in 1 .. (k - 1) : s[l] # s[k]}
  OBVIOUS
<1>2. PICK r : r = Among(s, met)
  OBVIOUS
<1>3. r = Chosen(s, S) /\ S \subseteq DOMAIN s
  BY <1>1, <1>2 DEF Among
<1>4. /\ r \in Seq(V) /\ Len(r) = Cardinality(S)
      /\ \A i \in S : r[Rank(S, i)] = s[i]
      /\ \A p \in 1 .. Cardinality(S) : \E i \in S : Rank(S, i) = p
  BY <1>3, ChosenIs
<1>5. \A i, j \in S : s[i] = s[j] => i = j
  <2> SUFFICES ASSUME NEW i \in S, NEW j \in S, s[i] = s[j], i # j PROVE FALSE
    OBVIOUS
  <2>1. i \in Int /\ j \in Int /\ 1 <= i /\ 1 <= j
    BY <1>3
  <2>2. i \in 1 .. (j - 1) \/ j \in 1 .. (i - 1)
    BY <2>1
  <2>3. (\A l \in 1 .. (i - 1) : s[l] # s[i]) /\ (\A l \in 1 .. (j - 1) : s[l] # s[j])
    BY <1>1
  <2> QED BY <2>2, <2>3
<1>6. IsInjective(r)
  <2> SUFFICES ASSUME NEW a \in DOMAIN r, NEW b \in DOMAIN r, r[a] = r[b] PROVE a = b
    BY DEF IsInjective
  <2>1. a \in 1 .. Cardinality(S) /\ b \in 1 .. Cardinality(S)
    BY <1>4
  <2>2. PICK i \in S : Rank(S, i) = a
    BY <1>4, <2>1
  <2>3. PICK j \in S : Rank(S, j) = b
    BY <1>4, <2>1
  <2>4. i = j
    BY <1>4, <1>5, <2>2, <2>3
  <2> QED BY <2>2, <2>3, <2>4
<1> QED BY <1>2, <1>4, <1>6 DEF Loops

LEMMA PieceIsLoop ==
  ASSUME NEW V, NEW loop \in Seq(V), NEW i \in DOMAIN loop, NEW met, met[loop[i]] \in Nat, met[loop[i]] # 0
  PROVE  Piece(loop, i, met) \in Loops(V)
<1>1. PICK j, n : j = met[loop[i]] /\ n = Len(loop)
  OBVIOUS
<1>2. j \in Nat /\ j # 0 /\ n \in Nat /\ i \in 1 .. n
  BY <1>1
<1>3. CASE i - j > 3 /\ (i - j) % 2 = 0
  <2>1. PICK a, b : a = j /\ b = i - 1
    OBVIOUS
  <2>2. a \in Int /\ b \in Int /\ 1 <= a /\ b <= n
    BY <1>2, <2>1
  <2>3. \A k \in a .. b : loop[k] \in V
    BY <1>1, <2>2
  <2>4. SubSeq(loop, a, b) \in Seq(V)
    BY <2>2, <2>3, SubSeqProperties
  <2>5. Among(SubSeq(loop, a, b), met) \in Loops(V)
    BY <2>4, AmongIsLoop
  <2> QED BY <1>1, <1>3, <2>1, <2>5 DEF Piece
<1>4. CASE ~ (i - j > 3 /\ (i - j) % 2 = 0)
  <2>1. <<>> \in Loops(V)
    BY DEF Loops, IsInjective
  <2> QED BY <1>1, <1>4, <2>1 DEF Piece
<1> QED BY <1>3, <1>4

(* The pieces so far, and where the vertices were met.                       *)
VisitState(V, n) == [pieces : Seq(Loops(V)), met : [V -> 0 .. n]]

LEMMA VisitTyped ==
  ASSUME NEW loop \in Seq(DOMAIN Vset)
  PROVE  Visit(loop) \in [(1 .. Len(loop)) \X VisitState(DOMAIN Vset, Len(loop))
                            -> VisitState(DOMAIN Vset, Len(loop))]
<1>1. PICK V, n, S : V = DOMAIN Vset /\ n = Len(loop) /\ S = VisitState(V, n)
  OBVIOUS
<1>2. loop \in Seq(V) /\ n \in Nat /\ DOMAIN loop = 1 .. n
  BY <1>1
<1>3. SimpleLoops = Loops(V)
  BY <1>1 DEF SimpleLoops, Loops
<1> DEFINE After(x) ==
      LET i == x[1]
          met == x[2].met
          piece == Piece(loop, i, met)
          met_i == [met EXCEPT ![loop[i]] = i]
      IN  IF met[loop[i]] = 0 THEN [x[2] EXCEPT !.met = met_i]
          ELSE [pieces |-> Append(x[2].pieces, piece),
                met |-> [v \in DOMAIN met |->
                           IF v # loop[i] /\ Contains(piece, v) THEN 0 ELSE met_i[v]]]
<1>4. Visit(loop) = [x \in (1 .. n) \X S |-> After(x)]
  BY <1>1, <1>2, <1>3 DEF Visit, VisitState
<1>5. ASSUME NEW x \in (1 .. n) \X S PROVE After(x) \in S
  <2>1. PICK i, met, pieces : i = x[1] /\ met = x[2].met /\ pieces = x[2].pieces
    OBVIOUS
  <2>2. i \in 1 .. n /\ met \in [V -> 0 .. n] /\ pieces \in Seq(Loops(V)) /\ x[2] \in S
    BY <1>1, <2>1 DEF VisitState
  <2>3. loop[i] \in V
    BY <1>2, <2>2
  <2>4. PICK piece, met_i : piece = Piece(loop, i, met) /\ met_i = [met EXCEPT ![loop[i]] = i]
    OBVIOUS
  <2>5. met_i \in [V -> 0 .. n]
    BY <1>2, <2>2, <2>3, <2>4
  <2>6. After(x) = IF met[loop[i]] = 0 THEN [x[2] EXCEPT !.met = met_i]
                   ELSE [pieces |-> Append(pieces, piece),
                         met |-> [v \in DOMAIN met |->
                                    IF v # loop[i] /\ Contains(piece, v) THEN 0 ELSE met_i[v]]]
    BY <2>1, <2>4
  <2> HIDE DEF After
  <2>7. CASE met[loop[i]] = 0
    BY <1>1, <2>2, <2>5, <2>6, <2>7 DEF VisitState
  <2>8. CASE met[loop[i]] # 0
    <3>1. met[loop[i]] \in Nat
      BY <1>2, <2>2, <2>3
    <3>2. piece \in Loops(V)
      BY <1>2, <2>2, <2>4, <2>8, <3>1, PieceIsLoop
    <3>3. Append(pieces, piece) \in Seq(Loops(V))
      BY <2>2, <3>2
    <3>4. PICK new : new = [v \in DOMAIN met |-> IF v # loop[i] /\ Contains(piece, v) THEN 0 ELSE met_i[v]]
      OBVIOUS
    <3>5. new \in [V -> 0 .. n]
      <4>1. DOMAIN met = V /\ 0 \in 0 .. n
        BY <1>2, <2>2
      <4> QED BY ONLY <2>5, <3>4, <4>1
    <3>6. After(x) = [pieces |-> Append(pieces, piece), met |-> new]
      BY <2>6, <2>8, <3>4
    <3> QED BY <1>1, <3>3, <3>5, <3>6 DEF VisitState
  <2> QED BY <2>7, <2>8
<1>6. Visit(loop) \in [(1 .. n) \X S -> S]
  <2> HIDE DEF After
  <2> QED BY <1>4, <1>5
<1> QED BY <1>1, <1>6

LEMMA PiecesTyped ==
  ASSUME NEW loop \in Seq(DOMAIN Vset)
  PROVE  Pieces(loop) \in Seq(SimpleLoops)
<1>1. PICK V, m, S, step : /\ V = DOMAIN Vset /\ m = Len(loop) /\ S = VisitState(V, m)
                           /\ step = Visit(loop)
  OBVIOUS
<1>2. loop \in Seq(V) /\ m \in Nat
  BY <1>1
<1>3. SimpleLoops = Loops(V)
  BY <1>1 DEF SimpleLoops, Loops
<1>4. PICK c : c = [pieces |-> <<>>, met |-> [v \in V |-> 0]]
  OBVIOUS
<1>5. c \in S
  <2>1. [v \in V |-> 0] \in [V -> 0 .. m] /\ <<>> \in Seq(Loops(V))
    BY <1>2
  <2> QED BY <1>1, <1>4, <2>1 DEF VisitState
<1>6. IterateTyped(m, S, c, step)
  BY <1>1, <1>2, <1>5, VisitTyped DEF IterateTyped
<1>7. PICK g \in [0 .. m -> S] : g[0] = c /\ \A k \in 1 .. m : g[k] = step[<<k, g[k - 1]>>]
  <2>1. PICK g : Iterates(g, m, S, c, step)
    BY <1>6, IterateRecursion
  <2> QED BY <2>1 DEF Iterates
<1> DEFINE Body(h) == [i \in 0 .. Len(loop) |->
                         IF i = 0 THEN [pieces |-> <<>>, met |-> [v \in DOMAIN Vset |-> 0]]
                         ELSE Visit(loop)[<<i, h[i - 1]>>]]
<1>8. g = Body(g)
  <2>1. Body(g) = [k \in 0 .. m |-> IF k = 0 THEN c ELSE step[<<k, g[k - 1]>>]]
    BY <1>1, <1>4
  <2>2. g = [k \in 0 .. m |-> g[k]]
    OBVIOUS
  <2>3. \A k \in 0 .. m : k = 0 \/ k \in 1 .. m
    BY <1>2
  <2>4. g = [k \in 0 .. m |-> IF k = 0 THEN c ELSE step[<<k, g[k - 1]>>]]
    BY <1>7, <2>2, <2>3
  <2> HIDE DEF Body
  <2> QED BY <2>1, <2>4
<1> DEFINE U == CHOOSE h : h = Body(h)
<1>9. U = Body(U)
  <2> HIDE DEF Body
  <2> QED BY <1>8
<1>10. Pieces(loop) = LET rest == Among(loop, U[Len(loop)].met)
                      IN  IF Len(rest) >= 3 THEN Append(U[Len(loop)].pieces, rest) ELSE U[Len(loop)].pieces
  BY DEF Pieces
<1>11. U[0] = c /\ \A k \in 1 .. m : U[k] = step[<<k, U[k - 1]>>]
  <2> HIDE DEF U
  <2>1. \A k \in 0 .. m : U[k] = IF k = 0 THEN c ELSE step[<<k, U[k - 1]>>]
    BY <1>1, <1>4, <1>9
  <2>2. 0 \in 0 .. m /\ \A k \in 1 .. m : k \in 0 .. m /\ k # 0
    BY <1>2
  <2> QED BY <2>1, <2>2
<1> HIDE DEF U, Body
<1>12. \A k \in 0 .. m : U[k] \in S
  <2> DEFINE Bad == {k \in 0 .. m : U[k] \notin S}
  <2> SUFFICES ASSUME Bad # {} PROVE FALSE
    OBVIOUS
  <2>1. PICK k \in Bad : \A j \in Bad : k <= j
    <3>1. Bad \in SUBSET Nat
      OBVIOUS
    <3> HIDE DEF Bad
    <3> QED BY <3>1, LeastNatural
  <2>2. k \in 1 .. m
    BY <1>5, <1>11, <2>1
  <2>3. k - 1 \in 0 .. m /\ k - 1 < k /\ k - 1 \in Nat
    BY <1>2, <2>2
  <2>9. U[k - 1] \in S
    BY <2>1, <2>3
  <2>4. step[<<k, U[k - 1]>>] \in S
    BY <1>6, <2>2, <2>9 DEF IterateTyped
  <2> QED BY <1>11, <2>1, <2>2, <2>4
<1>13. U[m] \in S
  BY <1>2, <1>12
<1>14. PICK pieces, rest : pieces = U[m].pieces /\ rest = Among(loop, U[m].met)
  OBVIOUS
<1>15. pieces \in Seq(Loops(V)) /\ rest \in Loops(V)
  BY <1>1, <1>2, <1>13, <1>14, AmongIsLoop DEF VisitState
<1>16. Pieces(loop) = IF Len(rest) >= 3 THEN Append(pieces, rest) ELSE pieces
  BY <1>1, <1>10, <1>14
<1> QED BY <1>3, <1>15, <1>16

LEMMA AllFillingsTyped ==
  ASSUME NEW pieces \in Seq(SimpleLoops)
  PROVE  AllFillings(pieces) \in SUBSET Seq(Quads(DOMAIN Vset))
<1>1. PICK Q, T, m : Q = Quads(DOMAIN Vset) /\ T = SUBSET Seq(Q) /\ m = Len(pieces)
  OBVIOUS
<1>2. m \in Nat /\ {<<>>} \in T
  BY <1>1
<1> DEFINE Rest(k) == pieces[Len(pieces) - k + 1]
           Both(A, B) == {s[1] \o s[2] : s \in A \X B}
<1>3. \A k \in 1 .. m : Fillings[Rest(k)] \in T
  <2> SUFFICES ASSUME NEW k \in 1 .. m PROVE Fillings[Rest(k)] \in T
    OBVIOUS
  <2>1. m - k + 1 \in 1 .. m
    BY <1>2
  <2>2. Rest(k) \in SimpleLoops
    BY <1>1, <2>1
  <2> HIDE DEF Rest
  <2> QED BY <1>1, <2>2, FillingsTyped
<1>4. \A A, B \in T : Both(A, B) \in T
  <2> SUFFICES ASSUME NEW A \in T, NEW B \in T, NEW z \in Both(A, B) PROVE z \in Seq(Q)
    BY <1>1
  <2>1. PICK s \in A \X B : z = s[1] \o s[2]
    OBVIOUS
  <2>2. PICK a, b : a = s[1] /\ b = s[2]
    OBVIOUS
  <2>3. a \in Seq(Q) /\ b \in Seq(Q) /\ z = a \o b
    BY <1>1, <2>1, <2>2
  <2> QED BY <2>3, ConcatProperties
<1> HIDE DEF Both
<1>5. PICK step : step = [p \in (1 .. m) \X T |-> IF Rest(p[1]) = <<>> THEN {<<>>}
                                                  ELSE Both(Fillings[Rest(p[1])], p[2])]
  OBVIOUS
<1>6. IterateTyped(m, T, {<<>>}, step)
  <2> HIDE DEF Rest
  <2>1. \A p \in (1 .. m) \X T :
          (IF Rest(p[1]) = <<>> THEN {<<>>} ELSE Both(Fillings[Rest(p[1])], p[2])) \in T
    BY <1>2, <1>3, <1>4
  <2> QED BY <1>2, <1>5, <2>1 DEF IterateTyped
<1>7. PICK g \in [0 .. m -> T] : g[0] = {<<>>} /\ \A k \in 1 .. m : g[k] = step[<<k, g[k - 1]>>]
  <2>1. PICK g : Iterates(g, m, T, {<<>>}, step)
    BY <1>6, IterateRecursion
  <2> QED BY <2>1 DEF Iterates
<1> DEFINE Body(h) == [k \in 0 .. m |-> IF k = 0 \/ Rest(k) = <<>> THEN {<<>>}
                                        ELSE Both(Fillings[Rest(k)], h[k - 1])]
<1>8. g = Body(g)
  <2> HIDE DEF Rest
  <2>1. \A k \in 1 .. m : g[k] = IF Rest(k) = <<>> THEN {<<>>} ELSE Both(Fillings[Rest(k)], g[k - 1])
    <3> SUFFICES ASSUME NEW k \in 1 .. m
                 PROVE  g[k] = IF Rest(k) = <<>> THEN {<<>>} ELSE Both(Fillings[Rest(k)], g[k - 1])
      OBVIOUS
    <3>1. g[k - 1] \in T
      <4>1. k - 1 \in 0 .. m
        BY <1>2
      <4> QED BY <4>1
    <3>2. \A x \in T : step[<<k, x>>] = IF Rest(k) = <<>> THEN {<<>>} ELSE Both(Fillings[Rest(k)], x)
      BY <1>5
    <3> QED BY <1>7, <3>1, <3>2
  <2>2. \A k \in 0 .. m : g[k] = Body(g)[k]
    <3> SUFFICES ASSUME NEW k \in 0 .. m PROVE g[k] = Body(g)[k]
      OBVIOUS
    <3>1. k = 0 \/ (k \in 1 .. m /\ k # 0)
      BY <1>2
    <3> QED BY <1>7, <2>1, <3>1
  <2>3. g = [k \in 0 .. m |-> g[k]] /\ Body(g) = [k \in 0 .. m |-> Body(g)[k]]
    OBVIOUS
  <2> HIDE DEF Body
  <2> QED BY <2>2, <2>3
<1> DEFINE U == CHOOSE h : h = Body(h)
<1>9. U = Body(U)
  <2> HIDE DEF Body
  <2> QED BY <1>8
<1>10. AllFillings(pieces) = U[m]
  BY <1>1 DEF AllFillings, Both
<1>11. U[0] = {<<>>} /\ \A k \in 1 .. m : U[k] = IF Rest(k) = <<>> THEN {<<>>} ELSE Both(Fillings[Rest(k)], U[k - 1])
  <2> HIDE DEF U, Rest
  <2>1. 0 \in 0 .. m /\ \A k \in 1 .. m : k \in 0 .. m /\ k # 0
    BY <1>2
  <2>2. \A k \in 0 .. m : U[k] = Body(U)[k]
    BY <1>9
  <2> QED BY <2>1, <2>2
<1> HIDE DEF U, Body, Rest
<1>12. \A k \in 0 .. m : U[k] \in T
  <2> DEFINE Bad == {k \in 0 .. m : U[k] \notin T}
  <2> SUFFICES ASSUME Bad # {} PROVE FALSE
    OBVIOUS
  <2>1. PICK k \in Bad : \A j \in Bad : k <= j
    <3>1. Bad \in SUBSET Nat
      OBVIOUS
    <3> HIDE DEF Bad
    <3> QED BY <3>1, LeastNatural
  <2>2. k \in 1 .. m
    <3>1. U[0] \in T
      BY <1>2, <1>11
    <3>2. k \in 0 .. m /\ k # 0
      BY <2>1, <3>1
    <3> QED BY <1>2, <3>2
  <2>3. U[k - 1] \in T
    <3>1. k - 1 \in 0 .. m /\ k - 1 < k /\ k - 1 \in Nat
      BY <1>2, <2>2
    <3> QED BY <2>1, <3>1
  <2>4. U[k] \in T
    BY <1>2, <1>3, <1>4, <1>11, <2>2, <2>3
  <2> QED BY <2>1, <2>4
<1>13. U[m] \in T
  BY <1>2, <1>12
<1> QED BY <1>1, <1>10, <1>13

(***************************************************************************)
(* A hole is filled, or left: the lists stay those of the mesh that the    *)
(* faces added so far belong to.                                           *)
(***************************************************************************)
LEMMA FixHoleStep == RepairInv /\ FixHole => RepairInv'
<1> SUFFICES ASSUME RepairInv, FixHole PROVE RepairInv'
  OBVIOUS
<1>1. /\ pc = "holes" /\ pc' = pc /\ Undetected # {} /\ E2E' = E2E /\ Vset' = Vset
      /\ marks' = marks /\ erased' = erased /\ update' = update
  BY DEF FixHole, sweep
<1>2. PICK edges : /\ edges = LoopEdges(Least(Undetected))
                   /\ IF Len(edges) >= LongHole
                      THEN UNCHANGED F
                      ELSE \E pieces \in {Pieces([i \in DOMAIN edges |-> From(F, edges[i])])} :
                             \E quads \in AllFillings(pieces) : F' = AllAdded(F, quads)
  BY DEF FixHole
<1>3. PICK V : V = DOMAIN Vset
  OBVIOUS
<1>4. Numbers /\ Mesh(F, V)
  BY <1>1, <1>3 DEF RepairInv, AtHoles
<1>5. PICK M : Mesh(M, V) /\ E2E = Opposites(M) /\ Len(M) <= Len(F)
  BY <1>1, <1>3 DEF RepairInv, AtHoles
<1>6. /\ M \in Seq([Corner -> V]) /\ F \in Seq([Corner -> V]) /\ DOMAIN E2E = EdgesOf(M)
      /\ Len(M) \in Nat /\ Len(F) \in Nat
  <2>1. M \in Seq([Corner -> V]) /\ F \in Seq([Corner -> V])
    BY <1>4, <1>5 DEF Mesh
  <2>2. DOMAIN E2E = EdgesOf(M)
    BY <1>5 DEF Opposites
  <2> QED BY <2>1, <2>2
<1>7. EdgesOf(M) \subseteq EdgesOf(F)
  BY <1>5, <1>6, MoreEdges
<1>8. edges \in Seq(EdgesOf(F))
  <2>1. PICK e : e = Least(Undetected)
    OBVIOUS
  <2>2. Undetected \subseteq EdgesOf(M)
    BY <1>6 DEF Undetected
  <2>3. e \in Undetected
    BY <1>1, <1>6, <2>1, <2>2, LeastIs
  <2>4. e \in EdgesOf(M) /\ E2E[e] = None
    BY <2>2, <2>3 DEF Undetected
  <2>5. edges \in Seq(EdgesOf(M))
    BY <1>2, <1>5, <2>1, <2>4, LoopTyped
  <2> QED BY <1>7, <2>5
<1>9. Mesh(F', V) /\ Len(F) <= Len(F') /\ Len(F') \in Nat
  <2>1. CASE Len(edges) >= LongHole
    BY <1>2, <1>4, <1>6, <2>1
  <2>2. CASE ~ (Len(edges) >= LongHole)
    <3>1. PICK loop : loop = [i \in DOMAIN edges |-> From(F, edges[i])]
      OBVIOUS
    <3>2. loop \in Seq(V)
      <4>1. PICK m \in Nat : m = Len(edges) /\ DOMAIN edges = 1 .. m
        BY <1>8
      <4>2. \A i \in 1 .. m : edges[i] \in EdgesOf(F)
        BY <1>8, <4>1
      <4>3. \A e \in EdgesOf(F) : From(F, e) \in V
        BY <1>6, FromTyped
      <4>4. \A i \in 1 .. m : From(F, edges[i]) \in V
        BY <4>2, <4>3
      <4> QED BY <3>1, <4>1, <4>4
    <3>3. PICK pieces : pieces = Pieces(loop)
      OBVIOUS
    <3>4. pieces \in Seq(SimpleLoops)
      BY <1>3, <3>2, <3>3, PiecesTyped
    <3>5. PICK quads \in AllFillings(pieces) : F' = AllAdded(F, quads)
      BY <1>2, <2>2, <3>1, <3>3
    <3>6. quads \in Seq(Quads(V))
      BY <1>3, <3>4, <3>5, AllFillingsTyped
    <3>7. Mesh(F', V) /\ Len(F) <= Len(F')
      BY <1>4, <3>5, <3>6, AllAddedKeeps
    <3> QED BY <3>7 DEF Mesh
  <2> QED BY <2>1, <2>2
<1>10. AtHoles'
  <2>1. Len(M) <= Len(F')
    BY <1>5, <1>6, <1>9
  <2>2. Mesh(M, DOMAIN Vset') /\ E2E' = Opposites(M) /\ Len(M) <= Len(F')
    BY <1>1, <1>3, <1>5, <2>1
  <2>3. Mesh(F', DOMAIN Vset')
    BY <1>1, <1>3, <1>9
  <2> QED BY <2>2, <2>3 DEF AtHoles
<1>11. Numbers'
  BY <1>1, <1>4 DEF Numbers
<1> QED BY <1>1, <1>10, <1>11 DEF RepairInv, AtFirst, AtTwo, AtFans, AtHigh, AtZero, AtDone

(***************************************************************************)
(* All passes.                                                             *)
(***************************************************************************)
LEMMA RepairStutters == RepairInv /\ UNCHANGED vars => RepairInv'
<1> SUFFICES ASSUME RepairInv, UNCHANGED vars PROVE RepairInv'
  OBVIOUS
<1>1. /\ pc' = pc /\ F' = F /\ E2E' = E2E /\ V2E' = V2E /\ Vset' = Vset /\ detected' = detected
      /\ marks' = marks /\ erased' = erased /\ valences' = valences /\ todo' = todo
      /\ update' = update /\ before' = before
  BY DEF vars
<1>2. Numbers' /\ AtFirst'
  BY <1>1 DEF RepairInv, Numbers, AtFirst
<1>3. AtHoles'
  BY <1>1 DEF RepairInv, AtHoles
<1>4. AtTwo'
  BY <1>1 DEF RepairInv, AtTwo
<1>5. AtFans' /\ AtZero' /\ AtDone'
  BY <1>1 DEF RepairInv, AtFans, AtZero, AtDone
<1>6. AtHigh'
  <2> SUFFICES ASSUME pc = "high" PROVE AtHigh'
    BY <1>1 DEF AtHigh
  <2>1. PICK M, n : Splitting(M, n, F, Len(Vset), marks) /\ Lists(M, n)
    BY DEF RepairInv, AtHigh
  <2>2. \A v : Valence(M, V2E', E2E', v) = Valence(M, V2E, E2E, v)
    BY <1>1
  <2>3. Lists(M, n)'
    BY <1>1, <2>1, <2>2 DEF Lists
  <2>4. Placed(before', Vset', F')
    BY <1>1 DEF RepairInv, AtHigh
  <2>5. Splitting(M, n, F', Len(Vset'), marks')
    BY <1>1, <2>1
  <2> QED BY <2>3, <2>4, <2>5 DEF AtHigh, Lists
<1> QED BY <1>2, <1>3, <1>4, <1>5, <1>6 DEF RepairInv

LEMMA RepairStep == RepairInv /\ [Next]_vars => RepairInv'
<1> SUFFICES ASSUME RepairInv, [Next]_vars PROVE RepairInv'
  OBVIOUS
<1>1. CASE EraseDegenerate
  BY <1>1, DegenerateStep
<1>2. CASE FixHole
  BY <1>2, FixHoleStep
<1>3. CASE HolesFixed
  BY <1>3, HolesStep
<1>4. CASE RemoveTwo
  BY <1>4, RemoveTwoStep
<1>5. CASE EndTwo
  BY <1>5, EndTwoStep
<1>6. CASE SplitFans
  BY <1>6, SplitFansStep
<1>7. CASE FansSplit
  BY <1>7, FansSplitStep
<1>8. CASE SplitHigh
  BY <1>8, SplitHighStep
<1>9. CASE EndHigh
  BY <1>9, EndHighStep
<1>10. CASE RemoveZero
  BY <1>10, RemoveZeroStep
<1>11. CASE UNCHANGED vars
  BY <1>11, RepairStutters
<1> QED BY <1>1, <1>2, <1>3, <1>4, <1>5, <1>6, <1>7, <1>8, <1>9, <1>10, <1>11 DEF Next

(* In each pass the lists are those of some mesh, and what has been done to  *)
(* the faces since is one that this mesh allows.                             *)
THEOREM RepairIsInvariant == Spec => []RepairInv
<1> QED BY InitRepair, RepairStep, PTL DEF Spec

(* FixHoles and FixValence never leave two faces with one directed edge, in  *)
(* whatever order the holes are filled and the vertices treated: quads that  *)
(* would have one are left out, two faces become one only where marks says   *)
(* that no face there has changed since the lists were made, and the faces   *)
(* that a split vertex gives to the new one are all on one side of the two   *)
(* edges it is split along.                                                  *)
THEOREM OrientationIsKept == Spec => []FacesStayOriented
<1>1. RepairInv => FacesStayOriented
  <2> SUFFICES ASSUME RepairInv, pc # "degenerate" PROVE IsOriented(Kept)
    BY DEF FacesStayOriented
  <2>1. Mesh(Kept, DOMAIN Vset)
    BY KeptIsMesh
  <2>2. Kept \in Seq([Corner -> DOMAIN Vset]) /\ Injective(Kept)
    BY <2>1 DEF Mesh
  <2> QED BY <2>2, OrientedMeans
<1> QED BY <1>1, RepairIsInvariant, PTL

(* FixValence's splitting of fans, its splitting of vertices of high valence *)
(* and its removal of vertices without a face move no face, and the faces    *)
(* they add have no area.                                                    *)
THEOREM SplittingIsInPlace == Spec => []SplittingMovesNothing
<1>1. RepairInv => SplittingMovesNothing
  <2> SUFFICES ASSUME RepairInv, pc = "done"
               PROVE  /\ Len(F) >= Len(before)
                      /\ \A i \in DOMAIN F :
                           LET q == [j \in Corner |-> Vset[F[i][j]]]
                           IN  IF i <= Len(before) THEN q = before[i] ELSE q[1] = q[3]
    BY DEF SplittingMovesNothing
  <2>1. Placed(before, Vset, F)
    BY DEF RepairInv, AtDone
  <2>2. Len(F) >= Len(before)
    BY <2>1 DEF Placed
  <2>3. ASSUME NEW i \in DOMAIN F
        PROVE  LET q == [j \in Corner |-> Vset[F[i][j]]]
               IN  IF i <= Len(before) THEN q = before[i] ELSE q[1] = q[3]
    <3>1. PICK q : q = FaceAt(Vset, F[i])
      OBVIOUS
    <3>2. IF i <= Len(before) THEN q = before[i] ELSE q[1] = q[3]
      BY <2>1, <3>1 DEF Placed
    <3>3. q = [j \in Corner |-> Vset[F[i][j]]]
      BY <3>1 DEF FaceAt
    <3> QED BY <3>2, <3>3
  <2> QED BY <2>2, <2>3
<1> QED BY <1>1, RepairIsInvariant, PTL

(* What FixValence leaves is a manifold, on which the extraction of patches  *)
(* relies: every vertex has a face, its faces are one fan that a walk from   *)
(* V2E passes completely, and no face has a vertex twice.                    *)
THEOREM RepairLeavesManifold == Spec => []RepairedIsManifold
<1>1. RepairInv => RepairedIsManifold
  <2> SUFFICES ASSUME RepairInv, pc = "done"
               PROVE  /\ \A i \in DOMAIN F : IsSimple(F[i])
                      /\ \A v \in DOMAIN Vset :
                           V2E[v] # None /\ ToSet(Forward(E2E, V2E[v])) = Leaving(F, v)
    BY DEF RepairedIsManifold
  <2>1. PICK V : V = DOMAIN Vset
    OBVIOUS
  <2>2. /\ Mesh(F, V) /\ OneFanEach(F) /\ E2E = Opposites(F) /\ V2E = Starts(F, E2E, V)
        /\ \A v \in V : Leaving(F, v) # {}
    BY <2>1 DEF RepairInv, AtDone
  <2>3. \A i \in DOMAIN F : IsSimple(F[i])
    BY <2>2, SimpleFacesMesh DEF Mesh
  <2>4. ASSUME NEW v \in V
        PROVE  V2E[v] # None /\ ToSet(Forward(E2E, V2E[v])) = Leaving(F, v)
    <3>1. PICK s : s = Start(F, Opposites(F), v)
      OBVIOUS
    <3>2. V2E[v] = s
      BY <2>2, <3>1 DEF Starts
    <3>3. s \in Leaving(F, v) /\ ToSet(Forward(Opposites(F), s)) = Leaving(F, v)
      BY <2>2, <3>1, ManifoldIs
    <3>4. s # None
      BY <3>3, NoneIsNoEdge DEF Leaving
    <3> QED BY <2>2, <3>2, <3>3, <3>4
  <2> QED BY <2>1, <2>3, <2>4
<1> QED BY <1>1, RepairIsInvariant, PTL
=============================================================================
