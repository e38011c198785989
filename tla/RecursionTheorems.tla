-------------------------- MODULE RecursionTheorems --------------------------
(***************************************************************************)
(* Facts about recursive functions, sums over finite sets and forests, for *)
(* the proofs about the lists and fans of DirectEdge, the flows of         *)
(* ECMaxFlow, the weights of GraphLevels, the equations of                 *)
(* IntegerConstraints, the trees of OrientTree, the fans of EdgeHierarchy, *)
(* the lines of PatchLines and the walks and fillings of QuadRepair.       *)
(* The provers cannot use an induction theorem whose parameter is an       *)
(* operator, so every induction is written here as the choice of a         *)
(* minimal counterexample in a well-founded order.                         *)
(***************************************************************************)
EXTENDS Integers, FiniteSets, FiniteSetsExt, FiniteSetTheorems,
        WellFoundedInduction, TLAPS

(* Every non-empty set of naturals has a least element.                      *)
LEMMA LeastNatural ==
  ASSUME NEW T \in SUBSET Nat, T # {}
  PROVE  \E n \in T : \A m \in T : n <= m
  <1>1. PICK n \in T : \A m \in T : ~(<<m, n>> \in OpToRel(<, Nat))
    BY WFMin, NatLessThanWellFounded
  <1>2. \A m \in T : ~(m < n)
    BY <1>1 DEF OpToRel
  <1>. QED  BY <1>2

(* Every non-empty set of finite sets has a minimal element.                 *)
LEMMA MinimalFiniteSet ==
  ASSUME NEW U, NEW T \in SUBSET FiniteSubsetsOf(U), T # {}
  PROVE  \E s \in T : \A t \in T : ~(t \subseteq s /\ t # s)
  <1>1. PICK s \in T : \A t \in T : ~(<<t, s>> \in StrictSubsetOrdering(U))
    BY WFMin, FS_StrictSubsetOrderingWellFounded
  <1>2. \A t \in T : t \in SUBSET U
    BY DEF FiniteSubsetsOf
  <1>. QED  BY <1>1, <1>2 DEF StrictSubsetOrdering

-----------------------------------------------------------------------------
(* g solves, on D, the recursion over pred that starts with start at the     *)
(* elements of B.                                                            *)
Solves(g, D, B, pred, start, step) ==
  \A x \in D : IF x \in B THEN g[x] = start[x]
               ELSE pred[x] \in D /\ g[x] = step[<<x, g[pred[x]]>>]

(* Recursion along a well-founded relation, through one predecessor.         *)
LEMMA Recursion ==
  ASSUME NEW S, NEW V, NEW R, IsWellFoundedOn(R, S), NEW B, NEW pred,
         NEW start \in [S -> V], NEW step \in [S \X V -> V],
         \A x \in S \ B : pred[x] \in S /\ <<pred[x], x>> \in R
  PROVE  \E f \in [S -> V] : Solves(f, S, B, pred, start, step)
  <1> DEFINE Good(g, D) == Solves(g, D, B, pred, start, step)
  <1>1. ASSUME NEW D \in SUBSET S, NEW E \in SUBSET S, NEW g, NEW h, Good(g, D), Good(h, E)
        PROVE  \A x \in D \intersect E : g[x] = h[x]
    <2> DEFINE T == {x \in D \intersect E : g[x] # h[x]}
    <2> SUFFICES ASSUME T # {} PROVE FALSE
      OBVIOUS
    <2>1. PICK x \in T : \A y \in T : ~(<<y, x>> \in R)
      <3>1. T \subseteq S
        OBVIOUS
      <3> HIDE DEF T
      <3>. QED  BY <3>1, WFMin
    <2>2. x \notin B
      BY <1>1 DEF Solves
    <2>3. pred[x] \in D \intersect E /\ <<pred[x], x>> \in R
      BY <1>1, <2>2 DEF Solves
    <2>4. g[pred[x]] = h[pred[x]]
      BY <2>1, <2>3
    <2>. QED  BY <1>1, <2>2, <2>4 DEF Solves
  <1> DEFINE Bad == {x \in S : ~ \E D \in SUBSET S : \E g \in [D -> V] : x \in D /\ Good(g, D)}
  <1>2. Bad = {}
    <2> SUFFICES ASSUME Bad # {} PROVE FALSE
      OBVIOUS
    <2>1. PICK x \in Bad : \A y \in Bad : ~(<<y, x>> \in R)
      <3>1. Bad \subseteq S
        OBVIOUS
      <3> HIDE DEF Bad
      <3>. QED  BY <3>1, WFMin
    <2>2. CASE x \in B
      <3>1. [y \in {x} |-> start[y]] \in [{x} -> V]
        OBVIOUS
      <3>2. Good([y \in {x} |-> start[y]], {x})
        BY <2>2 DEF Solves
      <3>. QED  BY <3>1, <3>2
    <2>3. CASE x \notin B
      <3>1. pred[x] \in S /\ pred[x] \notin Bad
        BY <2>1, <2>3
      <3>2. PICK D \in SUBSET S : \E g \in [D -> V] : pred[x] \in D /\ Good(g, D)
        BY <3>1
      <3>3. PICK g \in [D -> V] : pred[x] \in D /\ Good(g, D)
        BY <3>2
      <3>4. x \notin D
        BY <3>3
      <3> DEFINE E == D \union {x}
                 h == [y \in E |-> IF y = x THEN step[<<x, g[pred[x]]>>] ELSE g[y]]
      <3>5. h \in [E -> V] /\ E \in SUBSET S
        BY <3>3
      <3>6. Good(h, E)
        <4>1. ASSUME NEW y \in D
              PROVE  IF y \in B THEN h[y] = start[y]
                     ELSE pred[y] \in E /\ h[y] = step[<<y, h[pred[y]]>>]
          BY <3>3, <3>4 DEF Solves
        <4>2. pred[x] \in E /\ h[x] = step[<<x, h[pred[x]]>>]
          BY <3>3, <3>4
        <4>. QED  BY <2>3, <4>1, <4>2 DEF Solves
      <3>. QED  BY <3>5, <3>6
    <2>. QED  BY <2>2, <2>3
  <1> DEFINE f == [x \in S |-> CHOOSE t \in V :
                     \E D \in SUBSET S : \E g \in [D -> V] : x \in D /\ Good(g, D) /\ g[x] = t]
  <1>3. ASSUME NEW D \in SUBSET S, NEW g \in [D -> V], Good(g, D), NEW x \in D
        PROVE  f[x] = g[x]
    <2>1. g[x] \in V
      OBVIOUS
    <2>2. \E E \in SUBSET S : \E h \in [E -> V] : x \in E /\ Good(h, E) /\ h[x] = f[x]
      BY <1>3, <2>1
    <2> HIDE DEF f
    <2>. QED  BY <1>1, <1>3, <2>2
  <1>4. f \in [S -> V]
    <2>1. \A x \in S : \E t \in V : \E D \in SUBSET S : \E g \in [D -> V] :
                         x \in D /\ Good(g, D) /\ g[x] = t
      BY <1>2
    <2>. QED  BY <2>1
  <1>5. Good(f, S)
    <2> SUFFICES ASSUME NEW x \in S
                 PROVE  IF x \in B THEN f[x] = start[x]
                        ELSE pred[x] \in S /\ f[x] = step[<<x, f[pred[x]]>>]
      BY DEF Solves
    <2>1. PICK D \in SUBSET S : \E g \in [D -> V] : x \in D /\ Good(g, D)
      BY <1>2
    <2>2. PICK g \in [D -> V] : x \in D /\ Good(g, D)
      BY <2>1
    <2> HIDE DEF f
    <2>3. f[x] = g[x]
      BY <1>3, <2>2
    <2>4. x \notin B => f[pred[x]] = g[pred[x]]
      <3>1. x \notin B => pred[x] \in D
        BY <2>2 DEF Solves
      <3>2. pred[x] \in D => f[pred[x]] = g[pred[x]]
        BY <1>3, <2>2
      <3>. QED  BY <3>1, <3>2
    <2>. QED  BY <2>2, <2>3, <2>4 DEF Solves
  <1>. QED  BY <1>4, <1>5

(* Iterating a function: f[n] is the n-th image of c.                        *)
LEMMA Iteration ==
  ASSUME NEW V, NEW c \in V, NEW step \in [V -> V]
  PROVE  \E f \in [Nat -> V] : \A n \in Nat : f[n] = IF n = 0 THEN c ELSE step[f[n - 1]]
  <1> DEFINE pred == [n \in Nat |-> n - 1]
             start == [n \in Nat |-> c]
             st == [p \in Nat \X V |-> step[p[2]]]
             R == OpToRel(<, Nat)
  <1> HIDE DEF R
  <1>1. start \in [Nat -> V] /\ st \in [Nat \X V -> V]
    OBVIOUS
  <1>2. \A x \in Nat \ {0} : pred[x] \in Nat /\ pred[x] = x - 1 /\ <<pred[x], x>> \in R
    BY DEF OpToRel, R
  <1>3. IsWellFoundedOn(R, Nat)
    BY NatLessThanWellFounded DEF R
  <1>4. /\ \A n \in Nat : start[n] = c
        /\ \A n \in Nat, x \in V : st[<<n, x>>] = step[x]
    OBVIOUS
  <1> HIDE DEF pred, start, st
  <1>5. PICK f \in [Nat -> V] : Solves(f, Nat, {0}, pred, start, st)
    BY <1>1, <1>2, <1>3, Recursion
  <1>6. ASSUME NEW n \in Nat PROVE f[n] = IF n = 0 THEN c ELSE step[f[n - 1]]
    <2>1. CASE n = 0
      BY <1>4, <1>5, <2>1 DEF Solves
    <2>2. CASE n # 0
      <3>1. pred[n] = n - 1 /\ n - 1 \in Nat
        BY <1>2, <2>2
      <3>2. f[n] = st[<<n, f[n - 1]>>]
        BY <1>5, <2>2, <3>1 DEF Solves
      <3>. QED  BY <1>4, <2>2, <3>1, <3>2
    <2>. QED  BY <2>1, <2>2
  <1>. QED  BY <1>6

(* Iterating a function of the step's number too, m times.                   *)
IterateTyped(m, V, c, step) == m \in Nat /\ c \in V /\ step \in [(1 .. m) \X V -> V]

Iterates(f, m, V, c, step) ==
  f \in [0 .. m -> V] /\ f[0] = c /\ \A k \in 1 .. m : f[k] = step[<<k, f[k - 1]>>]

LEMMA IterateRecursion ==
  ASSUME NEW m, NEW V, NEW c, NEW step, IterateTyped(m, V, c, step)
  PROVE  \E f : Iterates(f, m, V, c, step)
  <1>0. m \in Nat /\ c \in V /\ step \in [(1 .. m) \X V -> V]
    BY DEF IterateTyped
  <1> DEFINE P == Nat \X V
             start == <<0, c>>
             st == [p \in P |-> <<p[1] + 1, IF p[1] + 1 \in 1 .. m
                                             THEN step[<<p[1] + 1, p[2]>>] ELSE p[2]>>]
  <1>1. st \in [P -> P]
    <2>1. \A n \in Nat, x \in V : n + 1 \in 1 .. m => step[<<n + 1, x>>] \in V
      BY <1>0
    <2>. QED  BY <2>1
  <1>2. start \in P /\ start[1] = 0 /\ start[2] = c
    BY <1>0
  <1>3. \A n \in Nat, x \in V :
          st[<<n, x>>] = <<n + 1, IF n + 1 \in 1 .. m THEN step[<<n + 1, x>>] ELSE x>>
    OBVIOUS
  <1>3a. \A p \in P : \E n \in Nat, x \in V : p = <<n, x>>
    OBVIOUS
  <1>3b. \A n \in Nat, x \in V : <<n, x>>[1] = n /\ <<n, x>>[2] = x
    OBVIOUS
  <1> HIDE DEF st, P, start
  <1>4. PICK it \in [Nat -> P] :
          \A n \in Nat : it[n] = IF n = 0 THEN start ELSE st[it[n - 1]]
    <2>1. st \in [P -> P]
      BY <1>1
    <2>2. start \in P
      BY <1>2
    <2>. QED  BY ONLY <2>1, <2>2, Iteration
  <1>5. \A n \in Nat : it[n][1] = n
    <2> DEFINE Bad == {n \in Nat : it[n][1] # n}
    <2> SUFFICES ASSUME Bad # {} PROVE FALSE
      OBVIOUS
    <2>1. PICK n \in Bad : \A k \in Bad : n <= k
      BY LeastNatural
    <2>2. CASE n = 0
      BY <1>2, <1>4, <2>1, <2>2
    <2>3. CASE n # 0
      <3>1. n - 1 \in Nat /\ n - 1 \notin Bad
        BY <2>1, <2>3
      <3>2. PICK k \in Nat, x \in V : it[n - 1] = <<k, x>>
        BY <1>3a, <3>1
      <3>3. k = n - 1
        BY <1>3b, <3>1, <3>2
      <3>4. it[n] = st[<<k, x>>]
        BY <1>4, <2>3, <3>2
      <3>5. \E y : st[<<k, x>>] = <<k + 1, y>>
        BY <1>3
      <3>6. it[n][1] = k + 1
        BY <3>4, <3>5
      <3>. QED  BY <2>1, <3>3, <3>6
    <2>. QED  BY <2>2, <2>3
  <1>6. \A n \in Nat : it[n][2] \in V
    BY <1>3a, <1>3b
  <1> DEFINE f == [k \in 0 .. m |-> it[k][2]]
  <1>7. f \in [0 .. m -> V]
    BY <1>6
  <1> HIDE DEF f
  <1>8. ASSUME NEW k \in 0 .. m PROVE f[k] = IF k = 0 THEN c ELSE step[<<k, f[k - 1]>>]
    <2>0. \A j \in 0 .. m : f[j] = it[j][2]
      BY DEF f
    <2>1. CASE k = 0
      BY <1>2, <1>4, <2>0, <2>1
    <2>2. CASE k # 0
      <3>1. k - 1 \in Nat /\ k - 1 \in 0 .. m /\ (k - 1) + 1 = k /\ k \in 1 .. m
        BY <1>0, <2>2
      <3>2. it[k - 1] = <<k - 1, f[k - 1]>>
        BY <1>3a, <1>3b, <1>5, <2>0, <3>1
      <3>3. it[k] = st[<<k - 1, f[k - 1]>>]
        BY <1>4, <2>2, <3>2
      <3>4. f[k - 1] \in V
        BY <1>7, <3>1
      <3>5. it[k] = <<k, step[<<k, f[k - 1]>>]>>
        BY <1>3, <3>1, <3>3, <3>4
      <3>6. it[k][2] = step[<<k, f[k - 1]>>]
        BY <3>5
      <3>. QED  BY <2>0, <2>2, <3>6
    <2>. QED  BY <2>1, <2>2
  <1>9. f[0] = c /\ \A k \in 1 .. m : f[k] = step[<<k, f[k - 1]>>]
    <2>1. 0 \in 0 .. m /\ \A k \in 1 .. m : k \in 0 .. m /\ k # 0
      BY <1>0
    <2> HIDE DEF f
    <2>. QED  BY <1>8, <2>1
  <1>. QED  BY <1>7, <1>9 DEF Iterates

(* Recursion through any elements of a smaller measure: up says what f is at *)
(* each element, from what it is at the smaller ones.                        *)
ByMeasure(S, V, W, m, up) ==
  /\ m \in [S -> Nat] /\ V # {} /\ W = [S -> V] /\ up \in [W -> W]
  /\ \A x \in S : \A f, g \in W :
       (\A y \in S : m[y] < m[x] => f[y] = g[y]) => up[f][x] = up[g][x]

LEMMA RecursionByMeasure ==
  ASSUME NEW S, NEW V, NEW W, NEW m, NEW up, ByMeasure(S, V, W, m, up)
  PROVE  \E f \in W : f = up[f]
  <1>1. PICK c : c \in V
    BY DEF ByMeasure
  <1>0. m \in [S -> Nat] /\ W = [S -> V] /\ up \in [W -> W]
    BY DEF ByMeasure
  <1>2. PICK low : low = [x \in S |-> c]
    OBVIOUS
  <1>3. low \in W
    BY <1>0, <1>1, <1>2
  <1>6. \A x \in S : \A f, g \in W :
          (\A y \in S : m[y] < m[x] => f[y] = g[y]) => up[f][x] = up[g][x]
    BY DEF ByMeasure
  <1>7. PICK it \in [Nat -> W] : \A n \in Nat : it[n] = IF n = 0 THEN low ELSE up[it[n - 1]]
    <2>1. up \in [W -> W] /\ low \in W
      BY <1>0, <1>3
    <2>. QED  BY ONLY <2>1, Iteration
  <1>8. \A n \in Nat : it[n + 1] = up[it[n]]
    <2> SUFFICES ASSUME NEW n \in Nat PROVE it[n + 1] = up[it[n]]
      OBVIOUS
    <2>1. n + 1 \in Nat /\ n + 1 # 0 /\ (n + 1) - 1 = n
      OBVIOUS
    <2>. QED  BY <1>7, <2>1
  <1>8a. \A x \in S : m[x] \in Nat
    BY <1>0
  <1>9. \A n \in Nat : \A x \in S : m[x] < n => it[n + 1][x] = it[n][x]
    <2> DEFINE Bad == {n \in Nat : \E x \in S : m[x] < n /\ it[n + 1][x] # it[n][x]}
    <2> SUFFICES ASSUME Bad # {} PROVE FALSE
      OBVIOUS
    <2>1. PICK n \in Bad : \A k \in Bad : n <= k
      BY LeastNatural
    <2>2. PICK x \in S : m[x] < n /\ it[n + 1][x] # it[n][x]
      BY <2>1
    <2>3. n - 1 \in Nat /\ n - 1 \notin Bad /\ (n - 1) + 1 = n
      BY <1>8a, <2>1, <2>2
    <2>4. \A y \in S : m[y] < m[x] => it[n][y] = it[n - 1][y]
      BY <1>8a, <2>2, <2>3
    <2>5. it[n] \in W /\ it[n - 1] \in W
      BY <2>3
    <2>6. up[it[n]][x] = up[it[n - 1]][x]
      BY <1>6, <2>4, <2>5
    <2>7. it[n + 1] = up[it[n]]
      BY <1>8, <2>1
    <2>8. it[n] = up[it[n - 1]]
      BY <1>8, <2>3
    <2>. QED  BY <2>2, <2>6, <2>7, <2>8
  <1>10. \A n \in Nat : \A x \in S : m[x] < n => it[n][x] = it[m[x] + 1][x]
    <2> DEFINE Bad == {n \in Nat : \E x \in S : m[x] < n /\ it[n][x] # it[m[x] + 1][x]}
    <2> SUFFICES ASSUME Bad # {} PROVE FALSE
      OBVIOUS
    <2>1. PICK n \in Bad : \A k \in Bad : n <= k
      BY LeastNatural
    <2>2. PICK x \in S : m[x] < n /\ it[n][x] # it[m[x] + 1][x]
      BY <2>1
    <2>3. m[x] < n - 1 /\ n - 1 \in Nat /\ (n - 1) + 1 = n
      <3>1. m[x] \in Nat /\ n \in Nat /\ m[x] < n /\ n # m[x] + 1
        BY <1>8a, <2>2
      <3>. QED  BY <3>1
    <2>4. it[n - 1][x] = it[m[x] + 1][x]
      BY <2>1, <2>3
    <2>5. it[n][x] = it[n - 1][x]
      BY <1>9, <2>3
    <2>. QED  BY <2>2, <2>4, <2>5
  <1> DEFINE f == [x \in S |-> it[m[x] + 1][x]]
  <1>11. f \in W
    BY <1>0
  <1>12. ASSUME NEW x \in S PROVE f[x] = up[f][x]
    <2>1. it[m[x]] \in W
      BY <1>0
    <2>2. \A y \in S : m[y] < m[x] => f[y] = it[m[x]][y]
      BY <1>8a, <1>10
    <2> HIDE DEF f
    <2>3. up[f][x] = up[it[m[x]]][x]
      BY <1>6, <1>11, <2>1, <2>2
    <2>4. f[x] = it[m[x] + 1][x]
      BY DEF f
    <2>. QED  BY <1>8, <1>8a, <2>3, <2>4
  <1>13. f = up[f]
    <2> HIDE DEF f
    <2>1. up[f] \in [S -> V] /\ f \in [S -> V]
      BY <1>0, <1>11
    <2>. QED  BY <1>12, <2>1
  <1>. QED  BY <1>11, <1>13

-----------------------------------------------------------------------------
(* The sum of the values of f at the elements of a finite set.               *)
SumOver(f, S) == MapThenSumSet(LAMBDA x : f[x], S)

AnyOf(s) == CHOOSE x \in s : TRUE

(* G sums f over the finite subsets of its domain.                           *)
Sums(G, f, D) ==
  \A s \in D : IF s = {} THEN G[s] = 0
               ELSE s \ {AnyOf(s)} \in D /\ G[s] = f[AnyOf(s)] + G[s \ {AnyOf(s)}]

LEMMA SumsExist ==
  ASSUME NEW U, NEW f \in [U -> Int]
  PROVE  \E G \in [FiniteSubsetsOf(U) -> Int] : Sums(G, f, FiniteSubsetsOf(U))
  <1> DEFINE D == FiniteSubsetsOf(U)
             pred == [s \in D |-> s \ {AnyOf(s)}]
             start == [s \in D |-> 0]
             st == [p \in D \X Int |-> IF p[1] = {} THEN 0 ELSE f[AnyOf(p[1])] + p[2]]
             R == StrictSubsetOrdering(U)
  <1>1. \A s \in D \ {{}} : AnyOf(s) \in s /\ AnyOf(s) \in U
    BY DEF AnyOf, FiniteSubsetsOf
  <1>2. start \in [D -> Int] /\ st \in [D \X Int -> Int]
    <2>1. \A s \in D \ {{}} : f[AnyOf(s)] \in Int
      BY <1>1
    <2>. QED  BY <2>1
  <1>3. \A s \in D \ {{}} : pred[s] = s \ {AnyOf(s)} /\ pred[s] \in D /\ <<pred[s], s>> \in R
    <2> SUFFICES ASSUME NEW s \in D \ {{}}
                 PROVE  s \ {AnyOf(s)} \in D /\ <<s \ {AnyOf(s)}, s>> \in R
      OBVIOUS
    <2>1. IsFiniteSet(s \ {AnyOf(s)}) /\ s \in SUBSET U /\ s \ {AnyOf(s)} \in SUBSET U
      BY FS_RemoveElement DEF FiniteSubsetsOf
    <2>. QED  BY <1>1, <2>1 DEF StrictSubsetOrdering, FiniteSubsetsOf
  <1>4. IsWellFoundedOn(R, D)
    BY FS_StrictSubsetOrderingWellFounded
  <1>5. /\ \A s \in D : start[s] = 0
        /\ \A s \in D \ {{}}, x \in Int : st[<<s, x>>] = f[AnyOf(s)] + x
    OBVIOUS
  <1> HIDE DEF D, pred, start, st, R
  <1>6. PICK G \in [D -> Int] : Solves(G, D, {{}}, pred, start, st)
    BY <1>2, <1>3, <1>4, Recursion
  <1>7. ASSUME NEW s \in D
        PROVE  IF s = {} THEN G[s] = 0
               ELSE s \ {AnyOf(s)} \in D /\ G[s] = f[AnyOf(s)] + G[s \ {AnyOf(s)}]
    <2>1. CASE s = {}
      BY <1>5, <1>6, <2>1 DEF Solves
    <2>2. CASE s # {}
      <3>1. pred[s] = s \ {AnyOf(s)} /\ pred[s] \in D
        BY <1>3, <2>2
      <3>2. G[s] = st[<<s, G[pred[s]]>>] /\ G[pred[s]] \in Int
        BY <1>6, <2>2, <3>1 DEF Solves
      <3>. QED  BY <1>5, <2>2, <3>1, <3>2
    <2>. QED  BY <2>1, <2>2
  <1>8. Sums(G, f, D)
    BY <1>7 DEF Sums
  <1>. QED  BY <1>8 DEF D

(* A set of subsets that has, with a set, the set without its chosen element.*)
LEMMA SumsAgree ==
  ASSUME NEW U, NEW f, NEW D \in SUBSET FiniteSubsetsOf(U), NEW E \in SUBSET FiniteSubsetsOf(U),
         NEW G, NEW H, Sums(G, f, D), Sums(H, f, E), NEW s \in D \intersect E
  PROVE  G[s] = H[s]
  <1> DEFINE T == {t \in D \intersect E : G[t] # H[t]}
  <1> SUFFICES ASSUME T # {} PROVE FALSE
    OBVIOUS
  <1>1. PICK t \in T : \A r \in T : ~(r \subseteq t /\ r # t)
    <2>1. T \in SUBSET FiniteSubsetsOf(U)
      OBVIOUS
    <2> HIDE DEF T
    <2>. QED  BY <2>1, MinimalFiniteSet
  <1>2. t # {}
    BY DEF Sums
  <1>3. AnyOf(t) \in t
    BY <1>2 DEF AnyOf
  <1>4. t \ {AnyOf(t)} \in D \intersect E
    BY <1>2 DEF Sums
  <1>5. G[t \ {AnyOf(t)}] = H[t \ {AnyOf(t)}]
    BY <1>1, <1>3, <1>4
  <1>. QED  BY <1>2, <1>5 DEF Sums

(* The fold of the community modules is that sum.                            *)
LEMMA SumOverIsSum ==
  ASSUME NEW U, NEW f \in [U -> Int], NEW G \in [FiniteSubsetsOf(U) -> Int],
         Sums(G, f, FiniteSubsetsOf(U)), NEW S \in FiniteSubsetsOf(U)
  PROVE  SumOver(f, S) = G[S]
  <1> DEFINE iter == CHOOSE g : g = [s \in SUBSET S |->
                       IF s = {} THEN 0 ELSE f[AnyOf(s)] + g[s \ {AnyOf(s)}]]
  <1>1. SumOver(f, S) = iter[S]
    BY DEF SumOver, MapThenSumSet, MapThenFoldSet, AnyOf
  <1>2. SUBSET S \in SUBSET FiniteSubsetsOf(U)
    BY FS_Subset DEF FiniteSubsetsOf
  <1> DEFINE g == [s \in SUBSET S |-> G[s]]
  <1>3. g = [s \in SUBSET S |-> IF s = {} THEN 0 ELSE f[AnyOf(s)] + g[s \ {AnyOf(s)}]]
    <2>1. \A s \in SUBSET S : G[s] = IF s = {} THEN 0 ELSE f[AnyOf(s)] + G[s \ {AnyOf(s)}]
      BY <1>2 DEF Sums
    <2>2. \A s \in SUBSET S : s \ {AnyOf(s)} \in SUBSET S
      OBVIOUS
    <2>. QED  BY <2>1, <2>2
  <1>4. iter = [s \in SUBSET S |-> IF s = {} THEN 0 ELSE f[AnyOf(s)] + iter[s \ {AnyOf(s)}]]
    <2> HIDE DEF g
    <2>. QED  BY <1>3
  <1>5. Sums(iter, f, SUBSET S)
    <2> HIDE DEF iter
    <2>. QED  BY <1>4 DEF Sums
  <1>6. iter[S] = G[S]
    <2> HIDE DEF iter
    <2>. QED  BY <1>2, <1>5, SumsAgree
  <1>. QED  BY <1>1, <1>6

(* What a sum is, however its terms are chosen.                              *)
LEMMA SumOverOne ==
  ASSUME NEW U, NEW f \in [U -> Int], NEW S \in SUBSET U, IsFiniteSet(S)
  PROVE  /\ SumOver(f, S) \in Int
         /\ SumOver(f, {}) = 0
         /\ \A x \in S : SumOver(f, S) = f[x] + SumOver(f, S \ {x})
  <1> DEFINE D == FiniteSubsetsOf(U)
  <1>1. PICK G \in [D -> Int] : Sums(G, f, D)
    BY SumsExist
  <1>2. \A s \in D : SumOver(f, s) = G[s]
    BY <1>1, SumOverIsSum
  <1>3. S \in D /\ {} \in D
    BY FS_EmptySet DEF FiniteSubsetsOf
  <1>4. \A s \in D : \A x : s \ {x} \in D /\ s \in SUBSET U
    BY FS_RemoveElement DEF FiniteSubsetsOf
  <1> DEFINE T == {s \in D : \E x \in s : G[s] # f[x] + G[s \ {x}]}
  <1>5. T = {}
    <2> SUFFICES ASSUME T # {} PROVE FALSE
      OBVIOUS
    <2>1. PICK s \in T : \A t \in T : ~(t \subseteq s /\ t # s)
      <3>1. T \in SUBSET FiniteSubsetsOf(U)
        OBVIOUS
      <3> HIDE DEF T
      <3>. QED  BY <3>1, MinimalFiniteSet
    <2>2. PICK x \in s : G[s] # f[x] + G[s \ {x}]
      OBVIOUS
    <2> DEFINE y == AnyOf(s)
    <2>3. y \in s /\ s \in D
      BY <2>2 DEF AnyOf
    <2>4. G[s] = f[y] + G[s \ {y}] /\ y # x
      BY <1>1, <2>2, <2>3 DEF Sums
    <2>5. \A t \in D : t \subseteq s /\ t # s => \A z \in t : G[t] = f[z] + G[t \ {z}]
      BY <2>1
    <2> HIDE DEF y, D, T
    <2>6. s \ {y} \in D /\ s \ {x} \in D /\ (s \ {y}) \ {x} \in D
      BY <1>4, <2>3
    <2>7. G[s \ {y}] = f[x] + G[(s \ {y}) \ {x}]
      BY <2>5, <2>2, <2>3, <2>4, <2>6
    <2>8. G[s \ {x}] = f[y] + G[(s \ {x}) \ {y}]
      BY <2>5, <2>2, <2>3, <2>4, <2>6
    <2>9. G[(s \ {x}) \ {y}] = G[(s \ {y}) \ {x}]
      <3>1. (s \ {x}) \ {y} = (s \ {y}) \ {x}
        OBVIOUS
      <3>. QED  BY <3>1
    <2>10. /\ f[x] \in Int /\ f[y] \in Int /\ G[s] \in Int /\ G[s \ {x}] \in Int
          /\ G[s \ {y}] \in Int /\ G[(s \ {y}) \ {x}] \in Int
      BY <1>4, <2>2, <2>3, <2>6
    <2>. QED  BY <2>2, <2>4, <2>7, <2>8, <2>9, <2>10
  <1>6. G[{}] = 0
    BY <1>1, <1>3 DEF Sums
  <1>7. \A x \in S : G[S] = f[x] + G[S \ {x}]
    BY <1>3, <1>5
  <1>. QED
    <2> HIDE DEF D, T
    <2>. QED  BY <1>2, <1>3, <1>4, <1>6, <1>7

LEMMA SumOverSingle ==
  ASSUME NEW U, NEW f \in [U -> Int], NEW x \in U
  PROVE  SumOver(f, {x}) = f[x] /\ IsFiniteSet({x}) /\ SumOver(f, {}) = 0
  <1>1. IsFiniteSet({x}) /\ {x} \in SUBSET U /\ {x} \ {x} = {}
    BY FS_Singleton
  <1>2. SumOver(f, {x}) = f[x] + SumOver(f, {}) /\ SumOver(f, {}) = 0
    BY <1>1, SumOverOne
  <1>. QED  BY <1>1, <1>2

(* Sums of functions that agree.                                             *)
LEMMA SumOverSame ==
  ASSUME NEW U, NEW f \in [U -> Int], NEW W, NEW g \in [W -> Int],
         NEW S \in SUBSET U, S \in SUBSET W, IsFiniteSet(S), \A x \in S : f[x] = g[x]
  PROVE  SumOver(f, S) = SumOver(g, S)
  <1> DEFINE T == {s \in SUBSET S : SumOver(f, s) # SumOver(g, s)}
  <1> SUFFICES ASSUME T # {} PROVE FALSE
    OBVIOUS
  <1>1. PICK s \in T : \A t \in T : ~(t \subseteq s /\ t # s)
    <2>1. T \in SUBSET FiniteSubsetsOf(S)
      BY FS_Subset DEF FiniteSubsetsOf
    <2> HIDE DEF T
    <2>. QED  BY <2>1, MinimalFiniteSet
  <1>2. IsFiniteSet(s) /\ s \in SUBSET S
    BY FS_Subset
  <1>3. PICK x : x \in s
    BY <1>2, SumOverOne
  <1>4. SumOver(f, s) = f[x] + SumOver(f, s \ {x}) /\ SumOver(g, s) = g[x] + SumOver(g, s \ {x})
    BY <1>2, <1>3, SumOverOne
  <1>5. SumOver(f, s \ {x}) = SumOver(g, s \ {x})
    BY <1>1, <1>2, <1>3
  <1>. QED  BY <1>2, <1>3, <1>4, <1>5

(* The sum over two sets without a common element.                           *)
LEMMA SumOverUnion ==
  ASSUME NEW U, NEW f \in [U -> Int], NEW A \in SUBSET U, NEW B \in SUBSET U,
         IsFiniteSet(A), IsFiniteSet(B), A \intersect B = {}
  PROVE  SumOver(f, A \union B) = SumOver(f, A) + SumOver(f, B)
  <1> DEFINE T == {s \in SUBSET A : SumOver(f, s \union B) # SumOver(f, s) + SumOver(f, B)}
  <1> SUFFICES ASSUME T # {} PROVE FALSE
    OBVIOUS
  <1>1. PICK s \in T : \A t \in T : ~(t \subseteq s /\ t # s)
    <2>1. T \in SUBSET FiniteSubsetsOf(A)
      BY FS_Subset DEF FiniteSubsetsOf
    <2> HIDE DEF T
    <2>. QED  BY <2>1, MinimalFiniteSet
  <1>2. /\ IsFiniteSet(s) /\ s \in SUBSET U /\ s \in SUBSET A
        /\ IsFiniteSet(s \union B) /\ s \union B \in SUBSET U
    BY FS_Subset, FS_Union
  <1>3. s # {}
    <2>1. SumOver(f, {}) = 0 /\ SumOver(f, B) \in Int /\ {} \union B = B
      BY SumOverOne
    <2>. QED  BY <2>1
  <1>4. PICK x : x \in s
    BY <1>3
  <1>5. /\ SumOver(f, s) = f[x] + SumOver(f, s \ {x})
        /\ SumOver(f, s \union B) = f[x] + SumOver(f, (s \union B) \ {x})
    BY <1>2, <1>4, SumOverOne
  <1>6. SumOver(f, (s \union B) \ {x}) = SumOver(f, (s \ {x}) \union B)
    <2>1. (s \union B) \ {x} = (s \ {x}) \union B
      BY <1>2, <1>4
    <2>. QED  BY <2>1
  <1>7. SumOver(f, (s \ {x}) \union B) = SumOver(f, s \ {x}) + SumOver(f, B)
    BY <1>1, <1>2, <1>4
  <1>8. SumOver(f, s \ {x}) \in Int /\ SumOver(f, B) \in Int /\ f[x] \in Int
    BY <1>2, <1>4, SumOverOne, FS_RemoveElement
  <1>9. SumOver(f, s \union B) # SumOver(f, s) + SumOver(f, B)
    OBVIOUS
  <1> HIDE DEF T
  <1>. QED  BY <1>5, <1>6, <1>7, <1>8, <1>9

(* Adding to the value at one element adds to the sum of the sets it is in.  *)
LEMMA SumOverExcept ==
  ASSUME NEW U, NEW f \in [U -> Int], NEW g \in [U -> Int],
         NEW S \in SUBSET U, IsFiniteSet(S), NEW x \in U, NEW d \in Int,
         g[x] = f[x] + d, \A y \in U : y # x => g[y] = f[y]
  PROVE  SumOver(g, S) = SumOver(f, S) + (IF x \in S THEN d ELSE 0)
  <1>1. \A y \in U : g[y] = IF y = x THEN f[x] + d ELSE f[y]
    OBVIOUS
  <1>2. SumOver(f, S) \in Int /\ f[x] \in Int
    BY SumOverOne
  <1>3. CASE x \notin S
    <2>1. SumOver(g, S) = SumOver(f, S)
      BY <1>1, <1>3, SumOverSame
    <2>. QED  BY <1>2, <1>3, <2>1
  <1>4. CASE x \in S
    <2>1. IsFiniteSet(S \ {x}) /\ S \ {x} \in SUBSET U
      BY FS_RemoveElement
    <2>2. SumOver(g, S \ {x}) = SumOver(f, S \ {x})
      BY <1>1, <2>1, SumOverSame
    <2>3. SumOver(g, S) = f[x] + d + SumOver(g, S \ {x})
      BY <1>1, <1>4, SumOverOne
    <2>4. SumOver(f, S) = f[x] + SumOver(f, S \ {x}) /\ SumOver(f, S \ {x}) \in Int
      BY <1>4, <2>1, SumOverOne
    <2>. QED  BY <1>2, <1>4, <2>2, <2>3, <2>4
  <1>. QED  BY <1>3, <1>4

(* A sum of smaller values is smaller.                                       *)
LEMMA SumOverAtMost ==
  ASSUME NEW U, NEW f \in [U -> Int], NEW g \in [U -> Int],
         NEW S \in SUBSET U, IsFiniteSet(S), \A x \in S : f[x] <= g[x]
  PROVE  SumOver(f, S) <= SumOver(g, S)
  <1> DEFINE T == {s \in SUBSET S : ~(SumOver(f, s) <= SumOver(g, s))}
  <1> SUFFICES ASSUME T # {} PROVE FALSE
    OBVIOUS
  <1>1. PICK s \in T : \A t \in T : ~(t \subseteq s /\ t # s)
    <2>1. T \in SUBSET FiniteSubsetsOf(S)
      BY FS_Subset DEF FiniteSubsetsOf
    <2> HIDE DEF T
    <2>. QED  BY <2>1, MinimalFiniteSet
  <1>2. IsFiniteSet(s) /\ s \in SUBSET S /\ s \in SUBSET U
    BY FS_Subset
  <1>3. s # {}
    <2>1. SumOver(f, {}) = 0 /\ SumOver(g, {}) = 0
      BY SumOverOne
    <2>. QED  BY <2>1
  <1>4. PICK x : x \in s
    BY <1>3
  <1>5. /\ SumOver(f, s) = f[x] + SumOver(f, s \ {x})
        /\ SumOver(g, s) = g[x] + SumOver(g, s \ {x})
    BY <1>2, <1>4, SumOverOne
  <1>6. SumOver(f, s \ {x}) <= SumOver(g, s \ {x})
    BY <1>1, <1>2, <1>4
  <1>7. /\ SumOver(f, s \ {x}) \in Int /\ SumOver(g, s \ {x}) \in Int
        /\ f[x] \in Int /\ g[x] \in Int /\ f[x] <= g[x]
    BY <1>2, <1>4, SumOverOne, FS_RemoveElement
  <1>8. ~(SumOver(f, s) <= SumOver(g, s))
    OBVIOUS
  <1> HIDE DEF T
  <1>. QED  BY <1>5, <1>6, <1>7, <1>8

(* The number of elements of disjoint sets is the sum of their numbers.      *)
LEMMA SumOverCounts ==
  ASSUME NEW U, NEW f \in [U -> Int], NEW S \in SUBSET U, IsFiniteSet(S), NEW F,
         \A x \in S : IsFiniteSet(F[x]) /\ f[x] = Cardinality(F[x]),
         \A x, y \in S : x # y => F[x] \intersect F[y] = {},
         NEW C, \A x \in S : F[x] \subseteq C, \A e \in C : \E x \in S : e \in F[x]
  PROVE  SumOver(f, S) = Cardinality(C)
  <1> DEFINE All(s) == UNION {F[x] : x \in s}
             Good(s) == IsFiniteSet(All(s)) /\ SumOver(f, s) = Cardinality(All(s))
             T == {s \in SUBSET S : ~Good(s)}
  <1>0. All(S) = C
    OBVIOUS
  <1> SUFFICES ASSUME T # {} PROVE FALSE
    <2>1. S \in SUBSET S
      OBVIOUS
    <2> HIDE DEF All
    <2>. QED  BY <1>0, <2>1
  <1>1. PICK s \in T : \A t \in T : ~(t \subseteq s /\ t # s)
    <2>1. T \in SUBSET FiniteSubsetsOf(S)
      BY FS_Subset DEF FiniteSubsetsOf
    <2> HIDE DEF T
    <2>. QED  BY <2>1, MinimalFiniteSet
  <1>2. IsFiniteSet(s) /\ s \in SUBSET S /\ s \in SUBSET U
    BY FS_Subset
  <1>3. s # {}
    <2>1. SumOver(f, {}) = 0
      BY SumOverOne
    <2>2. All({}) = {}
      OBVIOUS
    <2>. QED  BY <2>1, <2>2, FS_EmptySet
  <1>4. PICK x : x \in s
    BY <1>3
  <1> DEFINE r == s \ {x}
  <1>5. Good(r)
    <2>1. r \in SUBSET S /\ r \subseteq s /\ r # s
      BY <1>2, <1>4
    <2> HIDE DEF Good, r
    <2>. QED  BY <1>1, <2>1
  <1>6. SumOver(f, s) = f[x] + SumOver(f, r)
    BY <1>2, <1>4, SumOverOne
  <1>7. All(s) = F[x] \union All(r) /\ F[x] \intersect All(r) = {}
    BY <1>2, <1>4
  <1>8. IsFiniteSet(F[x]) /\ f[x] = Cardinality(F[x]) /\ f[x] \in Int
    BY <1>2, <1>4
  <1> HIDE DEF All, r
  <1>9. /\ IsFiniteSet(All(s))
        /\ Cardinality(All(s)) = Cardinality(F[x]) + Cardinality(All(r)) - Cardinality({})
    <2>1. ASSUME NEW A, NEW B, IsFiniteSet(A), IsFiniteSet(B)
          PROVE  /\ IsFiniteSet(A \union B)
                 /\ Cardinality(A \union B)
                      = Cardinality(A) + Cardinality(B) - Cardinality(A \intersect B)
      BY <2>1, FS_Union
    <2>2. IsFiniteSet(All(r))
      BY <1>5
    <2>3. /\ IsFiniteSet(F[x] \union All(r))
          /\ Cardinality(F[x] \union All(r))
               = Cardinality(F[x]) + Cardinality(All(r)) - Cardinality(F[x] \intersect All(r))
      BY <1>8, <2>1, <2>2
    <2>. QED  BY <1>7, <2>3
  <1>10. Cardinality(All(r)) \in Int
    BY <1>5, FS_CardinalityType
  <1>11. Good(s)
    BY <1>5, <1>6, <1>8, <1>9, <1>10, FS_EmptySet
  <1>. QED  BY <1>11

(* Values that are at most others and sum to as much are the others.         *)
LEMMA SumOverTight ==
  ASSUME NEW U, NEW f \in [U -> Int], NEW g \in [U -> Int],
         NEW S \in SUBSET U, IsFiniteSet(S), \A x \in S : f[x] <= g[x],
         SumOver(f, S) = SumOver(g, S), NEW x \in S
  PROVE  f[x] = g[x]
  <1>1. IsFiniteSet(S \ {x}) /\ S \ {x} \in SUBSET U
    BY FS_RemoveElement
  <1>2. SumOver(f, S) = f[x] + SumOver(f, S \ {x}) /\ SumOver(g, S) = g[x] + SumOver(g, S \ {x})
    BY SumOverOne
  <1>3. SumOver(f, S \ {x}) <= SumOver(g, S \ {x})
    BY <1>1, SumOverAtMost
  <1>4. SumOver(f, S \ {x}) \in Int /\ SumOver(g, S \ {x}) \in Int
    BY <1>1, SumOverOne
  <1>5. f[x] \in Int /\ g[x] \in Int /\ f[x] <= g[x] /\ SumOver(f, S) = SumOver(g, S)
    OBVIOUS
  <1>6. \A a, b, c, d \in Int : a <= b /\ c <= d /\ a + c = b + d => a = b
    OBVIOUS
  <1>. QED  BY ONLY <1>2, <1>3, <1>4, <1>5, <1>6

(* The sum over the images of the elements, when no two have the same.       *)
LEMMA SumOverImages ==
  ASSUME NEW U, NEW f \in [U -> Int], NEW W, NEW g \in [W -> Int],
         NEW S \in SUBSET U, IsFiniteSet(S), NEW T \in SUBSET W, NEW b \in [S -> T],
         \A x, y \in S : b[x] = b[y] => x = y, \A z \in T : \E x \in S : z = b[x],
         \A x \in S : f[x] = g[b[x]]
  PROVE  SumOver(f, S) = SumOver(g, T) /\ IsFiniteSet(T)
  <1> DEFINE Image(s) == {b[x] : x \in s}
             Bad == {s \in SUBSET S : SumOver(f, s) # SumOver(g, Image(s))}
  <1>0. Image(S) = T /\ IsFiniteSet(T)
    <2>1. Image(S) = T
      OBVIOUS
    <2>2. b \in Surjection(S, T)
      BY DEF Surjection
    <2> HIDE DEF Image
    <2>. QED  BY <2>1, <2>2, FS_Surjection
  <1>1. \A s \in SUBSET S : /\ IsFiniteSet(s) /\ s \in SUBSET U
                            /\ IsFiniteSet(Image(s)) /\ Image(s) \in SUBSET W
    <2>1. \A s \in SUBSET S : Image(s) \in SUBSET T
      OBVIOUS
    <2> HIDE DEF Image
    <2>. QED  BY <1>0, <2>1, FS_Subset
  <1> SUFFICES ASSUME Bad # {} PROVE FALSE
    BY <1>0
  <1>2. PICK s \in Bad : \A t \in Bad : ~(t \subseteq s /\ t # s)
    <2>1. Bad \in SUBSET FiniteSubsetsOf(S)
      BY FS_Subset DEF FiniteSubsetsOf
    <2> HIDE DEF Bad
    <2>. QED  BY <2>1, MinimalFiniteSet
  <1>3. s # {}
    <2>1. SumOver(f, {}) = 0 /\ SumOver(g, {}) = 0
      <3>1. IsFiniteSet({}) /\ {} \in SUBSET U /\ {} \in SUBSET W
        BY FS_EmptySet
      <3>. QED  BY <3>1, SumOverOne
    <2>2. Image({}) = {}
      OBVIOUS
    <2>. QED  BY <2>1, <2>2
  <1>4. PICK x : x \in s
    BY <1>3
  <1>5. s \in SUBSET S /\ s \ {x} \in SUBSET S /\ s \ {x} \subseteq s /\ s \ {x} # s
    BY <1>4
  <1>6. SumOver(f, s \ {x}) = SumOver(g, Image(s \ {x}))
    <2> HIDE DEF Image
    <2>. QED  BY <1>2, <1>5
  <1>7. Image(s) \ {b[x]} = Image(s \ {x}) /\ b[x] \in Image(s)
    BY <1>4, <1>5
  <1>8. SumOver(f, s) = f[x] + SumOver(f, s \ {x})
    <2>1. IsFiniteSet(s) /\ s \in SUBSET U /\ f \in [U -> Int] /\ x \in s
      BY <1>1, <1>4, <1>5
    <2>. QED  BY ONLY <2>1, SumOverOne
  <1>9. SumOver(g, Image(s)) = g[b[x]] + SumOver(g, Image(s) \ {b[x]})
    <2> HIDE DEF Image
    <2>1. /\ IsFiniteSet(Image(s)) /\ Image(s) \in SUBSET W
          /\ g \in [W -> Int] /\ b[x] \in Image(s)
      BY <1>1, <1>5, <1>7
    <2>. QED  BY ONLY <2>1, SumOverOne
  <1>10. f[x] = g[b[x]]
    BY <1>4, <1>5
  <1>11. SumOver(f, s) # SumOver(g, Image(s))
    OBVIOUS
  <1> HIDE DEF Image, Bad
  <1>. QED  BY <1>6, <1>7, <1>8, <1>9, <1>10, <1>11

(* Equal terms sum to the term as often as there are elements.               *)
LEMMA SumOverConstant ==
  ASSUME NEW U, NEW f \in [U -> Int], NEW S \in SUBSET U, IsFiniteSet(S),
         NEW k \in Int, \A x \in S : f[x] = k
  PROVE  SumOver(f, S) = k * Cardinality(S) /\ Cardinality(S) \in Nat
  <1> DEFINE T == {s \in SUBSET S : SumOver(f, s) # k * Cardinality(s)}
  <1> SUFFICES ASSUME T # {} PROVE FALSE
    BY FS_CardinalityType
  <1>1. PICK s \in T : \A t \in T : ~(t \subseteq s /\ t # s)
    <2>1. T \in SUBSET FiniteSubsetsOf(S)
      BY FS_Subset DEF FiniteSubsetsOf
    <2> HIDE DEF T
    <2>. QED  BY <2>1, MinimalFiniteSet
  <1>2. IsFiniteSet(s) /\ s \in SUBSET S /\ s \in SUBSET U
    BY FS_Subset
  <1>3. s # {}
    <2>1. SumOver(f, {}) = 0 /\ Cardinality({}) = 0
      BY SumOverOne, FS_EmptySet
    <2>2. k * 0 = 0
      OBVIOUS
    <2>. QED  BY <2>1, <2>2
  <1>4. PICK x : x \in s
    BY <1>3
  <1> DEFINE r == s \ {x}
  <1>5. SumOver(f, r) = k * Cardinality(r)
    <2>1. r \in SUBSET S /\ r \subseteq s /\ r # s
      BY <1>2, <1>4
    <2> HIDE DEF r
    <2>. QED  BY <1>1, <2>1
  <1>6. SumOver(f, s) = f[x] + SumOver(f, r) /\ f[x] = k
    BY <1>2, <1>4, SumOverOne
  <1>7. Cardinality(r) = Cardinality(s) - 1 /\ Cardinality(s) \in Nat /\ IsFiniteSet(r)
    BY <1>2, <1>4, FS_RemoveElement, FS_CardinalityType
  <1> HIDE DEF r, T
  <1>8. k + k * (Cardinality(s) - 1) = k * Cardinality(s)
    <2>1. ASSUME NEW n \in Int PROVE k + k * (n - 1) = k * n
      OBVIOUS
    <2>. QED  BY <1>7, <2>1
  <1>9. SumOver(f, s) = k * Cardinality(s)
    BY <1>5, <1>6, <1>7, <1>8
  <1>. QED  BY <1>9 DEF T

(* As many images as elements, when no two elements have the same.           *)
LEMMA SameCount ==
  ASSUME NEW S, IsFiniteSet(S), NEW T, NEW f \in [S -> T],
         \A x, y \in S : f[x] = f[y] => x = y, \A z \in T : \E x \in S : z = f[x]
  PROVE  IsFiniteSet(T) /\ Cardinality(T) = Cardinality(S)
  <1>1. f \in Surjection(S, T) /\ f \in Injection(S, T)
    BY DEF Surjection, Injection, IsInjective
  <1>. QED  BY <1>1, FS_Surjection

-----------------------------------------------------------------------------
(***************************************************************************)
(* Forests with turns.  h is a height that falls towards the roots; R and  *)
(* O give every node its root and the turns to it.                         *)
(***************************************************************************)
Falls(S, p, h) == h \in [S -> Nat] /\ \A j \in S : p[j].first # j => h[p[j].first] < h[j]

(* Every node has a parent and the turns to it, and is below it.             *)
Forest(S, p) ==
  /\ p \in [S -> [first : S, second : 0 .. 3]]
  /\ \A j \in S : p[j].first = j => p[j].second = 0
  /\ \E h : Falls(S, p, h)

(* What Root and Orient of a forest satisfy.                                 *)
RootEq(S, p, R) == \A j \in S : R[j] = IF p[j].first = j THEN j ELSE R[p[j].first]

TurnEq(S, p, O) ==
  \A j \in S : O[j] = IF p[j].first = j THEN p[j].second ELSE (p[j].second + O[p[j].first]) % 4

RootsOf(S, p, R) == R \in [S -> S] /\ RootEq(S, p, R)

TurnsOf(S, p, O) == O \in [S -> 0 .. 3] /\ TurnEq(S, p, O)

RootFn(S, p) == CHOOSE g : g = [j \in S |-> IF p[j].first = j THEN j ELSE g[p[j].first]]

TurnFn(S, p) ==
  CHOOSE g : g = [j \in S |-> IF p[j].first = j THEN p[j].second
                              ELSE (p[j].second + g[p[j].first]) % 4]

LEMMA FallsWell ==
  ASSUME NEW S, NEW h \in [S -> Nat]
  PROVE  IsWellFoundedOn({e \in S \X S : h[e[1]] < h[e[2]]}, S)
  <1> DEFINE R == {e \in S \X S : h[e[1]] < h[e[2]]}
  <1> SUFFICES ASSUME NEW f \in [Nat -> S], \A n \in Nat : <<f[n + 1], f[n]>> \in R
               PROVE  FALSE
    BY DEF IsWellFoundedOn
  <1>1. ASSUME NEW n \in Nat
        PROVE  f[n] \in S /\ n + 1 \in Nat /\ h[f[n]] \in Nat /\ h[f[n + 1]] < h[f[n]]
    <2>1. n + 1 \in Nat /\ <<f[n + 1], f[n]>> \in R
      OBVIOUS
    <2>2. h[f[n + 1]] < h[f[n]]
      BY <2>1
    <2>. QED  BY <2>1, <2>2
  <1> DEFINE T == {h[f[n]] : n \in Nat}
  <1>2. T \in SUBSET Nat /\ T # {}
    BY <1>1
  <1>3. PICK t \in T : \A s \in T : t <= s
    BY <1>2, LeastNatural
  <1>4. PICK n \in Nat : t = h[f[n]]
    OBVIOUS
  <1>5. t <= h[f[n + 1]] /\ h[f[n + 1]] < t /\ t \in Nat /\ h[f[n + 1]] \in Nat
    BY <1>1, <1>3, <1>4
  <1>. QED  BY <1>5

(* The height decides what a solution of either equation is.                 *)
LEMMA LowestIsRooted ==
  ASSUME NEW S, NEW p, Forest(S, p), NEW D \in SUBSET S, D # {}
  PROVE  \E j \in D : p[j].first \in S /\ (p[j].first \notin D \/ p[j].first = j)
  <1>1. PICK h : Falls(S, p, h)
    BY DEF Forest
  <1>2. \A j \in S : p[j].first \in S
    BY DEF Forest
  <1> DEFINE T == {h[j] : j \in D}
  <1>3. T \in SUBSET Nat /\ T # {}
    BY <1>1 DEF Falls
  <1>4. PICK t \in T : \A s \in T : t <= s
    BY <1>3, LeastNatural
  <1>5. PICK j \in D : t = h[j]
    OBVIOUS
  <1>6. ASSUME p[j].first # j PROVE p[j].first \notin D
    <2>1. h[p[j].first] < t /\ t \in Nat /\ h[p[j].first] \in Nat
      BY <1>1, <1>2, <1>5, <1>6 DEF Falls
    <2>2. p[j].first \in D => t <= h[p[j].first]
      BY <1>4
    <2>. QED  BY <2>1, <2>2
  <1>. QED  BY <1>2, <1>6

LEMMA RootsUnique ==
  ASSUME NEW S, NEW p, Forest(S, p), NEW R, NEW Q, RootEq(S, p, R), RootEq(S, p, Q)
  PROVE  \A j \in S : R[j] = Q[j]
  <1> DEFINE D == {j \in S : R[j] # Q[j]}
  <1> SUFFICES ASSUME D # {} PROVE FALSE
    OBVIOUS
  <1>1. PICK j \in D : p[j].first \in S /\ (p[j].first \notin D \/ p[j].first = j)
    <2>1. D \in SUBSET S
      OBVIOUS
    <2> HIDE DEF D
    <2>. QED  BY <2>1, LowestIsRooted
  <1>2. j \in S /\ R[j] # Q[j] /\ (p[j].first = j \/ R[p[j].first] = Q[p[j].first])
    BY <1>1
  <1>. QED  BY <1>2 DEF RootEq

LEMMA TurnsUnique ==
  ASSUME NEW S, NEW p, Forest(S, p), NEW O, NEW Q, TurnEq(S, p, O), TurnEq(S, p, Q)
  PROVE  \A j \in S : O[j] = Q[j]
  <1> DEFINE D == {j \in S : O[j] # Q[j]}
  <1> SUFFICES ASSUME D # {} PROVE FALSE
    OBVIOUS
  <1>1. PICK j \in D : p[j].first \in S /\ (p[j].first \notin D \/ p[j].first = j)
    <2>1. D \in SUBSET S
      OBVIOUS
    <2> HIDE DEF D
    <2>. QED  BY <2>1, LowestIsRooted
  <1>2. j \in S /\ O[j] # Q[j] /\ (p[j].first = j \/ O[p[j].first] = Q[p[j].first])
    BY <1>1
  <1>. QED  BY <1>2 DEF TurnEq

LEMMA WaysExist ==
  ASSUME NEW S, NEW p, Forest(S, p)
  PROVE  RootsOf(S, p, RootFn(S, p)) /\ TurnsOf(S, p, TurnFn(S, p))
  <1>1. PICK h : Falls(S, p, h)
    BY DEF Forest
  <1> DEFINE W == {e \in S \X S : h[e[1]] < h[e[2]]}
             B == {j \in S : p[j].first = j}
             pred == [j \in S |-> p[j].first]
             self == [j \in S |-> j]
             second == [j \in S |-> p[j].second]
             keep == [e \in S \X S |-> e[2]]
             add == [e \in S \X (0 .. 3) |-> (p[e[1]].second + e[2]) % 4]
  <1>2. \A j \in S : p[j].first \in S /\ p[j].second \in 0 .. 3
    BY DEF Forest
  <1>3. IsWellFoundedOn(W, S)
    BY <1>1, FallsWell DEF Falls
  <1>4. \A j \in S \ B : pred[j] \in S /\ <<pred[j], j>> \in W
    BY <1>1, <1>2 DEF Falls
  <1>5. \A x, y \in 0 .. 3 : (x + y) % 4 \in 0 .. 3
    OBVIOUS
  <1>6. self \in [S -> S] /\ second \in [S -> 0 .. 3] /\ keep \in [S \X S -> S] /\ add \in [S \X (0 .. 3) -> 0 .. 3]
    <2>1. \A e \in S \X (0 .. 3) : p[e[1]].second \in 0 .. 3 /\ e[2] \in 0 .. 3
      BY <1>2
    <2>. QED  BY <1>2, <1>5, <2>1
  <1>7. /\ \A j \in S : self[j] = j /\ second[j] = p[j].second /\ pred[j] = p[j].first
        /\ \A j \in S, k \in S : keep[<<j, k>>] = k
        /\ \A j \in S, k \in 0 .. 3 : add[<<j, k>>] = (p[j].second + k) % 4
    OBVIOUS
  <1>8. \A j \in S : j \in B <=> p[j].first = j
    OBVIOUS
  <1> HIDE DEF W, B, pred, self, second, keep, add
  <1>9. PICK R \in [S -> S] : Solves(R, S, B, pred, self, keep)
    BY <1>3, <1>4, <1>6, Recursion
  <1>10. PICK O \in [S -> 0 .. 3] : Solves(O, S, B, pred, second, add)
    BY <1>3, <1>4, <1>6, Recursion
  <1>11. RootsOf(S, p, R)
    <2>1. ASSUME NEW j \in S PROVE R[j] = IF p[j].first = j THEN j ELSE R[p[j].first]
      <3>1. CASE j \in B
        BY <1>7, <1>8, <1>9, <3>1 DEF Solves
      <3>2. CASE j \notin B
        <4>1. R[j] = keep[<<j, R[pred[j]]>>] /\ pred[j] = p[j].first /\ R[pred[j]] \in S
          BY <1>4, <1>7, <1>9, <3>2 DEF Solves
        <4>. QED  BY <1>7, <1>8, <3>2, <4>1
      <3>. QED  BY <3>1, <3>2
    <2>. QED  BY <1>9, <2>1 DEF RootsOf, RootEq
  <1>12. TurnsOf(S, p, O)
    <2>1. ASSUME NEW j \in S
          PROVE  O[j] = IF p[j].first = j THEN p[j].second ELSE (p[j].second + O[p[j].first]) % 4
      <3>1. CASE j \in B
        BY <1>7, <1>8, <1>10, <3>1 DEF Solves
      <3>2. CASE j \notin B
        <4>1. O[j] = add[<<j, O[pred[j]]>>] /\ pred[j] = p[j].first /\ O[pred[j]] \in 0 .. 3
          BY <1>4, <1>7, <1>10, <3>2 DEF Solves
        <4>2. add[<<j, O[pred[j]]>>] = (p[j].second + O[pred[j]]) % 4
          BY ONLY <1>7, <4>1, j \in S
        <4>3. p[j].first # j
          BY <1>8, <3>2
        <4>. QED  BY ONLY <4>1, <4>2, <4>3
      <3>. QED  BY <3>1, <3>2
    <2>. QED  BY <1>10, <2>1 DEF TurnsOf, TurnEq
  <1>13. RootFn(S, p) = R
    <2>1. R = [j \in S |-> R[j]] /\ RootEq(S, p, R)
      BY <1>11 DEF RootsOf
    <2>2. R = [j \in S |-> IF p[j].first = j THEN j ELSE R[p[j].first]]
      BY <2>1 DEF RootEq
    <2>3. PICK g : g = RootFn(S, p)
      OBVIOUS
    <2>4. g = [j \in S |-> IF p[j].first = j THEN j ELSE g[p[j].first]]
      BY <2>2, <2>3 DEF RootFn
    <2>5. RootEq(S, p, g)
      BY <2>4 DEF RootEq
    <2>6. \A j \in S : g[j] = R[j]
      BY <2>1, <2>5, RootsUnique
    <2>7. g = [j \in S |-> g[j]]
      BY <2>4
    <2>. QED  BY <2>1, <2>3, <2>6, <2>7
  <1>14. TurnFn(S, p) = O
    <2>1. O = [j \in S |-> O[j]] /\ TurnEq(S, p, O)
      BY <1>12 DEF TurnsOf
    <2>2. O = [j \in S |-> IF p[j].first = j THEN p[j].second ELSE (p[j].second + O[p[j].first]) % 4]
      BY <2>1 DEF TurnEq
    <2>3. PICK g : g = TurnFn(S, p)
      OBVIOUS
    <2>4. g = [j \in S |-> IF p[j].first = j THEN p[j].second ELSE (p[j].second + g[p[j].first]) % 4]
      BY <2>2, <2>3 DEF TurnFn
    <2>5. TurnEq(S, p, g)
      BY <2>4 DEF TurnEq
    <2>6. \A j \in S : g[j] = O[j]
      BY <2>1, <2>5, TurnsUnique
    <2>7. g = [j \in S |-> g[j]]
      BY <2>4
    <2>. QED  BY <2>1, <2>3, <2>6, <2>7
  <1>. QED  BY <1>11, <1>12, <1>13, <1>14

(* A root is its own root, and no node is higher than its root is low.       *)
LEMMA RootFacts ==
  ASSUME NEW S, NEW p, Forest(S, p), NEW R, RootsOf(S, p, R), NEW h, Falls(S, p, h), NEW j \in S
  PROVE  /\ R[j] \in S /\ p[R[j]].first = R[j] /\ R[R[j]] = R[j]
         /\ R[j] = j \/ h[R[j]] < h[j]
         /\ (p[j].first = j) <=> (R[j] = j)
  <1> DEFINE D == {k \in S : ~(p[R[k]].first = R[k] /\ (R[k] = k \/ h[R[k]] < h[k]))}
  <1>1. D = {}
    <2> SUFFICES ASSUME D # {} PROVE FALSE
      OBVIOUS
    <2>1. PICK k \in D : p[k].first \in S /\ (p[k].first \notin D \/ p[k].first = k)
      <3>1. D \in SUBSET S
        OBVIOUS
      <3> HIDE DEF D
      <3>. QED  BY <3>1, LowestIsRooted
    <2>2. R[k] = IF p[k].first = k THEN k ELSE R[p[k].first]
      BY DEF RootsOf, RootEq
    <2>3. CASE p[k].first = k
      BY <2>2, <2>3
    <2>4. CASE p[k].first # k
      <3> DEFINE i == p[k].first
      <3>1. R[k] = R[i] /\ i \in S /\ i \notin D
        BY <2>1, <2>2, <2>4
      <3>2. p[R[i]].first = R[i] /\ (R[i] = i \/ h[R[i]] < h[i])
        BY <3>1
      <3>3. h[i] < h[k]
        BY <2>4 DEF Falls
      <3>4. R[k] \in S /\ h[i] \in Nat /\ h[k] \in Nat /\ h[R[k]] \in Nat
        BY <3>1 DEF RootsOf, Falls
      <3>5. h[R[k]] < h[k] /\ p[R[k]].first = R[k]
        BY <3>1, <3>2, <3>3, <3>4
      <3>. QED  BY <3>5
    <2>. QED  BY <2>3, <2>4
  <1>2. R[j] \in S /\ p[R[j]].first = R[j] /\ (R[j] = j \/ h[R[j]] < h[j])
    BY <1>1 DEF RootsOf
  <1>3. R[R[j]] = R[j]
    BY <1>2 DEF RootsOf, RootEq
  <1>4. (p[j].first = j) <=> (R[j] = j)
    BY <1>2 DEF RootsOf, RootEq
  <1>. QED  BY <1>2, <1>3, <1>4
(* Hanging nodes from their roots, with the turns of their whole ways, changes*)
(* no root and no turn.                                                      *)
LEMMA Compressed ==
  ASSUME NEW S, NEW p, Forest(S, p), NEW R, RootsOf(S, p, R), NEW O, TurnsOf(S, p, O),
         NEW q \in [S -> [first : S, second : 0 .. 3]],
         \A j \in S : q[j] = p[j] \/ (q[j].first = R[j] /\ q[j].second = O[j])
  PROVE  Forest(S, q) /\ RootsOf(S, q, R) /\ TurnsOf(S, q, O)
  <1>1. PICK h : Falls(S, p, h)
    BY DEF Forest
  <1>2. ASSUME NEW j \in S
        PROVE  /\ R[j] \in S /\ p[R[j]].first = R[j] /\ R[R[j]] = R[j]
               /\ R[j] = j \/ h[R[j]] < h[j]
               /\ (p[j].first = j) <=> (R[j] = j)
    BY <1>1, RootFacts
  <1>3. \A j \in S : O[j] \in 0 .. 3 /\ (R[j] = j => O[j] = 0)
    <2>1. \A j \in S : R[j] = j => p[j].first = j /\ p[j].second = 0
      BY <1>2 DEF Forest
    <2>. QED  BY <2>1 DEF TurnsOf, TurnEq
  <1>4. ASSUME NEW j \in S PROVE q[j].first = j => q[j].second = 0
    BY <1>2, <1>3 DEF Forest
  <1>5. Falls(S, q, h)
    BY <1>1, <1>2 DEF Falls
  <1>6. Forest(S, q)
    BY <1>4, <1>5 DEF Forest
  <1>7. ASSUME NEW j \in S
        PROVE  /\ R[j] = IF q[j].first = j THEN j ELSE R[q[j].first]
               /\ O[j] = IF q[j].first = j THEN q[j].second ELSE (q[j].second + O[q[j].first]) % 4
    <2>1. CASE q[j] = p[j]
      BY <2>1 DEF RootsOf, RootEq, TurnsOf, TurnEq
    <2>2. CASE q[j].first = R[j] /\ q[j].second = O[j]
      <3>1. R[j] \in S /\ R[R[j]] = R[j] /\ O[R[j]] = 0 /\ O[j] \in 0 .. 3
        BY <1>2, <1>3
      <3>2. (O[j] + 0) % 4 = O[j]
        BY <3>1
      <3>. QED  BY <2>2, <3>1, <3>2
    <2>. QED  BY <2>1, <2>2
  <1>. QED  BY <1>6, <1>7 DEF RootsOf, RootEq, TurnsOf, TurnEq

(* A root a hung from another root b takes its tree along, turned.           *)
HungFrom(p, a, b, t) == [p EXCEPT ![a] = [first |-> b, second |-> t]]
HungRoots(S, R, a, b) == [j \in S |-> IF R[j] = a THEN b ELSE R[j]]
HungTurns(S, R, O, a, t) == [j \in S |-> IF R[j] = a THEN (O[j] + t) % 4 ELSE O[j]]

LEMMA Hung ==
  ASSUME NEW S, NEW p, Forest(S, p), NEW R, RootsOf(S, p, R), NEW O, TurnsOf(S, p, O),
         NEW a \in S, NEW b \in S, R[a] = a, R[b] = b, a # b, NEW t \in 0 .. 3
  PROVE  /\ Forest(S, HungFrom(p, a, b, t))
         /\ RootsOf(S, HungFrom(p, a, b, t), HungRoots(S, R, a, b))
         /\ TurnsOf(S, HungFrom(p, a, b, t), HungTurns(S, R, O, a, t))
  <1>0. PICK q, Q, T :
          /\ q = HungFrom(p, a, b, t) /\ Q = HungRoots(S, R, a, b) /\ T = HungTurns(S, R, O, a, t)
          /\ q = [p EXCEPT ![a] = [first |-> b, second |-> t]]
          /\ Q = [j \in S |-> IF R[j] = a THEN b ELSE R[j]]
          /\ T = [j \in S |-> IF R[j] = a THEN (O[j] + t) % 4 ELSE O[j]]
    BY DEF HungFrom, HungRoots, HungTurns
  <1>1. PICK h : Falls(S, p, h)
    BY DEF Forest
  <1>2. ASSUME NEW j \in S
        PROVE  /\ R[j] \in S /\ p[R[j]].first = R[j] /\ R[R[j]] = R[j]
               /\ (p[j].first = j) <=> (R[j] = j)
               /\ p[j].first \in S /\ p[j].second \in 0 .. 3 /\ O[j] \in 0 .. 3
               /\ R[p[j].first] = R[j]
               /\ (p[j].first = j => p[j].second = 0 /\ O[j] = 0)
               /\ (p[j].first # j => O[j] = (p[j].second + O[p[j].first]) % 4)
    <2>1. /\ R[j] \in S /\ p[R[j]].first = R[j] /\ R[R[j]] = R[j]
          /\ (p[j].first = j) <=> (R[j] = j)
      BY <1>1, RootFacts
    <2>2. /\ p[j].first \in S /\ p[j].second \in 0 .. 3 /\ O[j] \in 0 .. 3
          /\ (p[j].first = j => p[j].second = 0)
      BY DEF Forest, TurnsOf
    <2>3. R[j] = IF p[j].first = j THEN j ELSE R[p[j].first]
      BY DEF RootsOf, RootEq
    <2>4. O[j] = IF p[j].first = j THEN p[j].second ELSE (p[j].second + O[p[j].first]) % 4
      BY DEF TurnsOf, TurnEq
    <2>. QED  BY <2>1, <2>2, <2>3, <2>4
  <1>3. \A x, y, z \in 0 .. 3 : /\ (x + y) % 4 \in 0 .. 3
                              /\ (((x + y) % 4) + z) % 4 = (x + ((y + z) % 4)) % 4
                              /\ (0 + z) % 4 = z /\ (z + 0) % 4 = z
    OBVIOUS
  <1>4. /\ q \in [S -> [first : S, second : 0 .. 3]]
        /\ q[a].first = b /\ q[a].second = t
        /\ \A j \in S : j # a => q[j] = p[j]
    BY <1>0 DEF Forest
  <1> DEFINE g == [j \in S |-> IF R[j] = a THEN h[j] + h[b] + 1 ELSE h[j]]
  <1>5. Falls(S, q, g)
    <2>1. ASSUME NEW j \in S PROVE g[j] \in Nat /\ h[j] \in Nat /\ h[b] \in Nat
      BY <1>1 DEF Falls
    <2>2. ASSUME NEW j \in S, q[j].first # j PROVE g[q[j].first] < g[j]
      <3>1. CASE j = a
        <4>1. g[a] = h[a] + h[b] + 1 /\ g[b] = h[b]
          OBVIOUS
        <4>2. g[b] < g[a]
          BY <2>1, <4>1
        <4>. QED  BY <1>4, <3>1, <4>2
      <3>2. CASE j # a
        <4> DEFINE i == p[j].first
        <4>1. q[j].first = i /\ i # j /\ i \in S /\ R[i] = R[j] /\ h[i] < h[j]
          BY <1>1, <1>2, <1>4, <2>2, <3>2 DEF Falls
        <4>2. h[i] \in Nat /\ h[j] \in Nat /\ h[b] \in Nat
          BY <2>1, <4>1
        <4>3. g[i] < g[j]
          BY <4>1, <4>2
        <4>. QED  BY <4>1, <4>3
      <3>. QED  BY <3>1, <3>2
    <2>. QED  BY <2>1, <2>2 DEF Falls
  <1>6. Forest(S, q)
    <2>1. \A j \in S : q[j].first = j => q[j].second = 0
      BY <1>2, <1>4
    <2>. QED  BY <1>4, <1>5, <2>1 DEF Forest
  <1>7. ASSUME NEW j \in S
        PROVE  /\ Q[j] \in S /\ Q[j] = IF q[j].first = j THEN j ELSE Q[q[j].first]
               /\ T[j] \in 0 .. 3
               /\ T[j] = IF q[j].first = j THEN q[j].second ELSE (q[j].second + T[q[j].first]) % 4
    <2>1. Q[j] \in S /\ T[j] \in 0 .. 3
      BY <1>0, <1>2, <1>3
    <2>2. CASE j = a
      <3>1. Q[a] = b /\ Q[b] = b /\ T[b] = O[b] /\ O[b] = 0 /\ O[a] = 0
        BY <1>0, <1>2
      <3>2. T[a] = (0 + t) % 4 /\ (0 + t) % 4 = t /\ (t + 0) % 4 = t
        BY <1>0, <1>3, <3>1
      <3>. QED  BY <1>4, <2>1, <2>2, <3>1, <3>2
    <2>3. CASE j # a /\ p[j].first = j
      <3>1. R[j] = j /\ q[j] = p[j] /\ Q[j] = j /\ T[j] = O[j] /\ O[j] = p[j].second
        BY <1>0, <1>2, <1>4, <2>3
      <3>. QED  BY <2>1, <2>3, <3>1
    <2>4. CASE j # a /\ p[j].first # j
      <3> DEFINE i == p[j].first
      <3>1. q[j] = p[j] /\ i \in S /\ R[i] = R[j] /\ O[j] = (p[j].second + O[i]) % 4 /\ i # j
        BY <1>2, <1>4, <2>4
      <3>2. Q[j] = Q[i]
        BY <1>0, <3>1
      <3>3. T[j] = (p[j].second + T[i]) % 4
        <4>1. CASE R[j] = a
          <5>1. T[j] = (O[j] + t) % 4 /\ T[i] = (O[i] + t) % 4
            BY <1>0, <3>1, <4>1
          <5>2. PICK x \in 0 .. 3 : x = p[j].second
            BY <1>2
          <5>3. PICK y \in 0 .. 3 : y = O[i]
            BY <1>2, <3>1
          <5>4. T[j] = (((x + y) % 4) + t) % 4 /\ T[i] = (y + t) % 4
            BY ONLY <3>1, <5>1, <5>2, <5>3
          <5>5. (((x + y) % 4) + t) % 4 = (x + ((y + t) % 4)) % 4
            BY ONLY <1>3, t \in 0 .. 3, x \in 0 .. 3, y \in 0 .. 3
          <5>6. T[j] = (x + T[i]) % 4
            <6>1. PICK u \in 0 .. 3 : u = T[i]
              BY <1>0, <1>2, <1>3, <3>1, <4>1
            <6>2. PICK v : v = T[j]
              OBVIOUS
            <6>3. u = (y + t) % 4 /\ v = (((x + y) % 4) + t) % 4
              BY ONLY <5>4, <6>1, <6>2
            <6>4. v = (x + u) % 4
              BY ONLY <5>5, <6>3
            <6>. QED  BY ONLY <6>1, <6>2, <6>4
          <5>. QED  BY ONLY <5>2, <5>6
        <4>2. CASE R[j] # a
          <5>1. T[j] = O[j] /\ T[i] = O[i]
            BY <1>0, <3>1, <4>2
          <5>. QED  BY ONLY <3>1, <5>1
        <4>. QED  BY <4>1, <4>2
      <3>. QED  BY <2>1, <3>1, <3>2, <3>3
    <2>. QED  BY <2>2, <2>3, <2>4
  <1>8. RootsOf(S, q, Q) /\ TurnsOf(S, q, T)
    <2>1. Q \in [S -> S] /\ T \in [S -> 0 .. 3]
      BY <1>0, <1>7
    <2>. QED  BY <1>7, <2>1 DEF RootsOf, RootEq, TurnsOf, TurnEq
  <1>. QED  BY <1>0, <1>6, <1>8

(* The functions of a forest are the only ones with their equations.         *)
LEMMA WaysAre ==
  ASSUME NEW S, NEW p, Forest(S, p), NEW R, RootsOf(S, p, R), NEW O, TurnsOf(S, p, O)
  PROVE  RootFn(S, p) = R /\ TurnFn(S, p) = O
  <1>1. RootsOf(S, p, RootFn(S, p)) /\ TurnsOf(S, p, TurnFn(S, p))
    BY WaysExist
  <1>2. \A j \in S : RootFn(S, p)[j] = R[j] /\ TurnFn(S, p)[j] = O[j]
    BY <1>1, RootsUnique, TurnsUnique DEF RootsOf, TurnsOf
  <1>3. /\ R \in [S -> S] /\ RootFn(S, p) \in [S -> S]
        /\ O \in [S -> 0 .. 3] /\ TurnFn(S, p) \in [S -> 0 .. 3]
    BY <1>1 DEF RootsOf, TurnsOf
  <1>. QED  BY ONLY <1>2, <1>3

(* The turns along the links add up to those between the nodes, ...          *)
Aligned(R, O, L) ==
  \A l \in L : R[l.from] = R[l.to] /\ (O[l.from] - O[l.to]) % 4 = l.turn

(* ... and no set of nodes parts two nodes of a tree without parting a link. *)
Crosses(P, l) ==
  \/ l.from \in P /\ l.to \notin P
  \/ l.to \in P /\ l.from \notin P

Spanned(S, R, L) ==
  \A j, k \in S : R[j] = R[k] =>
    \A P \in SUBSET S : j \in P /\ k \notin P =>
      \E l \in L : Crosses(P, l)

(* A node turned as a link asks for, whatever its root was turned by before. *)
LEMMA TurnedBack ==
  ASSUME NEW u \in 0 .. 3, NEW v \in 0 .. 3, NEW x \in 0 .. 3, NEW y \in 0 .. 3
  PROVE  /\ (((v + ((x - y + u - v + 8) % 4)) % 4) - u) % 4 = (x - y) % 4
         /\ (u - ((v + ((x - y + u - v + 8) % 4)) % 4)) % 4 = (y - x) % 4
  <1>0. \A z \in Int : \E r \in 0 .. 3, j \in Int : r = z % 4 /\ z = 4 * j + r
    OBVIOUS
  <1>1. PICK w \in 0 .. 3, k \in Int : w = (x - y + u - v + 8) % 4 /\ x - y + u - v + 8 = 4 * k + w
    <2>1. x - y + u - v + 8 \in Int
      OBVIOUS
    <2>. QED  BY <1>0, <2>1
  <1>2. PICK s \in 0 .. 3, m \in Int : s = (v + w) % 4 /\ v + w = 4 * m + s
    <2>1. v + w \in Int
      OBVIOUS
    <2>. QED  BY <1>0, <2>1
  <1>3. PICK n \in Int : n = 2 - k - m
    OBVIOUS
  <1>4. s - u = (x - y) + 4 * n /\ u - s = (y - x) + 4 * (-n)
    BY <1>1, <1>2, <1>3
  <1>5. ASSUME NEW d \in Int, NEW j \in Int PROVE (d + 4 * j) % 4 = d % 4
    OBVIOUS
  <1>6. (s - u) % 4 = (x - y) % 4 /\ (u - s) % 4 = (y - x) % 4
    <2>1. x - y \in Int /\ y - x \in Int /\ -n \in Int
      OBVIOUS
    <2>. QED  BY <1>4, <1>5, <2>1
  <1>. QED  BY ONLY <1>1, <1>2, <1>6

Quarter == 0 .. 3
TurnsApart(x, y) == (x - y) % 4
TurnsOnto(x, y, u, v) == (x - y + u - v + 8) % 4

(* When the tree of one node is hung from the root of another, turned as a   *)
(* link between the two asks for, all links are still kept.                  *)
LEMMA TreesJoined ==
  ASSUME NEW S, NEW R \in [S -> S], NEW O \in [S -> Quarter],
         NEW L \in SUBSET [from : S, to : S, turn : Quarter],
         Aligned(R, O, L), Spanned(S, R, L),
         NEW f \in S, NEW g \in S, R[f] # R[g], NEW x \in Quarter, NEW y \in Quarter,
         NEW l \in [from : S, to : S, turn : Quarter],
         \/ l = [from |-> f, to |-> g, turn |-> TurnsApart(x, y)]
         \/ l = [from |-> g, to |-> f, turn |-> TurnsApart(y, x)]
  PROVE  /\ Aligned(HungRoots(S, R, R[f], R[g]),
                    HungTurns(S, R, O, R[f], TurnsOnto(x, y, O[g], O[f])), L \union {l})
         /\ Spanned(S, HungRoots(S, R, R[f], R[g]), L \union {l})
  <1> USE DEF Quarter
  <1> DEFINE t == TurnsOnto(x, y, O[g], O[f])
  <1>0. PICK Q, T :
          /\ Q = HungRoots(S, R, R[f], R[g]) /\ T = HungTurns(S, R, O, R[f], t)
          /\ Q = [j \in S |-> IF R[j] = R[f] THEN R[g] ELSE R[j]]
          /\ T = [j \in S |-> IF R[j] = R[f] THEN (O[j] + t) % 4 ELSE O[j]]
    BY DEF HungRoots, HungTurns
  <1>1. \A u, v \in 0 .. 3 :
          /\ (((v + ((x - y + u - v + 8) % 4)) % 4) - u) % 4 = (x - y) % 4
          /\ (u - ((v + ((x - y + u - v + 8) % 4)) % 4)) % 4 = (y - x) % 4
    BY TurnedBack
  <1>2. \A u, v, w \in 0 .. 3 : (((u + w) % 4) - ((v + w) % 4)) % 4 = (u - v) % 4
    <2> SUFFICES ASSUME NEW u \in 0 .. 3, NEW v \in 0 .. 3, NEW w \in 0 .. 3
                 PROVE  (((u + w) % 4) - ((v + w) % 4)) % 4 = (u - v) % 4
      OBVIOUS
    <2>. QED  BY ONLY u \in 0 .. 3, v \in 0 .. 3, w \in 0 .. 3
  <1>3. PICK u \in 0 .. 3 : u = O[g]
    OBVIOUS
  <1>4. PICK v \in 0 .. 3 : v = O[f]
    OBVIOUS
  <1>5. PICK w \in 0 .. 3 : w = t
    <2>1. (x - y + u - v + 8) % 4 \in 0 .. 3
      OBVIOUS
    <2>2. t = (x - y + u - v + 8) % 4
      BY <1>3, <1>4 DEF TurnsOnto
    <2>. QED  BY <2>1, <2>2
  <1>6. w = (x - y + u - v + 8) % 4
    BY <1>3, <1>4, <1>5 DEF TurnsOnto
  <1>7. Q[f] = R[g] /\ Q[g] = R[g] /\ T[f] = (v + w) % 4 /\ T[g] = u
    <2>1. Q[f] = R[g] /\ Q[g] = R[g] /\ T[f] = (O[f] + t) % 4 /\ T[g] = O[g]
      BY <1>0
    <2>. QED  BY ONLY <2>1, <1>3, <1>4, <1>5
  <1>8. (T[f] - T[g]) % 4 = (x - y) % 4 /\ (T[g] - T[f]) % 4 = (y - x) % 4
    <2>1. /\ (((v + w) % 4) - u) % 4 = (x - y) % 4
          /\ (u - ((v + w) % 4)) % 4 = (y - x) % 4
      BY ONLY <1>1, <1>6, u \in 0 .. 3, v \in 0 .. 3
    <2>2. PICK a : a = (v + w) % 4
      OBVIOUS
    <2>3. /\ (a - u) % 4 = (x - y) % 4 /\ (u - a) % 4 = (y - x) % 4
          /\ T[f] = a /\ T[g] = u
      BY ONLY <1>7, <2>1, <2>2
    <2>. QED  BY ONLY <2>3
  <1>9. ASSUME NEW m \in L
        PROVE  Q[m.from] = Q[m.to] /\ (T[m.from] - T[m.to]) % 4 = m.turn
    <2>1. /\ m.from \in S /\ m.to \in S /\ R[m.from] = R[m.to]
          /\ (O[m.from] - O[m.to]) % 4 = m.turn
      BY DEF Aligned
    <2>2. Q[m.from] = Q[m.to]
      BY <1>0, <2>1
    <2>3. CASE R[m.from] = R[f]
      <3>1. PICK a \in 0 .. 3 : a = O[m.from]
        BY <2>1
      <3>2. PICK b \in 0 .. 3 : b = O[m.to]
        BY <2>1
      <3>3. T[m.from] = (a + w) % 4 /\ T[m.to] = (b + w) % 4
        <4>1. T[m.from] = (O[m.from] + t) % 4 /\ T[m.to] = (O[m.to] + t) % 4
          BY <1>0, <2>1, <2>3
        <4>. QED  BY ONLY <4>1, <3>1, <3>2, <1>5
      <3>4. PICK c : c = (a + w) % 4
        OBVIOUS
      <3>5. PICK d : d = (b + w) % 4
        OBVIOUS
      <3>6. (c - d) % 4 = (a - b) % 4
        BY ONLY <1>2, <3>4, <3>5, a \in 0 .. 3, b \in 0 .. 3, w \in 0 .. 3
      <3>7. (a - b) % 4 = m.turn
        BY ONLY <2>1, <3>1, <3>2
      <3>8. T[m.from] = c /\ T[m.to] = d
        BY ONLY <3>3, <3>4, <3>5
      <3>9. (c - d) % 4 = m.turn
        BY ONLY <3>6, <3>7
      <3>. QED  BY ONLY <2>2, <3>8, <3>9
    <2>4. CASE R[m.from] # R[f]
      <3>1. T[m.from] = O[m.from] /\ T[m.to] = O[m.to]
        BY <1>0, <2>1, <2>4
      <3>. QED  BY ONLY <2>1, <2>2, <3>1
    <2>. QED  BY <2>3, <2>4
  <1>10. Q[l.from] = Q[l.to] /\ (T[l.from] - T[l.to]) % 4 = l.turn
    <2>1. CASE l = [from |-> f, to |-> g, turn |-> TurnsApart(x, y)]
      <3>1. l.from = f /\ l.to = g /\ l.turn = (x - y) % 4
        BY <2>1 DEF TurnsApart
      <3>. QED  BY ONLY <3>1, <1>7, <1>8
    <2>2. CASE l = [from |-> g, to |-> f, turn |-> TurnsApart(y, x)]
      <3>1. l.from = g /\ l.to = f /\ l.turn = (y - x) % 4
        BY <2>2 DEF TurnsApart
      <3>. QED  BY ONLY <3>1, <1>7, <1>8
    <2>. QED  BY <2>1, <2>2
  <1>11. Aligned(Q, T, L \union {l})
    BY <1>9, <1>10 DEF Aligned
  <1>12. ASSUME NEW j \in S, NEW k \in S, R[j] = R[k], NEW P \in SUBSET S, j \in P, k \notin P
         PROVE  \E m \in L : Crosses(P, m)
    BY <1>12 DEF Spanned
  <1>13. ASSUME NEW j \in S, NEW k \in S, Q[j] = Q[k], NEW P \in SUBSET S, j \in P, k \notin P
         PROVE  \E m \in L \union {l} : Crosses(P, m)
    <2>1. CASE R[j] = R[k]
      BY <1>12, <1>13, <2>1
    <2>2. CASE R[j] = R[f] /\ R[k] = R[g]
      <3>1. f \in P \/ \E m \in L : Crosses(P, m)
        BY <1>12, <1>13, <2>2
      <3>2. g \notin P \/ \E m \in L : Crosses(P, m)
        BY <1>12, <1>13, <2>2
      <3>3. (l.from = f /\ l.to = g) \/ (l.from = g /\ l.to = f)
        OBVIOUS
      <3>. QED  BY <3>1, <3>2, <3>3 DEF Crosses
    <2>3. CASE R[j] = R[g] /\ R[k] = R[f]
      <3>1. g \in P \/ \E m \in L : Crosses(P, m)
        BY <1>12, <1>13, <2>3
      <3>2. f \notin P \/ \E m \in L : Crosses(P, m)
        BY <1>12, <1>13, <2>3
      <3>3. (l.from = f /\ l.to = g) \/ (l.from = g /\ l.to = f)
        OBVIOUS
      <3>. QED  BY <3>1, <3>2, <3>3 DEF Crosses
    <2>4. R[j] = R[k] \/ (R[j] = R[f] /\ R[k] = R[g]) \/ (R[j] = R[g] /\ R[k] = R[f])
      BY <1>0, <1>13
    <2>. QED  BY <2>1, <2>2, <2>3, <2>4
  <1>14. Spanned(S, Q, L \union {l})
    BY <1>13 DEF Spanned
  <1>. QED  BY ONLY <1>0, <1>11, <1>14
=============================================================================
