---- MODULE MCQuadRepair ----
(* All parts of a cube; two poles of six kites each, whole and with holes,   *)
(* and three quarters of the kites of one pole; a torus with holes that meet *)
(* at a vertex; tubes of an odd length around; faces around vertices of      *)
(* valence two, and a face and its back.                                     *)
EXTENDS QuadRepair

Without(fs, S) ==
  LET kept == SelectSeq([i \in DOMAIN fs |-> i], LAMBDA i : i \notin S)
  IN  [k \in DOMAIN kept |-> fs[kept[k]]]

Cube == <<<<1, 2, 3, 4>>, <<8, 7, 6, 5>>, <<1, 5, 6, 2>>, <<2, 6, 7, 3>>,
          <<3, 7, 8, 4>>, <<4, 8, 5, 1>>>>

(* Kites around vertices 1 and 2; their other vertices are on a ring.        *)
Ring(n, i)  == 3 + (i % (2 * n))
Upper(n)    == [k \in 1 .. n |-> <<1, Ring(n, 2*k), Ring(n, 2*k + 1), Ring(n, 2*k + 2)>>]
Lower(n)    == [k \in 1 .. n |-> <<2, Ring(n, 2*k + 1), Ring(n, 2*k), Ring(n, 2*k - 1)>>]
Poles(n)    == Upper(n) \o Lower(n)

(* A grid that is closed in one direction, and in the other if h = 0.        *)
Grid(n, m, h) ==
  LET At(x, y) == 1 + (x % n) + n * (IF h = 0 THEN y % m ELSE y)
  IN  [k \in 1 .. (n * m) |->
         LET x == (k - 1) % n y == (k - 1) \div n
         IN  <<At(x, y), At(x + 1, y), At(x + 1, y + 1), At(x, y + 1)>>]

Two      == <<<<1, 2, 3, 9>>, <<1, 9, 3, 10>>, <<1, 10, 3, 4>>>>
TwoSided == <<<<1, 2, 3, 4>>, <<4, 3, 2, 1>>>>

MCMeshes ==
  {Without(Cube, S) : S \in {S \in SUBSET (1 .. 6) : Cardinality(S) < 6}}
  \union {Without(Poles(6), S) : S \in {{}, {1}, {1, 2}, {1, 7}, {7}, {1, 3}}}
  \union {Without(Upper(8), {1, 2}), Without(Upper(12), {1, 7})}
  \union {Without(Grid(3, 3, 0), S) : S \in {{1, 5}, {1, 2}, {1, 2, 4}, {1, 2, 5}}}
  \union {Grid(5, 1, 1), Grid(3, 1, 1)}
  \union {Two \o Tail(Cube), TwoSided \o <<<<2, 2, 3, 4>>>>}
====
