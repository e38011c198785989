---------------------- MODULE IntegerConstraintsProofs ----------------------
(***************************************************************************)
(* Proofs about the integer equations and their balancing, for every mesh  *)
(* that satisfies MeshesAssumption, and about the disjoint tree that makes *)
(* the meshes satisfy it.                                                  *)
(***************************************************************************)
EXTENDS IntegerConstraints, FaceFrames, FlowNetwork, FiniteSetTheorems, RecursionTheorems, TLAPS

-----------------------------------------------------------------------------
(***************************************************************************)
(* What an equation counts: for each corner of its face one variable, with *)
(* a sign.                                                                 *)
(***************************************************************************)
Sign(turn, c) == IF turn = 2 \/ (turn = 1 /\ c = 1) \/ (turn = 3 /\ c = 2) THEN -1 ELSE 1
Coordinate(turn, c) == IF turn \in {1, 3} THEN 3 - c ELSE c
Signed(s, x) == IF s = 1 THEN x ELSE -x

Counted(eq, j) == <<mesh.F2E[eq[1]][j], Coordinate(mesh.FQ[eq[1]][j], eq[2])>>
SignAt(eq, j) == Sign(mesh.FQ[eq[1]][j], eq[2])
UseAt(eq, j) == <<<<eq[1], j>>, eq[2], SignAt(eq, j)>>

Integral(diff) == \A v \in Variable : diff[v[1]][v[2]] \in Int

(* A quarter turn swaps coordinates or not, and changes the sign or not.     *)
LEMMA PairTurned ==
  ASSUME NEW x, x[1] \in Int, x[2] \in Int, NEW turn \in 0 .. 3, NEW c \in {1, 2}
  PROVE  /\ rshift90(x, turn)[c] = Signed(Sign(turn, c), x[Coordinate(turn, c)])
         /\ Coordinate(turn, c) \in {1, 2} /\ Sign(turn, c) \in {-1, 1}
  <1>1. Coordinate(turn, c) \in {1, 2} /\ Sign(turn, c) \in {-1, 1}
    BY DEF Coordinate, Sign
  <1>2. CASE turn = 0
    BY <1>1, <1>2 DEF rshift90, Signed, Sign, Coordinate
  <1>3. CASE turn = 1
    <2>1. CASE c = 1
      BY <1>1, <1>3, <2>1 DEF rshift90, Signed, Sign, Coordinate
    <2>2. CASE c = 2
      BY <1>1, <1>3, <2>2 DEF rshift90, Signed, Sign, Coordinate
    <2>. QED  BY <2>1, <2>2
  <1>4. CASE turn = 2
    <2>1. CASE c = 1
      BY <1>1, <1>4, <2>1 DEF rshift90, Signed, Sign, Coordinate
    <2>2. CASE c = 2
      BY <1>1, <1>4, <2>2 DEF rshift90, Signed, Sign, Coordinate
    <2>. QED  BY <2>1, <2>2
  <1>5. CASE turn = 3
    <2>1. CASE c = 1
      BY <1>1, <1>5, <2>1 DEF rshift90, Signed, Sign, Coordinate
    <2>2. CASE c = 2
      BY <1>1, <1>5, <2>2 DEF rshift90, Signed, Sign, Coordinate
    <2>. QED  BY <2>1, <2>2
  <1>. QED  BY <1>2, <1>3, <1>4, <1>5

LEMMA MeshFacts ==
  ASSUME mesh \in Meshes
  PROVE  /\ Len(mesh.F2E) \in Nat /\ Len(mesh.diff) \in Nat
         /\ \A f \in Face, j \in 1 .. 3 : mesh.F2E[f][j] \in Edge /\ mesh.FQ[f][j] \in 0 .. 3
         /\ Integral(mesh.diff)
         /\ mesh.feature \subseteq Edge
  <1>1. /\ mesh.diff \in Seq(Int \X Int)
        /\ mesh.F2E \in Seq([1 .. 3 -> 1 .. Len(mesh.diff)])
        /\ mesh.FQ \in [1 .. Len(mesh.F2E) -> [1 .. 3 -> 0 .. 3]]
        /\ mesh.feature \subseteq 1 .. Len(mesh.diff)
    BY MeshesAssumption DEF Surface
  <1>2. \A e \in Edge : mesh.diff[e] \in Int \X Int
    BY <1>1 DEF Edge
  <1>3. Integral(mesh.diff)
    BY <1>2 DEF Integral, Variable
  <1>4. ASSUME NEW f \in Face
        PROVE  mesh.F2E[f] \in [1 .. 3 -> Edge] /\ mesh.FQ[f] \in [1 .. 3 -> 0 .. 3]
    <2> DEFINE F2E == mesh.F2E
               FQ == mesh.FQ
    <2>1. F2E \in Seq([1 .. 3 -> Edge]) /\ f \in 1 .. Len(F2E)
          /\ FQ \in [1 .. Len(F2E) -> [1 .. 3 -> 0 .. 3]]
      BY <1>1 DEF Face, Edge
    <2> HIDE DEF F2E, FQ
    <2>2. F2E[f] \in [1 .. 3 -> Edge] /\ FQ[f] \in [1 .. 3 -> 0 .. 3]
      BY <2>1
    <2>. QED  BY <2>2 DEF F2E, FQ
  <1>5. Len(mesh.F2E) \in Nat /\ Len(mesh.diff) \in Nat
    BY <1>1
  <1>6. \A f \in Face, j \in 1 .. 3 : mesh.F2E[f][j] \in Edge /\ mesh.FQ[f][j] \in 0 .. 3
    BY <1>4
  <1>. QED  BY <1>1, <1>3, <1>5, <1>6 DEF Edge

(* The variable and the sign at a corner; the variable gives back which      *)
(* equation of the face it is.                                               *)
LEMMA CountedFacts ==
  ASSUME mesh \in Meshes, NEW eq \in Equation, NEW j \in 1 .. 3
  PROVE  /\ Counted(eq, j) \in Variable /\ SignAt(eq, j) \in {-1, 1}
         /\ \A diff : Integral(diff) =>
              /\ rshift90(diff[mesh.F2E[eq[1]][j]], mesh.FQ[eq[1]][j])[eq[2]]
                   = Signed(SignAt(eq, j), diff[Counted(eq, j)[1]][Counted(eq, j)[2]])
              /\ diff[Counted(eq, j)[1]][Counted(eq, j)[2]] \in Int
         /\ \A p \in Equation :
              p[1] = eq[1] /\ Counted(p, j) = Counted(eq, j) => p = eq
  <1>1. /\ eq[1] \in Face /\ eq[2] \in {1, 2} /\ eq = <<eq[1], eq[2]>>
        /\ mesh.F2E[eq[1]][j] \in Edge /\ mesh.FQ[eq[1]][j] \in 0 .. 3
    BY MeshFacts DEF Equation
  <1>2. Counted(eq, j) \in Variable /\ SignAt(eq, j) \in {-1, 1}
    BY <1>1 DEF Counted, SignAt, Sign, Coordinate, Variable
  <1>3. ASSUME NEW diff, Integral(diff)
        PROVE  /\ rshift90(diff[mesh.F2E[eq[1]][j]], mesh.FQ[eq[1]][j])[eq[2]]
                    = Signed(SignAt(eq, j), diff[Counted(eq, j)[1]][Counted(eq, j)[2]])
               /\ diff[Counted(eq, j)[1]][Counted(eq, j)[2]] \in Int
    <2> DEFINE x == diff[mesh.F2E[eq[1]][j]]
    <2>1. <<mesh.F2E[eq[1]][j], 1>> \in Variable /\ <<mesh.F2E[eq[1]][j], 2>> \in Variable
      BY <1>1 DEF Variable
    <2>2. x[1] \in Int /\ x[2] \in Int
      BY <1>3, <2>1 DEF Integral
    <2> HIDE DEF x
    <2>3. rshift90(x, mesh.FQ[eq[1]][j])[eq[2]]
            = Signed(Sign(mesh.FQ[eq[1]][j], eq[2]), x[Coordinate(mesh.FQ[eq[1]][j], eq[2])])
      BY <1>1, <2>2, PairTurned
    <2>. QED  BY <1>2, <1>3, <2>3 DEF x, Counted, SignAt, Integral
  <1>4. ASSUME NEW p \in Equation, p[1] = eq[1], Counted(p, j) = Counted(eq, j)
        PROVE  p = eq
    <2>1. p = <<p[1], p[2]>> /\ p[2] \in {1, 2}
      BY DEF Equation
    <2>2. Coordinate(mesh.FQ[eq[1]][j], p[2]) = Coordinate(mesh.FQ[eq[1]][j], eq[2])
      BY <1>4 DEF Counted
    <2>3. p[2] = eq[2]
      BY <1>1, <2>1, <2>2 DEF Coordinate
    <2>. QED  BY <1>1, <1>4, <2>1, <2>3
  <1>. QED  BY <1>2, <1>3, <1>4

LEMMA ResidualIs ==
  ASSUME mesh \in Meshes, NEW diff, Integral(diff), NEW eq \in Equation
  PROVE  /\ Residual(diff, eq) =
              Signed(SignAt(eq, 1), diff[Counted(eq, 1)[1]][Counted(eq, 1)[2]]) +
              Signed(SignAt(eq, 2), diff[Counted(eq, 2)[1]][Counted(eq, 2)[2]]) +
              Signed(SignAt(eq, 3), diff[Counted(eq, 3)[1]][Counted(eq, 3)[2]])
         /\ Residual(diff, eq) \in Int
  <1>1. \A j \in 1 .. 3 :
          /\ rshift90(diff[mesh.F2E[eq[1]][j]], mesh.FQ[eq[1]][j])[eq[2]]
               = Signed(SignAt(eq, j), diff[Counted(eq, j)[1]][Counted(eq, j)[2]])
          /\ Signed(SignAt(eq, j), diff[Counted(eq, j)[1]][Counted(eq, j)[2]]) \in Int
    BY CountedFacts, SMTT(60) DEF Signed
  <1>. QED  BY <1>1, SMTT(60) DEF Residual

(* The uses of a variable are the corners at which it is counted.            *)
LEMMA UsesAre ==
  ASSUME mesh \in Meshes, NEW v \in Variable
  PROVE  /\ \A eq \in Equation, j \in 1 .. 3 :
              /\ Counted(eq, j) = v => UseAt(eq, j) \in Uses(v)
              /\ Used(UseAt(eq, j)) = eq
         /\ \A u \in Uses(v) :
              /\ Used(u) \in Equation /\ u[1][2] \in 1 .. 3
              /\ Counted(Used(u), u[1][2]) = v /\ u = UseAt(Used(u), u[1][2])
  <1>1. /\ v[1] \in Edge /\ v[2] \in {1, 2} /\ v = <<v[1], v[2]>>
    BY DEF Variable
  <1>2. Unit(v[2])[1] \in Int /\ Unit(v[2])[2] \in Int
        /\ \A c \in {1, 2} : Unit(v[2])[c] = IF c = v[2] THEN 1 ELSE 0
    BY <1>1 DEF Unit
  <1>3. ASSUME NEW eq \in Equation, NEW j \in 1 .. 3
        PROVE  /\ eq[1] \in Face /\ eq[2] \in {1, 2} /\ eq = <<eq[1], eq[2]>>
               /\ rshift90(Unit(v[2]), mesh.FQ[eq[1]][j])[eq[2]]
                    = IF Coordinate(mesh.FQ[eq[1]][j], eq[2]) = v[2] THEN SignAt(eq, j) ELSE 0
               /\ SignAt(eq, j) \in {-1, 1}
    <2>1. eq[1] \in Face /\ eq[2] \in {1, 2} /\ eq = <<eq[1], eq[2]>> /\ mesh.FQ[eq[1]][j] \in 0 .. 3
      BY MeshFacts DEF Equation
    <2>2. /\ rshift90(Unit(v[2]), mesh.FQ[eq[1]][j])[eq[2]]
               = Signed(SignAt(eq, j), Unit(v[2])[Coordinate(mesh.FQ[eq[1]][j], eq[2])])
          /\ Coordinate(mesh.FQ[eq[1]][j], eq[2]) \in {1, 2} /\ SignAt(eq, j) \in {-1, 1}
      BY <1>2, <2>1, PairTurned DEF SignAt
    <2>. QED  BY <1>2, <2>1, <2>2 DEF Signed
  <1>4. ASSUME NEW eq \in Equation, NEW j \in 1 .. 3
        PROVE  Used(UseAt(eq, j)) = eq
    BY <1>3 DEF Used, UseAt
  <1>5. ASSUME NEW eq \in Equation, NEW j \in 1 .. 3, Counted(eq, j) = v
        PROVE  UseAt(eq, j) \in Uses(v)
    BY <1>1, <1>3, <1>5 DEF UseAt, Uses, Counted
  <1>6. ASSUME NEW u \in Uses(v)
        PROVE  /\ Used(u) \in Equation /\ u[1][2] \in 1 .. 3
               /\ Counted(Used(u), u[1][2]) = v /\ u = UseAt(Used(u), u[1][2])
    <2>1. /\ u[1][1] \in Face /\ u[1][2] \in 1 .. 3 /\ u[2] \in {1, 2} /\ u[3] \in {-1, 1}
          /\ u = <<<<u[1][1], u[1][2]>>, u[2], u[3]>>
          /\ mesh.F2E[u[1][1]][u[1][2]] = v[1]
          /\ rshift90(Unit(v[2]), mesh.FQ[u[1][1]][u[1][2]])[u[2]] = u[3]
      BY DEF Uses
    <2>2. Used(u) \in Equation /\ Used(u)[1] = u[1][1] /\ Used(u)[2] = u[2]
      BY <2>1 DEF Used, Equation
    <2>3. /\ Coordinate(mesh.FQ[Used(u)[1]][u[1][2]], Used(u)[2]) = v[2]
          /\ SignAt(Used(u), u[1][2]) = u[3]
      <3>1. /\ rshift90(Unit(v[2]), mesh.FQ[Used(u)[1]][u[1][2]])[Used(u)[2]]
                 = IF Coordinate(mesh.FQ[Used(u)[1]][u[1][2]], Used(u)[2]) = v[2]
                   THEN SignAt(Used(u), u[1][2]) ELSE 0
            /\ SignAt(Used(u), u[1][2]) \in {-1, 1}
        BY <1>3, <2>1, <2>2
      <3>2. u[3] # 0 /\ rshift90(Unit(v[2]), mesh.FQ[Used(u)[1]][u[1][2]])[Used(u)[2]] = u[3]
        BY <2>1, <2>2
      <3>. QED  BY ONLY <3>1, <3>2
    <2>. QED  BY <1>1, <2>1, <2>2, <2>3 DEF UseAt, Counted
  <1>. QED  BY <1>4, <1>5, <1>6

(* Two uses of a variable are two corners of its edge.                       *)
LEMMA UsesMeet ==
  ASSUME mesh \in Meshes, NEW v \in Variable, NEW u \in Uses(v), NEW w \in Uses(v)
  PROVE  /\ u[1] \in Corner(mesh) /\ mesh.F2E[u[1][1]][u[1][2]] = v[1]
         /\ Used(u) = <<u[1][1], u[2]>> /\ u[2] \in {1, 2}
         /\ u # w => Meet(mesh, u[1], w[1])
  <1>1. ASSUME NEW y \in Uses(v)
        PROVE  /\ y[1] \in Corner(mesh) /\ mesh.F2E[y[1][1]][y[1][2]] = v[1]
               /\ Used(y) \in Equation /\ Used(y)[1] = y[1][1] /\ y[1][2] \in 1 .. 3
               /\ Counted(Used(y), y[1][2]) = v /\ y = UseAt(Used(y), y[1][2])
               /\ y[2] \in {1, 2}
    <2>1. /\ y[1] \in Face \X (1 .. 3) /\ mesh.F2E[y[1][1]][y[1][2]] = v[1] /\ y[2] \in {1, 2}
      BY DEF Uses
    <2>. QED  BY <2>1, UsesAre DEF Used, Corner, Face
  <1>2. ASSUME u[1] = w[1] PROVE u = w
    <2>1. Used(u) = Used(w)
      BY <1>1, <1>2, CountedFacts
    <2>2. u = UseAt(Used(u), u[1][2]) /\ w = UseAt(Used(w), w[1][2])
      BY <1>1
    <2>. QED  BY <1>2, <2>1, <2>2
  <1>3. u # w => Meet(mesh, u[1], w[1])
    BY <1>1, <1>2 DEF Meet
  <1>. QED  BY <1>1, <1>3 DEF Used

(* An edge has at most two corners, so a variable at most two uses.          *)
LEMMA TwoUses ==
  ASSUME mesh \in Meshes, NEW v \in Variable,
         NEW u \in Uses(v), NEW w \in Uses(v), u # w, NEW x \in Uses(v)
  PROVE  x = u \/ x = w
  <1>1. \A y, z \in Uses(v) : y[1] \in Corner(mesh) /\ (y # z => Meet(mesh, y[1], z[1]))
    BY UsesMeet
  <1>2. \A a, b, c \in Corner(mesh) : Meet(mesh, a, b) /\ Meet(mesh, a, c) => c = b
    BY MeshesAssumption DEF Surface
  <1>3. ASSUME x # u, x # w PROVE FALSE
    <2>1. Meet(mesh, u[1], w[1]) /\ Meet(mesh, u[1], x[1]) /\ Meet(mesh, x[1], w[1])
      BY <1>1, <1>3
    <2>2. x[1] = w[1]
      BY <1>1, <1>2, <2>1
    <2>. QED  BY <2>1, <2>2 DEF Meet
  <1>. QED  BY <1>3

LEMMA UsesAtMostTwo ==
  ASSUME mesh \in Meshes, NEW v \in Variable
  PROVE  \/ Uses(v) = {}
         \/ \E u, w \in Uses(v) : Uses(v) = {u, w}
  <1>1. CASE \E u, w \in Uses(v) : u # w
    BY <1>1, TwoUses
  <1>2. CASE ~ \E u, w \in Uses(v) : u # w
    BY <1>2
  <1>. QED  BY <1>1, <1>2

(* Of one use at most, a variable is counted by an equation only there.      *)
LEMMA HitsAreUses ==
  ASSUME mesh \in Meshes, NEW v \in Variable, NEW eq \in Equation, NEW j \in 1 .. 3
  PROVE  /\ Counted(eq, j) = v <=> \E u \in Uses(v) : Used(u) = eq /\ u[1][2] = j
         /\ \A u \in Uses(v) : Used(u) = eq /\ u[1][2] = j =>
              u = UseAt(eq, j) /\ SignAt(eq, j) = u[3]
  <1>1. UseAt(eq, j)[1][2] = j /\ UseAt(eq, j)[3] = SignAt(eq, j)
    BY DEF UseAt
  <1>. QED  BY <1>1, UsesAre

-----------------------------------------------------------------------------
(* The sum of the equations of a set.                                        *)
Residuals(diff) == [eq \in Equation |-> Residual(diff, eq)]

LEMMA FiniteCoordinates == IsFiniteSet({1, 2})
  <1>1. {1, 2} = {1} \union {2}
    OBVIOUS
  <1>2. IsFiniteSet({1} \union {2})
    BY FS_Singleton, FS_AddElement
  <1>. QED  BY <1>1, <1>2, Zenon

LEMMA FiniteEquations ==
  ASSUME mesh \in Meshes
  PROVE  IsFiniteSet(Equation) /\ \A c \in SUBSET Equation : IsFiniteSet(c)
  <1>1. Len(mesh.F2E) \in Int
    BY MeshFacts
  <1>2. IsFiniteSet(Face)
    BY ONLY <1>1, FS_Interval DEF Face
  <1>3. IsFiniteSet(Equation)
    BY ONLY <1>2, FiniteCoordinates, FS_Product DEF Equation
  <1>. QED  BY <1>3, FS_Subset

LEMMA FiniteVariables ==
  ASSUME mesh \in Meshes
  PROVE  IsFiniteSet(Variable)
  <1>1. Len(mesh.diff) \in Int
    BY MeshFacts
  <1>2. IsFiniteSet(Edge)
    BY ONLY <1>1, FS_Interval DEF Edge
  <1>. QED  BY ONLY <1>2, FiniteCoordinates, FS_Product DEF Variable

LEMMA ExcessIsSum ==
  ASSUME mesh \in Meshes, NEW diff, Integral(diff), NEW c \in SUBSET Equation
  PROVE  /\ Residuals(diff) \in [Equation -> Int]
         /\ Excess(diff, c) = SumOver(Residuals(diff), c)
         /\ Excess(diff, c) \in Int
  <1> DEFINE w == Residuals(diff)
             ByRes(it, s) == IF s = {} THEN 0 ELSE Residual(diff, AnyOf(s)) + it[s \ {AnyOf(s)}]
             ByW(it, s) == IF s = {} THEN 0 ELSE w[AnyOf(s)] + it[s \ {AnyOf(s)}]
  <1>1. \A s \in SUBSET c : s # {} => AnyOf(s) \in c
    BY Zenon DEF AnyOf
  <1>2. \A eq \in c : w[eq] = Residual(diff, eq)
    BY DEF Residuals
  <1>3. \A it : it = [s \in SUBSET c |-> ByRes(it, s)] <=> it = [s \in SUBSET c |-> ByW(it, s)]
    <2> HIDE DEF w
    <2>. QED  BY <1>1, <1>2
  <1>4. (CHOOSE it : it = [s \in SUBSET c |-> ByRes(it, s)])
          = (CHOOSE it : it = [s \in SUBSET c |-> ByW(it, s)])
    BY <1>3, Zenon
  <1>5. Excess(diff, c) = (CHOOSE it : it = [s \in SUBSET c |-> ByRes(it, s)])[c]
    BY DEF Excess, MapThenSumSet, MapThenFoldSet, AnyOf
  <1>6. SumOver(w, c) = (CHOOSE it : it = [s \in SUBSET c |-> ByW(it, s)])[c]
    BY DEF SumOver, MapThenSumSet, MapThenFoldSet, AnyOf
  <1>7. w \in [Equation -> Int]
    BY ResidualIs DEF Residuals
  <1>8. SumOver(w, c) \in Int
    BY <1>7, FiniteEquations, SumOverOne
  <1>. QED  BY <1>4, <1>5, <1>6, <1>7, <1>8

(* The signs of a variable's uses.                                           *)
LEMMA SignSumIs ==
  ASSUME mesh \in Meshes, NEW v \in Variable
  PROVE  /\ Uses(v) = {} => SignSum(v) = 0
         /\ \A u \in Uses(v) : Uses(v) = {u} => SignSum(v) = u[3]
         /\ \A u, w \in Uses(v) : u # w => SignSum(v) = u[3] + w[3]
         /\ \A u \in Uses(v) : u[3] \in {-1, 1}
  <1> DEFINE S == Uses(v)
             w == [u \in S |-> u[3]]
             BySign(it, s) == IF s = {} THEN 0 ELSE AnyOf(s)[3] + it[s \ {AnyOf(s)}]
             ByW(it, s) == IF s = {} THEN 0 ELSE w[AnyOf(s)] + it[s \ {AnyOf(s)}]
  <1>1. \A s \in SUBSET S : s # {} => AnyOf(s) \in S
    BY Zenon DEF AnyOf
  <1>2. \A it : it = [s \in SUBSET S |-> BySign(it, s)] <=> it = [s \in SUBSET S |-> ByW(it, s)]
    <2> HIDE DEF S
    <2>. QED  BY <1>1
  <1>3. (CHOOSE it : it = [s \in SUBSET S |-> BySign(it, s)])
          = (CHOOSE it : it = [s \in SUBSET S |-> ByW(it, s)])
    BY <1>2, Zenon
  <1>4. SignSum(v) = (CHOOSE it : it = [s \in SUBSET S |-> BySign(it, s)])[S]
    BY DEF SignSum, MapThenSumSet, MapThenFoldSet, AnyOf
  <1>5. SumOver(w, S) = (CHOOSE it : it = [s \in SUBSET S |-> ByW(it, s)])[S]
    BY DEF SumOver, MapThenSumSet, MapThenFoldSet, AnyOf
  <1>6. SignSum(v) = SumOver(w, S)
    BY <1>3, <1>4, <1>5
  <1>7. \A u \in S : u[3] \in {-1, 1}
    BY DEF Uses
  <1>8. w \in [S -> Int] /\ \A u \in S : w[u] = u[3]
    BY <1>7
  <1>9. IsFiniteSet(S)
    <2>1. CASE S = {}
      BY <2>1, FS_EmptySet
    <2>2. CASE \E u, x \in S : S = {u, x}
      <3>1. PICK u \in S, x \in S : S = {u} \union {x}
        BY <2>2
      <3>2. IsFiniteSet({u} \union {x})
        BY FS_Singleton, FS_AddElement
      <3>. QED  BY <3>1, <3>2, Zenon
    <2>. QED  BY <2>1, <2>2, UsesAtMostTwo
  <1> HIDE DEF w, S
  <1>10. /\ SumOver(w, {}) = 0
         /\ \A u \in S : SumOver(w, S) = w[u] + SumOver(w, S \ {u})
    BY <1>8, <1>9, SumOverOne
  <1>11. ASSUME S = {} PROVE SignSum(v) = 0
    BY <1>6, <1>10, <1>11
  <1>12. ASSUME NEW u \in S, S = {u} PROVE SignSum(v) = u[3]
    <2>1. S \ {u} = {}
      BY <1>12
    <2>. QED  BY <1>6, <1>7, <1>8, <1>10, <2>1
  <1>13. ASSUME NEW u \in S, NEW x \in S, u # x PROVE SignSum(v) = u[3] + x[3]
    <2>1. S = {u, x} /\ S \ {u} = {x}
      BY <1>13, TwoUses DEF S
    <2>2. SumOver(w, {x}) = w[x] + SumOver(w, {x} \ {x})
      <3>1. {x} \in SUBSET S /\ IsFiniteSet({x})
        BY FS_Singleton
      <3>. QED  BY <1>8, <3>1, SumOverOne
    <2>3. SumOver(w, {x} \ {x}) = SumOver(w, {})
      <3>1. {x} \ {x} = {}
        OBVIOUS
      <3>. QED  BY <3>1, Zenon
    <2>4. SumOver(w, {x}) = w[x] + 0 /\ w[x] = x[3] /\ x[3] \in Int
      <3>1. SumOver(w, {x} \ {x}) = 0
        BY <1>10, <2>3
      <3>2. w[x] = x[3] /\ x[3] \in Int
        BY <1>7, <1>8
      <3>. QED  BY <2>2, <3>1, <3>2
    <2>5. SumOver(w, S) = u[3] + SumOver(w, {x})
      BY <1>8, <1>10, <2>1
    <2>. QED  BY <1>6, <2>4, <2>5
  <1>. QED  BY <1>7, <1>11, <1>12, <1>13 DEF S

-----------------------------------------------------------------------------
(***************************************************************************)
(* A variable shifted by b: every equation that counts it moves by b, with *)
(* the sign of the use.                                                    *)
(***************************************************************************)
Shifted(diff, new, v, b) ==
  /\ new[v[1]][v[2]] = diff[v[1]][v[2]] + b
  /\ \A w \in Variable : w # v => new[w[1]][w[2]] = diff[w[1]][w[2]]

Moved(u, eq, b) == IF Used(u) = eq THEN Signed(u[3], b) ELSE 0

LEMMA ShiftResidual ==
  ASSUME mesh \in Meshes, NEW diff, Integral(diff), NEW new, Integral(new),
         NEW v \in Variable, NEW b \in Int, Shifted(diff, new, v, b), NEW eq \in Equation
  PROVE  /\ Uses(v) = {} => Residual(new, eq) = Residual(diff, eq)
         /\ \A u \in Uses(v) : Uses(v) = {u} =>
              Residual(new, eq) = Residual(diff, eq) + Moved(u, eq, b)
         /\ \A u, w \in Uses(v) : u # w =>
              Residual(new, eq) = Residual(diff, eq) + Moved(u, eq, b) + Moved(w, eq, b)
  <1> DEFINE Term(d, j) == Signed(SignAt(eq, j), d[Counted(eq, j)[1]][Counted(eq, j)[2]])
             Inc(u, j) == IF Used(u) = eq /\ u[1][2] = j THEN Signed(u[3], b) ELSE 0
  <1>1. /\ Residual(diff, eq) = Term(diff, 1) + Term(diff, 2) + Term(diff, 3)
        /\ Residual(new, eq) = Term(new, 1) + Term(new, 2) + Term(new, 3)
    BY ResidualIs
  <1>2. ASSUME NEW j \in 1 .. 3
        PROVE  /\ Term(diff, j) \in Int
               /\ Term(new, j) =
                    Term(diff, j) + (IF Counted(eq, j) = v THEN Signed(SignAt(eq, j), b) ELSE 0)
    <2>1. /\ Counted(eq, j) \in Variable /\ SignAt(eq, j) \in {-1, 1}
          /\ diff[Counted(eq, j)[1]][Counted(eq, j)[2]] \in Int
      BY CountedFacts
    <2>2. new[Counted(eq, j)[1]][Counted(eq, j)[2]] =
            diff[Counted(eq, j)[1]][Counted(eq, j)[2]] + (IF Counted(eq, j) = v THEN b ELSE 0)
      BY <2>1 DEF Shifted
    <2>. QED  BY <2>1, <2>2 DEF Signed
  <1>3. \A u \in Uses(v) : u[3] \in {-1, 1} /\ u[1][2] \in 1 .. 3
    BY UsesAre, SignSumIs
  <1>4. ASSUME NEW u \in Uses(v)
        PROVE  /\ Moved(u, eq, b) = Inc(u, 1) + Inc(u, 2) + Inc(u, 3)
               /\ \A j \in 1 .. 3 : Inc(u, j) \in Int
    BY <1>3 DEF Signed, Moved
  <1>5. ASSUME Uses(v) = {} PROVE Residual(new, eq) = Residual(diff, eq)
    <2>1. \A j \in 1 .. 3 : Counted(eq, j) # v
      BY <1>5, HitsAreUses
    <2> HIDE DEF Term
    <2>. QED  BY <1>1, <1>2, <2>1
  <1>6. ASSUME NEW u \in Uses(v), Uses(v) = {u}
        PROVE  Residual(new, eq) = Residual(diff, eq) + Moved(u, eq, b)
    <2>1. \A j \in 1 .. 3 :
            (IF Counted(eq, j) = v THEN Signed(SignAt(eq, j), b) ELSE 0) = Inc(u, j)
      BY <1>6, HitsAreUses
    <2> HIDE DEF Term, Inc
    <2>2. \A j \in 1 .. 3 : Term(new, j) = Term(diff, j) + Inc(u, j)
      BY <1>2, <2>1
    <2>. QED  BY <1>1, <1>2, <1>4, <2>2
  <1>7. ASSUME NEW u \in Uses(v), NEW w \in Uses(v), u # w
        PROVE  Residual(new, eq) = Residual(diff, eq) + Moved(u, eq, b) + Moved(w, eq, b)
    <2>1. ASSUME NEW j \in 1 .. 3
          PROVE  (IF Counted(eq, j) = v THEN Signed(SignAt(eq, j), b) ELSE 0) = Inc(u, j) + Inc(w, j)
      <3>1. \A x \in Uses(v) : x = u \/ x = w
        BY <1>7, TwoUses
      <3>2. ~ (Used(u) = eq /\ u[1][2] = j /\ Used(w) = eq /\ w[1][2] = j)
        BY <1>7, HitsAreUses
      <3>3. /\ Counted(eq, j) = v <=> \/ Used(u) = eq /\ u[1][2] = j
                                      \/ Used(w) = eq /\ w[1][2] = j
            /\ Used(u) = eq /\ u[1][2] = j => SignAt(eq, j) = u[3]
            /\ Used(w) = eq /\ w[1][2] = j => SignAt(eq, j) = w[3]
        BY <3>1, HitsAreUses
      <3>. QED  BY <1>3, <3>2, <3>3 DEF Signed
    <2> HIDE DEF Term, Inc
    <2>2. \A j \in 1 .. 3 : Term(new, j) = Term(diff, j) + (Inc(u, j) + Inc(w, j))
      BY <1>2, <2>1
    <2>. QED  BY <1>1, <1>2, <1>4, <2>2
  <1>. QED  BY <1>5, <1>6, <1>7

(* When all uses of a variable are in a set of equations, or none is, the    *)
(* sum over the set moves by the sum of the signs.                           *)
LEMMA ShiftExcess ==
  ASSUME mesh \in Meshes, NEW diff, Integral(diff), NEW new, Integral(new),
         NEW v \in Variable, NEW b \in Int, Shifted(diff, new, v, b),
         NEW c \in SUBSET Equation,
         \A u, w \in Uses(v) : Used(u) \in c => Used(w) \in c
  PROVE  /\ (\E u \in Uses(v) : Used(u) \in c) => Excess(new, c) = Excess(diff, c) + b * SignSum(v)
         /\ ~ (\E u \in Uses(v) : Used(u) \in c) => Excess(new, c) = Excess(diff, c)
  <1> DEFINE f == Residuals(diff)
             h == Residuals(new)
  <1>1. /\ f \in [Equation -> Int] /\ h \in [Equation -> Int] /\ IsFiniteSet(c)
        /\ Excess(diff, c) = SumOver(f, c) /\ Excess(new, c) = SumOver(h, c)
        /\ Excess(diff, c) \in Int
    BY ExcessIsSum, FiniteEquations
  <1>2. \A eq \in Equation : f[eq] = Residual(diff, eq) /\ h[eq] = Residual(new, eq)
    BY DEF Residuals
  <1>3. \A u \in Uses(v) : u[3] \in {-1, 1} /\ Used(u) \in Equation
    BY SignSumIs, UsesAre
  <1> HIDE DEF f, h
  <1>4. CASE Uses(v) = {}
    <2>1. \A eq \in Equation : h[eq] = f[eq]
      BY <1>2, <1>4, ShiftResidual
    <2>2. SumOver(h, c) = SumOver(f, c)
      BY <1>1, <2>1, SumOverSame
    <2>. QED  BY <1>1, <1>4, <2>2
  <1>5. ASSUME NEW u \in Uses(v), Uses(v) = {u}
        PROVE  /\ Used(u) \in c => Excess(new, c) = Excess(diff, c) + b * SignSum(v)
               /\ Used(u) \notin c => Excess(new, c) = Excess(diff, c)
    <2>1. \A eq \in Equation : h[eq] = f[eq] + Moved(u, eq, b)
      BY <1>2, <1>5, ShiftResidual
    <2>2. /\ Signed(u[3], b) \in Int
          /\ h[Used(u)] = f[Used(u)] + Signed(u[3], b)
          /\ \A eq \in Equation : eq # Used(u) => h[eq] = f[eq]
      BY <1>1, <1>3, <2>1 DEF Moved, Signed
    <2>3. SumOver(h, c) = SumOver(f, c) + (IF Used(u) \in c THEN Signed(u[3], b) ELSE 0)
      BY <1>1, <1>3, <2>2, SumOverExcept
    <2>4. Signed(u[3], b) = b * SignSum(v)
      <3>1. SignSum(v) = u[3]
        BY <1>5, SignSumIs
      <3>. QED  BY <1>3, <3>1 DEF Signed
    <2>. QED  BY <1>1, <2>3, <2>4
  <1>6. ASSUME NEW u \in Uses(v), NEW w \in Uses(v), u # w
        PROVE  /\ Used(u) \in c => Excess(new, c) = Excess(diff, c) + b * SignSum(v)
               /\ Used(u) \notin c => Excess(new, c) = Excess(diff, c)
    <2> DEFINE g == [eq \in Equation |-> f[eq] + Moved(u, eq, b)]
    <2>1. \A eq \in Equation : Moved(u, eq, b) \in Int /\ Moved(w, eq, b) \in Int
      BY <1>3 DEF Moved, Signed
    <2>2. \A eq \in Equation : h[eq] = f[eq] + Moved(u, eq, b) + Moved(w, eq, b)
      BY <1>2, <1>6, ShiftResidual
    <2>3. g \in [Equation -> Int] /\ \A eq \in Equation : g[eq] = f[eq] + Moved(u, eq, b)
      BY <1>1, <2>1
    <2> HIDE DEF g
    <2>4. /\ Signed(u[3], b) \in Int /\ Signed(w[3], b) \in Int
          /\ g[Used(u)] = f[Used(u)] + Signed(u[3], b)
          /\ \A eq \in Equation : eq # Used(u) => g[eq] = f[eq]
      BY <1>1, <1>3, <2>3 DEF Moved, Signed
    <2>5. /\ h[Used(w)] = g[Used(w)] + Signed(w[3], b)
          /\ \A eq \in Equation : eq # Used(w) => h[eq] = g[eq]
      BY <1>1, <1>3, <2>2, <2>3 DEF Moved, Signed
    <2>6. SumOver(g, c) = SumOver(f, c) + (IF Used(u) \in c THEN Signed(u[3], b) ELSE 0)
      BY <1>1, <1>3, <2>3, <2>4, SumOverExcept
    <2>7. SumOver(h, c) = SumOver(g, c) + (IF Used(w) \in c THEN Signed(w[3], b) ELSE 0)
      <3>1. /\ g \in [Equation -> Int] /\ h \in [Equation -> Int] /\ c \in SUBSET Equation
            /\ IsFiniteSet(c) /\ Used(w) \in Equation /\ Signed(w[3], b) \in Int
        BY <1>1, <1>3, <2>3, <2>4
      <3> HIDE DEF g
      <3>. QED  BY ONLY <3>1, <2>5, SumOverExcept
    <2>8. Used(u) \in c <=> Used(w) \in c
      OBVIOUS
    <2>9. Signed(u[3], b) + Signed(w[3], b) = b * SignSum(v)
      <3>1. SignSum(v) = u[3] + w[3]
        BY <1>6, SignSumIs
      <3>2. CASE u[3] = 1 /\ w[3] = 1
        BY <3>1, <3>2 DEF Signed
      <3>3. CASE u[3] = 1 /\ w[3] = -1
        BY <3>1, <3>3 DEF Signed
      <3>4. CASE u[3] = -1 /\ w[3] = 1
        BY <3>1, <3>4 DEF Signed
      <3>5. CASE u[3] = -1 /\ w[3] = -1
        BY <3>1, <3>5 DEF Signed
      <3>. QED  BY <1>3, <3>2, <3>3, <3>4, <3>5
    <2>. QED  BY <1>1, <2>4, <2>6, <2>7, <2>8, <2>9
  <1>7. CASE \E u, w \in Uses(v) : Uses(v) = {u, w}
    <2>1. PICK u \in Uses(v), w \in Uses(v) : Uses(v) = {u, w}
      BY <1>7
    <2>2. CASE u = w
      <3>1. Uses(v) = {u}
        BY <2>1, <2>2
      <3>. QED  BY <1>5, <3>1
    <2>3. CASE u # w
      BY <1>6, <2>1, <2>3
    <2>. QED  BY <2>2, <2>3
  <1>. QED  BY <1>4, <1>7, UsesAtMostTwo

LEMMA SameExcess ==
  ASSUME mesh \in Meshes, NEW diff, Integral(diff), NEW new, Integral(new),
         \A v \in Variable : new[v[1]][v[2]] = diff[v[1]][v[2]], NEW c \in SUBSET Equation
  PROVE  Excess(new, c) = Excess(diff, c)
  <1>1. \A eq \in Equation : Residual(new, eq) = Residual(diff, eq)
    BY ResidualIs, CountedFacts
  <1>2. Residuals(new) = Residuals(diff)
    BY <1>1 DEF Residuals
  <1>. QED  BY <1>2, ExcessIsSum

(* Several variables shifted at once: the sum moves by what each of them     *)
(* moves it.                                                                 *)
LEMMA ShiftMany ==
  ASSUME mesh \in Meshes, NEW diff, Integral(diff), NEW new, Integral(new),
         NEW T \in SUBSET Variable, IsFiniteSet(T), NEW by \in [Variable -> Int],
         \A v \in Variable :
           new[v[1]][v[2]] = diff[v[1]][v[2]] + (IF v \in T THEN by[v] ELSE 0),
         NEW c \in SUBSET Equation,
         \A v \in T : \A u, w \in Uses(v) : Used(u) \in c => Used(w) \in c,
         NEW g \in [Variable -> Int],
         \A v \in T : g[v] = IF \E u \in Uses(v) : Used(u) \in c THEN by[v] * SignSum(v) ELSE 0
  PROVE  Excess(new, c) = Excess(diff, c) + SumOver(g, T)
  <1> DEFINE New(s) ==
               [e \in Edge |-> [d \in {1, 2} |-> diff[e][d] + (IF <<e, d>> \in s THEN by[<<e, d>>] ELSE 0)]]
             Bad == {s \in SUBSET T : Excess(New(s), c) # Excess(diff, c) + SumOver(g, s)}
  <1>1. \A v \in Variable : v[1] \in Edge /\ v[2] \in {1, 2} /\ v = <<v[1], v[2]>>
    BY DEF Variable
  <1>2. ASSUME NEW s
        PROVE  /\ Integral(New(s))
               /\ \A v \in Variable :
                    New(s)[v[1]][v[2]] = diff[v[1]][v[2]] + (IF v \in s THEN by[v] ELSE 0)
    <2>1. \A v \in Variable :
            New(s)[v[1]][v[2]] = diff[v[1]][v[2]] + (IF v \in s THEN by[v] ELSE 0)
      BY <1>1
    <2> HIDE DEF New
    <2>. QED  BY <2>1 DEF Integral
  <1> HIDE DEF New
  <1>3. Bad = {}
    <2> SUFFICES ASSUME Bad # {} PROVE FALSE
      OBVIOUS
    <2>1. PICK s \in Bad : \A t \in Bad : ~(t \subseteq s /\ t # s)
      <3>1. Bad \in SUBSET FiniteSubsetsOf(T)
        BY FS_Subset DEF FiniteSubsetsOf
      <3> HIDE DEF Bad
      <3>. QED  BY <3>1, MinimalFiniteSet
    <2>2. s \in SUBSET T /\ IsFiniteSet(s) /\ Excess(New(s), c) # Excess(diff, c) + SumOver(g, s)
      BY <2>1, FS_Subset
    <2>3. CASE s = {}
      <3>1. \A v \in Variable : New(s)[v[1]][v[2]] = diff[v[1]][v[2]]
        BY <1>2, <2>3 DEF Integral
      <3>2. Excess(New(s), c) = Excess(diff, c) /\ Excess(diff, c) \in Int
        BY <1>2, <3>1, SameExcess, ExcessIsSum
      <3>3. SumOver(g, {}) = 0
        <4>1. {} \in SUBSET Variable /\ IsFiniteSet({})
          BY FS_EmptySet
        <4>. QED  BY <4>1, SumOverOne
      <3>. QED  BY <2>2, <2>3, <3>2, <3>3
    <2>4. CASE s # {}
      <3>1. PICK v \in s : TRUE
        BY <2>4
      <3> DEFINE r == s \ {v}
      <3>2. v \in Variable /\ v \in T /\ r \in SUBSET T /\ r \subseteq s /\ r # s
        BY <2>2, <3>1
      <3>3. Excess(New(r), c) = Excess(diff, c) + SumOver(g, r)
        BY <2>1, <3>2
      <3>4. Shifted(New(r), New(s), v, by[v])
        <4>1. New(s)[v[1]][v[2]] = New(r)[v[1]][v[2]] + by[v]
          BY <1>2, <3>1, <3>2 DEF Integral
        <4>2. \A w \in Variable : w # v => New(s)[w[1]][w[2]] = New(r)[w[1]][w[2]]
          BY <1>2, <3>1, <3>2
        <4>. QED  BY <4>1, <4>2 DEF Shifted
      <3>5. SumOver(g, s) = g[v] + SumOver(g, r)
        BY <2>2, <3>1, SumOverOne
      <3>6. SumOver(g, r) \in Int /\ Excess(diff, c) \in Int /\ by[v] \in Int /\ g[v] \in Int
        <4>1. r \in SUBSET Variable /\ IsFiniteSet(r)
          BY <2>2, <3>2, FS_Subset
        <4>. QED  BY <3>2, <4>1, SumOverOne, ExcessIsSum
      <3>7. Excess(New(s), c) = Excess(New(r), c) + g[v]
        <4>1. \A u, w \in Uses(v) : Used(u) \in c => Used(w) \in c
          BY <3>2
        <4>2. /\ (\E u \in Uses(v) : Used(u) \in c) =>
                    Excess(New(s), c) = Excess(New(r), c) + by[v] * SignSum(v)
              /\ ~ (\E u \in Uses(v) : Used(u) \in c) => Excess(New(s), c) = Excess(New(r), c)
          BY <1>2, <3>2, <3>4, <3>6, <4>1, ShiftExcess
        <4>3. g[v] = IF \E u \in Uses(v) : Used(u) \in c THEN by[v] * SignSum(v) ELSE 0
          BY <3>2
        <4>4. Excess(New(r), c) \in Int
          BY <3>3, <3>6
        <4>. QED  BY <4>2, <4>3, <4>4
      <3>. QED  BY <2>2, <3>3, <3>5, <3>6, <3>7
    <2>. QED  BY <2>3, <2>4
  <1>4. Excess(New(T), c) = Excess(diff, c) + SumOver(g, T)
    BY <1>3
  <1>5. \A v \in Variable : new[v[1]][v[2]] = New(T)[v[1]][v[2]]
    BY <1>2
  <1>6. Excess(new, c) = Excess(New(T), c)
    BY <1>2, <1>5, SameExcess
  <1>. QED  BY <1>4, <1>6

-----------------------------------------------------------------------------
(***************************************************************************)
(* Components: they are disjoint, cover everything, and no link leaves one.*)
(***************************************************************************)
LEMMA ComponentFacts ==
  ASSUME NEW S, NEW pairs, \A l \in pairs : l \subseteq S
  PROVE  /\ \A P \in Components(S, pairs) :
              /\ P \subseteq S /\ P # {}
              /\ \A l \in pairs : l \subseteq P \/ l \intersect P = {}
         /\ \A P, R \in Components(S, pairs) : P # R => P \intersect R = {}
         /\ \A x \in S : \E P \in Components(S, pairs) : x \in P
  <1> DEFINE Closed == {P \in SUBSET S : \A l \in pairs : l \subseteq P \/ l \intersect P = {}}
             C == {P \in Closed \ {{}} : \A R \in Closed : R \intersect P = {} \/ P \subseteq R}
  <1>1. Components(S, pairs) = C
    BY DEF Components
  <1>2. ASSUME NEW P \in C, NEW R \in C, ~ (P \intersect R = {}) PROVE P = R
    <2>1. P \subseteq R
      BY <1>2
    <2>2. R \subseteq P
      <3>1. P \in Closed /\ ~ (P \intersect R = {})
        BY <1>2
      <3>2. P \intersect R = {} \/ R \subseteq P
        BY <3>1
      <3>. QED  BY <3>1, <3>2
    <2>. QED  BY <2>1, <2>2
  <1>3. ASSUME NEW x \in S
        PROVE  \E P \in C : x \in P
    <2> DEFINE P == {y \in S : \A R \in Closed : x \in R => y \in R}
    <2>1. x \in P /\ P \in SUBSET S
      OBVIOUS
    <2>2. ASSUME NEW l \in pairs, ~ (l \intersect P = {})
          PROVE  l \subseteq P
      <3>1. PICK y \in l : y \in P
        BY <2>2
      <3>2. ASSUME NEW z \in l PROVE z \in P
        <4>1. \A R \in Closed : x \in R => z \in R
          BY <3>1
        <4>2. z \in S
          OBVIOUS
        <4>. QED  BY <4>1, <4>2
      <3>. QED  BY <3>2
    <2>3. P \in Closed
      BY <2>2
    <2>4. ASSUME NEW R \in Closed PROVE R \intersect P = {} \/ P \subseteq R
      <3>1. CASE x \in R
        BY <3>1
      <3>2. CASE x \notin R
        <4>1. \A l \in pairs : l \subseteq S \ R \/ l \intersect (S \ R) = {}
          <5> SUFFICES ASSUME NEW l \in pairs
                       PROVE  l \subseteq S \ R \/ l \intersect (S \ R) = {}
            OBVIOUS
          <5>1. l \subseteq S /\ (l \subseteq R \/ l \intersect R = {})
            OBVIOUS
          <5>. QED  BY <5>1
        <4>2. S \ R \in Closed /\ x \in S \ R
          BY <3>2, <4>1
        <4>3. P \subseteq S \ R
          BY <4>2
        <4>. QED  BY <4>3
      <3>. QED  BY <3>1, <3>2
    <2>. QED  BY <2>1, <2>3, <2>4
  <1>. QED  BY <1>1, <1>2, <1>3

(* Frames that oppose each other count the same coordinate with opposite     *)
(* signs; frames that cross and count one coordinate with the same sign count*)
(* the other one with opposite signs.                                        *)
LEMMA FrameSigns ==
  ASSUME NEW s \in 0 .. 3, NEW t \in 0 .. 3, NEW k \in {1, 2}
  PROVE  /\ (s - t + 4) % 4 = 2 => /\ Coordinate(s, k) = Coordinate(t, k)
                                   /\ Sign(s, k) # Sign(t, k)
         /\ Coordinate(s, k) = Coordinate(t, 3 - k) /\ Sign(s, k) = Sign(t, 3 - k) =>
              /\ Coordinate(s, 3 - k) = Coordinate(t, k)
              /\ Sign(s, 3 - k) # Sign(t, k)
  BY DEF Coordinate, Sign

(* The faces of an edge are in one part, and so are the equations that count *)
(* a variable.                                                               *)
LEMMA PartsAreWhole ==
  ASSUME mesh \in Meshes, NEW c \in Parts(FaceLinks)
  PROVE  /\ c \in SUBSET Equation
         /\ \A v \in Variable : \A u, w \in Uses(v) : Used(u) \in c => Used(w) \in c
  <1>1. \A l \in FaceLinks : l \subseteq Face
    BY DEF FaceLinks
  <1>2. PICK P \in Components(Face, FaceLinks) : c = P \X {1, 2}
    BY DEF Parts
  <1>3. P \subseteq Face /\ \A l \in FaceLinks : l \subseteq P \/ l \intersect P = {}
    BY <1>1, ComponentFacts
  <1>4. ASSUME NEW a \in Corner(mesh), NEW b \in Corner(mesh), Meet(mesh, a, b), a[1] \in P
        PROVE  b[1] \in P
    <2> SUFFICES ASSUME b[1] \notin P PROVE FALSE
      OBVIOUS
    <2>1. PICK x \in Corner(mesh), y \in Corner(mesh) :
            x[1] \in P /\ y[1] \notin P /\ Meet(mesh, x, y) /\ Opposed(mesh, x, y)
      <3>1. P \in SUBSET (1 .. Len(mesh.F2E))
        BY <1>3 DEF Face
      <3>. QED  BY <1>4, <3>1, MeshesAssumption DEF FramesOppose
    <2>2. mesh.F2E[x[1]][x[2]] \notin mesh.feature
      BY <2>1, MeshesAssumption DEF Surface
    <2>3. /\ x = <<x[1], x[2]>> /\ y = <<y[1], y[2]>>
          /\ x[1] \in Face /\ y[1] \in Face /\ x[2] \in 1 .. 3 /\ y[2] \in 1 .. 3
      BY DEF Corner, Face
    <2>4. Joined(x[1], y[1])
      BY <2>1, <2>2, <2>3 DEF Joined
    <2>5. {x[1], y[1]} \in FaceLinks
      <3>1. <<x[1], y[1]>> \in {p \in Face \X Face : Joined(p[1], p[2])}
        BY <2>3, <2>4
      <3>. QED  BY <3>1 DEF FaceLinks
    <2>. QED  BY <1>3, <2>1, <2>5
  <1>5. ASSUME NEW v \in Variable, NEW u \in Uses(v), NEW w \in Uses(v), Used(u) \in c
        PROVE  Used(w) \in c
    <2>1. CASE u = w
      BY <1>5, <2>1
    <2>2. CASE u # w
      <3>1. /\ u[1] \in Corner(mesh) /\ w[1] \in Corner(mesh) /\ Meet(mesh, u[1], w[1])
            /\ Used(u) = <<u[1][1], u[2]>> /\ Used(w) = <<w[1][1], w[2]>> /\ w[2] \in {1, 2}
        BY <2>2, UsesMeet
      <3>2. u[1][1] \in P
        BY <1>2, <1>5, <3>1
      <3>3. w[1][1] \in P
        BY <1>4, <3>1, <3>2
      <3>. QED  BY <1>2, <3>1, <3>3
    <2>. QED  BY <2>1, <2>2
  <1>6. c \in SUBSET Equation
    BY <1>2, <1>3 DEF Equation
  <1>. QED  BY <1>5, <1>6

LEMMA LinksInside ==
  ASSUME mesh \in Meshes
  PROVE  \A l \in EquationLinks : l \subseteq Equation
  BY UsesAre DEF EquationLinks

(* A variable of two uses with opposite signs is free, and links them.       *)
LEMMA OppositesLink ==
  ASSUME mesh \in Meshes, NEW v \in Variable, NEW u \in Uses(v), NEW w \in Uses(v),
         u[3] # w[3], NEW c \in Trees(EquationLinks), Used(u) \in c
  PROVE  Used(w) \in c
  <1>1. Meet(mesh, u[1], w[1]) /\ u[1] \in Corner(mesh) /\ w[1] \in Corner(mesh)
        /\ mesh.F2E[u[1][1]][u[1][2]] = v[1]
    BY UsesMeet
  <1>2. v[1] \notin mesh.feature
    <2>1. \A a, b \in Corner(mesh) : Meet(mesh, a, b) => mesh.F2E[a[1]][a[2]] \notin mesh.feature
      BY MeshesAssumption DEF Surface
    <2>. QED  BY <1>1, <2>1
  <1>3. Free(v)
    BY <1>2, SignSumIs DEF Free, allow_changes
  <1>4. {Used(x) : x \in Uses(v)} \in EquationLinks
    BY <1>3 DEF EquationLinks
  <1>5. \A l \in EquationLinks : l \subseteq Equation
    BY LinksInside
  <1>6. {Used(x) : x \in Uses(v)} \subseteq c \/ {Used(x) : x \in Uses(v)} \intersect c = {}
    <2>1. \A l \in EquationLinks : l \subseteq c \/ l \intersect c = {}
      BY <1>5, ComponentFacts DEF Trees
    <2>. QED  BY <1>4, <2>1
  <1>. QED  BY <1>6

(* Each coordinate of the faces of an edge is in one tree.                   *)
LEMMA TreesJoinFaces ==
  ASSUME mesh \in Meshes, NEW c \in Trees(EquationLinks), NEW k \in {1, 2},
         NEW a \in Corner(mesh), NEW b \in Corner(mesh), Meet(mesh, a, b), <<a[1], k>> \in c
  PROVE  <<b[1], k>> \in c
  <1> DEFINE P == {f \in Face : <<f, k>> \in c}
  <1>1. \A z \in Corner(mesh) :
          z = <<z[1], z[2]>> /\ z[1] \in Face /\ z[2] \in 1 .. 3 /\ <<z[1], k>> \in Equation
    BY DEF Corner, Face, Equation
  <1> SUFFICES ASSUME b[1] \notin P PROVE FALSE
    BY <1>1
  <1>2. PICK x \in Corner(mesh), y \in Corner(mesh) :
          x[1] \in P /\ y[1] \notin P /\ Meet(mesh, x, y) /\ Opposed(mesh, x, y)
    <2>1. P \in SUBSET (1 .. Len(mesh.F2E)) /\ a[1] \in P
      BY <1>1 DEF Face
    <2> HIDE DEF P
    <2>. QED  BY <2>1, MeshesAssumption DEF FramesOppose
  <1> DEFINE ex == <<x[1], k>>
             ey == <<y[1], k>>
             v == Counted(ex, x[2])
  <1>3. /\ ex \in Equation /\ ey \in Equation /\ x[2] \in 1 .. 3 /\ y[2] \in 1 .. 3
        /\ mesh.FQ[x[1]][x[2]] \in 0 .. 3 /\ mesh.FQ[y[1]][y[2]] \in 0 .. 3
        /\ mesh.F2E[x[1]][x[2]] = mesh.F2E[y[1]][y[2]]
        /\ (mesh.FQ[x[1]][x[2]] - mesh.FQ[y[1]][y[2]] + 4) % 4 = 2
    BY <1>1, <1>2, MeshFacts DEF Meet, Opposed
  <1>4. /\ Coordinate(mesh.FQ[x[1]][x[2]], k) = Coordinate(mesh.FQ[y[1]][y[2]], k)
        /\ Sign(mesh.FQ[x[1]][x[2]], k) # Sign(mesh.FQ[y[1]][y[2]], k)
    BY <1>3, FrameSigns
  <1>5. Counted(ey, y[2]) = v /\ SignAt(ex, x[2]) # SignAt(ey, y[2])
    BY <1>3, <1>4 DEF Counted, SignAt
  <1>6. v \in Variable
    BY <1>3, CountedFacts
  <1> HIDE DEF v, ex, ey
  <1>7. /\ UseAt(ex, x[2]) \in Uses(v) /\ UseAt(ey, y[2]) \in Uses(v)
        /\ Used(UseAt(ex, x[2])) = ex /\ Used(UseAt(ey, y[2])) = ey
    BY <1>3, <1>5, <1>6, UsesAre DEF v
  <1>8. UseAt(ex, x[2])[3] # UseAt(ey, y[2])[3]
    BY <1>5 DEF UseAt
  <1>9. ex \in c
    BY <1>2 DEF ex
  <1>10. ey \in c
    BY <1>6, <1>7, <1>8, <1>9, OppositesLink
  <1>. QED  BY <1>1, <1>2, <1>10 DEF ey

(* The equations that count a variable are in one tree, also when they count *)
(* it with the same sign: then the faces, or the other coordinate, join them.*)
LEMMA TreesAreWhole ==
  ASSUME mesh \in Meshes, NEW c \in Trees(EquationLinks)
  PROVE  /\ c \in SUBSET Equation
         /\ \A v \in Variable : \A u, w \in Uses(v) : Used(u) \in c => Used(w) \in c
  <1>1. c \in SUBSET Equation
    <2>1. \A l \in EquationLinks : l \subseteq Equation
      BY LinksInside
    <2>. QED  BY <2>1, ComponentFacts DEF Trees
  <1>2. ASSUME NEW v \in Variable, NEW u \in Uses(v), NEW w \in Uses(v), Used(u) \in c,
               u # w, u[3] = w[3]
        PROVE  Used(w) \in c
    <2> DEFINE a == u[1]
               b == w[1]
    <2>1. /\ a \in Corner(mesh) /\ b \in Corner(mesh) /\ Meet(mesh, a, b)
          /\ Used(u) = <<a[1], u[2]>> /\ Used(w) = <<b[1], w[2]>>
          /\ u[2] \in {1, 2} /\ w[2] \in {1, 2}
      BY <1>2, UsesMeet
    <2>2. /\ a[1] \in Face /\ b[1] \in Face /\ a[2] \in 1 .. 3 /\ b[2] \in 1 .. 3
          /\ mesh.FQ[a[1]][a[2]] \in 0 .. 3 /\ mesh.FQ[b[1]][b[2]] \in 0 .. 3
          /\ mesh.F2E[a[1]][a[2]] = mesh.F2E[b[1]][b[2]]
      BY <2>1, MeshFacts DEF Corner, Face, Meet
    <2>3. /\ Counted(Used(u), a[2]) = v /\ u = UseAt(Used(u), a[2])
          /\ Counted(Used(w), b[2]) = v /\ w = UseAt(Used(w), b[2])
      BY UsesAre
    <2> HIDE DEF a, b
    <2>4. /\ Coordinate(mesh.FQ[a[1]][a[2]], u[2]) = Coordinate(mesh.FQ[b[1]][b[2]], w[2])
          /\ Sign(mesh.FQ[a[1]][a[2]], u[2]) = u[3] /\ Sign(mesh.FQ[b[1]][b[2]], w[2]) = w[3]
      BY <2>1, <2>3 DEF Counted, UseAt, SignAt
    <2>5. CASE u[2] = w[2]
      BY <1>2, <2>1, <2>5, TreesJoinFaces
    <2>6. CASE u[2] # w[2]
      <3> DEFINE eu == <<a[1], 3 - u[2]>>
                 ew == <<b[1], u[2]>>
                 x == Counted(eu, a[2])
      <3>1. w[2] = 3 - u[2] /\ u[2] = 3 - w[2] /\ eu \in Equation /\ ew \in Equation
            /\ 3 - u[2] \in {1, 2}
        BY <2>1, <2>2, <2>6 DEF Equation
      <3>2. /\ Coordinate(mesh.FQ[a[1]][a[2]], 3 - u[2]) = Coordinate(mesh.FQ[b[1]][b[2]], u[2])
            /\ Sign(mesh.FQ[a[1]][a[2]], 3 - u[2]) # Sign(mesh.FQ[b[1]][b[2]], u[2])
        <4>1. /\ Coordinate(mesh.FQ[a[1]][a[2]], u[2]) = Coordinate(mesh.FQ[b[1]][b[2]], 3 - u[2])
              /\ Sign(mesh.FQ[a[1]][a[2]], u[2]) = Sign(mesh.FQ[b[1]][b[2]], 3 - u[2])
          BY <1>2, <2>4, <3>1
        <4>. QED  BY <2>1, <2>2, <4>1, FrameSigns
      <3>3. Counted(ew, b[2]) = x /\ SignAt(eu, a[2]) # SignAt(ew, b[2])
        BY <2>2, <3>2 DEF Counted, SignAt
      <3>4. x \in Variable
        BY <2>2, <3>1, CountedFacts
      <3> HIDE DEF x, eu, ew
      <3>5. /\ UseAt(eu, a[2]) \in Uses(x) /\ UseAt(ew, b[2]) \in Uses(x)
            /\ Used(UseAt(eu, a[2])) = eu /\ Used(UseAt(ew, b[2])) = ew
        BY <2>2, <3>1, <3>3, <3>4, UsesAre DEF x
      <3>6. UseAt(eu, a[2])[3] # UseAt(ew, b[2])[3]
        BY <3>3 DEF UseAt
      <3>7. ew \in c
        BY <1>2, <2>1, TreesJoinFaces DEF ew
      <3>8. eu \in c
        BY <3>4, <3>5, <3>6, <3>7, OppositesLink
      <3>9. <<b[1], 3 - u[2]>> \in c
        BY <2>1, <3>1, <3>8, TreesJoinFaces DEF eu
      <3>. QED  BY <2>1, <3>1, <3>9
    <2>. QED  BY <2>5, <2>6
  <1>3. ASSUME NEW v \in Variable, NEW u \in Uses(v), NEW w \in Uses(v), Used(u) \in c
        PROVE  Used(w) \in c
    <2>1. CASE u = w
      BY <1>3, <2>1
    <2>2. CASE u # w /\ u[3] = w[3]
      BY <1>2, <1>3, <2>2
    <2>3. CASE u[3] # w[3]
      BY <1>3, <2>3, OppositesLink
    <2>. QED  BY <2>1, <2>2, <2>3
  <1>. QED  BY <1>1, <1>3

-----------------------------------------------------------------------------
(***************************************************************************)
(* Counting and balancing: the candidates lower the excess of their own    *)
(* component, by one or by two, and leave the other components alone.      *)
(***************************************************************************)
Whole(c) ==
  /\ c \in SUBSET Equation
  /\ \A v \in Variable : \A u, w \in Uses(v) : Used(u) \in c => Used(w) \in c

(* The variables that may be shifted lie in their component and lower it.    *)
Candidates ==
  \A m \in modified_variables :
    \E p \in Variable \X DOMAIN total_flows :
      /\ Used(FirstUse(p[1])) \in p[2]
      /\ m = [v |-> p[1], c |-> p[2], step |-> Abs(SignSum(p[1])) % 2,
              by |-> Shift(p[1], total_flows[p[2]])]
      /\ m.by # 0

(* By what a candidate lowers a positive excess, or raises a negative one.   *)
Steps(m) == IF m.step = 0 THEN 2 ELSE 1

LEMMA SignSumBound ==
  ASSUME mesh \in Meshes, NEW v \in Variable
  PROVE  /\ SignSum(v) \in {-2, -1, 0, 1, 2}
         /\ SignSum(v) # 0 => FirstUse(v) \in Uses(v)
  <1>1. \A u \in Uses(v) : u[3] \in {-1, 1}
    BY SignSumIs
  <1>2. \A u \in Uses(v) : 3 * u[1][1] + u[1][2] \in Int
    <2>1. \A u \in Uses(v) : u[1][1] \in Int /\ u[1][2] \in Int
      BY MeshFacts DEF Uses, Face
    <2>. QED  BY <2>1
  <1>3. CASE Uses(v) = {}
    BY <1>3, SignSumIs
  <1>4. CASE \E u, w \in Uses(v) : Uses(v) = {u, w}
    <2>1. PICK u \in Uses(v), w \in Uses(v) : Uses(v) = {u, w}
      BY <1>4
    <2>2. SignSum(v) \in {-2, -1, 0, 1, 2}
      <3>1. CASE u = w
        BY <1>1, <2>1, <3>1, SignSumIs
      <3>2. CASE u # w
        <4>1. SignSum(v) = u[3] + w[3]
          BY <3>2, SignSumIs
        <4>. QED  BY <1>1, <4>1
      <3>. QED  BY <3>1, <3>2
    <2>3. \E x \in Uses(v) : \A y \in Uses(v) : 3 * x[1][1] + x[1][2] <= 3 * y[1][1] + y[1][2]
      BY <1>2, <2>1
    <2>4. FirstUse(v) \in Uses(v)
      BY <2>3 DEF FirstUse
    <2>. QED  BY <2>2, <2>4
  <1>. QED  BY <1>3, <1>4, UsesAtMostTwo

LEMMA CandidateFacts ==
  ASSUME mesh \in Meshes, Integral(edge_diff), Candidates,
         \A c \in DOMAIN total_flows : total_flows[c] \in Int,
         NEW m \in modified_variables
  PROVE  /\ m.v \in Variable /\ m.c \in DOMAIN total_flows
         /\ \E u \in Uses(m.v) : Used(u) \in m.c
         /\ m = [v |-> m.v, c |-> m.c, step |-> Abs(SignSum(m.v)) % 2,
                 by |-> Shift(m.v, total_flows[m.c])]
         /\ m.by \in {-1, 1} /\ m.step \in {0, 1}
         /\ allow_changes(m.v) # 0
         /\ \/ total_flows[m.c] > 0 /\ m.by * SignSum(m.v) = -Steps(m)
            \/ total_flows[m.c] < 0 /\ m.by * SignSum(m.v) = Steps(m)
  <1>1. PICK p \in Variable \X DOMAIN total_flows :
          /\ Used(FirstUse(p[1])) \in p[2]
          /\ m = [v |-> p[1], c |-> p[2], step |-> Abs(SignSum(p[1])) % 2,
                  by |-> Shift(p[1], total_flows[p[2]])]
          /\ m.by # 0
    BY DEF Candidates
  <1> DEFINE v == m.v
             s == SignSum(v)
             t == total_flows[m.c]
  <1>2. /\ v \in Variable /\ m.c \in DOMAIN total_flows /\ Used(FirstUse(v)) \in m.c
        /\ m = [v |-> v, c |-> m.c, step |-> Abs(s) % 2, by |-> Shift(v, t)]
        /\ m.step = Abs(s) % 2 /\ m.by = Shift(v, t) /\ Shift(v, t) # 0
    BY <1>1
  <1>3. t \in Int /\ edge_diff[v[1]][v[2]] \in Int /\ s \in {-2, -1, 0, 1, 2}
    BY <1>2, SignSumBound DEF Integral
  <1> HIDE DEF s, t, v
  <1>4. /\ allow_changes(v) # 0 /\ t * s # 0
        /\ Shift(v, t) = IF t * s > 0 THEN -1 ELSE 1
    BY <1>2, <1>3 DEF Shift, s
  <1>5. /\ m.by \in {-1, 1} /\ m.step \in {0, 1} /\ s # 0
        /\ \/ t > 0 /\ m.by * s = -Steps(m)
           \/ t < 0 /\ m.by * s = Steps(m)
    <2>1. CASE s = -2
      BY <1>2, <1>3, <1>4, <2>1 DEF Abs, Steps
    <2>2. CASE s = -1
      BY <1>2, <1>3, <1>4, <2>2 DEF Abs, Steps
    <2>3. CASE s = 0
      BY <1>3, <1>4, <2>3
    <2>4. CASE s = 1
      BY <1>2, <1>3, <1>4, <2>4 DEF Abs, Steps
    <2>5. CASE s = 2
      BY <1>2, <1>3, <1>4, <2>5 DEF Abs, Steps
    <2>. QED  BY <1>3, <2>1, <2>2, <2>3, <2>4, <2>5
  <1>6. FirstUse(v) \in Uses(v)
    BY <1>2, <1>5, SignSumBound DEF s
  <1>. QED  BY <1>2, <1>4, <1>5, <1>6 DEF s, t, v

(* The sum of the shifts of one record, or of none.                          *)
LEMMA SumOfShifts ==
  ASSUME NEW S, \A m \in S : m.by \in Int
  PROVE  /\ S = {} => MapThenSumSet(LAMBDA m : m.by, S) = 0
         /\ \A x \in S : S = {x} => MapThenSumSet(LAMBDA m : m.by, S) = x.by
  <1> DEFINE w == [m \in S |-> m.by]
             ByShift(it, s) == IF s = {} THEN 0 ELSE AnyOf(s).by + it[s \ {AnyOf(s)}]
             ByW(it, s) == IF s = {} THEN 0 ELSE w[AnyOf(s)] + it[s \ {AnyOf(s)}]
  <1>1. \A s \in SUBSET S : s # {} => AnyOf(s) \in S
    BY Zenon DEF AnyOf
  <1>2. \A it : it = [s \in SUBSET S |-> ByShift(it, s)] <=> it = [s \in SUBSET S |-> ByW(it, s)]
    BY <1>1
  <1>3. (CHOOSE it : it = [s \in SUBSET S |-> ByShift(it, s)])
          = (CHOOSE it : it = [s \in SUBSET S |-> ByW(it, s)])
    BY <1>2, Zenon
  <1>4. MapThenSumSet(LAMBDA m : m.by, S) = (CHOOSE it : it = [s \in SUBSET S |-> ByShift(it, s)])[S]
    BY DEF MapThenSumSet, MapThenFoldSet, AnyOf
  <1>5. SumOver(w, S) = (CHOOSE it : it = [s \in SUBSET S |-> ByW(it, s)])[S]
    BY DEF SumOver, MapThenSumSet, MapThenFoldSet, AnyOf
  <1>6. MapThenSumSet(LAMBDA m : m.by, S) = SumOver(w, S)
    BY <1>3, <1>4, <1>5
  <1>7. w \in [S -> Int] /\ \A m \in S : w[m] = m.by
    OBVIOUS
  <1> HIDE DEF w
  <1>8. SumOver(w, {}) = 0
    <2>1. {} \in SUBSET S /\ IsFiniteSet({})
      BY FS_EmptySet
    <2>. QED  BY <1>7, <2>1, SumOverOne
  <1>9. ASSUME NEW x \in S, S = {x} PROVE SumOver(w, S) = x.by
    <2>1. IsFiniteSet(S) /\ S \ {x} = {}
      BY <1>9, FS_Singleton
    <2>2. SumOver(w, S) = w[x] + SumOver(w, S \ {x})
      BY <1>7, <2>1, SumOverOne
    <2>. QED  BY <1>7, <1>8, <2>1, <2>2
  <1>. QED  BY <1>6, <1>8, <1>9

(* A variable is a candidate once: its first use is in one component.        *)
LEMMA CandidatesDiffer ==
  ASSUME mesh \in Meshes, Integral(edge_diff), Candidates,
         \A c \in DOMAIN total_flows : total_flows[c] \in Int /\ Whole(c),
         \A c, d \in DOMAIN total_flows : c # d => c \intersect d = {}
  PROVE  /\ \A m, n \in modified_variables : m.v = n.v => m = n
         /\ \A m \in modified_variables : \A c \in DOMAIN total_flows :
              m.c = c <=> \E u \in Uses(m.v) : Used(u) \in c
         /\ IsFiniteSet(modified_variables)
  <1>1. \A m \in modified_variables :
          /\ m.v \in Variable /\ m.c \in DOMAIN total_flows
          /\ \E u \in Uses(m.v) : Used(u) \in m.c
          /\ m = [v |-> m.v, c |-> m.c, step |-> Abs(SignSum(m.v)) % 2,
                  by |-> Shift(m.v, total_flows[m.c])]
    BY CandidateFacts
  <1>2. ASSUME NEW m \in modified_variables, NEW c \in DOMAIN total_flows,
               NEW u \in Uses(m.v), Used(u) \in c
        PROVE  m.c = c
    <2>1. PICK w \in Uses(m.v) : Used(w) \in m.c
      BY <1>1
    <2>2. Used(u) \in m.c
      BY <1>1, <2>1 DEF Whole
    <2>. QED  BY <1>1, <1>2, <2>2
  <1>3. ASSUME NEW m \in modified_variables, NEW n \in modified_variables, m.v = n.v
        PROVE  m = n
    <2>1. m.c = n.c
      BY <1>1, <1>2, <1>3
    <2>. QED  BY <1>1, <1>3, <2>1
  <1>4. IsFiniteSet(modified_variables)
    <2>1. IsFiniteSet(Variable)
      BY FiniteVariables
    <2> DEFINE f == [m \in modified_variables |-> m.v]
    <2>2. f \in Injection(modified_variables, Variable)
      BY <1>1, <1>3 DEF Injection, IsInjective
    <2> HIDE DEF f
    <2>. QED  BY <2>1, <2>2, FS_Injection
  <1>. QED  BY <1>1, <1>2, <1>3, <1>4

(* The differences once the variables of M are shifted.                      *)
Modified(M) ==
  [e \in Edge |->
     [d \in {1, 2} |->
        edge_diff[e][d] + MapThenSumSet(LAMBDA m : m.by, {m \in M : m.v = <<e, d>>})]]

Lowering(M, c) ==
  (IF total_flows[c] > 0 THEN 1 ELSE -1) *
    (2 * Cardinality(M \intersect {m \in modified_variables : m.c = c /\ m.step = 0})
       + Cardinality(M \intersect {m \in modified_variables : m.c = c /\ m.step = 1}))

(* What a step of balancing does to the sum of a component.                  *)
LEMMA ModifiedExcess ==
  ASSUME mesh \in Meshes, Integral(edge_diff), Candidates,
         \A c \in DOMAIN total_flows : total_flows[c] \in Int /\ Whole(c),
         \A c, d \in DOMAIN total_flows : c # d => c \intersect d = {},
         NEW M \in SUBSET modified_variables
  PROVE  /\ Integral(Modified(M))
         /\ \A v \in Variable :
              allow_changes(v) = 0 => Modified(M)[v[1]][v[2]] = edge_diff[v[1]][v[2]]
         /\ \A c \in DOMAIN total_flows :
              Excess(Modified(M), c) = Excess(edge_diff, c) - Lowering(M, c)
  <1> DEFINE T == {m.v : m \in M}
             Rec(v) == CHOOSE m \in M : m.v = v
             by == [v \in Variable |-> IF v \in T THEN Rec(v).by ELSE 0]
             new == Modified(M)
  <1>0. new = [e \in Edge |->
                 [d \in {1, 2} |->
                    edge_diff[e][d] + MapThenSumSet(LAMBDA m : m.by, {m \in M : m.v = <<e, d>>})]]
    BY DEF Modified
  <1> HIDE DEF new
  <1>1. /\ \A m \in M : m.v \in Variable /\ m.by \in {-1, 1} /\ m.step \in {0, 1}
                        /\ m.c \in DOMAIN total_flows
                        /\ allow_changes(m.v) # 0
                        /\ \/ total_flows[m.c] > 0 /\ m.by * SignSum(m.v) = -Steps(m)
                           \/ total_flows[m.c] < 0 /\ m.by * SignSum(m.v) = Steps(m)
        /\ \A m, n \in M : m.v = n.v => m = n
        /\ \A m \in M : \A c \in DOMAIN total_flows :
              m.c = c <=> \E u \in Uses(m.v) : Used(u) \in c
        /\ IsFiniteSet(M)
    <2>1. IsFiniteSet(M)
      BY CandidatesDiffer, FS_Subset
    <2>2. \A m \in M : m \in modified_variables
      OBVIOUS
    <2>3. \A m \in M : m.v \in Variable /\ m.by \in {-1, 1} /\ m.step \in {0, 1}
                        /\ m.c \in DOMAIN total_flows
                        /\ allow_changes(m.v) # 0
                        /\ \/ total_flows[m.c] > 0 /\ m.by * SignSum(m.v) = -Steps(m)
                           \/ total_flows[m.c] < 0 /\ m.by * SignSum(m.v) = Steps(m)
      BY <2>2, CandidateFacts
    <2>4. /\ \A m, n \in M : m.v = n.v => m = n
          /\ \A m \in M : \A c \in DOMAIN total_flows :
              m.c = c <=> \E u \in Uses(m.v) : Used(u) \in c
      BY <2>2, CandidatesDiffer
    <2>. QED  BY <2>1, <2>3, <2>4
  <1>2. ASSUME NEW m \in M PROVE m.v \in T /\ Rec(m.v) = m
    <2>1. \A n \in M : n.v = m.v => n = m
      BY <1>1
    <2>2. Rec(m.v) \in M /\ Rec(m.v).v = m.v
      OBVIOUS
    <2>. QED  BY <2>1, <2>2
  <1>3. T \in SUBSET Variable /\ by \in [Variable -> Int]
        /\ \A m \in M : by[m.v] = m.by
        /\ \A v \in Variable \ T : by[v] = 0
    <2>1. T \in SUBSET Variable
      BY <1>1
    <2>2. \A v \in T : \E m \in M : v = m.v /\ Rec(v) = m
      BY <1>2
    <2> HIDE DEF Rec
    <2>3. \A v \in T : Rec(v).by \in Int
      BY <1>1, <2>2
    <2>4. by \in [Variable -> Int]
      <3> HIDE DEF T
      <3>. QED  BY <2>3
    <2>5. \A m \in M : by[m.v] = m.by
      <3>1. \A m \in M : m.v \in T /\ m.v \in Variable /\ Rec(m.v) = m
        BY <1>1, <1>2
      <3> HIDE DEF T
      <3>. QED  BY <3>1
    <2>6. \A v \in Variable \ T : by[v] = 0
      BY <2>1
    <2> HIDE DEF by, T
    <2>. QED  BY <2>1, <2>4, <2>5, <2>6
  <1>4. IsFiniteSet(T)
    <2> DEFINE f == [m \in M |-> m.v]
    <2>1. f \in [M -> T] /\ (\A x, y \in M : f[x] = f[y] => x = y)
          /\ \A z \in T : \E x \in M : z = f[x]
      BY <1>1
    <2> HIDE DEF f, T
    <2>. QED  BY <1>1, <2>1, SameCount
  <1>5. ASSUME NEW v \in Variable
        PROVE  new[v[1]][v[2]] = edge_diff[v[1]][v[2]] + (IF v \in T THEN by[v] ELSE 0)
    <2> DEFINE S == {m \in M : m.v = v}
    <2>1. v[1] \in Edge /\ v[2] \in {1, 2} /\ v = <<v[1], v[2]>>
      BY DEF Variable
    <2>2. new[v[1]][v[2]] = edge_diff[v[1]][v[2]] + MapThenSumSet(LAMBDA m : m.by, S)
      BY <1>0, <2>1
    <2>3. CASE v \in T
      <3>1. PICK n \in M : v = n.v
        BY <2>3
      <3>2. S = {n} /\ n \in S /\ \A m \in S : m.by \in Int
        BY <1>1, <3>1
      <3> HIDE DEF S
      <3>3. MapThenSumSet(LAMBDA m : m.by, S) = n.by
        BY <3>2, SumOfShifts
      <3>. QED  BY <1>3, <2>2, <2>3, <3>1, <3>3
    <2>4. CASE v \notin T
      <3>1. S = {} /\ \A m \in S : m.by \in Int
        BY <2>4
      <3> HIDE DEF S
      <3>2. MapThenSumSet(LAMBDA m : m.by, S) = 0
        BY <3>1, SumOfShifts
      <3>. QED  BY <2>2, <2>4, <3>2
    <2>. QED  BY <2>3, <2>4
  <1> HIDE DEF by, Rec
  <1>6. Integral(new)
    <2>1. \A v \in Variable : edge_diff[v[1]][v[2]] \in Int
      BY DEF Integral
    <2> HIDE DEF T
    <2>2. \A v \in Variable : new[v[1]][v[2]] \in Int
      BY ONLY <1>3, <1>5, <2>1
    <2>. QED  BY ONLY <2>2 DEF Integral
  <1>7. ASSUME NEW v \in Variable, allow_changes(v) = 0
        PROVE  new[v[1]][v[2]] = edge_diff[v[1]][v[2]]
    <2>1. v \notin T
      BY <1>1, <1>7
    <2>2. edge_diff[v[1]][v[2]] \in Int
      BY DEF Integral
    <2> HIDE DEF T
    <2>. QED  BY ONLY <1>5, <1>7, <2>1, <2>2
  <1>8. ASSUME NEW c \in DOMAIN total_flows
        PROVE  Excess(new, c) =
                Excess(edge_diff, c) - Lowering(M, c)
    <2> DEFINE Mine(s) == M \intersect {m \in modified_variables : m.c = c /\ m.step = s}
               TMine(s) == {m.v : m \in Mine(s)}
               Rest == {m.v : m \in {m \in M : m.c # c}}
               sg == IF total_flows[c] > 0 THEN 1 ELSE -1
               g == [v \in Variable |->
                       IF \E u \in Uses(v) : Used(u) \in c THEN by[v] * SignSum(v) ELSE 0]
    <2>1. g \in [Variable -> Int]
      BY <1>3, SignSumBound
    <2>2. ASSUME NEW s \in {0, 1}
          PROVE  /\ TMine(s) \in SUBSET T /\ IsFiniteSet(TMine(s))
                 /\ \A v \in TMine(s) : g[v] = -sg * (2 - s)
                 /\ Cardinality(TMine(s)) = Cardinality(Mine(s)) /\ Cardinality(Mine(s)) \in Nat
      <3>1. TMine(s) \in SUBSET T /\ IsFiniteSet(TMine(s))
        BY <1>4, FS_Subset
      <3>2. ASSUME NEW m \in Mine(s) PROVE g[m.v] = -sg * (2 - s)
        <4>1. m \in M /\ m.c = c /\ m.step = s
          OBVIOUS
        <4>2. m.v \in Variable /\ by[m.v] = m.by /\ \E u \in Uses(m.v) : Used(u) \in c
          BY <1>1, <1>3, <4>1
        <4>3. g[m.v] = m.by * SignSum(m.v)
          BY <4>2
        <4>4. Steps(m) = 2 - s
          BY <4>1 DEF Steps
        <4>5. \/ total_flows[c] > 0 /\ m.by * SignSum(m.v) = -(2 - s)
              \/ total_flows[c] < 0 /\ m.by * SignSum(m.v) = 2 - s
          BY <1>1, <4>1, <4>4
        <4>6. total_flows[c] \in Int
          OBVIOUS
        <4> HIDE DEF g
        <4>. QED  BY <4>3, <4>5, <4>6
      <3>3. IsFiniteSet(Mine(s))
        BY <1>1, FS_Subset
      <3>4. Cardinality(TMine(s)) = Cardinality(Mine(s))
        <4> DEFINE f == [m \in Mine(s) |-> m.v]
        <4>1. f \in [Mine(s) -> TMine(s)] /\ (\A x, y \in Mine(s) : f[x] = f[y] => x = y)
              /\ \A z \in TMine(s) : \E x \in Mine(s) : z = f[x]
          BY <1>1
        <4> HIDE DEF f, TMine, Mine
        <4>. QED  BY <3>3, <4>1, SameCount
      <3>. QED  BY <3>1, <3>2, <3>3, <3>4, FS_CardinalityType
    <2>3. /\ Rest \in SUBSET T /\ IsFiniteSet(Rest)
          /\ \A v \in Rest : g[v] = 0
      <3>1. Rest \in SUBSET T /\ IsFiniteSet(Rest)
        BY <1>4, FS_Subset
      <3>2. ASSUME NEW m \in M, m.c # c PROVE g[m.v] = 0
        <4>1. m.v \in Variable /\ ~ \E u \in Uses(m.v) : Used(u) \in c
          BY <1>1, <3>2
        <4>. QED  BY <4>1
      <3>. QED  BY <3>1, <3>2
    <2>4. /\ T = Rest \union (TMine(0) \union TMine(1))
          /\ Rest \intersect (TMine(0) \union TMine(1)) = {}
          /\ TMine(0) \intersect TMine(1) = {}
      BY <1>1
    <2>5. Excess(new, c) = Excess(edge_diff, c) + SumOver(g, T) /\ Excess(edge_diff, c) \in Int
      <3>1. \A v \in T : g[v] = IF \E u \in Uses(v) : Used(u) \in c THEN by[v] * SignSum(v) ELSE 0
        BY <1>3
      <3>2. c \in SUBSET Equation /\ \A v \in T : \A u, w \in Uses(v) : Used(u) \in c => Used(w) \in c
        BY <1>3 DEF Whole
      <3> HIDE DEF g, T
      <3>3. Excess(new, c) = Excess(edge_diff, c) + SumOver(g, T)
        <4>1. T \in SUBSET Variable /\ by \in [Variable -> Int]
          BY <1>3
        <4>2. \A v \in Variable :
                new[v[1]][v[2]] = edge_diff[v[1]][v[2]] + (IF v \in T THEN by[v] ELSE 0)
          BY <1>5
        <4>3. mesh \in Meshes /\ Integral(edge_diff)
          OBVIOUS
        <4>. QED  BY ONLY <4>3, <4>1, <4>2, <1>4, <1>6, <2>1, <3>1, <3>2, ShiftMany
      <3>4. Excess(edge_diff, c) \in Int
        BY <3>2, ExcessIsSum
      <3>. QED  BY <3>3, <3>4
    <2> HIDE DEF g, T, TMine, Rest, Mine
    <2>6. SumOver(g, T) = SumOver(g, Rest) + (SumOver(g, TMine(0)) + SumOver(g, TMine(1)))
      <3>1. /\ Rest \in SUBSET Variable /\ TMine(0) \in SUBSET Variable /\ TMine(1) \in SUBSET Variable
            /\ IsFiniteSet(Rest) /\ IsFiniteSet(TMine(0)) /\ IsFiniteSet(TMine(1))
            /\ TMine(0) \union TMine(1) \in SUBSET Variable
        BY <1>3, <2>2, <2>3
      <3>2. IsFiniteSet(TMine(0) \union TMine(1))
        BY <3>1, FS_Union
      <3>3. SumOver(g, Rest \union (TMine(0) \union TMine(1))) =
              SumOver(g, Rest) + SumOver(g, TMine(0) \union TMine(1))
        BY <2>1, <2>4, <3>1, <3>2, SumOverUnion
      <3>4. SumOver(g, TMine(0) \union TMine(1)) = SumOver(g, TMine(0)) + SumOver(g, TMine(1))
        BY <2>1, <2>4, <3>1, SumOverUnion
      <3>. QED  BY <2>4, <3>3, <3>4
    <2>7. SumOver(g, Rest) = 0
      <3>1. SumOver(g, Rest) = 0 * Cardinality(Rest) /\ Cardinality(Rest) \in Nat
        <4>1. Rest \in SUBSET Variable /\ IsFiniteSet(Rest) /\ 0 \in Int
          BY <1>3, <2>3
        <4>. QED  BY <2>1, <2>3, <4>1, SumOverConstant
      <3>. QED  BY <3>1
    <2>8. ASSUME NEW s \in {0, 1} PROVE SumOver(g, TMine(s)) = (-sg * (2 - s)) * Cardinality(Mine(s))
      <3>1. TMine(s) \in SUBSET Variable /\ IsFiniteSet(TMine(s)) /\ -sg * (2 - s) \in Int
            /\ \A v \in TMine(s) : g[v] = -sg * (2 - s)
        BY <1>3, <2>2
      <3>2. SumOver(g, TMine(s)) = (-sg * (2 - s)) * Cardinality(TMine(s))
        <4> HIDE DEF sg
        <4>. QED  BY <2>1, <3>1, SumOverConstant
      <3>. QED  BY <2>2, <3>2
    <2>9. /\ SumOver(g, TMine(0)) = (-sg * 2) * Cardinality(Mine(0))
          /\ SumOver(g, TMine(1)) = (-sg * 1) * Cardinality(Mine(1))
          /\ Cardinality(Mine(0)) \in Nat /\ Cardinality(Mine(1)) \in Nat
      <3>1. \A s \in {0, 1} : SumOver(g, TMine(s)) = (-sg * (2 - s)) * Cardinality(Mine(s))
                              /\ Cardinality(Mine(s)) \in Nat
        BY <2>2, <2>8
      <3>2. 2 - 0 = 2 /\ 2 - 1 = 1
        OBVIOUS
      <3> HIDE DEF sg
      <3>. QED  BY <3>1, <3>2
    <2>10. Excess(new, c) = Excess(edge_diff, c) - sg * (2 * Cardinality(Mine(0)) + Cardinality(Mine(1)))
      <3>1. CASE sg = 1
        BY <2>5, <2>6, <2>7, <2>9, <3>1
      <3>2. CASE sg = -1
        BY <2>5, <2>6, <2>7, <2>9, <3>2
      <3>. QED  BY <3>1, <3>2
    <2>. QED  BY <2>10 DEF Mine, Lowering
  <1>. QED  BY <1>6, <1>7, <1>8 DEF new

-----------------------------------------------------------------------------
(***************************************************************************)
(* The network of a round.                                                 *)
(***************************************************************************)
(* Ascending lists every element of a finite set of numbers once.            *)
LEMMA AscendingLists ==
  ASSUME NEW S \in SUBSET Nat, IsFiniteSet(S)
  PROVE  /\ Cardinality(S) \in Nat
         /\ \A k \in 1 .. Cardinality(S) : Ascending(S)[k] \in S
         /\ \A x \in S : \E k \in 1 .. Cardinality(S) : Ascending(S)[k] = x
         /\ \A j, k \in 1 .. Cardinality(S) : Ascending(S)[j] = Ascending(S)[k] => j = k
  <1> DEFINE Below(x) == {y \in S : y < x}
             n == Cardinality(S)
             place == [x \in S |-> Cardinality(Below(x))]
  <1>1. n \in Nat
    BY FS_CardinalityType
  <1>2. ASSUME NEW x \in S
        PROVE  IsFiniteSet(Below(x)) /\ Cardinality(Below(x)) \in 0 .. n - 1
    <2>1. IsFiniteSet(Below(x)) /\ Cardinality(Below(x)) \in Nat
      BY FS_Subset, FS_CardinalityType
    <2>2. Cardinality(Below(x)) <= Cardinality(S \ {x}) /\ Cardinality(S \ {x}) = n - 1
      <3>1. IsFiniteSet(S \ {x}) /\ Cardinality(S \ {x}) = n - 1
        BY FS_RemoveElement
      <3>2. Below(x) \in SUBSET (S \ {x})
        OBVIOUS
      <3> HIDE DEF Below
      <3>. QED  BY <3>1, <3>2, FS_Subset
    <2>. QED  BY <1>1, <2>1, <2>2
  <1>3. ASSUME NEW x \in S, NEW y \in S, x < y
        PROVE  Cardinality(Below(x)) < Cardinality(Below(y))
    <2>1. Below(x) \in SUBSET (Below(y) \ {x}) /\ x \in Below(y)
      <3>1. \A z \in S : z < x => z < y /\ z # x
        BY <1>3
      <3>2. x \in Below(y)
        BY <1>3
      <3>3. \A z \in Below(x) : z \in Below(y) /\ z # x
        BY <3>1
      <3>. QED  BY <3>2, <3>3
    <2>2. IsFiniteSet(Below(y)) /\ Cardinality(Below(y)) \in Nat
      BY <1>2
    <2> HIDE DEF Below
    <2>3. IsFiniteSet(Below(y) \ {x}) /\ Cardinality(Below(y) \ {x}) = Cardinality(Below(y)) - 1
      BY <2>1, <2>2, FS_RemoveElement
    <2>4. Cardinality(Below(x)) <= Cardinality(Below(y) \ {x})
      BY <2>1, <2>3, FS_Subset
    <2>. QED  BY <1>2, <2>2, <2>3, <2>4
  <1> HIDE DEF Below, n
  <1>4. place \in [S -> 0 .. n - 1] /\ \A x, y \in S : place[x] = place[y] => x = y
    <2>1. \A x \in S : place[x] = Cardinality(Below(x)) /\ place[x] \in 0 .. n - 1
      BY <1>2
    <2>2. \A x, y \in S : x < y => place[x] < place[y]
      BY <1>3
    <2>3. place \in [S -> 0 .. n - 1]
      BY <1>2
    <2> HIDE DEF place
    <2>4. \A x, y \in S : x < y \/ y < x \/ x = y
      OBVIOUS
    <2>5. \A x \in S : place[x] \in Int
      BY <1>1, <2>1
    <2>. QED  BY <2>2, <2>3, <2>4, <2>5
  <1>5. \A k \in 0 .. n - 1 : \E x \in S : place[x] = k
    <2>1. place \in Injection(S, 0 .. n - 1)
      BY <1>4 DEF Injection, IsInjective
    <2>2. IsFiniteSet(0 .. n - 1) /\ Cardinality(0 .. n - 1) = n
      BY <1>1, FS_Interval
    <2>3. Cardinality(S) = Cardinality(0 .. n - 1)
      BY <2>2 DEF n
    <2> HIDE DEF place
    <2>4. place \in Surjection(S, 0 .. n - 1)
      BY <2>1, <2>2, <2>3, FS_Injection
    <2>. QED  BY <2>4 DEF Surjection
  <1>6. ASSUME NEW k \in 1 .. n
        PROVE  Ascending(S)[k] \in S /\ place[Ascending(S)[k]] = k - 1
    <2>1. k - 1 \in 0 .. n - 1
      BY <1>1
    <2>2. PICK x \in S : place[x] = k - 1
      BY <1>5, <2>1
    <2>3. Ascending(S)[k] = CHOOSE y \in S : Cardinality(Below(y)) = k - 1
      BY DEF Ascending, Below, n
    <2>4. Cardinality(Below(x)) = k - 1
      BY <2>2
    <2>5. Ascending(S)[k] \in S /\ Cardinality(Below(Ascending(S)[k])) = k - 1
      BY <2>3, <2>4
    <2>. QED  BY <2>5
  <1> HIDE DEF place
  <1>7. ASSUME NEW x \in S PROVE \E k \in 1 .. n : Ascending(S)[k] = x
    <2>1. place[x] \in 0 .. n - 1
      BY <1>4
    <2>2. place[x] + 1 \in 1 .. n /\ (place[x] + 1) - 1 = place[x]
      BY <1>1, <2>1
    <2>3. Ascending(S)[place[x] + 1] \in S /\ place[Ascending(S)[place[x] + 1]] = place[x]
      BY <1>6, <2>2
    <2>. QED  BY <1>4, <2>2, <2>3
  <1>8. ASSUME NEW j \in 1 .. n, NEW k \in 1 .. n, Ascending(S)[j] = Ascending(S)[k]
        PROVE  j = k
    <2>1. j - 1 = k - 1
      BY <1>6, <1>8
    <2>. QED  BY <1>1, <2>1
  <1>. QED  BY <1>1, <1>6, <1>7, <1>8 DEF n

(* Numbers for the coordinates of edges and of faces.                        *)
LEMMA IndexFacts ==
  ASSUME NEW n \in Nat
  PROVE  /\ \A i \in 1 .. 2 * n : /\ VariableOf(i) \in (1 .. n) \X {1, 2}
                                  /\ EquationOf(i) = VariableOf(i)
                                  /\ NodeOf(VariableOf(i)) = i
         /\ \A p \in (1 .. n) \X {1, 2} : NodeOf(p) \in 1 .. 2 * n /\ VariableOf(NodeOf(p)) = p
  <1>1. ASSUME NEW i \in 1 .. 2 * n
        PROVE  /\ VariableOf(i) \in (1 .. n) \X {1, 2}
               /\ EquationOf(i) = VariableOf(i)
               /\ NodeOf(VariableOf(i)) = i
    <2>1. CASE i % 2 = 0
      <3>1. (i + 1) \div 2 = i \div 2 /\ i = 2 * (i \div 2) /\ i \div 2 \in 1 .. n
        BY <2>1
      <3>. QED  BY <2>1, <3>1 DEF VariableOf, EquationOf, NodeOf
    <2>2. CASE i % 2 = 1
      <3>1. i = 2 * ((i + 1) \div 2) - 1 /\ (i + 1) \div 2 \in 1 .. n
        BY <2>2
      <3>. QED  BY <2>2, <3>1 DEF VariableOf, EquationOf, NodeOf
    <2>. QED  BY <2>1, <2>2
  <1>2. ASSUME NEW e \in 1 .. n, NEW d \in {1, 2}
        PROVE  NodeOf(<<e, d>>) \in 1 .. 2 * n /\ VariableOf(NodeOf(<<e, d>>)) = <<e, d>>
    <2>1. CASE d = 1
      <3>1. NodeOf(<<e, d>>) = 2 * e - 1 /\ (2 * e - 1) % 2 = 1 /\ ((2 * e - 1) + 1) \div 2 = e
        BY <2>1 DEF NodeOf
      <3>. QED  BY <2>1, <3>1 DEF VariableOf
    <2>2. CASE d = 2
      <3>1. NodeOf(<<e, d>>) = 2 * e /\ (2 * e) % 2 = 0 /\ (2 * e + 1) \div 2 = e
        BY <2>2 DEF NodeOf
      <3>. QED  BY <2>2, <3>1 DEF VariableOf
    <2>. QED  BY <2>1, <2>2
  <1>3. \A p \in (1 .. n) \X {1, 2} : p[1] \in 1 .. n /\ p[2] \in {1, 2} /\ p = <<p[1], p[2]>>
    OBVIOUS
  <1>4. ASSUME NEW p \in (1 .. n) \X {1, 2}
        PROVE  NodeOf(p) \in 1 .. 2 * n /\ VariableOf(NodeOf(p)) = p
    <2>1. PICK e \in 1 .. n, d \in {1, 2} : p = <<e, d>>
      BY <1>3
    <2>2. NodeOf(<<e, d>>) \in 1 .. 2 * n /\ VariableOf(NodeOf(<<e, d>>)) = <<e, d>>
      BY <1>2
    <2>. QED  BY <2>1, <2>2, Zenon
  <1>. QED  BY <1>1, <1>4

(* A free variable is counted by one equation positively and by one          *)
(* negatively.                                                               *)
LEMMA FreeFacts ==
  ASSUME mesh \in Meshes, NEW v \in Variable, Free(v)
  PROVE  /\ allow_changes(v) # 0 /\ SignSum(v) = 0
         /\ \E u, w \in Uses(v) :
              /\ u[3] = 1 /\ w[3] = -1 /\ Uses(v) = {u, w}
              /\ (CHOOSE x \in Uses(v) : x[3] = 1) = u
              /\ (CHOOSE x \in Uses(v) : x[3] = -1) = w
  <1>1. PICK u \in Uses(v), w \in Uses(v) : u[3] = 1 /\ w[3] = -1
    BY DEF Free
  <1>2. u # w /\ \A x \in Uses(v) : x = u \/ x = w
    BY <1>1, TwoUses
  <1>3. SignSum(v) = 0
    <2>1. SignSum(v) = u[3] + w[3]
      BY <1>2, SignSumIs
    <2>. QED  BY <1>1, <2>1
  <1>4. (CHOOSE x \in Uses(v) : x[3] = 1) = u /\ (CHOOSE x \in Uses(v) : x[3] = -1) = w
    BY <1>1, <1>2
  <1>. QED  BY <1>1, <1>2, <1>3, <1>4 DEF Free

(* The networks that can be built.                                           *)
Built ==
  UNION {[num : {k}, edges : Seq([x : 0 .. k - 1, y : 0 .. k - 1, c : Nat, rc : Nat, v : Int])] :
           k \in Nat \ {0, 1}}

(* The arcs of the network are the free variables, then the open equations.  *)
LEMMA NetworkIs ==
  ASSUME mesh \in Meshes, Integral(edge_diff), edge_capacity \in Nat,
         NEW n, n = Network(arc_ids, open)
  PROVE  /\ n \in Built /\ n.num = 2 * Len(mesh.F2E) + 2
         /\ arc_ids \in SUBSET Nat /\ IsFiniteSet(arc_ids) /\ Cardinality(arc_ids) \in Nat
         /\ open \in SUBSET Nat /\ IsFiniteSet(open) /\ Cardinality(open) \in Nat
         /\ n.edges \in Seq(Arcs(n))
         /\ Len(n.edges) = Cardinality(arc_ids) + Cardinality(open)
         /\ \A k \in 1 .. Cardinality(arc_ids) : n.edges[k] = ArcOf(Ascending(arc_ids)[k])
         /\ \A k \in 1 .. Cardinality(open) :
              n.edges[Cardinality(arc_ids) + k] = TerminalOf(Ascending(open)[k])
  <1> DEFINE A == Cardinality(arc_ids)
             B == Cardinality(open)
             F == Len(mesh.F2E)
             Num == 2 * F + 2
             Type == [x : 0 .. Num - 1, y : 0 .. Num - 1, c : Nat, rc : Nat, v : Int]
             s == [k \in 1 .. A |-> ArcOf(Ascending(arc_ids)[k])]
             t == [k \in 1 .. B |-> TerminalOf(Ascending(open)[k])]
  <1>1. F \in Nat /\ Len(mesh.diff) \in Nat /\ Num \in Nat \ {0, 1} /\ Num - 1 = 2 * F + 1
    BY MeshFacts
  <1>2. arc_ids \in SUBSET Nat /\ IsFiniteSet(arc_ids) /\ open \in SUBSET Nat /\ IsFiniteSet(open)
    <2>1. ASSUME NEW m \in Nat PROVE IsFiniteSet(1 .. m) /\ 1 .. m \subseteq Nat
      BY FS_Interval
    <2>2. ASSUME NEW m \in Nat, NEW S \in SUBSET (1 .. m) PROVE IsFiniteSet(S) /\ S \in SUBSET Nat
      BY <2>1, FS_Subset
    <2>3. arc_ids \in SUBSET (1 .. 2 * Len(mesh.diff)) /\ open \in SUBSET (1 .. 2 * Len(mesh.F2E))
      BY DEF arc_ids, open
    <2>4. 2 * Len(mesh.diff) \in Nat /\ 2 * Len(mesh.F2E) \in Nat
      BY <1>1
    <2> HIDE DEF F
    <2>. QED  BY <2>2, <2>3, <2>4
  <1>3. A \in Nat /\ B \in Nat
        /\ (\A k \in 1 .. A : Ascending(arc_ids)[k] \in arc_ids)
        /\ (\A k \in 1 .. B : Ascending(open)[k] \in open)
    BY <1>2, AscendingLists
  <1>4. ASSUME NEW i \in arc_ids PROVE ArcOf(i) \in Type
    <2>1. i \in 1 .. 2 * Len(mesh.diff) /\ Free(VariableOf(i)) /\ VariableOf(i) \in Variable
      BY <1>1, IndexFacts DEF arc_ids, Variable, Edge
    <2> DEFINE v == VariableOf(i)
               c == edge_diff[v[1]][v[2]]
    <2>2. PICK u \in Uses(v), w \in Uses(v) :
            /\ (CHOOSE x \in Uses(v) : x[3] = 1) = u
            /\ (CHOOSE x \in Uses(v) : x[3] = -1) = w
      BY <2>1, FreeFacts
    <2>3. Used(u) \in Equation /\ Used(w) \in Equation
      BY <2>1, UsesAre
    <2>4. NodeOf(Used(u)) \in 0 .. Num - 1 /\ NodeOf(Used(w)) \in 0 .. Num - 1
      <3>1. \A p \in Equation : NodeOf(p) \in 1 .. 2 * F
        BY <1>1, IndexFacts DEF Equation, Face
      <3>2. \A m \in 1 .. 2 * F : m \in 0 .. Num - 1
        BY <1>1
      <3>. QED  BY <2>3, <3>1, <3>2
    <2>5. c \in Int
      BY <2>1 DEF Integral
    <2>6. MaxOf(0, c + edge_capacity) \in Nat /\ MaxOf(0, -c + edge_capacity) \in Nat
      <3> HIDE DEF c
      <3>. QED  BY <2>5 DEF MaxOf
    <2>7. ArcOf(i) = [x |-> NodeOf(Used(u)), y |-> NodeOf(Used(w)),
                      c |-> MaxOf(0, c + edge_capacity), rc |-> MaxOf(0, -c + edge_capacity), v |-> i]
      BY <2>2 DEF ArcOf
    <2>. QED  BY <2>1, <2>4, <2>6, <2>7
  <1>5. ASSUME NEW i \in open PROVE TerminalOf(i) \in Type
    <2>1. i \in 1 .. 2 * F /\ EquationOf(i) \in Equation
      <3>1. Len(mesh.F2E) \in Nat /\ i \in 1 .. 2 * Len(mesh.F2E)
        BY MeshFacts DEF open
      <3>2. EquationOf(i) \in (1 .. Len(mesh.F2E)) \X {1, 2}
        BY ONLY <3>1, IndexFacts
      <3>. QED  BY <3>1, <3>2 DEF Equation, Face
    <2>2. Residual(edge_diff, EquationOf(i)) \in Int
      BY <2>1, ResidualIs
    <2>3. i \in 0 .. Num - 1 /\ 2 * F + 1 \in 0 .. Num - 1 /\ EC!Source \in 0 .. Num - 1
      BY <1>1, <2>1 DEF EC!Source
    <2>. QED  BY <2>2, <2>3 DEF TerminalOf, NoVariable
  <1>6. /\ s \in Seq(Type) /\ Len(s) = A /\ t \in Seq(Type) /\ Len(t) = B
        /\ \A k \in 1 .. A : s[k] = ArcOf(Ascending(arc_ids)[k])
        /\ \A k \in 1 .. B : t[k] = TerminalOf(Ascending(open)[k])
    <2> HIDE DEF A, B, Type
    <2>1. s \in [1 .. A -> Type] /\ t \in [1 .. B -> Type]
      BY <1>3, <1>4, <1>5
    <2>. QED  BY <1>3, <2>1
  <1>7. n = [num |-> Num, edges |-> s \o t]
    BY DEF Network
  <1> HIDE DEF A, B, Type, s, t, F
  <1>8. /\ s \o t \in Seq(Type) /\ Len(s \o t) = A + B
        /\ \A k \in 1 .. A : (s \o t)[k] = s[k]
        /\ \A k \in 1 .. B : (s \o t)[A + k] = t[k]
    BY <1>3, <1>6
  <1>9. n.num = Num /\ n.edges = s \o t
    BY <1>7
  <1>10. n \in Built
    <2>1. n \in [num : {Num}, edges : Seq(Type)]
      BY <1>7, <1>8
    <2>2. [num : {Num}, edges : Seq(Type)] \subseteq Built
      <3>1. Num \in Nat \ {0, 1}
        BY <1>1
      <3> HIDE DEF Num
      <3>. QED  BY <3>1 DEF Built, Type
    <2>. QED  BY <2>1, <2>2
  <1>11. n.edges \in Seq(Arcs(n))
    BY <1>8, <1>9 DEF Arcs, Node, Type
  <1>. QED  BY <1>2, <1>3, <1>6, <1>8, <1>9, <1>10, <1>11 DEF A, B, F

-----------------------------------------------------------------------------
(***************************************************************************)
(* What is proved of ECMaxFlowHelper holds in these networks.              *)
(***************************************************************************)
Proved == INSTANCE ECMaxFlowProofs WITH Networks <- Built, pc <- ec

LEMMA SameNames ==
  ASSUME NEW n, NEW f
  PROVE  /\ Proved!Half(n) = Half(n) /\ Proved!Source = Source /\ EC!Source = Source
         /\ Proved!Arcs(n) = Arcs(n)
         /\ Proved!ZeroFlow(n) = ZeroFlow(n) /\ EC!ZeroFlow(n) = ZeroFlow(n)
         /\ Proved!Start = EC!Start
         /\ \A l : /\ Proved!Rev(l) = Rev(l) /\ Proved!From(n, l) = From(n, l)
                   /\ Proved!To(n, l) = To(n, l) /\ Proved!Capacity(n, l) = Capacity(n, l)
         /\ \A v : Proved!Outflow(n, f, v) = Outflow(n, f, v)
         /\ Proved!Feasible(n, f) <=> Feasible(n, f)
  <1>1. /\ Proved!Half(n) = Half(n) /\ Proved!Source = Source /\ EC!Source = Source
        /\ Proved!Sink(n) = Sink(n) /\ Proved!Node(n) = Node(n) /\ EC!Half(n) = Half(n)
    BY DEF Half, Source, Sink, Node, Proved!Half, Proved!Source, Proved!Sink, Proved!Node,
           EC!Source, EC!Half
  <1>2. \A l : /\ Proved!Rev(l) = Rev(l) /\ Proved!From(n, l) = From(n, l)
               /\ Proved!To(n, l) = To(n, l) /\ Proved!Capacity(n, l) = Capacity(n, l)
    BY DEF Rev, From, To, Capacity, Proved!Rev, Proved!From, Proved!To, Proved!Capacity
  <1>3. ASSUME NEW v PROVE Proved!Outflow(n, f, v) = Outflow(n, f, v)
    BY DEF Outflow, MapThenSumSet, MapThenFoldSet, Half, From,
           Proved!Outflow, Proved!MapThenSumSet, Proved!MapThenFoldSet, Proved!Half, Proved!From
  <1>4. Proved!Arcs(n) = Arcs(n)
    BY <1>1 DEF Arcs, Proved!Arcs
  <1>5. Proved!ZeroFlow(n) = ZeroFlow(n) /\ EC!ZeroFlow(n) = ZeroFlow(n)
    BY <1>1 DEF ZeroFlow, Proved!ZeroFlow, EC!ZeroFlow
  <1>6. Proved!Feasible(n, f) <=> Feasible(n, f)
    BY <1>1, <1>2, <1>3 DEF Feasible, Proved!Feasible, Antisymmetric, Proved!Antisymmetric,
       WithinCapacity, Proved!WithinCapacity, Conserved, Proved!Conserved
  <1>7. Proved!Start = EC!Start
    BY <1>1 DEF Proved!Start, EC!Start, Proved!SearchInfo, EC!SearchInfo, Proved!NoHalf, EC!NoHalf
  <1>. QED  BY <1>1, <1>2, <1>3, <1>4, <1>5, <1>6, <1>7

LEMMA BuiltIsAllowed ==
  \A n \in Built : /\ n.num \in Nat /\ n.num > 1
                   /\ n.edges \in Seq(Proved!Arcs(n))
  <1> SUFFICES ASSUME NEW n \in Built
               PROVE  n.num \in Nat /\ n.num > 1 /\ n.edges \in Seq(Proved!Arcs(n))
    OBVIOUS
  <1>1. PICK k \in Nat \ {0, 1} :
          n \in [num : {k}, edges : Seq([x : 0 .. k - 1, y : 0 .. k - 1, c : Nat, rc : Nat, v : Int])]
    BY DEF Built
  <1>2. n.num = k /\ n.edges \in Seq([x : 0 .. k - 1, y : 0 .. k - 1, c : Nat, rc : Nat, v : Int])
    BY <1>1
  <1>3. Proved!Arcs(n) = [x : 0 .. k - 1, y : 0 .. k - 1, c : Nat, rc : Nat, v : Int]
    BY <1>2 DEF Proved!Arcs, Proved!Node
  <1>. QED  BY <1>1, <1>2, <1>3

(* A helper that starts, and one that goes on.                               *)
LEMMA HelperStarts == Proved!Init => Proved!FlowInv
  BY BuiltIsAllowed, Proved!InitEC, Proved!InitBalanced DEF Proved!FlowInv

LEMMA HelperStartsNext == Proved!Init' => Proved!FlowInv'
  BY HelperStarts, PTL

LEMMA HelperSteps == Proved!FlowInv /\ [Proved!Next]_(Proved!vars) => Proved!FlowInv'
  BY BuiltIsAllowed, Proved!StepFlow

LEMMA HelperReturns ==
  ASSUME Proved!FlowInv, ec = "done"
  PROVE  /\ flow \in [Half(net) -> Int] /\ Feasible(net, flow)
         /\ total_flow = Outflow(net, flow, Source)
  <1>1. /\ Proved!Feasible(net, flow) /\ total_flow = Proved!Outflow(net, flow, Proved!Source)
    BY BuiltIsAllowed, Proved!DoneKeepsPromise
  <1>2. flow \in [Proved!Half(net) -> Int]
    BY DEF Proved!FlowInv, Proved!ECInv, Proved!TypeOK
  <1>. QED  BY <1>1, <1>2, SameNames

LEMMA SameNext == EC!Next => Proved!Next
  BY DEF EC!Next, EC!Find, EC!NextFront, EC!Return, EC!Augment, EC!Augmented, EC!Usable,
         EC!Half, EC!From, EC!To, EC!Rev, EC!Sink, EC!Source, EC!Capacity, EC!Start,
         EC!SearchInfo, EC!NoHalf,
         Proved!Next, Proved!Find, Proved!NextFront, Proved!Return, Proved!Augment,
         Proved!Augmented, Proved!Usable, Proved!Half, Proved!From, Proved!To, Proved!Rev,
         Proved!Sink, Proved!Source, Proved!Capacity, Proved!Start, Proved!SearchInfo, Proved!NoHalf

-----------------------------------------------------------------------------
(***************************************************************************)
(* NetworkSimplexFlowHelper: a unit along a path keeps the flow feasible.  *)
(***************************************************************************)
LEMMA SameNamesLEMON ==
  ASSUME NEW n, NEW f
  PROVE  /\ LEMON!Half(n) = Half(n) /\ LEMON!Source = Source
         /\ LEMON!Node(n) = Node(n) /\ LEMON!Sink(n) = Sink(n)
         /\ \A l : /\ LEMON!Rev(l) = Rev(l) /\ LEMON!From(n, l) = From(n, l)
                   /\ LEMON!To(n, l) = To(n, l) /\ LEMON!Capacity(n, l) = Capacity(n, l)
  BY DEF Half, Source, Sink, Node, Rev, From, To, Capacity,
         LEMON!Half, LEMON!Source, LEMON!Sink, LEMON!Node,
         LEMON!Rev, LEMON!From, LEMON!To, LEMON!Capacity

(* The ways of at most a number of half-edges, as Paths extends them.        *)
LongerWays(n, f, w) ==
  {[at |-> LEMON!To(n, l), seen |-> w.seen \union {LEMON!To(n, l)},
    over |-> w.over \union {l}, cost |-> w.cost + LEMON!Cost(f, l)] :
     l \in {l \in {l \in LEMON!Half(n) : LEMON!Capacity(n, l) > f[l]} :
              LEMON!From(n, l) = w.at /\ LEMON!To(n, l) \notin w.seen}}
ExtendedWays(n, f, ways) ==
  UNION {IF w.at = LEMON!Sink(n) THEN {w} ELSE LongerWays(n, f, w) : w \in ways}
FirstWays == {[at |-> LEMON!Source, seen |-> {LEMON!Source}, over |-> {}, cost |-> 0]}
WaysOf(n, f) ==
  CHOOSE W : W = [k \in LEMON!Node(n) |->
                    IF k = 0 THEN FirstWays ELSE ExtendedWays(n, f, W[k - 1])]

LEMMA PathsAreWays ==
  ASSUME NEW n, NEW f
  PROVE  LEMON!Paths(n, f) = {w \in WaysOf(n, f)[LEMON!Sink(n)] : w.at = LEMON!Sink(n)}
  BY DEF LEMON!Paths, WaysOf, ExtendedWays, FirstWays, LongerWays

(* The nodes and the reverse of a half-edge.                                 *)
LEMMA HalfNodes ==
  ASSUME NEW n \in Built
  PROVE  /\ Source \in Node(n) /\ Sink(n) \in Node(n) /\ Source # Sink(n)
         /\ n.num \in Nat /\ n.num > 1
         /\ \A l \in Half(n) : /\ From(n, l) \in Node(n) /\ To(n, l) \in Node(n)
                               /\ Rev(l) \in Half(n) /\ Rev(l) # l /\ Rev(Rev(l)) = l
                               /\ Capacity(n, l) \in Nat
  <1>1. /\ Proved!Source \in Proved!Node(n) /\ Proved!Sink(n) \in Proved!Node(n)
        /\ Proved!Source # Proved!Sink(n) /\ n.num \in Nat /\ n.num > 1
        /\ \A l \in Proved!Half(n) :
             /\ Proved!From(n, l) \in Proved!Node(n) /\ Proved!To(n, l) \in Proved!Node(n)
             /\ Proved!Rev(l) \in Proved!Half(n) /\ Proved!Rev(l) # l
             /\ Proved!Rev(Proved!Rev(l)) = l /\ Proved!Capacity(n, l) \in Nat
    BY BuiltIsAllowed, Proved!HalfFacts
  <1>2. Proved!Node(n) = Node(n) /\ Proved!Sink(n) = Sink(n)
    BY DEF Node, Sink, Proved!Node, Proved!Sink
  <1>3. /\ Proved!Half(n) = Half(n) /\ Proved!Source = Source
        /\ \A l : /\ Proved!Rev(l) = Rev(l) /\ Proved!From(n, l) = From(n, l)
                  /\ Proved!To(n, l) = To(n, l) /\ Proved!Capacity(n, l) = Capacity(n, l)
    BY SameNames
  <1>. QED  BY <1>1, <1>2, <1>3

(* A unit more over a half-edge.                                             *)
LEMMA UnitOver ==
  ASSUME NEW n \in Built, NEW g \in [Half(n) -> Int], NEW l \in Half(n), NEW v,
         NEW h \in [Half(n) -> Int], h[l] = g[l] + 1, h[Rev(l)] = g[Rev(l)] - 1,
         \A m \in Half(n) : m # l /\ m # Rev(l) => h[m] = g[m]
  PROVE  Outflow(n, h, v) = Outflow(n, g, v) + (IF v = From(n, l) THEN 1 ELSE 0)
                                             + (IF v = To(n, l) THEN -1 ELSE 0)
  <1>1. /\ Proved!Half(n) = Half(n)
        /\ \A m : Proved!Rev(m) = Rev(m) /\ Proved!From(n, m) = From(n, m)
                  /\ Proved!To(n, m) = To(n, m)
        /\ Proved!Outflow(n, g, v) = Outflow(n, g, v)
        /\ Proved!Outflow(n, h, v) = Outflow(n, h, v)
    BY SameNames
  <1>2. Rev(l) \in Half(n) /\ Rev(l) # l
    BY HalfNodes
  <1>3. \A n1 \in Built : \A f1, h1 \in [Proved!Half(n1) -> Int] : \A l1 \in Proved!Half(n1) :
          /\ Proved!Rev(l1) \in Proved!Half(n1) /\ Proved!Rev(l1) # l1
          /\ h1[l1] = f1[l1] + 1 /\ h1[Proved!Rev(l1)] = f1[Proved!Rev(l1)] - 1
          /\ \A m \in Proved!Half(n1) : m # l1 /\ m # Proved!Rev(l1) => h1[m] = f1[m]
          => \A v1 : Proved!Outflow(n1, h1, v1) =
               Proved!Outflow(n1, f1, v1) + (IF v1 = Proved!From(n1, l1) THEN 1 ELSE 0)
                                          + (IF v1 = Proved!To(n1, l1) THEN -1 ELSE 0)
    BY ONLY BuiltIsAllowed, Proved!UnitsMove
  <1>. QED  BY <1>1, <1>2, <1>3

(* Pushed over a way that goes on with half-edge l.                          *)
LEMMA PushedOnce ==
  ASSUME NEW n \in Built, NEW f \in [Half(n) -> Int], NEW over \in SUBSET Half(n)
  PROVE  /\ LEMON!Pushed(f, over) \in [Half(n) -> Int]
         /\ over = {} => LEMON!Pushed(f, over) = f
         /\ \A l \in Half(n) \ over : \A v :
              Outflow(n, LEMON!Pushed(f, over \union {l}), v) =
                Outflow(n, LEMON!Pushed(f, over), v) + (IF v = From(n, l) THEN 1 ELSE 0)
                                                     + (IF v = To(n, l) THEN -1 ELSE 0)
  <1>1. \A l \in Half(n) : Rev(l) \in Half(n) /\ Rev(l) # l /\ Rev(Rev(l)) = l
    BY HalfNodes
  <1> DEFINE At(s, l) == f[l] + (IF l \in s THEN 1 ELSE 0) - (IF Rev(l) \in s THEN 1 ELSE 0)
  <1>2. ASSUME NEW s
        PROVE  /\ LEMON!Pushed(f, s) \in [Half(n) -> Int]
               /\ \A l \in Half(n) : LEMON!Pushed(f, s)[l] = At(s, l)
    <2>1. LEMON!Pushed(f, s) = [l \in Half(n) |-> At(s, l)]
      BY SameNamesLEMON DEF LEMON!Pushed
    <2>2. \A l \in Half(n) : At(s, l) \in Int
      OBVIOUS
    <2> HIDE DEF At
    <2>. QED  BY <2>1, <2>2
  <1>3. ASSUME over = {} PROVE LEMON!Pushed(f, over) = f
    <2>1. \A l \in Half(n) : LEMON!Pushed(f, over)[l] = f[l]
      BY <1>2, <1>3
    <2>. QED  BY <1>2, <2>1
  <1>4. ASSUME NEW l \in Half(n) \ over, NEW v
        PROVE  Outflow(n, LEMON!Pushed(f, over \union {l}), v) =
                 Outflow(n, LEMON!Pushed(f, over), v) + (IF v = From(n, l) THEN 1 ELSE 0)
                                                      + (IF v = To(n, l) THEN -1 ELSE 0)
    <2> DEFINE g == LEMON!Pushed(f, over)
               h == LEMON!Pushed(f, over \union {l})
    <2>1. /\ g \in [Half(n) -> Int] /\ h \in [Half(n) -> Int]
          /\ \A m \in Half(n) : g[m] = At(over, m) /\ h[m] = At(over \union {l}, m)
      BY <1>2
    <2>2. Rev(l) \in Half(n) /\ Rev(l) # l /\ Rev(Rev(l)) = l
      BY <1>1
    <2> HIDE DEF g, h
    <2>3. h[l] = g[l] + 1
      BY <2>1, <2>2
    <2>4. h[Rev(l)] = g[Rev(l)] - 1
      BY <2>1, <2>2
    <2>5. ASSUME NEW m \in Half(n), m # l, m # Rev(l) PROVE h[m] = g[m]
      <3>1. Rev(m) # l
        BY <1>1, <2>5
      <3>. QED  BY <2>1, <2>5, <3>1
    <2>6. Outflow(n, h, v) = Outflow(n, g, v) + (IF v = From(n, l) THEN 1 ELSE 0)
                                              + (IF v = To(n, l) THEN -1 ELSE 0)
      BY <2>1, <2>3, <2>4, <2>5, UnitOver
    <2>. QED  BY <2>6 DEF g, h
  <1>. QED  BY <1>2, <1>3, <1>4

(* A way from the source carries one unit to where it is.                    *)
Way(n) == [at : Node(n), seen : SUBSET Node(n), over : SUBSET Half(n), cost : Int]
GoodWay(n, f, w) ==
  /\ w \in Way(n)
  /\ \A l \in w.over : Capacity(n, l) > f[l] /\ To(n, l) \in w.seen
  /\ \A v : Outflow(n, LEMON!Pushed(f, w.over), v) =
              Outflow(n, f, v) + (IF v = Source THEN 1 ELSE 0) + (IF v = w.at THEN -1 ELSE 0)

LEMMA OutflowIsInt ==
  ASSUME NEW n \in Built, NEW f \in [Half(n) -> Int], NEW v
  PROVE  Outflow(n, f, v) \in Int
  <1>1. f \in [Proved!Half(n) -> Int] /\ Proved!Outflow(n, f, v) = Outflow(n, f, v)
    BY SameNames
  <1>. QED  BY <1>1, BuiltIsAllowed, Proved!OutflowSums

LEMMA FirstWayIsGood ==
  ASSUME NEW n \in Built, NEW f \in [Half(n) -> Int], NEW w \in FirstWays
  PROVE  GoodWay(n, f, w)
  <1>1. w = [at |-> Source, seen |-> {Source}, over |-> {}, cost |-> 0]
    BY SameNamesLEMON DEF FirstWays
  <1>2. LEMON!Pushed(f, {}) = f
    <2>1. {} \in SUBSET Half(n)
      OBVIOUS
    <2>. QED  BY <2>1, PushedOnce
  <1>3. w \in Way(n)
    BY <1>1, HalfNodes DEF Way
  <1>4. \A v : Outflow(n, f, v) \in Int
    BY OutflowIsInt
  <1>. QED  BY <1>1, <1>2, <1>3, <1>4 DEF GoodWay

LEMMA LongerWayIsGood ==
  ASSUME NEW n \in Built, NEW f \in [Half(n) -> Int], NEW w, GoodWay(n, f, w),
         NEW x \in LongerWays(n, f, w)
  PROVE  GoodWay(n, f, x)
  <1>1. PICK l \in Half(n) :
          /\ Capacity(n, l) > f[l] /\ From(n, l) = w.at /\ To(n, l) \notin w.seen
          /\ x = [at |-> To(n, l), seen |-> w.seen \union {To(n, l)},
                  over |-> w.over \union {l}, cost |-> w.cost + LEMON!Cost(f, l)]
    BY SameNamesLEMON DEF LongerWays
  <1>2. w \in Way(n) /\ w.over \in SUBSET Half(n) /\ l \notin w.over
        /\ w.seen \in SUBSET Node(n) /\ w.cost \in Int
    BY <1>1 DEF GoodWay, Way
  <1>3. To(n, l) \in Node(n) /\ LEMON!Cost(f, l) \in Int
    BY HalfNodes DEF LEMON!Cost
  <1>4. x \in Way(n)
    BY <1>1, <1>2, <1>3 DEF Way
  <1>5. x.at = To(n, l) /\ x.over = w.over \union {l} /\ x.seen = w.seen \union {To(n, l)}
    BY <1>1
  <1>6. ASSUME NEW v
        PROVE  Outflow(n, LEMON!Pushed(f, x.over), v) =
                 Outflow(n, f, v) + (IF v = Source THEN 1 ELSE 0) + (IF v = x.at THEN -1 ELSE 0)
    <2>1. Outflow(n, LEMON!Pushed(f, w.over \union {l}), v) =
            Outflow(n, LEMON!Pushed(f, w.over), v) + (IF v = From(n, l) THEN 1 ELSE 0)
                                                   + (IF v = To(n, l) THEN -1 ELSE 0)
      BY <1>2, PushedOnce
    <2>2. Outflow(n, LEMON!Pushed(f, w.over), v) =
            Outflow(n, f, v) + (IF v = Source THEN 1 ELSE 0) + (IF v = w.at THEN -1 ELSE 0)
      BY DEF GoodWay
    <2>3. Outflow(n, f, v) \in Int
      BY OutflowIsInt
    <2>. QED  BY <1>1, <1>5, <2>1, <2>2, <2>3
  <1>7. \A m \in x.over : Capacity(n, m) > f[m] /\ To(n, m) \in x.seen
    BY <1>1, <1>5 DEF GoodWay
  <1>. QED  BY <1>4, <1>6, <1>7 DEF GoodWay

LEMMA WaysAreGood ==
  ASSUME NEW n \in Built, NEW f \in [Half(n) -> Int], NEW k \in Node(n),
         NEW w \in WaysOf(n, f)[k]
  PROVE  GoodWay(n, f, w)
  <1> DEFINE V == SUBSET {x \in Way(n) : GoodWay(n, f, x)}
             step == [X \in V |-> ExtendedWays(n, f, X)]
             Eq(W) == W = [j \in LEMON!Node(n) |->
                             IF j = 0 THEN FirstWays ELSE ExtendedWays(n, f, W[j - 1])]
  <1>1. FirstWays \in V
    BY FirstWayIsGood DEF GoodWay
  <1>2. ASSUME NEW X \in V PROVE ExtendedWays(n, f, X) \in V
    <2>1. ASSUME NEW x \in ExtendedWays(n, f, X) PROVE GoodWay(n, f, x)
      <3>1. PICK y \in X : x \in IF y.at = LEMON!Sink(n) THEN {y} ELSE LongerWays(n, f, y)
        BY DEF ExtendedWays
      <3>2. GoodWay(n, f, y)
        OBVIOUS
      <3>3. x = y \/ x \in LongerWays(n, f, y)
        BY <3>1
      <3>. QED  BY <3>2, <3>3, LongerWayIsGood
    <2>. QED  BY <2>1 DEF GoodWay
  <1>3. step \in [V -> V] /\ \A X \in V : step[X] = ExtendedWays(n, f, X)
    BY <1>2
  <1> HIDE DEF V, step
  <1>4. PICK g \in [Nat -> V] : \A j \in Nat : g[j] = IF j = 0 THEN FirstWays ELSE step[g[j - 1]]
    <2>1. step \in [V -> V]
      BY <1>3
    <2>. QED  BY ONLY <1>1, <2>1, Iteration
  <1>5. LEMON!Node(n) = 0 .. n.num - 1 /\ Node(n) = 0 .. n.num - 1 /\ n.num \in Nat
    BY SameNamesLEMON, HalfNodes DEF Node
  <1>6. \E W : Eq(W)
    <2> DEFINE W == [j \in LEMON!Node(n) |-> g[j]]
    <2>1. ASSUME NEW j \in LEMON!Node(n)
          PROVE  g[j] = IF j = 0 THEN FirstWays ELSE ExtendedWays(n, f, W[j - 1])
      <3>1. j \in Nat /\ (j # 0 => j - 1 \in Nat /\ j - 1 \in LEMON!Node(n))
        BY <1>5
      <3>2. j # 0 => g[j - 1] \in V /\ W[j - 1] = g[j - 1]
        BY <1>4, <3>1
      <3>. QED  BY <1>3, <1>4, <3>1, <3>2
    <2>2. Eq(W)
      BY <2>1
    <2>. QED  BY <2>2
  <1>7. Eq(WaysOf(n, f))
    BY <1>6 DEF WaysOf
  <1> DEFINE Bad == {j \in Node(n) : WaysOf(n, f)[j] \notin V}
  <1>8. Bad = {}
    <2> SUFFICES ASSUME Bad # {} PROVE FALSE
      OBVIOUS
    <2>1. Bad \in SUBSET Nat
      BY <1>5
    <2>2. PICK j \in Bad : \A m \in Bad : j <= m
      <3> HIDE DEF Bad
      <3>. QED  BY <2>1, LeastNatural
    <2>3. j \in LEMON!Node(n) /\ j \in Node(n) /\ j \in Nat /\ WaysOf(n, f)[j] \notin V
      BY <1>5
    <2>4. WaysOf(n, f)[j] = IF j = 0 THEN FirstWays ELSE ExtendedWays(n, f, WaysOf(n, f)[j - 1])
      BY <1>7, <2>3
    <2>5. CASE j = 0
      BY <1>1, <2>3, <2>4, <2>5
    <2>6. CASE j # 0
      <3>1. j - 1 \in Node(n) /\ j - 1 < j /\ j - 1 \in Nat
        BY <1>5, <2>3, <2>6
      <3>2. j - 1 \notin Bad
        <4> HIDE DEF Bad
        <4>1. ~ (j <= j - 1)
          BY <2>3
        <4>. QED  BY <2>2, <4>1
      <3>3. WaysOf(n, f)[j - 1] \in V
        BY <3>1, <3>2
      <3>. QED  BY <1>2, <2>3, <2>4, <2>6, <3>3
    <2>. QED  BY <2>5, <2>6
  <1>9. WaysOf(n, f)[k] \in V
    BY <1>8
  <1>. QED  BY <1>9 DEF V

(* What compute() pushes keeps the flow feasible and adds a unit to its      *)
(* value.                                                                    *)
LEMMA PushKeeps ==
  ASSUME NEW n \in Built, NEW f \in [Half(n) -> Int], Feasible(n, f),
         NEW w \in LEMON!Cheapest(LEMON!Paths(n, f)),
         NEW h, h = LEMON!Pushed(f, w.over)
  PROVE  /\ h \in [Half(n) -> Int] /\ Feasible(n, h)
         /\ Outflow(n, h, Source) = Outflow(n, f, Source) + 1
  <1>1. GoodWay(n, f, w) /\ w.at = Sink(n)
    <2>1. w \in WaysOf(n, f)[LEMON!Sink(n)] /\ w.at = LEMON!Sink(n)
      BY PathsAreWays DEF LEMON!Cheapest
    <2>2. LEMON!Sink(n) = Sink(n) /\ Sink(n) \in Node(n)
      BY SameNamesLEMON, HalfNodes
    <2>. QED  BY <2>1, <2>2, WaysAreGood
  <1>2. /\ w.over \in SUBSET Half(n)
        /\ \A l \in w.over : Capacity(n, l) > f[l]
        /\ \A v : Outflow(n, h, v) =
                    Outflow(n, f, v) + (IF v = Source THEN 1 ELSE 0) + (IF v = Sink(n) THEN -1 ELSE 0)
    BY <1>1 DEF GoodWay, Way
  <1>3. h \in [Half(n) -> Int]
    BY <1>2, PushedOnce
  <1>4. ASSUME NEW l \in Half(n)
        PROVE  h[l] = f[l] + (IF l \in w.over THEN 1 ELSE 0) - (IF Rev(l) \in w.over THEN 1 ELSE 0)
    BY SameNamesLEMON DEF LEMON!Pushed
  <1>5. /\ Source # Sink(n)
        /\ \A l \in Half(n) : Rev(l) \in Half(n) /\ Rev(Rev(l)) = l /\ Capacity(n, l) \in Nat
    BY HalfNodes
  <1>6. Antisymmetric(n, h)
    <2> SUFFICES ASSUME NEW l \in Half(n) PROVE h[l] = -h[Rev(l)]
      BY DEF Antisymmetric
    <2>1. f[l] = -f[Rev(l)] /\ f[l] \in Int /\ f[Rev(l)] \in Int
      BY <1>5 DEF Feasible, Antisymmetric
    <2>. QED  BY <1>4, <1>5, <2>1
  <1>7. WithinCapacity(n, h)
    <2> SUFFICES ASSUME NEW l \in Half(n) PROVE h[l] <= Capacity(n, l)
      BY DEF WithinCapacity
    <2>1. f[l] <= Capacity(n, l) /\ f[l] \in Int /\ Capacity(n, l) \in Int
      BY <1>5 DEF Feasible, WithinCapacity
    <2>. QED  BY <1>2, <1>4, <2>1
  <1>8. \A v : Outflow(n, f, v) \in Int
    BY OutflowIsInt
  <1>9. Conserved(n, h)
    BY <1>2, <1>8 DEF Conserved, Feasible
  <1>10. Outflow(n, h, Source) = Outflow(n, f, Source) + 1
    BY <1>2, <1>5, <1>8
  <1>. QED  BY <1>3, <1>6, <1>7, <1>9, <1>10 DEF Feasible

-----------------------------------------------------------------------------
(***************************************************************************)
(* The inductive invariant.  While a flow is sought its network is the one *)
(* of the present differences, and what was found so far is feasible.      *)
(***************************************************************************)
Sound ==
  /\ flow \in [Half(net) -> Int] /\ Feasible(net, flow)
  /\ total_flow = Outflow(net, flow, Source)

(* While a flow is sought, its network is that of the differences.           *)
Round ==
  pc = "flow" =>
    /\ net \in Built /\ net = Network(arc_ids, open)
    /\ IF use_minimum_cost_flow THEN Sound ELSE Proved!FlowInv

(* The components are whole, cover all equations, and sum to their count.    *)
Counts ==
  /\ \A c \in DOMAIN total_flows : Whole(c) /\ total_flows[c] = Excess(edge_diff, c)
  /\ pc \in {"parts_counted", "trees_counted"} =>
       Candidates /\ \A c, d \in DOMAIN total_flows : c # d => c \intersect d = {}
  /\ pc \in {"trees_counted", "build", "flow", "done"} =>
       \A eq \in Equation : \E c \in DOMAIN total_flows : eq \in c

(* What must not change has not.                                             *)
Frozen ==
  \A v \in Variable : allow_changes(v) = 0 => edge_diff[v[1]][v[2]] = mesh.diff[v[1]][v[2]]

(* After a full flow no equation is above zero.                              *)
Settled == fullFlow => pc = "done" /\ \A eq \in Equation : Residual(edge_diff, eq) <= 0

BalanceInv ==
  /\ mesh \in Meshes /\ edge_capacity \in Nat /\ Integral(edge_diff)
  /\ Counts /\ Round /\ Frozen /\ Settled

LEMMA SameMesh ==
  ASSUME mesh' = mesh
  PROVE  /\ Equation' = Equation /\ Variable' = Variable
         /\ \A v : allow_changes(v)' = allow_changes(v) /\ Uses(v)' = Uses(v)
                   /\ Free(v)' = Free(v) /\ SignSum(v)' = SignSum(v)
         /\ \A c : Whole(c)' = Whole(c)
         /\ Integral(edge_diff)' = Integral(edge_diff')
         /\ \A eq : Residual(edge_diff, eq)' = Residual(edge_diff', eq)
         /\ \A c : Excess(edge_diff, c)' = Excess(edge_diff', c)
  <1>1. Equation' = Equation /\ Variable' = Variable /\ Face' = Face
    BY DEF Equation, Variable, Face, Edge
  <1>2. \A v : allow_changes(v)' = allow_changes(v) /\ Uses(v)' = Uses(v)
    BY DEF allow_changes, Uses, Face
  <1>3. \A v : Free(v)' = Free(v)
    BY <1>2 DEF Free
  <1>4. \A v : SignSum(v)' = SignSum(v)
    BY <1>2 DEF SignSum, MapThenSumSet, MapThenFoldSet
  <1>5. \A c : Whole(c)' = Whole(c)
    BY <1>1, <1>2 DEF Whole
  <1>6. Integral(edge_diff)' = Integral(edge_diff')
    BY <1>1 DEF Integral
  <1>7. \A eq : Residual(edge_diff, eq)' = Residual(edge_diff', eq)
    BY DEF Residual
  <1>8. \A c : Excess(edge_diff, c)' = Excess(edge_diff', c)
    BY DEF Excess, Residual, MapThenSumSet, MapThenFoldSet
  <1>. QED  BY <1>1, <1>2, <1>3, <1>4, <1>5, <1>6, <1>7, <1>8

LEMMA InitBalance == Init => BalanceInv
  <1> SUFFICES ASSUME Init PROVE BalanceInv
    OBVIOUS
  <1>1. /\ mesh \in Meshes /\ edge_diff = mesh.diff /\ pc = "parts" /\ edge_capacity = 2
        /\ total_flows = <<>> /\ fullFlow = FALSE
    BY DEF Init
  <1>2. DOMAIN total_flows = {}
    BY <1>1
  <1>. QED  BY <1>1, <1>2, MeshFacts DEF BalanceInv, Counts, Round, Frozen, Settled

(* The variables that the steps of balancing leave alone.                    *)
Still == UNCHANGED <<mesh, edge_capacity, fullFlow>>

LEMMA CountKeeps ==
  ASSUME BalanceInv, Still, edge_diff' = edge_diff, NEW components, Count(components),
         \A c \in components : Whole(c),
         \A c, d \in components : c # d => c \intersect d = {},
         \/ pc = "parts" /\ pc' = "parts_counted"
         \/ /\ pc = "trees" /\ pc' = "trees_counted"
            /\ \A eq \in Equation : \E c \in components : eq \in c
  PROVE  BalanceInv'
  <1>1. /\ mesh' = mesh /\ edge_capacity' = edge_capacity /\ fullFlow' = fullFlow
        /\ mesh \in Meshes /\ edge_capacity \in Nat /\ Integral(edge_diff) /\ Frozen /\ ~ fullFlow
    BY DEF Still, BalanceInv, Settled
  <1>2. PICK totals \in {[c \in components |-> Excess(edge_diff, c)]} :
          /\ total_flows' = totals
          /\ modified_variables' =
               {m \in
                  {[v |-> p[1], c |-> p[2], step |-> Abs(SignSum(p[1])) % 2,
                    by |-> Shift(p[1], totals[p[2]])] :
                     p \in {p \in Variable \X DOMAIN totals : Used(FirstUse(p[1])) \in p[2]}} :
                m.by # 0}
    BY DEF Count
  <1>3. Counts'
    <2>1. \A c \in DOMAIN total_flows' : Whole(c)' /\ total_flows'[c] = Excess(edge_diff, c)'
      BY <1>1, <1>2, SameMesh
    <2>2. Candidates'
      <3>1. \A v : SignSum(v)' = SignSum(v) /\ allow_changes(v)' = allow_changes(v)
                   /\ Uses(v)' = Uses(v)
        BY <1>1, SameMesh
      <3>2. \A v : FirstUse(v)' = FirstUse(v)
        BY <3>1, Zenon DEF FirstUse
      <3>3. Variable' = Variable
        BY <1>1, SameMesh
      <3>4. \A v, x : Shift(v, x)' = Shift(v, x)
        BY <1>1, <3>1 DEF Shift
      <3>5. ASSUME NEW m \in modified_variables'
            PROVE  \E p \in Variable \X DOMAIN totals :
                     /\ Used(FirstUse(p[1])) \in p[2]
                     /\ m = [v |-> p[1], c |-> p[2], step |-> Abs(SignSum(p[1])) % 2,
                             by |-> Shift(p[1], totals[p[2]])]
                     /\ m.by # 0
        BY <1>2
      <3>. QED  BY <1>1, <1>2, <3>1, <3>2, <3>3, <3>4, <3>5 DEF Candidates, Used, Shift
    <2>3. \A c, d \in DOMAIN total_flows' : c # d => c \intersect d = {}
      BY <1>2
    <2>4. pc' = "trees_counted" =>
            \A eq \in Equation' : \E c \in DOMAIN total_flows' : eq \in c
      BY <1>1, <1>2, SameMesh
    <2>. QED  BY <2>1, <2>2, <2>3, <2>4 DEF Counts
  <1>4. Frozen'
    BY <1>1, SameMesh DEF Frozen
  <1>5. Integral(edge_diff)'
    BY <1>1, SameMesh
  <1>6. Round' /\ Settled'
    BY <1>1 DEF Round, Settled
  <1>. QED  BY <1>1, <1>3, <1>4, <1>5, <1>6 DEF BalanceInv

LEMMA CountPartsKeeps == BalanceInv /\ CountParts => BalanceInv'
  <1> SUFFICES ASSUME BalanceInv, CountParts PROVE BalanceInv'
    OBVIOUS
  <1>1. /\ mesh \in Meshes /\ Count(Parts(FaceLinks)) /\ Still /\ edge_diff' = edge_diff
        /\ pc = "parts" /\ pc' = "parts_counted"
    BY DEF BalanceInv, CountParts, Still
  <1>2. \A c \in Parts(FaceLinks) : Whole(c)
    BY <1>1, PartsAreWhole DEF Whole
  <1>3. \A c, d \in Parts(FaceLinks) : c # d => c \intersect d = {}
    <2>1. \A l \in FaceLinks : l \subseteq Face
      BY DEF FaceLinks
    <2>2. \A P, R \in Components(Face, FaceLinks) : P # R => P \intersect R = {}
      BY <2>1, ComponentFacts
    <2>3. \A c \in Parts(FaceLinks) : \E P \in Components(Face, FaceLinks) : c = P \X {1, 2}
      BY DEF Parts
    <2>4. \A P, R : P \intersect R = {} => (P \X {1, 2}) \intersect (R \X {1, 2}) = {}
      OBVIOUS
    <2>. QED  BY <2>2, <2>3, <2>4
  <1>. QED  BY <1>1, <1>2, <1>3, CountKeeps

LEMMA CountTreesKeeps == BalanceInv /\ CountTrees => BalanceInv'
  <1> SUFFICES ASSUME BalanceInv, CountTrees PROVE BalanceInv'
    OBVIOUS
  <1>1. /\ mesh \in Meshes /\ Count(Trees(EquationLinks)) /\ Still /\ edge_diff' = edge_diff
        /\ pc = "trees" /\ pc' = "trees_counted"
    BY DEF BalanceInv, CountTrees, Still
  <1>2. \A c \in Trees(EquationLinks) : Whole(c)
    BY <1>1, TreesAreWhole DEF Whole
  <1>3. /\ \A c, d \in Trees(EquationLinks) : c # d => c \intersect d = {}
        /\ \A eq \in Equation : \E c \in Trees(EquationLinks) : eq \in c
    <2>1. \A l \in EquationLinks : l \subseteq Equation
      BY <1>1, LinksInside
    <2>. QED  BY <2>1, ComponentFacts DEF Trees
  <1>. QED  BY <1>1, <1>2, <1>3, CountKeeps

LEMMA ModifyKeeps ==
  ASSUME BalanceInv, Still, Modify,
         \/ pc = "parts_counted" /\ pc' = "trees"
         \/ pc = "trees_counted" /\ pc' = "build"
  PROVE  BalanceInv'
  <1> DEFINE Of(c, step) == {m \in modified_variables : m.c = c /\ m.step = step}
             Twos(c) == MinOf(Abs(total_flows[c]) \div 2, Cardinality(Of(c, 0)))
             Ones(c) == MinOf(Abs(total_flows[c]) - 2 * Twos(c), Cardinality(Of(c, 1)))
  <1>1. /\ mesh' = mesh /\ edge_capacity' = edge_capacity /\ fullFlow' = fullFlow
        /\ mesh \in Meshes /\ edge_capacity \in Nat /\ Integral(edge_diff) /\ Frozen /\ ~ fullFlow
        /\ Candidates
        /\ \A c \in DOMAIN total_flows : Whole(c) /\ total_flows[c] = Excess(edge_diff, c)
        /\ \A c, d \in DOMAIN total_flows : c # d => c \intersect d = {}
        /\ pc = "trees_counted" => \A eq \in Equation : \E c \in DOMAIN total_flows : eq \in c
    BY DEF Still, BalanceInv, Settled, Counts
  <1>2. \A c \in DOMAIN total_flows : total_flows[c] \in Int /\ Whole(c)
    <2> SUFFICES ASSUME NEW c \in DOMAIN total_flows
                 PROVE  total_flows[c] \in Int /\ Whole(c)
      OBVIOUS
    <2>1. Whole(c) /\ c \in SUBSET Equation /\ total_flows[c] = Excess(edge_diff, c)
      BY <1>1 DEF Whole
    <2>2. mesh \in Meshes /\ Integral(edge_diff)
      BY <1>1
    <2>. QED  BY ONLY <2>1, <2>2, ExcessIsSum
  <1>3. /\ \E M \in SUBSET modified_variables :
             /\ \A c \in DOMAIN total_flows :
                  /\ Cardinality(M \intersect Of(c, 0)) = Twos(c)
                  /\ Cardinality(M \intersect Of(c, 1)) = Ones(c)
             /\ edge_diff' = Modified(M)
        /\ total_flows' =
             [c \in DOMAIN total_flows |->
                total_flows[c] -
                (IF total_flows[c] > 0 THEN 1 ELSE -1) * (2 * Twos(c) + Ones(c))]
    BY DEF Modify, Modified
  <1> HIDE DEF Twos, Ones
  <1>4. PICK M \in SUBSET modified_variables :
          /\ \A c \in DOMAIN total_flows :
               /\ Cardinality(M \intersect Of(c, 0)) = Twos(c)
               /\ Cardinality(M \intersect Of(c, 1)) = Ones(c)
          /\ edge_diff' = Modified(M)
    BY <1>3
  <1>5. /\ Integral(edge_diff')
        /\ \A v \in Variable : allow_changes(v) = 0 => edge_diff'[v[1]][v[2]] = edge_diff[v[1]][v[2]]
        /\ \A c \in DOMAIN total_flows :
             Excess(edge_diff', c) = Excess(edge_diff, c) - Lowering(M, c)
    <2>1. /\ Integral(Modified(M))
          /\ \A v \in Variable :
               allow_changes(v) = 0 => Modified(M)[v[1]][v[2]] = edge_diff[v[1]][v[2]]
          /\ \A c \in DOMAIN total_flows :
               Excess(Modified(M), c) = Excess(edge_diff, c) - Lowering(M, c)
      <3>1. /\ mesh \in Meshes /\ Integral(edge_diff) /\ Candidates
            /\ \A c, d \in DOMAIN total_flows : c # d => c \intersect d = {}
            /\ M \in SUBSET modified_variables
        BY <1>1
      <3>. QED  BY ONLY <1>2, <3>1, ModifiedExcess
    <2> HIDE DEF Of
    <2>. QED  BY <1>4, <2>1
  <1>6. Counts'
    <2>1. \A c \in DOMAIN total_flows :
            total_flows'[c] = Excess(edge_diff', c) /\ Whole(c)
      BY <1>1, <1>3, <1>4, <1>5 DEF Lowering
    <2>2. DOMAIN total_flows' = DOMAIN total_flows
      BY <1>3
    <2>3. ASSUME NEW c \in DOMAIN total_flows'
          PROVE  Whole(c)' /\ total_flows'[c] = Excess(edge_diff, c)'
      <3>1. Whole(c) /\ total_flows'[c] = Excess(edge_diff', c)
        BY <2>1, <2>2
      <3>2. Whole(c)' = Whole(c) /\ Excess(edge_diff, c)' = Excess(edge_diff', c)
        BY <1>1, SameMesh
      <3>. QED  BY ONLY <3>1, <3>2
    <2>4. pc' = "build" => \A eq \in Equation' : \E c \in DOMAIN total_flows' : eq \in c
      BY <1>1, <2>2, SameMesh
    <2>. QED  BY <2>3, <2>4 DEF Counts
  <1>7. Frozen'
    BY <1>1, <1>5, SameMesh DEF Frozen
  <1>8. Integral(edge_diff)'
    BY <1>1, <1>5, SameMesh
  <1>9. Round' /\ Settled'
    BY <1>1 DEF Round, Settled
  <1>. QED  BY <1>1, <1>6, <1>7, <1>8, <1>9 DEF BalanceInv

(* The network does not change while its flow is sought.                     *)
LEMMA SameNetwork ==
  ASSUME mesh' = mesh, edge_diff' = edge_diff, edge_capacity' = edge_capacity
  PROVE  Network(arc_ids, open)' = Network(arc_ids, open)
  <1>1. arc_ids' = arc_ids
    BY SameMesh DEF arc_ids
  <1>2. \A eq : Residual(edge_diff, eq)' = Residual(edge_diff, eq)
    BY SameMesh
  <1>3. open' = open
    BY <1>2 DEF open, Residual
  <1>4. \A v : Uses(v)' = Uses(v)
    BY SameMesh
  <1>5. \A i : ArcOf(i)' = ArcOf(i)
    BY <1>4 DEF ArcOf
  <1>6. \A i : TerminalOf(i)' = TerminalOf(i)
    BY <1>2 DEF TerminalOf, Residual
  <1> DEFINE Arcs1(s) == [k \in 1 .. Cardinality(s) |-> ArcOf(Ascending(s)[k])]
             Terms1(s) == [k \in 1 .. Cardinality(s) |-> TerminalOf(Ascending(s)[k])]
  <1>7. \A s : Arcs1(s)' = Arcs1(s) /\ Terms1(s)' = Terms1(s)
    BY <1>5, <1>6
  <1>8. Network(arc_ids, open) = [num |-> 2 * Len(mesh.F2E) + 2, edges |-> Arcs1(arc_ids) \o Terms1(open)]
    BY DEF Network
  <1>9. Network(arc_ids, open)' =
          [num |-> 2 * Len(mesh'.F2E) + 2, edges |-> Arcs1(arc_ids)' \o Terms1(open)']
    BY DEF Network
  <1> HIDE DEF Arcs1, Terms1
  <1>10. Arcs1(arc_ids)' = Arcs1(arc_ids)
    BY <1>1, <1>7
  <1>. QED  BY <1>1, <1>3, <1>7, <1>8, <1>9, <1>10

(* Build: a helper whose flow is zero.                                       *)
LEMMA BuildKeeps == BalanceInv /\ Build => BalanceInv'
  <1> SUFFICES ASSUME BalanceInv, Build PROVE BalanceInv'
    OBVIOUS
  <1>1. /\ mesh' = mesh /\ edge_capacity' = edge_capacity /\ fullFlow' = fullFlow
        /\ edge_diff' = edge_diff /\ total_flows' = total_flows
        /\ pc = "build" /\ pc' = "flow" /\ use_minimum_cost_flow' = use_minimum_cost_flow
        /\ mesh \in Meshes /\ edge_capacity \in Nat /\ Integral(edge_diff) /\ Frozen /\ ~ fullFlow
        /\ Counts
    BY DEF BalanceInv, Settled, Build
  <1>2. /\ net' = Network(arc_ids, open) /\ flow' = EC!ZeroFlow(Network(arc_ids, open))
        /\ ec' = "search" /\ q' = <<EC!Start>> /\ q_front' = 1 /\ vhash' = {EC!Source}
        /\ loc' = 0 /\ total_flow' = 0
    BY DEF Build
  <1>3. Network(arc_ids, open) \in Built
    BY <1>1, NetworkIs
  <1>4. Network(arc_ids, open)' = Network(arc_ids, open)
    BY <1>1, SameNetwork
  <1>5. Proved!FlowInv'
    <2>1. Proved!Init'
      BY <1>2, <1>3, SameNames DEF Proved!Init
    <2>. QED  BY <2>1, HelperStartsNext
  <1>6. Sound'
    <2>1. ASSUME NEW n \in Built
          PROVE  /\ ZeroFlow(n) \in [Half(n) -> Int] /\ Feasible(n, ZeroFlow(n))
                 /\ 0 = Outflow(n, ZeroFlow(n), Source)
      <3>1. /\ ZeroFlow(n) \in [Half(n) -> Int]
            /\ \A l \in Half(n) : Rev(l) \in Half(n) /\ ZeroFlow(n)[l] = 0
                                  /\ ZeroFlow(n)[Rev(l)] = 0 /\ Capacity(n, l) \in Nat
        BY HalfNodes DEF ZeroFlow
      <3>2. \A v : Outflow(n, ZeroFlow(n), v) = 0
        <4>1. \A v : Proved!Outflow(n, Proved!ZeroFlow(n), v) = 0
          BY BuiltIsAllowed, Proved!NoOutflow
        <4>. QED  BY <4>1, SameNames
      <3>. QED  BY <3>1, <3>2 DEF Feasible, Antisymmetric, WithinCapacity, Conserved
    <2>2. net' \in Built /\ flow' = ZeroFlow(net') /\ total_flow' = 0
      BY <1>2, <1>3, SameNames
    <2>. QED  BY <2>1, <2>2 DEF Sound
  <1>7. Round'
    BY <1>1, <1>2, <1>3, <1>4, <1>5, <1>6 DEF Round
  <1>8. Counts' /\ Frozen' /\ Integral(edge_diff)' /\ Settled'
    <2>1. \A c \in DOMAIN total_flows' : Whole(c)' /\ total_flows'[c] = Excess(edge_diff, c)'
      BY <1>1, SameMesh DEF Counts
    <2>2. \A eq \in Equation' : \E c \in DOMAIN total_flows' : eq \in c
      BY <1>1, SameMesh DEF Counts
    <2>3. Counts'
      BY <1>1, <2>1, <2>2 DEF Counts
    <2>. QED  BY <1>1, <2>3, SameMesh DEF Frozen, Settled
  <1>. QED  BY <1>1, <1>7, <1>8 DEF BalanceInv

(* compute(): a unit of flow, or a step of the search.                       *)
LEMMA ComputeKeeps ==
  ASSUME BalanceInv,
         UNCHANGED <<mesh, use_minimum_cost_flow, pc, edge_diff, total_flows, modified_variables,
                     edge_capacity, iter, fullFlow>>,
         Round'
  PROVE  BalanceInv'
  <1>1. /\ mesh' = mesh /\ edge_capacity' = edge_capacity /\ fullFlow' = fullFlow
        /\ edge_diff' = edge_diff /\ total_flows' = total_flows
        /\ pc' = pc /\ modified_variables' = modified_variables
        /\ mesh \in Meshes /\ edge_capacity \in Nat /\ Integral(edge_diff)
        /\ Counts /\ Frozen /\ Settled
    BY DEF BalanceInv
  <1>2. /\ \A v : SignSum(v)' = SignSum(v) /\ allow_changes(v)' = allow_changes(v)
                  /\ Uses(v)' = Uses(v)
        /\ Variable' = Variable /\ Equation' = Equation
        /\ \A c : Whole(c)' = Whole(c) /\ Excess(edge_diff, c)' = Excess(edge_diff', c)
        /\ \A eq : Residual(edge_diff, eq)' = Residual(edge_diff', eq)
        /\ Integral(edge_diff)' = Integral(edge_diff')
    BY <1>1, SameMesh
  <1>3. Counts'
    <2>1. \A c \in DOMAIN total_flows' : Whole(c)' /\ total_flows'[c] = Excess(edge_diff, c)'
      BY <1>1, SameMesh DEF Counts
    <2>2. Candidates => Candidates'
      <3>1. \A v : FirstUse(v)' = FirstUse(v)
        BY <1>2, Zenon DEF FirstUse
      <3>2. \A v, x : Shift(v, x)' = Shift(v, x)
        BY <1>1, <1>2 DEF Shift
      <3>. QED  BY <1>1, <1>2, <3>1, <3>2 DEF Candidates, Used, Shift
    <2>. QED  BY <1>1, <1>2, <2>1, <2>2 DEF Counts
  <1>4. Frozen' /\ Settled'
    BY <1>1, <1>2 DEF Frozen, Settled
  <1>. QED  BY <1>1, <1>2, <1>3, <1>4 DEF BalanceInv

LEMMA ComputeCheapestKeeps == BalanceInv /\ ComputeCheapest => BalanceInv'
  <1> SUFFICES ASSUME BalanceInv, ComputeCheapest PROVE BalanceInv'
    OBVIOUS
  <1>1. /\ UNCHANGED <<mesh, use_minimum_cost_flow, pc, edge_diff, total_flows, modified_variables,
                       edge_capacity, iter, fullFlow>>
        /\ net' = net /\ pc = "flow" /\ use_minimum_cost_flow
    BY DEF ComputeCheapest
  <1>2. net \in Built /\ net = Network(arc_ids, open) /\ Sound
    BY <1>1 DEF BalanceInv, Round
  <1>3. net' = Network(arc_ids, open)'
    BY <1>1, <1>2, SameNetwork
  <1>4. \/ UNCHANGED <<flow, total_flow>>
        \/ /\ \E w \in LEMON!Cheapest(LEMON!Paths(net, flow)) : flow' = LEMON!Pushed(flow, w.over)
           /\ total_flow' = total_flow + 1
    BY DEF ComputeCheapest
  <1>5. /\ flow' \in [Half(net) -> Int] /\ Feasible(net, flow')
        /\ total_flow' = Outflow(net, flow', Source)
    <2>1. CASE UNCHANGED <<flow, total_flow>>
      BY <1>2, <2>1 DEF Sound
    <2>2. CASE /\ \E w \in LEMON!Cheapest(LEMON!Paths(net, flow)) :
                    flow' = LEMON!Pushed(flow, w.over)
               /\ total_flow' = total_flow + 1
      BY <1>2, <2>2, PushKeeps DEF Sound
    <2>. QED  BY <1>4, <2>1, <2>2
  <1>6. Round'
    BY <1>1, <1>2, <1>3, <1>5 DEF Round, Sound, Feasible, Antisymmetric, WithinCapacity,
                                  Conserved
  <1>. QED  BY <1>1, <1>6, ComputeKeeps

LEMMA EcComputeKeeps == BalanceInv /\ Compute => BalanceInv'
  <1> SUFFICES ASSUME BalanceInv, Compute PROVE BalanceInv'
    OBVIOUS
  <1>1. /\ UNCHANGED <<mesh, use_minimum_cost_flow, pc, edge_diff, total_flows, modified_variables,
                       edge_capacity, iter, fullFlow>>
        /\ pc = "flow" /\ ~use_minimum_cost_flow /\ EC!Next
    BY DEF Compute
  <1>2. net \in Built /\ net = Network(arc_ids, open) /\ Proved!FlowInv
    BY <1>1 DEF BalanceInv, Round
  <1>3. Proved!Next
    BY <1>1, SameNext
  <1>4. Proved!FlowInv'
    BY <1>2, <1>3, HelperSteps
  <1>5. net' = net
    BY <1>3 DEF Proved!Next, Proved!Find, Proved!NextFront, Proved!Return, Proved!Augment,
                Proved!Augmented
  <1>6. net' = Network(arc_ids, open)'
    BY <1>1, <1>2, <1>5, SameNetwork
  <1>7. Round'
    BY <1>1, <1>2, <1>4, <1>5, <1>6 DEF Round
  <1>. QED  BY <1>1, <1>7, ComputeKeeps

LEMMA StutterKeeps == BalanceInv /\ UNCHANGED vars => BalanceInv'
  <1> SUFFICES ASSUME BalanceInv, UNCHANGED vars PROVE BalanceInv'
    OBVIOUS
  <1>1. /\ UNCHANGED <<mesh, use_minimum_cost_flow, pc, edge_diff, total_flows, modified_variables,
                       edge_capacity, iter, fullFlow>>
        /\ UNCHANGED Proved!vars
        /\ UNCHANGED <<net, flow, total_flow>>
    BY DEF vars, helper, Proved!vars
  <1>2. pc = "flow" => /\ net \in Built /\ net = Network(arc_ids, open)
                       /\ IF use_minimum_cost_flow THEN Sound ELSE Proved!FlowInv
    BY DEF BalanceInv, Round
  <1>3. Network(arc_ids, open)' = Network(arc_ids, open)
    BY <1>1, SameNetwork
  <1>4. Proved!FlowInv => Proved!FlowInv'
    BY <1>1, HelperSteps
  <1>5. Sound => Sound'
    <2>1. Outflow(net, flow, Source)' = Outflow(net, flow, Source)
      BY <1>1
    <2>. QED  BY <1>1, <2>1 DEF Sound, Feasible, Antisymmetric, WithinCapacity, Conserved
  <1>6. Round'
    BY <1>1, <1>2, <1>3, <1>4, <1>5 DEF Round
  <1>. QED  BY <1>1, <1>6, ComputeKeeps

-----------------------------------------------------------------------------
(***************************************************************************)
(* What a flow does to the equations when it is applied.                   *)
(***************************************************************************)
(* The provers do not compute with unary minus.                              *)
LEMMA MinusMinusOne == 1 = -(-1)
  <1>1. \A a, b \in Int : a + b = 0 => a = -b
    OBVIOUS
  <1>2. 1 \in Int /\ -1 \in Int /\ 1 + (-1) = 0
    OBVIOUS
  <1>. QED  BY ONLY <1>1, <1>2

LEMMA MinusZero == 0 = -0
  <1>1. \A a, b \in Int : a + b = 0 => a = -b
    OBVIOUS
  <1>2. 0 \in Int /\ 0 + 0 = 0
    OBVIOUS
  <1>. QED  BY ONLY <1>1, <1>2

(* The arcs of a variable in the network: one if it is free, or none.        *)
ArcsOf(n, v) == {k \in 1 .. Len(n.edges) : n.edges[k].v # NoVariable /\ VariableOf(n.edges[k].v) = v}

LEMMA ArcsAre ==
  ASSUME mesh \in Meshes, Integral(edge_diff), edge_capacity \in Nat,
         NEW n, n = Network(arc_ids, open)
  PROVE  /\ \A k \in 1 .. Cardinality(arc_ids) :
              \E v \in Variable : Free(v) /\ ArcsOf(n, v) = {k} /\ n.edges[k] = ArcOf(NodeOf(v))
         /\ \A v \in Variable : ~Free(v) => ArcsOf(n, v) = {}
         /\ \A v \in Variable : Free(v) =>
              \E k \in 1 .. Cardinality(arc_ids) :
                ArcsOf(n, v) = {k} /\ n.edges[k] = ArcOf(NodeOf(v))
  <1> DEFINE A == Cardinality(arc_ids)
             B == Cardinality(open)
             D == Len(mesh.diff)
  <1>1. /\ A \in Nat /\ B \in Nat /\ D \in Nat /\ Len(n.edges) = A + B
        /\ \A k \in 1 .. A : n.edges[k] = ArcOf(Ascending(arc_ids)[k])
        /\ \A k \in 1 .. B : n.edges[A + k] = TerminalOf(Ascending(open)[k])
    BY NetworkIs, MeshFacts
  <1>2. /\ \A k \in 1 .. A : Ascending(arc_ids)[k] \in arc_ids
        /\ \A x \in arc_ids : \E k \in 1 .. A : Ascending(arc_ids)[k] = x
        /\ \A j, k \in 1 .. A : Ascending(arc_ids)[j] = Ascending(arc_ids)[k] => j = k
    BY NetworkIs, AscendingLists
  <1>3. /\ \A i \in 1 .. 2 * D : VariableOf(i) \in Variable /\ NodeOf(VariableOf(i)) = i
        /\ \A v \in Variable : NodeOf(v) \in 1 .. 2 * D /\ VariableOf(NodeOf(v)) = v
    BY <1>1, IndexFacts DEF Variable, Edge
  <1>4. \A i : i \in arc_ids <=> i \in 1 .. 2 * D /\ Free(VariableOf(i))
    BY DEF arc_ids
  <1>5. \A i \in 1 .. 2 * D : ArcOf(i).v = i /\ i # NoVariable
    BY <1>1 DEF ArcOf, NoVariable
  <1>6. \A i : TerminalOf(i).v = NoVariable
    BY DEF TerminalOf
  <1> HIDE DEF A, B, D
  <1>7. ASSUME NEW k \in 1 .. Len(n.edges), k \notin 1 .. A PROVE n.edges[k].v = NoVariable
    <2>1. k - A \in 1 .. B /\ k = A + (k - A)
      BY <1>1, <1>7
    <2>. QED  BY <1>1, <1>6, <2>1
  <1>8. ASSUME NEW k \in 1 .. A
        PROVE  /\ k \in 1 .. Len(n.edges) /\ n.edges[k].v # NoVariable
               /\ n.edges[k].v = Ascending(arc_ids)[k] /\ n.edges[k].v \in 1 .. 2 * D
               /\ Free(VariableOf(n.edges[k].v)) /\ VariableOf(n.edges[k].v) \in Variable
               /\ n.edges[k] = ArcOf(NodeOf(VariableOf(n.edges[k].v)))
    <2>1. Ascending(arc_ids)[k] \in 1 .. 2 * D /\ Free(VariableOf(Ascending(arc_ids)[k]))
      BY <1>2, <1>4
    <2>2. n.edges[k] = ArcOf(Ascending(arc_ids)[k]) /\ n.edges[k].v = Ascending(arc_ids)[k]
      BY <1>1, <1>5, <2>1
    <2>. QED  BY <1>1, <1>3, <1>5, <2>1, <2>2
  <1>9. ASSUME NEW j \in 1 .. A, NEW k \in 1 .. A,
               VariableOf(n.edges[j].v) = VariableOf(n.edges[k].v)
        PROVE  j = k
    <2>1. n.edges[j].v = n.edges[k].v
      BY <1>3, <1>8, <1>9
    <2>. QED  BY <1>2, <1>8, <2>1
  <1>10. ASSUME NEW k \in 1 .. A, NEW v, v = VariableOf(n.edges[k].v)
         PROVE  ArcsOf(n, v) = {k}
    <2>1. k \in ArcsOf(n, v)
      BY <1>8, <1>10 DEF ArcsOf
    <2>2. ASSUME NEW j \in ArcsOf(n, v) PROVE j = k
      <3>1. j \in 1 .. Len(n.edges) /\ n.edges[j].v # NoVariable /\ VariableOf(n.edges[j].v) = v
        BY DEF ArcsOf
      <3>2. j \in 1 .. A
        BY <1>7, <3>1
      <3>. QED  BY <1>9, <1>10, <3>1, <3>2
    <2>. QED  BY <2>1, <2>2
  <1>11. \A v \in Variable : ~Free(v) => ArcsOf(n, v) = {}
    <2> SUFFICES ASSUME NEW v \in Variable, ~Free(v), NEW k \in ArcsOf(n, v) PROVE FALSE
      OBVIOUS
    <2>1. k \in 1 .. Len(n.edges) /\ n.edges[k].v # NoVariable /\ VariableOf(n.edges[k].v) = v
      BY DEF ArcsOf
    <2>. QED  BY <1>7, <1>8, <2>1
  <1>12. ASSUME NEW v \in Variable, Free(v)
         PROVE  \E k \in 1 .. A : ArcsOf(n, v) = {k} /\ n.edges[k] = ArcOf(NodeOf(v))
    <2>1. NodeOf(v) \in arc_ids /\ VariableOf(NodeOf(v)) = v
      BY <1>3, <1>4, <1>12
    <2>2. PICK k \in 1 .. A : Ascending(arc_ids)[k] = NodeOf(v)
      BY <1>2, <2>1
    <2>3. VariableOf(n.edges[k].v) = v /\ n.edges[k] = ArcOf(NodeOf(v))
      BY <1>8, <2>1, <2>2
    <2>. QED  BY <1>10, <2>3
  <1>13. ASSUME NEW k \in 1 .. A
         PROVE  \E v \in Variable : Free(v) /\ ArcsOf(n, v) = {k} /\ n.edges[k] = ArcOf(NodeOf(v))
    BY <1>8, <1>10
  <1>. QED  BY <1>11, <1>12, <1>13 DEF A

(* The sum over one arc, or over none.                                       *)
LEMMA SumOfFlows ==
  ASSUME NEW S, \A k \in S : flow[<<k, -1>>] \in Int
  PROVE  /\ S = {} => MapThenSumSet(LAMBDA k : flow[<<k, -1>>], S) = 0
         /\ \A x \in S : S = {x} => MapThenSumSet(LAMBDA k : flow[<<k, -1>>], S) = flow[<<x, -1>>]
  <1> DEFINE w == [k \in S |-> flow[<<k, -1>>]]
             ByFlow(it, s) == IF s = {} THEN 0 ELSE flow[<<AnyOf(s), -1>>] + it[s \ {AnyOf(s)}]
             ByW(it, s) == IF s = {} THEN 0 ELSE w[AnyOf(s)] + it[s \ {AnyOf(s)}]
  <1>1. \A s \in SUBSET S : s # {} => AnyOf(s) \in S
    BY Zenon DEF AnyOf
  <1>2. \A it : it = [s \in SUBSET S |-> ByFlow(it, s)] <=> it = [s \in SUBSET S |-> ByW(it, s)]
    BY <1>1
  <1>3. (CHOOSE it : it = [s \in SUBSET S |-> ByFlow(it, s)])
          = (CHOOSE it : it = [s \in SUBSET S |-> ByW(it, s)])
    BY <1>2, Zenon
  <1>4. MapThenSumSet(LAMBDA k : flow[<<k, -1>>], S)
          = (CHOOSE it : it = [s \in SUBSET S |-> ByFlow(it, s)])[S]
    BY DEF MapThenSumSet, MapThenFoldSet, AnyOf
  <1>5. SumOver(w, S) = (CHOOSE it : it = [s \in SUBSET S |-> ByW(it, s)])[S]
    BY DEF SumOver, MapThenSumSet, MapThenFoldSet, AnyOf
  <1>6. MapThenSumSet(LAMBDA k : flow[<<k, -1>>], S) = SumOver(w, S)
    BY <1>3, <1>4, <1>5
  <1>7. w \in [S -> Int] /\ \A k \in S : w[k] = flow[<<k, -1>>]
    OBVIOUS
  <1> HIDE DEF w
  <1>8. SumOver(w, {}) = 0
    <2>1. {} \in SUBSET S /\ IsFiniteSet({})
      BY FS_EmptySet
    <2>. QED  BY <1>7, <2>1, SumOverOne
  <1>9. ASSUME NEW x \in S, S = {x} PROVE SumOver(w, S) = flow[<<x, -1>>]
    <2>1. IsFiniteSet(S) /\ S \ {x} = {}
      BY <1>9, FS_Singleton
    <2>2. SumOver(w, S) = w[x] + SumOver(w, S \ {x})
      BY <1>7, <2>1, SumOverOne
    <2>. QED  BY <1>7, <1>8, <2>1, <2>2
  <1>. QED  BY <1>6, <1>8, <1>9

(* By what applyTo lowers a variable.                                        *)
TheArc(v) == CHOOSE k : ArcsOf(net, v) = {k}
Taken(v) == IF Free(v) THEN flow[<<TheArc(v), -1>>] ELSE 0
AppliedFlow == [e \in Edge |-> [d \in {1, 2} |-> Applied(e, d)]]

LEMMA AppliedIs ==
  ASSUME mesh \in Meshes, Integral(edge_diff), edge_capacity \in Nat,
         net = Network(arc_ids, open), flow \in [Half(net) -> Int]
  PROVE  /\ \A v \in Variable :
              /\ Taken(v) \in Int
              /\ AppliedFlow[v[1]][v[2]] = edge_diff[v[1]][v[2]] - Taken(v)
         /\ Integral(AppliedFlow)
         /\ \A v \in Variable : Free(v) =>
              /\ TheArc(v) \in 1 .. Cardinality(arc_ids) /\ TheArc(v) \in 1 .. Len(net.edges)
              /\ ArcsOf(net, v) = {TheArc(v)} /\ net.edges[TheArc(v)] = ArcOf(NodeOf(v))
              /\ Taken(v) = flow[<<TheArc(v), -1>>]
  <1>1. ASSUME NEW v \in Variable, Free(v)
        PROVE  /\ TheArc(v) \in 1 .. Cardinality(arc_ids) /\ TheArc(v) \in 1 .. Len(net.edges)
               /\ ArcsOf(net, v) = {TheArc(v)} /\ net.edges[TheArc(v)] = ArcOf(NodeOf(v))
               /\ Taken(v) = flow[<<TheArc(v), -1>>] /\ Taken(v) \in Int
    <2>1. PICK k \in 1 .. Cardinality(arc_ids) :
            ArcsOf(net, v) = {k} /\ net.edges[k] = ArcOf(NodeOf(v))
      BY <1>1, ArcsAre
    <2>2. TheArc(v) = k
      BY <2>1 DEF TheArc
    <2>3. k \in 1 .. Len(net.edges)
      BY <2>1 DEF ArcsOf
    <2>4. <<k, -1>> \in Half(net)
      BY <2>3 DEF Half
    <2>. QED  BY <1>1, <2>1, <2>2, <2>3, <2>4 DEF Taken
  <1>2. \A v \in Variable : Taken(v) \in Int
    BY <1>1 DEF Taken
  <1>3. ASSUME NEW v \in Variable
        PROVE  AppliedFlow[v[1]][v[2]] = edge_diff[v[1]][v[2]] - Taken(v)
    <2>1. v[1] \in Edge /\ v[2] \in {1, 2} /\ v = <<v[1], v[2]>>
      BY DEF Variable
    <2>2. AppliedFlow[v[1]][v[2]] = Applied(v[1], v[2])
      BY <2>1 DEF AppliedFlow
    <2> DEFINE sum == MapThenSumSet(LAMBDA k : flow[<<k, -1>>], ArcsOf(net, v))
    <2>3. Applied(v[1], v[2]) = edge_diff[v[1]][v[2]] - sum
      BY <2>1 DEF Applied, ArcsOf
    <2>4. sum = Taken(v)
      <3>1. CASE Free(v)
        <4>1. \A k \in ArcsOf(net, v) : flow[<<k, -1>>] \in Int
          BY <1>1, <3>1
        <4>2. TheArc(v) \in ArcsOf(net, v) /\ ArcsOf(net, v) = {TheArc(v)}
          BY <1>1, <3>1
        <4>. QED  BY <1>1, <3>1, <4>1, <4>2, SumOfFlows
      <3>2. CASE ~Free(v)
        <4>1. ArcsOf(net, v) = {}
          BY <3>2, ArcsAre
        <4>2. \A k \in ArcsOf(net, v) : flow[<<k, -1>>] \in Int
          BY <4>1
        <4>. QED  BY <3>2, <4>1, <4>2, SumOfFlows DEF Taken
      <3>. QED  BY <3>1, <3>2
    <2>. QED  BY <2>2, <2>3, <2>4
  <1>4. Integral(AppliedFlow)
    BY <1>2, <1>3 DEF Integral
  <1>. QED  BY <1>1, <1>2, <1>3, <1>4

(* The arc of an open equation, and its half-edge that leaves the equation.  *)
TheTerminal(eq) ==
  Cardinality(arc_ids) +
    (CHOOSE k \in 1 .. Cardinality(open) : Ascending(open)[k] = NodeOf(eq))
EndHalf(eq) == <<TheTerminal(eq), IF Residual(edge_diff, eq) > 0 THEN 1 ELSE -1>>

LEMMA TerminalsAre ==
  ASSUME mesh \in Meshes, Integral(edge_diff), edge_capacity \in Nat,
         net = Network(arc_ids, open)
  PROVE  /\ \A eq \in Equation : Residual(edge_diff, eq) # 0 =>
              /\ TheTerminal(eq) \in (1 .. Len(net.edges)) \ (1 .. Cardinality(arc_ids))
              /\ net.edges[TheTerminal(eq)] = TerminalOf(NodeOf(eq))
              /\ \A p \in Equation : Residual(edge_diff, p) # 0 /\ TheTerminal(p) = TheTerminal(eq)
                   => p = eq
         /\ \A k \in (1 .. Len(net.edges)) \ (1 .. Cardinality(arc_ids)) :
              \E eq \in Equation : Residual(edge_diff, eq) # 0 /\ k = TheTerminal(eq)
  <1> DEFINE A == Cardinality(arc_ids)
             B == Cardinality(open)
             F == Len(mesh.F2E)
             At(eq) == CHOOSE k \in 1 .. B : Ascending(open)[k] = NodeOf(eq)
  <1>1. /\ A \in Nat /\ B \in Nat /\ F \in Nat /\ Len(net.edges) = A + B
        /\ \A k \in 1 .. B : net.edges[A + k] = TerminalOf(Ascending(open)[k])
    BY NetworkIs, MeshFacts
  <1>2. /\ \A k \in 1 .. B : Ascending(open)[k] \in open
        /\ \A x \in open : \E k \in 1 .. B : Ascending(open)[k] = x
        /\ \A j, k \in 1 .. B : Ascending(open)[j] = Ascending(open)[k] => j = k
    BY NetworkIs, AscendingLists
  <1>3. /\ \A i \in 1 .. 2 * F : EquationOf(i) \in Equation /\ NodeOf(EquationOf(i)) = i
        /\ \A eq \in Equation : NodeOf(eq) \in 1 .. 2 * F /\ EquationOf(NodeOf(eq)) = eq
    <2>1. /\ \A i \in 1 .. 2 * F : /\ VariableOf(i) \in Equation /\ EquationOf(i) = VariableOf(i)
                                   /\ NodeOf(VariableOf(i)) = i
          /\ \A eq \in Equation : NodeOf(eq) \in 1 .. 2 * F /\ VariableOf(NodeOf(eq)) = eq
      BY <1>1, IndexFacts DEF Equation, Face
    <2>. QED  BY <2>1
  <1>4. \A i : i \in open <=> i \in 1 .. 2 * F /\ Residual(edge_diff, EquationOf(i)) # 0
    BY DEF open
  <1>5. \A eq : TheTerminal(eq) = A + At(eq)
    BY DEF TheTerminal
  <1> HIDE DEF A, B, F
  <1>6. ASSUME NEW eq \in Equation, Residual(edge_diff, eq) # 0
        PROVE  At(eq) \in 1 .. B /\ Ascending(open)[At(eq)] = NodeOf(eq)
    <2>1. NodeOf(eq) \in open
      BY <1>3, <1>4, <1>6
    <2>. QED  BY <1>2, <2>1
  <1> HIDE DEF At
  <1>7. ASSUME NEW eq \in Equation, Residual(edge_diff, eq) # 0
        PROVE  /\ TheTerminal(eq) \in (1 .. Len(net.edges)) \ (1 .. A)
               /\ net.edges[TheTerminal(eq)] = TerminalOf(NodeOf(eq))
    <2>1. At(eq) \in 1 .. B /\ Ascending(open)[At(eq)] = NodeOf(eq)
      BY <1>6, <1>7
    <2>2. A + At(eq) \in (1 .. Len(net.edges)) \ (1 .. A)
      BY <1>1, <2>1
    <2>. QED  BY <1>1, <1>5, <2>1, <2>2
  <1>8. ASSUME NEW eq \in Equation, Residual(edge_diff, eq) # 0,
               NEW p \in Equation, Residual(edge_diff, p) # 0, TheTerminal(p) = TheTerminal(eq)
        PROVE  p = eq
    <2>1. /\ At(eq) \in 1 .. B /\ Ascending(open)[At(eq)] = NodeOf(eq)
          /\ At(p) \in 1 .. B /\ Ascending(open)[At(p)] = NodeOf(p)
      BY <1>6, <1>8
    <2>2. At(p) = At(eq)
      BY <1>1, <1>5, <1>8, <2>1
    <2>. QED  BY <1>3, <2>1, <2>2
  <1>9. ASSUME NEW k \in (1 .. Len(net.edges)) \ (1 .. A)
        PROVE  \E eq \in Equation : Residual(edge_diff, eq) # 0 /\ k = TheTerminal(eq)
    <2>1. k - A \in 1 .. B /\ k = A + (k - A)
      BY <1>1
    <2>2. PICK i \in open : i = Ascending(open)[k - A]
      BY <1>2, <2>1
    <2>3. /\ EquationOf(i) \in Equation /\ NodeOf(EquationOf(i)) = i
          /\ Residual(edge_diff, EquationOf(i)) # 0
      BY <1>3, <1>4
    <2>4. At(EquationOf(i)) = k - A
      BY <1>2, <1>6, <2>1, <2>2, <2>3
    <2>. QED  BY <1>5, <2>1, <2>3, <2>4
  <1>. QED  BY <1>7, <1>8, <1>9 DEF A

(* The ends and capacities of the half-edges of an open equation.            *)
LEMMA EndHalfIs ==
  ASSUME mesh \in Meshes, Integral(edge_diff), edge_capacity \in Nat,
         net = Network(arc_ids, open), NEW eq \in Equation, Residual(edge_diff, eq) # 0
  PROVE  /\ EndHalf(eq) \in Half(net) /\ Rev(EndHalf(eq)) \in Half(net)
         /\ NodeOf(eq) \in 1 .. 2 * Len(mesh.F2E)
         /\ From(net, EndHalf(eq)) = NodeOf(eq)
         /\ Residual(edge_diff, eq) > 0 =>
              /\ From(net, Rev(EndHalf(eq))) = Source
              /\ Capacity(net, EndHalf(eq)) = 0
              /\ Capacity(net, Rev(EndHalf(eq))) = Residual(edge_diff, eq)
         /\ Residual(edge_diff, eq) < 0 =>
              /\ From(net, Rev(EndHalf(eq))) = Sink(net)
              /\ Capacity(net, EndHalf(eq)) = -Residual(edge_diff, eq)
              /\ Capacity(net, Rev(EndHalf(eq))) = 0
  <1> DEFINE r == Residual(edge_diff, eq)
             k == TheTerminal(eq)
             F == Len(mesh.F2E)
  <1>1. r \in Int /\ r # 0 /\ F \in Nat
    BY ResidualIs, MeshFacts
  <1>2. NodeOf(eq) \in 1 .. 2 * F /\ EquationOf(NodeOf(eq)) = eq
    <2>1. NodeOf(eq) \in 1 .. 2 * F /\ VariableOf(NodeOf(eq)) = eq
      BY <1>1, IndexFacts DEF Equation, Face
    <2>. QED  BY <1>1, <2>1, IndexFacts
  <1>3. k \in 1 .. Len(net.edges) /\ net.edges[k] = TerminalOf(NodeOf(eq))
    BY TerminalsAre
  <1>4. net.num = 2 * F + 2
    BY NetworkIs
  <1> HIDE DEF k, F
  <1>5. CASE r > 0
    <2>1. net.edges[k] = [x |-> EC!Source, y |-> NodeOf(eq), c |-> r, rc |-> 0, v |-> NoVariable]
      BY <1>2, <1>3, <1>5 DEF TerminalOf
    <2>2. EndHalf(eq) = <<k, 1>> /\ Rev(EndHalf(eq)) = <<k, -1>>
      BY <1>5 DEF EndHalf, Rev, k
    <2>. QED  BY <1>1, <1>2, <1>3, <1>5, <2>1, <2>2 DEF Half, From, Capacity, Source, EC!Source, F
  <1>6. CASE r < 0
    <2>1. net.edges[k] = [x |-> NodeOf(eq), y |-> 2 * F + 1, c |-> -r, rc |-> 0, v |-> NoVariable]
      BY <1>1, <1>2, <1>3, <1>6 DEF TerminalOf, F
    <2>2. EndHalf(eq) = <<k, -1>> /\ Rev(EndHalf(eq)) = <<k, 1>>
      <3>1. ~(r > 0)
        BY <1>1, <1>6
      <3>2. EndHalf(eq) = <<k, -1>>
        BY <3>1 DEF EndHalf, k
      <3>. QED  BY <3>2, MinusMinusOne DEF Rev
    <2>3. Sink(net) = 2 * F + 1
      BY <1>1, <1>4 DEF Sink
    <2>. QED  BY <1>1, <1>2, <1>3, <1>6, <2>1, <2>2, <2>3 DEF Half, From, Capacity, F
  <1>. QED  BY <1>1, <1>5, <1>6

(* The arc of a free variable joins the two equations that count it.         *)
LEMMA ArcEnds ==
  ASSUME mesh \in Meshes, Integral(edge_diff), edge_capacity \in Nat,
         net = Network(arc_ids, open), flow \in [Half(net) -> Int],
         NEW v \in Variable, Free(v)
  PROVE  \E u, w \in Uses(v) :
           /\ u[3] = 1 /\ w[3] = -1 /\ Uses(v) = {u, w}
           /\ From(net, <<TheArc(v), -1>>) = NodeOf(Used(u))
           /\ From(net, <<TheArc(v), 1>>) = NodeOf(Used(w))
  <1>1. PICK u \in Uses(v), w \in Uses(v) :
          /\ u[3] = 1 /\ w[3] = -1 /\ Uses(v) = {u, w}
          /\ (CHOOSE x \in Uses(v) : x[3] = 1) = u
          /\ (CHOOSE x \in Uses(v) : x[3] = -1) = w
    BY FreeFacts
  <1>2. VariableOf(NodeOf(v)) = v
    <2>1. Len(mesh.diff) \in Nat
      BY MeshFacts
    <2>. QED  BY <2>1, IndexFacts DEF Variable, Edge
  <1>3. net.edges[TheArc(v)] = ArcOf(NodeOf(v))
    BY AppliedIs
  <1>4. ArcOf(NodeOf(v)).x = NodeOf(Used(u)) /\ ArcOf(NodeOf(v)).y = NodeOf(Used(w))
    BY <1>1, <1>2 DEF ArcOf
  <1>. QED  BY <1>1, <1>3, <1>4 DEF From

(* The half-edge that leaves an equation at a corner that counts a free      *)
(* variable, and those that leave the equation otherwise.                    *)
CornerHalf(eq, j) == <<TheArc(Counted(eq, j)), -SignAt(eq, j)>>
CornerHalves(eq, j) == IF Free(Counted(eq, j)) THEN {CornerHalf(eq, j)} ELSE {}
EndHalves(eq) == IF Residual(edge_diff, eq) # 0 THEN {EndHalf(eq)} ELSE {}
Leaving(n) == {l \in Half(net) : From(net, l) = n}

LEMMA CornerHalfLeaves ==
  ASSUME mesh \in Meshes, Integral(edge_diff), edge_capacity \in Nat,
         net = Network(arc_ids, open), flow \in [Half(net) -> Int], Antisymmetric(net, flow),
         NEW eq \in Equation, NEW j \in 1 .. 3, Free(Counted(eq, j))
  PROVE  /\ CornerHalf(eq, j) \in Leaving(NodeOf(eq))
         /\ TheArc(Counted(eq, j)) \in 1 .. Cardinality(arc_ids)
         /\ flow[CornerHalf(eq, j)] = Signed(SignAt(eq, j), Taken(Counted(eq, j)))
         /\ \A i \in 1 .. 3 : Free(Counted(eq, i)) /\ CornerHalf(eq, i) = CornerHalf(eq, j) => i = j
  <1> DEFINE v == Counted(eq, j)
             k == TheArc(v)
  <1>1. v \in Variable /\ SignAt(eq, j) \in {-1, 1}
    BY CountedFacts
  <1>2. PICK u \in Uses(v), w \in Uses(v) :
          /\ u[3] = 1 /\ w[3] = -1 /\ Uses(v) = {u, w}
          /\ From(net, <<k, -1>>) = NodeOf(Used(u)) /\ From(net, <<k, 1>>) = NodeOf(Used(w))
    BY <1>1, ArcEnds
  <1>3. UseAt(eq, j) \in Uses(v) /\ Used(UseAt(eq, j)) = eq /\ UseAt(eq, j)[3] = SignAt(eq, j)
    BY <1>1, UsesAre DEF UseAt
  <1>4. k \in 1 .. Cardinality(arc_ids) /\ k \in 1 .. Len(net.edges) /\ Taken(v) = flow[<<k, -1>>]
        /\ ArcsOf(net, v) = {k}
    BY <1>1, AppliedIs
  <1>5. From(net, CornerHalf(eq, j)) = NodeOf(eq) /\ CornerHalf(eq, j) \in Half(net)
    <2>1. CASE SignAt(eq, j) = 1
      <3>1. UseAt(eq, j) = u
        BY <1>2, <1>3, <2>1
      <3>2. CornerHalf(eq, j) = <<k, -1>>
        BY <2>1 DEF CornerHalf
      <3>. QED  BY <1>2, <1>3, <1>4, <3>1, <3>2 DEF Half
    <2>2. CASE SignAt(eq, j) = -1
      <3>1. UseAt(eq, j) = w
        BY <1>2, <1>3, <2>2
      <3>2. CornerHalf(eq, j) = <<k, 1>>
        <4>1. -SignAt(eq, j) = -(-1)
          BY ONLY <2>2
        <4>2. -SignAt(eq, j) = 1
          BY ONLY <4>1, MinusMinusOne
        <4>. QED  BY <4>2 DEF CornerHalf
      <3>. QED  BY <1>2, <1>3, <1>4, <3>1, <3>2 DEF Half
    <2>. QED  BY <1>1, <2>1, <2>2
  <1>6. flow[CornerHalf(eq, j)] = Signed(SignAt(eq, j), Taken(v))
    <2>1. <<k, -1>> \in Half(net) /\ <<k, 1>> \in Half(net)
          /\ Rev(<<k, 1>>) = <<k, -1>>
      BY <1>4 DEF Half, Rev
    <2>2. flow[<<k, 1>>] = -flow[<<k, -1>>]
      BY <2>1 DEF Antisymmetric
    <2>3. CASE SignAt(eq, j) = 1
      BY <1>4, <2>3 DEF CornerHalf, Signed
    <2>4. CASE SignAt(eq, j) = -1
      BY <1>4, <2>2, <2>4 DEF CornerHalf, Signed
    <2>. QED  BY <1>1, <2>3, <2>4
  <1>7. ASSUME NEW i \in 1 .. 3, Free(Counted(eq, i)), CornerHalf(eq, i) = CornerHalf(eq, j)
        PROVE  i = j
    <2>1. Counted(eq, i) \in Variable /\ SignAt(eq, i) \in {-1, 1}
      BY CountedFacts
    <2>2. TheArc(Counted(eq, i)) = k /\ SignAt(eq, i) = SignAt(eq, j)
      BY <1>1, <1>7, <2>1 DEF CornerHalf
    <2>3. ArcsOf(net, Counted(eq, i)) = {k}
      BY <1>7, <2>1, <2>2, AppliedIs
    <2>4. Counted(eq, i) = v
      BY <1>4, <2>3 DEF ArcsOf
    <2>5. UseAt(eq, i) \in Uses(v) /\ UseAt(eq, i)[3] = SignAt(eq, j)
      BY <1>1, <2>2, <2>4, UsesAre DEF UseAt
    <2>6. UseAt(eq, i) = UseAt(eq, j)
      BY <1>1, <1>2, <1>3, <2>5
    <2>. QED  BY <2>6 DEF UseAt
  <1>. QED  BY <1>4, <1>5, <1>6, <1>7 DEF Leaving

(* Nothing else leaves the node of an equation.                              *)
LEMMA LeavingAre ==
  ASSUME mesh \in Meshes, Integral(edge_diff), edge_capacity \in Nat,
         net = Network(arc_ids, open), flow \in [Half(net) -> Int], Antisymmetric(net, flow),
         NEW eq \in Equation
  PROVE  Leaving(NodeOf(eq)) =
           ((CornerHalves(eq, 1) \union CornerHalves(eq, 2)) \union CornerHalves(eq, 3))
             \union EndHalves(eq)
  <1>1. Len(mesh.F2E) \in Nat
    BY MeshFacts
  <1>2. \A p, r \in Equation : NodeOf(p) = NodeOf(r) => p = r
    <2>1. \A p \in Equation : VariableOf(NodeOf(p)) = p
      BY <1>1, IndexFacts DEF Equation, Face
    <2>. QED  BY <2>1
  <1>3. \A p \in Equation : NodeOf(p) \in 1 .. 2 * Len(mesh.F2E)
    BY <1>1, IndexFacts DEF Equation, Face
  <1>4. Source = 0 /\ Sink(net) = 2 * Len(mesh.F2E) + 1
    BY <1>1, NetworkIs DEF Source, Sink
  <1>5. ASSUME NEW l \in Leaving(NodeOf(eq))
        PROVE  (\E j \in 1 .. 3 : l \in CornerHalves(eq, j)) \/ l \in EndHalves(eq)
    <2>1. l \in Half(net) /\ From(net, l) = NodeOf(eq) /\ l = <<l[1], l[2]>>
          /\ l[1] \in 1 .. Len(net.edges) /\ l[2] \in {-1, 1}
      BY DEF Leaving, Half
    <2>2. CASE l[1] \in 1 .. Cardinality(arc_ids)
      <3>1. PICK v \in Variable : Free(v) /\ ArcsOf(net, v) = {l[1]}
        <4>1. \A k \in 1 .. Cardinality(arc_ids) : \E v \in Variable : Free(v) /\ ArcsOf(net, v) = {k}
          BY ArcsAre, Zenon
        <4>. QED  BY <2>2, <4>1
      <3>2. TheArc(v) = l[1]
        BY <3>1, AppliedIs
      <3>3. PICK u \in Uses(v), w \in Uses(v) :
              /\ u[3] = 1 /\ w[3] = -1
              /\ From(net, <<TheArc(v), -1>>) = NodeOf(Used(u))
              /\ From(net, <<TheArc(v), 1>>) = NodeOf(Used(w))
        BY <3>1, ArcEnds
      <3>4. PICK x \in Uses(v) : x[3] = -l[2] /\ NodeOf(Used(x)) = NodeOf(eq)
        <4>1. CASE l[2] = -1
          <5>1. -l[2] = -(-1) /\ l = <<TheArc(v), -1>>
            BY <2>1, <3>2, <4>1
          <5>2. -l[2] = 1
            BY ONLY <5>1, MinusMinusOne
          <5>. QED  BY ONLY <2>1, <3>3, <5>1, <5>2
        <4>2. CASE l[2] = 1
          <5>1. -l[2] = -1 /\ l = <<TheArc(v), 1>>
            BY <2>1, <3>2, <4>2
          <5>. QED  BY <2>1, <3>3, <5>1
        <4>. QED  BY <2>1, <4>1, <4>2
      <3>5. /\ Used(x) \in Equation /\ x[1][2] \in 1 .. 3
            /\ Counted(Used(x), x[1][2]) = v /\ x = UseAt(Used(x), x[1][2])
        BY UsesAre
      <3>6. Used(x) = eq
        BY <1>2, <3>4, <3>5
      <3>7. SignAt(eq, x[1][2]) = -l[2] /\ -(-l[2]) = l[2]
        BY <2>1, <3>4, <3>5, <3>6 DEF UseAt
      <3>8. l = CornerHalf(eq, x[1][2])
        BY <2>1, <3>2, <3>5, <3>6, <3>7 DEF CornerHalf
      <3>. QED  BY <3>1, <3>5, <3>6, <3>8 DEF CornerHalves
    <2>3. CASE l[1] \notin 1 .. Cardinality(arc_ids)
      <3>1. PICK p \in Equation : Residual(edge_diff, p) # 0 /\ l[1] = TheTerminal(p)
        BY <2>1, <2>3, TerminalsAre
      <3>2. l = EndHalf(p) \/ l = Rev(EndHalf(p))
        BY <2>1, <3>1 DEF EndHalf, Rev
      <3>3. From(net, EndHalf(p)) = NodeOf(p)
            /\ From(net, Rev(EndHalf(p))) \in {Source, Sink(net)}
        <4>1. Residual(edge_diff, p) \in Int
          BY ResidualIs
        <4>2. Residual(edge_diff, p) > 0 \/ Residual(edge_diff, p) < 0
          BY <3>1, <4>1
        <4>. QED  BY <3>1, <4>2, EndHalfIs
      <3>4. NodeOf(p) = NodeOf(eq)
        BY <1>1, <1>3, <1>4, <2>1, <3>2, <3>3
      <3>5. p = eq
        BY <1>2, <3>4
      <3>6. l = EndHalf(p)
        BY <1>1, <1>3, <1>4, <2>1, <3>2, <3>3
      <3>. QED  BY <3>1, <3>5, <3>6 DEF EndHalves
    <2>. QED  BY <2>2, <2>3
  <1>6. \A j \in 1 .. 3 : CornerHalves(eq, j) \subseteq Leaving(NodeOf(eq))
    BY CornerHalfLeaves DEF CornerHalves
  <1>7. EndHalves(eq) \subseteq Leaving(NodeOf(eq))
    BY EndHalfIs DEF EndHalves, Leaving
  <1>8. \A j \in 1 .. 3 : j = 1 \/ j = 2 \/ j = 3
    OBVIOUS
  <1>. QED  BY <1>5, <1>6, <1>7, <1>8

(* By what the flow moves the sum of an equation.                            *)
EndFlow(eq) == IF Residual(edge_diff, eq) # 0 THEN flow[EndHalf(eq)] ELSE 0

LEMMA ResidualMoves ==
  ASSUME mesh \in Meshes, Integral(edge_diff), edge_capacity \in Nat,
         net = Network(arc_ids, open), flow \in [Half(net) -> Int], Feasible(net, flow),
         NEW eq \in Equation
  PROVE  /\ EndFlow(eq) \in Int
         /\ Residual(AppliedFlow, eq) = Residual(edge_diff, eq) + EndFlow(eq)
  <1> DEFINE H(j) == CornerHalves(eq, j)
             E == EndHalves(eq)
             t(j) == Signed(SignAt(eq, j), Taken(Counted(eq, j)))
  <1>0. Antisymmetric(net, flow)
    BY DEF Feasible
  <1>1. ASSUME NEW j \in 1 .. 3
        PROVE  /\ H(j) \in SUBSET Half(net) /\ IsFiniteSet(H(j))
               /\ SumOver(flow, H(j)) = t(j) /\ t(j) \in Int
               /\ \A l \in H(j) : l[1] \in 1 .. Cardinality(arc_ids)
               /\ \A i \in 1 .. 3 : i # j => H(i) \intersect H(j) = {}
    <2>1. Counted(eq, j) \in Variable /\ SignAt(eq, j) \in {-1, 1}
      BY CountedFacts
    <2>2. Taken(Counted(eq, j)) \in Int /\ t(j) \in Int
      BY <2>1, AppliedIs DEF Signed
    <2>3. CASE Free(Counted(eq, j))
      <3>1. /\ CornerHalf(eq, j) \in Half(net)
            /\ CornerHalf(eq, j)[1] \in 1 .. Cardinality(arc_ids)
            /\ flow[CornerHalf(eq, j)] = t(j)
            /\ \A i \in 1 .. 3 :
                 Free(Counted(eq, i)) /\ CornerHalf(eq, i) = CornerHalf(eq, j) => i = j
        BY <1>0, <2>3, CornerHalfLeaves DEF Leaving, CornerHalf
      <3>2. H(j) = {CornerHalf(eq, j)}
        BY <2>3 DEF CornerHalves
      <3>3. \A i \in 1 .. 3 : i # j => H(i) \intersect H(j) = {}
        BY <3>1, <3>2 DEF CornerHalves
      <3> HIDE DEF H, t
      <3>4. SumOver(flow, {CornerHalf(eq, j)}) = flow[CornerHalf(eq, j)]
            /\ IsFiniteSet({CornerHalf(eq, j)})
        BY <3>1, SumOverSingle
      <3>. QED  BY <2>2, <3>1, <3>2, <3>3, <3>4
    <2>4. CASE ~Free(Counted(eq, j))
      <3>1. H(j) = {} /\ t(j) = 0
        <4>1. H(j) = {} /\ Taken(Counted(eq, j)) = 0
          BY <2>4 DEF CornerHalves, Taken
        <4>2. \A s : Signed(s, 0) = 0
          BY MinusZero DEF Signed
        <4>. QED  BY <4>1, <4>2
      <3>2. IsFiniteSet({}) /\ {} \in SUBSET Half(net)
        BY FS_EmptySet
      <3>3. SumOver(flow, {}) = 0
        BY <3>2, SumOverOne
      <3> HIDE DEF H, t
      <3>. QED  BY <3>1, <3>2, <3>3
    <2>. QED  BY <2>3, <2>4
  <1>2. /\ E \in SUBSET Half(net) /\ IsFiniteSet(E)
        /\ SumOver(flow, E) = EndFlow(eq) /\ EndFlow(eq) \in Int
        /\ \A l \in E : l[1] \notin 1 .. Cardinality(arc_ids)
    <2>1. CASE Residual(edge_diff, eq) # 0
      <3>1. EndHalf(eq) \in Half(net) /\ EndHalf(eq)[1] \notin 1 .. Cardinality(arc_ids)
        BY <2>1, EndHalfIs, TerminalsAre DEF EndHalf
      <3>2. E = {EndHalf(eq)} /\ EndFlow(eq) = flow[EndHalf(eq)]
        BY <2>1 DEF EndHalves, EndFlow
      <3>3. SumOver(flow, {EndHalf(eq)}) = flow[EndHalf(eq)] /\ IsFiniteSet({EndHalf(eq)})
        BY <3>1, SumOverSingle
      <3> HIDE DEF E
      <3>. QED  BY <3>1, <3>2, <3>3
    <2>2. CASE ~(Residual(edge_diff, eq) # 0)
      <3>1. E = {} /\ EndFlow(eq) = 0
        BY <2>2 DEF EndHalves, EndFlow
      <3>2. IsFiniteSet({}) /\ {} \in SUBSET Half(net)
        BY FS_EmptySet
      <3>3. SumOver(flow, {}) = 0
        BY <3>2, SumOverOne
      <3> HIDE DEF E
      <3>. QED  BY <3>1, <3>2, <3>3
    <2>. QED  BY <2>1, <2>2
  <1>3. Leaving(NodeOf(eq)) = ((H(1) \union H(2)) \union H(3)) \union E
    BY <1>0, LeavingAre
  <1>4. SumOver(flow, Leaving(NodeOf(eq))) = 0
    <2>1. Len(mesh.F2E) \in Nat /\ net.num = 2 * Len(mesh.F2E) + 2
      BY MeshFacts, NetworkIs
    <2>2. NodeOf(eq) \in 1 .. 2 * Len(mesh.F2E)
      BY <2>1, IndexFacts DEF Equation, Face
    <2>3. NodeOf(eq) \in Node(net) \ {Source, Sink(net)}
      BY <2>1, <2>2 DEF Node, Source, Sink
    <2>4. Outflow(net, flow, NodeOf(eq)) = 0
      BY <2>3 DEF Feasible, Conserved
    <2>. QED  BY <2>4 DEF Outflow, SumOver, Leaving
  <1>5. Residual(edge_diff, eq) \in Int /\ Integral(AppliedFlow)
    BY AppliedIs, ResidualIs
  <1>6. Residual(AppliedFlow, eq) = Residual(edge_diff, eq) - (t(1) + t(2) + t(3))
    <2> DEFINE a(j) == edge_diff[Counted(eq, j)[1]][Counted(eq, j)[2]]
               b(j) == AppliedFlow[Counted(eq, j)[1]][Counted(eq, j)[2]]
    <2>1. ASSUME NEW j \in 1 .. 3
          PROVE  /\ Signed(SignAt(eq, j), b(j)) = Signed(SignAt(eq, j), a(j)) - t(j)
                 /\ Signed(SignAt(eq, j), a(j)) \in Int /\ t(j) \in Int
      <3>1. Counted(eq, j) \in Variable /\ SignAt(eq, j) \in {-1, 1} /\ a(j) \in Int
        BY CountedFacts
      <3>2. b(j) = a(j) - Taken(Counted(eq, j)) /\ Taken(Counted(eq, j)) \in Int
        BY <3>1, AppliedIs
      <3>. QED  BY <3>1, <3>2 DEF Signed
    <2>2. /\ Residual(edge_diff, eq) = Signed(SignAt(eq, 1), a(1)) + Signed(SignAt(eq, 2), a(2))
                                         + Signed(SignAt(eq, 3), a(3))
          /\ Residual(AppliedFlow, eq) = Signed(SignAt(eq, 1), b(1)) + Signed(SignAt(eq, 2), b(2))
                                           + Signed(SignAt(eq, 3), b(3))
      BY <1>5, ResidualIs
    <2>3. 1 \in 1 .. 3 /\ 2 \in 1 .. 3 /\ 3 \in 1 .. 3
      OBVIOUS
    <2> HIDE DEF a, b, t
    <2>. QED  BY <2>1, <2>2, <2>3
  <1> HIDE DEF H, E, t
  <1>7. /\ H(1) \intersect H(2) = {} /\ (H(1) \union H(2)) \intersect H(3) = {}
        /\ ((H(1) \union H(2)) \union H(3)) \intersect E = {}
    <2>1. 1 \in 1 .. 3 /\ 2 \in 1 .. 3 /\ 3 \in 1 .. 3
      OBVIOUS
    <2>2. H(2) \intersect H(1) = {} /\ H(1) \intersect H(3) = {} /\ H(2) \intersect H(3) = {}
      BY <1>1, <2>1
    <2>. QED  BY <1>1, <1>2, <2>1, <2>2
  <1>8. \A A, B \in SUBSET Half(net) : IsFiniteSet(A) /\ IsFiniteSet(B) =>
          /\ IsFiniteSet(A \union B) /\ A \union B \in SUBSET Half(net)
          /\ A \intersect B = {} => SumOver(flow, A \union B) = SumOver(flow, A) + SumOver(flow, B)
    <2> SUFFICES ASSUME NEW A \in SUBSET Half(net), NEW B \in SUBSET Half(net),
                        IsFiniteSet(A), IsFiniteSet(B)
                 PROVE  /\ IsFiniteSet(A \union B) /\ A \union B \in SUBSET Half(net)
                        /\ A \intersect B = {} =>
                             SumOver(flow, A \union B) = SumOver(flow, A) + SumOver(flow, B)
      OBVIOUS
    <2>1. IsFiniteSet(A \union B)
      BY FS_Union
    <2>2. flow \in [Half(net) -> Int]
      OBVIOUS
    <2>3. ASSUME A \intersect B = {}
          PROVE  SumOver(flow, A \union B) = SumOver(flow, A) + SumOver(flow, B)
      BY ONLY <2>2, <2>3, IsFiniteSet(A), IsFiniteSet(B), A \in SUBSET Half(net),
              B \in SUBSET Half(net), SumOverUnion
    <2>. QED  BY <2>1, <2>3
  <1>9. SumOver(flow, Leaving(NodeOf(eq))) = t(1) + t(2) + t(3) + EndFlow(eq)
    <2>1. /\ H(1) \in SUBSET Half(net) /\ H(2) \in SUBSET Half(net) /\ H(3) \in SUBSET Half(net)
          /\ IsFiniteSet(H(1)) /\ IsFiniteSet(H(2)) /\ IsFiniteSet(H(3))
          /\ SumOver(flow, H(1)) = t(1) /\ SumOver(flow, H(2)) = t(2) /\ SumOver(flow, H(3)) = t(3)
      BY <1>1
    <2>2. /\ SumOver(flow, H(1) \union H(2)) = t(1) + t(2)
          /\ IsFiniteSet(H(1) \union H(2)) /\ H(1) \union H(2) \in SUBSET Half(net)
      BY <1>7, <1>8, <2>1
    <2>3. /\ SumOver(flow, (H(1) \union H(2)) \union H(3)) = t(1) + t(2) + t(3)
          /\ IsFiniteSet((H(1) \union H(2)) \union H(3))
          /\ (H(1) \union H(2)) \union H(3) \in SUBSET Half(net)
      BY ONLY <1>7, <1>8, <2>1, <2>2
    <2>. QED  BY ONLY <1>2, <1>3, <1>7, <1>8, <2>3
  <1>10. t(1) \in Int /\ t(2) \in Int /\ t(3) \in Int
    BY <1>1
  <1>. QED  BY <1>2, <1>4, <1>5, <1>6, <1>9, <1>10

(* An equation moves towards zero, and no further.                           *)
LEMMA MovesCloser ==
  ASSUME mesh \in Meshes, Integral(edge_diff), edge_capacity \in Nat,
         net = Network(arc_ids, open), flow \in [Half(net) -> Int], Feasible(net, flow),
         NEW eq \in Equation
  PROVE  LET old == Residual(edge_diff, eq)
             new == Residual(AppliedFlow, eq)
         IN  (0 <= new /\ new <= old) \/ (old <= new /\ new <= 0)
  <1> DEFINE r == Residual(edge_diff, eq)
             x == EndHalf(eq)
  <1>1. r \in Int
    BY ResidualIs
  <1>2. Residual(AppliedFlow, eq) = r + EndFlow(eq) /\ EndFlow(eq) \in Int
    BY ResidualMoves
  <1>3. CASE r = 0
    BY <1>2, <1>3 DEF EndFlow
  <1>4. CASE r # 0
    <2>1. /\ x \in Half(net) /\ Rev(x) \in Half(net)
          /\ r > 0 => Capacity(net, x) = 0 /\ Capacity(net, Rev(x)) = r
          /\ r < 0 => Capacity(net, x) = -r /\ Capacity(net, Rev(x)) = 0
      BY <1>4, EndHalfIs
    <2>2. flow[x] = -flow[Rev(x)] /\ flow[x] <= Capacity(net, x)
          /\ flow[Rev(x)] <= Capacity(net, Rev(x))
          /\ flow[x] \in Int /\ flow[Rev(x)] \in Int
      BY <2>1 DEF Feasible, Antisymmetric, WithinCapacity
    <2>3. EndFlow(eq) = flow[x]
      BY <1>4 DEF EndFlow
    <2>. QED  BY <1>1, <1>2, <1>4, <2>1, <2>2, <2>3
  <1>. QED  BY <1>3, <1>4

(* The sum over whole components does not move.                              *)
LEMMA AppliedKeepsExcess ==
  ASSUME mesh \in Meshes, Integral(edge_diff), edge_capacity \in Nat,
         net = Network(arc_ids, open), flow \in [Half(net) -> Int], NEW c, Whole(c)
  PROVE  Excess(AppliedFlow, c) = Excess(edge_diff, c)
  <1> DEFINE T == {v \in Variable : Free(v)}
             by == [v \in Variable |-> -Taken(v)]
             g == [v \in Variable |-> 0]
  <1>1. /\ \A v \in Variable :
             /\ Taken(v) \in Int
             /\ AppliedFlow[v[1]][v[2]] = edge_diff[v[1]][v[2]] - Taken(v)
        /\ Integral(AppliedFlow)
    BY AppliedIs
  <1>2. T \in SUBSET Variable /\ IsFiniteSet(T)
    <2>1. IsFiniteSet(Variable)
      BY FiniteVariables
    <2>. QED  BY <2>1, FS_Subset
  <1>3. by \in [Variable -> Int] /\ g \in [Variable -> Int]
    BY <1>1
  <1>4. ASSUME NEW v \in Variable
        PROVE  AppliedFlow[v[1]][v[2]] = edge_diff[v[1]][v[2]] + (IF v \in T THEN by[v] ELSE 0)
    <2>1. edge_diff[v[1]][v[2]] \in Int
      BY DEF Integral
    <2>2. ~Free(v) => Taken(v) = 0
      BY DEF Taken
    <2>. QED  BY <1>1, <2>1, <2>2
  <1>5. c \in SUBSET Equation
        /\ \A v \in T : \A u, w \in Uses(v) : Used(u) \in c => Used(w) \in c
    BY DEF Whole
  <1>6. \A v \in T : g[v] = IF \E u \in Uses(v) : Used(u) \in c THEN by[v] * SignSum(v) ELSE 0
    <2> SUFFICES ASSUME NEW v \in T
                 PROVE  g[v] = IF \E u \in Uses(v) : Used(u) \in c THEN by[v] * SignSum(v) ELSE 0
      OBVIOUS
    <2>1. SignSum(v) = 0 /\ by[v] \in Int /\ g[v] = 0
      BY <1>3, FreeFacts
    <2>2. by[v] * SignSum(v) = 0
      <3>1. \A a \in Int : a * 0 = 0
        OBVIOUS
      <3> HIDE DEF by
      <3>. QED  BY <2>1, <3>1
    <2>. QED  BY <2>1, <2>2
  <1>7. SumOver(g, T) = 0
    <2>1. \A v \in T : g[v] = 0
      OBVIOUS
    <2>2. \A k \in Int : 0 * k = 0
      OBVIOUS
    <2> HIDE DEF g, T
    <2>3. SumOver(g, T) = 0 * Cardinality(T) /\ Cardinality(T) \in Nat
      BY <1>2, <1>3, <2>1, SumOverConstant
    <2>. QED  BY <2>2, <2>3
  <1>8. Excess(AppliedFlow, c) = Excess(edge_diff, c) + SumOver(g, T)
    <2> HIDE DEF g, T, by
    <2>. QED  BY <1>1, <1>2, <1>3, <1>4, <1>5, <1>6, ShiftMany, SMTT(60)
  <1>9. Excess(edge_diff, c) \in Int
    BY <1>5, ExcessIsSum
  <1>. QED  BY <1>7, <1>8, <1>9

(* What leaves the source goes to the equations above zero.                  *)
SourceFlow ==
  [eq \in Equation |-> IF Residual(edge_diff, eq) > 0 THEN flow[Rev(EndHalf(eq))] ELSE 0]
Supplies == [eq \in Equation |-> MaxOf(0, Residual(edge_diff, eq))]

LEMMA SupplyIs ==
  ASSUME mesh \in Meshes, Integral(edge_diff)
  PROVE  /\ Supplies \in [Equation -> Int]
         /\ supply = SumOver(Supplies, Equation)
  <1> DEFINE w == Supplies
             ByRes(it, s) == IF s = {} THEN 0
                             ELSE MaxOf(0, Residual(edge_diff, AnyOf(s))) + it[s \ {AnyOf(s)}]
             ByW(it, s) == IF s = {} THEN 0 ELSE w[AnyOf(s)] + it[s \ {AnyOf(s)}]
             c == Equation
  <1>1. \A s \in SUBSET c : s # {} => AnyOf(s) \in c
    BY Zenon DEF AnyOf
  <1>2. \A eq \in c : w[eq] = MaxOf(0, Residual(edge_diff, eq))
    BY DEF Supplies
  <1>3. \A it : it = [s \in SUBSET c |-> ByRes(it, s)] <=> it = [s \in SUBSET c |-> ByW(it, s)]
    <2> HIDE DEF w, c
    <2>. QED  BY <1>1, <1>2
  <1>4. (CHOOSE it : it = [s \in SUBSET c |-> ByRes(it, s)])
          = (CHOOSE it : it = [s \in SUBSET c |-> ByW(it, s)])
    BY <1>3, Zenon
  <1>5. supply = (CHOOSE it : it = [s \in SUBSET c |-> ByRes(it, s)])[c]
    BY DEF supply, MapThenSumSet, MapThenFoldSet, AnyOf
  <1>6. SumOver(w, c) = (CHOOSE it : it = [s \in SUBSET c |-> ByW(it, s)])[c]
    BY DEF SumOver, MapThenSumSet, MapThenFoldSet, AnyOf
  <1>7. w \in [Equation -> Int]
    BY ResidualIs DEF Supplies, MaxOf
  <1>. QED  BY <1>4, <1>5, <1>6, <1>7

LEMMA SourceFlowIs ==
  ASSUME mesh \in Meshes, Integral(edge_diff), edge_capacity \in Nat,
         net = Network(arc_ids, open), flow \in [Half(net) -> Int], Feasible(net, flow)
  PROVE  /\ SourceFlow \in [Equation -> Int]
         /\ Outflow(net, flow, Source) = SumOver(SourceFlow, Equation)
         /\ \A eq \in Equation : SourceFlow[eq] <= Supplies[eq]
  <1> DEFINE r(eq) == Residual(edge_diff, eq)
             Above == {eq \in Equation : r(eq) > 0}
             b == [eq \in Above |-> Rev(EndHalf(eq))]
  <1>1. /\ Len(mesh.F2E) \in Nat /\ Source = 0 /\ Sink(net) = 2 * Len(mesh.F2E) + 1
        /\ \A p \in Equation : NodeOf(p) \in 1 .. 2 * Len(mesh.F2E)
    <2>1. Len(mesh.F2E) \in Nat
      BY MeshFacts
    <2>2. net.num = 2 * Len(mesh.F2E) + 2
      BY NetworkIs
    <2>3. \A p \in Equation : NodeOf(p) \in 1 .. 2 * Len(mesh.F2E)
      BY <2>1, IndexFacts DEF Equation, Face
    <2>. QED  BY <2>1, <2>2, <2>3 DEF Source, Sink
  <1>2. \A eq \in Equation : r(eq) \in Int
    BY ResidualIs
  <1>3. \A eq \in Above : /\ EndHalf(eq) \in Half(net) /\ Rev(EndHalf(eq)) \in Leaving(Source)
                          /\ Rev(EndHalf(eq)) \in Half(net)
                          /\ flow[Rev(EndHalf(eq))] <= r(eq) /\ flow[Rev(EndHalf(eq))] \in Int
    <2> SUFFICES ASSUME NEW eq \in Above
                 PROVE  /\ EndHalf(eq) \in Half(net) /\ Rev(EndHalf(eq)) \in Leaving(Source)
                        /\ Rev(EndHalf(eq)) \in Half(net)
                        /\ flow[Rev(EndHalf(eq))] <= r(eq) /\ flow[Rev(EndHalf(eq))] \in Int
      OBVIOUS
    <2>1. eq \in Equation /\ r(eq) > 0 /\ r(eq) # 0
      BY <1>2
    <2>2. /\ EndHalf(eq) \in Half(net) /\ Rev(EndHalf(eq)) \in Half(net)
          /\ From(net, Rev(EndHalf(eq))) = Source
          /\ Capacity(net, Rev(EndHalf(eq))) = r(eq)
      BY <2>1, EndHalfIs
    <2>. QED  BY <2>2 DEF Leaving, Feasible, WithinCapacity
  <1>4. b \in [Above -> Leaving(Source)] /\ \A eq \in Above : b[eq] = Rev(EndHalf(eq))
    BY <1>3
  <1>5. ASSUME NEW x \in Above, NEW y \in Above, b[x] = b[y] PROVE x = y
    <2>1. Rev(EndHalf(x)) = Rev(EndHalf(y))
      BY <1>4, <1>5
    <2>2. TheTerminal(x) = TheTerminal(y)
      BY <2>1 DEF Rev, EndHalf
    <2>3. x \in Equation /\ r(x) # 0 /\ y \in Equation /\ r(y) # 0
      BY <1>2
    <2>. QED  BY <2>2, <2>3, TerminalsAre
  <1>6. ASSUME NEW l \in Leaving(Source) PROVE \E eq \in Above : l = b[eq]
    <2>1. l \in Half(net) /\ From(net, l) = Source /\ l = <<l[1], l[2]>>
          /\ l[1] \in 1 .. Len(net.edges) /\ l[2] \in {-1, 1}
      BY DEF Leaving, Half
    <2>2. l[1] \notin 1 .. Cardinality(arc_ids)
      <3> SUFFICES ASSUME l[1] \in 1 .. Cardinality(arc_ids) PROVE FALSE
        OBVIOUS
      <3>1. PICK v \in Variable : Free(v) /\ ArcsOf(net, v) = {l[1]}
        <4>1. \A k \in 1 .. Cardinality(arc_ids) :
                \E v \in Variable : Free(v) /\ ArcsOf(net, v) = {k}
          BY ArcsAre, Zenon
        <4>. QED  BY <4>1
      <3>2. TheArc(v) = l[1]
        BY <3>1, AppliedIs
      <3>3. PICK u \in Uses(v), w \in Uses(v) :
              /\ From(net, <<TheArc(v), -1>>) = NodeOf(Used(u))
              /\ From(net, <<TheArc(v), 1>>) = NodeOf(Used(w))
        BY <3>1, ArcEnds
      <3>4. Used(u) \in Equation /\ Used(w) \in Equation
        BY UsesAre
      <3>5. From(net, l) = NodeOf(Used(u)) \/ From(net, l) = NodeOf(Used(w))
        BY <2>1, <3>2, <3>3
      <3>6. From(net, l) \in 1 .. 2 * Len(mesh.F2E)
        BY <1>1, <3>4, <3>5
      <3>. QED  BY <1>1, <2>1, <3>6
    <2>3. PICK p \in Equation : r(p) # 0 /\ l[1] = TheTerminal(p)
      BY <2>1, <2>2, TerminalsAre
    <2>4. l = EndHalf(p) \/ l = Rev(EndHalf(p))
      BY <2>1, <2>3 DEF EndHalf, Rev
    <2>5. /\ From(net, EndHalf(p)) = NodeOf(p)
          /\ r(p) < 0 => From(net, Rev(EndHalf(p))) = Sink(net)
      BY <2>3, EndHalfIs
    <2>6. l = Rev(EndHalf(p)) /\ ~(r(p) < 0)
      BY <1>1, <2>1, <2>4, <2>5
    <2>7. p \in Above
      BY <1>2, <2>3, <2>6
    <2>. QED  BY <1>4, <2>6, <2>7
  <1>7. /\ SourceFlow \in [Equation -> Int]
        /\ \A eq \in Above : SourceFlow[eq] = flow[b[eq]]
        /\ \A eq \in Equation \ Above : SourceFlow[eq] = 0
    <2>1. \A eq \in Equation : SourceFlow[eq] = IF eq \in Above THEN flow[Rev(EndHalf(eq))] ELSE 0
      BY DEF SourceFlow
    <2>2. SourceFlow = [eq \in Equation |-> SourceFlow[eq]]
      BY DEF SourceFlow
    <2>0. Above \subseteq Equation
      OBVIOUS
    <2> HIDE DEF Above, b
    <2>3. \A eq \in Equation : SourceFlow[eq] \in Int
      BY <1>3, <2>1
    <2>4. SourceFlow \in [Equation -> Int]
      BY ONLY <2>2, <2>3
    <2>. QED  BY <1>4, <2>0, <2>1, <2>4
  <1>8. \A eq \in Equation : SourceFlow[eq] <= Supplies[eq]
    <2> SUFFICES ASSUME NEW eq \in Equation PROVE SourceFlow[eq] <= Supplies[eq]
      OBVIOUS
    <2>1. Supplies[eq] = MaxOf(0, r(eq))
      BY DEF Supplies
    <2>2. CASE r(eq) > 0
      <3>1. SourceFlow[eq] = flow[Rev(EndHalf(eq))]
        BY <1>4, <1>7, <2>2
      <3>. QED  BY <1>2, <1>3, <2>1, <2>2, <3>1 DEF MaxOf
    <2>3. CASE ~(r(eq) > 0)
      BY <1>2, <1>7, <2>1, <2>3 DEF MaxOf
    <2>. QED  BY <2>2, <2>3
  <1>9. IsFiniteSet(Above) /\ IsFiniteSet(Equation \ Above) /\ IsFiniteSet(Equation)
    BY FiniteEquations
  <1>10. SumOver(SourceFlow, Above) = SumOver(flow, Leaving(Source))
    <2>1. Leaving(Source) \in SUBSET Half(net) /\ Above \in SUBSET Equation
      BY DEF Leaving
    <2> HIDE DEF Above, b
    <2>. QED  BY <1>4, <1>5, <1>6, <1>7, <1>9, <2>1, SumOverImages
  <1>11. SumOver(SourceFlow, Equation \ Above) = 0
    <2>1. Equation \ Above \in SUBSET Equation /\ \A k \in Int : 0 * k = 0
      OBVIOUS
    <2> HIDE DEF Above, b
    <2>2. /\ SumOver(SourceFlow, Equation \ Above) = 0 * Cardinality(Equation \ Above)
          /\ Cardinality(Equation \ Above) \in Nat
      BY <1>7, <1>9, <2>1, SumOverConstant
    <2>. QED  BY <2>1, <2>2
  <1>12. SumOver(SourceFlow, Equation) = SumOver(SourceFlow, Above)
    <2>1. Above \union (Equation \ Above) = Equation /\ Above \intersect (Equation \ Above) = {}
          /\ Above \in SUBSET Equation /\ Equation \ Above \in SUBSET Equation
      OBVIOUS
    <2> HIDE DEF Above, b
    <2>2. SumOver(SourceFlow, Above \union (Equation \ Above))
            = SumOver(SourceFlow, Above) + SumOver(SourceFlow, Equation \ Above)
      BY ONLY <1>7, <1>9, <2>1, SumOverUnion
    <2>3. SumOver(SourceFlow, Above) \in Int
      BY ONLY <1>7, <1>9, <2>1, SumOverOne
    <2>. QED  BY <1>11, <2>1, <2>2, <2>3
  <1>13. Outflow(net, flow, Source) = SumOver(flow, Leaving(Source))
    BY DEF Outflow, SumOver, Leaving
  <1>. QED  BY <1>7, <1>8, <1>10, <1>12, <1>13

(* A full flow closes every equation that was above zero.                    *)
LEMMA FullFlowLowers ==
  ASSUME mesh \in Meshes, Integral(edge_diff), edge_capacity \in Nat,
         net = Network(arc_ids, open), flow \in [Half(net) -> Int], Feasible(net, flow),
         Outflow(net, flow, Source) = supply, NEW eq \in Equation
  PROVE  Residual(AppliedFlow, eq) <= 0
  <1>1. /\ SourceFlow \in [Equation -> Int] /\ Supplies \in [Equation -> Int]
        /\ SumOver(SourceFlow, Equation) = SumOver(Supplies, Equation)
        /\ \A p \in Equation : SourceFlow[p] <= Supplies[p]
        /\ IsFiniteSet(Equation) /\ Equation \in SUBSET Equation
    BY SourceFlowIs, SupplyIs, FiniteEquations
  <1>2. SourceFlow[eq] = Supplies[eq]
    BY <1>1, SumOverTight
  <1>3. Residual(edge_diff, eq) \in Int
    BY ResidualIs
  <1>4. CASE Residual(edge_diff, eq) > 0
    <2>1. flow[Rev(EndHalf(eq))] = Residual(edge_diff, eq)
      BY <1>2, <1>3, <1>4 DEF SourceFlow, Supplies, MaxOf
    <2>2. Residual(edge_diff, eq) # 0
      BY <1>3, <1>4
    <2>3. EndHalf(eq) \in Half(net)
      BY <2>2, EndHalfIs
    <2>4. EndFlow(eq) = -Residual(edge_diff, eq)
      BY <2>1, <2>2, <2>3 DEF EndFlow, Feasible, Antisymmetric
    <2>5. Residual(AppliedFlow, eq) = Residual(edge_diff, eq) + EndFlow(eq)
      BY ResidualMoves
    <2>. QED  BY <1>3, <2>4, <2>5
  <1>5. CASE ~(Residual(edge_diff, eq) > 0)
    <2>1. Residual(AppliedFlow, eq) \in Int
      BY AppliedIs, ResidualIs
    <2>. QED  BY <1>3, <1>5, <2>1, MovesCloser
  <1>. QED  BY <1>4, <1>5

(* What applying a flow does to everything the invariant says.               *)
LEMMA ApplyFacts ==
  ASSUME BalanceInv, Apply
  PROVE  /\ mesh \in Meshes /\ Integral(edge_diff) /\ edge_capacity \in Nat
         /\ net = Network(arc_ids, open) /\ Sound
         /\ mesh' = mesh /\ total_flows' = total_flows /\ edge_diff' = AppliedFlow
         /\ pc = "flow" /\ pc' \in {"build", "done"}
         /\ edge_capacity' \in {edge_capacity, edge_capacity + 1}
         /\ fullFlow' => total_flow = supply /\ pc' = "done"
  <1>1. /\ mesh \in Meshes /\ Integral(edge_diff) /\ edge_capacity \in Nat
        /\ pc = "flow" /\ ec = "done"
        /\ net = Network(arc_ids, open)
        /\ IF use_minimum_cost_flow THEN Sound ELSE Proved!FlowInv
    BY DEF BalanceInv, Round, Apply
  <1>2. Sound
    <2>1. CASE use_minimum_cost_flow
      BY <1>1, <2>1
    <2>2. CASE ~use_minimum_cost_flow
      BY <1>1, <2>2, HelperReturns DEF Sound
    <2>. QED  BY <2>1, <2>2
  <1>3. /\ mesh' = mesh /\ total_flows' = total_flows /\ edge_diff' = AppliedFlow
        /\ pc' \in {"build", "done"}
        /\ edge_capacity' \in {edge_capacity, edge_capacity + 1}
        /\ fullFlow' => total_flow = supply /\ pc' = "done"
    BY DEF Apply, AppliedFlow
  <1>. QED  BY <1>1, <1>2, <1>3

LEMMA ApplyKeeps == BalanceInv /\ Apply => BalanceInv'
  <1> SUFFICES ASSUME BalanceInv, Apply PROVE BalanceInv'
    OBVIOUS
  <1>1. /\ mesh \in Meshes /\ Integral(edge_diff) /\ edge_capacity \in Nat
        /\ net = Network(arc_ids, open) /\ flow \in [Half(net) -> Int] /\ Feasible(net, flow)
        /\ total_flow = Outflow(net, flow, Source)
        /\ mesh' = mesh /\ total_flows' = total_flows /\ edge_diff' = AppliedFlow
        /\ pc = "flow" /\ pc' \in {"build", "done"}
        /\ edge_capacity' \in {edge_capacity, edge_capacity + 1}
        /\ fullFlow' => total_flow = supply /\ pc' = "done"
    BY ApplyFacts DEF Sound
  <1>2. Integral(edge_diff)' /\ mesh' \in Meshes /\ edge_capacity' \in Nat
    <2>1. Integral(AppliedFlow)
      BY <1>1, AppliedIs
    <2>2. Integral(edge_diff)' = Integral(edge_diff')
      BY <1>1, SameMesh
    <2>3. Integral(edge_diff')
      BY <1>1, <2>1
    <2>. QED  BY <1>1, <2>2, <2>3
  <1>3. Counts'
    <2>1. ASSUME NEW c \in DOMAIN total_flows'
          PROVE  Whole(c)' /\ total_flows'[c] = Excess(edge_diff, c)'
      <3>1. Whole(c) /\ total_flows[c] = Excess(edge_diff, c)
        BY <1>1 DEF BalanceInv, Counts
      <3>2. Excess(AppliedFlow, c) = Excess(edge_diff, c)
        BY <1>1, <3>1, AppliedKeepsExcess
      <3>3. Whole(c)' = Whole(c) /\ Excess(edge_diff, c)' = Excess(edge_diff', c)
        BY <1>1, SameMesh
      <3>. QED  BY ONLY <1>1, <3>1, <3>2, <3>3
    <2>2. \A eq \in Equation' : \E c \in DOMAIN total_flows' : eq \in c
      BY <1>1, SameMesh DEF BalanceInv, Counts
    <2>3. pc' # "parts_counted" /\ pc' # "trees_counted"
      BY <1>1
    <2>. QED  BY <2>1, <2>2, <2>3 DEF Counts
  <1>4. Frozen'
    <2> SUFFICES ASSUME NEW v \in Variable', allow_changes(v)' = 0
                 PROVE  edge_diff'[v[1]][v[2]] = mesh'.diff[v[1]][v[2]]
      BY DEF Frozen
    <2>1. v \in Variable /\ allow_changes(v) = 0
      BY <1>1, SameMesh
    <2>2. edge_diff[v[1]][v[2]] = mesh.diff[v[1]][v[2]]
      BY <2>1 DEF BalanceInv, Frozen
    <2>3. Taken(v) = 0
      BY <2>1 DEF Taken, Free
    <2>4. AppliedFlow[v[1]][v[2]] = edge_diff[v[1]][v[2]] - Taken(v) /\ edge_diff[v[1]][v[2]] \in Int
      BY <1>1, <2>1, AppliedIs DEF Integral
    <2>. QED  BY ONLY <1>1, <2>2, <2>3, <2>4
  <1>5. Round'
    BY <1>1 DEF Round
  <1>6. Settled'
    <2> SUFFICES ASSUME fullFlow', NEW eq \in Equation'
                 PROVE  pc' = "done" /\ Residual(edge_diff, eq)' <= 0
      <3>1. Equation' = Equation
        BY <1>1, SameMesh
      <3>2. fullFlow' => pc' = "done"
        BY <1>1
      <3>. QED  BY <3>2 DEF Settled
    <2>1. eq \in Equation /\ Residual(edge_diff, eq)' = Residual(edge_diff', eq)
      BY <1>1, SameMesh
    <2>2. Residual(AppliedFlow, eq) <= 0
      BY <1>1, <2>1, FullFlowLowers
    <2>. QED  BY <1>1, <2>1, <2>2
  <1>. QED  BY <1>2, <1>3, <1>4, <1>5, <1>6 DEF BalanceInv

(* The invariant holds throughout.                                           *)
LEMMA BalanceStep == BalanceInv /\ [Next]_vars => BalanceInv'
  <1> SUFFICES ASSUME BalanceInv, [Next]_vars PROVE BalanceInv'
    OBVIOUS
  <1>1. CASE CountParts
    BY <1>1, CountPartsKeeps
  <1>2. CASE ModifyParts
    <2>1. Still /\ pc = "parts_counted" /\ pc' = "trees"
      BY <1>2 DEF ModifyParts, Still
    <2>2. Modify
      BY <1>2, Zenon DEF ModifyParts
    <2>. QED  BY <2>1, <2>2, ModifyKeeps
  <1>3. CASE CountTrees
    BY <1>3, CountTreesKeeps
  <1>4. CASE ModifyTrees
    <2>1. Still /\ pc = "trees_counted" /\ pc' = "build"
      BY <1>4 DEF ModifyTrees, Still
    <2>2. Modify
      BY <1>4, Zenon DEF ModifyTrees
    <2>. QED  BY <2>1, <2>2, ModifyKeeps
  <1>5. CASE Build
    BY <1>5, BuildKeeps
  <1>6. CASE ComputeCheapest
    BY <1>6, ComputeCheapestKeeps
  <1>7. CASE Compute
    BY <1>7, EcComputeKeeps
  <1>8. CASE Apply
    BY <1>8, ApplyKeeps
  <1>9. CASE UNCHANGED vars
    BY <1>9, StutterKeeps
  <1>. QED  BY <1>1, <1>2, <1>3, <1>4, <1>5, <1>6, <1>7, <1>8, <1>9 DEF Next

LEMMA Balance == Spec => []BalanceInv
  BY InitBalance, BalanceStep, PTL DEF Spec

-----------------------------------------------------------------------------
(* What a component is counted to sum to is what it sums to, after the       *)
(* random shifts of BuildIntegerConstraints and all rounds of flow.          *)
THEOREM CountsCorrect == Spec => []CountsAreReal
  <1>1. BalanceInv => CountsAreReal
    BY DEF BalanceInv, Counts, CountsAreReal
  <1>. QED  BY <1>1, Balance, PTL

(* Feature edges stay on the coordinate lines they were snapped to.          *)
THEOREM FeaturesStay == Spec => []FeaturesStayAligned
  <1>1. BalanceInv => FeaturesStayAligned
    <2> SUFFICES ASSUME BalanceInv, NEW e \in mesh.feature, NEW d \in {1, 2}, mesh.diff[e][d] = 0
                 PROVE  edge_diff[e][d] = 0
      BY DEF FeaturesStayAligned
    <2>1. <<e, d>> \in Variable /\ allow_changes(<<e, d>>) = 0
      BY MeshFacts DEF BalanceInv, Variable, allow_changes
    <2>. QED  BY <2>1 DEF BalanceInv, Frozen
  <1>. QED  BY <1>1, Balance, PTL

(* A round of flow moves every equation towards zero and never past it,      *)
(* whichever of the two helpers found the flow.                              *)
THEOREM FlowCloses == Spec => FlowOnlyCloses
  <1> DEFINE Closer ==
        pc = "flow" =>
          \A eq \in Equation :
            LET old == Residual(edge_diff, eq)
                new == Residual(edge_diff', eq)
            IN  (0 <= new /\ new <= old) \/ (old <= new /\ new <= 0)
  <1>1. BalanceInv /\ [Next]_vars => Closer
    <2> SUFFICES ASSUME BalanceInv, [Next]_vars, pc = "flow", NEW eq \in Equation
                 PROVE  LET old == Residual(edge_diff, eq)
                            new == Residual(edge_diff', eq)
                        IN  (0 <= new /\ new <= old) \/ (old <= new /\ new <= 0)
      OBVIOUS
    <2>1. mesh \in Meshes /\ Integral(edge_diff)
      BY DEF BalanceInv
    <2>2. CASE Apply
      <3>1. /\ edge_capacity \in Nat /\ net = Network(arc_ids, open)
            /\ flow \in [Half(net) -> Int] /\ Feasible(net, flow) /\ edge_diff' = AppliedFlow
        BY <2>2, ApplyFacts DEF Sound
      <3>. QED  BY <2>1, <3>1, MovesCloser
    <2>3. CASE edge_diff' = edge_diff
      <3>1. Residual(edge_diff, eq) \in Int
        BY <2>1, ResidualIs
      <3>2. Residual(edge_diff', eq) = Residual(edge_diff, eq)
        BY <2>3
      <3>. QED  BY <3>1, <3>2
    <2>4. Apply \/ edge_diff' = edge_diff
      <3>1. ComputeCheapest => edge_diff' = edge_diff
        BY DEF ComputeCheapest
      <3>2. Compute => edge_diff' = edge_diff
        BY DEF Compute
      <3>3. Build => edge_diff' = edge_diff
        BY DEF Build
      <3>4. UNCHANGED vars => edge_diff' = edge_diff
        BY DEF vars
      <3>. QED  BY <3>1, <3>2, <3>3, <3>4
                DEF Next, CountParts, ModifyParts, CountTrees, ModifyTrees
    <2>. QED  BY <2>2, <2>3, <2>4
  <1>. QED  BY <1>1, Balance, PTL DEF Spec, FlowOnlyCloses

(* A full flow has closed the equations: none is above zero, and all are at  *)
(* zero when every component was counted as balanced.                        *)
THEOREM FullFlowSettles == Spec => []FullFlowCloses
  <1>1. BalanceInv => FullFlowCloses
    <2> SUFFICES ASSUME BalanceInv, fullFlow, NEW eq \in Equation
                 PROVE  /\ Residual(edge_diff, eq) <= 0
                        /\ (\A c \in DOMAIN total_flows : total_flows[c] = 0) =>
                             Residual(edge_diff, eq) = 0
      BY DEF FullFlowCloses
    <2>1. /\ mesh \in Meshes /\ Integral(edge_diff) /\ pc = "done"
          /\ \A p \in Equation : Residual(edge_diff, p) <= 0
      BY DEF BalanceInv, Settled
    <2>2. ASSUME \A c \in DOMAIN total_flows : total_flows[c] = 0
          PROVE  Residual(edge_diff, eq) = 0
      <3> DEFINE f == Residuals(edge_diff)
                 g == [p \in Equation |-> 0]
      <3>1. PICK c \in DOMAIN total_flows :
              /\ eq \in c /\ c \in SUBSET Equation
              /\ total_flows[c] = Excess(edge_diff, c)
        BY <2>1 DEF BalanceInv, Counts, Whole
      <3>2. IsFiniteSet(c) /\ f \in [Equation -> Int] /\ SumOver(f, c) = 0
        BY <2>1, <2>2, <3>1, ExcessIsSum, FiniteEquations
      <3>3. /\ g \in [Equation -> Int] /\ \A p \in c : g[p] = 0
            /\ \A p \in c : f[p] = Residual(edge_diff, p) /\ f[p] <= g[p]
        BY <2>1, <3>1 DEF Residuals
      <3> HIDE DEF f, g
      <3>4. SumOver(g, c) = 0
        <4>1. \A k \in Int : 0 * k = 0
          OBVIOUS
        <4>2. SumOver(g, c) = 0 * Cardinality(c) /\ Cardinality(c) \in Nat
          BY <3>1, <3>2, <3>3, SumOverConstant
        <4>. QED  BY <4>1, <4>2
      <3>5. f[eq] = g[eq]
        <4>1. SumOver(f, c) = SumOver(g, c) /\ \A p \in c : f[p] <= g[p]
          BY <3>2, <3>3, <3>4
        <4>. QED  BY ONLY <3>1, <3>2, <3>3, <4>1, SumOverTight
      <3>. QED  BY <3>1, <3>3, <3>5
    <2>. QED  BY <2>1, <2>2
  <1>. QED  BY <1>1, Balance, PTL

-----------------------------------------------------------------------------
(***************************************************************************)
(* The disjoint tree.                                                      *)
(***************************************************************************)
TreeInv ==
  /\ Forest(Elem, parent)
  /\ joins \subseteq [from : Elem, to : Elem, turn : 0 .. 3]
  /\ Aligned(RootFn(Elem, parent), TurnFn(Elem, parent), joins)
  /\ Spanned(Elem, RootFn(Elem, parent), joins)

LEMMA TreeWays ==
  /\ Root = RootFn(Elem, parent)
  /\ Orient = TurnFn(Elem, parent)
  <1>1. Root = RootFn(Elem, parent)
    BY DEF Root, IsRoot, RootFn
  <1>2. Orient = TurnFn(Elem, parent)
    BY DEF Orient, IsRoot, TurnFn
  <1>. QED  BY <1>1, <1>2

LEMMA TreeWaysNext ==
  /\ (Root)' = RootFn(Elem, parent')
  /\ (Orient)' = TurnFn(Elem, parent')
  <1>1. (Root)' = RootFn(Elem, parent')
    BY DEF Root, IsRoot, RootFn
  <1>2. (Orient)' = TurnFn(Elem, parent')
    BY DEF Orient, IsRoot, TurnFn
  <1>. QED  BY <1>1, <1>2

(* The two nodes of a merge end up in one tree, nobody leaves its tree, and  *)
(* the link is the one the merge was asked for.                              *)
Merged(v0, v1, orient0, orient1) ==
  LET R == RootFn(Elem, parent)
      Q == RootFn(Elem, parent')
  IN  /\ Q[v0] = Q[v1]
      /\ \A j, k \in Elem : R[j] = R[k] => Q[j] = Q[k]
      /\ \/ joins' = joins
         \/ joins' = joins
                            \union {[from |-> v0, to |-> v1, turn |-> (orient0 - orient1) % 4]}

LEMMA TreeStarts == TreeInit => TreeInv
  <1> SUFFICES ASSUME TreeInit PROVE TreeInv
    OBVIOUS
  <1> DEFINE S == Elem
             R == [j \in S |-> j]
             O == [j \in S |-> 0]
  <1>1. parent = [j \in S |-> [first |-> j, second |-> 0]] /\ joins = {}
    BY DEF TreeInit
  <1>2. Forest(S, parent)
    <2>1. Falls(S, parent, [j \in S |-> 0])
      BY <1>1 DEF Falls
    <2>2. parent \in [S -> [first : S, second : 0 .. 3]]
      BY <1>1
    <2>3. \A j \in S : parent[j].second = 0
      BY <1>1
    <2>. QED  BY ONLY <2>1, <2>2, <2>3 DEF Forest
  <1>3. RootsOf(S, parent, R) /\ TurnsOf(S, parent, O)
    BY <1>1 DEF RootsOf, RootEq, TurnsOf, TurnEq
  <1>4. RootFn(S, parent) = R
    BY <1>2, <1>3, WaysAre
  <1>5. Spanned(S, R, {}) /\ \A P : Aligned(R, P, {})
    BY DEF Spanned, Aligned
  <1>. QED  BY <1>1, <1>2, <1>4, <1>5 DEF TreeInv

(* Compressing paths changes no root and no turn.                            *)
LEMMA TreeFind ==
  ASSUME Forest(Elem, parent), NEW js
  PROVE  LET found == AfterFind(js)
         IN  /\ Forest(Elem, found)
             /\ RootsOf(Elem, found, RootFn(Elem, parent))
             /\ TurnsOf(Elem, found, TurnFn(Elem, parent))
  <1> DEFINE S == Elem
             R == RootFn(S, parent)
             O == TurnFn(S, parent)
             found == AfterFind(js)
  <1>1. RootsOf(S, parent, R) /\ TurnsOf(S, parent, O)
    BY WaysExist
  <1>2. parent \in [S -> [first : S, second : 0 .. 3]]
    BY DEF Forest
  <1>3. Root = R /\ Orient = O
    BY TreeWays
  <1>4. /\ R \in [S -> S] /\ O \in [S -> 0 .. 3]
        /\ found = [k \in S |-> IF k \in UNION {Path[j] : j \in js}
                           THEN [first |-> R[k], second |-> O[k]] ELSE parent[k]]
    BY <1>1, <1>3 DEF AfterFind, RootsOf, TurnsOf
  <1> HIDE DEF R, O, S, found
  <1>5. /\ found \in [S -> [first : S, second : 0 .. 3]]
        /\ \A j \in S : found[j] = parent[j] \/ (found[j].first = R[j] /\ found[j].second = O[j])
    BY <1>2, <1>4
  <1>6. Forest(S, found) /\ RootsOf(S, found, R) /\ TurnsOf(S, found, O)
    BY <1>1, <1>5, Compressed DEF S
  <1>. QED  BY <1>6 DEF S, R, O, found

(* A merge that finds both nodes in one tree.                                *)
LEMMA TreeUnjoined ==
  ASSUME TreeInv, NEW js, parent' = AfterFind(js), joins' = joins
  PROVE  TreeInv' /\ RootFn(Elem, parent') = RootFn(Elem, parent)
  <1> DEFINE S == Elem
             R == RootFn(S, parent)
             O == TurnFn(S, parent)
  <1>1. Forest(S, parent') /\ RootsOf(S, parent', R) /\ TurnsOf(S, parent', O)
    BY TreeFind DEF TreeInv
  <1>2. RootFn(S, parent') = R /\ TurnFn(S, parent') = O
    BY <1>1, WaysAre
  <1>3. (Elem)' = S
    BY DEF Elem
  <1>. QED  BY <1>1, <1>2, <1>3 DEF TreeInv

(* A merge that hangs the root of f from that of g.                          *)
LEMMA TreeJoined ==
  ASSUME TreeInv, NEW f \in Elem, NEW g \in Elem, NEW x \in Quarter, NEW y \in Quarter,
         Root[f] # Root[g], Hang(f, g, x, y),
         NEW l \in [from : Elem, to : Elem, turn : 0 .. 3],
         joins' = joins \union {l},
         \/ l = [from |-> f, to |-> g, turn |-> (x - y) % 4]
         \/ l = [from |-> g, to |-> f, turn |-> (y - x) % 4]
  PROVE  LET R == RootFn(Elem, parent)
             Q == RootFn(Elem, parent')
         IN  TreeInv' /\ Q[f] = Q[g] /\ \A j, k \in Elem : R[j] = R[k] => Q[j] = Q[k]
  <1> DEFINE S == Elem
             R == RootFn(S, parent)
             O == TurnFn(S, parent)
             found == AfterFind({f, g})
             t == Turned(f, g, x, y)
             Q == HungRoots(S, R, R[f], R[g])
             T == HungTurns(S, R, O, R[f], t)
  <1>1. Forest(S, found) /\ RootsOf(S, found, R) /\ TurnsOf(S, found, O)
    BY TreeFind DEF TreeInv
  <1>2. Root = R /\ Orient = O
    BY TreeWays
  <1>3. R[f] # R[g]
    BY <1>2
  <1>4. /\ parent' = HungFrom(found, R[f], R[g], t)
        /\ t = (x - y + O[g] - O[f] + 8) % 4
    BY <1>2 DEF Hang, Turned, HungFrom
  <1>5. R \in [S -> S] /\ O \in [S -> 0 .. 3]
    BY <1>1 DEF RootsOf, TurnsOf
  <1>6. t \in 0 .. 3
    <2>1. x - y + O[g] - O[f] + 8 \in Int
      BY <1>5 DEF Quarter
    <2>. QED  BY <1>4, <2>1
  <1>7. R[f] \in S /\ R[g] \in S /\ R[R[f]] = R[f] /\ R[R[g]] = R[g]
    <2>1. PICK h : Falls(S, found, h)
      BY <1>1 DEF Forest
    <2> HIDE DEF found, R, O
    <2>. QED  BY <1>1, <2>1, RootFacts
  <1>8. (Elem)' = S
    BY DEF Elem
  <1>9. /\ Aligned(R, O, joins) /\ Spanned(S, R, joins)
        /\ joins \in SUBSET [from : S, to : S, turn : 0 .. 3]
    BY DEF TreeInv
  <1> HIDE DEF R, O, found, t
  <1> HIDE DEF S
  <1>10. Forest(S, parent') /\ RootsOf(S, parent', Q) /\ TurnsOf(S, parent', T)
    BY <1>1, <1>3, <1>4, <1>6, <1>7, Hung
  <1>11. RootFn(S, parent') = Q /\ TurnFn(S, parent') = T
    BY <1>10, WaysAre
  <1>12. Aligned(Q, T, joins') /\ Spanned(S, Q, joins')
    <2>1. /\ R \in [S -> S] /\ O \in [S -> Quarter]
          /\ joins \in SUBSET [from : S, to : S, turn : Quarter]
          /\ f \in S /\ g \in S /\ R[f] # R[g] /\ x \in Quarter /\ y \in Quarter
          /\ l \in [from : S, to : S, turn : Quarter]
      BY <1>3, <1>5, <1>9 DEF Quarter, S
    <2>2. \/ l = [from |-> f, to |-> g, turn |-> TurnsApart(x, y)]
          \/ l = [from |-> g, to |-> f, turn |-> TurnsApart(y, x)]
      BY DEF TurnsApart
    <2>3. t = TurnsOnto(x, y, O[g], O[f])
      BY <1>4 DEF TurnsOnto
    <2>4. Aligned(R, O, joins) /\ Spanned(S, R, joins)
      BY <1>9
    <2>5. /\ Aligned(HungRoots(S, R, R[f], R[g]),
                     HungTurns(S, R, O, R[f], TurnsOnto(x, y, O[g], O[f])), joins \union {l})
          /\ Spanned(S, HungRoots(S, R, R[f], R[g]), joins \union {l})
      BY ONLY <2>1, <2>2, <2>4, TreesJoined
    <2>. QED  BY <2>3, <2>5
  <1>13. Q[f] = Q[g] /\ \A j, k \in S : R[j] = R[k] => Q[j] = Q[k]
    BY <1>5 DEF S, HungRoots
  <1>14. joins' \subseteq [from : S, to : S, turn : 0 .. 3]
    BY <1>9 DEF S
  <1>15. TreeInv'
    BY <1>8, <1>10, <1>11, <1>12, <1>14 DEF TreeInv
  <1>. QED  BY <1>11, <1>13, <1>15 DEF R, S

LEMMA TreeMerge ==
  ASSUME TreeInv, NEW v0 \in Elem, NEW v1 \in Elem,
         NEW orient0 \in 0 .. 3, NEW orient1 \in 0 .. 3, Merge(v0, v1, orient0, orient1)
  PROVE  TreeInv' /\ Merged(v0, v1, orient0, orient1)
  <1> DEFINE l == [from |-> v0, to |-> v1, turn |-> (orient0 - orient1) % 4]
  <1>1. l \in [from : Elem, to : Elem, turn : 0 .. 3]
    <2>1. (orient0 - orient1) % 4 \in 0 .. 3
      OBVIOUS
    <2>. QED  BY <2>1
  <1>2. CASE Root[v0] = Root[v1] /\ parent' = AfterFind({v0, v1})
             /\ joins' = joins
    <2>1. TreeInv' /\ RootFn(Elem, parent') = RootFn(Elem, parent)
      BY <1>2, TreeUnjoined
    <2>. QED  BY <1>2, <2>1, TreeWays DEF Merged
  <1>3. CASE Root[v0] # Root[v1] /\ Hang(v1, v0, orient1, orient0)
             /\ joins' = joins \union {l}
    <2> HIDE DEF l
    <2>1. \/ l = [from |-> v1, to |-> v0, turn |-> (orient1 - orient0) % 4]
          \/ l = [from |-> v0, to |-> v1, turn |-> (orient0 - orient1) % 4]
      BY DEF l
    <2>. QED  BY <1>1, <1>3, <2>1, TreeJoined DEF Merged, l, Quarter
  <1>4. CASE Root[v0] # Root[v1] /\ Hang(v0, v1, orient0, orient1)
             /\ joins' = joins \union {l}
    <2> HIDE DEF l
    <2>1. \/ l = [from |-> v0, to |-> v1, turn |-> (orient0 - orient1) % 4]
          \/ l = [from |-> v1, to |-> v0, turn |-> (orient1 - orient0) % 4]
      BY DEF l
    <2>. QED  BY <1>1, <1>4, <2>1, TreeJoined DEF Merged, l, Quarter
  <1>. QED  BY <1>2, <1>3, <1>4 DEF Merge

LEMMA TreeSteps == TreeInv /\ [TreeNext]_tree_vars => TreeInv'
  <1> SUFFICES ASSUME TreeInv, [TreeNext]_tree_vars PROVE TreeInv'
    OBVIOUS
  <1>1. CASE \E v0, v1 \in Elem, orient0, orient1 \in 0 .. 3 :
               Merge(v0, v1, orient0, orient1)
    BY <1>1, TreeMerge
  <1>2. CASE BuildCompactParent
    BY <1>2, TreeUnjoined DEF BuildCompactParent
  <1>3. CASE UNCHANGED tree_vars
    <2>1. parent' = parent /\ joins' = joins
      BY <1>3 DEF tree_vars
    <2>. QED  BY <2>1 DEF TreeInv, Elem
  <1>. QED  BY <1>1, <1>2, <1>3 DEF TreeNext

(* Whatever is merged in whatever order, with every path compressed on the   *)
(* way: two faces whose merge joined their trees stay turned against each    *)
(* other by what it asked for.                                               *)
THEOREM LinksStayTurned == TreeSpec => []FramesStayAligned
  <1>1. TreeInv => FramesStayAligned
    BY TreeWays DEF TreeInv, Aligned, FramesStayAligned
  <1>. QED  BY <1>1, TreeStarts, TreeSteps, PTL DEF TreeSpec

-----------------------------------------------------------------------------
(***************************************************************************)
(* The faces of a mesh turned by their tree.                               *)
(***************************************************************************)
(* Every link is an edge of the mesh, with the turns that oppose its corners,*)
(* and the faces of a merged edge are in one tree.                           *)
TurnInv ==
  /\ TreeInv
  /\ \A l \in joins :
       \E c, d \in Corner(Unturned) :
         /\ Meet(Unturned, c, d) /\ l.from = c[1] - 1 /\ l.to = d[1] - 1
         /\ l.turn = (((Quarters(d) + 2) % 4) - Quarters(c)) % 4
  /\ \A a, b \in Corner(Unturned) :
       Meet(Unturned, a, b) /\ Unturned.F2E[a[1]][a[2]] \in merged_edges =>
         RootFn(Elem, parent)[a[1] - 1] = RootFn(Elem, parent)[b[1] - 1]

LEMMA TurnedOpposed ==
  ASSUME NEW x \in 0 .. 3, NEW y \in 0 .. 3, NEW u \in 0 .. 3, NEW v \in 0 .. 3,
         (u - v) % 4 = (((y + 2) % 4) - x) % 4
  PROVE  /\ (((x + u) % 4) - ((y + v) % 4) + 4) % 4 = 2
         /\ (((y + v) % 4) - ((x + u) % 4) + 4) % 4 = 2
  <1>1. \A z \in Int : \E r \in 0 .. 3, k \in Int : r = z % 4 /\ z = 4 * k + r
    OBVIOUS
  <1>2. PICK r1 \in 0 .. 3, k1 \in Int : r1 = (u - v) % 4 /\ u - v = 4 * k1 + r1
    <2>1. u - v \in Int
      OBVIOUS
    <2>. QED  BY <1>1, <2>1
  <1>3. PICK r2 \in 0 .. 3, k2 \in Int : r2 = (y + 2) % 4 /\ y + 2 = 4 * k2 + r2
    <2>1. y + 2 \in Int
      OBVIOUS
    <2>. QED  BY <1>1, <2>1
  <1>4. PICK r3 \in 0 .. 3, k3 \in Int : r3 = (r2 - x) % 4 /\ r2 - x = 4 * k3 + r3
    <2>1. r2 - x \in Int
      OBVIOUS
    <2>. QED  BY <1>1, <2>1
  <1>5. PICK r4 \in 0 .. 3, k4 \in Int : r4 = (x + u) % 4 /\ x + u = 4 * k4 + r4
    <2>1. x + u \in Int
      OBVIOUS
    <2>. QED  BY <1>1, <2>1
  <1>6. PICK r5 \in 0 .. 3, k5 \in Int : r5 = (y + v) % 4 /\ y + v = 4 * k5 + r5
    <2>1. y + v \in Int
      OBVIOUS
    <2>. QED  BY <1>1, <2>1
  <1>7. r1 = r3
    BY <1>2, <1>3, <1>4
  <1>8. PICK n \in Int : n = 1 + k1 - k2 - k3 - k4 + k5
    OBVIOUS
  <1>9. r4 - r5 + 4 = 2 + 4 * n /\ r5 - r4 + 4 = 2 + 4 * (1 - n)
    BY ONLY <1>2, <1>3, <1>4, <1>5, <1>6, <1>7, <1>8, x \in 0 .. 3, y \in 0 .. 3,
            u \in 0 .. 3, v \in 0 .. 3
  <1>10. ASSUME NEW m \in Int PROVE (2 + 4 * m) % 4 = 2
    OBVIOUS
  <1>11. (r4 - r5 + 4) % 4 = 2 /\ (r5 - r4 + 4) % 4 = 2
    <2>1. 1 - n \in Int
      OBVIOUS
    <2>. QED  BY <1>9, <1>10, <2>1
  <1>. QED  BY ONLY <1>5, <1>6, <1>11

LEMMA CornerFacts ==
  ASSUME Surface(Unturned), N = Len(Unturned.F2E), NEW c \in Corner(Unturned)
  PROVE  /\ c[1] \in 1 .. Len(Unturned.F2E) /\ c[2] \in 1 .. 3 /\ c = <<c[1], c[2]>>
         /\ c[1] - 1 \in Elem /\ Quarters(c) \in 0 .. 3
         /\ Len(Unturned.F2E) \in Nat
  <1>1. c[1] \in 1 .. Len(Unturned.F2E) /\ c[2] \in 1 .. 3 /\ c = <<c[1], c[2]>>
    BY DEF Corner
  <1>2. Len(Unturned.F2E) \in Nat
    BY DEF Surface
  <1>3. c[1] - 1 \in 0 .. Len(Unturned.F2E) - 1
    BY ONLY <1>1, <1>2
  <1>4. Unturned.FQ \in [1 .. Len(Unturned.F2E) -> [1 .. 3 -> 0 .. 3]]
    BY DEF Surface
  <1>5. Quarters(c) \in 0 .. 3
    BY ONLY <1>1, <1>4 DEF Quarters
  <1>. QED  BY <1>1, <1>2, <1>3, <1>5 DEF Elem

LEMMA TurnStep ==
  ASSUME Surface(Unturned), N = Len(Unturned.F2E), TurnInv,
         [\E e \in 1 .. Len(Unturned.diff) : MergeEdge(e)]_<<tree_vars, merged_edges>>
  PROVE  TurnInv'
  <1> DEFINE R == RootFn(Elem, parent)
             Q == RootFn(Elem, parent')
  <1>1. CASE UNCHANGED <<tree_vars, merged_edges>>
    <2>1. parent' = parent /\ joins' = joins /\ merged_edges' = merged_edges
      BY <1>1 DEF tree_vars
    <2>. QED  BY <2>1 DEF TurnInv, TreeInv, Elem
  <1>2. ASSUME NEW e, MergeEdge(e) PROVE TurnInv'
    <2>1. PICK c \in Corner(Unturned), d \in Corner(Unturned) :
            /\ Meet(Unturned, c, d) /\ e = Unturned.F2E[c[1]][c[2]]
            /\ Merge(c[1] - 1, d[1] - 1, (Quarters(d) + 2) % 4, Quarters(c))
            /\ merged_edges' = merged_edges \union {e}
      BY <1>2 DEF MergeEdge
    <2> DEFINE l == [from |-> c[1] - 1, to |-> d[1] - 1,
                     turn |-> (((Quarters(d) + 2) % 4) - Quarters(c)) % 4]
    <2>2. TreeInv' /\ Merged(c[1] - 1, d[1] - 1, (Quarters(d) + 2) % 4, Quarters(c))
      <3>1. (Quarters(d) + 2) % 4 \in 0 .. 3
        BY CornerFacts
      <3>. QED  BY <2>1, <3>1, CornerFacts, TreeMerge DEF TurnInv
    <2>3. /\ Q[c[1] - 1] = Q[d[1] - 1]
          /\ \A j, k \in Elem : R[j] = R[k] => Q[j] = Q[k]
          /\ joins' = joins \/ joins' = joins \union {l}
      BY <2>2 DEF Merged
    <2>4. ASSUME NEW m \in joins'
          PROVE  \E a, b \in Corner(Unturned) :
                   /\ Meet(Unturned, a, b) /\ m.from = a[1] - 1 /\ m.to = b[1] - 1
                   /\ m.turn = (((Quarters(b) + 2) % 4) - Quarters(a)) % 4
      <3>1. CASE m \in joins
        BY <3>1 DEF TurnInv
      <3>2. CASE m = l
        <4>1. /\ m.from = c[1] - 1 /\ m.to = d[1] - 1
              /\ m.turn = (((Quarters(d) + 2) % 4) - Quarters(c)) % 4
          BY <3>2
        <4>. QED  BY <2>1, <4>1
      <3>. QED  BY <2>3, <3>1, <3>2
    <2>5. ASSUME NEW a \in Corner(Unturned), NEW b \in Corner(Unturned), Meet(Unturned, a, b),
                 Unturned.F2E[a[1]][a[2]] \in merged_edges'
          PROVE  Q[a[1] - 1] = Q[b[1] - 1]
      <3>1. CASE Unturned.F2E[a[1]][a[2]] \in merged_edges
        BY <2>3, <2>5, <3>1, CornerFacts DEF TurnInv
      <3>2. CASE Unturned.F2E[a[1]][a[2]] = e
        <4>1. (a = c /\ b = d) \/ (a = d /\ b = c)
          <5>1. a = c \/ a = d
            BY <2>1, <3>2 DEF Surface, Meet
          <5>2. a = c => b = d
            BY <2>1, <2>5 DEF Surface
          <5>3. a = d => b = c
            BY <2>1, <2>5 DEF Surface, Meet
          <5>. QED  BY <5>1, <5>2, <5>3
        <4>. QED  BY <2>3, <4>1
      <3>. QED  BY <2>1, <2>5, <3>1, <3>2
    <2>6. Q = RootFn(Elem, parent)'
      BY DEF Elem
    <2>. QED  BY <2>2, <2>4, <2>5, <2>6 DEF TurnInv
  <1>. QED  BY <1>1, <1>2

LEMMA TurnedSurface ==
  ASSUME Surface(Unturned), N = Len(Unturned.F2E), TurnInv, AllMerged
  PROVE  Surface(TurnedMesh) /\ FramesOppose(TurnedMesh)
  <1> DEFINE R == RootFn(Elem, parent)
             O == TurnFn(Elem, parent)
             n == Len(Unturned.F2E)
  <1>1. Orient = O /\ O \in [Elem -> 0 .. 3]
    BY TreeWays, WaysExist DEF TurnInv, TreeInv, TurnsOf
  <1>2. \A f \in 1 .. n : f - 1 \in Elem /\ O[f - 1] \in 0 .. 3
    <2>1. n \in Nat
      BY DEF Surface
    <2> HIDE DEF n, O
    <2>2. \A f \in 1 .. n : f - 1 \in 0 .. n - 1
      BY ONLY <2>1
    <2>3. \A f \in 1 .. n : f - 1 \in Elem
      BY <2>2 DEF Elem, n
    <2>. QED  BY <1>1, <2>3
  <1>3. /\ TurnedMesh.F2E = Unturned.F2E /\ TurnedMesh.diff = Unturned.diff
        /\ TurnedMesh.feature = Unturned.feature
        /\ TurnedMesh.FQ = [f \in 1 .. n |->
                              [j \in 1 .. 3 |-> (Unturned.FQ[f][j] + O[f - 1]) % 4]]
    BY <1>1 DEF TurnedMesh
  <1>4. TurnedMesh.FQ \in [1 .. n -> [1 .. 3 -> 0 .. 3]]
    <2>1. \A f \in 1 .. n, j \in 1 .. 3 : (Unturned.FQ[f][j] + O[f - 1]) % 4 \in 0 .. 3
      <3>1. \A x, y \in 0 .. 3 : (x + y) % 4 \in 0 .. 3
        OBVIOUS
      <3>2. \A f \in 1 .. n, j \in 1 .. 3 : Unturned.FQ[f][j] \in 0 .. 3
        BY DEF Surface
      <3> HIDE DEF O, n
      <3>. QED  BY ONLY <1>2, <3>1, <3>2
    <2>. QED  BY <1>3, <2>1
  <1>5. /\ Corner(TurnedMesh) = Corner(Unturned)
        /\ \A a, b : Meet(TurnedMesh, a, b) <=> Meet(Unturned, a, b)
    BY <1>3 DEF Corner, Meet
  <1>6. Surface(TurnedMesh)
    BY <1>3, <1>4, <1>5 DEF Surface
  <1>7. ASSUME NEW c \in Corner(Unturned), NEW d \in Corner(Unturned),
               (O[c[1] - 1] - O[d[1] - 1]) % 4 = (((Quarters(d) + 2) % 4) - Quarters(c)) % 4
        PROVE  Opposed(TurnedMesh, c, d) /\ Opposed(TurnedMesh, d, c)
    <2>1. PICK x \in 0 .. 3 : x = Quarters(c)
      BY CornerFacts
    <2>2. PICK y \in 0 .. 3 : y = Quarters(d)
      BY CornerFacts
    <2>3. PICK u \in 0 .. 3 : u = O[c[1] - 1]
      BY <1>2, CornerFacts
    <2>4. PICK v \in 0 .. 3 : v = O[d[1] - 1]
      BY <1>2, CornerFacts
    <2>5. (u - v) % 4 = (((y + 2) % 4) - x) % 4
      BY ONLY <1>7, <2>1, <2>2, <2>3, <2>4
    <2>6. /\ (((x + u) % 4) - ((y + v) % 4) + 4) % 4 = 2
          /\ (((y + v) % 4) - ((x + u) % 4) + 4) % 4 = 2
      BY <2>5, TurnedOpposed
    <2>7. TurnedMesh.FQ[c[1]][c[2]] = (x + u) % 4 /\ TurnedMesh.FQ[d[1]][d[2]] = (y + v) % 4
      <3>1. /\ TurnedMesh.FQ[c[1]][c[2]] = (Quarters(c) + O[c[1] - 1]) % 4
            /\ TurnedMesh.FQ[d[1]][d[2]] = (Quarters(d) + O[d[1] - 1]) % 4
        BY <1>3, CornerFacts DEF Quarters
      <3>. QED  BY ONLY <2>1, <2>2, <2>3, <2>4, <3>1
    <2>8. PICK p : p = (x + u) % 4
      OBVIOUS
    <2>9. PICK r : r = (y + v) % 4
      OBVIOUS
    <2>10. (p - r + 4) % 4 = 2 /\ (r - p + 4) % 4 = 2
      BY ONLY <2>6, <2>8, <2>9
    <2>11. TurnedMesh.FQ[c[1]][c[2]] = p /\ TurnedMesh.FQ[d[1]][d[2]] = r
      BY ONLY <2>7, <2>8, <2>9
    <2>. QED  BY ONLY <2>10, <2>11 DEF Opposed
  <1>8. ASSUME NEW a \in Corner(Unturned), NEW b \in Corner(Unturned), Meet(Unturned, a, b),
               NEW P \in SUBSET (1 .. n), a[1] \in P, b[1] \notin P
        PROVE  \E c, d \in Corner(Unturned) :
                 c[1] \in P /\ d[1] \notin P /\ Meet(Unturned, c, d) /\ Opposed(TurnedMesh, c, d)
    <2> DEFINE W == {f - 1 : f \in P}
    <2>1. R[a[1] - 1] = R[b[1] - 1]
      BY <1>8 DEF TurnInv, AllMerged
    <2>2. \A f \in 1 .. n : f - 1 \in W <=> f \in P
      <3>1. ASSUME NEW f \in 1 .. n, f - 1 \in W PROVE f \in P
        <4>1. PICK g \in P : g - 1 = f - 1
          BY <3>1
        <4>2. g \in Int /\ f \in Int
          BY DEF Surface
        <4>3. g = f
          BY <4>1, <4>2
        <4>. QED  BY <4>3
      <3>. QED  BY <3>1
    <2>3. W \in SUBSET Elem
      BY <1>2
    <2> HIDE DEF W
    <2>4. a[1] - 1 \in W /\ b[1] - 1 \notin W
      BY <1>8, <2>2, CornerFacts
    <2>5. PICK l \in joins : Crosses(W, l)
      BY <2>1, <2>3, <2>4, CornerFacts DEF TurnInv, TreeInv, Spanned
    <2>6. PICK c \in Corner(Unturned), d \in Corner(Unturned) :
            /\ Meet(Unturned, c, d) /\ l.from = c[1] - 1 /\ l.to = d[1] - 1
            /\ l.turn = (((Quarters(d) + 2) % 4) - Quarters(c)) % 4
      BY DEF TurnInv
    <2>7. (O[c[1] - 1] - O[d[1] - 1]) % 4 = (((Quarters(d) + 2) % 4) - Quarters(c)) % 4
      <3>1. (O[l.from] - O[l.to]) % 4 = l.turn
        BY DEF TurnInv, TreeInv, Aligned
      <3>. QED  BY ONLY <2>6, <3>1
    <2>8. Opposed(TurnedMesh, c, d) /\ Opposed(TurnedMesh, d, c)
      BY <1>7, <2>7
    <2>9. Meet(Unturned, d, c)
      BY <2>6 DEF Meet
    <2>10. (c[1] \in P /\ d[1] \notin P) \/ (d[1] \in P /\ c[1] \notin P)
      BY <2>2, <2>5, <2>6, CornerFacts DEF Crosses
    <2>. QED  BY <2>6, <2>8, <2>9, <2>10
  <1>9. FramesOppose(TurnedMesh)
    BY <1>3, <1>5, <1>8 DEF FramesOppose
  <1>. QED  BY <1>6, <1>9

(* What MeshesAssumption asks of a mesh is what the loops before the         *)
(* equations leave, whatever surface they are given and in whatever order    *)
(* they merge its faces.                                                     *)
THEOREM TurnedFramesOppose ==
  ASSUME Surface(Unturned), N = Len(Unturned.F2E)
  PROVE  TurnFaces => [](AllMerged => Surface(TurnedMesh) /\ FramesOppose(TurnedMesh))
  <1>1. TreeInit /\ merged_edges = {} => TurnInv
    <2>1. TreeInit => joins = {}
      BY DEF TreeInit
    <2>. QED  BY <2>1, TreeStarts DEF TurnInv
  <1>2. TurnInv /\ [\E e \in 1 .. Len(Unturned.diff) : MergeEdge(e)]_<<tree_vars, merged_edges>> => TurnInv'
    BY TurnStep
  <1>3. TurnInv => (AllMerged => Surface(TurnedMesh) /\ FramesOppose(TurnedMesh))
    BY TurnedSurface
  <1>. QED  BY <1>1, <1>2, <1>3, PTL DEF TurnFaces
=============================================================================
