---------------------------- MODULE MCPatchLines ----------------------------
(***************************************************************************)
(* PatchLayout on plane meshes with notches and a hole, whose boundary     *)
(* singularities meet by chords and by lines that cross, and on surfaces   *)
(* of unit cubes, closed and open, whose corners have three and five       *)
(* faces, and on grids.  Each mesh is taken with two numberings of its     *)
(* vertices.                                                               *)
(***************************************************************************)
EXTENDS PatchLayout

-----------------------------------------------------------------------------
Cell(x, y) ==
  LET V(a, b) == a + 5 * b IN <<V(x, y), V(x + 1, y), V(x + 1, y + 1), V(x, y + 1)>>
Plane(cells) == {Cell(c[1], c[2]) : c \in cells}
Square(n) == (0 .. n - 1) \X (0 .. n - 1)

Plus == Plane(Square(3) \ {<<0, 0>>, <<0, 2>>, <<2, 0>>, <<2, 2>>})
TwoNotches == Plane(Square(3) \ {<<0, 0>>, <<2, 2>>})
WideL == Plane(Square(4) \ ({2, 3} \X {2, 3}))
Frame == Plane(Square(3) \ {<<1, 1>>})

(* The sides of the unit cube at c, seen from outside.                       *)
Sides ==
  [d \in {<<1, 0, 0>>, <<-1, 0, 0>>, <<0, 1, 0>>, <<0, -1, 0>>, <<0, 0, 1>>, <<0, 0, -1>>} |->
     CASE d = <<1, 0, 0>>  -> <<<<1, 0, 0>>, <<1, 1, 0>>, <<1, 1, 1>>, <<1, 0, 1>>>>
       [] d = <<-1, 0, 0>> -> <<<<0, 0, 0>>, <<0, 0, 1>>, <<0, 1, 1>>, <<0, 1, 0>>>>
       [] d = <<0, 1, 0>>  -> <<<<0, 1, 0>>, <<0, 1, 1>>, <<1, 1, 1>>, <<1, 1, 0>>>>
       [] d = <<0, -1, 0>> -> <<<<0, 0, 0>>, <<1, 0, 0>>, <<1, 0, 1>>, <<0, 0, 1>>>>
       [] d = <<0, 0, 1>>  -> <<<<0, 0, 1>>, <<1, 0, 1>>, <<1, 1, 1>>, <<0, 1, 1>>>>
       [] d = <<0, 0, -1>> -> <<<<0, 0, 0>>, <<0, 1, 0>>, <<1, 1, 0>>, <<1, 0, 0>>>>]

Plus3(a, b) == <<a[1] + b[1], a[2] + b[2], a[3] + b[3]>>
Number(c) == c[1] + 4 * c[2] + 16 * c[3]

(* The surface of a set of cubes without the sides of open.                  *)
Surface(cubes, open) ==
  {[i \in 1 .. 4 |-> Number(Plus3(s[1], Sides[s[2]][i]))] :
     s \in {t \in cubes \X DOMAIN Sides : Plus3(t[1], t[2]) \notin cubes} \ open}

Box(a, b, c) == (0 .. a - 1) \X (0 .. b - 1) \X (0 .. c - 1)
Bottom(cubes) == {<<c, <<0, 0, -1>>>> : c \in {d \in cubes : d[3] = 0}}
Knee == {<<0, 0, 0>>, <<1, 0, 0>>, <<0, 1, 0>>}

Corner == Surface(Box(1, 1, 1), {<<0, 0, 0>>} \X {<<-1, 0, 0>>, <<0, -1, 0>>, <<0, 0, -1>>})

Renumbered(F) == {[i \in 1 .. 4 |-> 99 - f[i]] : f \in F}

MCMeshes ==
  LET shapes == {Plus, TwoNotches, WideL, Frame, Corner,
                 Surface(Box(1, 1, 1), {}),
                 Surface(Knee, {}),
                 Surface(Knee, Bottom(Knee)),
                 Surface(Box(2, 2, 2), Bottom(Box(2, 2, 2))),
                 Surface(Box(3, 1, 1), {<<<<0, 0, 0>>, <<0, 0, 1>>>>}),
                 Surface(Box(2, 2, 2), {<<<<1, 1, 1>>, <<0, 0, 1>>>>}),
                 Surface(Box(2, 2, 1), {<<0, 0, 0>>} \X {<<0, 0, 1>>, <<0, 0, -1>>}),
                 Surface(Knee \union {<<0, 0, 1>>}, {}),
                 Surface(Box(2, 2, 1) \ {<<1, 1, 0>>}, {<<0, 0, 0>>} \X {<<0, 0, 1>>}),
                 Plane(Square(4) \ {<<1, 0>>}), Plane(Square(2)), Plane((0 .. 2) \X (0 .. 1))}
  IN shapes \union {Renumbered(F) : F \in shapes}
=============================================================================
