----------------------------- MODULE QuadRepair -----------------------------
(***************************************************************************)
(* The repair of the extracted quad mesh: the end of BuildTriangleManifold *)
(* (parametrizer-flip.cpp:490-534), FixHoles (1-182) and FixValence        *)
(* (parametrizer-mesh.cpp:515-750).  Faces with a repeated vertex are      *)
(* erased, holes are filled with quads, two faces around a vertex of       *)
(* valence two become one, a vertex of several fans becomes one vertex for *)
(* each, and vertices of high valence are split.  Each pass works on the   *)
(* directed-edge lists E2E_compact and V2E_compact made before it, while   *)
(* F_compact changes.                                                      *)
(*                                                                         *)
(* A directed edge 4 * f + j is <<f, j>>; vertices, faces and corners      *)
(* count from 1.  Of all fillings of a hole the code takes the one whose   *)
(* angles are best; here it can be any.                                    *)
(***************************************************************************)
EXTENDS Integers, FiniteSets, FiniteSetsExt, Sequences, SequencesExt, TLC

CONSTANTS Meshes,     (* the quads of BuildTriangleManifold: sequences of faces *)
          LongHole    (* holes of so many edges are left, 25 in the code *)

None   == <<0, 0>>
Corner == 1 .. 4
Next4(e) == <<e[1], (e[2] % 4) + 1>>
Prev4(e) == <<e[1], ((e[2] + 2) % 4) + 1>>

EdgesOf(M)       == (DOMAIN M) \X Corner
From(M, e)       == M[e[1]][e[2]]
Ends(M, e)       == <<From(M, e), From(M, Next4(e))>>
Leaving(M, v)    == {e \in EdgesOf(M) : From(M, e) = v}
VerticesOf(M)    == {From(M, e) : e \in EdgesOf(M)}
DirectedEdges(M) == {Ends(M, e) : e \in EdgesOf(M)}
IsSimple(f)      == Cardinality({f[j] : j \in Corner}) = 4

(* Faces that agree on their sense: no directed edge is in two of them.      *)
IsOriented(M) == Cardinality(DirectedEdges(M)) = 4 * Len(M)

(* The elements of s at the places in S, in their order.                     *)
Chosen(s, S) ==
  LET Upto[k \in 0 .. Len(s)] ==
        IF k = 0 THEN <<>> ELSE IF k \in S THEN Append(Upto[k - 1], s[k]) ELSE Upto[k - 1]
  IN  Upto[Len(s)]

SimpleFaces(M) == Chosen(M, {i \in DOMAIN M : IsSimple(M[i])})

ASSUME MeshesAreOriented ==
  \A M \in Meshes : M \in Seq([Corner -> Nat \ {0}]) /\ M # <<>> /\ IsOriented(SimpleFaces(M))

VARIABLES
  pc,         (* the pass: "degenerate", "holes", "two", "fans", "high", "zero", "done" *)
  F,          (* F_compact *)
  E2E, V2E,   (* E2E_compact, V2E_compact *)
  Vset,       (* of each vertex, the one of BuildTriangleManifold it comes from *)
  detected,   (* detected_boundary *)
  marks,      (* marks *)
  erased,     (* erasedF *)
  valences,   (* valences *)
  todo,       (* vertices the sweep has not come to *)
  update,     (* update *)
  before      (* history: F_compact, through Vset, when the splitting begins *)

vars == <<pc, F, E2E, V2E, Vset, detected, marks, erased, valences, todo, update, before>>
sweep == <<marks, erased, valences, todo, update>>
-----------------------------------------------------------------------------
(* compute_direct_graph_quad, for a mesh that IsOriented.  V2E is the first  *)
(* edge of the fan at the boundary, the least edge elsewhere; of several     *)
(* fans the one with the least edge is taken.                                *)
Opposites(M) ==
  [e \in EdgesOf(M) |->
     LET p == Ends(M, e)
         S == {d \in Leaving(M, p[2]) : From(M, Next4(d)) = p[1]}
     IN  IF S = {} THEN None ELSE CHOOSE d \in S : TRUE]

Before(d, e) == d[1] < e[1] \/ (d[1] = e[1] /\ d[2] < e[2])
Least(S) == CHOOSE e \in S : \A d \in S : d = e \/ Before(e, d)

(* The edges from e on, next after next, up to one that has no next or whose *)
(* next is e; there are no more edges than next has.                         *)
Orbit(next, e) ==
  LET edges == DOMAIN next
      Walk[w \in Seq(edges) \ {<<>>}] ==
        LET x == next[Last(w)]
        IN  IF x \in {None, e} \/ Len(w) >= Cardinality(edges) THEN w
            ELSE Walk[Append(w, x)]
  IN  Walk[<<e>>]

(* The edges from one vertex, from e on, one way and the other way around,   *)
(* up to the boundary or until the fan is closed.                            *)
Back(e2e)        == [x \in DOMAIN e2e |-> e2e[Prev4(x)]]
Forth(e2e)       == [x \in DOMAIN e2e |-> IF e2e[x] = None THEN None ELSE Next4(e2e[x])]
Backward(e2e, e) == Orbit(Back(e2e), e)
Forward(e2e, e)  == Orbit(Forth(e2e), e)

FanOf(e2e, e) == ToSet(Backward(e2e, e)) \union ToSet(Forward(e2e, e))

Start(M, e2e, v) ==
  LET least == Least(Leaving(M, v))
      back == Backward(e2e, least)
  IN  IF e2e[Prev4(Last(back))] = None THEN Last(back) ELSE least

Starts(M, e2e, vertices) ==
  [v \in vertices |-> IF Leaving(M, v) = {} THEN None ELSE Start(M, e2e, v)]

(* The lists for the mesh M.                                                 *)
Direct(M) ==
  \E e2e \in {Opposites(M)} : E2E' = e2e /\ V2E' = Starts(M, e2e, DOMAIN Vset')

NoSweep ==
  /\ marks' = {} /\ erased' = {} /\ todo' = {} /\ update' = FALSE
  /\ valences' = <<>>

Init ==
  /\ pc = "degenerate"
  /\ F \in Meshes
  /\ E2E = [e \in {} |-> None] /\ V2E = <<>>
  /\ Vset = [v \in 1 .. Max(VerticesOf(F)) |-> v]
  /\ detected = {}
  /\ marks = {} /\ erased = {} /\ todo = {} /\ update = FALSE /\ valences = <<>>
  /\ before = <<>>

(* Faces that have a vertex twice are erased.                                *)
EraseDegenerate ==
  /\ pc = "degenerate"
  /\ pc' = "holes"
  /\ F' = SimpleFaces(F)
  /\ UNCHANGED Vset
  /\ Direct(F')
  /\ UNCHANGED <<detected, sweep, before>>
-----------------------------------------------------------------------------
(* FixHoles.  The boundary from e on, until an edge that was met before.     *)
Around(x) == LET y == Last(Forward(E2E, Next4(x))) IN IF y \in detected THEN None ELSE y

LoopEdges(e) == Orbit([x \in {x \in DOMAIN E2E : E2E[x] = None} |-> Around(x)], e)

(* The vertices of s that are still in the map, once each.                   *)
Among(s, met) ==
  Chosen(s, {k \in DOMAIN s : met[s[k]] # 0 /\ \A l \in 1 .. (k - 1) : s[l] # s[k]})

SimpleLoops == {l \in Seq(DOMAIN Vset) : IsInjective(l)}

(* A loop that meets a vertex again is cut there; the piece is empty if it   *)
(* has an odd length or less than four edges.  map_loops[v] is where v was   *)
(* met, 0 if it has been cut off.                                            *)
Piece(loop, i, met) ==
  LET j == met[loop[i]]
  IN  IF i - j > 3 /\ (i - j) % 2 = 0 THEN Among(SubSeq(loop, j, i - 1), met) ELSE <<>>

Visit(loop) ==
  LET State == [pieces : Seq(SimpleLoops), met : [DOMAIN Vset -> 0 .. Len(loop)]]
  IN  [x \in (DOMAIN loop) \X State |->
         LET i == x[1]
             met == x[2].met
             piece == Piece(loop, i, met)
             met_i == [met EXCEPT ![loop[i]] = i]
         IN  IF met[loop[i]] = 0 THEN [x[2] EXCEPT !.met = met_i]
             ELSE [pieces |-> Append(x[2].pieces, piece),
                   met |-> [v \in DOMAIN met |->
                              IF v # loop[i] /\ Contains(piece, v) THEN 0 ELSE met_i[v]]]]

Pieces(loop) ==
  LET After[i \in 0 .. Len(loop)] ==
        IF i = 0 THEN [pieces |-> <<>>, met |-> [v \in DOMAIN Vset |-> 0]]
        ELSE Visit(loop)[<<i, After[i - 1]>>]
      end == After[Len(loop)]
      rest == Among(loop, end.met)
  IN  IF Len(rest) >= 3 THEN Append(end.pieces, rest) ELSE end.pieces

(* QuadEnergy: the ways to fill a simple loop.  A quad on its first edge and *)
(* another one leaves up to three loops; what is left of an odd loop is not  *)
(* filled.                                                                   *)
Segments(n) == {s \in (3 .. n) \X (4 .. n) : s[1] % 2 = 1 /\ s[2] % 2 = 0 /\ s[1] < s[2]}

(* The ways to fill l, if Fill says how to fill shorter loops.               *)
FilledBy(Fill, l) ==
  LET n == Len(l)
      Left(cut, rest) == IF cut THEN Fill[rest] ELSE {<<>>}
  IN  IF n < 4 THEN {<<>>}
      ELSE IF n = 4 THEN {<<<<l[1], l[4], l[3], l[2]>>>>}
      ELSE UNION {{<<<<l[1], l[s[2]], l[s[1]], l[2]>>>> \o a[1] \o a[2] \o a[3] :
                     a \in Left(s[1] > 3, SubSeq(l, 2, s[1]))
                           \X Left(s[2] > s[1] + 1, SubSeq(l, s[1], s[2]))
                           \X Left(s[2] < n, SubSeq(l, s[2], n) \o <<l[1]>>)} : s \in Segments(n)}

Fillings == LET Fill[l \in SimpleLoops] == FilledBy(Fill, l) IN Fill

(* The pieces are filled in turn, up to the first empty one.                 *)
AllFillings(pieces) ==
  LET Rest(k) == pieces[Len(pieces) - k + 1]
      Fill[k \in 0 .. Len(pieces)] ==
        IF k = 0 \/ Rest(k) = <<>> THEN {<<>>}
        ELSE {s[1] \o s[2] : s \in Fillings[Rest(k)] \X Fill[k - 1]}
  IN  Fill[Len(pieces)]

(* Faulty variant: quads that would share a directed edge are added too.     *)
AddsAlways(M, q) == Append(M, q)

(* A quad with a directed edge of another one is left out.                   *)
Adds(M, q) ==
  IF DirectedEdges(<<q>>) \intersect DirectedEdges(M) # {} THEN M ELSE Append(M, q)

AllAdded(M, quads) ==
  LET Add[k \in 0 .. Len(quads)] == IF k = 0 THEN M ELSE Adds(Add[k - 1], quads[k])
  IN  Add[Len(quads)]

Undetected == {e \in DOMAIN E2E : E2E[e] = None /\ e \notin detected}

(* Faulty variant: the edges of a loop are not marked.                       *)
NotMarked(edges) == detected

Marked(edges) == detected \union ToSet(edges)

FixHole ==
  /\ pc = "holes" /\ Undetected # {}
  /\ \E edges \in {LoopEdges(Least(Undetected))} :
       /\ detected' = Marked(edges)
       /\ IF Len(edges) >= LongHole
          THEN UNCHANGED F
          ELSE \E pieces \in {Pieces([i \in DOMAIN edges |-> From(F, edges[i])])} :
                 \E quads \in AllFillings(pieces) : F' = AllAdded(F, quads)
  /\ UNCHANGED <<pc, E2E, V2E, Vset, sweep, before>>

HolesFixed ==
  /\ pc = "holes" /\ Undetected = {}
  /\ pc' = "two"
  /\ UNCHANGED <<F, Vset>>
  /\ Direct(F')
  /\ todo' = DOMAIN Vset
  /\ UNCHANGED <<detected, marks, erased, valences, update, before>>
-----------------------------------------------------------------------------
(* FixValence.  A vertex of valence two that no vertex before it has touched.*)
Neighbours(v) ==
  LET a == V2E[v]
      b == E2E[Prev4(a)]
  IN  <<From(F, Next4(a)), From(F, Next4(Next4(a))), From(F, Next4(b)), From(F, Next4(Next4(b)))>>

HasTwoFaces(v) == V2E[v] # None /\ Len(Backward(E2E, V2E[v])) = 2

(* Faulty variant: marks are not looked at.                                  *)
Anyway(v) == HasTwoFaces(v)

Untouched(v) ==
  HasTwoFaces(v) /\ v \notin marks /\ ToSet(Neighbours(v)) \intersect marks = {}

(* Its two faces become one, or none if that would repeat a vertex.          *)
RemoveTwo ==
  /\ pc = "two"
  /\ \E v \in todo :
       /\ Untouched(v) /\ \A w \in todo : w < v => ~ Untouched(w)
       /\ LET a == V2E[v][1]
              b == E2E[Prev4(V2E[v])][1]
              q == Neighbours(v)
          IN  /\ marks' = marks \union ToSet(q)
              /\ F' = IF IsSimple(q) THEN [F EXCEPT ![a] = q] ELSE F
              /\ erased' = erased \union (IF IsSimple(q) THEN {b} ELSE {a, b})
       /\ todo' = {w \in todo : w > v}
  /\ update' = TRUE
  /\ UNCHANGED <<pc, E2E, V2E, Vset, detected, valences, before>>

Kept == Chosen(F, (DOMAIN F) \ erased)

EndTwo ==
  /\ pc = "two"
  /\ \A v \in todo : ~ Untouched(v)
  /\ UNCHANGED Vset
  /\ IF update
     THEN /\ F' = Kept
          /\ Direct(F')
          /\ todo' = DOMAIN Vset /\ marks' = {} /\ erased' = {} /\ update' = FALSE
          /\ UNCHANGED <<pc, valences, before>>
     ELSE /\ pc' = "fans"
          /\ NoSweep
          /\ before' = [i \in DOMAIN F |-> [j \in Corner |-> Vset[F[i][j]]]]
          /\ UNCHANGED <<F, E2E, V2E>>
  /\ UNCHANGED detected

(* Faulty variant: the faces of a vertex are taken for one fan.              *)
OneFan(v) == {Leaving(F, v)}

(* A vertex of several fans keeps the first; the others get vertices of      *)
(* their own, with the same Vset, position, normal and direction.            *)
Fans(v) == {FanOf(E2E, e) : e \in Leaving(F, v)}

Group(v, e) == Cardinality({f \in Fans(v) : Before(Least(f), Least(FanOf(E2E, e)))})

SplitFans ==
  /\ pc = "fans"
  /\ \E v \in DOMAIN Vset :
       /\ Cardinality(Fans(v)) > 1
       /\ \A w \in DOMAIN Vset : w < v => Cardinality(Fans(w)) <= 1
       /\ F' = [i \in DOMAIN F |-> [j \in Corner |->
                   IF F[i][j] = v /\ Group(v, <<i, j>>) > 0
                   THEN Len(Vset) + Group(v, <<i, j>>) ELSE F[i][j]]]
       /\ Vset' = Vset \o [i \in 1 .. (Cardinality(Fans(v)) - 1) |-> Vset[v]]
  /\ UNCHANGED <<pc, E2E, V2E, detected, sweep, before>>

(* The valence of a vertex is that of the fan V2E begins.                    *)
Valence(M, v2e, e2e, v) ==
  IF v2e[v] = None THEN 0
  ELSE LET fan == Forward(e2e, v2e[v])
       IN  Len(fan) + (IF e2e[Last(fan)] = None THEN 1 ELSE 0)

StartHigh ==
  /\ Direct(F')
  /\ \E vals \in {[v \in DOMAIN Vset' |-> Valence(F', V2E', E2E', v)]} :
       /\ valences' = vals
       /\ todo' = {v \in DOMAIN vals : vals[v] > 5}
  /\ marks' = {} /\ erased' = {} /\ update' = FALSE

FansSplit ==
  /\ pc = "fans"
  /\ \A v \in DOMAIN Vset : Cardinality(Fans(v)) <= 1
  /\ pc' = "high"
  /\ UNCHANGED <<F, Vset>>
  /\ StartHigh
  /\ UNCHANGED <<detected, before>>

(* The vertices of high valence, the highest first.                          *)
IsNext(v) ==
  \A w \in todo : valences[w] < valences[v] \/ (valences[w] = valences[v] /\ w <= v)

(* Where to split: between two neighbours half way around from each other,   *)
(* with the least valences.                                                  *)
LessPair(p, q) == p[1] < q[1] \/ (p[1] = q[1] /\ p[2] < q[2])

Splits(v, ring) ==
  LET step == (valences[v] + 1) \div 2
      Key(i) == LET x == valences[ring[i]] y == valences[ring[i + step]]
                IN  IF x < y THEN <<y, x>> ELSE <<x, y>>
      candidates == 1 .. (Len(ring) - step)
  IN  {i \in candidates :
         /\ \A k \in candidates : ~ LessPair(Key(k), Key(i))
         /\ \A k \in candidates : k < i => Key(k) # Key(i)
         /\ Key(i)[1] < valences[v]}

Moved(i, step) == (i + 1) .. (i + step)

SplitHigh ==
  /\ pc = "high"
  /\ \E v \in todo :
       /\ IsNext(v)
       /\ todo' = todo \ {v}
       /\ LET fan  == Forward(E2E, V2E[v])
              ring == [i \in DOMAIN fan |-> From(F, Next4(fan[i]))]
              step == (valences[v] + 1) \div 2
              new  == Len(Vset) + 1
          IN  IF v \in marks \/ ToSet(ring) \intersect marks # {} \/ Splits(v, ring) = {}
              THEN UNCHANGED <<F, Vset, marks, update>>
              ELSE \E i \in Splits(v, ring) :
                     /\ F' = Append([f \in DOMAIN F |-> [j \in Corner |->
                                       IF \E k \in Moved(i, step) : fan[k] = <<f, j>>
                                       THEN new ELSE F[f][j]]],
                                    <<new, ring[i], v, ring[i + step]>>)
                     /\ Vset' = Append(Vset, Vset[v])
                     /\ marks' = marks \union {v} \union ToSet(ring)
                     /\ update' = TRUE
  /\ UNCHANGED <<pc, E2E, V2E, detected, erased, valences, before>>

EndHigh ==
  /\ pc = "high" /\ todo = {}
  /\ UNCHANGED <<F, Vset>>
  /\ IF update
     THEN StartHigh /\ UNCHANGED pc
     ELSE pc' = "zero" /\ NoSweep /\ UNCHANGED <<E2E, V2E>>
  /\ UNCHANGED <<detected, before>>

(* Vertices without a face are removed, the others move up.                  *)
compact_index(v) == Cardinality({w \in VerticesOf(F) : w <= v})

(* Faulty variant: the lists are cut to length, but nothing is moved up.     *)
CutOff == SubSeq(Vset, 1, Cardinality(VerticesOf(F)))

MovedUp == Chosen(Vset, VerticesOf(F))

RemoveZero ==
  /\ pc = "zero"
  /\ pc' = "done"
  /\ F' = [i \in DOMAIN F |-> [j \in Corner |-> compact_index(F[i][j])]]
  /\ Vset' = MovedUp
  /\ Direct(F')
  /\ UNCHANGED <<detected, sweep, before>>

Next ==
  \/ EraseDegenerate \/ FixHole \/ HolesFixed \/ RemoveTwo \/ EndTwo
  \/ SplitFans \/ FansSplit \/ SplitHigh \/ EndHigh \/ RemoveZero

(* One thread.                                                               *)
Spec == Init /\ [][Next]_vars /\ WF_vars(Next)
-----------------------------------------------------------------------------
(* Between the passes and within them, faces that are not erased agree on    *)
(* their sense, although each pass works on lists made before it: two faces  *)
(* with one directed edge would leave E2E without opposites that are each    *)
(* other's, and the walks around vertices without an end.                    *)
FacesStayOriented == pc # "degenerate" => IsOriented(Kept)

(* Repairing opens no hole: the edges without a face at the other side       *)
(* become fewer by filling, and no more by what is done to the valences,     *)
(* whether faces change or are only marked as erased.                        *)
Open(M) == {p \in DirectedEdges(M) : <<p[2], p[1]>> \notin DirectedEdges(M)}

HolesNeverGrow ==
  [][pc # "degenerate" /\ Kept' # Kept =>
       \A M \in {Kept}, N \in {Kept'} : Cardinality(Open(N)) <= Cardinality(Open(M))]_vars

(* The mesh that goes to the extraction of patches is a manifold: the faces  *)
(* of a vertex are one fan, which V2E begins, and no face has a vertex twice.*)
RepairedIsManifold ==
  pc = "done" =>
    /\ \A i \in DOMAIN F : IsSimple(F[i])
    /\ \A v \in DOMAIN Vset :
         /\ V2E[v] # None
         /\ ToSet(Forward(E2E, V2E[v])) = Leaving(F, v)

(* Splitting vertices moves nothing: through Vset the faces are where they   *)
(* were before, but for new faces that have the split vertex twice and so no *)
(* area.                                                                     *)
SplittingMovesNothing ==
  pc = "done" =>
    /\ Len(F) >= Len(before)
    /\ \A i \in DOMAIN F :
         LET q == [j \in Corner |-> Vset[F[i][j]]]
         IN  IF i <= Len(before) THEN q = before[i] ELSE q[1] = q[3]

(* The sweeps come to an end.                                                *)
Termination == <>(pc = "done")
=============================================================================
