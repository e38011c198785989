------------------------- MODULE IntegerConstraints -------------------------
(***************************************************************************)
(* The integer equations of the quadrangulation.  Every edge of the tri-   *)
(* angle mesh has an integer difference <<x, y>> in the parameter plane;   *)
(* a face turns the differences of its edges into its own frame, by FQ     *)
(* quarter turns, and wants both coordinates of their sum to vanish.       *)
(*                                                                         *)
(* BuildIntegerConstraints first shifts differences that two equations     *)
(* count with the same sign, or only one counts, so that the equations of  *)
(* every component sum to zero: over the components of the mesh cut at its *)
(* feature edges, then over those of the flow network.  ComputeMaxFlow     *)
(* (with DownsampleEdgeGraph at one level) then closes the equations by    *)
(* maximal flows, in networks whose capacity grows from round to round.    *)
(* The flow is NetworkSimplexFlowHelper's with the minimum cost flag, which*)
(* GenMesh sets, and without it ECMaxFlowHelper's for a supply below 20.   *)
(***************************************************************************)
EXTENDS QuarterTurns, Integers, Sequences, FiniteSets, FiniteSetsExt

CONSTANTS
  Meshes,    \* the meshes: F2E, FQ, the feature edges, the first differences
  CostFlags, \* the values of the flag flag_minimum_cost_flow
  MaxIter    \* 10: rounds until the flow is given up

(* Two corners of one edge, and whether their frames oppose each other.      *)
Corner(m) == (1 .. Len(m.F2E)) \X (1 .. 3)
Meet(m, a, b) == a # b /\ m.F2E[a[1]][a[2]] = m.F2E[b[1]][b[2]]
Opposed(m, a, b) == (m.FQ[a[1]][a[2]] - m.FQ[b[1]][b[2]] + 4) % 4 = 2

(* An edge has one or two faces.  A feature edge has one: flag_preserve_sharp*)
(* is off, which leaves the boundary edges.                                  *)
Surface(m) ==
  /\ m.diff \in Seq(Int \X Int)
  /\ m.F2E \in Seq([1 .. 3 -> 1 .. Len(m.diff)])
  /\ m.FQ \in [1 .. Len(m.F2E) -> [1 .. 3 -> 0 .. 3]]
  /\ m.feature \subseteq 1 .. Len(m.diff)
  /\ \A a, b \in Corner(m) :
       Meet(m, a, b) => /\ m.F2E[a[1]][a[2]] \notin m.feature
                        /\ \A c \in Corner(m) : Meet(m, a, c) => c = b

(* The disjoint tree has turned the faces so that opposed corners join all   *)
(* faces that share an edge: no set of faces has one of them and not the     *)
(* other unless opposed corners meet at its border.                          *)
FramesOppose(m) ==
  \A a, b \in Corner(m) :
    Meet(m, a, b) =>
      \A P \in SUBSET (1 .. Len(m.F2E)) :
        a[1] \in P /\ b[1] \notin P =>
          \E c, d \in Corner(m) :
            c[1] \in P /\ d[1] \notin P /\ Meet(m, c, d) /\ Opposed(m, c, d)

ASSUME MeshesAssumption == \A m \in Meshes : Surface(m) /\ FramesOppose(m)

VARIABLES
  mesh,           \* the mesh: [F2E, FQ, feature, diff]
  pc,             \* "parts", "parts_counted", ..., "build", "flow" or "done"
  edge_diff,      \* edge -> its difference
  total_flows,    \* component -> the sum of its equations, as it is counted
  modified_variables,   \* the variables that may be shifted
  use_minimum_cost_flow,
  edge_capacity, iter, fullFlow,
  net, flow, ec, q, q_front, vhash, loc, total_flow   \* the MaxFlowHelper

helper == <<net, flow, ec, q, q_front, vhash, loc, total_flow>>
vars == <<mesh, use_minimum_cost_flow, pc, edge_diff, total_flows, modified_variables,
          edge_capacity, iter, fullFlow, helper>>

(* Before resize and addEdge.                                                *)
NoNetwork == [num |-> 2, edges |-> <<>>]

EC == INSTANCE ECMaxFlow WITH Networks <- {NoNetwork}, pc <- ec
LEMON == INSTANCE MinCostFlow

Abs(x) == IF x < 0 THEN -x ELSE x
MinOf(a, b) == IF a < b THEN a ELSE b
MaxOf(a, b) == IF a < b THEN b ELSE a

-----------------------------------------------------------------------------
(* The equations.                                                            *)
Face == 1 .. Len(mesh.F2E)
Edge == 1 .. Len(mesh.diff)
Equation == Face \X {1, 2}
Variable == Edge \X {1, 2}

(* The sum of the three differences of a face, in its frame.                 *)
Residual(diff, eq) ==
  LET Term(j) == rshift90(diff[mesh.F2E[eq[1]][j]], mesh.FQ[eq[1]][j])[eq[2]]
  IN  Term(1) + Term(2) + Term(3)

Excess(diff, eqs) == MapThenSumSet(LAMBDA eq : Residual(diff, eq), eqs)

(* Where an equation counts a variable, and with which sign.                 *)
Unit(d) == IF d = 1 THEN <<1, 0>> ELSE <<0, 1>>
Uses(v) ==
  {u \in (Face \X (1 .. 3)) \X {1, 2} \X {-1, 1} :
     /\ mesh.F2E[u[1][1]][u[1][2]] = v[1]
     /\ rshift90(Unit(v[2]), mesh.FQ[u[1][1]][u[1][2]])[u[2]] = u[3]}
Used(u) == <<u[1][1], u[2]>>

(* The coordinate across a feature edge is zero and must remain so.          *)
allow_changes(v) ==
  IF v[1] \in mesh.feature /\ mesh.diff[v[1]][v[2]] = 0 THEN 0 ELSE 1

(* Variables two equations count with opposite signs: flow between them.     *)
Free(v) ==
  /\ allow_changes(v) # 0
  /\ \E u, w \in Uses(v) : u[3] = 1 /\ w[3] = -1

-----------------------------------------------------------------------------
(* The parts of S when the members of every set of links are merged: the     *)
(* smallest sets that no link leaves.                                        *)
Components(S, links) ==
  LET Closed == {P \in SUBSET S : \A l \in links : l \subseteq P \/ l \intersect P = {}}
  IN  {P \in Closed \ {{}} : \A R \in Closed : R \intersect P = {} \/ P \subseteq R}

(* sharp_colors: faces joined by edges that are no feature and whose frames  *)
(* oppose each other.                                                        *)
Joined(f, g) ==
  \E j, k \in 1 .. 3 :
    /\ Meet(mesh, <<f, j>>, <<g, k>>) /\ Opposed(mesh, <<f, j>>, <<g, k>>)
    /\ mesh.F2E[f][j] \notin mesh.feature
FaceLinks == {{p[1], p[2]} : p \in {p \in Face \X Face : Joined(p[1], p[2])}}
Parts(links) == {faces \X {1, 2} : faces \in Components(Face, links)}

(* tree: equations merged by the flow on a variable.                         *)
EquationLinks == {{Used(u) : u \in Uses(v)} : v \in {v \in Variable : Free(v)}}
Trees(links) == Components(Equation, links)

-----------------------------------------------------------------------------
(* Balancing a component: the variables that can be shifted by one.          *)
SignSum(v) == MapThenSumSet(LAMBDA u : u[3], Uses(v))

(* The equation of the first corner that uses v decides its component.       *)
FirstUse(v) ==
  CHOOSE u \in Uses(v) : \A w \in Uses(v) : 3 * u[1][1] + u[1][2] <= 3 * w[1][1] + w[1][2]

(* Faulty variant: also the coordinate across a feature edge is shifted.     *)
ShiftFrozen(v, excess) ==
  LET direction == excess * SignSum(v)
      x == edge_diff[v[1]][v[2]]
  IN  IF direction > 0 /\ x > -1 THEN -1
      ELSE IF direction < 0 /\ x < 1 THEN 1
      ELSE 0

(* By how much v is shifted to lower the excess of its component, or 0.      *)
Shift(v, excess) ==
  LET direction == excess * SignSum(v)
      x == edge_diff[v[1]][v[2]]
  IN  IF allow_changes(v) = 0 THEN 0
      ELSE IF direction > 0 /\ x > -1 THEN -1
      ELSE IF direction < 0 /\ x < 1 THEN 1
      ELSE 0

(* The excess of every component, and the variables that can lower it; one   *)
(* counted twice with the same sign lowers it by two, and has step 0.        *)
Count(components) ==
  \E totals \in {[c \in components |-> Excess(edge_diff, c)]} :
    /\ total_flows' = totals
    /\ modified_variables' =
         {m \in
            {[v |-> p[1], c |-> p[2], step |-> Abs(SignSum(p[1])) % 2,
              by |-> Shift(p[1], totals[p[2]])] :
               p \in {p \in Variable \X DOMAIN totals : Used(FirstUse(p[1])) \in p[2]}} :
          m.by # 0}

(* Faulty variant: what was counted twice is taken off once.                 *)
ModifyOnce ==
  LET Of(c, step) == {m \in modified_variables : m.c = c /\ m.step = step}
      Twos(c) == MinOf(Abs(total_flows[c]) \div 2, Cardinality(Of(c, 0)))
      Ones(c) == MinOf(Abs(total_flows[c]) - 2 * Twos(c), Cardinality(Of(c, 1)))
  IN  /\ \E M \in SUBSET modified_variables :
           /\ \A c \in DOMAIN total_flows :
                /\ Cardinality(M \intersect Of(c, 0)) = Twos(c)
                /\ Cardinality(M \intersect Of(c, 1)) = Ones(c)
           /\ edge_diff' =
                [e \in Edge |->
                   [d \in {1, 2} |->
                      edge_diff[e][d] +
                      MapThenSumSet(LAMBDA m : m.by, {m \in M : m.v = <<e, d>>})]]
      /\ total_flows' =
           [c \in DOMAIN total_flows |->
              total_flows[c] -
              (IF total_flows[c] > 0 THEN 1 ELSE -1) * (Twos(c) + Ones(c))]

(* As many are shifted as the excess asks for; the shuffle leaves open which.*)
Modify ==
  LET Of(c, step) == {m \in modified_variables : m.c = c /\ m.step = step}
      Twos(c) == MinOf(Abs(total_flows[c]) \div 2, Cardinality(Of(c, 0)))
      Ones(c) == MinOf(Abs(total_flows[c]) - 2 * Twos(c), Cardinality(Of(c, 1)))
  IN  /\ \E M \in SUBSET modified_variables :
           /\ \A c \in DOMAIN total_flows :
                /\ Cardinality(M \intersect Of(c, 0)) = Twos(c)
                /\ Cardinality(M \intersect Of(c, 1)) = Ones(c)
           /\ edge_diff' =
                [e \in Edge |->
                   [d \in {1, 2} |->
                      edge_diff[e][d] +
                      MapThenSumSet(LAMBDA m : m.by, {m \in M : m.v = <<e, d>>})]]
      /\ total_flows' =
           [c \in DOMAIN total_flows |->
              total_flows[c] -
              (IF total_flows[c] > 0 THEN 1 ELSE -1) * (2 * Twos(c) + Ones(c))]

-----------------------------------------------------------------------------
(* A round of flow.                                                          *)
VariableOf(i) == <<(i + 1) \div 2, 2 - (i % 2)>>
EquationOf(i) == <<(i + 1) \div 2, 2 - (i % 2)>>
NodeOf(eq) == 2 * (eq[1] - 1) + eq[2]
NoVariable == 0

(* From the equation that counts the variable positively to the other; the   *)
(* flow that way lowers the variable.                                        *)
ArcOf(i) ==
  LET v == VariableOf(i)
      Counting(s) == CHOOSE u \in Uses(v) : u[3] = s
      c == edge_diff[v[1]][v[2]]
  IN  [x |-> NodeOf(Used(Counting(1))), y |-> NodeOf(Used(Counting(-1))),
       c |-> MaxOf(0, c + edge_capacity), rc |-> MaxOf(0, -c + edge_capacity), v |-> i]

(* Supply of the equations above zero, demand of those below.                *)
TerminalOf(i) ==
  LET r == Residual(edge_diff, EquationOf(i))
  IN  IF r > 0
      THEN [x |-> EC!Source, y |-> i, c |-> r, rc |-> 0, v |-> NoVariable]
      ELSE [x |-> i, y |-> 2 * Len(mesh.F2E) + 1, c |-> -r, rc |-> 0, v |-> NoVariable]

Ascending(S) ==
  [k \in 1 .. Cardinality(S) |-> CHOOSE x \in S : Cardinality({y \in S : y < x}) = k - 1]
arc_ids == {i \in 1 .. 2 * Len(mesh.diff) : Free(VariableOf(i))}
open == {i \in 1 .. 2 * Len(mesh.F2E) : Residual(edge_diff, EquationOf(i)) # 0}

Network(free, terminals) ==
  [num |-> 2 * Len(mesh.F2E) + 2,
   edges |-> [k \in 1 .. Cardinality(free) |-> ArcOf(Ascending(free)[k])] \o
             [k \in 1 .. Cardinality(terminals) |-> TerminalOf(Ascending(terminals)[k])]]

supply == MapThenSumSet(LAMBDA eq : MaxOf(0, Residual(edge_diff, eq)), Equation)

(* Faulty variant: the half-edge against the arc is applied.                 *)
AppliedBackwards(e, d) ==
  LET arcs == {k \in 1 .. Len(net.edges) :
                 net.edges[k].v # NoVariable /\ VariableOf(net.edges[k].v) = <<e, d>>}
  IN  edge_diff[e][d] - MapThenSumSet(LAMBDA k : flow[<<k, 1>>], arcs)

(* applyTo: the flow on the arc of a variable.                               *)
Applied(e, d) ==
  LET arcs == {k \in 1 .. Len(net.edges) :
                 net.edges[k].v # NoVariable /\ VariableOf(net.edges[k].v) = <<e, d>>}
  IN  edge_diff[e][d] - MapThenSumSet(LAMBDA k : flow[<<k, -1>>], arcs)

-----------------------------------------------------------------------------
Init ==
  /\ mesh \in Meshes /\ use_minimum_cost_flow \in CostFlags
  /\ pc = "parts"
  /\ edge_diff = mesh.diff
  /\ total_flows = <<>> /\ modified_variables = {}
  /\ edge_capacity = 2 /\ iter = 0 /\ fullFlow = FALSE
  /\ EC!Init

(* Total flows per component of faces.                                       *)
CountParts ==
  /\ pc = "parts"
  /\ \E links \in {FaceLinks} : Count(Parts(links))
  /\ pc' = "parts_counted"
  /\ UNCHANGED <<mesh, use_minimum_cost_flow, edge_diff, edge_capacity, iter, fullFlow, helper>>

ModifyParts ==
  /\ pc = "parts_counted"
  /\ Modify
  /\ pc' = "trees"
  /\ UNCHANGED <<mesh, use_minimum_cost_flow, modified_variables,
                 edge_capacity, iter, fullFlow, helper>>

(* Total flows per component of the network.                                 *)
CountTrees ==
  /\ pc = "trees"
  /\ \E links \in {EquationLinks} : Count(Trees(links))
  /\ pc' = "trees_counted"
  /\ UNCHANGED <<mesh, use_minimum_cost_flow, edge_diff, edge_capacity, iter, fullFlow, helper>>

ModifyTrees ==
  /\ pc = "trees_counted"
  /\ Modify
  /\ pc' = "build"
  /\ UNCHANGED <<mesh, use_minimum_cost_flow, modified_variables,
                 edge_capacity, iter, fullFlow, helper>>

(* resize and addEdge, and a helper that has not begun to search.            *)
Build ==
  /\ pc = "build"
  /\ \E free \in {arc_ids}, terminals \in {open} :
       /\ net' = Network(free, terminals)
       /\ flow' = EC!ZeroFlow(Network(free, terminals))
  /\ ec' = "search" /\ q' = <<EC!Start>> /\ q_front' = 1 /\ vhash' = {EC!Source}
  /\ loc' = 0 /\ total_flow' = 0
  /\ pc' = "flow"
  /\ UNCHANGED <<mesh, use_minimum_cost_flow, edge_diff, total_flows, modified_variables,
                 edge_capacity, iter, fullFlow>>

(* compute() of NetworkSimplexFlowHelper: a unit, or the end.                *)
ComputeCheapest ==
  /\ pc = "flow" /\ ec # "done" /\ use_minimum_cost_flow
  /\ \E paths \in {LEMON!Paths(net, flow)} :
       \/ /\ paths = {}
          /\ ec' = "done"
          /\ UNCHANGED <<flow, total_flow>>
       \/ /\ \E w \in LEMON!Cheapest(paths) : flow' = LEMON!Pushed(flow, w.over)
          /\ total_flow' = total_flow + 1
          /\ UNCHANGED ec
  /\ UNCHANGED <<mesh, use_minimum_cost_flow, pc, edge_diff, total_flows, modified_variables,
                 edge_capacity, iter, fullFlow, net, q, q_front, vhash, loc>>

(* compute() of ECMaxFlowHelper.                                             *)
Compute ==
  /\ pc = "flow" /\ ~use_minimum_cost_flow /\ EC!Next
  /\ UNCHANGED <<mesh, use_minimum_cost_flow, pc, edge_diff, total_flows, modified_variables,
                 edge_capacity, iter, fullFlow>>

(* Faulty variant: a round that was not full does not count.                  *)
ApplyForever ==
  /\ pc = "flow" /\ ec = "done"
  /\ edge_diff' = [e \in Edge |-> [d \in {1, 2} |-> Applied(e, d)]]
  /\ fullFlow' = (total_flow = supply)
  /\ IF fullFlow'
     THEN pc' = "done" /\ UNCHANGED <<edge_capacity, iter>>
     ELSE /\ edge_capacity' = edge_capacity
          /\ iter' = iter
          /\ pc' = IF iter' = MaxIter THEN "done" ELSE "build"
  /\ UNCHANGED <<mesh, use_minimum_cost_flow, total_flows, modified_variables, helper>>

(* Faulty variant: full is when the flow exceeds nothing that is left.        *)
ApplyAnyFlow ==
  /\ pc = "flow" /\ ec = "done"
  /\ edge_diff' = [e \in Edge |-> [d \in {1, 2} |-> Applied(e, d)]]
  /\ fullFlow' = (total_flow <= supply)
  /\ IF fullFlow'
     THEN pc' = "done" /\ UNCHANGED <<edge_capacity, iter>>
     ELSE /\ edge_capacity' = edge_capacity + 1
          /\ iter' = iter + 1
          /\ pc' = IF iter' = MaxIter THEN "done" ELSE "build"
  /\ UNCHANGED <<mesh, use_minimum_cost_flow, total_flows, modified_variables, helper>>

(* applyTo; another round when the flow was not full.                        *)
Apply ==
  /\ pc = "flow" /\ ec = "done"
  /\ edge_diff' = [e \in Edge |-> [d \in {1, 2} |-> Applied(e, d)]]
  /\ fullFlow' = (total_flow = supply)
  /\ IF fullFlow'
     THEN pc' = "done" /\ UNCHANGED <<edge_capacity, iter>>
     ELSE /\ edge_capacity' = edge_capacity + 1
          /\ iter' = iter + 1
          /\ pc' = IF iter' = MaxIter THEN "done" ELSE "build"
  /\ UNCHANGED <<mesh, use_minimum_cost_flow, total_flows, modified_variables, helper>>

Next ==
  \/ CountParts \/ ModifyParts \/ CountTrees \/ ModifyTrees
  \/ Build \/ ComputeCheapest \/ Compute \/ Apply

Spec == Init /\ [][Next]_vars /\ WF_vars(Next)

-----------------------------------------------------------------------------
(* What BuildIntegerConstraints believes a component sums to is what it sums *)
(* to, after the shifts and through all rounds of flow.                      *)
CountsAreReal == \A c \in DOMAIN total_flows : total_flows[c] = Excess(edge_diff, c)

(* A full flow means that the equations are closed: none is left above zero, *)
(* and none below if the components were balanced.                           *)
FullFlowCloses ==
  fullFlow =>
    \A eq \in Equation :
      /\ Residual(edge_diff, eq) <= 0
      /\ (\A c \in DOMAIN total_flows : total_flows[c] = 0) => Residual(edge_diff, eq) = 0

(* Feature edges keep to the coordinate lines they were snapped to, through  *)
(* the random shifts and through the flow.                                   *)
FeaturesStayAligned ==
  \A e \in mesh.feature, d \in {1, 2} : mesh.diff[e][d] = 0 => edge_diff[e][d] = 0

(* No round of flow opens an equation further, or overshoots.                *)
FlowOnlyCloses ==
  [][pc = "flow" =>
       \A eq \in Equation :
         LET old == Residual(edge_diff, eq)
             new == Residual(edge_diff', eq)
         IN  (0 <= new /\ new <= old) \/ (old <= new /\ new <= 0)]_vars

(* The rounds come to an end.                                                *)
Termination == <>(pc = "done")
=============================================================================
