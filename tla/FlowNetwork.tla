---------------------------- MODULE FlowNetwork -----------------------------
(***************************************************************************)
(* The network a MaxFlowHelper is given: resize(num, _) makes the nodes    *)
(* 0 .. num - 1, the source first and the sink last, and each call of      *)
(* addEdge(x, y, c, rc, v) an edge of capacity c from x to y and rc from y *)
(* to x.  Every edge stands for two half-edges, each the reverse of the    *)
(* other: <<i, -1>> from x to y, <<i, 1>> from y to x.  The sign is the    *)
(* code's d: how flow on the half-edge changes the variable of the edge.   *)
(***************************************************************************)
EXTENDS Integers, Sequences, FiniteSetsExt

Node(net) == 0 .. net.num - 1
Source == 0
Sink(net) == net.num - 1

(* What addEdge is called with; the variable v does not matter to the flow.  *)
Arcs(net) == [x : Node(net), y : Node(net), c : Nat, rc : Nat, v : Int]

Half(net) == (1 .. Len(net.edges)) \X {-1, 1}
Rev(l) == <<l[1], -l[2]>>
From(net, l) == IF l[2] = -1 THEN net.edges[l[1]].x ELSE net.edges[l[1]].y
To(net, l) == From(net, Rev(l))
Capacity(net, l) == IF l[2] = -1 THEN net.edges[l[1]].c ELSE net.edges[l[1]].rc

ZeroFlow(net) == [l \in Half(net) |-> 0]

(* The net flow out of a node.                                               *)
Outflow(net, flow, v) ==
  MapThenSumSet(LAMBDA l : flow[l], {l \in Half(net) : From(net, l) = v})

(* A flow runs against itself on reverse half-edges and is within capacity.  *)
Antisymmetric(net, flow) == \A l \in Half(net) : flow[l] = -flow[Rev(l)]
WithinCapacity(net, flow) == \A l \in Half(net) : flow[l] <= Capacity(net, l)
Conserved(net, flow) == \A v \in Node(net) \ {Source, Sink(net)} : Outflow(net, flow, v) = 0

Feasible(net, flow) ==
  Antisymmetric(net, flow) /\ WithinCapacity(net, flow) /\ Conserved(net, flow)

(* A flow is maximal when some cut between source and sink is saturated.     *)
Saturates(net, flow, cut) ==
  /\ Source \in cut /\ Sink(net) \notin cut
  /\ \A l \in Half(net) :
       From(net, l) \in cut /\ To(net, l) \notin cut => flow[l] = Capacity(net, l)
Maximal(net, flow) == \E cut \in SUBSET Node(net) : Saturates(net, flow, cut)
=============================================================================
