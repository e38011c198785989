---------------------------- MODULE MinCostFlow -----------------------------
(***************************************************************************)
(* NetworkSimplexFlowHelper: LEMON's Preflow finds the value of a maximal  *)
(* flow and its NetworkSimplex a flow of that value and of least cost,     *)
(* every arc costing 1 a unit.  LEMON is taken at its word, and which of   *)
(* the cheapest maximal flows it finds is left open.                       *)
(*                                                                         *)
(* They are generated unit by unit, each along a cheapest path of what is  *)
(* left of the network: that keeps a flow a cheapest one of its value, and *)
(* leads to every cheapest flow, since a unit taken off one along a        *)
(* cheapest way back leaves a cheapest flow too.  A cheapest flow never    *)
(* runs both ways over an edge, so the flow on the two arcs of an edge is  *)
(* a flow on its half-edges.                                               *)
(***************************************************************************)
EXTENDS FlowNetwork

(* What one more unit over a half-edge costs: against the flow, less.        *)
Cost(flow, l) == IF flow[Rev(l)] > 0 THEN -1 ELSE 1

(* The paths from source to sink with capacity left.                         *)
Paths(net, flow) ==
  LET Left == {l \in Half(net) : Capacity(net, l) > flow[l]}
      Longer(w) ==
        {[at |-> To(net, l), seen |-> w.seen \union {To(net, l)},
          over |-> w.over \union {l}, cost |-> w.cost + Cost(flow, l)] :
           l \in {l \in Left : From(net, l) = w.at /\ To(net, l) \notin w.seen}}
      Ways[n \in Node(net)] ==
        IF n = 0 THEN {[at |-> Source, seen |-> {Source}, over |-> {}, cost |-> 0]}
        ELSE UNION {IF w.at = Sink(net) THEN {w} ELSE Longer(w) : w \in Ways[n - 1]}
  IN  {w \in Ways[Sink(net)] : w.at = Sink(net)}

Cheapest(paths) == {w \in paths : \A v \in paths : w.cost <= v.cost}

(* One more unit over the half-edges of a path.                              *)
Pushed(flow, over) ==
  [l \in DOMAIN flow |->
     flow[l] + (IF l \in over THEN 1 ELSE 0) - (IF Rev(l) \in over THEN 1 ELSE 0)]
=============================================================================
