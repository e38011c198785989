------------------------------ MODULE MaxFlow -------------------------------
(***************************************************************************)
(* What optimize_integer_constraints expects of a MaxFlowHelper, whichever *)
(* of its implementations is used: compute() returns the value of a        *)
(* feasible flow, and no flow is larger.  Which of the maximal flows it is *)
(* is left open.                                                           *)
(***************************************************************************)
EXTENDS FlowNetwork

CONSTANT Networks   \* the networks built with resize and addEdge

VARIABLES
  net,     \* the network
  flow,    \* the flow found, half-edge -> amount
  total,   \* what compute() returned
  solved   \* compute() has returned

vars == <<net, flow, total, solved>>

Init ==
  /\ net \in Networks
  /\ flow = ZeroFlow(net)
  /\ total = 0
  /\ solved = FALSE

compute ==
  /\ ~solved
  /\ solved' = TRUE
  /\ flow' \in [Half(net) -> Int]
  /\ Feasible(net, flow')
  /\ Maximal(net, flow')
  /\ total' = Outflow(net, flow', Source)
  /\ UNCHANGED net

Spec == Init /\ [][compute]_vars
=============================================================================
