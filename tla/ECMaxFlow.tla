----------------------------- MODULE ECMaxFlow ------------------------------
(***************************************************************************)
(* ECMaxFlowHelper: the maximal flow by breadth-first search and augmenting*)
(* by one unit at a time, used when the supply is below 20.                *)
(*                                                                         *)
(* One turn of compute() searches from the source over half-edges with     *)
(* capacity left, keeping in q where each node was found from, and stops   *)
(* at the sink; it then follows q back and moves one unit of flow.  The    *)
(* order of the half-edges in the list of a node is left open.             *)
(***************************************************************************)
EXTENDS FlowNetwork

CONSTANT Networks   \* the networks built with resize and addEdge

ASSUME NetworksAssumption ==
  \A net \in Networks :
    /\ net.num \in Nat /\ net.num > 1
    /\ net.edges \in Seq(Arcs(net))

VARIABLES
  net,          \* the network
  flow,         \* half-edge -> flow
  pc,           \* "search", "augment" or "done"
  q, q_front,   \* the queue: where the search found which node, and its front
  vhash,        \* the nodes found
  loc,          \* the position in q the augmentation is at
  total_flow

vars == <<net, flow, pc, q, q_front, vhash, loc, total_flow>>

NoHalf == <<0, 0>>
SearchInfo(id, prev, info) == [id |-> id, prev_id |-> prev, info |-> info]
Start == SearchInfo(Source, 0, NoHalf)

Init ==
  /\ net \in Networks
  /\ flow = ZeroFlow(net)
  /\ pc = "search"
  /\ q = <<Start>> /\ q_front = 1 /\ vhash = {Source}
  /\ loc = 0
  /\ total_flow = 0

(* Faulty variant: capacity is not compared with the flow already there.     *)
UsableIgnoringFlow(vert) ==
  {l \in Half(net) : From(net, l) = vert /\ To(net, l) \notin vhash /\ Capacity(net, l) > 0}

(* The half-edges the search would follow from a node.                       *)
Usable(vert) ==
  {l \in Half(net) : From(net, l) = vert /\ To(net, l) \notin vhash
                     /\ Capacity(net, l) > flow[l]}

(* One half-edge leads to a new node; finding the sink ends the search.      *)
Find ==
  /\ pc = "search" /\ q_front <= Len(q)
  /\ \E l \in Usable(q[q_front].id) :
       /\ q' = Append(q, SearchInfo(To(net, l), q_front, l))
       /\ vhash' = vhash \union {To(net, l)}
       /\ IF To(net, l) = Sink(net)
          THEN pc' = "augment" /\ loc' = Len(q')
          ELSE UNCHANGED <<pc, loc>>
  /\ UNCHANGED <<net, flow, q_front, total_flow>>

(* The front has no usable half-edge left.                                   *)
NextFront ==
  /\ pc = "search" /\ q_front <= Len(q)
  /\ Usable(q[q_front].id) = {}
  /\ q_front' = q_front + 1
  /\ UNCHANGED <<net, flow, pc, q, vhash, loc, total_flow>>

(* The queue is exhausted: there is no path to the sink any more.            *)
Return ==
  /\ pc = "search" /\ q_front > Len(q)
  /\ pc' = "done"
  /\ UNCHANGED <<net, flow, q, q_front, vhash, loc, total_flow>>

(* One step back along the path: a unit of flow moves over its half-edge.    *)
Augment ==
  /\ pc = "augment" /\ q[loc].prev_id # 0
  /\ LET l == q[loc].info IN
       flow' = [flow EXCEPT ![l] = @ + 1, ![Rev(l)] = @ - 1]
  /\ loc' = q[loc].prev_id
  /\ UNCHANGED <<net, pc, q, q_front, vhash, total_flow>>

(* Faulty variant: the search goes on with the queue of the last turn.       *)
KeepQueue ==
  /\ pc = "augment" /\ q[loc].prev_id = 0
  /\ total_flow' = total_flow + 1
  /\ pc' = "search" /\ loc' = 0
  /\ UNCHANGED <<net, flow, q, q_front, vhash>>

(* The path is augmented; the next turn searches anew.                       *)
Augmented ==
  /\ pc = "augment" /\ q[loc].prev_id = 0
  /\ total_flow' = total_flow + 1
  /\ pc' = "search" /\ loc' = 0
  /\ q' = <<Start>> /\ q_front' = 1 /\ vhash' = {Source}
  /\ UNCHANGED <<net, flow>>

Next == Find \/ NextFront \/ Return \/ Augment \/ Augmented

Spec == Init /\ [][Next]_vars /\ WF_vars(Next)

-----------------------------------------------------------------------------
Positions == 1 .. net.num

TypeOK ==
  /\ net \in Networks
  /\ flow \in [Half(net) -> Int]
  /\ pc \in {"search", "augment", "done"}
  /\ q \in Seq([id : Node(net), prev_id : 0 .. net.num, info : Half(net) \union {NoHalf}])
  /\ Len(q) \in Positions
  /\ q_front \in 1 .. net.num + 1
  /\ vhash \subseteq Node(net)
  /\ loc \in 0 .. net.num
  /\ total_flow \in Nat

(* At every moment, also half-way through an augmentation, the flow on a     *)
(* half-edge is the negative of that on its reverse, and within capacity.    *)
FlowIsSound == Antisymmetric(net, flow) /\ WithinCapacity(net, flow)

(* compute() returns only when the nodes it can still reach from the source  *)
(* are one side of a saturated cut: the flow is maximal, although no search  *)
(* ever undoes what an earlier one did except over reverse half-edges.       *)
ReturnsAtACut == pc = "done" => Saturates(net, flow, vhash)

(* ECMaxFlowHelper keeps the promise of MaxFlow; the flow counts as found    *)
(* when compute() returns.                                                   *)
Promised == INSTANCE MaxFlow WITH
  flow   <- IF pc = "done" THEN flow ELSE ZeroFlow(net),
  total  <- IF pc = "done" THEN total_flow ELSE 0,
  solved <- pc = "done"
ImplementsMaxFlow == Promised!Spec
=============================================================================
