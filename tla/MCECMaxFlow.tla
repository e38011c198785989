----------------------------- MODULE MCECMaxFlow ----------------------------
(***************************************************************************)
(* ECMaxFlow on all networks of two inner nodes with capacities up to two, *)
(* and on networks with parallel edges and a path that must be rerouted.   *)
(***************************************************************************)
EXTENDS ECMaxFlow

E(x, y, c, rc) == [x |-> x, y |-> y, c |-> c, rc |-> rc, v |-> -1]

(* As optimize_integer_constraints builds them: no capacity back to the      *)
(* source or from the sink, capacity both ways between the equations.        *)
Diamonds ==
  {[num |-> 4, edges |-> <<E(0, 1, a, 0), E(0, 2, b, 0), E(1, 2, c, d), E(1, 3, e, 0), E(2, 3, f, 0)>>] :
     a \in 0 .. 2, b \in 0 .. 2, c \in 0 .. 2, d \in 0 .. 2, e \in 0 .. 2, f \in 0 .. 2}

Parallel == [num |-> 4, edges |-> <<E(0, 1, 3, 0), E(1, 2, 1, 1), E(2, 1, 0, 2), E(1, 1, 1, 1), E(2, 3, 3, 0)>>]

(* The shortest path 0 1 4 5 must give way to 0 1 3 5 and 0 2 4 5.           *)
Reroute ==
  [num |-> 6, edges |-> <<E(0, 1, 1, 0), E(0, 2, 1, 0), E(1, 4, 1, 0), E(1, 3, 1, 0),
                          E(2, 4, 1, 0), E(4, 5, 1, 0), E(3, 5, 1, 0)>>]

MCNetworks == Diamonds \union {Parallel, Reroute}
=============================================================================
