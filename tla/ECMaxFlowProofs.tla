-------------------------- MODULE ECMaxFlowProofs ---------------------------
(***************************************************************************)
(* Proofs about ECMaxFlow, for every set of networks: type correctness,    *)
(* soundness of the flow at every moment, that compute() returns only at a *)
(* saturated cut, and that ECMaxFlow implements MaxFlow.                   *)
(***************************************************************************)
EXTENDS ECMaxFlow, FiniteSetTheorems, RecursionTheorems, TLAPS

Entry == [id : Node(net), prev_id : 0 .. net.num, info : Half(net) \union {NoHalf}]

(* Half-edges join nodes, come in pairs, and have a capacity.                *)
LEMMA HalfFacts ==
  ASSUME NEW n \in Networks
  PROVE  /\ n.num \in Nat /\ n.num > 1
         /\ \A l \in Half(n) :
              /\ Rev(l) \in Half(n) /\ Rev(l) # l /\ Rev(Rev(l)) = l
              /\ From(n, l) \in Node(n) /\ To(n, l) \in Node(n)
              /\ Capacity(n, l) \in Nat
         /\ NoHalf \notin Half(n)
         /\ Source \in Node(n) /\ Sink(n) \in Node(n) /\ Source # Sink(n)
         /\ IsFiniteSet(Node(n)) /\ Cardinality(Node(n)) = n.num
  <1>1. /\ n.num \in Nat /\ n.num > 1
        /\ n.edges \in Seq(Arcs(n))
    BY NetworksAssumption
  <1>2. ASSUME NEW l \in Half(n)
        PROVE  /\ Rev(l) \in Half(n) /\ Rev(l) # l /\ Rev(Rev(l)) = l
               /\ From(n, l) \in Node(n) /\ To(n, l) \in Node(n)
               /\ Capacity(n, l) \in Nat
    <2>1. l = <<l[1], l[2]>> /\ l[1] \in 1 .. Len(n.edges) /\ l[2] \in {-1, 1}
      BY <1>2 DEF Half
    <2>2. Rev(l) \in Half(n) /\ Rev(l) # l /\ Rev(Rev(l)) = l /\ Rev(l)[1] = l[1]
      BY <2>1 DEF Rev, Half
    <2>3. n.edges[l[1]] \in Arcs(n)
      BY <1>1, <2>1
    <2>4. /\ n.edges[l[1]].x \in Node(n) /\ n.edges[l[1]].y \in Node(n)
          /\ n.edges[l[1]].c \in Nat /\ n.edges[l[1]].rc \in Nat
      BY <2>3 DEF Arcs
    <2>5. From(n, l) \in Node(n) /\ Capacity(n, l) \in Nat
      BY <2>4 DEF From, Capacity
    <2>6. To(n, l) \in Node(n)
      BY <2>2, <2>4 DEF From, To
    <2>. QED  BY <2>2, <2>5, <2>6
  <1>3. NoHalf \notin Half(n)
    BY DEF NoHalf, Half
  <1>4. Source \in Node(n) /\ Sink(n) \in Node(n) /\ Source # Sink(n)
    BY <1>1 DEF Source, Sink, Node
  <1>5. IsFiniteSet(Node(n)) /\ Cardinality(Node(n)) = n.num
    <2>1. n.num - 1 \in Int /\ ~(0 > n.num - 1) /\ (n.num - 1) - 0 + 1 = n.num
      BY <1>1
    <2>2. /\ IsFiniteSet(0 .. n.num - 1)
          /\ Cardinality(0 .. n.num - 1) =
               IF 0 > n.num - 1 THEN 0 ELSE (n.num - 1) - 0 + 1
      <3>1. \A k \in Int : /\ IsFiniteSet(0 .. k)
                           /\ Cardinality(0 .. k) = IF 0 > k THEN 0 ELSE k - 0 + 1
        BY FS_Interval
      <3>. QED  BY ONLY <2>1, <3>1
    <2>. QED  BY <2>1, <2>2 DEF Node
  <1>. QED  BY <1>1, <1>2, <1>3, <1>4, <1>5

LEMMA NetworkFacts ==
  ASSUME net \in Networks
  PROVE  /\ net.num \in Nat /\ net.num > 1
         /\ \A l \in Half(net) :
              /\ Rev(l) \in Half(net) /\ Rev(l) # l /\ Rev(Rev(l)) = l
              /\ From(net, l) \in Node(net) /\ To(net, l) \in Node(net)
              /\ Capacity(net, l) \in Nat
         /\ NoHalf \notin Half(net)
         /\ Source \in Node(net) /\ Sink(net) \in Node(net) /\ Source # Sink(net)
         /\ IsFiniteSet(Node(net)) /\ Cardinality(Node(net)) = net.num
  BY HalfFacts

-----------------------------------------------------------------------------
(***************************************************************************)
(* The queue is a tree of distinct nodes: an entry was found over a half-  *)
(* edge that ends in it, from an entry before it.  The half-edges of the   *)
(* path that are still to be augmented have capacity left.  What is before *)
(* the front of the queue leads to no node that was not found.             *)
(***************************************************************************)
QueueInv ==
  /\ Len(q) = Cardinality(vhash)
  /\ vhash = {q[k].id : k \in 1 .. Len(q)}
  /\ \A k \in 1 .. Len(q) :
       /\ q[k].prev_id = 0 <=> k = 1
       /\ k = 1 => q[k].id = Source
       /\ k # 1 => /\ q[k].prev_id \in 1 .. k - 1
                   /\ q[k].info \in Half(net) /\ To(net, q[k].info) = q[k].id
       /\ \A j \in 1 .. Len(q) : q[j].id = q[k].id => j = k

PathInv ==
  /\ pc = "augment" => loc \in 1 .. Len(q)
  /\ pc \in {"search", "augment"} =>
       \A k \in 2 .. (IF pc = "augment" THEN loc ELSE Len(q)) :
         flow[q[k].info] < Capacity(net, q[k].info)

FrontInv ==
  /\ q_front <= Len(q) + 1
  /\ pc # "augment" =>
       /\ Sink(net) \notin vhash
       /\ \A k \in 1 .. q_front - 1 : Usable(q[k].id) = {}
  /\ pc = "done" => q_front = Len(q) + 1

ECInv == TypeOK /\ FlowIsSound /\ QueueInv /\ PathInv /\ FrontInv

(* A queue that holds the source alone, as every turn starts with.           *)
LEMMA FreshQueue ==
  ASSUME net \in Networks
  PROVE  /\ <<Start>> \in Seq(Entry) /\ Len(<<Start>>) = 1 /\ <<Start>>[1] = Start
         /\ 1 = Cardinality({Source})
         /\ {Source} = {<<Start>>[k].id : k \in 1 .. 1}
         /\ Sink(net) \notin {Source}
         /\ Start.id = Source /\ Start.prev_id = 0
  BY NetworkFacts, FS_Singleton DEF Start, SearchInfo, Entry

LEMMA InitEC == Init => ECInv
  <1> SUFFICES ASSUME Init PROVE ECInv
    OBVIOUS
  <1>1. net \in Networks /\ q = <<Start>> /\ vhash = {Source} /\ q_front = 1
        /\ pc = "search" /\ loc = 0 /\ flow = ZeroFlow(net) /\ total_flow = 0
    BY DEF Init
  <1>2. TypeOK
    BY <1>1, FreshQueue, NetworkFacts DEF TypeOK, ZeroFlow, Entry, Positions
  <1>3. FlowIsSound
    <2>1. \A l \in Half(net) : flow[l] = 0
      BY <1>1 DEF ZeroFlow
    <2>. QED  BY <1>1, <2>1, NetworkFacts DEF FlowIsSound, Antisymmetric, WithinCapacity
  <1>4. QueueInv
    BY <1>1, FreshQueue DEF QueueInv
  <1>5. PathInv /\ FrontInv
    BY <1>1, FreshQueue DEF PathInv, FrontInv
  <1>. QED  BY <1>2, <1>3, <1>4, <1>5 DEF ECInv

-----------------------------------------------------------------------------
LEMMA TypeFacts ==
  ASSUME TypeOK
  PROVE  /\ net \in Networks /\ net.num \in Nat /\ q \in Seq(Entry)
         /\ Len(q) \in Nat /\ Len(q) >= 1 /\ Len(q) <= net.num
         /\ \A k \in 1 .. Len(q) : q[k] \in Entry /\ q[k].id \in Node(net)
         /\ q_front \in Nat /\ q_front >= 1
         /\ vhash \subseteq Node(net) /\ IsFiniteSet(vhash)
         /\ flow \in [Half(net) -> Int]
  <1>1. net \in Networks /\ net.num \in Nat /\ q \in Seq(Entry) /\ vhash \subseteq Node(net)
    BY NetworkFacts DEF TypeOK, Entry
  <1>2. Len(q) \in Nat /\ Len(q) >= 1 /\ Len(q) <= net.num /\ q_front \in Nat /\ q_front >= 1
    BY <1>1 DEF TypeOK, Positions
  <1>3. \A k \in 1 .. Len(q) : q[k] \in Entry
    BY <1>1
  <1>4. \A k \in 1 .. Len(q) : q[k].id \in Node(net)
    BY <1>3 DEF Entry
  <1>5. IsFiniteSet(vhash)
    BY <1>1, NetworkFacts, FS_Subset
  <1>. QED  BY <1>1, <1>2, <1>3, <1>4, <1>5 DEF TypeOK

LEMMA FindKeeps == ECInv /\ Find => ECInv'
  <1> SUFFICES ASSUME ECInv, Find PROVE ECInv'
    OBVIOUS
  <1>1. /\ TypeOK /\ FlowIsSound /\ QueueInv /\ PathInv /\ FrontInv
        /\ pc = "search" /\ q_front \in 1 .. Len(q)
        /\ net' = net /\ flow' = flow /\ q_front' = q_front /\ total_flow' = total_flow
    BY TypeFacts DEF ECInv, Find
  <1>2. PICK l \in Usable(q[q_front].id) :
          /\ q' = Append(q, SearchInfo(To(net, l), q_front, l))
          /\ vhash' = vhash \union {To(net, l)}
          /\ IF To(net, l) = Sink(net)
             THEN pc' = "augment" /\ loc' = Len(q')
             ELSE UNCHANGED <<pc, loc>>
    BY DEF Find
  <1> DEFINE x == To(net, l)
             e == SearchInfo(x, q_front, l)
  <1>3. /\ l \in Half(net) /\ x \in Node(net) /\ x \notin vhash
        /\ flow[l] < Capacity(net, l) /\ x # Source
        /\ e.id = x /\ e.prev_id = q_front /\ e.info = l
    <2>1. l \in Half(net) /\ x \notin vhash /\ Capacity(net, l) > flow[l]
      BY DEF Usable
    <2>2. x \in Node(net) /\ Capacity(net, l) \in Nat /\ flow[l] \in Int
      BY <1>1, <2>1, TypeFacts, NetworkFacts
    <2>3. Source \in vhash
      <3>1. 1 \in 1 .. Len(q)
        BY <1>1, TypeFacts
      <3>2. /\ vhash = {q[k].id : k \in 1 .. Len(q)}
            /\ \A k \in 1 .. Len(q) : k = 1 => q[k].id = Source
        BY <1>1 DEF QueueInv
      <3>. QED  BY <3>1, <3>2
    <2>. QED  BY <2>1, <2>2, <2>3 DEF SearchInfo
  <1>4. /\ q \in Seq(Entry) /\ Len(q) \in Nat /\ Len(q) >= 1 /\ Len(q) <= net.num
        /\ net.num \in Nat
        /\ vhash \subseteq Node(net) /\ IsFiniteSet(vhash) /\ net \in Networks
        /\ flow \in [Half(net) -> Int]
    BY <1>1, TypeFacts
  <1>5. e \in Entry
    BY <1>1, <1>3, <1>4 DEF SearchInfo, Entry
  <1>6. /\ q' \in Seq(Entry) /\ Len(q') = Len(q) + 1 /\ q'[Len(q) + 1] = e
        /\ \A k \in 1 .. Len(q) : q'[k] = q[k]
    BY <1>2, <1>4, <1>5
  <1>7. Len(q') = Cardinality(vhash') /\ vhash' \subseteq Node(net) /\ Len(q') <= net.num
    <2>1. Cardinality(vhash') = Cardinality(vhash) + 1
      BY <1>2, <1>3, <1>4, FS_AddElement
    <2>2. vhash' \subseteq Node(net)
      BY <1>2, <1>3, <1>4
    <2>3. Cardinality(vhash') <= net.num
      BY <1>4, <2>2, NetworkFacts, FS_Subset
    <2>4. Len(q) = Cardinality(vhash)
      BY <1>1 DEF QueueInv
    <2>. HIDE DEF x, e
    <2>. QED  BY <1>6, <2>1, <2>2, <2>3, <2>4
  <1>8. /\ vhash' = vhash \union {x}
        /\ Len(q') = Len(q) + 1
        /\ IF x = Sink(net) THEN pc' = "augment" /\ loc' = Len(q) + 1
                            ELSE pc' = "search" /\ loc' = loc
    BY <1>1, <1>2, <1>6
  <1> HIDE DEF x, e
  <1>9. TypeOK'
    <2>1. pc' \in {"search", "augment", "done"} /\ loc' \in 0 .. net.num
      BY <1>1, <1>4, <1>7, <1>8 DEF TypeOK
    <2>2. q' \in Seq([id : Node(net), prev_id : 0 .. net.num, info : Half(net) \union {NoHalf}])
      BY <1>6 DEF Entry
    <2>3. Len(q') \in Positions
      BY <1>4, <1>7, <1>8 DEF Positions
    <2>. QED  BY <1>1, <1>7, <2>1, <2>2, <2>3 DEF TypeOK, Positions
  <1>10. FlowIsSound'
    BY <1>1 DEF FlowIsSound
  <1>11. QueueInv'
    <2>1. /\ vhash = {q[k].id : k \in 1 .. Len(q)}
          /\ \A k \in 1 .. Len(q) :
               /\ q[k].prev_id = 0 <=> k = 1
               /\ k = 1 => q[k].id = Source
               /\ k # 1 => /\ q[k].prev_id \in 1 .. k - 1
                           /\ q[k].info \in Half(net) /\ To(net, q[k].info) = q[k].id
               /\ \A j \in 1 .. Len(q) : q[j].id = q[k].id => j = k
      BY <1>1 DEF QueueInv
    <2>2. \A k \in 1 .. Len(q) : q[k].id # x
      BY <1>3, <2>1
    <2>3. vhash' = {q'[k].id : k \in 1 .. Len(q')}
      <3>1. q'[Len(q')].id = x /\ \A k \in 1 .. Len(q) : q'[k].id = q[k].id
        BY <1>3, <1>6
      <3>2. \A k \in 1 .. Len(q') : k \in 1 .. Len(q) \/ k = Len(q')
        BY <1>4, <1>8
      <3>3. Len(q') \in 1 .. Len(q') /\ 1 .. Len(q) \subseteq 1 .. Len(q')
        BY <1>4, <1>8
      <3>. QED  BY <1>8, <2>1, <3>1, <3>2, <3>3
    <2>4. ASSUME NEW k \in 1 .. Len(q')
          PROVE  /\ q'[k].prev_id = 0 <=> k = 1
                 /\ k = 1 => q'[k].id = Source
                 /\ k # 1 => /\ q'[k].prev_id \in 1 .. k - 1
                             /\ q'[k].info \in Half(net) /\ To(net, q'[k].info) = q'[k].id
                 /\ \A j \in 1 .. Len(q') : q'[j].id = q'[k].id => j = k
      <3>1. CASE k = Len(q) + 1
        <4>1. q'[k] = e /\ k # 1 /\ q'[k].prev_id \in 1 .. k - 1
          BY <1>1, <1>3, <1>4, <1>6, <3>1
        <4>2. ASSUME NEW j \in 1 .. Len(q'), q'[j].id = q'[k].id
              PROVE  j = k
          <5>1. j \in 1 .. Len(q) \/ j = k
            BY <1>4, <1>8, <3>1
          <5>. QED  BY <1>3, <1>6, <2>2, <4>1, <4>2, <5>1
        <4>. QED  BY <1>1, <1>3, <4>1, <4>2 DEF x
      <3>2. CASE k \in 1 .. Len(q)
        <4>1. q'[k] = q[k]
          BY <1>6, <3>2
        <4>2. ASSUME NEW j \in 1 .. Len(q'), q'[j].id = q'[k].id
              PROVE  j = k
          <5>1. j \in 1 .. Len(q) \/ j = Len(q) + 1
            BY <1>4, <1>8
          <5>. QED  BY <1>3, <1>6, <2>1, <2>2, <3>2, <4>1, <4>2, <5>1
        <4>. QED  BY <2>1, <3>2, <4>1, <4>2
      <3>. QED  BY <1>4, <1>8, <3>1, <3>2
    <2>. QED  BY <1>1, <1>7, <2>3, <2>4 DEF QueueInv
  <1>12. PathInv'
    <2>1. \A k \in 2 .. Len(q) : flow[q[k].info] < Capacity(net, q[k].info)
      BY <1>1 DEF PathInv
    <2>2. ASSUME NEW k \in 2 .. Len(q) + 1
          PROVE  flow[q'[k].info] < Capacity(net, q'[k].info)
      <3>1. (k \in 2 .. Len(q) /\ q'[k] = q[k]) \/ q'[k] = e
        BY <1>4, <1>6
      <3>. QED  BY <1>3, <2>1, <3>1
    <2>3. 2 .. (IF pc' = "augment" THEN loc' ELSE Len(q')) = 2 .. Len(q) + 1
      BY <1>8
    <2>4. pc' = "augment" => loc' \in 1 .. Len(q')
      BY <1>4, <1>8
    <2>. QED  BY <1>1, <2>2, <2>3, <2>4 DEF PathInv
  <1>13. FrontInv'
    <2>1. /\ \A k \in 1 .. q_front - 1 : Usable(q[k].id) = {}
          /\ \A k \in 1 .. q_front - 1 : k \in 1 .. Len(q)
      <3>1. \A k \in 1 .. q_front - 1 : Usable(q[k].id) = {}
        BY <1>1 DEF FrontInv
      <3>2. q_front \in Int /\ Len(q) \in Int /\ q_front <= Len(q)
        BY <1>1, <1>4
      <3>3. \A k \in 1 .. q_front - 1 : k \in 1 .. Len(q)
        BY <3>2
      <3>. QED  BY <3>1, <3>3
    <2>2. ASSUME NEW k \in 1 .. q_front - 1,
                 NEW m \in Usable(q[k].id)'
          PROVE  FALSE
      <3>1. q'[k].id = q[k].id
        BY <1>6, <2>1
      <3>2. Usable(q[k].id) = {}
        BY <2>1
      <3>3. m \in Usable(q[k].id)
        BY <1>1, <1>2, <3>1 DEF Usable
      <3>. QED  BY <3>2, <3>3
    <2>3. pc' # "augment" => Sink(net') \notin vhash'
      BY <1>1, <1>8 DEF FrontInv
    <2>4. q_front' <= Len(q') + 1 /\ pc' # "done"
      BY <1>1, <1>4, <1>8
    <2>5. \A k \in 1 .. q_front' - 1 : Usable(q[k].id)' = {}
      BY <1>1, <2>2
    <2>. QED  BY <2>3, <2>4, <2>5 DEF FrontInv
  <1>. QED  BY <1>9, <1>10, <1>11, <1>12, <1>13 DEF ECInv

LEMMA QueueKept ==
  ASSUME QueueInv, UNCHANGED <<net, q, vhash>>
  PROVE  QueueInv'
  <1>1. net' = net /\ q' = q /\ vhash' = vhash
    OBVIOUS
  <1>2. Len(q') = Cardinality(vhash')
    BY <1>1 DEF QueueInv
  <1>3. {q'[k].id : k \in 1 .. Len(q')} = {q[k].id : k \in 1 .. Len(q)}
    BY <1>1, Zenon
  <1>4. vhash' = {q'[k].id : k \in 1 .. Len(q')}
    BY <1>1, <1>3 DEF QueueInv
  <1>. QED  BY <1>1, <1>2, <1>4 DEF QueueInv

LEMMA NextFrontKeeps == ECInv /\ NextFront => ECInv'
  <1> SUFFICES ASSUME ECInv, NextFront PROVE ECInv'
    OBVIOUS
  <1>1. /\ TypeOK /\ FlowIsSound /\ QueueInv /\ PathInv /\ FrontInv
        /\ pc = "search" /\ q_front <= Len(q) /\ Usable(q[q_front].id) = {}
        /\ net' = net /\ flow' = flow /\ pc' = pc /\ q' = q /\ vhash' = vhash
        /\ loc' = loc /\ total_flow' = total_flow /\ q_front' = q_front + 1
    BY DEF ECInv, NextFront
  <1>2. /\ q_front \in Nat /\ q_front >= 1 /\ Len(q) \in Nat /\ Len(q) <= net.num
        /\ net.num \in Nat
    BY <1>1, TypeFacts
  <1>3. TypeOK'
    <2>1. q_front + 1 \in 1 .. net.num + 1
      BY <1>1, <1>2
    <2>. QED  BY <1>1, <2>1 DEF TypeOK, Positions
  <1>4. FlowIsSound' /\ QueueInv' /\ PathInv'
    BY <1>1, QueueKept DEF FlowIsSound, PathInv
  <1>5. FrontInv'
    <2>1. \A k \in 1 .. q_front : Usable(q[k].id) = {}
      <3>1. \A k \in 1 .. q_front : k \in 1 .. q_front - 1 \/ k = q_front
        BY <1>2
      <3>. QED  BY <1>1, <3>1 DEF FrontInv
    <2>2. \A k \in 1 .. q_front' - 1 : Usable(q[k].id)' = {}
      <3>1. q_front' - 1 = q_front
        BY <1>1, <1>2
      <3>. QED  BY <1>1, <2>1, <3>1 DEF Usable
    <2>3. q_front' <= Len(q') + 1
      BY <1>1, <1>2
    <2>. QED  BY <1>1, <2>2, <2>3 DEF FrontInv
  <1>. QED  BY <1>3, <1>4, <1>5 DEF ECInv

LEMMA ReturnKeeps == ECInv /\ Return => ECInv'
  <1> SUFFICES ASSUME ECInv, Return PROVE ECInv'
    OBVIOUS
  <1>1. /\ TypeOK /\ FlowIsSound /\ QueueInv /\ PathInv /\ FrontInv
        /\ pc = "search" /\ q_front > Len(q) /\ pc' = "done"
        /\ net' = net /\ flow' = flow /\ q' = q /\ vhash' = vhash
        /\ loc' = loc /\ total_flow' = total_flow /\ q_front' = q_front
    BY DEF ECInv, Return
  <1>2. TypeOK'
    BY <1>1 DEF TypeOK, Positions
  <1>3. FlowIsSound' /\ QueueInv' /\ PathInv'
    BY <1>1, QueueKept DEF FlowIsSound, PathInv
  <1>4. FrontInv'
    <2>1. /\ \A k \in 1 .. q_front - 1 : Usable(q[k].id) = {}
          /\ Sink(net) \notin vhash
          /\ q_front <= Len(q) + 1
      BY <1>1 DEF FrontInv
    <2>2. q_front \in Nat /\ Len(q) \in Nat
      BY <1>1, TypeFacts
    <2>3. q_front = Len(q) + 1
      BY <1>1, <2>1, <2>2
    <2>4. \A k \in 1 .. q_front' - 1 : Usable(q[k].id)' = {}
      BY <1>1, <2>1 DEF Usable
    <2>. QED  BY <1>1, <2>1, <2>3, <2>4 DEF FrontInv
  <1>. QED  BY <1>2, <1>3, <1>4 DEF ECInv

(* The half-edge augmented has capacity left, and is no other of the path.   *)
LEMMA AugmentKeeps == ECInv /\ Augment => ECInv'
  <1> SUFFICES ASSUME ECInv, Augment PROVE ECInv'
    OBVIOUS
  <1> DEFINE l == q[loc].info
  <1>1. /\ TypeOK /\ FlowIsSound /\ QueueInv /\ PathInv /\ FrontInv
        /\ pc = "augment" /\ q[loc].prev_id # 0
        /\ flow' = [flow EXCEPT ![l] = @ + 1, ![Rev(l)] = @ - 1]
        /\ loc' = q[loc].prev_id
        /\ net' = net /\ pc' = pc /\ q' = q /\ q_front' = q_front
        /\ vhash' = vhash /\ total_flow' = total_flow
    BY DEF ECInv, Augment
  <1>2. /\ net \in Networks /\ flow \in [Half(net) -> Int]
        /\ Len(q) \in Nat /\ Len(q) <= net.num /\ net.num \in Nat
    BY <1>1, TypeFacts
  <1>3. loc \in 1 .. Len(q) /\ loc \in Nat
    BY <1>1, <1>2 DEF PathInv
  <1>4. \A k \in 1 .. Len(q) :
          /\ q[k].prev_id = 0 <=> k = 1
          /\ k # 1 => /\ q[k].prev_id \in 1 .. k - 1
                      /\ q[k].info \in Half(net) /\ To(net, q[k].info) = q[k].id
          /\ \A j \in 1 .. Len(q) : q[j].id = q[k].id => j = k
    BY <1>1 DEF QueueInv
  <1>5. /\ loc # 1 /\ loc' \in 1 .. loc - 1
        /\ l \in Half(net) /\ To(net, l) = q[loc].id
    BY <1>1, <1>3, <1>4
  <1>6. \A k \in 2 .. loc : flow[q[k].info] < Capacity(net, q[k].info)
    BY <1>1 DEF PathInv
  <1>7. flow[l] < Capacity(net, l)
    BY <1>3, <1>5, <1>6
  <1>8. /\ Rev(l) \in Half(net) /\ Rev(l) # l /\ Rev(Rev(l)) = l
        /\ \A m \in Half(net) : /\ Rev(m) \in Half(net) /\ Rev(Rev(m)) = m
                                /\ Capacity(net, m) \in Nat /\ flow[m] \in Int
    BY <1>2, <1>5, NetworkFacts
  <1> HIDE DEF l
  <1>9. /\ flow' \in [Half(net) -> Int]
        /\ flow'[l] = flow[l] + 1 /\ flow'[Rev(l)] = flow[Rev(l)] - 1
        /\ \A m \in Half(net) : m # l /\ m # Rev(l) => flow'[m] = flow[m]
    BY <1>1, <1>2, <1>5, <1>8
  <1>10. TypeOK'
    <2>1. loc' \in 0 .. net.num
      BY <1>2, <1>3, <1>5
    <2>. QED  BY <1>1, <1>9, <2>1 DEF TypeOK, Positions
  <1>11. FlowIsSound'
    <2>1. ASSUME NEW m \in Half(net)
          PROVE  flow'[m] = -flow'[Rev(m)] /\ flow'[m] <= Capacity(net, m)
      <3>1. flow[m] = -flow[Rev(m)] /\ flow[m] <= Capacity(net, m)
        BY <1>1 DEF FlowIsSound, Antisymmetric, WithinCapacity
      <3>2. flow[l] = -flow[Rev(l)] /\ flow[Rev(l)] <= Capacity(net, Rev(l))
        BY <1>1, <1>5, <1>8 DEF FlowIsSound, Antisymmetric, WithinCapacity
      <3>3. CASE m = l
        BY <1>5, <1>7, <1>8, <1>9, <3>2, <3>3
      <3>4. CASE m = Rev(l)
        BY <1>5, <1>8, <1>9, <3>2, <3>4
      <3>5. CASE m # l /\ m # Rev(l)
        <4>1. Rev(m) # l /\ Rev(m) # Rev(l)
          BY <1>5, <1>8, <3>5
        <4>. QED  BY <1>8, <1>9, <3>1, <3>5, <4>1
      <3>. QED  BY <3>3, <3>4, <3>5
    <2>. QED  BY <1>1, <2>1 DEF FlowIsSound, Antisymmetric, WithinCapacity
  <1>12. QueueInv'
    BY <1>1, QueueKept
  <1>13. PathInv'
    <2>1. ASSUME NEW k \in 2 .. loc'
          PROVE  flow'[q[k].info] < Capacity(net, q[k].info)
      <3>1. k \in 1 .. Len(q) /\ k # 1 /\ k # loc /\ k \in 2 .. loc
        BY <1>2, <1>3, <1>5
      <3>2. q[k].info \in Half(net) /\ flow[q[k].info] < Capacity(net, q[k].info)
        BY <1>4, <1>6, <3>1
      <3>3. q[k].info # l
        BY <1>3, <1>4, <1>5, <3>1
      <3>4. flow'[q[k].info] <= flow[q[k].info]
        BY <1>8, <1>9, <3>2, <3>3
      <3>5. flow'[q[k].info] \in Int /\ flow[q[k].info] \in Int
            /\ Capacity(net, q[k].info) \in Int
        BY <1>8, <1>9, <3>2
      <3>. QED  BY <3>2, <3>4, <3>5
    <2>2. loc' \in 1 .. Len(q)
      BY <1>2, <1>3, <1>5
    <2>. QED  BY <1>1, <2>1, <2>2 DEF PathInv
  <1>14. FrontInv'
    BY <1>1 DEF FrontInv
  <1>. QED  BY <1>10, <1>11, <1>12, <1>13, <1>14 DEF ECInv

LEMMA AugmentedKeeps == ECInv /\ Augmented => ECInv'
  <1> SUFFICES ASSUME ECInv, Augmented PROVE ECInv'
    OBVIOUS
  <1>1. /\ TypeOK /\ FlowIsSound /\ total_flow' = total_flow + 1
        /\ pc' = "search" /\ loc' = 0 /\ q' = <<Start>> /\ q_front' = 1
        /\ vhash' = {Source} /\ net' = net /\ flow' = flow
    BY DEF ECInv, Augmented
  <1>2. net \in Networks /\ net.num \in Nat /\ net.num > 1 /\ Source \in Node(net)
    BY <1>1, TypeFacts, NetworkFacts
  <1>3. TypeOK'
    <2>1. q' \in Seq([id : Node(net), prev_id : 0 .. net.num, info : Half(net) \union {NoHalf}])
      BY <1>1, <1>2, FreshQueue DEF Entry
    <2>2. Len(q') = 1 /\ 1 \in Positions /\ 1 \in 1 .. net.num + 1
      BY <1>1, <1>2, FreshQueue DEF Positions
    <2>. QED  BY <1>1, <1>2, <2>1, <2>2 DEF TypeOK, Positions
  <1>4. FlowIsSound'
    BY <1>1 DEF FlowIsSound
  <1>5. QueueInv' /\ PathInv' /\ FrontInv'
    BY <1>1, <1>2, FreshQueue DEF QueueInv, PathInv, FrontInv
  <1>. QED  BY <1>3, <1>4, <1>5 DEF ECInv

LEMMA StepEC == ECInv /\ [Next]_vars => ECInv'
  <1> SUFFICES ASSUME ECInv, [Next]_vars PROVE ECInv'
    OBVIOUS
  <1>1. CASE UNCHANGED vars
    <2>1. TypeOK'
      BY <1>1 DEF ECInv, TypeOK, Positions, vars
    <2>2. FlowIsSound' /\ QueueInv' /\ PathInv'
      BY <1>1, QueueKept DEF ECInv, FlowIsSound, PathInv, vars
    <2>3. FrontInv'
      BY <1>1 DEF ECInv, FrontInv, Usable, vars
    <2>. QED  BY <2>1, <2>2, <2>3 DEF ECInv
  <1>. QED  BY <1>1, FindKeeps, NextFrontKeeps, ReturnKeeps, AugmentKeeps, AugmentedKeeps
            DEF Next

LEMMA ECInvariant == Spec => []ECInv
  BY InitEC, StepEC, PTL DEF Spec

-----------------------------------------------------------------------------
(* The variables of ECMaxFlowHelper::compute() stay in their types.          *)
THEOREM TypeCorrect == Spec => []TypeOK
  <1>1. ECInv => TypeOK
    BY DEF ECInv
  <1>. QED  BY <1>1, ECInvariant, PTL

(* addEdge and the augmentation of compute() keep the flow antisymmetric and *)
(* within the capacities at every moment, in every network.                  *)
THEOREM FlowStaysSound == Spec => []FlowIsSound
  <1>1. ECInv => FlowIsSound
    BY DEF ECInv
  <1>. QED  BY <1>1, ECInvariant, PTL

(* What the search found when it ends is the source's side of a saturated    *)
(* cut.                                                                      *)
LEMMA DoneSaturates ==
  ASSUME ECInv, pc = "done"
  PROVE  Saturates(net, flow, vhash)
  <1>1. /\ net \in Networks /\ Len(q) \in Nat /\ Len(q) >= 1
        /\ flow \in [Half(net) -> Int]
    BY TypeFacts DEF ECInv
  <1>2. /\ vhash = {q[k].id : k \in 1 .. Len(q)}
        /\ \A k \in 1 .. Len(q) : k = 1 => q[k].id = Source
    BY DEF ECInv, QueueInv
  <1>3. Source \in vhash
    <2>1. 1 \in 1 .. Len(q)
      BY <1>1
    <2>. QED  BY <1>2, <2>1
  <1>4. /\ Sink(net) \notin vhash /\ q_front = Len(q) + 1
        /\ \A k \in 1 .. q_front - 1 : Usable(q[k].id) = {}
    BY DEF ECInv, FrontInv
  <1>5. \A v \in vhash : Usable(v) = {}
    <2>1. q_front - 1 = Len(q)
      BY <1>1, <1>4
    <2>. QED  BY <1>2, <1>4, <2>1
  <1>6. ASSUME NEW l \in Half(net), From(net, l) \in vhash, To(net, l) \notin vhash
        PROVE  flow[l] = Capacity(net, l)
    <2>1. ~(Capacity(net, l) > flow[l])
      BY <1>5, <1>6 DEF Usable
    <2>2. flow[l] <= Capacity(net, l)
      BY DEF ECInv, FlowIsSound, WithinCapacity
    <2>3. flow[l] \in Int /\ Capacity(net, l) \in Int
      BY <1>1, NetworkFacts
    <2>. QED  BY <2>1, <2>2, <2>3
  <1>. QED  BY <1>3, <1>4, <1>6 DEF Saturates

(* compute() returns only with a saturated cut: when its breadth-first search*)
(* has gone through the queue, the nodes found are the source's side of it.  *)
THEOREM ReturnsOnlyAtACut == Spec => []ReturnsAtACut
  <1>1. ECInv => ReturnsAtACut
    BY DoneSaturates DEF ReturnsAtACut
  <1>. QED  BY <1>1, ECInvariant, PTL

-----------------------------------------------------------------------------
(***************************************************************************)
(* Conservation.  While a path is augmented, the unit of flow is already on*)
(* its way from the node the augmentation is at to the sink: that node     *)
(* gives one more than it takes, and every other inner node as much.       *)
(***************************************************************************)
Leaves(n, v) == {l \in Half(n) : From(n, l) = v}

Found == \A k \in 2 .. Len(q) : From(net, q[k].info) = q[q[k].prev_id].id

Balanced ==
  \A v \in Node(net) \ {Sink(net)} :
    Outflow(net, flow, v) = (IF v = Source THEN total_flow ELSE 0)
                            + (IF pc = "augment" /\ v = q[loc].id THEN 1 ELSE 0)

FlowInv == ECInv /\ Found /\ Balanced

LEMMA OutflowSums ==
  ASSUME NEW n \in Networks, NEW f \in [Half(n) -> Int], NEW v
  PROVE  /\ IsFiniteSet(Half(n))
         /\ Leaves(n, v) \in SUBSET Half(n) /\ IsFiniteSet(Leaves(n, v))
         /\ Outflow(n, f, v) = SumOver(f, Leaves(n, v))
         /\ Outflow(n, f, v) \in Int
  <1>1. IsFiniteSet(Half(n))
    <2>1. Len(n.edges) \in Nat
      BY NetworksAssumption
    <2>2. IsFiniteSet(1 .. Len(n.edges))
      BY <2>1, FS_Interval
    <2>3. IsFiniteSet({-1, 1})
      <3>1. {-1, 1} = {-1} \union {1}
        OBVIOUS
      <3>2. IsFiniteSet({-1} \union {1})
        BY FS_Singleton, FS_AddElement
      <3>. QED  BY <3>1, <3>2
    <2>. QED  BY <2>2, <2>3, FS_Product DEF Half
  <1>2. Leaves(n, v) \in SUBSET Half(n) /\ IsFiniteSet(Leaves(n, v))
    BY <1>1, FS_Subset DEF Leaves
  <1>3. Outflow(n, f, v) = SumOver(f, Leaves(n, v))
    BY DEF Outflow, SumOver, Leaves
  <1>. QED  BY <1>1, <1>2, <1>3, SumOverOne

LEMMA NoOutflow ==
  ASSUME NEW n \in Networks, NEW v
  PROVE  Outflow(n, ZeroFlow(n), v) = 0
  <1> DEFINE f == ZeroFlow(n)
             S == Leaves(n, v)
  <1>1. f \in [Half(n) -> Int] /\ \A l \in Half(n) : f[l] = 0
    BY DEF ZeroFlow
  <1>2. S \in SUBSET Half(n) /\ IsFiniteSet(S) /\ Outflow(n, f, v) = SumOver(f, S)
    BY <1>1, OutflowSums
  <1> HIDE DEF f, S
  <1> DEFINE T == {s \in SUBSET S : SumOver(f, s) # 0}
  <1>3. T = {}
    <2> SUFFICES ASSUME T # {} PROVE FALSE
      OBVIOUS
    <2>1. PICK s \in T : \A t \in T : ~(t \subseteq s /\ t # s)
      <3>1. T \in SUBSET FiniteSubsetsOf(S)
        BY <1>2, FS_Subset DEF FiniteSubsetsOf
      <3> HIDE DEF T
      <3>. QED  BY <3>1, MinimalFiniteSet
    <2>2. IsFiniteSet(s) /\ s \in SUBSET Half(n) /\ s \in SUBSET S
      BY <1>2, FS_Subset
    <2>3. PICK x : x \in s
      BY <1>1, <2>2, SumOverOne
    <2>4. SumOver(f, s) = f[x] + SumOver(f, s \ {x})
      BY <1>1, <2>2, <2>3, SumOverOne
    <2>5. SumOver(f, s \ {x}) = 0 /\ f[x] = 0
      BY <1>1, <2>1, <2>2, <2>3
    <2>. QED  BY <2>4, <2>5
  <1>4. SumOver(f, S) = 0
    BY <1>3
  <1>. QED  BY <1>2, <1>4 DEF f

(* A unit of flow over a half-edge leaves its one end and reaches the other. *)
LEMMA UnitMoves ==
  ASSUME NEW n \in Networks, NEW f \in [Half(n) -> Int], NEW l \in Half(n), NEW v,
         Rev(l) \in Half(n), Rev(l) # l,
         NEW h \in [Half(n) -> Int], h[l] = f[l] + 1, h[Rev(l)] = f[Rev(l)] - 1,
         \A m \in Half(n) : m # l /\ m # Rev(l) => h[m] = f[m]
  PROVE  Outflow(n, h, v) = Outflow(n, f, v) + (IF v = From(n, l) THEN 1 ELSE 0)
                                             + (IF v = To(n, l) THEN -1 ELSE 0)
  <1> DEFINE g == [f EXCEPT ![l] = @ + 1]
             S == Leaves(n, v)
  <1>1. /\ g \in [Half(n) -> Int] /\ g[l] = f[l] + 1
        /\ \A y \in Half(n) : y # l => g[y] = f[y]
    OBVIOUS
  <1>2. /\ h \in [Half(n) -> Int] /\ h[Rev(l)] = g[Rev(l)] + (-1)
        /\ \A y \in Half(n) : y # Rev(l) => h[y] = g[y]
    OBVIOUS
  <1>3. l \in S <=> v = From(n, l)
    BY DEF Leaves
  <1>4. Rev(l) \in S <=> v = To(n, l)
    BY DEF Leaves, To
  <1>5. S \in SUBSET Half(n) /\ IsFiniteSet(S)
    BY OutflowSums
  <1>6. /\ Outflow(n, f, v) = SumOver(f, S) /\ Outflow(n, f, v) \in Int
        /\ Outflow(n, h, v) = SumOver(h, S)
    BY <1>2, OutflowSums
  <1> HIDE DEF g, S
  <1>7. SumOver(g, S) = SumOver(f, S) + (IF l \in S THEN 1 ELSE 0)
    BY <1>1, <1>5, SumOverExcept
  <1>8. SumOver(h, S) = SumOver(g, S) + (IF Rev(l) \in S THEN -1 ELSE 0)
    <2>1. -1 \in Int
      OBVIOUS
    <2>. QED  BY <1>1, <1>2, <1>5, <2>1, SumOverExcept
  <1>. QED  BY <1>3, <1>4, <1>6, <1>7, <1>8

(* The same as one formula, for the modules that instantiate this one.       *)
LEMMA UnitsMove ==
  \A n \in Networks : \A f, h \in [Half(n) -> Int] : \A l \in Half(n) :
    /\ Rev(l) \in Half(n) /\ Rev(l) # l
    /\ h[l] = f[l] + 1 /\ h[Rev(l)] = f[Rev(l)] - 1
    /\ \A m \in Half(n) : m # l /\ m # Rev(l) => h[m] = f[m]
    => \A v : Outflow(n, h, v) = Outflow(n, f, v) + (IF v = From(n, l) THEN 1 ELSE 0)
                                                 + (IF v = To(n, l) THEN -1 ELSE 0)
  BY UnitMoves

-----------------------------------------------------------------------------
LEMMA InitBalanced == Init => Found /\ Balanced
  <1> SUFFICES ASSUME Init PROVE Found /\ Balanced
    OBVIOUS
  <1>1. Found
    BY FreshQueue DEF Init, Found
  <1>2. \A v \in Node(net) : Outflow(net, flow, v) = 0
    BY NoOutflow DEF Init
  <1>. QED  BY <1>1, <1>2 DEF Init, Balanced

LEMMA FindBalances == FlowInv /\ Find => Found' /\ Balanced'
  <1> SUFFICES ASSUME FlowInv, Find PROVE Found' /\ Balanced'
    OBVIOUS
  <1>1. /\ q \in Seq(Entry) /\ Len(q) \in Nat /\ q_front \in 1 .. Len(q)
        /\ net' = net /\ flow' = flow /\ total_flow' = total_flow /\ pc = "search"
        /\ Found /\ Balanced
    BY TypeFacts DEF FlowInv, ECInv, Find
  <1>2. PICK l \in Usable(q[q_front].id) :
          /\ q' = Append(q, SearchInfo(To(net, l), q_front, l))
          /\ IF To(net, l) = Sink(net)
             THEN pc' = "augment" /\ loc' = Len(q')
             ELSE UNCHANGED <<pc, loc>>
    BY DEF Find
  <1>3. /\ Len(q') = Len(q) + 1
        /\ q'[Len(q) + 1] = SearchInfo(To(net, l), q_front, l)
        /\ \A k \in 1 .. Len(q) : q'[k] = q[k]
    BY <1>1, <1>2
  <1>4. /\ q'[Len(q) + 1].id = To(net, l) /\ q'[Len(q) + 1].prev_id = q_front
        /\ q'[Len(q) + 1].info = l /\ From(net, l) = q[q_front].id
    BY <1>3 DEF SearchInfo, Usable
  <1>5. \A k \in 1 .. Len(q) : k # 1 => q[k].prev_id \in 1 .. k - 1
    BY DEF FlowInv, ECInv, QueueInv
  <1>6. Found'
    <2>1. ASSUME NEW k \in 2 .. Len(q) + 1
          PROVE  From(net, q'[k].info) = q'[q'[k].prev_id].id
      <3>1. CASE k = Len(q) + 1
        BY <1>1, <1>3, <1>4, <3>1
      <3>2. CASE k \in 2 .. Len(q)
        <4>1. k \in 1 .. Len(q) /\ q[k].prev_id \in 1 .. Len(q)
          BY <1>1, <1>5, <3>2
        <4>. QED  BY <1>1, <1>3, <3>2, <4>1 DEF Found
      <3>. QED  BY <1>1, <3>1, <3>2
    <2>. QED  BY <1>1, <1>3, <2>1 DEF Found
  <1>7. Balanced'
    <2>1. ASSUME NEW v \in Node(net) \ {Sink(net)}
          PROVE  ~(pc' = "augment" /\ v = q'[loc'].id)
      BY <1>1, <1>2, <1>3, <1>4, <2>1
    <2>. QED  BY <1>1, <2>1 DEF Balanced
  <1>. QED  BY <1>6, <1>7

(* The augmentation takes the surplus from the end of a half-edge to its     *)
(* start, where the search came from.                                        *)
LEMMA AugmentBalances == FlowInv /\ Augment => Found' /\ Balanced'
  <1> SUFFICES ASSUME FlowInv, Augment PROVE Found' /\ Balanced'
    OBVIOUS
  <1> DEFINE l == q[loc].info
  <1>1. /\ pc = "augment" /\ q[loc].prev_id # 0
        /\ flow' = [flow EXCEPT ![l] = @ + 1, ![Rev(l)] = @ - 1]
        /\ loc' = q[loc].prev_id
        /\ net' = net /\ pc' = pc /\ q' = q /\ total_flow' = total_flow
        /\ Found /\ Balanced
    BY DEF FlowInv, Augment
  <1>2. net \in Networks /\ flow \in [Half(net) -> Int] /\ Len(q) \in Nat
    BY TypeFacts DEF FlowInv, ECInv
  <1>3. loc \in 2 .. Len(q) /\ l \in Half(net) /\ To(net, l) = q[loc].id
    <2>1. loc \in 1 .. Len(q)
      BY <1>1 DEF FlowInv, ECInv, PathInv
    <2>2. \A k \in 1 .. Len(q) :
            /\ q[k].prev_id = 0 <=> k = 1
            /\ k # 1 => q[k].info \in Half(net) /\ To(net, q[k].info) = q[k].id
      BY DEF FlowInv, ECInv, QueueInv
    <2>. QED  BY <1>1, <1>2, <2>1, <2>2
  <1>4. From(net, l) = q[loc'].id
    BY <1>1, <1>3 DEF Found
  <1>5. Rev(l) \in Half(net) /\ Rev(l) # l
    BY <1>2, <1>3, NetworkFacts
  <1> HIDE DEF l
  <1>6. /\ flow' \in [Half(net) -> Int]
        /\ flow'[l] = flow[l] + 1 /\ flow'[Rev(l)] = flow[Rev(l)] - 1
        /\ \A m \in Half(net) : m # l /\ m # Rev(l) => flow'[m] = flow[m]
    BY <1>1, <1>2, <1>3, <1>5
  <1>7. ASSUME NEW v \in Node(net) \ {Sink(net)}
        PROVE  Outflow(net, flow', v) = (IF v = Source THEN total_flow ELSE 0)
                                        + (IF v = q[loc'].id THEN 1 ELSE 0)
    <2>1. Outflow(net, flow', v) = Outflow(net, flow, v)
                                   + (IF v = q[loc'].id THEN 1 ELSE 0)
                                   + (IF v = q[loc].id THEN -1 ELSE 0)
      <3>1. Outflow(net, flow', v) = Outflow(net, flow, v)
                                     + (IF v = From(net, l) THEN 1 ELSE 0)
                                     + (IF v = To(net, l) THEN -1 ELSE 0)
        BY <1>2, <1>3, <1>5, <1>6, UnitMoves, SMTT(60)
      <3>. QED  BY <1>3, <1>4, <3>1
    <2>2. Outflow(net, flow, v) = (IF v = Source THEN total_flow ELSE 0)
                                  + (IF v = q[loc].id THEN 1 ELSE 0)
      BY <1>1 DEF Balanced
    <2>3. total_flow \in Int
      BY DEF FlowInv, ECInv, TypeOK
    <2>. QED  BY <2>1, <2>2, <2>3
  <1>8. Balanced'
    BY <1>1, <1>7 DEF Balanced
  <1>9. Found'
    BY <1>1 DEF Found
  <1>. QED  BY <1>8, <1>9

(* Back at the source, the surplus is the unit that compute() counts.        *)
LEMMA AugmentedBalances == FlowInv /\ Augmented => Found' /\ Balanced'
  <1> SUFFICES ASSUME FlowInv, Augmented PROVE Found' /\ Balanced'
    OBVIOUS
  <1>1. /\ pc = "augment" /\ q[loc].prev_id = 0
        /\ total_flow' = total_flow + 1 /\ total_flow \in Nat
        /\ pc' = "search" /\ q' = <<Start>> /\ net' = net /\ flow' = flow /\ Balanced
    BY DEF FlowInv, ECInv, TypeOK, Augmented
  <1>2. q[loc].id = Source
    <2>1. loc \in 1 .. Len(q)
      BY <1>1 DEF FlowInv, ECInv, PathInv
    <2>. QED  BY <1>1, <2>1 DEF FlowInv, ECInv, QueueInv
  <1>3. Found'
    BY <1>1 DEF Found
  <1>4. ASSUME NEW v \in Node(net) \ {Sink(net)}
        PROVE  Outflow(net, flow, v) = IF v = Source THEN total_flow + 1 ELSE 0
    BY <1>1, <1>2 DEF Balanced
  <1>5. Balanced'
    BY <1>1, <1>4 DEF Balanced
  <1>. QED  BY <1>3, <1>5

LEMMA StepFlow == FlowInv /\ [Next]_vars => FlowInv'
  <1> SUFFICES ASSUME FlowInv, [Next]_vars PROVE FlowInv'
    OBVIOUS
  <1>1. ECInv'
    BY StepEC DEF FlowInv
  <1>2. Found' /\ Balanced'
    <2>1. CASE NextFront \/ Return \/ UNCHANGED vars
      <3>1. /\ UNCHANGED <<net, flow, q, loc, total_flow>>
            /\ pc' = pc \/ (pc = "search" /\ pc' = "done")
        BY <2>1 DEF NextFront, Return, vars
      <3>2. Found'
        BY <3>1 DEF FlowInv, Found
      <3>3. Balanced'
        BY <3>1 DEF FlowInv, Balanced
      <3>. QED  BY <3>2, <3>3
    <2>. QED  BY <2>1, FindBalances, AugmentBalances, AugmentedBalances DEF Next
  <1>. QED  BY <1>1, <1>2 DEF FlowInv

LEMMA FlowInvariant == Spec => []FlowInv
  <1>1. Init => FlowInv
    BY InitEC, InitBalanced DEF FlowInv
  <1>. QED  BY <1>1, StepFlow, PTL DEF Spec

-----------------------------------------------------------------------------
(* When compute() returns, what it has counted is a feasible maximal flow.   *)
LEMMA DoneKeepsPromise ==
  ASSUME FlowInv, pc = "done"
  PROVE  /\ Feasible(net, flow) /\ Maximal(net, flow)
         /\ total_flow = Outflow(net, flow, Source)
  <1>1. \A v \in Node(net) \ {Sink(net)} :
          Outflow(net, flow, v) = (IF v = Source THEN total_flow ELSE 0) + 0
    BY DEF FlowInv, Balanced
  <1>2. /\ net \in Networks /\ total_flow \in Nat /\ vhash \subseteq Node(net)
        /\ Antisymmetric(net, flow) /\ WithinCapacity(net, flow)
    BY DEF FlowInv, ECInv, TypeOK, FlowIsSound
  <1>3. Conserved(net, flow)
    BY <1>1 DEF Conserved
  <1>4. total_flow = Outflow(net, flow, Source)
    <2>1. Source \in Node(net) \ {Sink(net)}
      BY <1>2, NetworkFacts
    <2>. QED  BY <1>1, <1>2, <2>1
  <1>5. Maximal(net, flow)
    BY <1>2, DoneSaturates DEF FlowInv, Maximal
  <1>. QED  BY <1>2, <1>3, <1>4, <1>5 DEF Feasible

LEMMA DoneKeeps ==
  FlowInv /\ pc = "done" =>
    Feasible(net, flow) /\ Maximal(net, flow) /\ total_flow = Outflow(net, flow, Source)
  BY DoneKeepsPromise

LEMMA DoneKeepsNext ==
  FlowInv' /\ (pc = "done")' =>
    (Feasible(net, flow) /\ Maximal(net, flow) /\ total_flow = Outflow(net, flow, Source))'
  BY DoneKeeps, PTL

(* MaxFlow and ECMaxFlow speak of the same networks.                         *)
LEMMA SameNetworks ==
  ASSUME NEW n, NEW f
  PROVE  /\ Promised!Half(n) = Half(n) /\ Promised!ZeroFlow(n) = ZeroFlow(n)
         /\ Promised!Source = Source
         /\ \A v : Promised!Outflow(n, f, v) = Outflow(n, f, v)
         /\ Promised!Feasible(n, f) <=> Feasible(n, f)
         /\ Promised!Maximal(n, f) <=> Maximal(n, f)
  <1>1. /\ Promised!Half(n) = Half(n) /\ Promised!Source = Source
        /\ Promised!Sink(n) = Sink(n) /\ Promised!Node(n) = Node(n)
    BY DEF Half, Source, Sink, Node, Promised!Half, Promised!Source, Promised!Sink, Promised!Node
  <1>2. \A l : /\ Promised!Rev(l) = Rev(l) /\ Promised!From(n, l) = From(n, l)
               /\ Promised!To(n, l) = To(n, l) /\ Promised!Capacity(n, l) = Capacity(n, l)
    BY DEF Rev, From, To, Capacity,
           Promised!Rev, Promised!From, Promised!To, Promised!Capacity
  <1>3. Promised!ZeroFlow(n) = ZeroFlow(n)
    BY DEF ZeroFlow, Half, Promised!ZeroFlow, Promised!Half
  <1>4. ASSUME NEW v
        PROVE  Promised!Outflow(n, f, v) = Outflow(n, f, v)
    BY DEF Outflow, MapThenSumSet, MapThenFoldSet, Half, From,
           Promised!Outflow, Promised!MapThenSumSet, Promised!MapThenFoldSet,
           Promised!Half, Promised!From
  <1>5. Promised!Feasible(n, f) <=> Feasible(n, f)
    BY <1>1, <1>2, <1>4
       DEF Feasible, Antisymmetric, WithinCapacity, Conserved, Promised!Feasible,
           Promised!Antisymmetric, Promised!WithinCapacity, Promised!Conserved
  <1>6. Promised!Maximal(n, f) <=> Maximal(n, f)
    BY <1>1, <1>2 DEF Maximal, Saturates, Promised!Maximal, Promised!Saturates
  <1>. QED  BY <1>1, <1>3, <1>4, <1>5, <1>6

LEMMA PromisedInit == Init => Promised!Init
  BY SameNetworks DEF Init, Promised!Init

LEMMA PromisedStep == FlowInv /\ FlowInv' /\ [Next]_vars => [Promised!compute]_(Promised!vars)
  <1> SUFFICES ASSUME FlowInv, FlowInv', [Next]_vars
               PROVE  [Promised!compute]_(Promised!vars)
    OBVIOUS
  <1>1. CASE Find \/ NextFront \/ Augment \/ Augmented \/ UNCHANGED vars
    <2>1. net' = net /\ (pc = "done" <=> pc' = "done")
          /\ (pc = "done" => flow' = flow /\ total_flow' = total_flow)
      BY <1>1 DEF Find, NextFront, Augment, Augmented, vars
    <2>. QED  BY <2>1 DEF Promised!vars
  <1>2. CASE Return
    <2>1. /\ pc = "search" /\ pc' = "done"
          /\ net' = net /\ flow' = flow /\ total_flow' = total_flow
      BY <1>2 DEF Return
    <2>2. /\ Feasible(net, flow) /\ Maximal(net, flow)
          /\ total_flow = Outflow(net, flow, Source)
      <3>1. (Feasible(net, flow) /\ Maximal(net, flow)
             /\ total_flow = Outflow(net, flow, Source))'
        BY <2>1, DoneKeepsNext
      <3>2. Feasible(net', flow') /\ Maximal(net', flow')
            /\ total_flow' = Outflow(net', flow', Source)
        BY <3>1
      <3>. QED  BY <2>1, <3>2
    <2>3. flow' \in [Half(net) -> Int]
      BY <2>1 DEF FlowInv, ECInv, TypeOK
    <2>4. (pc = "done")' = TRUE /\ pc # "done"
      BY <2>1
    <2>5. /\ (IF pc = "done" THEN flow ELSE ZeroFlow(net))' = flow
          /\ (IF pc = "done" THEN total_flow ELSE 0)' = total_flow
      BY <2>1
    <2>6. Promised!compute
      BY <2>1, <2>2, <2>3, <2>4, <2>5, SameNetworks DEF Promised!compute
    <2>. QED  BY <2>6
  <1>. QED  BY <1>1, <1>2 DEF Next

(* ECMaxFlowHelper keeps the promise of MaxFlow in every network: what it    *)
(* returns is the value of a feasible flow that saturates a cut.             *)
THEOREM KeepsThePromise == Spec => ImplementsMaxFlow
  <1>. QED  BY FlowInvariant, PromisedInit, PromisedStep, PTL
            DEF Spec, ImplementsMaxFlow, Promised!Spec

-----------------------------------------------------------------------------
(***************************************************************************)
(* Why a saturated cut makes a flow maximal: the value of any flow is what *)
(* crosses the cut, and no flow crosses it with more than its capacity.    *)
(***************************************************************************)
Within(n, C) == {l \in Half(n) : From(n, l) \in C}
Crossing(n, C) == {l \in Half(n) : From(n, l) \in C /\ To(n, l) \notin C}

(* Over half-edges whose reverses are among them too, a flow cancels out.    *)
LEMMA FlowCancels ==
  ASSUME NEW n \in Networks, NEW f \in [Half(n) -> Int], Antisymmetric(n, f),
         NEW S \in SUBSET Half(n), \A l \in S : Rev(l) \in S
  PROVE  SumOver(f, S) = 0
  <1> DEFINE T == {s \in SUBSET S : (\A l \in s : Rev(l) \in s) /\ SumOver(f, s) # 0}
  <1> SUFFICES ASSUME T # {} PROVE FALSE
    OBVIOUS
  <1>1. IsFiniteSet(S)
    BY OutflowSums, FS_Subset
  <1>2. PICK s \in T : \A t \in T : ~(t \subseteq s /\ t # s)
    <2>1. T \in SUBSET FiniteSubsetsOf(S)
      BY <1>1, FS_Subset DEF FiniteSubsetsOf
    <2> HIDE DEF T
    <2>. QED  BY <2>1, MinimalFiniteSet
  <1>3. IsFiniteSet(s) /\ s \in SUBSET Half(n) /\ s \in SUBSET S
    BY <1>1, FS_Subset
  <1>4. PICK l : l \in s
    BY <1>3, SumOverOne
  <1>5. /\ l \in Half(n) /\ Rev(l) \in s /\ Rev(l) # l
        /\ \A m \in Half(n) : Rev(Rev(m)) = m
    BY <1>3, <1>4, HalfFacts
  <1> DEFINE s1 == s \ {l}
             s2 == s1 \ {Rev(l)}
  <1>6. /\ IsFiniteSet(s1) /\ IsFiniteSet(s2)
        /\ s1 \in SUBSET Half(n) /\ s2 \in SUBSET Half(n)
    BY <1>3, FS_RemoveElement
  <1>7. SumOver(f, s) = f[l] + SumOver(f, s1)
    BY <1>3, <1>4, SumOverOne
  <1>8. SumOver(f, s1) = f[Rev(l)] + SumOver(f, s2)
    BY <1>5, <1>6, SumOverOne
  <1>9. SumOver(f, s2) = 0
    <2>1. \A m \in s2 : Rev(m) \in s2
      BY <1>3, <1>5
    <2>2. s2 \in SUBSET S /\ s2 \subseteq s /\ s2 # s
      BY <1>3, <1>4
    <2>. QED  BY <1>2, <2>1, <2>2
  <1>10. f[l] = -f[Rev(l)] /\ f[l] \in Int /\ f[Rev(l)] \in Int
    BY <1>3, <1>5 DEF Antisymmetric
  <1>11. SumOver(f, s) # 0
    OBVIOUS
  <1> HIDE DEF T, s1, s2
  <1>. QED  BY <1>7, <1>8, <1>9, <1>10, <1>11

(* What leaves a set of nodes that are neither source nor sink sums to       *)
(* nothing; with the source among them, to the value of the flow.            *)
LEMMA SumsToValue ==
  ASSUME NEW n \in Networks, NEW f \in [Half(n) -> Int], Conserved(n, f),
         NEW C \in SUBSET (Node(n) \ {Sink(n)})
  PROVE  SumOver(f, Within(n, C)) = IF Source \in C THEN Outflow(n, f, Source) ELSE 0
  <1> DEFINE V(s) == IF Source \in s THEN Outflow(n, f, Source) ELSE 0
             T == {s \in SUBSET C : SumOver(f, Within(n, s)) # V(s)}
  <1> SUFFICES ASSUME T # {} PROVE FALSE
    OBVIOUS
  <1>1. IsFiniteSet(C) /\ IsFiniteSet(Half(n))
    BY OutflowSums, HalfFacts, FS_Subset
  <1>2. PICK s \in T : \A t \in T : ~(t \subseteq s /\ t # s)
    <2>1. T \in SUBSET FiniteSubsetsOf(C)
      BY <1>1, FS_Subset DEF FiniteSubsetsOf
    <2> HIDE DEF T
    <2>. QED  BY <2>1, MinimalFiniteSet
  <1>3. \A t : Within(n, t) \in SUBSET Half(n) /\ IsFiniteSet(Within(n, t))
    BY <1>1, FS_Subset DEF Within
  <1>4. s # {}
    <2>1. Within(n, {}) = {} /\ V({}) = 0
      BY DEF Within
    <2>2. SumOver(f, {}) = 0
      BY <1>3, SumOverOne
    <2>. QED  BY <2>1, <2>2
  <1>5. PICK x : x \in s
    BY <1>4
  <1> DEFINE r == s \ {x}
  <1>6. SumOver(f, Within(n, r)) = V(r)
    <2>1. r \in SUBSET C /\ r \subseteq s /\ r # s
      BY <1>5
    <2>. QED  BY <1>2, <2>1
  <1>7. SumOver(f, Within(n, s)) = SumOver(f, Within(n, r)) + Outflow(n, f, x)
    <2>1. /\ Within(n, s) = Within(n, r) \union Leaves(n, x)
          /\ Within(n, r) \intersect Leaves(n, x) = {}
      BY <1>5 DEF Within, Leaves
    <2>2. /\ Leaves(n, x) \in SUBSET Half(n) /\ IsFiniteSet(Leaves(n, x))
          /\ Outflow(n, f, x) = SumOver(f, Leaves(n, x))
      BY OutflowSums
    <2>3. SumOver(f, Within(n, r) \union Leaves(n, x))
            = SumOver(f, Within(n, r)) + SumOver(f, Leaves(n, x))
      <3> HIDE DEF r
      <3>. QED  BY <1>3, <2>1, <2>2, SumOverUnion
    <2>. QED  BY <2>1, <2>2, <2>3
  <1>8. x # Source => Outflow(n, f, x) = 0
    BY <1>5 DEF Conserved
  <1>9. Outflow(n, f, x) \in Int /\ Outflow(n, f, Source) \in Int
    BY OutflowSums
  <1>10. V(s) = V(r) + Outflow(n, f, x)
    BY <1>5, <1>8, <1>9
  <1>. QED  BY <1>6, <1>7, <1>10

LEMMA ValueCrosses ==
  ASSUME NEW n \in Networks, NEW f \in [Half(n) -> Int], Feasible(n, f),
         NEW C \in SUBSET Node(n), Source \in C, Sink(n) \notin C
  PROVE  /\ Crossing(n, C) \in SUBSET Half(n) /\ IsFiniteSet(Crossing(n, C))
         /\ Outflow(n, f, Source) = SumOver(f, Crossing(n, C))
  <1> DEFINE I == {l \in Half(n) : From(n, l) \in C /\ To(n, l) \in C}
             X == Crossing(n, C)
  <1>1. /\ I \in SUBSET Half(n) /\ IsFiniteSet(I)
        /\ X \in SUBSET Half(n) /\ IsFiniteSet(X)
    BY OutflowSums, FS_Subset DEF Crossing
  <1>2. SumOver(f, I) = 0
    <2>1. \A l \in I : Rev(l) \in I
      BY HalfFacts DEF To
    <2> HIDE DEF I
    <2>. QED  BY <1>1, <2>1, FlowCancels DEF Feasible
  <1>3. SumOver(f, Within(n, C)) = Outflow(n, f, Source)
    <2>1. C \in SUBSET (Node(n) \ {Sink(n)})
      OBVIOUS
    <2>. QED  BY <2>1, SumsToValue DEF Feasible
  <1>4. Within(n, C) = X \union I /\ X \intersect I = {}
    BY DEF Within, Crossing
  <1> HIDE DEF I, X
  <1>5. SumOver(f, X \union I) = SumOver(f, X) + SumOver(f, I)
    BY <1>1, <1>4, SumOverUnion
  <1>6. SumOver(f, X) \in Int
    BY <1>1, SumOverOne
  <1>. QED  BY <1>1, <1>2, <1>3, <1>4, <1>5, <1>6 DEF X

(* Maximal means what its name says: no feasible flow has a larger value.    *)
THEOREM MaximalIsLargest ==
  ASSUME NEW n \in Networks,
         NEW f \in [Half(n) -> Int], Feasible(n, f), Maximal(n, f),
         NEW g \in [Half(n) -> Int], Feasible(n, g)
  PROVE  Outflow(n, g, Source) <= Outflow(n, f, Source)
  <1>1. PICK C \in SUBSET Node(n) : Saturates(n, f, C)
    BY DEF Maximal
  <1>2. /\ Crossing(n, C) \in SUBSET Half(n) /\ IsFiniteSet(Crossing(n, C))
        /\ Outflow(n, f, Source) = SumOver(f, Crossing(n, C))
        /\ Outflow(n, g, Source) = SumOver(g, Crossing(n, C))
    BY <1>1, ValueCrosses DEF Saturates
  <1>3. \A l \in Crossing(n, C) : g[l] <= f[l]
    BY <1>1 DEF Crossing, Saturates, Feasible, WithinCapacity
  <1>. QED  BY <1>2, <1>3, SumOverAtMost

(* compute() returns the largest value a feasible flow of the network has.   *)
THEOREM ReturnsTheLargest ==
  Spec => [](pc = "done" =>
               \A g \in [Half(net) -> Int] :
                 Feasible(net, g) => Outflow(net, g, Source) <= total_flow)
  <1>1. ASSUME FlowInv, pc = "done", NEW g \in [Half(net) -> Int], Feasible(net, g)
        PROVE  Outflow(net, g, Source) <= total_flow
    <2>1. net \in Networks /\ flow \in [Half(net) -> Int]
      BY <1>1 DEF FlowInv, ECInv, TypeOK
    <2>. QED  BY <1>1, <2>1, DoneKeepsPromise, MaximalIsLargest
  <1>2. FlowInv => (pc = "done" =>
                      \A g \in [Half(net) -> Int] :
                        Feasible(net, g) => Outflow(net, g, Source) <= total_flow)
    BY <1>1
  <1>. QED  BY <1>2, FlowInvariant, PTL
=============================================================================
