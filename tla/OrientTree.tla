----------------------------- MODULE OrientTree -----------------------------
(***************************************************************************)
(* DisajointOrientTree: a forest with path compression and union by size,  *)
(* in which every node keeps the quarter turns between itself and its      *)
(* parent.  BuildIntegerConstraints joins the frames of the faces through  *)
(* one: an edge that closes a cycle finds both its faces in one tree and   *)
(* changes nothing but the paths it walked.                                *)
(*                                                                         *)
(* DisajointTree is the same forest without the turns, apart from the root *)
(* that wins between trees of one size; its users number the trees once    *)
(* all the merges are done, and look the numbers up afterwards.            *)
(***************************************************************************)
EXTENDS Integers, FiniteSets

CONSTANT N   \* the nodes are 0 .. N - 1

ASSUME NAssumption == N \in Nat /\ N > 0

VARIABLES
  parent,       \* node -> its parent and the turns to it; a root is its own
  rank,         \* of a root: the size of its tree
  indices,      \* node -> the number of its tree, once they are numbered
  compact_num,  \* how many trees were numbered
  joins         \* history: the merges that joined two trees

tree_vars == <<parent, rank, indices, compact_num, joins>>

Elem == 0 .. N - 1

TreeInit ==
  /\ parent = [j \in Elem |-> [first |-> j, second |-> 0]]
  /\ rank = [j \in Elem |-> 1]
  /\ indices = <<>> /\ compact_num = 0
  /\ joins = {}

IsRoot(j) == parent[j].first = j

(* What Parent(j) returns, and the nodes on the way that it moves there.     *)
Root[j \in Elem] == IF IsRoot(j) THEN j ELSE Root[parent[j].first]

Path[j \in Elem] == IF IsRoot(j) THEN {} ELSE {j} \union Path[parent[j].first]

Orient[j \in Elem] ==
  IF IsRoot(j) THEN parent[j].second
  ELSE (parent[j].second + Orient[parent[j].first]) % 4

-----------------------------------------------------------------------------
(* Faulty variant: a node moved to its root keeps the turns to its parent.   *)
AfterFindStale(js) ==
  [k \in Elem |->
     IF k \in UNION {Path[j] : j \in js}
     THEN [first |-> Root[k], second |-> parent[k].second]
     ELSE parent[k]]

(* Parent(j) for the nodes of js: every node on the way up hangs from the    *)
(* root afterwards, with the turns of its whole way.                         *)
AfterFind(js) ==
  [k \in Elem |->
     IF k \in UNION {Path[j] : j \in js}
     THEN [first |-> Root[k], second |-> Orient[k]]
     ELSE parent[k]]

(* The turns a root gets when it is hung from the root of to: from is turned *)
(* by orient_from where to is turned by orient_to.                           *)
Turned(from, to, orient_from, orient_to) ==
  (orient_from - orient_to + Orient[to] - Orient[from] + 8) % 4

(* Whether the root of v1 is hung from that of v0, or the other way round.   *)
HangsSecond(p0, p1) == rank[p1] < rank[p0]

Hang(from, to, orient_from, orient_to) ==
  /\ parent' = [AfterFind({from, to}) EXCEPT
                  ![Root[from]] = [first |-> Root[to],
                                   second |-> Turned(from, to, orient_from, orient_to)]]
  /\ rank' = [rank EXCEPT ![Root[to]] = @ + rank[Root[from]]]

Merge(v0, v1, orient0, orient1) ==
  /\ indices = <<>>
  /\ \/ /\ Root[v0] = Root[v1]
        /\ parent' = AfterFind({v0, v1})
        /\ UNCHANGED <<rank, joins>>
     \/ /\ Root[v0] # Root[v1]
        /\ \/ HangsSecond(Root[v0], Root[v1]) /\ Hang(v1, v0, orient1, orient0)
           \/ ~HangsSecond(Root[v0], Root[v1]) /\ Hang(v0, v1, orient0, orient1)
        /\ joins' = joins \union {[from |-> v0, to |-> v1, turn |-> (orient0 - orient1) % 4]}
  /\ UNCHANGED <<indices, compact_num>>

(* The number of a root: how many roots come before it.                      *)
compact_parent(r) == Cardinality({j \in Elem : IsRoot(j) /\ j < r})

Number(j) == compact_parent(Root[j])

BuildCompactParent ==
  /\ indices = <<>>
  /\ compact_num' = Cardinality({j \in Elem : IsRoot(j)})
  /\ indices' = [j \in Elem |-> Number(j)]
  /\ parent' = AfterFind(Elem)
  /\ UNCHANGED <<rank, joins>>

TreeNext ==
  \/ \E v0, v1 \in Elem, orient0, orient1 \in 0 .. 3 : Merge(v0, v1, orient0, orient1)
  \/ BuildCompactParent

TreeSpec == TreeInit /\ [][TreeNext]_tree_vars

-----------------------------------------------------------------------------
(* However the paths are compressed and whichever root wins, two faces whose *)
(* merge joined their trees stay turned against each other by what the merge *)
(* asked for: when the last loop of the caller turns every face by Orient,   *)
(* their frames oppose each other across the edge between them.              *)
FramesStayAligned ==
  \A l \in joins :
    /\ Root[l.from] = Root[l.to]
    /\ (Orient[l.from] - Orient[l.to]) % 4 = l.turn
=============================================================================
