---------------------------- MODULE GraphColoring ---------------------------
(***************************************************************************)
(* Hierarchy::generate_graph_coloring_deterministic (hierarchy.cpp:117-263)*)
(* in its two builds.  With TBB, bodies work on blocks of a permutation of *)
(* the vertices.  First they shuffle the permutation, each swap under the  *)
(* mutexes of the two places; then each vertex is colored under the        *)
(* mutexes of itself and its neighbours, taken in ascending order.  The    *)
(* colors a body knows of are its own copy, extended when it meets a       *)
(* larger one.  Without TBB one loop does the same without mutexes.        *)
(***************************************************************************)
EXTENDS Integers, FiniteSets, FiniteSetsExt

CONSTANTS Size,        (* number of vertices of the level *)
          Graphs,      (* the graphs to color *)
          Body,        (* bodies of the parallel loops *)
          Blocks,      (* how the loops may be cut: the places each body works on *)
          MaxColors,   (* INVALID_COLOR - 1, 254 in the code *)
          Invalid,     (* INVALID_COLOR *)
          Free         (* the owner of a free mutex *)

Place  == 0 .. (Size - 1)
Vertex == 0 .. (Size - 1)

ASSUME ColoringAssumption ==
  /\ Size \in Nat \ {0}
  /\ MaxColors \in Nat
  /\ Invalid \notin Nat
  /\ Free \notin Body
  /\ \A g \in Graphs :
       /\ g \in [Vertex -> SUBSET Vertex]
       /\ \A v, w \in Vertex : w \in g[v] => v # w /\ v \in g[w]
  /\ \A block \in Blocks :
       /\ block \in [Body -> SUBSET Place]
       /\ \A a, b \in Body : a # b => block[a] \cap block[b] = {}
       /\ \A x \in Place : \E b \in Body : x \in block[b]

VARIABLES
  build,     (* "TBB" or "serial" *)
  adj,       (* adj[v]: the vertices v has a link to *)
  block,     (* the places of each body *)
  stage,     (* "shuffle", "color", then "done" or "failed" *)
  perm,      (* which vertex has which place *)
  color,     (* color[v], shared *)
  owner,     (* owner[v]: who holds mutex[v] *)
  doing,        (* where each body is *)
  todo,      (* the places it still has to visit *)
  cur,       (* the vertex or place it works on *)
  other,     (* the place it swaps cur with *)
  held,       (* the temporary of std::swap *)
  want,      (* mutexes to lock, or to unlock, next *)
  unread,    (* links whose color it has not read *)
  taken,     (* colors c with possible_colors[c] = false *)
  nColors,   (* colorData.nColors *)
  nNodes,    (* colorData.nNodes *)
  phases     (* the result *)

colored  == <<color, taken, nColors, nNodes>>
swapping == <<other, held, perm>>
coloring_vars == <<build, adj, block, stage, perm, color, owner, doing, todo, cur, other, held,
          want, unread, taken, nColors, nNodes, phases>>

IsLeast(x, S) == x \in S /\ \A y \in S : x <= y

IsPermutation(p) == p \in [Place -> Vertex] /\ \A x, y \in Place : p[x] = p[y] => x = y

ColoringInit ==
  /\ build \in {"TBB", "serial"}
  /\ adj \in Graphs
  /\ block \in Blocks
  /\ build = "serial" => \E b \in Body : block[b] = Place
  /\ stage = IF build = "TBB" THEN "shuffle" ELSE "color"
  /\ IF build = "TBB"
     THEN perm = [x \in Place |-> x]
     ELSE perm \in {p \in [Place -> Vertex] : IsPermutation(p)}
  /\ color = [v \in Vertex |-> Invalid]
  /\ owner = [v \in Vertex |-> Free]
  /\ doing = [b \in Body |-> "next"]
  /\ todo = block
  /\ cur = [b \in Body |-> 0]
  /\ other = [b \in Body |-> 0]
  /\ held = [b \in Body |-> 0]
  /\ want = [b \in Body |-> {}]
  /\ unread = [b \in Body |-> {}]
  /\ taken = [b \in Body |-> {}]
  /\ nColors = [b \in Body |-> 0]
  /\ nNodes = [b \in Body |-> [c \in {} |-> 0]]
  /\ phases = [c \in {} |-> {}]
-----------------------------------------------------------------------------
Goto(b, from, to) == doing[b] = from /\ doing' = [doing EXCEPT ![b] = to]

Acquire(b, v) == owner[v] = Free /\ owner' = [owner EXCEPT ![v] = b]
Release(b, v) == owner' = [owner EXCEPT ![v] = Free]

(* The place i of the loop draws a place k >= i; nothing to do for k = i.   *)
Draw(b) ==
  /\ stage = "shuffle"
  /\ \E i \in todo[b] : \E k \in i .. (Size - 1) :
       /\ IsLeast(i, todo[b])
       /\ IF k = i
          THEN /\ doing[b] = "next"
               /\ todo' = [todo EXCEPT ![b] = @ \ {i}]
               /\ UNCHANGED <<doing, cur, other>>
          ELSE /\ Goto(b, "next", "lock first")
               /\ cur' = [cur EXCEPT ![b] = i]
               /\ other' = [other EXCEPT ![b] = k]
               /\ UNCHANGED todo
  /\ UNCHANGED <<build, adj, block, stage, perm, owner, held, want, unread,
                 colored, phases>>

LockFirst(b) ==
  /\ Goto(b, "lock first", "lock second")
  /\ Acquire(b, cur[b])
  /\ UNCHANGED <<build, adj, block, stage, todo, cur, swapping, want, unread,
                 colored, phases>>

(* Faulty variant: only the first place of a swap is locked.                *)
SkipSecond(b) ==
  /\ Goto(b, "lock second", "swap")
  /\ UNCHANGED <<build, adj, block, stage, owner, todo, cur, swapping, want, unread,
                 colored, phases>>

LockSecond(b) ==
  /\ Goto(b, "lock second", "swap")
  /\ Acquire(b, other[b])
  /\ UNCHANGED <<build, adj, block, stage, todo, cur, swapping, want, unread,
                 colored, phases>>

(* std::swap(perm[j], perm[k]), two writes.                                 *)
SwapFirst(b) ==
  /\ Goto(b, "swap", "swap second")
  /\ held' = [held EXCEPT ![b] = perm[cur[b]]]
  /\ perm' = [perm EXCEPT ![cur[b]] = perm[other[b]]]
  /\ UNCHANGED <<build, adj, block, stage, owner, todo, cur, other, want, unread,
                 colored, phases>>

SwapSecond(b) ==
  /\ Goto(b, "swap second", "unlock second")
  /\ perm' = [perm EXCEPT ![other[b]] = held[b]]
  /\ UNCHANGED <<build, adj, block, stage, owner, todo, cur, other, held, want, unread,
                 colored, phases>>

UnlockSecond(b) ==
  /\ Goto(b, "unlock second", "unlock first")
  /\ Release(b, other[b])
  /\ UNCHANGED <<build, adj, block, stage, todo, cur, swapping, want, unread,
                 colored, phases>>

UnlockFirst(b) ==
  /\ Goto(b, "unlock first", "next")
  /\ Release(b, cur[b])
  /\ todo' = [todo EXCEPT ![b] = @ \ {cur[b]}]
  /\ UNCHANGED <<build, adj, block, stage, cur, swapping, want, unread,
                 colored, phases>>

(* parallel_for returns when every body has finished.                       *)
EndShuffle ==
  /\ stage = "shuffle"
  /\ \A b \in Body : doing[b] = "next" /\ todo[b] = {}
  /\ stage' = "color"
  /\ todo' = block
  /\ UNCHANGED <<build, adj, block, owner, doing, cur, swapping, want, unread,
                 colored, phases>>
-----------------------------------------------------------------------------
(* Faulty variant: the vertex itself is not among its neighbourhood.        *)
OpenNeighborhood(v) == adj[v]

Neighborhood(v) == {v} \union adj[v]

(* The mutexes of a vertex and of its neighbours, in ascending order.       *)
Begin(b) ==
  /\ build = "TBB" /\ stage = "color"
  /\ Goto(b, "next", "lock")
  /\ \E x \in todo[b] :
       /\ IsLeast(x, todo[b])
       /\ cur' = [cur EXCEPT ![b] = perm[x]]
       /\ want' = [want EXCEPT ![b] = Neighborhood(perm[x])]
  /\ UNCHANGED <<build, adj, block, stage, owner, todo, swapping, unread,
                 colored, phases>>

(* Faulty variant: the vertex is locked before its neighbours.              *)
LockOwnFirst(b) ==
  /\ doing[b] = "lock"
  /\ \E v \in want[b] :
       /\ IF cur[b] \in want[b] THEN v = cur[b] ELSE IsLeast(v, want[b])
       /\ Acquire(b, v)
       /\ want' = [want EXCEPT ![b] = @ \ {v}]
       /\ IF want[b] = {v}
          THEN /\ doing' = [doing EXCEPT ![b] = "read"]
               /\ unread' = [unread EXCEPT ![b] = adj[cur[b]]]
               /\ taken' = [taken EXCEPT ![b] = {}]
          ELSE UNCHANGED <<doing, unread, taken>>
  /\ UNCHANGED <<build, adj, block, stage, todo, cur, swapping, color, nColors, nNodes, phases>>

Lock(b) ==
  /\ doing[b] = "lock"
  /\ \E v \in want[b] :
       /\ IsLeast(v, want[b])
       /\ Acquire(b, v)
       /\ want' = [want EXCEPT ![b] = @ \ {v}]
       /\ IF want[b] = {v}
          THEN /\ doing' = [doing EXCEPT ![b] = "read"]
               /\ unread' = [unread EXCEPT ![b] = adj[cur[b]]]
               /\ taken' = [taken EXCEPT ![b] = {}]
          ELSE UNCHANGED <<doing, unread, taken>>
  /\ UNCHANGED <<build, adj, block, stage, todo, cur, swapping, color, nColors, nNodes, phases>>

(* nNodes up to color c, with no vertex of those the body did not know of.  *)
Extended(b, c) == [d \in 0 .. c |-> IF d < nColors[b] THEN nNodes[b][d] ELSE 0]

Read(b) ==
  /\ doing[b] = "read"
  /\ \E w \in unread[b] :
       /\ unread' = [unread EXCEPT ![b] = @ \ {w}]
       /\ IF color[w] = Invalid
          THEN UNCHANGED <<taken, nColors, nNodes>>
          ELSE /\ taken' = [taken EXCEPT ![b] = @ \union {color[w]}]
               /\ IF color[w] < nColors[b]
                  THEN UNCHANGED <<nColors, nNodes>>
                  ELSE /\ nColors' = [nColors EXCEPT ![b] = color[w] + 1]
                       /\ nNodes' = [nNodes EXCEPT ![b] = Extended(b, color[w])]
  /\ UNCHANGED <<build, adj, block, stage, owner, doing, todo, cur, swapping, want, color, phases>>

(* Faulty variant: any color of the body that is not taken.                 *)
StopsAnywhere(c, b, used) == c \in 0 .. nColors[b] /\ c \notin used

(* The loop over possible_colors stops at c, or finds none below nColors.   *)
StopsAt(c, b, used) ==
  /\ c \in 0 .. nColors[b]
  /\ 0 .. (c - 1) \subseteq used
  /\ c \notin used

(* A color of the body, or a new one.                                       *)
Count(b, v, c) ==
  /\ color' = [color EXCEPT ![v] = c]
  /\ IF c = nColors[b]
     THEN /\ nColors' = [nColors EXCEPT ![b] = c + 1]
          /\ nNodes' = [nNodes EXCEPT ![b] = [Extended(b, c) EXCEPT ![c] = 1]]
     ELSE /\ nNodes' = [nNodes EXCEPT ![b][c] = @ + 1]
          /\ UNCHANGED nColors

Choose(b) ==
  /\ unread[b] = {}
  /\ Goto(b, "read", "unlock")
  /\ \E c \in 0 .. nColors[b] :
       /\ StopsAt(c, b, taken[b])
       /\ ~ (c = nColors[b] /\ c = MaxColors)
       /\ Count(b, cur[b], c)
  /\ want' = [want EXCEPT ![b] = Neighborhood(cur[b])]
  /\ UNCHANGED <<build, adj, block, stage, owner, todo, cur, swapping, unread, taken, phases>>

(* "Ran out of colors": the exception leaves the body with its mutexes      *)
(* locked.                                                                  *)
Throw(b) ==
  /\ unread[b] = {}
  /\ nColors[b] = MaxColors /\ StopsAt(MaxColors, b, taken[b])
  /\ Goto(b, "read", "thrown")
  /\ UNCHANGED <<build, adj, block, stage, owner, todo, cur, swapping, want, unread,
                 colored, phases>>

Unlock(b) ==
  /\ doing[b] = "unlock"
  /\ \E v \in want[b] :
       /\ IsLeast(v, want[b])
       /\ Release(b, v)
       /\ want' = [want EXCEPT ![b] = @ \ {v}]
       /\ IF want[b] = {v}
          THEN /\ doing' = [doing EXCEPT ![b] = "next"]
               /\ \E x \in todo[b] :
                    IsLeast(x, todo[b]) /\ todo' = [todo EXCEPT ![b] = @ \ {x}]
          ELSE UNCHANGED <<doing, todo>>
  /\ UNCHANGED <<build, adj, block, stage, cur, swapping, unread,
                 colored, phases>>

(* A pending exception cancels what the other bodies have not begun ...     *)
Cancel(b) ==
  /\ doing[b] = "next" /\ todo[b] # {}
  /\ \E a \in Body : doing[a] = "thrown"
  /\ todo' = [todo EXCEPT ![b] = {}]
  /\ UNCHANGED <<build, adj, block, stage, owner, doing, cur, swapping, want, unread,
                 colored, phases>>

(* ... and leaves parallel_reduce when they have all stopped.               *)
Rethrow ==
  /\ stage = "color"
  /\ \A b \in Body : doing[b] = "thrown" \/ (doing[b] = "next" /\ todo[b] = {})
  /\ \E b \in Body : doing[b] = "thrown"
  /\ stage' = "failed"
  /\ UNCHANGED <<build, adj, block, owner, doing, todo, cur, swapping, want, unread,
                 colored, phases>>

(* The loop without TBB: the same choice without mutexes and limit.         *)
SerialColor(b) ==
  /\ build = "serial" /\ stage = "color"
  /\ \E x \in todo[b] : \E c \in 0 .. nColors[b] :
       /\ IsLeast(x, todo[b])
       /\ StopsAt(c, b, {color[w] : w \in adj[perm[x]]} \ {Invalid})
       /\ Count(b, perm[x], c)
       /\ cur' = [cur EXCEPT ![b] = perm[x]]
       /\ todo' = [todo EXCEPT ![b] = @ \ {x}]
  /\ UNCHANGED <<build, adj, block, stage, owner, doing, swapping, want, unread, taken, phases>>
-----------------------------------------------------------------------------
(* The join of parallel_reduce.                                              *)
TotalColors   == Max({nColors[b] : b \in Body})
Collect ==
  /\ stage = "color"
  /\ \A b \in Body : doing[b] = "next" /\ todo[b] = {}
  /\ stage' = "done"
  /\ phases' = [c \in 0 .. (TotalColors - 1) |-> {v \in Vertex : color[v] = c}]
  /\ UNCHANGED <<build, adj, block, owner, doing, todo, cur, swapping, want, unread, colored>>

BodyStep(b) ==
  \/ Draw(b) \/ LockFirst(b) \/ LockSecond(b) \/ SwapFirst(b) \/ SwapSecond(b)
  \/ UnlockSecond(b) \/ UnlockFirst(b)
  \/ Begin(b) \/ Lock(b) \/ Read(b) \/ Choose(b) \/ Throw(b) \/ Unlock(b) \/ Cancel(b)
  \/ SerialColor(b)

ColoringNext == (\E b \in Body : BodyStep(b)) \/ EndShuffle \/ Rethrow \/ Collect

ColoringSpec == ColoringInit /\ [][ColoringNext]_coloring_vars

(* Each body runs on a thread that keeps running, also while it spins on a   *)
(* mutex; a mutex that becomes free is eventually obtained, because the      *)
(* others take it only finitely often.                                       *)
FairColoring ==
  /\ ColoringSpec
  /\ \A b \in Body : WF_coloring_vars(BodyStep(b))
  /\ WF_coloring_vars(EndShuffle) /\ WF_coloring_vars(Collect)
-----------------------------------------------------------------------------
PCs == {"next", "lock first", "lock second", "swap", "swap second", "unlock second",
        "unlock first", "lock", "read", "unlock", "thrown"}

(* The variables keep their types; a body counts exactly the colors it       *)
(* knows of.                                                                 *)
ColoringTypeOK ==
  /\ build \in {"TBB", "serial"}
  /\ adj \in Graphs
  /\ block \in Blocks
  /\ stage \in {"shuffle", "color", "done", "failed"}
  /\ perm \in [Place -> Vertex]
  /\ color \in [Vertex -> Nat \union {Invalid}]
  /\ owner \in [Vertex -> Body \union {Free}]
  /\ doing \in [Body -> PCs]
  /\ todo \in [Body -> SUBSET Place]
  /\ cur \in [Body -> Vertex]
  /\ other \in [Body -> Place]
  /\ held \in [Body -> Vertex]
  /\ want \in [Body -> SUBSET Vertex]
  /\ unread \in [Body -> SUBSET Vertex]
  /\ taken \in [Body -> SUBSET Nat]
  /\ nColors \in [Body -> Nat]
  /\ nNodes = [b \in Body |-> nNodes[b]]
  /\ \A b \in Body : DOMAIN nNodes[b] = 0 .. (nColors[b] - 1)

(* The bodies of both loops exclude each other well enough: at any moment    *)
(* vertices joined by a link have different colors, and each color was, when *)
(* it was chosen, the smallest one free, as if vertices were colored one     *)
(* after the other (hierarchy.cpp:164-203).                                  *)
Greedy == INSTANCE GreedyColoring
NeighborsDiffer  == Greedy!NeighborsDiffer
ImplementsGreedy == Greedy!Spec

(* Swaps by several bodies never lose or duplicate a vertex: each vertex is  *)
(* colored, and once (hierarchy.cpp:134-146).                                *)
ShuffleIsAPermutation == stage # "shuffle" => IsPermutation(perm)

(* Bodies never wait for each other in a circle: as long as none runs out of *)
(* colors, the coloring comes to its end (hierarchy.cpp:163-203).            *)
ColoringEnds == [](\A b \in Body : doing[b] # "thrown") => <>(stage = "done")
=============================================================================
