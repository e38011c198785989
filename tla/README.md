# A TLA+ model of ScaleUntrim

ScaleUntrim turns a trimmed CAD model into an untrimmed multi-patch NURBS
surface: CAD file, triangle mesh, repaired triangle mesh, quad mesh with
patches, fitted surfaces, STEP file. This directory holds TLA+ modules of the
discrete part of the program, the TLC configurations that check them on small
instances, and theorems about them that TLAPS checks for every instance.
Paths are relative to `src/`, the root of the repository.

## The system

| component | state it keeps | operations | what is hard | what makes it correct |
|---|---|---|---|---|
| commands `untrim`, `stl2cad` (`source/Commands`) | the files of `temp_dir` | five stages in a row, started at `run_from` | return values are dropped, a process may stop anywhere, stale and torn files | the output is computed from the input of the run; an interrupted run can be resumed |
| directed edges (`QuadriFlow/dedge.cpp`) | `V2E`, `E2E`, the lists in `tmp`, `nonManifold`, `boundary` | insert, match, walk; remove_nonmanifold | parallel loops that race on list heads and links | no insertion lost; opposites paired; the result independent of the schedule |
| integer equations (`parametrizer-int.cpp`, `optimizer.cpp:9495-9627`) | `edge_diff`, `allow_changes`, FQ, the component sums | join frames, balance components, rounds of flow | random choices, bookkeeping by counting, growing capacities, giving up | equations closed, boundary differences kept, bounded differences |
| maximal flow (`flow.hpp`) | residual graph | `resize`, `addEdge`, `compute`, `applyTo` | augmenting and undoing along reverse edges | feasible and maximal |
| disjoint trees (`disajoint-tree.hpp`) | parents with quarter turns, sizes, numbers | `Parent`, `Orient`, `Merge`, `BuildCompactParent` | path compression composes turns; re-rooting negates them | merged frames stay aligned |
| vertex levels and colouring (`hierarchy.cpp:55-398`, `adjacent-matrix.cpp`) | links and their weights per level, colours, a mutex per vertex | `Initialize`, `DownsampleGraph`, colouring with and without TBB | threads that hold several mutexes at once, each with its own idea of the colours; links merged through numbers being made | neighbours differ, on every level; a level is a graph whose weights are those of the mesh |
| edge hierarchy, flips (`hierarchy.cpp:433-1133`) | differences, turns, permissions and faces per level | `DownsampleEdgeGraph`, `FixFlip`, `PropagateEdge`; `FixFlipSat` | contraction of edges, chains through crushed faces, several faces changed at once, recursion | what goes up comes down again; closed equations stay closed, fewer flips |
| hole and valence repair (`parametrizer-flip.cpp`, `parametrizer-mesh.cpp:515-789`) | quad faces, `V2E_compact`, `E2E_compact`, `Vset` | `FixHoles`, `FixValence` | boundary walks, faces changed while lists made before are walked | a manifold quad mesh without new holes |
| patch extraction (`optimizer.cpp:571-2871`) | ports of singular vertices, separatrices, segments, patches | trace, cut at crossings, assemble, collapse | lines traced from both ends, crossings, closed boundary loops | every quad in one patch, patches meet along whole segments |
| subdivision (`subdivide.cpp`) | `F`, `E2E`, differences, turns and spaces of the faces, a queue of long edges | `subdivide_edgeDiff`: halve an edge; `subdivide` | faces replaced in place, entries of the queue for edges that are gone, turns recovered from frames | both sides of an edge agree, equations stay, no long edge is left |
| fields (`optimizer.cpp`, `parametrizer-sing.cpp`) | floating-point fields | relaxation by colours | numeric | not discrete |
| fitting (`multi_patch_fit.cpp`, `b_spline_surface.cpp`, ...) | patches, knots, control points | connect, fit, refine | refinement must agree across patches | a watertight surface |
| export (`GenerateShell.cpp`) | knots and poles per patch | read, sew, write | unreadable input | STEP file of all patches |
| mesh repair, I/O (`fixmesh.cpp`, `load.cpp`, `*IO.cpp`) | meshes | load, repair, save | missing and unreadable files | modelled as stages only |

How they interact: a command calls its stages one after the other, and between
them passes files only. Inside the quad stage `QuadMeshGenerator::GenMesh` calls
`Parametrizer::Initialize` (which builds the directed edges), the field solvers,
and `ComputeIndexMap`, which freezes the differences across the boundary
(`allow_changes`), joins the frames of the faces through `DisajointOrientTree`,
balances the equations and closes them with a `MaxFlowHelper`, repairs flips
and holes and leaves a quad mesh that `extract_patch` cuts into patches.
Everything inside a stage is in memory; only the parallel loops (TBB and OpenMP,
`BUILD_TBB` and `BUILD_OPENMP`, both off by default in CMake) run concurrently. The serial loops are one
schedule of the parallel ones, so what is shown of the parallel loops holds of
both builds.

## The modules

| module | models | how |
|---|---|---|
| `Pipeline` | `CmdMergeFit.cpp`, `CmdReconstructCAD.cpp`, and how each stage treats a missing, unreadable or unwritable file | one process at a time; each stage reads, opens (truncates) and writes its file in three steps that an interruption may separate. A file is abstracted to the model it comes from and whether it is sound |
| `DirectEdge` | `compute_direct_graph` and its quad version, `dedge.cpp:34-162, 205-333` | a thread per face, one compare-and-swap a step; barriers between the loops; a thread per vertex in the last |
| `FlowNetwork` | what `resize` and `addEdge` build | half-edges in pairs, residual capacities, cuts |
| `MaxFlow` | the promise of `MaxFlowHelper` | one step to any maximal flow |
| `ECMaxFlow` | `ECMaxFlowHelper::compute`, `flow.hpp:319-357` | a step per node found, per node left, per half-edge augmented; the order of adjacency lists is open |
| `MinCostFlow` | `NetworkSimplexFlowHelper`, with LEMON taken at its word | any cheapest maximal flow, generated by cheapest augmenting paths |
| `OrientTree` | `DisajointOrientTree`, as `BuildIntegerConstraints` uses it | a step per merge, with every compression it does |
| `FaceFrames` | `parametrizer-int.cpp:125-178`: the loops that merge the faces, and the turned mesh they leave | a step per edge merged, in any order; composes `OrientTree`, and its result is a mesh `IntegerConstraints` may start with |
| `IntegerConstraints` | `parametrizer-int.cpp:180-434`, `optimizer.cpp:9495-9613` | counts, shifts and rounds of flow in the order of the code; composes `ECMaxFlow` (its steps are the steps of `compute`) and `MinCostFlow` |
| `QuadMesh` | the lists `extract_patch` derives from `F_compact`, `optimizer.cpp:583-690`, and going straight on at a vertex | a mesh is a set of faces, the lists are the fields of a record |
| `PatchLines` | `extract_patch` up to 1402: tracing, cutting, boundary loops | a step per port, per vertex of a line, per edge of a loop; singularities in the order of their numbers, ports and boundary edges in any order |
| `PatchLayout` | `extract_patch` from there to 2010: the patch of a grid, patches from pieces, the order of their sides | a step per singularity or crossing, per face tried, per left over piece, per side of a patch; extends `PatchLines` and continues its `pc` |
| `GreedyColoring` | the serial colouring loop, `hierarchy.cpp:218-262` | one step per vertex: the smallest colour that no neighbour has |
| `GraphColoring` | `generate_graph_coloring_deterministic` in both builds, `hierarchy.cpp:117-263` | a step per mutex, per half of a swap, per link read; implements `GreedyColoring` |
| `GraphLevels` | `Initialize` and `DownsampleGraph`, `hierarchy.cpp:55-70, 265-397`, and `adjacent-matrix.cpp` | a step per pair merged and per level; the order of the links is open |
| `QuarterTurns` | integer differences and `rshift90` | pure operators, used by `IntegerConstraints`, `EdgeHierarchy` and `IndexMap` |
| `EdgeHierarchy` | `DownsampleEdgeGraph`, `FixFlip`, `PropagateEdge`, `FixFlipHierarchy` | a step per edge contracted, per face a chain crosses, per flipped face tried, per level |
| `IndexMap` | `subdivide_edgeDiff`, `subdivide.cpp:159-551`, and the order of `ComputeIndexMap`, `parametrizer.cpp:129-150` | a step per edge taken from the queue; composes the halving with `EdgeHierarchy`, whose steps are those of `FixFlipHierarchy` |
| `QuadRepair` | the end of `BuildTriangleManifold`, `FixHoles`, `FixValence` | a step per hole, per vertex repaired, per pass |
| `MCDirectEdge`, `MCECMaxFlow`, `MCIntegerConstraints`, `MCPatchLines`, `MCGraphColoring`, `MCEdgeHierarchy`, `MCGraphLevels`, `MCQuadRepair` | instances for TLC | small meshes, graphs and networks |
| `UntrimProofs`, `ParallelProofs`, `ECMaxFlowProofs`, `EdgeHierarchyProofs`, `IndexMapProofs`, `IntegerConstraintsProofs`, `QuadRepairProofs` | theorems and their proofs | |
| `RecursionTheorems` | lemmas they share | recursive functions, sums over finite sets, forests |

Operators named "Faulty variant" are not part of the model: each is the named
definition with a plausible mistake, kept to show that the properties notice it.

### Correspondence

* `Pipeline`: `disk` is `temp_dir`, `proc` the process with its command line and
  program counter, `mem` what a stage holds between reading and writing, `exit`
  the exit status. `origin` and `trouble` are history variables: what the run
  should be computed from, and which failures its stages swallowed.
* `DirectEdge`: the edge `deg * f + i` is the pair `<<f, i>>`. A failed exchange
  and the read that follows it are one step; that is sound because a head or a
  link that is not `INVALID` never changes again (`NoLostInsert` and the proof
  rest on the same fact). The two writes to `E2E` are two steps.
* `ECMaxFlow`: `q`, `q_front`, `vhash`, `loc` and `total_flow` are the code's
  locals; `pc` is the place in its loop.
* `IntegerConstraints`: a variable is `<<edge, coordinate>>`, an equation
  `<<face, coordinate>>`. `Free` are the variables with an arc in the network,
  `Parts` the colours `sharp_colors`, `Trees` the sets of `tree`; both are
  components in the sense of `Components`, the smallest sets that no link leaves,
  which is what the search of 184-217 and the merges of `DisajointTree` end with.
  `MeshesAssumption` says what the code before line 180 makes of a mesh (see "The proofs"). `Modify` leaves
  open which variables are shifted, as `std::shuffle` does. `AllowChange` 2 does
  not occur at the level modelled: it is only produced with sharp edges inside
  the surface, and `GenMesh` sets `flag_preserve_sharp = 0`. For the same reason
  the feature edges of the instances are boundary edges only.
* `PatchLines`: `ports` are `adj_singularity` and `adj_boundary_singularity` with
  the struck entries (-1) left out; `at` and `left` are the loop variables `i`
  and `j`. `overlap` and `boundary` are lists in the code that are only searched,
  so they are sets; `patch_line` is a bag, since a line may be traced twice.
  `line` ends with the code's `v1` and `v`. The code's `loop` has each inner
  vertex twice, the model once. `sharp_o` is zero (see below), so the passes over
  sharp singularities (1010-1265) do nothing. The inputs are what
  `compute_direct_graph_quad` accepts after `FixValence`: manifold meshes
  without inner vertices of two faces. `boundary_o` comes from the constraints of the
  input mesh; the model takes it to mark the boundary of the quad mesh.
* `PatchLayout`: a piece is a record that tells a second copy in the list from the
  first; `uses` is `number_line_inner` and `number_line_boundary`. A left over piece
  is `<<k, n>>`, once for each use it has left. `starts` is the part of `start`
  not visited yet: the singularities in the order of their numbers, crossings in any;
  `F_inner` holds the faces of one start, taken when it is visited, and the
  parallel lists `patch`, `point`, `Inner_quad` are the fields of one record.
  The four cases of 1586, 1632, 1676 and 1722 differ in the lists they search, which
  `Kind` chooses. Lists of pieces and faces are in any order, so "the first that fits"
  is one that fits. Patches are ordered one by one and without regard to
  each other, so one order of them is enough. A read of a variable that was not set, of an
  index out of range, or of `Inner_quad` out of step with `patch` ends the model with
  `pc` = "undefined"; in a chain this is done as soon as one order of
  the pieces leads there.

* `GraphColoring`: `owner` is the array of spin mutexes, the locals of a body are
  functions of the body. `neighborhood` is a set, because the adjacency of a
  valid mesh has no link twice and none to itself (a repeated mutex would lock
  out its own thread); a vertex that is not manifold has no list at all, but its
  `V2E` is -1 and it is never moved. `reserve` is left out. With
  `BUILD_OPENMP` alone the smoothing over the phases runs in one thread
  (`optimizer.cpp:67-70, 407-410` has its pragma before a declaration, not
  before the loop), so it is the TBB build that needs what is shown here.
* `GraphLevels`: a vertex of a level is the set of vertices of the first level it
  stands for, so `to_upper` and `to_lower` are containment. The similarity that
  orders the links is a floating-point number, hence any order.
* `EdgeHierarchy`: the hierarchy that `FixFlip` makes when it calls itself starts
  with the last level of its caller, so all of them together are one sequence of
  levels, of which `base` belong to callers. Upper edges and faces keep the
  number of their first edge or face, which preserves their order, instead of a
  new number. `None`, `Contracted` and `Dropped` are the code's -1, -2, -3.
  The pairs `E2E` are defined with the loops of 969-974, first corner for one side
  and last for the other, because an edge may be twice in one face.
  The permission 2 is modelled in `UpperAllow` though no input has it. After
  subdivision nothing is frozen for `FixFlip` (`parametrizer.cpp` frees an edge
  that is not sharp *or* not at the boundary), so that only the refusal of open
  fans keeps the boundary; `BoundaryStays` shows that it does.
* `IndexMap`: the directed edge `3 * f + j` is `<<f, j>>`; a part is a face with its
  numbers, differences, flags and space together, before it takes the place of the
  old one. `queue` is a bag, of which any longest entry is taken. The length of an entry is
  compared only to see whether its edge is still there, so it is represented by the two ends; an
  edge of the same length in the same place is halved in its stead, as in the code.
  Frames are angles in the plane in thirds of a quarter turn, so the choice of
  `compat_orientation_extrinsic_index_4` between two axes can be inconsistent
  around a face, which is what `FixOrient` is for. `Boundary_edges` of an inner edge
  is written from `sharp_eid0p`, which is 0. `V2E` and `boundary` are not read
  after this. The endless search at 420 is `pc` = "spinning", the `exit(0)` at 541
  and 548 `pc` = "exit"; `IndexMapEnds` says that neither is reached.
* `QuadRepair`: the directed edge `4 * f + j` is `<<f, j>>`; `marks`, `detected`
  and `erased` are sets. The inputs are quads none of which share a directed edge,
  once those with a repeated vertex are erased (how the pairing of triangles
  before it comes to such quads is not modelled; duplicated edges are in
  `DirectEdge`). Which filling of a hole has the best angles is left open. The
  `return` at the first empty piece of a loop (`parametrizer-flip.cpp:119`) is
  kept: the other pieces stay open; and the rest of an odd hole stays a triangle.
  The `else` of `parametrizer-mesh.cpp:692` cannot be reached, since the walk
  before it leaves its loop before it assigns -1, so open fans are split as closed
  ones. The end of `FixValence` (744-787) changes nothing that is used later.

## The runs

| run | question | result | bounds |
|---|---|---|---|
| `pipeline` | can a run that saw no trouble be wrong, or not be resumed? | no | three processes, two readable models and an unreadable one, writes may fail. Three processes are what it takes to leave a stale file, tear one and resume on it |
| `pipeline_success` | is "Successfully done ..." about this model? | violated: an unreadable model or a failed quad stage ends in success with another model's surface | the same |
| `pipeline_stage4` | does stage 4 start on a fitted surface? | violated: the test looks at the wrong file | the same |
| `direct_edge` | do the racing loops build the directed edges? | yes | all pairs of triangles over four vertices (up to naming) including degenerate, duplicated, folded ones, three faces on an edge, an interior vertex, quads; all schedules |
| `ec_max_flow` | is the flow maximal and sound? | yes, and it implements `MaxFlow` | all diamonds with capacities to 2, parallel and self edges, a path that must be rerouted |
| `integer_constraints` | do balancing and flow close the equations, and only that? | yes | closed pairs of triangles with all mismatches of their frames, a lone triangle, a fan of three around a vertex of index 0, 1, 2; both values of the minimum cost flag; ten rounds as in the code |
| `patch_lines` | are the traced lines put together to patches? | yes: the lines are the separatrices, every region has four corners, each region with a corner inside is exactly one patch with its sides in order, and a grid is one patch | seven plane meshes, two of them grids, and ten closed or open surfaces of cubes of up to 23 faces, two numberings each. Between them lines of one edge and of several, between inner singularities of three and five faces, to regular and singular boundary vertices, crossings, chords, two boundary loops, regions found from one and from several corners, and regions left to the chains |
| `orient_tree` | do frames stay aligned? | yes | four faces, all merges, all turns. Four faces reach ways of length two on both sides of a merge, which is where turns are composed |
| `graph_coloring` | do the bodies of the parallel colouring exclude each other without blocking each other? | yes, and they implement the greedy colouring | four vertices: path, cycle, star, triangle with a tail, and the complete graph; with `MaxColors` = 2 a body may run out of colours while another has vertices it has not begun, and the serial loop, which has no limit, still needs three and four; three cuts into three, three and one bodies. Three bodies are what it takes to wait in a circle |
| `edge_hierarchy` | do halving and the repair of flips on coarse levels keep equations, boundary and the pairing of the edges, and end? | yes | meshes of four to eight faces with two or three inner vertices in all positions of a unit square, turned frames, frozen differences, open equations; meshes whose contraction glues a face to itself or an edge to one vertex. Two and three levels and a recursion occur. For the halving one triangle, two triangles with one edge in common, and two with all three (a closed surface), with differences of length two; in one instance each edge is long, which is where entries of the queue outlive their edges. Up to eight faces come out |
| `graph_levels` | is every level a graph with the weights of the mesh? | yes | a fan, a strip, a closed surface and two components of seven vertices, `MAX_DEPTH` = 4 (25 in the code): connected meshes end before it, the two components at it |
| `quad_repair` | is the mesh that goes to the extraction a manifold? | yes | all parts of a cube, two poles of six kites with holes, parts of eight and twelve kites, a torus with holes that meet, tubes of odd length, vertices of valence two; holes of `LongHole` = 9 edges are left (25 in the code), so that both sides of the bound occur |

The configurations set `CHECK_DEADLOCK FALSE` where the system stops: when the
processes are over, the loops are done, the flow is returned.

What the instances cover was checked by mutation: for each property of each
passing run a faulty variant of a mapped definition breaks it within the same
bounds.

A type invariant is proved for the modules that have proofs, where it is part of the
inductive invariants (in `GraphColoring` it also says that the tables of colours are
long enough); no run is spent on one.

`IntegerConstraints` shows what a full flow does *not* promise: it compares the
flow with the supply only, so equations below zero are closed only when every
component was counted as balanced. `FullFlowCloses` says exactly that, and
`CountsAreReal` that the counts can be relied on. Both are proved for every mesh.

`PatchLines` and `PatchLayout` show where the extraction comes to its limits:

* A chord, an edge of the mesh between two boundary singularities, is traced from
  both ends (`LinesAreTheSeparatrices` states the two copies). A face beside it then
  has two pieces along one edge, and where there is none along the other,
  `end2` and `a2` are read unset (1584-1586). `AssemblyIsDefined` and `RegionsArePatches`
  except meshes with chords; for the other properties they are among the instances.
* The pieces of the boundary have one use, those inside two. A start inside the mesh takes
  all its faces and so spends what it found. At a boundary singularity the region on
  one side of a line can be found from two of its corners (`OneFinder` excludes
  this): then it may become two patches, at the cost of a neighbour. In the run this
  is `TwoNotches`, two notches at opposite corners of a square.
* What is left to the chains is made a patch only if each end has exactly one piece
  to go on with. In the square ring `Frame` the four arms have two and are lost, so
  `RegionsArePatches` promises a patch only for regions with a corner inside the mesh.
* `RegionsAreFourSided` holds where every boundary loop has a cut: a ring without
  singularities has none, its loops are taken twice over (`LoopPieces`), and the
  code for meshes without singularities then reads a fourth piece that does not
  exist (`optimizer.cpp:1478`); in a grid one face wide it reads a neighbour that does
  not exist (1467). `OnePatch` models both as undefined; neither is among the instances.

`EdgeHierarchy` shows what the hierarchy loses. A crushed piece of the mesh all of
whose edges are contracted or dropped has nothing above it; on the way down its
differences become zero (`hierarchy.cpp:529-533`, `1119-1123`), which
`DifferencesSurvive` and `BoundaryStays` except: they say nothing of what such a
piece held. That the loss opens no equation, of the piece or of a face beside it,
is `EquationsSurvive`; the run has pieces whose differences are lost. The message "Unsatisfied" with
its `exit(0)` was reached by no mesh of the run. The second turn of the loop in
`FixFlip`, with `max_len` 2, finds the queue empty (`NextLength`). For the same
reason the second subdivision of `IndexMap` finds nothing to halve in any
instance; only its final test and the equations after it are exercised.

In `QuadRepair` the least obvious property is `HolesNeverGrow`. It looks at every
step that changes a face or only marks faces as erased, as where two faces around
a vertex of valence two have all their vertices in common and both go. A quad of a filling is
left out only when one of its directed edges exists, and then it is the quad
beyond that edge which closes the hole. That the splitting of high valences
ends is shown for the meshes of the run; no bound is known to us that
would prove it for every mesh.

### Fairness

`DirectEdge`, `ECMaxFlow`, `IntegerConstraints`, `PatchLayout`, `IndexMap` (with `EdgeHierarchy`) and
`QuadRepair` assume weak fairness of the next-state relation: some
thread of the running loop takes a step, the solver runs on. Nothing is assumed
of a single thread; the loops are bounded, so every thread finishes anyway.
`GraphColoring` needs more, since a body that spins on a mutex takes no step of the
model: each body runs (`WF_coloring_vars(BodyStep(b))`), because each has a thread of its
own. Weak fairness is enough; a mutex wanted is not taken away for ever, each
body passing a vertex once. `Pipeline`, `OrientTree` and `GraphLevels` assume nothing.

## The proofs

All theorems are proved from the named assumptions of the modules
(`PipelineAssumption`, `DirectEdgeAssumption`, `NetworksAssumption`,
`ColoringAssumption`, `GraphsAssumption`, and the `MeshesAssumption` of `IntegerConstraints`
and those of `PatchLines` and `EdgeHierarchy`), for every value of the constants.
TLC evaluates the assumptions on the instances.

* `UntrimProofs`, of `Pipeline`: the inductive invariant `FaithfulInv` says of a process
  without trouble that the files of the steps it completed hold what it started
  from, that its `mem` does too, and that the file it started on is untouched.
  The last is needed because the origin of a resumed run is a file, which must
  not change under it. From it follow `QuietRunsAreFaithful`, `StepsSurvive` and
  `EarlierFilesAreKept`.
* `ParallelProofs`, of `DirectEdge`: `InsertInv` adds to `NoLostInsert` that an edge not yet
  inserted is on no list and has the link of its own making, that the edge a
  thread searches from is inserted and leaves the same vertex, and that no two
  threads own an edge. The step that matters is `InsertTailKeeps`: the exchange
  succeeds only on a link that is `INVALID`, so no edge loses its predecessor.
  Then `ChainInv` says that no list runs in a circle
  (`Grounded`: every set of inserted edges has one that is a head or linked from
  outside), so that at the first barrier a list is exactly the edges that leave its
  vertex and the second loop, which reads only lists, decides from the mesh
  alone. `MatchInv` says that only facing edges are linked, and both or, between
  the two writes of a thread, one of them (`BothLinked`, `HalfLinked`): writes of two
  threads to one place write the same. `WalkInv` gives a walk of the third
  loop the set of edges behind it (`Walked`): a turn leads from it into itself or to the edge
  reached, of which `v2e` is the smallest. Nobody writes `E2E` any more, so when
  the walk is back at its start the set is the whole fan, and where it meets a
  boundary it is at the first edge.
* `ECMaxFlowProofs`: `ECInv` adds that the queue holds each found node once,
  that every entry came from an earlier one over a half-edge that had capacity,
  and that entries before the front have no usable half-edge. When the queue is
  exhausted the last part is the saturated cut. Since an augmentation walks the
  entries back and each node is in the queue once, no half-edge is raised twice,
  which is why capacity is never exceeded. `FlowInv` adds that the flow is
  conserved at the nodes between, and that `total_flow` is what leaves the
  source: `UnitsMove` says that a unit over a half-edge changes the balance of its two
  ends only, so a unit on its way is missing at one node, the
  place `loc`. `KeepsThePromise` is the refinement of
  `MaxFlow`. That its word "maximal" is the usual one is `MaximalIsLargest`:
  the value of a feasible flow is what crosses any cut (`ValueCrosses`), so
  none is larger than one that saturates a cut.
* `ParallelProofs`, of `GraphColoring`: `ColoringInv` is the conjunction of `MutexInv` (who holds which
  mutex at which place of its program: a prefix of the ascending list while
  locking, the rest of it while unlocking), `StageInv` (what cannot be going on
  in which loop), `SwapInv` (between the two writes of a swap the permutation
  lacks exactly the value in the temporary), `WorkInv` (the places not yet
  visited have uncoloured vertices) and `ReadInv` (the colours taken are those of
  the links read, and cannot have changed, since the mutexes of the neighbours
  are held). The refinement `GreedyCorrect` is the step `Choose`: with all
  neighbours locked the smallest colour not taken is the smallest free.
* `ParallelProofs`, of `GraphLevels`: `LevelsInv` says that the vertices of a level
  split the mesh
  (`Split`), that two of them are linked exactly when the mesh has a link between
  them (`LinksCut`), that merged pairs are disjoint and linked (`MergedInv`), that
  each is connected (`Pieces`), and when the levels end (`LevelsEnd`). Symmetry and
  the absence of loops then come from those of the mesh. A linked pair is
  connected (`UnionConnected`), which is why coarsening a connected mesh can only
  end with one vertex. `Weighed` adds that a link weighs the links of the mesh that
  cross between its ends; a merged vertex has the disjoint union of them.
* `IntegerConstraintsProofs`: the inductive invariant `BalanceInv` says that the
  components in `total_flows` are whole (`Whole`: with one equation that counts a
  variable, all that count it) and sum to what is counted (`Counts`), that while a flow
  is sought its network is that of the present differences and the flow is
  feasible (`Round`), that frozen coordinates are as they were (`Frozen`), and
  that nothing is above zero after a full flow (`Settled`). The argument:
  the uses of a variable lie in one part (`PartsAreWhole`) and in one tree
  (`TreesAreWhole`), so a shift moves one component by its signs
  and no other (`ShiftExcess`), and several shifts add up (`ShiftMany`), which
  is what the counting in `Modify` relies on. An arc joins the two equations of
  its variable, so conservation at the node of an equation says that the flow
  changes its residual by what it takes from its terminal (`ResidualMoves`), which is at most the residual;
  hence `FlowOnlyCloses`, and the sum of a component, which the flow changes by nothing.
  When the value of the flow is the supply each terminal is saturated. That the
  flow is feasible comes from `ECMaxFlowProofs` with the networks that can be
  built (`Built`), and without that helper from the paths of `MinCostFlow`: a unit
  along a path of half-edges with capacity keeps a flow feasible.

  `MeshesAssumption` has two parts. `Surface` is what the code before
  `parametrizer-int.cpp:125` is given: an edge has
  at most the two corners that `E2D` keeps (116-122), and feature edges (`sharpUE`)
  are those of the boundary, since `flag_preserve_sharp` is off, so they have one.
  `FramesOppose` is what the disjoint tree makes of it, and is proved: without it
  the counting *is* wrong, since a variable
  of two equations in different parts is counted in the first one only.

  `TreeInv`, the invariant of `OrientTree`, says that the links to the parents run in no
  circle (`Forest`: some height falls along them), that the turns on the ways
  to the root differ across a link by what its merge asked for (`Aligned`), and that no
  set of nodes parts two nodes of a tree without parting a link (`Spanned`). Compressing
  a path changes no root and no turn (`Compressed`, `TreeFind`); hanging a root from
  another takes its whole tree along, turned by the same quarters (`Hung`), so old links
  stay aligned and the new one is (`TreesJoined`). That is `LinksStayTurned`, for any number
  of nodes and whichever root wins. In `FaceFrames`, whose tree has a node for each face, the links are edges of the mesh
  (`TurnInv`): the turn asked for is that of the other corner plus two, so both corners of
  a link oppose each other once the faces are turned by `Orient` (`TurnedOpposed`), and
  when every edge with two faces was merged, `Spanned` is `FramesOppose` of the
  turned mesh: `TurnedFramesOppose`. The order of the three loops (136-170) plays no part.
* `UntrimProofs`, of `PatchLines`: the inductive invariant `IInv` is a tally of the ports. `DuePorts`
  are the ports that a line is still due from: unstruck, and at a singularity to
  come or not yet reached at the one visited; `CurrentPort` is that of the line
  being traced. `Tally` says that no line ends at these, one line ends at any other
  port, none at a port along the boundary, and along a chord one for each end that has been
  visited. The argument: at a regular vertex of a manifold mesh the four turns come back
  (`FourTurns`), so straight on is undone by going straight back
  (`RegularGoesStraight`), a line read backwards is a line (`BackwardsRuns`), two
  lines with a common port are the same or the reverse (`SameLine`, `SharedPort`), and no line is its own
  reverse (`NotOwnEnd`). So a line that arrives at a port where another ends would have
  begun where that one did, and its own port would not have been due; hence the port it
  strikes is due and unstruck (`ArrivesAtDue`, `StrikesAlwaysFind`). `Expected` says
  that the counter `assist` of an inner singularity is the number of its due ports,
  which is what lets `NextSingularity` skip one whose counter is zero. It follows too that
  the second pass never runs into an inner singularity
  (`PassIntoSingularity`, where the code strikes no port, is never taken). When
  nothing is due any more the tally is `LinesAreTheSeparatrices`.

  The assumption is `Manifold` of `QuadMesh`: `compute_direct_graph_quad` has
  checked the orientation of the edges, and `FixValence` has split the
  vertices with several fans and removed inner vertices of two faces.
  That the faces of a vertex are one fan then is `RepairLeavesManifold`, below.
* `QuadRepairProofs`: each pass works on lists made before it, so the inductive invariant
  `RepairInv` says for each pass that there is a mesh which the lists are those of, and how
  the present faces differ from it. While holes are filled (`AtHoles`) only faces have been added, so the
  walk along a hole (`LoopTyped`) and the fillings of its pieces (`PiecesTyped`,
  `FillingsTyped`) are on vertices there are, and a quad is added only if it shares no directed
  edge (`AllAddedKeeps`). While vertices of two faces are removed
  (`Merged`) a face that is no longer that of the mesh had only vertices that are in `marks` or that the sweep
  has passed, so of a vertex that passes the test of
  `marks` the two faces are those the lists show, and the quad around both has just their four outer edges
  (`Merge`). When a vertex of several fans is split, each fan goes to one vertex (`FansApartMesh`): two
  edges of a fan follow each other around the vertex, which the
  walks of `FanOf` do not leave (`FanFacts`). While vertices of high valence are split (`Splitting`) the faces of
  a vertex that is not in `marks`, with no neighbour there, are those of the mesh of the lists, so the faces that are moved to the new vertex
  lie between two edges of its one fan, and what is left, what is moved and
  the new face are a mesh again (`SplitMesh`) with one fan at each vertex (`SplitOneFan`).
  `Placed` carries along what `SplittingMovesNothing` says. In the end a walk from
  `Start` passes a set of edges that no neighbour leaves, which with one fan is
  all of them (`ManifoldIs`). A walk is an orbit of a function
  that is one to one where it is defined (`OppositesFacts`, `BackForth`), so it ends at
  the boundary or where it began (`OrbitIs`); that it stops at all in the model,
  whose walks are bounded by the number of edges, is part of this.

  `MeshesAreOriented` is assumed of the mesh that comes from the pairing of triangles, as
  for the runs. How the loops are cut and filled plays no part in what is proved, only
  that what comes out are simple quads.
* `EdgeHierarchyProofs`: `IInv` says that every level is a `Level`: its edges are at the corners
  of the faces that are their sides, at one corner of each unless both sides are one
  face. While the next level is built, `Contracts` says that contracted edges are zero and lie between
  crushed faces, which are closed, and that each crushed face has one; `Links` that an
  edge that has a place above (`LeadsTo`) is equal to it after its turn and has its
  sides there, that one without a place yet is between a crushed face and one that is left, and that
  one that is dropped is between crushed faces. The argument is the chain
  (`Chained`): in a crushed face the two edges that are not contracted have the same difference but for
  the turns (`CrossFacts`), because the face is closed and the third is zero, so along a chain all
  are that of its first edge, and a chain that comes back to an edge it has
  does so with the same turn. Then a difference above is that of its
  first edge (`UpperDiffFacts`) and turning back what was turned loses nothing (`UpperSurvives`);
  the upper level is a `Level` again (`UpperIsLevel`). Since `FixFlip` calls itself, the
  invariant holds on whatever level is the last: a level with its differences changed by a fan is still a level
  (`ShrunkIsLevel`). No bound on the length of chains or fans is used.

  `MeshesAssumption` says that a mesh is a surface of triangles: an edge is on one
  face or two, and at one corner of each. Its equations may be open, its
  differences of any length and its turns inconsistent.
* `IndexMapProofs`: `MapInv` has a part for each part of `ComputeIndexMap`. While edges are
  halved, the surface is `Surfaced`, which is that its darts are `Sewn` in pairs with one number
  and opposite ends, and `Halving`, which is that the difference of a
  dart is its edge's after the turn and that turns and differences are those of the frames. A halving touches one or two faces and writes each
  table several times in the order of the code, so the argument is in three parts: the links
  (`SewnAtBoundary`, and `SewnBetween` for a face that shares two edges with its neighbour), what the
  tables hold after all writes (`TablesRewritten`), and the turns, which
  `AnalyzeOrient` computes from the remainder of the difference and the frames (`OrientTyped`, `FixOrientFacts`):
  a turn that one side gets belongs to what the other side wrote (`HalveAtBoundary`, `HalveBetween`).
  `BeginKeeps` is the same for the first tables, and for the second round it is entered
  from what `UpdateGraphValue` leaves. In between, the surface is a mesh
  that `FixFlipHierarchy` may be called with (`SurfaceIsMesh`), so
  the invariant of `EdgeHierarchyProofs` holds, and `Tower` adds that the first level keeps the
  edges and faces of the surface and each level those the turns below lead to; hence
  what comes down fits it again.

  `SurfacesAssumption` says what `BuildEdgeInfo` makes of an oriented manifold (`Manifold`): the two sides of
  an edge, and no others, have its number, and they run against each other. Nothing is assumed of
  differences, turns or frames. The theorem is about the time while edges are halved (`pc` = "split"),
  and says nothing of a run that has ended in `exit(0)` or in the endless search of line 420.
* `RecursionTheorems`: the induction theorems of the library take an operator,
  which the provers cannot instantiate. Each induction is therefore written as
  the choice of a minimal counterexample: of the least natural
  (`LeastNatural`) or of a minimal finite set (`MinimalFiniteSet`). From them come the
  equation of a recursive function (`Recursion`), iteration,
  the sums over finite sets that `MapThenSumSet` stands for,
  and the facts about forests that the proofs about `OrientTree` use.

Only model-checked: termination (liveness under fairness); `HolesNeverGrow` of `QuadRepair`, which
counts the open edges before and after a step; `EquationsSurvive` and `FlipsNeverIncrease`; of `EdgeHierarchy` also `BoundaryStays`,
which would follow a frozen coordinate down through all levels; `PatchLayout`, whose sides are
walked by recursive functions; and of `PatchLines` `RegionsAreFourSided`, which is about the regions
reached from a face. The numbers that `BuildCompactParent` gives out are used by no property.
`FaceFrames` is proved about and not run: its tree is checked by the run `orient_tree`.

## Not modelled

Floating-point fields and fitting, file formats, rendering files, the Boost,
LEMON, Gurobi and OpenCascade libraries, CUDA. `FixFlipSat` is never run:
`flag_aggresive_sat` is 0 and nothing sets it. Paths for interior sharp edges
cannot be reached from the commands although `README.md` lists
`angle_for_sharp` ("recognizes sharp feature"): `GenMesh` overwrites the flag
with 0 (`QuadMeshGenerator.cpp:48`), so `ComputeSharpEdges` returns before it
looks at an angle.

## Plan

In this order:

1. A proof of `EquationsSurvive`, for which a face of every level must have the residual
   of the face of the mesh.
2. Narrow patches: `collapse_boundary`, `size_three`, `sin_*` (`optimizer.cpp:2012-7813, 8869-9000`),
   which continue `PatchLayout` with `collapse_patch`.
3. Which meshes with two inner boundary corners in one region, and which rings,
   `PatchLayout` still lays out, and the walk of
   `QuadMeshGenerator.cpp:64-110` as an instance of the same loop actions.
4. The pairing of triangles in `BuildTriangleManifold`, `remove_nonmanifold`; an
   invariant of `IndexMap` that bounds the differences left, for every surface.
5. `MultiPatchFit`: connectivity, refinement loop, knot insertion across patches;
   `MeshRepair`: `load.cpp`, `fixmesh.cpp`.
