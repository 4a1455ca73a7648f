# A TLA+ model of RAPx

RAPx is a static analyser for Rust that runs as a compiler driver: rustc hands
it the MIR of a crate, and each analysis walks the bodies and prints what it
found. There are no threads and nothing is persisted. What makes the code hard
to get right is state that lives through a deep recursion: one graph is mutated
along a path, saved and restored at branches, contracted at loops, merged with
summaries of other functions, and cut off at a visit limit, and the order of
many steps is the iteration order of a hash set. The models keep this control
and let TLC try every order.

## 1. Inventory

Paths are below `src/rapx/src/`; `A/` stands for `analysis/`.

| Part | State | Operations | Interacts with |
|---|---|---|---|
| driver, `lib.rs`, `bin/` | flags, phase, child process | parse flags, spawn cargo, wait one hour, kill, run each analysis | cargo, rustc, all analyses |
| alias summaries (MoP), `A/core/alias/` | `fn_map`, `recursion_set`, one graph per body in progress | `query_mop`, `check`, `alias_bb`, `alias_bbcall`, `merge_results` | safedrop reads `fn_map` |
| heap-item types, `A/core/heap_item*` | `adt_recorder`, the table `adt_owner` | collection of types, four passes over them, accessors | safedrop (`drop_heap_item_check`), rCanary |
| safedrop, `A/safedrop*` | `values`, `alias_set`, `dead_record`, `constant`, blocks, bug records, `visit_times` | `new`, `solve_scc`, `check`, `split_check*`, `alias_bb`, `alias_bbcall`, `drop_check`, `dp_check`, `report_bugs` | summaries, heap items |
| rCanary, `A/rcanary*` | topological order, ownership bit vectors, solver context | `topo_order`, one handler per statement and terminator form | heap items, SMT solver |
| dataflow, `A/core/dataflow*` | nodes, edges | add statements and terminators, `dfs` and its queries | performance checks |
| call graph, `A/core/call_graph*` | nodes by path, edges | add node, add edge | - |
| API dependencies, `A/core/api_dep*` | graph of APIs and types | add, match generic types | - |
| senryx, `A/senryx*` | abstract state per path, recorder of analysed callees, results | paths, transfer, call with cache, contract check | safedrop's `get_paths` |
| unsafety isolation, `A/unsafety_isolation*` | nodes with callers and callees | breadth-first extension, drawing | - |
| performance checks, `A/opt*` | none of their own | patterns over dataflow graphs | dataflow |

Behaviours that are hard to test, with the line where each bites, are the
`hazards` of `PROJECT.json`. They fall into these groups: state of one path seen
by another; four parallel Vecs that must stay in step; aliases written past the
union-find; contraction of loops under any hash order; limits that cut a result
in half; tables updated in place in hash order; bit vectors whose width, name and
owner must agree over dozens of handlers; searches without a visited set; a
cache whose entries are of another call. The correctness properties of section 4 are aimed at these.

## 2. Modules

| Module | Models | Kind |
|---|---|---|
| `UnionFind` | `union_find`, `union_merge`, `union_is_same` on `alias_set` | operators |
| `AliasPartition` | what `alias_set` promises: a partition that only gets coarser | abstract specification |
| `AliasSet` | `alias_set` under its writes: a push, a merge, the direct write for a discriminant | state machine |
| `AliasSetProofs` | theorems about `AliasSet` for every number of nodes | proofs |
| `SccContract` | what `solve_scc` computes, in closed form from the order of the depth-first search | operators |
| `SccSolve` | `tarjan`, `solve_scc`, `switch_target` step by step | state machine, used by two others |
| `SeqLemmas` | facts about stacks as sequences, used by the three modules of proofs about recursions | proofs |
| `SccSolveProofs`, `SccTarjanProofs` | theorems about `SccSolve` for every body: the stack and the contraction; the components | proofs |
| `SccPaths`, `MCSccSolve` | `dfs_on_spanning_tree`, `get_paths`; all graphs of four blocks | state machine, instance |
| `SeqOps` | `Last`, `Front`, folds and orders of a set, named as in SequencesExt; that module would bring some two hundred theorems into every step of the proofs about the two graphs | operators |
| `ValueNodes` | `ValueNode`, the Vecs and the maps | operators |
| `MirBlocks` | `SafeDropGraph::new`: statements and terminators to blocks | operators |
| `DropGraph` | `projection`, `merge_alias`, `merge`, `fill_birth`, `dead_node`, the bug checks, the effect of a block | operators |
| `SafeDrop`, `MCSafeDrop` | `query_safedrop`: `solve_scc`, then the recursion of `check`, then the report; families of bodies | composition, instance |
| `SafeDropProofs` | theorems about the walk of `check` for every set of bodies | proofs |
| `MopGraph` | `MopGraph`: nodes, `merge_alias`, `merge`, `merge_results`, the effect of a block | operators |
| `Mop`, `MCMop` | `MopAlias::start`: all functions of a crate, each with the recursion of its `check`, nested where a call needs a summary; families of crates | state machine, instance |
| `MopProofs` | theorems about nested calls and branches for every set of crates | proofs |
| `HeapTypes` | types, `DefaultOwnership`, `Encoder::encode`, `TyWithIndex` | operators |
| `HeapItem`, `MCHeapItem` | `TypeAnalysis::start`: the collection of types and the passes; the queries of `HeapItem` and `IsolatedParameter` | state machine, instance |
| `TopoOrder` | `FlowAnalysis::order`: `collect_edges` and `topo_order`, edge by edge | state machine |
| `TopoOrderProofs` | theorems about `TopoOrder` for every body | proofs |
| `IntraVisitor` | `IntraFlowAnalysis`: the handlers of statements and terminators | operators |
| `RCanary`, `MCRCanary` | `rCanary::start`: `HeapItem`, then `TopoOrder`, then the flow through one body | composition, instance |
| `DataflowGraph` | `Graph`: nodes and edges from statements and terminators | operators |
| `Dataflow`, `MCDataflow` | `build_graph`, then one query: `collect_equivalent_locals`, `param_return_deps`, `BoundsLenCheck`, `UsedAsImmutableCheck`, each by calls of `dfs` | state machine, instance |
| `Senryx`, `MCSenryx` | `SenryxCheck::start`: visitors of bodies, one per call in progress | state machine, instance |

### State and actions

*Recursion.* `tarjan`, `dfs_on_spanning_tree` and `check` call themselves. Each
is a stack of activations in a variable (`calls`, `frames`) and one action per
stretch of code between two calls. A loop over a hash set is a set that is
emptied in any order; a loop over a `Vec` is a sequence.

*Vecs and maps.* A `Vec` of length n is a function on `0 .. n-1`, a hash map a
function on its keys. `constant`, `fields`, `df` and `child_scc` are maps.

*Types.* The graph asks three things of a type: `needs_drop`, `is_not_drop` and
`kind`. `Ty` is a record of the answers. A MIR place is a local and a sequence
of projections (`Deref`, `Field`, others), an operand is a copy, a move or a
constant.

*Callees.* In `SafeDrop` a call carries what the analysis looks up about the
function called: whether MIR is available, the alias summary, whether it is one
of the functions that `corner_handle` exempts. A `Drop` carries the answer of
the heap-item analysis for the dropped type.

*Visits.* `check` with its early return, `split_check` with its test, and the
loop over switch targets of a component (`child_scc`) are separate actions of
`SafeDrop`; the state saved by the code is saved in the frame, and each restore
gives back exactly the fields the code gives back. For a switch target the search
for the blocks of the component that can follow it is a frame of its own (`work`),
one step per block taken from `work_list`.

*Summaries.* In `Mop` the functions in progress are the stack `active`, each a
record with its graph, its contracted blocks and its `frames`; the last one
runs. `alias_bbcall` is five actions, one for each way a call can go (no callee
to look up, nothing to apply, no MIR, cached, nested), and `nested_return` for
the rest of it once the callee is done. `solve_scc` of a nested function is one
step with the result of `SccContract`, for each order of the search; `scc_solve`
checks that this is what the algorithm ends with. `calculate_scc_order` is a frame
(`ways`) with the calls of it that are left, one step per call. A summary is merged in each
order of its hash set. `check` copies `fn_map` and `recursion_set` into the frame
and `next_order` puts them back, as the code does.

*Recursion over fields.* `merge_alias`, `fill_birth` and `dead_node` call themselves
for each field. `Tour` lists the nodes in the order of these calls and the operators
fold over it, with what the code does after the calls at the end of a node's part.
`merge_alias` creates the fields it goes on with, so it is written with the rounds
that its calls have left (`todo`). A merge that is not done after twice as many rounds as there
are nodes (`MaxRounds`) has no end; the graph then has the pair in `endless`, and
the walk stops there (`Recurses`). The fields of a node are in a hash map; the model visits
them in ascending order, which decides only the numbers of the nodes that are created. Two things are
written as the set they reach, which is exact: `dead_node` with the alias flag comes back
only to nodes of one class, where `dead_record` stops it, and `exist_dead` visits each linked
node once.

*Heap items.* `adt_owner` is updated in place, one type per step, and the next
type is any that is left: the code goes through a `HashSet`. A type visitor that
returns `ControlFlow::Break` is a state with the flag `brk`; where the caller drops
the result, the model does too.

*Ownership vectors.* rCanary describes who owns what by bit vectors and gives the
constraints to an SMT solver. The model keeps the solver as the set `ms` of the
solutions so far, each a function from the vectors that have been named to the
bits that are 1. `c = v` filters the solutions that know `c` and extends those
that do not, so that a vector that is named twice is constrained twice, as it is
in the solver. `check` answers `Unsat` when no solution is left, `Sat` otherwise,
and may always answer `Unknown`: the solver has a second. Every handler of
`intra_visitor.rs` is an operator on the slice of the current block; where the
code would index or unwrap in vain the flag `bad` is set, and the step ends in
`panic`. The copy and the move forms of a handler, which the code writes out
twice, are one operator with a flag. The bodies of a crate share nothing but
`adt_owner`, so a behaviour follows one of them, any one.

*Dataflow.* A query is a chain of searches, a search a stack of frames with the
edges left to take. `STACK` is the depth at which the stack of the thread
overflows: `dfs` has no set of visited nodes. An edge carries two fields that the
code does not have, the statement and the position of the operand; properties
read them.

*Senryx.* `stack` holds the visitors at work, each with the states of its paths,
its recorder and its results. A step visits one block: its statements, then its
call, which pushes a visitor if the callee has MIR. Where the code reads several
paths from a hash map the model takes every order. The visitor of a method is used again
after each constructor, and its second `solve_scc` reverses the lists of sub
blocks: `solved` says whether the number of these calls is odd or even.

*History.* `cfg` (the graph before contraction), `cut` (a call of `check` was
refused) and `graph.unknown` (locals whose last write is no constant) are read
by properties only. In `Mop` they are `applied`, `cut`, the `entry`
of a split and the `cond` of a restore; in `IntraVisitor` it is `reused` (a new
vector had a name that was taken).

## 3. Runs

Every run enumerates all bodies of a family and, for each, every order of the
hash sets.

| Run | Instance | Shows |
|---|---|---|
| `alias_set` | 4 locals, 2 of them discriminants, up to 6 nodes | entries always name the least node of the class in one step, aliases are never lost, the array implements the partition |
| `scc_solve` | all graphs of 4 blocks whose start block has no predecessor | components, contraction, sub-block order and paths are exact in every order and have the closed form; it ends |
| `safedrop` | bodies of two assignments, a call or a drop and a use, over boxes, pointers, fields and a discriminant; diamonds, switches of up to four ways, loops, unwinding, two diamonds in a row; components analysed once per switch target, with and without an exit; calls whose summary links a value with a part of itself; some of them with a limit of 4 visits | Vecs in step, fields are trees, aliases flat, a drop only kills what shares memory; the bugs reported are those of the separate paths; a component is left for good; a report is never partial, visits are bounded, the analysis ends unless a node is merged with a part of its own |
| `safedrop_index` | such components with field nodes | **violated**, see findings |
| `safedrop_constant` | branching bodies | **violated**, see findings |
| `mop` | three functions, each calling any of the three or none; branches with shared callees; callees without MIR, function pointers, constants; two switches in a row on discriminants, integers, fields, constants; loops with an inner loop or a second exit, with and without `FAST_ALIAS`; a function that stores one argument in another, called with both the same; `foo` of the repository's three alias tests, called by a `main`; the loops and some of the switches also with a limit of 4 visits | a function is nested at most once, a cached summary is the function's own and fits its call, a path stays with its variant, branches start alike, the orders of a loop body are ways through it, the tests' summaries come out, the analysis ends unless a node is merged with a part of its own |
| `mop_while` | a loop with one exit | **violated**, see findings |
| `rcanary` | the crates of the repository's heap tests; a struct of two fields for every choice out of eight kinds, and instances of it; an enum with variants of one and two fields; the three leak tests; all programs of at most three steps that forget a box and copy, wrap, unwrap, guard or recover its pointer; all sequences of three moves, drops and calls on two structs of two boxes; bodies with branches, two returns, a loop, an enum, inline assembly, references, a call into what a reference points to | the passes find what is held in every order; blocks are ordered after their predecessors; vectors have one width except for an enum that is filled again with a variant of another size, a panic has one of two causes, a leak is reported exactly when nobody takes the object back, and the tests' outcomes come out |
| `rcanary_vectors` | one aggregate of two moved boxes, and other pairs | **violated**, see findings |
| `dataflow` | all bodies of one or two items out of twenty-one kinds; assignments in a cycle; `for i in 0..v.len()` in all combinations of two vectors, bounds and copies; a clone that is passed on, in 27 | edges are grouped by assignment, every query gives what reachability says, the search for a class enters no node twice, the bounds check names the vector whose length bounds the index, a query on a graph without a cycle is answered |
| `dataflow_strict` | bodies of two items | **violated**, see findings |
| `senryx` | bodies of three statements out of eighteen kinds with two checked calls, on one path, on two or three, around a loop; methods with no, one or two constructors, with and without a loop; callers of callees on two paths; a callee that is itself a checked function; recursion; an unbounded parameter | what is known on a path comes from that path, an item is missing, and the check panics, only after a cached call, a cast starts at the origin, the first call is reported, the check ends |

*Bounds.* Two locals with two discriminants between them and two later nodes are
enough to have a merge of merged classes and a push between merges. Four blocks are enough for a
component of two inside a component of three and for a cross edge between
finished components. The straight bodies have an owner, an alias of it and a
user, with every pair of statements from the forms that create aliases. The real
visit limits (1000 in safedrop, 100 in MoP) only matter relative to the number
of paths: a limit of 4 is hit before, at and after a branch of these bodies, and
that of the other bodies (20 in `SafeDrop`, 100 in `Mop`) is never
hit. Three functions are enough for a cycle of two below a
caller and for a callee shared by two callers. `FooAsTested` ties the model to the
tool's observed output: the MIR of each `foo` is written out by hand, and the
summary must come out as the test asserts it. `HeapAsTested` and `LeaksAsTested`
do the same for the heap and leak tests. For the passes over types the size of a
struct matters little: what a pass reads is one other entry of the table, and two
fields are enough for one to be visited before and one after it is updated. Three
steps are enough to copy or wrap a pointer, to copy the copy, and to take the
object back through either. The dataflow stack holds 16 frames, more than the
longest way through a graph without a cycle; the senryx stack holds 5 visitors,
more than the functions of a crate without recursion.

*Fairness.* The analysis of a body is one sequential computation, so the only
assumption is that it goes on while it can: weak fairness of a step. `SafeDrop`,
`Mop` and `Senryx` spell it out, because evaluating `ENABLED` of these steps is slow:
again and again the analysis has ended, or a step changes the state. A merge without end
counts as an end here and `Terminates` names the case. That a step is
possible until then is what the deadlock check of these runs shows. `Dataflow` assumes
fairness of the steps of a query only, not of the steps that build the graph.
`Terminates`, `AcyclicIsAnswered` and `ChecksEnd` are checked under it. Nothing is assumed of the order of hash sets; the `fields` maps are the exception named in section 2.

*Deadlock* is checked for the alias array, the contraction, `SafeDrop`, `Mop` and
`Senryx`: a finished analysis may stutter (`Stop`), and any other state without a
step would be an error. `RCanary` and `Dataflow` simply stop when the analysis is
done, has panicked or has overflowed its stack, and their configurations say so.

## 4. Properties

A property that a run checks is often the conjunction of facts that are stated
one by one in the module; the table names them.

| Run | Property | Made of |
|---|---|---|
| `alias_set` | `IInv` | `TypeOK`, `Flat` |
| | `HeadIsLeast`, action property `AliasesAreKept`, refinement `ImplementsPartition` | |
| `scc_solve` | `ComponentsAreExact` | `SccTypeOK`, `ComponentsAreMutual`, `AllReachableSolved` |
| | `ContractionKeepsFlow` | `ContractionIsExact`, `SubBlocksInOrder` |
| | `ResultIsClosedForm`, `PathsAreExact`, liveness `Terminates` | |
| `safedrop` | `GraphIsSound` | `TypeOK` (the three Vecs have one length), `FieldsAreTrees`, `AliasesAreFlat`, `IndexIsPosition` where there is no child component |
| | `LimitIsHonoured` | `ReportIsComplete`, `VisitsAreBounded` |
| | `OnlyLinkedNodesDie`, `PathsAreIsolated`, `ComponentsAreLeft`, liveness `Terminates` | |
| `mop` | `SummariesAreTyped` | `TypeOK`, `SummaryFitsCall` |
| | `BranchesAreSeparate` | `OneVariantPerPath`, `SiblingsStartAlike` |
| | `NestedOnce`, `SummaryIsStandalone`, `OrdersAreRounds`, `FooAsTested`, liveness `Terminates` | |
| `rcanary` | `AnswersAsTested` | `HeapAsTested`, `QueriesAgree` |
| | `TableIsOfFields` | `HeapTypeOK`, `RecorderIsClosed`, `IsolatedIsHeld`, `OwnerHoldsUnit` |
| | `OrderIsTopological` | `LevCounts`, `OrderedOnceAfterPreds` |
| | `HandlersAgree` | `RTypeOK`, `WidthsAgree`, `PanicsAreKnown` |
| | `LeaksAreReported` | `ReturnsAreChecked`, `LeaksAsTested`, `ReportsAreExact` |
| | `LayoutMatchesSummary`, `VectorsAreMoves`, action properties `PassesOnlyAdd`, `NotMultiplied` | |
| `dataflow` | `EdgesNameItems` | `DTypeOK`, `SeqNamesBatch` |
| | `AnswersAreReach` | `ClassIsCollected`, `ClassSearchIsSimple`, `DepsAreReach` |
| | `ChecksAreOfOneValue` | `BoundsAreOfOneVector`, `IndexIsArgument` |
| | liveness `AcyclicIsAnswered` | |
| `senryx` | `VisitorsKeepToPaths` | `STypeOK`, `StatesAreOfOnePath` |
| | `ItemsHaveOrigins` | `CastsStartAtOrigin`, `NoneOnlyFromCache`, `PanicsAreKnown` |
| | `ReportIsOfFirstCall`, liveness `ChecksEnd` | |

What the less obvious ones say:

- `PathsAreIsolated` compares the bugs with those of a walk in which every branch
  has a graph of its own.
- `NestedOnce`: `recursion_set` is exactly the functions nested for a caller, each
  once, in spite of the copies that are put back.
- `SummaryIsStandalone` compares `fn_map` with summaries computed path by path
  without any cache, for functions whose calls do not recurse. On a cycle the
  summary depends on where the analysis entered it, which the code admits.
- `RecorderIsClosed`: no pass unwraps a missing entry. `IsolatedIsHeld` and
  `OwnerHoldsUnit` hold in every order of the types. There are two
  exceptions, in which the code breaks a visit off: a tuple with an enum in front
  of the parameter (`BreaksTuple`), and a struct that also holds an instance of the generic type
  without parameters (`MixesInstances`): the visitors remember definitions, although the
  comment says that two instances are "totally different".
- `LayoutMatchesSummary` relates the layout of an instance to its summary.
- `VectorsAreMoves`: with moves, drops and calls alone the solver has one solution,
  which is what the borrow checker calls initialised. The exception is a field of an argument
  that was dropped or passed on (`Forgotten`): `handle_drop` returns early for it, and it
  stays owned.
- `WidthsAgree` and `PanicsAreKnown`: the handlers fit together, with two exceptions. An enum that is
  filled again with a variant of another size gets a new length and keeps its vector
  (`Refilled`), and the solver stops at the next operation on it; a call whose
  result goes into what a pointer points to asks for a field that is not there
  (`CallsIntoPointee`). The handler of `l.f = move *r` would fail too; it is left out,
  because optimized MIR reads a box through a raw pointer that comes from a cast,
  where rCanary gives the variable up first.
- `LeaksAsTested` and `ReportsAreExact`: a leak is reported only if there is one,
  and it is if the solver answers. The leaks are those of objects that the body forgets; some of the
  bodies with branches are there with the leak that rCanary misses. `ReturnsAreChecked` is about bodies
  without a cycle, because blocks on or after one are left out of the order.
- `ClassIsCollected` states the class as the code collects it: what can be reached
  from the root through locals that the search passes. What the comment promises for `strict` is
  `StrictIsStrict`, which does not hold.
- `BoundsAreOfOneVector` executes the body: an index that the check lists is used on the vector
  whose length bounds its range. The locals on the way must be assigned once (`SetOnce`); the
  graph has no flow, and for a local that is assigned twice the check does mix vectors.
- `StatesAreOfOnePath` compares the state of a path with a replay of that path
  alone, except for places that a call has told the state of (`Told`).
- `NoneOnlyFromCache` says after which calls an item is missing, and `PanicsAreKnown` that
  the check stops only at such an item. `CastsStartAtOrigin` names the exact variable that
  a cast goes back to, except in loops that are walked backwards (`Backwards`), as those of a
  method are after its first constructor. `ReportIsOfFirstCall`: later failures of the same callee are
  dropped, as the code does. `ChecksEnd` is about crates without recursion.

### Findings

1. *Index and position* (`IndexIsPosition`, violated). After each switch target
   of a component `check` restores `values` and `constant` but not `alias_set`
   and `dead_record`. If a field node was created in between, the Vecs differ
   in length from then on; the next nodes are numbered by the length of one Vec
   and stored at the length of another.
2. *Constants* (`ConstantIsCurrent`, violated). `constant` is documented as
   "which id has what value", but is not updated when the local is assigned
   something else, and a later switch is then decided by the old value.
3. *Bodies of loops* (`AllBlocksApplied`, violated). `check` of MoP begins with
   an empty order of sub blocks and returns in that round if the component has
   at most one exit. The aliases made in the body of a plain `while` are not in
   the summary. In `test_alias_scc` the loop has a second exit, the unreachable
   arm of a `match`, and is analysed.
4. *New vectors* (`NewVectorsAreNew`, violated). The handlers "generate new bit
   vectors", and the name is made of the local, the block and the number of the
   statement. An aggregate of two moved operands names the vector of its left side
   twice, and the constraints of both fall on one vector.
5. *Strict classes* (`StrictIsStrict`, violated). "all the ops should meet the
   equivalent condition", but a local is collected when the first of its
   operations does, before the answers are combined.

## 5. Proofs

`AliasSetProofs` proves, for every number of nodes, locals and discriminants:

- `InductiveInvariant` (with `TypeCorrect` and `StaysFlat`, its two halves) and
  `HeadIsLeastNode`: the invariants of the run;
- `AliasesOnlyGrow`: a step never separates two aliases;
- `Refinement`: the array implements the partition of `AliasPartition`.

The argument: `union_find` follows entries until one names itself, and the code
never bounds the chain. The inductive invariant `IInv` is `TypeOK` and `Flat`:
a node that is no discriminant points straight at a root that is no
discriminant and not larger than it, and a discriminant points at itself or at
such a node. Under it a chain has at most two steps (`FindIsRoot`), so
`union_merge` can be described in closed form (`MergeIsUnion`): the nodes of both
classes get the smaller root. That each entry is a root would not be inductive
by itself: the direct write for a discriminant could redirect the entry of a
root that others point at, which is excluded because nothing but a discriminant
ever points at one. The code guarantees this by recording assignments only
between locals that may drop; `AliasesAreFlat` checks it in the whole analysis.
The lemmas `RootsAfterMerge`, `RootsAfterPush` and `RootsAfterVariant` say what
each action does to the classes, and give `AliasesOnlyGrow` and `Refinement`.
The assumptions on constants are `SizesAssumption` of `AliasSet`.

`TopoOrderProofs` proves, for every set of bodies:

- `LevIsExact`: `lev` of a block is the number of edges into it that are still to
  be followed, so `lev[next] - 1`, a `usize`, never wraps;
- `PredecessorsComeFirst`: a block is listed at most once and after all blocks with
  an edge into it;
- `OrderIsRight`: both, which is `OrderIsTopological` of the run.

The argument: while the edges are collected, `lev` counts the edges gone through so
far (`CollectInv`); afterwards it counts the edges that are pending (`OrderInv`),
and a block that is in the heap or in the order has none pending. That is the
strengthening: the property itself says nothing of the heap, from which the next
block comes. A step of `Relax` takes one edge from the pending ones (`OneLess`), so
the block is pushed exactly when its last edge is followed, and not again. The
assumption is `BodiesAssumption` of `TopoOrder`: targets are blocks of the body,
and none is the start block, as in all MIR.

`SccSolveProofs` and `SccTarjanProofs` prove, for every body and every order of its
hash sets:

- `StackDiscipline`: the inductive invariant of `tarjan`'s recursion;
- `FlowIsKept`: `ContractionKeepsFlow` of the run;
- `AllAssigned`: when no call is left every successor of a block in a component is in
  one, so `tarjan(0)` is enough;
- `TarjanIsExact`: `ComponentsAreExact` of the run.

The assumption is `MirBody`: successors are blocks of the body, none is the start
block, and nothing is contracted yet. The argument has two layers. The
first (`IInv` of `SccSolveProofs`) is about the stack: a block is on it once, the calls
in progress are of blocks on it in the same order, what lies above a call's block was
entered from there, a block that is in no component has its own successors, and a
successor of an entered block is entered or still in the loop of its call. So the loop
that pops a component takes only blocks that no caller is at work on, and what
it writes to the root is the exits. The second (`TarjanInv`) is about reachability:
numbers grow along the stack, a call's block reaches all that was entered after it and is
still on the stack, `low` is the number of a block on the stack that can be reached, each
block on the stack leads back to a call's block below it, and no edge leads from a finished block
to the stack. When `low = dfn`, the popped blocks therefore reach each other, and
nothing below does. "Reaches" is stated by sets that no edge leaves
(`ClosedSets`), the way the property states it, so that no induction over paths is needed.

`SafeDropProofs` proves, for every set of bodies, every limit and every order of the
hash sets:

- `WalkLeavesComponents`: `ComponentsAreLeft` of the run;
- `ReportIsOfAllPaths`: `ReportIsComplete`, half of `LimitIsHonoured`;
- `ComponentsStayExact`: what the two modules above prove of `solve_scc` holds to the
  end of the analysis that calls it.

The assumptions on bodies (`BodiesAssumption` of `SafeDrop`) are `MirBody`, that the
targets of a block's switch are its successors (`SwitchesLead`), and that bodies are finite.
The invariant is that of `solve_scc` together with `WalkInv` and `LimitInv`. `WalkInv` says of every
frame that is at work on a component (`child`) that no frame above it will call `check`
for a block that reaches the component. The property, which speaks of the top frame only, does
not survive the end of a call. The step that needs the components to be exact is the
one from a target to the exits (`child_blocks`): an exit of a component that could reach it would
belong to it. Two facts of the library, that a set of numbers has a least element and that
a finite set has a cardinality, are a hypothesis of the steps (`SetFacts`) and proved once,
before the theorems (`SetFactsHold`). `LimitInv` ties `cut` to the counter: the walk is cut exactly when `visit_times`
has passed the limit, because every call counts before it is refused.

`MopProofs` proves, for every set of crates:

- `AnalysedOnce`: `NestedOnce` of the run;
- `BranchesStartAlike`: `SiblingsStartAlike`, half of `BranchesAreSeparate`.

`NestedOnce` is not inductive: a round of the loop over orders replaces `recursion_set`
by the copy in its frame, and nothing in the property says what the copy is. `MopInv`
says it of every function in progress: the copies in the frames of the
k-th are the functions that are analysed for a caller up to the k-th. This survives
because a function that waits for a callee has `await` as its last frame (`Waits`), so only the
last function replaces the set. For the branches `MopInv` says that what lies directly above a
`split` is a `restore` whose backup is the graph at the start of the branches, and that
the round of a loop (`exits`) lies directly above the loop, since `check` returns from both at once.
No assumption about crates is needed.

TLC finds `SafeDropInv` (with `IInv` and `TarjanInv`) true in all 100,185 states of `safedrop` and
`MopInv` in all 65,934 of `mop`.

*Only model-checked*, and why:

- liveness: `Terminates`, `AcyclicIsAnswered`, `ChecksEnd`;
- `ResultIsClosedForm` and `PathsAreExact`: the closed form and the paths are recursive
  on data, and induction over data is out of the prover's reach;
- `GraphIsSound`, `OnlyLinkedNodesDie`, `VisitsAreBounded`, `OneVariantPerPath`,
  `SummariesAreTyped`, `OrdersAreRounds`: they speak of what the folds over
  fields and statements compute. `VisitsAreBounded` is one of them because the
  default branch of `split_check_with_cond` ignores the limit; the bound holds only
  since, without child components, every node is stored at its own index
  (`GraphIsSound`, on the instance) and that branch is never reached;
- `PathsAreIsolated` and `SummaryIsStandalone`: their references are recursive;
- `HeapItem`, `RCanary`, `Dataflow` and `Senryx`, for the same reasons.

## 6. Not modelled

Printing, logging, drawing of graphs and flag texts. rustc itself (MIR
construction, type queries) is external: the models take its answers as inputs.
The SMT solver is external too and is replaced by the meaning of its constraints.
`TailCall` terminators stop the program (`todo!()`), and panics in general are the
end of a behaviour. A type that holds itself with a larger argument, on which the visitors
recurse without end, is not among the instances. The loops of the bodies have a single entry, as those
of surface Rust have; the graphs of `scc_solve` have all forms, but no switches, so the
closed form of `child_scc` is only used by `Mop`, and the components with one are those of `safedrop`.

- *Call graph.* One insertion per function and per call in one pass; no condition
  depends on what was inserted before.
- *API dependencies.* Which types match is rustc's decision; what remains is a
  growing set of edges.
- *Unsafety isolation.* It depends on names, attributes and visibility, and its
  result is a drawing.
- *Driver.* Command lines, environment variables, one child process and one wait.
- *Performance checks.* Those that do not use the dataflow graph are visitors of
  the source tree that look for a shape; `hash_key_cloning` is never started.
- *Senryx.* `body_visit_and_check_uig` and `get_annotation` are not called by
  `start`.
- *Composition.* `SafeDrop` takes the summaries of callees as inputs and does not
  run `Mop` for them: the families of bodies have more summaries than `Mop` would
  compute for them. The two are tied by `SummaryFitsCall`.

What a next step would be: a proof that the Vecs of `SafeDrop` stay in step
(`GraphIsSound`) from a lemma per fold, and of `OneVariantPerPath` from `MopInv` and
what a branch adds to the known values.
