------------------------------ MODULE Dataflow ------------------------------
(***************************************************************************)
(* DataFlow::build_graph on one body, and then one question to the graph:  *)
(* collect_equivalent_locals, param_return_deps, BoundsLenCheck::check or  *)
(* UsedAsImmutableCheck::check. Each is a chain of depth-first searches    *)
(* with Graph::dfs, which keeps no set of visited nodes; a search is a     *)
(* stack of frames [n, left], left the edges of n that are still to be     *)
(* taken, and STACK is the depth at which the thread's stack overflows.    *)
(***************************************************************************)
EXTENDS DataflowGraph

CONSTANTS Bodies, \* [argc, n, items, sig]; sig: for a function, which inputs are references
          STACK

ASSUME StackAssumption == STACK \in Nat \ {0}

VARIABLES body, at, g,  \* `at` items are in the graph g
          pc,           \* "build", "ask", a search, "done", "panic" or "overflow"
          query,        \* what is asked
          stack, acc,   \* the search, and what its closures have captured
          cur,          \* the node (or parameter) whose turn it is, and its op
          results

vars == <<body, at, g, pc, query, stack, acc, cur, results>>

Locals == 0 .. body.n - 1
Nodes == DOMAIN g.nodes
NoAcc == [start |-> None, root |-> None, set |-> {}, find |-> FALSE, hit |-> None,
          found |-> <<>>, edge |-> None, upper |-> None]

Init ==
  /\ body \in Bodies
  /\ at = 0 /\ g = new(body.n) /\ pc = "build"
  /\ query = [k |-> "none"] /\ stack = <<>> /\ acc = NoAcc /\ cur = <<0, 1>> /\ results = <<>>

AddItem ==
  /\ pc = "build" /\ at < Len(body.items)
  /\ at' = at + 1
  /\ \E g1 \in {IF body.items[at'].k = "Assign"
                THEN add_statm_to_graph(g, body.items[at'], at')
                ELSE add_terminator_to_graph(g, body.items[at'], at')} :
       g' = g1 /\ pc' = IF g1.panic THEN "panic" ELSE "build"
  /\ UNCHANGED <<body, query, stack, acc, cur, results>>

Queries == [k : {"equivalent"}, local : Locals, strict : BOOLEAN] \cup
           [k : {"deps", "bounds", "clones"}]

Ask ==
  /\ pc = "build" /\ at = Len(body.items)
  /\ pc' = "ask"
  /\ query' \in Queries
  /\ UNCHANGED <<body, at, g, stack, acc, cur, results>>

-----------------------------------------------------------------------------
Searches == {"root", "class", "down", "up", "len", "index", "param"}
Upside(s) == s \in {"root", "up", "len"}
TraverseAll(s) == s \notin {"down", "up", "len"}
Validator(s, e) == s \in {"down", "up", "index"} \/ equivalent_edge_validator(g, e)
Next_node(s, e) == IF Upside(s) THEN g.edges[e].src ELSE g.edges[e].dst
EdgesOf(s, n) == IF Upside(s) THEN g.nodes[n].ins ELSE g.nodes[n].outs

HasCall(n, defs) ==
  \E i \in DOMAIN g.nodes[n].ops : g.nodes[n].ops[i].k = "Call" /\ g.nodes[n].ops[i].def \in defs
AnyCall(n) == \E i \in DOMAIN g.nodes[n].ops : g.nodes[n].ops[i].k = "Call"

\* bounds_len.rs asks for the strict class.
strict == query.k = "bounds" \/ query.strict

\* MUTANT of RootOperator: the first node that counts is the root.
RootOperator_first(a, n) ==
  [acc |-> IF reduce_func(g, n, FALSE) /\ a.root = a.start THEN [a EXCEPT !.root = n] ELSE a,
   go |-> reduce_func(g, n, strict)]

\* find_root_operator, find_equivalent_operator
RootOperator(a, n) ==
  [acc |-> IF reduce_func(g, n, FALSE) THEN [a EXCEPT !.root = n] ELSE a,
   go |-> reduce_func(g, n, strict)]

ClassOperator(a, n) ==
  IF n \in a.set THEN [acc |-> a, go |-> FALSE]
  ELSE [acc |-> IF reduce_func(g, n, FALSE) THEN [a EXCEPT !.set = @ \cup {n}] ELSE a,
        go |-> reduce_func(g, n, strict)]

\* is_connected, and the closures of the two checks
node_operator(s, a, n) ==
  CASE s = "root" -> RootOperator(a, n)
    [] s = "class" -> ClassOperator(a, n)
    [] s \in {"down", "up"} -> [acc |-> [a EXCEPT !.find = n = 0], go |-> n # 0]
    [] s = "len" -> IF HasCall(n, {"len"}) THEN [acc |-> [a EXCEPT !.hit = n], go |-> FALSE]
                    ELSE [acc |-> a, go |-> TRUE]
    [] s = "index" -> [acc |-> IF HasCall(n, {"index", "index_mut"})
                               THEN [a EXCEPT !.found = Append(@, n)] ELSE a,
                       go |-> TRUE]
    [] s = "param" -> IF n # a.start /\ AnyCall(n)
                      THEN [acc |-> [a EXCEPT !.found = <<n, a.edge>>], go |-> FALSE]
                      ELSE [acc |-> a, go |-> TRUE]

Frame(s, n) == [n |-> n, left |-> EdgesOf(s, n)]

\* dfs(n, ...) is called, with the captured variables a.
StartSearch(s, n, a) ==
  \E r \in {node_operator(s, a, n)} :
    /\ pc' = s /\ acc' = r.acc
    /\ stack' = IF r.go THEN <<Frame(s, n)>> ELSE <<>>

\* MUTANT of Rest: an edge is taken again and again.
Rest_keep(st) == st

Rest(st) == Append(Front(st), [Last(st) EXCEPT !.left = Tail(@)])

\* The next edge of the node on top. A Stop below a search that does not
\* traverse all makes every caller return.
TakeEdge ==
  /\ pc \in Searches /\ stack # <<>> /\ Last(stack).left # <<>>
  /\ \E e \in {Head(Last(stack).left)}, rest \in {Rest(stack)} :
       IF ~ Validator(pc, e)
       THEN stack' = rest /\ acc' = [acc EXCEPT !.edge = e] /\ UNCHANGED pc
       ELSE \E r \in {node_operator(pc, [acc EXCEPT !.edge = e], Next_node(pc, e))} :
              /\ acc' = r.acc
              /\ stack' = CASE r.go -> Append(rest, Frame(pc, Next_node(pc, e)))
                            [] ~ r.go /\ TraverseAll(pc) -> rest
                            [] ~ r.go /\ ~ TraverseAll(pc) -> <<>>
              /\ pc' = IF Len(stack') > STACK THEN "overflow" ELSE pc
  /\ UNCHANGED <<body, at, g, query, cur, results>>

ReturnFrom ==
  /\ pc \in Searches /\ stack # <<>> /\ Last(stack).left = <<>>
  /\ stack' = Front(stack)
  /\ UNCHANGED <<body, at, g, pc, query, acc, cur, results>>

Returned(s) == pc = s /\ stack = <<>>

-----------------------------------------------------------------------------
\* The loops of the questions go on with the next parameter, node or op.
Advance ==
  CASE query.k \in {"deps", "bounds"} -> <<cur[1] + 1, 1>>
    [] query.k = "clones" -> IF cur[2] < Len(g.nodes[cur[1]].ops) THEN <<cur[1], cur[2] + 1>>
                             ELSE <<cur[1] + 1, 1>>

GoOn(found) ==
  /\ pc' = "ask" /\ cur' = Advance /\ acc' = NoAcc /\ stack' = <<>>
  /\ results' = results \o found

Panic == pc' = "panic" /\ UNCHANGED <<cur, acc, stack, results>>

\* What stays as it is while a question is answered.
Fixed == UNCHANGED <<body, at, g, query>>

\* collect_equivalent_locals
AskEquivalent ==
  /\ pc = "ask" /\ query.k = "equivalent"
  /\ StartSearch("root", query.local, [NoAcc EXCEPT !.start = query.local, !.root = query.local])
  /\ Fixed /\ UNCHANGED <<cur, results>>

RootFound ==
  /\ Returned("root")
  /\ StartSearch("class", acc.root, acc)
  /\ Fixed /\ UNCHANGED <<cur, results>>

ClassCollected ==
  /\ Returned("class")
  /\ IF query.k = "bounds"
     THEN StartSearch("index", cur[1], acc) /\ UNCHANGED results
     ELSE pc' = "done" /\ results' = <<acc.set>> /\ UNCHANGED <<stack, acc>>
  /\ Fixed /\ UNCHANGED cur

\* param_return_deps: is_connected(i, 0) for each i, downwards and then upwards
Count == IF query.k = "deps" THEN body.argc + 1 ELSE NodeCount(g)

AskDeps ==
  /\ pc = "ask" /\ query.k = "deps" /\ cur[1] < Count
  /\ StartSearch("down", cur[1], NoAcc)
  /\ Fixed /\ UNCHANGED <<cur, results>>

DownDone ==
  /\ Returned("down")
  /\ IF acc.find THEN GoOn(<<TRUE>>)
     ELSE StartSearch("up", cur[1], acc) /\ UNCHANGED <<cur, results>>
  /\ Fixed

UpDone == Returned("up") /\ GoOn(<<acc.find>>) /\ Fixed

\* BoundsLenCheck::check, extract_upperbound_node_if_ops_range
IsRange(n) ==
  \E i \in DOMAIN g.nodes[n].ops :
    g.nodes[n].ops[i].k = "Aggregate" /\ g.nodes[n].ops[i].of = "Range"

AskBounds ==
  /\ pc = "ask" /\ query.k = "bounds" /\ cur[1] < Count
  /\ IF ~ IsRange(cur[1]) THEN GoOn(<<>>)
     ELSE IF get_upside_idx(g, cur[1], 1) = None THEN Panic
     ELSE \E upper \in {get_upside_idx(g, cur[1], 1)} :
            StartSearch("len", upper, [NoAcc EXCEPT !.upper = upper]) /\ UNCHANGED <<cur, results>>
  /\ Fixed

\* find_upside_vec_len_node has returned.
LenDone ==
  /\ Returned("len")
  /\ IF acc.hit = None THEN GoOn(<<>>)
     ELSE IF get_upside_idx(g, acc.hit, 0) = None THEN Panic
     ELSE \E vec \in {get_upside_idx(g, acc.hit, 0)} :
            StartSearch("root", vec, [acc EXCEPT !.start = vec, !.root = vec]) /\ UNCHANGED <<cur, results>>
  /\ Fixed

\* MUTANT of IndexDone: whatever is indexed counts.
IndexDone_all ==
  /\ Returned("index")
  /\ GoOn(<<[range |-> cur[1], len |-> acc.hit, upper |-> acc.upper, indexes |-> acc.found]>>)
  /\ Fixed

\* find_downside_index_node has returned: the index calls on the same vector.
IndexDone ==
  /\ Returned("index")
  /\ LET record == SelectSeq(acc.found, LAMBDA n : get_upside_idx(g, n, 0) \in acc.set)
     IN IF \E i \in DOMAIN acc.found : get_upside_idx(g, acc.found[i], 0) = None THEN Panic
        ELSE GoOn(IF record = <<>> THEN <<>>
                  ELSE <<[range |-> cur[1], len |-> acc.hit, upper |-> acc.upper, indexes |-> record]>>)
  /\ Fixed

\* UsedAsImmutableCheck::check
AskClones ==
  /\ pc = "ask" /\ query.k = "clones" /\ cur[1] < Count
  /\ LET op == g.nodes[cur[1]].ops[cur[2]]
     IN IF op.k = "Call" /\ op.def = "clone"
        THEN StartSearch("param", cur[1], [NoAcc EXCEPT !.start = cur[1]]) /\ UNCHANGED <<cur, results>>
        ELSE GoOn(<<>>)
  /\ Fixed

\* The edges of a node that belong to the same assignment as e.
SameBatch(n, e) == SelectSeq(g.nodes[n].ins, LAMBDA i : g.edges[i].seq = g.edges[e].seq)

\* find_downside_use_as_param has returned: which input of which function?
ParamDone ==
  /\ Returned("param")
  /\ IF acc.found = <<>> THEN GoOn(<<>>)
     ELSE LET n == acc.found[1]
              e == acc.found[2]
              batch == SameBatch(n, e)
              op == g.nodes[n].ops[g.edges[e].seq + 1]
          IN IF ~ \E i \in DOMAIN batch : batch[i] = e THEN Panic
             ELSE \E index \in {i \in DOMAIN batch : batch[i] = e} :
                    IF op.k # "Call" THEN GoOn(<<>>)
                    ELSE IF index \notin DOMAIN body.sig[op.def] THEN Panic
                    ELSE GoOn(IF body.sig[op.def][index] THEN <<>>
                              ELSE <<[clone |-> cur[1], use |-> n, edge |-> e, index |-> index,
                                      clone_span |-> g.nodes[cur[1]].span,
                                      use_span |-> g.nodes[n].span]>>)
  /\ Fixed

Answered ==
  /\ pc = "ask" /\ query.k # "equivalent" /\ cur[1] = Count
  /\ pc' = "done"
  /\ Fixed /\ UNCHANGED <<stack, acc, cur, results>>

\* A step of a question about the graph.
Answering == \/ Ask \/ TakeEdge \/ ReturnFrom
             \/ AskEquivalent \/ RootFound \/ ClassCollected
             \/ AskDeps \/ DownDone \/ UpDone
             \/ AskBounds \/ LenDone \/ IndexDone
             \/ AskClones \/ ParamDone \/ Answered

Next == AddItem \/ Answering

Spec == Init /\ [][Next]_vars

\* The thread that asks goes on until it has its answer.
FairSpec == Spec /\ WF_vars(Answering)

-----------------------------------------------------------------------------
\* All variables have their types; the graph's indexes are in range.
DTypeOK ==
  /\ pc \in {"build", "ask", "done", "panic", "overflow"} \cup Searches
  /\ at \in 0 .. Len(body.items) /\ cur \in Nat \X (Nat \ {0})
  /\ \A e \in DOMAIN g.edges : {g.edges[e].src, g.edges[e].dst} \subseteq Nodes
  /\ \A i \in DOMAIN stack : stack[i].n \in Nodes /\ Range(stack[i].left) \subseteq DOMAIN g.edges
  /\ acc.set \subseteq Nodes /\ acc.root \in Nodes \cup {None}

\* The op an item sets; a call of a constant that is no function sets none.
ItemOp(item) ==
  CASE item.k = "Assign" -> RvalueOp(item.rv)
    [] item.k = "Call" /\ item.func.k = "FnDef" -> [k |-> "Call", def |-> item.func.def]
    [] item.k = "Call" /\ item.func.k = "Other" -> Op("Nop")
    [] OTHER -> Op("CallOperand")

\* "Edges with the same seq number are added in the same batch within a
\* statement or terminator" (GraphNode::seq), only those, and ops[seq] is the op
\* of that statement: a plain marker of a projection has none. The code does not
\* check that seq is at most ops.len(), but it is.
SeqNamesBatch ==
  pc \in {"build", "ask"} =>
    /\ \A n \in Nodes : g.nodes[n].seq = Len(g.nodes[n].ops)
                        \/ (g.nodes[n].seq = 0 /\ Len(g.nodes[n].ops) = 1)
    /\ \A d, e \in DOMAIN g.edges : g.edges[d].dst = g.edges[e].dst =>
         ((g.edges[d].seq = g.edges[e].seq) <=> (g.edges[d].item = g.edges[e].item))
    /\ \A e \in DOMAIN g.edges :
         LET n == g.nodes[g.edges[e].dst]
         IN n.seq > 0 => n.ops[g.edges[e].seq + 1] = ItemOp(body.items[g.edges[e].item])

\* The graph of add_statm_to_graph and add_terminator_to_graph can be read back:
\* an edge tells, by its number, the assignment it stands for.
EdgesNameItems == DTypeOK /\ SeqNamesBatch

-----------------------------------------------------------------------------
\* Reachability, without the searches.
Closure(S, Step(_)) ==
  FoldLeft(LAMBDA T, i : T \cup UNION {Step(n) : n \in T}, S, [i \in 1 .. NodeCount(g) |-> i])
Uses(n) == {g.edges[e].dst : e \in Range(g.nodes[n].outs)}
Sources(n) == {g.edges[e].src : e \in Range(g.nodes[n].ins)}
EquivalentUses(n) ==
  {g.edges[e].dst : e \in {d \in Range(g.nodes[n].outs) : equivalent_edge_validator(g, d)}}
EquivalentSources(n) ==
  {g.edges[e].src : e \in {d \in Range(g.nodes[n].ins) : equivalent_edge_validator(g, d)}}

Passes(n) == reduce_func(g, n, query.strict)
Counts(n) == reduce_func(g, n, FALSE)

\* The locals equivalent to r: what is reached from it over locals whose ops, all
\* of them or one, meet the condition.
ClassOf(r) == Closure({r} \cap {n \in Nodes : Passes(n)},
                      LAMBDA n : {m \in EquivalentUses(n) : Passes(m)})

\* collect_equivalent_locals finds a root that is a source of the local, from which
\* nothing leads further up if it is passed, and misses no local of the root's
\* class because of the set. Without `strict` it collects exactly the class, and
\* the local itself is in it, unless all it holds was computed.
ClassIsCollected ==
  pc = "done" /\ query.k = "equivalent" =>
    /\ ClassOf(acc.root) \subseteq results[1]
    /\ acc.root \in Closure({query.local}, EquivalentSources)
    /\ Passes(acc.root) => \A n \in EquivalentSources(acc.root) : ~ Counts(n)
    /\ ~ query.strict => /\ results[1] \subseteq ClassOf(acc.root)
                         /\ Counts(query.local) => query.local \in results[1]

\* "For the former", the strict collection, "all the ops should meet the equivalent
\* condition", says collect_equivalent_locals. A local of which only one op does
\* is put into the set all the same; only the search stops there.
StrictIsStrict ==
  pc = "done" /\ query.k = "equivalent" /\ query.strict =>
    \A n \in results[1] : reduce_func(g, n, TRUE)

\* The search for a class enters no node twice: it ends on every graph, with or
\* without cycles. (The other searches have no set and may not.)
ClassSearchIsSimple ==
  pc \in {"class", "overflow"} /\ acc.set # {} /\ query.k = "equivalent" =>
    \A i, j \in DOMAIN stack : stack[i].n = stack[j].n => i = j

\* param_return_deps says of each parameter if the graph leads from it to the
\* result or back: the early return of the search loses nothing.
DepsAreReach ==
  pc = "done" /\ query.k = "deps" =>
    /\ Len(results) = body.argc + 1
    /\ \A i \in DOMAIN results :
         results[i] = (0 \in Closure({i - 1}, Uses) \cup Closure({i - 1}, Sources))

\* collect_equivalent_locals and param_return_deps, chains of calls of dfs, answer
\* what reachability in the graph says.
AnswersAreReach == ClassIsCollected /\ ClassSearchIsSimple /\ DepsAreReach

\* What the local l refers to after the first k items: the value that a parameter
\* or an item other than a copy, a move or a borrow of a local gave, <<l, item>>.
Sets(item, l) == IF item.k = "Assign" THEN item.lp = [local |-> l, proj |-> <<>>] ELSE item.dest.local = l
Passed(item) ==
  IF item.k # "Assign" THEN {}
  ELSE CASE item.rv.k = "Use" /\ item.rv.ops[1].k # "Const" -> {item.rv.ops[1].p}
         [] item.rv.k = "Ref" -> {item.rv.p}
         [] OTHER -> {}
RECURSIVE ValueAfter(_, _)
ValueAfter(l, k) ==
  LET setting == {j \in 1 .. k : Sets(body.items[j], l)}
      j == Max(setting \cup {0})
      from == IF j = 0 THEN {} ELSE {p.local : p \in {q \in Passed(body.items[j]) : q.proj = <<>>}}
  IN IF from = {} THEN <<l, j>> ELSE ValueAfter(CHOOSE m \in from : TRUE, j - 1)

\* The value an edge stands for when its item is executed; a projection has none
\* but its marker.
ValueOn(e) == IF g.edges[e].src \in Locals THEN ValueAfter(g.edges[e].src, g.edges[e].item - 1)
              ELSE <<g.edges[e].src, 0>>

\* A local with one value all the time: the graph has no order of assignments.
SetOnce(n) == g.nodes[n].seq + (IF n \in 1 .. body.argc THEN 1 ELSE 0) <= 1
Upwards(n) == Closure({n}, EquivalentSources)

\* BoundsLenCheck reports "Unnecessary bounds checkings": when the body is executed,
\* the vector that is indexed is the one whose length is the upper bound, and the
\* index is computed from the range, at the place that is shown; provided that
\* none of the locals on the way is assigned twice.
BoundsAreOfOneVector ==
  query.k = "bounds" =>
    \A i \in DOMAIN results : \A j \in DOMAIN results[i].indexes :
      LET r == results[i]
          index == r.indexes[j]
          way == {r.range, r.len, index} \cup Upwards(r.upper) \cup
                   Upwards(get_upside_idx(g, r.len, 0)) \cup Upwards(get_upside_idx(g, index, 0))
          call == g.edges[g.nodes[index].ins[1]].item
      IN (\A n \in way : SetOnce(n)) =>
           /\ ValueOn(g.nodes[index].ins[1]) = ValueOn(g.nodes[r.len].ins[1])
           /\ ValueOn(g.nodes[r.range].ins[2]) = <<r.len, g.edges[g.nodes[r.len].ins[1]].item>>
           /\ index \in Closure({r.range}, Uses)
           /\ body.items[call].func.def \in {"index", "index_mut"} /\ g.nodes[index].span = call

\* UsedAsImmutableCheck takes the position of an edge among those of its batch
\* for the position of the argument: it is, and the argument is the clone. A local
\* that is assigned once is shown where that happens.
IndexIsArgument ==
  query.k = "clones" =>
    \A i \in DOMAIN results :
      LET r == results[i]
          e == g.edges[r.edge]
          call == body.items[e.item]
      IN /\ call.k = "Call" /\ call.dest.local = r.use /\ r.index = e.pos
         /\ e.src \in Closure({r.clone}, EquivalentUses)
         /\ SetOnce(r.use) => r.use_span = e.item
         /\ SetOnce(r.clone) => body.items[r.clone_span].k = "Call" /\ body.items[r.clone_span].func.def = "clone"

\* BoundsLenCheck and UsedAsImmutableCheck report about one value and the place
\* it is used at.
ChecksAreOfOneValue == BoundsAreOfOneVector /\ IndexIsArgument

\* No use of a node leads back to it: when the nodes that have no use among the
\* rest are taken away, round by round, none is left.
Acyclic ==
  FoldLeft(LAMBDA T, i : {n \in T : Uses(n) \cap T # {}}, Nodes,
           [i \in 1 .. NodeCount(g) |-> i]) = {}

\* On a graph without a cycle every question is answered.
AcyclicIsAnswered == pc = "ask" /\ Acyclic ~> pc \in {"done", "panic"}

=============================================================================
