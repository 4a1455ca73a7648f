--------------------------- MODULE DataflowGraph ----------------------------
(***************************************************************************)
(* The dataflow graph of one body (core/dataflow/graph.rs): a node per     *)
(* local, per step of a projection and per constant; an edge per operand.  *)
(* A node is [ops, seq, span, ins, outs]: a local that is assigned several *)
(* times has one op per assignment, and `seq` of an edge says to which of  *)
(* them it belongs; span is the last item that assigned it.                *)
(*                                                                         *)
(* g is [nodes, edges, panic]; nodes are numbered from 0 as in the code    *)
(* and edges are a sequence. An edge has two fields the code does not      *)
(* keep: `item`, the statement it was added for, and `pos`, the position   *)
(* of the operand it stands for (0 for a step of a projection).            *)
(*                                                                         *)
(* An item of a body is a statement [k |-> "Assign", lp, rv] or a call     *)
(* [k |-> "Call", dest, func, args]; a place is [local, proj], a step of a *)
(* projection [k] with the local `i` if it is an "Index".                  *)
(***************************************************************************)
EXTENDS Integers, Sequences, SequencesExt

Node == [ops |-> <<[k |-> "Nop"]>>, seq |-> 0, span |-> 0, ins |-> <<>>, outs |-> <<>>]

new(n_locals) == [nodes |-> [i \in 0 .. n_locals - 1 |-> Node], edges |-> <<>>, panic |-> FALSE]

NodeCount(g) == Cardinality(DOMAIN g.nodes)

Op(k) == [k |-> k]

\* nodes.push: the new node has the index NodeCount(g).
Pushed(g, node) ==
  [g EXCEPT !.nodes = [i \in DOMAIN g.nodes \cup {NodeCount(g)} |->
                         IF i = NodeCount(g) THEN node ELSE g.nodes[i]]]

Edge(g, src, dst, op, item, pos) ==
  [src |-> src, dst |-> dst, op |-> op, seq |-> g.nodes[dst].seq, item |-> item, pos |-> pos]

add_node_edge(g, src, dst, op, item, pos) ==
  LET idx == Len(g.edges) + 1
  IN [g EXCEPT !.edges = Append(@, Edge(g, src, dst, op, item, pos)),
               !.nodes[dst].ins = Append(@, idx),
               !.nodes[src].outs = Append(@, idx)]

\* The constant does not learn of its edge.
add_const_edge(g, dst, op, item, pos) ==
  LET idx == Len(g.edges) + 1
      g1 == Pushed(g, [Node EXCEPT !.ops = <<Op("Const")>>])
  IN [g1 EXCEPT !.edges = Append(@, Edge(g, NodeCount(g), dst, op, item, pos)),
                !.nodes[dst].ins = Append(@, idx)]

\* The marker node of one step, with an edge from the place before it and, for
\* an index, one from the local that holds it.
parse_one_step(g, src, elem, item) ==
  LET dst == NodeCount(g)
      g1 == add_node_edge(Pushed(g, Node), src, dst, elem.k, item, 0)
  IN CASE elem.k = "Index" -> add_node_edge(g1, elem.i, dst, "Index", item, 0)
       [] elem.k \in {"Deref", "Field", "Downcast", "ConstIndex", "SubSlice", "SubType"} -> g1
       [] OTHER -> [g1 EXCEPT !.panic = TRUE]

\* parse_place: the graph with the markers of the place, and its node `at`.
parse_place(g, p, item) ==
  FoldLeft(LAMBDA r, elem : [g |-> parse_one_step(r.g, r.at, elem, item), at |-> NodeCount(r.g)],
           [g |-> g, at |-> p.local], p.proj)

FromPlace(g, p, dst, op, item, pos) ==
  LET r == parse_place(g, p, item) IN add_node_edge(r.g, r.at, dst, op, item, pos)

add_operand(g, operand, dst, item, pos) ==
  IF operand.k = "Const" THEN add_const_edge(g, dst, "Const", item, pos)
  ELSE FromPlace(g, operand.p, dst, operand.k, item, pos)

add_operands(g, operands, dst, item) ==
  FoldLeft(LAMBDA g1, i : add_operand(g1, operands[i], dst, item, i), g,
           [i \in DOMAIN operands |-> i])

\* The edges of an rvalue and the op it sets.
OfOperands == {"Use", "Repeat", "Cast", "UnaryOp", "ShallowInitBox", "BinaryOp", "Aggregate"}
OfPlace == {"Len", "Discriminant", "CopyForDeref", "RawPtr"}
BorrowEdge(kind) == CASE kind = "Shared" -> "Immut" [] kind = "Mut" -> "Mut" [] kind = "Fake" -> "Nop"

add_rvalue(g, rv, dst, item) ==
  CASE rv.k \in OfOperands -> add_operands(g, rv.ops, dst, item)
    [] rv.k \in OfPlace -> FromPlace(g, rv.p, dst, "Nop", item, 1)
    [] rv.k = "Ref" -> FromPlace(g, rv.p, dst, BorrowEdge(rv.borrow), item, 1)
    [] rv.k = "NullaryOp" -> add_const_edge(g, dst, "Nop", item, 1)
    [] OTHER -> [g EXCEPT !.panic = TRUE]

\* The kinds of aggregates that have an AggKind; the others are a todo!().
KnownAggregates == {"Array", "Tuple", "Range", "Closure", "Coroutine"}

\* A BinaryOp is recorded as a CheckedBinaryOp; an aggregate keeps its kind, which
\* for an Adt is its definition: "Range" is the one that matters.
RvalueOp(rv) ==
  CASE rv.k = "BinaryOp" -> Op("CheckedBinaryOp")
    [] rv.k = "Aggregate" -> [k |-> "Aggregate", of |-> rv.of]
    [] OTHER -> Op(rv.k)

\* The batch of dst starts: there is an op for it, Nop until it is set.
Opened(g, dst) ==
  IF g.nodes[dst].seq = Len(g.nodes[dst].ops)
  THEN [g EXCEPT !.nodes[dst].ops = Append(@, Op("Nop"))] ELSE g

\* MUTANT of Closed: every assignment is recorded as the first one.
Closed_first(g, dst, op, item) ==
  [g EXCEPT !.nodes[dst].ops[1] = op, !.nodes[dst].seq = @ + 1, !.nodes[dst].span = item]

\* ops[seq] = op, seq + 1
Closed(g, dst, op, item) ==
  [g EXCEPT !.nodes[dst].ops[g.nodes[dst].seq + 1] = op, !.nodes[dst].seq = @ + 1,
            !.nodes[dst].span = item]

add_statm_to_graph(g, s, item) ==
  LET r == parse_place(g, s.lp, item)
      g1 == Closed(add_rvalue(Opened(r.g, r.at), s.rv, r.at, item), r.at, RvalueOp(s.rv), item)
  IN [g1 EXCEPT !.panic = @ \/ (s.rv.k = "Aggregate" /\ s.rv.of \notin KnownAggregates)]

\* A projection of the destination is not looked at. A function is a constant
\* [k |-> "FnDef", def], any "Other" constant, or a place; a copied one panics.
add_terminator_to_graph(g, t, item) ==
  LET dst == t.dest.local
      g1 == Opened(g, dst)
  IN CASE t.func.k = "FnDef" ->
            Closed(add_operands(g1, t.args, dst, item), dst,
                   [k |-> "Call", def |-> t.func.def], item)
       [] t.func.k = "Other" -> Closed(g1, dst, Op("Nop"), item)
       [] t.func.k = "Move" ->
            Closed(add_operands(g1, <<t.func>> \o t.args, dst, item), dst, Op("CallOperand"), item)
       [] OTHER -> [g1 EXCEPT !.panic = TRUE]

-----------------------------------------------------------------------------
\* The source of the n-th edge into a node, if there is one; -1 is None.
None == -1
get_upside_idx(g, n, order) ==
  IF order < Len(g.nodes[n].ins) THEN g.edges[g.nodes[n].ins[order + 1]].src ELSE None

equivalent_edge_validator(g, e) == g.edges[e].op \in {"Copy", "Move", "Mut", "Immut"}

\* The ops that pass a value or a reference on; Nop is a parameter or an orphan.
IsEquivalentOp(op) == op.k \in {"Nop", "Use", "Ref"}

\* The ops of a node, reduced with DFSStatus::and (strict) or DFSStatus::or.
reduce_func(g, n, strict) ==
  LET ok == {i \in DOMAIN g.nodes[n].ops : IsEquivalentOp(g.nodes[n].ops[i])}
  IN IF strict THEN ok = DOMAIN g.nodes[n].ops ELSE ok # {}

=============================================================================
