----------------------------- MODULE MirBlocks ------------------------------
(***************************************************************************)
(* SafeDropGraph::new: how the statements and the terminator of each MIR   *)
(* basic block become a BlockNode. A place is [local, proj], an operand    *)
(* [op |-> "Copy" | "Move", place] or [op |-> "Const", val].               *)
(***************************************************************************)
EXTENDS ValueNodes

\* The value of a constant that is no scalar integer.
NoScalar == -1

BlockNode(is_cleanup) ==
  [is_cleanup |-> is_cleanup, next |-> {}, assignments |-> <<>>, calls |-> <<>>,
   drops |-> <<>>, scc_sub_blocks |-> <<>>, const_value |-> <<>>,
   switch_stmts |-> <<>>, modified_value |-> {}]

\* An assignment is recorded only between two locals that may drop.
Record(g, b, s, rv, atype) ==
  IF g.values[s.lv.local].may_drop /\ g.values[rv.local].may_drop
  THEN [b EXCEPT !.assignments =
          Append(@, [lv |-> s.lv, rv |-> rv, atype |-> atype, span |-> s.span])]
  ELSE b

RecordOperand(g, b, s, x, atype) ==
  IF x.op = "Const" THEN b ELSE Record(g, b, s, x.place, atype)

\* ShallowInitBox gives the box its pointer field before the analysis starts.
InitBoxField(g, lv) ==
  IF 0 \in DOMAIN g.values[lv].fields THEN g
  ELSE AddField(g, lv, 0,
         NewNode(VLen(g.values), lv, FALSE, TRUE, "Adt", g.values[lv].birth),
         VLen(g.alias_set))

\* One statement of kind Assign; acc holds the graph and the block so far.
Statement(acc, s) ==
  LET g == acc.g
      b == [acc.b EXCEPT !.modified_value = @ \cup {s.lv.local}]
      boxed == InitBoxField(g, s.lv.local)
  IN  CASE s.kind = "Use" /\ s.x.op = "Const" ->
             [g |-> g, b |-> IF s.x.val = NoScalar THEN b
                             ELSE [b EXCEPT !.const_value = Append(@, <<s.lv.local, s.x.val>>)]]
        [] s.kind \in {"Use", "Cast"} ->
             [g |-> g, b |-> RecordOperand(g, b, s, s.x, s.x.op)]
        [] s.kind = "Ref" ->
             [g |-> g, b |-> Record(g, b, s, s.rv, "Copy")]
        [] s.kind = "ShallowInitBox" ->
             [g |-> boxed, b |-> RecordOperand(boxed, b, s, s.x, "InitBox")]
        [] s.kind = "Aggregate" ->
             [g |-> g, b |-> FoldLeft(LAMBDA c, x : RecordOperand(g, c, s, x, "Copy"), b, s.xs)]
        [] s.kind = "Discriminant" ->
             [g |-> g, b |-> [b EXCEPT !.assignments =
                Append(@, [lv |-> s.lv, rv |-> s.rv, atype |-> "Variant", span |-> s.span])]]
        [] OTHER -> [g |-> g, b |-> b]

\* The terminator adds the successors, unwind targets included; a Drop and a
\* call of a drop function are drops, every call is a call as well.
Terminator(b, t) ==
  CASE t.kind = "SwitchInt" ->
         [b EXCEPT !.next = @ \cup {v[2] : v \in ToSet(t.targets)} \cup {t.otherwise},
                   !.switch_stmts = Append(@, t)]
    [] t.kind = "Drop" ->
         [b EXCEPT !.next = @ \cup {t.target} \cup t.unwind, !.drops = Append(@, t)]
    [] t.kind = "Call" ->
         [b EXCEPT !.next = @ \cup t.target \cup t.unwind, !.calls = Append(@, t),
                   !.drops = IF t.fn.is_drop THEN Append(@, t) ELSE @]
    [] OTHER -> \* Goto, Assert, Yield, FalseEdge, InlineAsm, or no successor
         [b EXCEPT !.next = @ \cup t.targets]

\* The graph and the blocks of a body: [tys, arg_size, mir], where mir is a
\* sequence of [is_cleanup, stmts, term], block i at position i + 1.
Build(body) ==
  LET AddBlock(acc, bb) ==
        LET r == FoldLeft(Statement, [g |-> acc.g, b |-> BlockNode(bb.is_cleanup)], bb.stmts)
        IN  [g |-> r.g, blocks |-> VPush(acc.blocks, Terminator(r.b, bb.term))]
  IN  FoldLeft(AddBlock, [g |-> NewGraph(body.tys), blocks |-> <<>>], body.mir)

=============================================================================
