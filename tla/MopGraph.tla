------------------------------ MODULE MopGraph ------------------------------
(***************************************************************************)
(* MopGraph, the graph from which the alias summary of one function is     *)
(* computed: its nodes, the merging of aliases, the effect of a block, and *)
(* the summary of a path. A graph g is a record of values, alias_set,      *)
(* constant, ret_alias and endless, the operands of a merge_alias that     *)
(* never returns; a summary is a set of RetAlias records.                  *)
(***************************************************************************)
EXTENDS MirBlocks

\* usize::MAX as the field_id of a node that is no field.
NoField == -1

\* ValueNode::new. The father is always the local, also of a field's field.
MopNode(index, local, need_drop, may_drop, kind, field_id) ==
  [index |-> index, local |-> local, need_drop |-> need_drop, may_drop |-> may_drop,
   kind |-> kind, father |-> local, field_id |-> field_id, fields |-> <<>>]

\* A new field node: its alias entry is the length of values.
MopAddField(g, parent, field, node) ==
  [g EXCEPT !.values = VPush([@ EXCEPT ![parent].fields = (field :> node.index) @@ @], node),
            !.alias_set = VPush(@, VLen(g.values))]

\* MopGraph::new: one node per local, and the pointer field of each box that is
\* initialised. Statements are read as SafeDropGraph::new reads them.
NewValues(body) ==
  LET built == Build(body).g
      Node(v) == [MopNode(v.index, v.local, v.need_drop, v.may_drop, v.kind,
                          IF v.index < Len(body.tys) THEN NoField ELSE 0)
                    EXCEPT !.fields = v.fields]
  IN  [values |-> Vec([n \in DOMAIN built.values |-> Node(built.values[n])]),
       alias_set |-> built.alias_set, constant |-> <<>>, ret_alias |-> {}, endless |-> <<>>]

NewBlocks(body) == Build(body).blocks

\* disc_map: the enum that a discriminant local was read from, last one in the body.
DiscMap(body) ==
  LET stmts == FlattenSeq([b \in DOMAIN body.mir |->
                 SelectSeq(body.mir[b].stmts, LAMBDA s : s.kind = "Discriminant")])
  IN  FoldLeft(LAMBDA m, s : (s.lv.local :> s.rv.local) @@ m, <<>>, stmts)

-----------------------------------------------------------------------------
(* Places and aliases *)

\* One projection element; the node a place stands for is its own index.
ProjectElem(s, is_right, p) ==
  LET i == s.g.values[s.id].index
      t == IF is_right /\ i # s.id THEN [s EXCEPT !.id = i, !.local = s.g.values[i].local]
           ELSE s
      g == IF p.field \in DOMAIN t.g.values[t.id].fields THEN t.g
           ELSE MopAddField(t.g, t.id, p.field,
                  MopNode(VLen(t.g.values), t.local, p.ty.need_drop, p.ty.may_drop,
                          p.ty.kind, p.field))
  IN  CASE p.op = "Deref" -> [s EXCEPT !.id = i]
        [] p.op = "Field" -> [t EXCEPT !.g = g, !.id = g.values[t.id].fields[p.field]]
        [] OTHER -> s

projection(g, is_right, place) ==
  FoldLeft(LAMBDA s, p : ProjectElem(s, is_right, p),
           [g |-> g, id |-> place.local, local |-> place.local], place.proj)

\* A field of lv like the node r, created on first use.
WithField(g, lv, f, r) ==
  IF f \in DOMAIN g.values[lv].fields THEN g
  ELSE MopAddField(g, lv, f,
         MopNode(VLen(g.values), g.values[lv].local, g.values[r].need_drop,
                 g.values[r].may_drop, g.values[r].kind, f))

\* A call of merge_alias up to its loop over the fields that rv has now; s.todo
\* are the rounds left to do of all calls, those of the innermost first.
EnterMerge(s, lv, rv) ==
  LET fields == s.g.values[rv].fields
      keys == Keys(fields)
  IN  [g |-> [s.g EXCEPT !.alias_set = Vec(union_merge(@, lv, rv))],
       todo |-> [k \in DOMAIN keys |->
                   [lv |-> lv, field |-> keys[k], rv |-> fields[keys[k]]]] \o s.todo]

\* One round of the loop.
MergeField(s) ==
  LET c == Head(s.todo)
      h == WithField(s.g, c.lv, c.field, c.rv)
  IN  IF s.todo = <<>> THEN s
      ELSE EnterMerge([g |-> h, todo |-> Tail(s.todo)], h.values[c.lv].fields[c.field], c.rv)

\* Rounds after which a recursion of merge_alias is taken to have no end.
MaxRounds(g) == 2 * VLen(g.values)

merge_alias(g, lv, rv) ==
  LET s == FoldLeft(LAMBDA t, k : MergeField(t), EnterMerge([g |-> g, todo |-> <<>>], lv, rv),
                    [k \in 1 .. MaxRounds(g) |-> k])
  IN  IF s.todo = <<>> THEN s.g ELSE [g EXCEPT !.endless = <<lv, rv>>]

\* merge walks the field sequence of one side of a summary; a missing field is
\* a pointer node, counted to the node the walk started from on the left, to
\* the local of the last node on the right.
Walk(g, init, seq, nd, md, is_right) ==
  LET Local(s) ==
        IF is_right /\ union_is_same(s.g.alias_set, s.id, s.g.alias_set[s.id])
        THEN s.g.values[s.id].local ELSE s.local
      Step(s, f) ==
        LET h == IF f \in DOMAIN s.g.values[s.id].fields THEN s.g
                 ELSE MopAddField(s.g, s.id, f,
                        MopNode(VLen(s.g.values), Local(s), nd, md, "RawPtr", f))
        IN  [g |-> h, id |-> h.values[s.id].fields[f], local |-> Local(s)]
  IN  FoldLeft(Step, [g |-> g, id |-> init, local |-> init], seq)

merge(g, ret_alias, arg_vec) ==
  IF ret_alias.left_index >= Len(arg_vec) \/ ret_alias.right_index >= Len(arg_vec) THEN g
  ELSE LET l == Walk(g, arg_vec[ret_alias.left_index + 1], ret_alias.left_field_seq,
                     ret_alias.left_need_drop, ret_alias.left_may_drop, FALSE)
           r == Walk(l.g, arg_vec[ret_alias.right_index + 1], ret_alias.right_field_seq,
                     ret_alias.right_need_drop, ret_alias.right_may_drop, TRUE)
       IN  merge_alias(r.g, l.id, r.id)

valuable(ret_alias) == ret_alias.left_may_drop /\ ret_alias.right_may_drop

-----------------------------------------------------------------------------
(* The summary of a path *)

\* The loop reads the father of the first node in every round, and ends because
\* the father of a node that is summarised is a local.
get_field_seq(value) == IF value.field_id = NoField THEN <<>> ELSE <<value.field_id>>

RetAlias(l, r) ==
  [left_index |-> l.local, left_field_seq |-> get_field_seq(l),
   left_may_drop |-> l.may_drop, left_need_drop |-> l.need_drop,
   right_index |-> r.local, right_field_seq |-> get_field_seq(r),
   right_may_drop |-> r.may_drop, right_need_drop |-> r.need_drop]

\* MUTANT of merge_results: the arguments are one too many.
merge_results_wide(g, arg_size) ==
  LET named == {v \in {g.values[n] : n \in DOMAIN g.values} : v.local <= arg_size + 1}
      pairs == {p \in named \X named : /\ p[2].index # 0 /\ p[1].local # p[2].local
                                       /\ union_is_same(g.alias_set, p[1].index, p[2].index)}
  IN  [g EXCEPT !.ret_alias = @ \cup
         {IF p[2].local = 0 THEN RetAlias(p[2], p[1]) ELSE RetAlias(p[1], p[2]) : p \in pairs}]

\* merge_results: at a leaf, each pair of nodes of different arguments (0 is the
\* return value) that are aliases. The return value is on the left.
merge_results(g, arg_size) ==
  LET named == {v \in {g.values[n] : n \in DOMAIN g.values} : v.local <= arg_size}
      pairs == {p \in named \X named : /\ p[2].index # 0 /\ p[1].local # p[2].local
                                       /\ union_is_same(g.alias_set, p[1].index, p[2].index)}
  IN  [g EXCEPT !.ret_alias = @ \cup
         {IF p[2].local = 0 THEN RetAlias(p[2], p[1]) ELSE RetAlias(p[1], p[2]) : p \in pairs}]

-----------------------------------------------------------------------------
(* The effect of one block *)

Assign(g, a) ==
  LET l == projection(g, FALSE, a.lv)
      r == projection(l.g, TRUE, a.rv)
      lv == IF a.atype = "InitBox" THEN r.g.values[l.id].fields[0] ELSE l.id
  IN  IF a.atype = "Variant" THEN [r.g EXCEPT !.alias_set[l.id] = r.id]
      ELSE IF r.g.values[lv].local # r.g.values[r.id].local THEN merge_alias(r.g, lv, r.id)
      ELSE r.g

alias_bb(g, b) ==
  LET h == [g EXCEPT !.constant =
              FoldLeft(LAMBDA c, v : (v[1] :> v[2]) @@ c, @, b.const_value)]
  IN  FoldLeft(Assign, h, b.assignments)

\* The nodes of a call, destination first, and whether any of them may drop.
CallOperands(g, t) ==
  LET d == projection(g, FALSE, t.dest)
      Operand(s, x) ==
        IF x.op = "Const" THEN [s EXCEPT !.vec = Append(@, 0)]
        ELSE LET r == projection(s.g, TRUE, x.place)
             IN  [g |-> r.g, vec |-> Append(s.vec, r.id),
                  may_drop |-> s.may_drop \/ r.g.values[r.id].may_drop]
  IN  FoldLeft(Operand, [g |-> d.g, vec |-> <<d.id>>,
                         may_drop |-> d.g.values[d.id].may_drop], t.args)

\* The graphs to which a summary leads when its valuable aliases are merged in
\* each order of its hash set.
ApplySummary(g, summary, vec) ==
  {FoldLeft(LAMBDA h, a : merge(h, a, vec), g, p)
     : p \in SetToSeqs({a \in summary : valuable(a)})}

\* A callee without MIR: a pointer result is an alias of the only operand that
\* may drop; call_mut and next are exempt.
ApplyUnknown(s, fn) ==
  LET lv == s.vec[1]
      rights == SelectSeq(s.vec, LAMBDA rv :
                  s.g.values[rv].may_drop /\ lv # rv /\ is_ptr(s.g.values[lv]))
  IN  IF s.g.values[lv].may_drop /\ ~fn.corner /\ Len(rights) = 1
      THEN merge_alias(s.g, lv, rights[1]) ELSE s.g

=============================================================================
