----------------------------- MODULE DropGraph ------------------------------
(***************************************************************************)
(* The operations of SafeDropGraph on values, alias_set and dead_record:   *)
(* the field-sensitive projection of places, the merging of aliases, the   *)
(* marking of dead nodes, and the three bug checks. Each operator takes    *)
(* the graph and returns the graph after the call.                         *)
(***************************************************************************)
EXTENDS MirBlocks

-----------------------------------------------------------------------------
(* Places and aliases *)

\* MUTANT of Followed: new fields are still counted to the local of the place.
Followed_local(s, is_right) ==
  IF is_right THEN [s EXCEPT !.id = s.g.alias_set[s.id]] ELSE s

\* On the right of an assignment a field is looked up in the head of the class,
\* and a new one is counted to the local of the head.
Followed(s, is_right) ==
  IF is_right /\ s.g.alias_set[s.id] # s.id
  THEN [s EXCEPT !.id = s.g.alias_set[s.id], !.local = s.g.values[s.g.alias_set[s.id]].local]
  ELSE s

\* One projection element of a place; s holds the graph, the node so far and
\* the local that new nodes are counted to.
ProjectElem(s, is_right, p) ==
  LET t == Followed(s, is_right)
      g == IF p.field \in DOMAIN t.g.values[t.id].fields THEN t.g
           ELSE AddField(t.g, t.id, p.field,
                  NewNode(VLen(t.g.values), t.local, p.ty.need_drop, p.ty.may_drop,
                          p.ty.kind, t.g.values[t.id].birth),
                  VLen(t.g.alias_set))
  IN  CASE p.op = "Deref" -> [s EXCEPT !.id = s.g.alias_set[s.id]]
        [] p.op = "Field" -> [t EXCEPT !.g = g, !.id = g.values[t.id].fields[p.field]]
        [] OTHER -> s

\* projection: the node of a place, created on first use.
projection(g, is_right, place) ==
  FoldLeft(LAMBDA s, p : ProjectElem(s, is_right, p),
           [g |-> g, id |-> place.local, local |-> place.local], place.proj)

\* A field of lv like the node r, created on first use.
WithField(g, lv, f, r) ==
  IF f \in DOMAIN g.values[lv].fields THEN g
  ELSE AddField(g, lv, f,
         NewNode(VLen(g.values), g.values[lv].local, g.values[r].need_drop,
                 g.values[r].may_drop, g.values[r].kind, g.values[lv].birth),
         VLen(g.alias_set))

\* A call of merge_alias up to its loop: the nodes are united, and the loop will
\* go over the fields the right one has now. s.todo are the rounds left to do of
\* all the calls that have not returned, those of the innermost first.
EnterMerge(s, lv, rv) ==
  LET fields == s.g.values[rv].fields
      keys == Keys(fields)
  IN  IF lv > VLen(s.g.values) \/ rv > VLen(s.g.values) THEN s
      ELSE [g |-> [s.g EXCEPT !.alias_set = Vec(union_merge(@, lv, rv))],
            todo |-> [k \in DOMAIN keys |->
                        [lv |-> lv, field |-> keys[k], rv |-> fields[keys[k]]]] \o s.todo]

\* One round: a field the left node lacks is created, and the two are merged.
MergeField(s) ==
  LET c == Head(s.todo)
      h == WithField(s.g, c.lv, c.field, c.rv)
  IN  IF s.todo = <<>> THEN s
      ELSE EnterMerge([g |-> h, todo |-> Tail(s.todo)], h.values[c.lv].fields[c.field], c.rv)

\* Rounds after which a recursion of merge_alias is taken to have no end: a
\* value has no more parts than there are nodes, unless it grows with each round.
MaxRounds(g) == 2 * VLen(g.values)

\* merge_alias: unite two nodes and, field by field of the right one, their
\* subtrees.
merge_alias(g, lv, rv) ==
  LET s == FoldLeft(LAMBDA t, k : MergeField(t), EnterMerge([g |-> g, todo |-> <<>>], lv, rv),
                    [k \in 1 .. MaxRounds(g) |-> k])
  IN  IF s.todo = <<>> THEN s.g ELSE [g EXCEPT !.endless = <<lv, rv>>]

\* merge, left side: walk a summary's field sequence, creating pointer nodes
\* that are counted to the node the walk started from.
WalkLeft(g, left_init, seq, nd, md) ==
  LET Walk(s, f) ==
        LET h == IF f \in DOMAIN s.g.values[s.id].fields THEN s.g
                 ELSE AddField(s.g, s.id, f,
                        NewNode(VLen(s.g.values), left_init, nd, md, "RawPtr",
                                s.g.values[s.id].birth),
                        VLen(s.g.alias_set))
        IN  [g |-> h, id |-> h.values[s.id].fields[f]]
  IN  FoldLeft(Walk, [g |-> g, id |-> left_init], seq)

\* merge, right side: a node always has its own alias entry in its class, so
\* the walk continues at the node's recorded index; a new node is numbered by
\* the length of alias_set and its entry is the length of values.
WalkRight(g, right_init, seq, nd, md) ==
  LET Walk(s, f) ==
        LET same == union_is_same(s.g.alias_set, s.id, s.g.alias_set[s.id])
            id == IF same THEN s.g.values[s.id].index ELSE s.id
            local == IF same THEN s.g.values[id].local ELSE s.local
            h == IF f \in DOMAIN s.g.values[id].fields THEN s.g
                 ELSE AddField(s.g, id, f,
                        NewNode(VLen(s.g.alias_set), local, nd, md, "RawPtr",
                                s.g.values[id].birth),
                        VLen(s.g.values))
        IN  [g |-> h, id |-> h.values[id].fields[f], local |-> local]
  IN  FoldLeft(Walk, [g |-> g, id |-> right_init, local |-> right_init], seq)

\* merge: apply one alias of a callee's summary to the nodes of a call.
merge(g, ret_alias, arg_vec) ==
  IF ret_alias.left_index >= Len(arg_vec) \/ ret_alias.right_index >= Len(arg_vec) THEN g
  ELSE LET l == WalkLeft(g, arg_vec[ret_alias.left_index + 1], ret_alias.left_field_seq,
                         ret_alias.left_need_drop, ret_alias.left_may_drop)
           r == WalkRight(l.g, arg_vec[ret_alias.right_index + 1], ret_alias.right_field_seq,
                          ret_alias.right_need_drop, ret_alias.right_may_drop)
       IN  merge_alias(r.g, l.id, r.id)

valuable(ret_alias) == ret_alias.left_may_drop /\ ret_alias.right_may_drop

-----------------------------------------------------------------------------
(* Life and death of nodes *)

\* fill_birth: an assignment gives the node and its descendants a new birth,
\* and with them every dead node of their classes.
fill_birth(g, node, birth) ==
  LET tree == {e.id : e \in ToSet(Tour(g.values, node))}
      Same(i) == \E n \in tree : union_is_same(g.alias_set, i, n)
  IN  [g EXCEPT !.values = Vec([i \in DOMAIN @ |->
         IF i \in tree \/ (@[i].birth = -1 /\ Same(i)) THEN [@[i] EXCEPT !.birth = birth]
         ELSE @[i]])]

\* df_check: a dead node is dropped; the first such drop of a local is kept.
df_check(g, drop, span) ==
  LET root == g.values[drop].local
  IN  IF ~is_alive(g.values[drop]) /\ root \notin DOMAIN g.df
      THEN [g EXCEPT !.df = @ @@ (root :> span)]
      ELSE g

\* MUTANT of AliasesToDrop: the test for the same class is missing.
AliasesToDrop_all(g, drop) ==
  {i \in DOMAIN g.values \ {drop} :
     ~is_ref(g.values[i]) /\ ~is_corner_case(g.values[i]) /\ ~g.dead_record[i]}

\* The nodes for which dead_node calls itself with alias set, and that are not
\* recorded as dropped.
AliasesToDrop(g, drop) ==
  {i \in DOMAIN g.values \ {drop} :
     /\ union_is_same(g.alias_set, drop, i)
     /\ ~is_ref(g.values[i]) /\ ~is_corner_case(g.values[i]) /\ ~g.dead_record[i]}

\* The calls of dead_node with alias set: only a node that is not the head of
\* its class has its aliases dropped. The calls they make in turn come back to
\* nodes of the same class, where dead_record stops them.
dead_aliases(g, drop, birth) ==
  LET hit == AliasesToDrop(g, drop)
  IN  IF g.alias_set[drop] = drop THEN g
      ELSE [g EXCEPT !.dead_record = Vec([i \in DOMAIN @ |-> @[i] \/ i \in hit]),
                     !.values = Vec([i \in DOMAIN @ |->
                       IF i \in hit /\ @[i].birth < birth /\ @[i].may_drop
                       THEN dead(@[i]) ELSE @[i]])]

\* The entry of dead_node; `open` are the nodes whose call has not returned early.
DropEnter(s, drop, birth, span) ==
  LET node == s.g.values[drop]
  IN  IF is_corner_case(node) THEN s
      ELSE IF ~is_alive(node) THEN [s EXCEPT !.g = df_check(@, drop, span)]
      ELSE IF s.g.dead_record[drop] THEN s
      ELSE [g |-> dead_aliases([s.g EXCEPT !.dead_record[drop] = TRUE], drop, birth),
            open |-> s.open \cup {drop}]

\* Its end: only a node born in an earlier component dies itself.
DropLeave(s, drop, birth) ==
  IF s.g.values[drop].birth < birth /\ s.g.values[drop].may_drop
  THEN [s EXCEPT !.g.values[drop] = dead(@)] ELSE s

\* dead_node: a drop of a node takes its aliases and its fields with it; of a
\* tuple only the fields that need to be dropped.
dead_node(g, drop, birth, span) ==
  LET Called(s, e) ==
        \/ e.id = drop
        \/ e.up \in s.open /\ (is_tuple(g.values[e.up]) => g.values[e.id].need_drop)
      Visit(s, e) ==
        IF ~e.enter THEN IF e.id \in s.open THEN DropLeave(s, e.id, birth) ELSE s
        ELSE IF Called(s, e) THEN DropEnter(s, e.id, birth, span) ELSE s
  IN  FoldLeft(Visit, [g |-> g, open |-> {}], Tour(g.values, drop)).g

\* What exist_dead looks at next from a node: its class, which is the node itself
\* when union_has_alias is false, and its fields.
Linked(g, n) ==
  {m \in DOMAIN g.values : union_is_same(g.alias_set, n, m)}
  \cup {g.values[n].fields[f] : f \in DOMAIN g.values[n].fields}

\* The nodes in exist_dead's record when the search ends without a find; each is
\* looked at once.
Searched(g, node) ==
  LET Further(s) ==
        LET new == UNION {Linked(g, m) : m \in s.new} \ s.record
        IN  [record |-> s.record \cup new, new |-> new]
      after[k \in 0 .. VLen(g.values)] ==
        IF k = 0 THEN [record |-> {node}, new |-> {node}] ELSE Further(after[k - 1])
  IN  after[VLen(g.values)].record

\* exist_dead: a depth-first search that visits each node once, for a dead node
\* (a dead pointer, for a dangling-pointer check).
exist_dead(g, node, dangling) ==
  /\ node < VLen(g.values)
  /\ \E m \in Searched(g, node) :
       ~is_alive(g.values[m]) /\ (dangling => is_ptr(g.values[m]))

uaf_check(g, node, span, local, is_func_call) ==
  IF /\ g.values[node].may_drop
     /\ ~is_ptr(g.values[node]) \/ g.values[node].local # local \/ is_func_call
     /\ exist_dead(g, node, FALSE)
  THEN [g EXCEPT !.uaf = @ \cup {span}]
  ELSE g

is_dangling(g, local) == exist_dead(g, local, local # 0)

\* dp_check: at a leaf, the return value must not reach a dead node, nor a
\* pointer argument a dead pointer; a cleanup leaf looks at arguments only.
dp_check(g, is_cleanup, arg_size) ==
  LET args == \E i \in 1 .. arg_size : is_ptr(g.values[i]) /\ is_dangling(g, i)
      ret == g.values[0].may_drop /\ is_dangling(g, 0)
  IN  IF is_cleanup THEN [g EXCEPT !.dp_unwind = @ \/ args]
      ELSE [g EXCEPT !.dp = @ \/ ret \/ args]

-----------------------------------------------------------------------------
(* The effect of one block; birth is the SCC the block belongs to *)

\* Nodes of one local are never merged.
Unite(g, lv, rv) ==
  IF g.values[lv].local # g.values[rv].local THEN merge_alias(g, lv, rv) ELSE g

\* An assignment between the nodes lv and r.id: a discriminant is pointed at
\* its enum, else a use is checked, the left side is born and both are united.
AssignNodes(lv, r, birth, a) ==
  LET to == IF a.atype = "InitBox" THEN r.g.values[lv].fields[0] ELSE lv
  IN  IF a.atype = "Variant" THEN [r.g EXCEPT !.alias_set[lv] = r.id]
      ELSE Unite(fill_birth(uaf_check(r.g, r.id, a.span, a.rv.local, FALSE), to, birth),
                 to, r.id)

Assign(g, birth, a) ==
  LET l == projection(g, FALSE, a.lv)
  IN  AssignNodes(l.id, projection(l.g, TRUE, a.rv), birth, a)

alias_bb(g, b, birth) ==
  LET h == [g EXCEPT !.constant =
              FoldLeft(LAMBDA c, v : (v[1] :> v[2]) @@ c, @, b.const_value)]
  IN  FoldLeft(LAMBDA k, a : Assign(k, birth, a), h, b.assignments)

\* corner_handle: calls of call_mut, next and clone alias nothing.
corner_handle(fn) == fn.corner

\* The nodes of a call's operands: the destination d, then one for each
\* argument; a constant argument stands for node 0. may_drop counts those that
\* may drop.
CallArg(s, x, span) ==
  IF x.op = "Const" THEN [s EXCEPT !.vec = Append(@, 0)]
  ELSE LET r == projection(s.g, TRUE, x.place)
       IN  [g |-> uaf_check(r.g, r.id, span, x.place.local, TRUE),
            vec |-> Append(s.vec, r.id),
            may_drop |-> IF r.g.values[r.id].may_drop THEN s.may_drop + 1 ELSE s.may_drop]

CallArgs(d, birth, t) ==
  FoldLeft(LAMBDA s, x : CallArg(s, x, t.span),
           [g |-> [d.g EXCEPT !.values[d.id].birth = birth], vec |-> <<d.id>>,
            may_drop |-> IF d.g.values[d.id].may_drop THEN 1 ELSE 0], t.args)

\* The effect of the callee on the operands s: its summary if it has MIR, else a
\* pointer result is an alias of the only operand that may drop.
Callee(s, fn) ==
  LET lv == s.vec[1]
      rights == SelectSeq(s.vec, LAMBDA rv :
                  s.g.values[rv].may_drop /\ lv # rv /\ is_ptr(s.g.values[lv]))
  IN  IF fn.kind # "FnDef" \/ s.may_drop <= 1 THEN s.g
      ELSE IF fn.mir
      THEN FoldLeft(LAMBDA h, a : merge(h, a, s.vec), s.g, SelectSeq(fn.aliases, valuable))
      ELSE IF s.g.values[lv].may_drop /\ ~corner_handle(fn) /\ Len(rights) = 1
      THEN merge_alias(s.g, lv, rights[1])
      ELSE s.g

Call(g, birth, t) ==
  IF t.fn.kind = "Operand" THEN g
  ELSE Callee(CallArgs(projection(g, FALSE, t.dest), birth, t), t.fn)

alias_bbcall(g, b, birth) == FoldLeft(LAMBDA h, t : Call(h, birth, t), g, b.calls)

\* A drop of an ADT is ignored when the heap-item analysis found that the
\* variant dropped owns nothing.
drop_heap_item_check(t) == ~t.owner.known \/ t.owner.owned \/ t.owner.params_owned

Drop(g, birth, t) ==
  LET place == IF t.kind = "Drop" THEN t.place ELSE t.args[1].place
      r == projection(g, FALSE, place)
      ignored == IF t.kind = "Drop" THEN ~drop_heap_item_check(t)
                 ELSE t.args = <<>> \/ t.args[1].op = "Const"
  IN  IF ignored THEN g ELSE dead_node(r.g, r.id, birth, t.span)

drop_check(g, b, birth) == FoldLeft(LAMBDA h, t : Drop(h, birth, t), g, b.drops)

\* alias_bb, alias_bbcall and drop_check are always called in this order.
BlockEffect(g, b, birth) == drop_check(alias_bbcall(alias_bb(g, b, birth), b, birth), b, birth)

=============================================================================
