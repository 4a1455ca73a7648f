----------------------------- MODULE ValueNodes -----------------------------
(***************************************************************************)
(* The nodes of SafeDropGraph and the three Vecs that are indexed by them. *)
(* A Vec of length n is a function on 0 .. n-1; a FxHashMap is a function  *)
(* on the set of its keys.                                                 *)
(*                                                                         *)
(* A graph g is a record with the fields values (the ValueNodes),          *)
(* alias_set, dead_record, constant, and the bug records df, uaf, dp and   *)
(* dp_unwind; endless holds the operands of a merge_alias that never       *)
(* returns.                                                                *)
(***************************************************************************)
EXTENDS SeqOps, UnionFind

\* The Vec with the entries of f, which are computed once.
Vec(f) == f @@ <<>>

VLen(v) == Cardinality(DOMAIN v)

VPush(v, x) == v @@ (VLen(v) :> x)

\* A type is abstracted to the three facts the graph asks of it: needs_drop,
\* the negation of is_not_drop, and kind.
Ty(need_drop, may_drop, kind) ==
  [need_drop |-> need_drop, may_drop |-> need_drop \/ may_drop, kind |-> kind]

\* ValueNode::new. father and field_id are read by no operation of this graph.
NewNode(index, local, need_drop, may_drop, kind, birth) ==
  [index |-> index, local |-> local, need_drop |-> need_drop,
   may_drop |-> may_drop, kind |-> kind, birth |-> birth, fields |-> <<>>]

dead(node) == [node EXCEPT !.birth = -1]

is_alive(node) == node.birth > -1

is_tuple(node) == node.kind = "Tuple"

is_ptr(node) == node.kind \in {"RawPtr", "Ref"}

is_ref(node) == node.kind = "Ref"

is_corner_case(node) == node.kind = "CornerCase"

\* Insert a node as the given field of a parent: one push on each Vec.
AddField(g, parent, field, node, entry) ==
  [g EXCEPT
     !.values = VPush([@ EXCEPT ![parent].fields = (field :> node.index) @@ @], node),
     !.alias_set = VPush(@, entry),
     !.dead_record = VPush(@, FALSE)]

\* A set of indices, smallest first: the order of a loop over 0 .. n.
Ascending(S) ==
  IF S = {} THEN <<>> ELSE SelectSeq([k \in 1 .. Max(S) + 1 |-> k - 1], LAMBDA i : i \in S)

\* The keys of a fields map, in the order in which the loops visit them.
Keys(fields) == Ascending(DOMAIN fields)

\* The nodes of the tree below n in the order in which a recursion over fields
\* enters and leaves them: the node, the node above it and its field there.
Tour(values, n) ==
  LET visit(m, up, f, enter) == << [id |-> m, up |-> up, field |-> f, enter |-> enter] >>
      below[m \in Nat] ==
        IF m \notin DOMAIN values THEN <<>>
        ELSE LET fields == values[m].fields
                 keys == Keys(fields)
             IN  FlattenSeq([k \in DOMAIN keys |->
                   visit(fields[keys[k]], m, keys[k], TRUE) \o below[fields[keys[k]]]
                     \o visit(fields[keys[k]], m, keys[k], FALSE)])
  IN  visit(n, n, 0, TRUE) \o below[n] \o visit(n, n, 0, FALSE)

\* The parts of n: the nodes below it.
Parts(values, n) == {e.id : e \in ToSet(Tour(values, n))} \ {n}

BugRecords == [df |-> <<>>, uaf |-> {}, dp |-> FALSE, dp_unwind |-> FALSE]

\* One node for each local of the body.
NewGraph(tys) ==
  LET locals == 0 .. Len(tys) - 1
  IN  [values |-> [l \in locals |->
                     NewNode(l, l, tys[l + 1].need_drop, tys[l + 1].may_drop,
                             tys[l + 1].kind, 0)],
       alias_set |-> [l \in locals |-> l],
       dead_record |-> [l \in locals |-> FALSE],
       constant |-> <<>>, endless |-> <<>>] @@ BugRecords

=============================================================================
