----------------------------- MODULE UnionFind ------------------------------
(***************************************************************************)
(* The union-find operations on an alias_set array, a function from node   *)
(* indices 0 .. n-1 to node indices. A root is an entry equal to its own   *)
(* index.                                                                  *)
(***************************************************************************)
EXTENDS Naturals

\* Follow the entries up to a root.
union_find(a, e) ==
  LET find[r \in DOMAIN a] == IF a[r] = r THEN r ELSE find[a[r]]
  IN  find[e]

\* MUTANT of link: the smaller root goes below the larger one.
link_upwards(a, f1, f2) ==
  [r \in DOMAIN a |->
     IF f1 < f2 /\ r = f1 THEN f2
     ELSE IF f1 > f2 /\ r = f2 THEN f1
     ELSE a[r]]

\* The larger of two roots is linked below the smaller one.
link(a, f1, f2) ==
  [r \in DOMAIN a |->
     IF f1 < f2 /\ r = f2 THEN f1
     ELSE IF f1 > f2 /\ r = f1 THEN f2
     ELSE a[r]]

\* MUTANT of union_merge: the compression loop is missing.
union_merge_uncompressed(a, e1, e2) ==
  link(a, union_find(a, e1), union_find(a, e2))

\* MUTANT of union_merge: links the nodes themselves and not their roots.
union_merge_nodes(a, e1, e2) ==
  LET b == link(a, e1, e2)
  IN  [member \in DOMAIN a |-> union_find(b, b[member])]

\* Link the roots, then point every member at its root. The loop rewrites the
\* array in place; an entry already rewritten has the root it had before.
union_merge(a, e1, e2) ==
  LET b == link(a, union_find(a, e1), union_find(a, e2))
  IN  [member \in DOMAIN a |-> union_find(b, b[member])]

union_is_same(a, e1, e2) == union_find(a, e1) = union_find(a, e2)

=============================================================================
