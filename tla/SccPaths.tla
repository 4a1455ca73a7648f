------------------------------ MODULE SccPaths ------------------------------
(***************************************************************************)
(* get_paths: the paths of the contracted graph, which senryx analyses one *)
(* by one. The children of a block are visited in some order.              *)
(***************************************************************************)
EXTENDS SccSolve, SequencesExt

\* The blocks a path may continue with.
Children(index) == blocks[scc_indices[index]].next

\* MUTANT of dfs_on_spanning_tree: a leaf returns before the pop.
RECURSIVE dfs_without_pop(_, _, _)
dfs_without_pop(index, path, paths) ==
  LET Visit(acc, child) == dfs_without_pop(child, Append(acc.path, child), acc.paths)
      r == FoldLeft(Visit, [path |-> path, paths |-> paths], SetToSeq(Children(index)))
  IN  IF Children(index) = {} THEN [path |-> path, paths |-> Append(paths, path)]
      ELSE [path |-> Front(r.path), paths |-> r.paths]

\* One call; the stack grows by a child before the call and each call removes
\* one block again when it ends.
RECURSIVE dfs_on_spanning_tree(_, _, _)
dfs_on_spanning_tree(index, path, paths) ==
  LET Visit(acc, child) ==
        dfs_on_spanning_tree(child, Append(acc.path, child), acc.paths)
      r == IF Children(index) = {}
           THEN [path |-> path, paths |-> Append(paths, path)]
           ELSE FoldLeft(Visit, [path |-> path, paths |-> paths], SetToSeq(Children(index)))
  IN  [path |-> Front(r.path), paths |-> r.paths]

get_paths == dfs_on_spanning_tree(0, <<0>>, <<>>).paths

\* A maximal path from the start block, component by component.
IsPath(p) ==
  /\ p # <<>> /\ p[1] = 0
  /\ \A k \in 1 .. Len(p) - 1 : p[k + 1] \in Children(p[k])
  /\ Children(p[Len(p)]) = {}

\* get_paths returns each maximal path of the contracted graph once, and
\* nothing else: senryx neither misses a path nor counts one twice.
PathsAreExact ==
  SccDone =>
    LET paths == get_paths
    IN  /\ ToSet(paths) = {p \in BoundedSeq(Blocks, Cardinality(Blocks)) : IsPath(p)}
        /\ Len(paths) = Cardinality(ToSet(paths))

=============================================================================
