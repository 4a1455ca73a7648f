---------------------------- MODULE SccContract -----------------------------
(***************************************************************************)
(* What solve_scc computes, in closed form. The roots, the sub blocks and  *)
(* their order all follow from the order in which the depth-first search   *)
(* enters the blocks. SccSolve is checked to end with this result; Mop,    *)
(* which analyses functions while it is in the middle of others, uses the  *)
(* result as one step.                                                     *)
(***************************************************************************)
EXTENDS Naturals, Sequences, FiniteSets, Functions

\* switch_target: a block may switch on a node. The node is a local unless the
\* place has a field; alias_set is still the identity here.
HasSwitchTarget(bs, b) ==
  bs[b].switch_stmts # <<>> /\ bs[b].switch_stmts[1].discr.op # "Const"

switch_local(bs, b) ==
  LET p == bs[b].switch_stmts[1].discr.place
  IN  IF \E k \in DOMAIN p.proj : p.proj[k].op = "Field" THEN {} ELSE {p.local}

\* The sub blocks that switch on something the root does not modify, if the
\* root has a switch: each would be paired with the switch of the root.
Switching(bs, root, subs) ==
  {k \in DOMAIN subs : /\ bs[root].switch_stmts # <<>>
                       /\ HasSwitchTarget(bs, subs[k])
                       /\ switch_local(bs, subs[k]) \cap bs[root].modified_value = {}}

\* A component is analysed once per target of its root's switch when exactly
\* one of its sub blocks switches so.
IsChild(bs, root, subs) == \E k \in DOMAIN subs : Switching(bs, root, subs) = {k}

Child(bs, root, subs) ==
  [init_block |-> bs[root], switch |-> bs[root].switch_stmts[1],
   scc_block_set |-> Range(subs)]

-----------------------------------------------------------------------------

\* What can be reached from each block along the edges next.
ReachBy(next) ==
  LET n == Cardinality(DOMAIN next)
      from(b) ==
        LET within[k \in 0 .. n] ==
              IF k = 0 THEN next[b]
              ELSE LET before == within[k - 1] IN before \cup UNION {next[c] : c \in before}
        IN  within[n]
  IN  [b \in DOMAIN next |-> from(b)]

\* The orders in which a depth-first search can enter the blocks: `seen` are those
\* it has entered, `path` those it is inside of; each is entered and left once.
DfsOrders(next) ==
  LET n == Cardinality(DOMAIN next)
      Moves(o) ==
        IF o.path = <<>> THEN {o}
        ELSE LET fresh == next[o.path[Len(o.path)]] \ Range(o.seen)
             IN  IF fresh = {} THEN {[o EXCEPT !.path = SubSeq(@, 1, Len(@) - 1)]}
                 ELSE {[seen |-> Append(o.seen, b), path |-> Append(o.path, b)] : b \in fresh}
      open[k \in 0 .. 2 * n] ==
        IF k = 0 THEN {[seen |-> <<0>>, path |-> <<0>>]} ELSE UNION {Moves(o) : o \in open[k - 1]}
  IN  {o.seen : o \in open[2 * n]}

\* The blocks S in the order in which tarjan pops them: of two that are mutually
\* reachable the one entered last, otherwise the one that is reached from the
\* other, otherwise the one entered first.
PopOrder(next, order, S) ==
  LET reach == ReachBy(next)
      at(b) == CHOOSE i \in DOMAIN order : order[i] = b
      Before(b, c) == IF at(c) < at(b) THEN b \in reach[c] ELSE at(b) < at(c) /\ c \notin reach[b]
  IN  [i \in 1 .. Cardinality(S) |->
         CHOOSE b \in S : Cardinality({c \in S : Before(c, b)}) = i - 1]

\* The blocks, the components and the child components for one order.
Solved(bs, order) ==
  LET next == [b \in DOMAIN bs |-> bs[b].next]
      reach == ReachBy(next)
      Mutual(b, c) == b = c \/ (c \in reach[b] /\ b \in reach[c])
      component == [b \in DOMAIN bs |-> IF b \in Range(order)
                      THEN SelectSeq(order, LAMBDA c : Mutual(b, c)) ELSE <<b>>]
      roots == {b \in Range(order) : component[b][1] = b}
      subs == [b \in roots |-> Tail(component[b])]
      out(b) == (UNION {next[c] : c \in Range(component[b])}) \ Range(component[b])
  IN  [blocks |-> [b \in DOMAIN bs |-> IF b \notin roots THEN bs[b]
                     ELSE [bs[b] EXCEPT !.next = out(b), !.scc_sub_blocks = subs[b]]],
       scc_indices |-> [b \in DOMAIN bs |-> component[b][1]],
       child_scc |-> [b \in {r \in roots : IsChild(bs, r, subs[r])} |-> Child(bs, b, subs[b])]]

=============================================================================
