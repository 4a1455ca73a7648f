----------------------------- MODULE TopoOrder ------------------------------
(***************************************************************************)
(* FlowAnalysis::order: for one body, the edges and predecessors of its    *)
(* blocks (collect_edges) and the order in which rCanary visits them       *)
(* (topo_order). A body is [n, blocks], blocks a function on 0..n-1; here  *)
(* only the terminator [kind, targets] of a block matters.                 *)
(***************************************************************************)
EXTENDS Integers, Sequences, FiniteSets

CONSTANT Bodies

Blocks(b) == 0 .. b.n - 1

\* rustc never lets a block jump back to the start block.
ASSUME BodiesAssumption ==
  \A b \in Bodies : /\ b.n \in Nat \ {0}
                    /\ \A i \in Blocks(b) : b.blocks[i].term.targets \in Seq(1 .. b.n - 1)

VARIABLES body,   \* the body being ordered
          phase,  \* "collect", "pop", "relax", "done"
          e, pre, \* Graph: successors and predecessors of each block
          lev,    \* edges into a block that topo_order has not followed yet
          blk, cnt, \* the block whose edges are gone through, and how far
          q, topo \* the heap of topo_order (it never holds a block twice) and its result

orderVars == <<body, phase, e, pre, lev, blk, cnt, q, topo>>

\* The successors collect_edges records: unwind edges are left out, and so are
\* the targets of Yield, FalseEdge, FalseUnwind and InlineAsm.
Collected(t) ==
  IF t.kind \in {"Goto", "SwitchInt", "Drop", "Assert", "Call"} THEN t.targets ELSE <<>>

Result(b, i) == Collected(b.blocks[i].term)

OrderInit ==
  /\ body \in Bodies
  /\ phase = "collect"
  /\ e = [i \in Blocks(body) |-> <<>>]
  /\ pre = [i \in Blocks(body) |-> <<>>]
  /\ lev = [i \in Blocks(body) |-> 0]
  /\ blk = 0 /\ cnt = 0
  /\ q = {} /\ topo = <<>>

\* collect_edges, one target of one block: duplicates are counted.
CollectEdge ==
  /\ phase = "collect" /\ cnt < Len(Result(body, blk))
  /\ \E next \in {Result(body, blk)[cnt + 1]} :
       /\ lev' = [lev EXCEPT ![next] = @ + 1]
       /\ pre' = [pre EXCEPT ![next] = Append(@, blk)]
  /\ cnt' = cnt + 1
  /\ UNCHANGED <<body, phase, e, blk, q, topo>>

\* The last target of a block is counted: its edges are stored. After the last
\* block topo_order starts with block 0 in its heap.
CollectBlock ==
  /\ phase = "collect" /\ cnt = Len(Result(body, blk))
  /\ e' = [e EXCEPT ![blk] = Result(body, blk)]
  /\ cnt' = 0
  /\ IF blk + 1 < body.n
     THEN blk' = blk + 1 /\ UNCHANGED <<phase, q>>
     ELSE phase' = "pop" /\ q' = {0} /\ UNCHANGED blk
  /\ UNCHANGED <<body, pre, lev, topo>>

\* topo_order, `q.pop()`: a BinaryHeap gives its greatest element.
Pop ==
  /\ phase = "pop"
  /\ \E top \in q : /\ \A b \in q : b <= top
                    /\ q' = q \ {top}
                    /\ topo' = Append(topo, top)
                    /\ blk' = top
  /\ cnt' = 0
  /\ phase' = "relax"
  /\ UNCHANGED <<body, e, pre, lev>>

\* MUTANT of Relax: a block is pushed by the first edge that reaches it.
Relax_eager ==
  /\ phase = "relax" /\ cnt < Len(e[blk])
  /\ \E next \in {e[blk][cnt + 1]} :
       /\ lev' = [lev EXCEPT ![next] = @ - 1]
       /\ q' = q \cup {next}
  /\ cnt' = cnt + 1
  /\ UNCHANGED <<body, phase, e, pre, blk, topo>>

\* topo_order, one edge of the block taken last; `lev[next] - 1` is a usize.
Relax ==
  /\ phase = "relax" /\ cnt < Len(e[blk])
  /\ \E next \in {e[blk][cnt + 1]} :
       /\ lev' = [lev EXCEPT ![next] = @ - 1]
       /\ q' = IF lev[next] = 1 THEN q \cup {next} ELSE q
  /\ cnt' = cnt + 1
  /\ UNCHANGED <<body, phase, e, pre, blk, topo>>

\* All edges of the block are followed; the loop ends when the heap is empty.
Followed ==
  /\ phase = "relax" /\ cnt = Len(e[blk])
  /\ phase' = IF q = {} THEN "done" ELSE "pop"
  /\ UNCHANGED <<body, e, pre, lev, blk, cnt, q, topo>>

OrderNext == CollectEdge \/ CollectBlock \/ Pop \/ Relax \/ Followed

OrderSpec == OrderInit /\ [][OrderNext]_orderVars

-----------------------------------------------------------------------------
Ordered == {topo[i] : i \in 1 .. Len(topo)}

Edges == UNION {{a} \X (1 .. Len(e[a])) : a \in Blocks(body)}

EdgesInto(b) == {x \in Edges : e[x[1]][x[2]] = b}

\* The edges that topo_order has followed.
FollowedEdges == {x \in Edges : x[1] \in Ordered /\ (phase = "relax" /\ x[1] = blk => x[2] <= cnt)}

\* Once the edges are collected, `lev` of a block is exactly the number of
\* edges into it that topo_order still has to follow. So the usize subtraction
\* `lev[next] - 1` never goes below zero, duplicates of a SwitchInt included.
LevCounts ==
  phase # "collect" =>
    \A b \in Blocks(body) : lev[b] = Cardinality(EdgesInto(b) \ FollowedEdges)

\* topo_order gives every block at most once, and a block only after all blocks
\* with an edge into it. preprocess_for_basic_block relies on it: it reads the
\* out slice of each predecessor, and takes pre[0] without a look at the length.
OrderedOnceAfterPreds ==
  \A i \in 1 .. Len(topo) :
    /\ \A j \in 1 .. Len(topo) : topo[i] = topo[j] => i = j
    /\ \A x \in Edges : e[x[1]][x[2]] = topo[i] => \E j \in 1 .. i - 1 : topo[j] = x[1]
    /\ topo[i] # 0 => pre[topo[i]] # <<>>

\* The order that rCanary's visit of the blocks relies on, and the counter it
\* comes from.
OrderIsTopological == LevCounts /\ OrderedOnceAfterPreds

=============================================================================
