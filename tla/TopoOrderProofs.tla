-------------------------- MODULE TopoOrderProofs ---------------------------
(***************************************************************************)
(* Proofs about FlowAnalysis::order, for every body: the in-degree counter *)
(* of topo_order is exact, and the order it gives is one in which every    *)
(* block comes once, after all its predecessors.                           *)
(***************************************************************************)
EXTENDS TopoOrder, FiniteSetTheorems, TLAPS

OrderTypeOK ==
  /\ body \in Bodies
  /\ phase \in {"collect", "pop", "relax", "done"}
  /\ e \in [Blocks(body) -> Seq(1 .. body.n - 1)]
  /\ pre \in [Blocks(body) -> Seq(Nat)]
  /\ lev \in [Blocks(body) -> Nat]
  /\ blk \in Blocks(body) /\ cnt \in Nat
  /\ q \subseteq Blocks(body)
  /\ topo \in Seq(Blocks(body))

\* The edges into b that collect_edges has counted so far.
Counted(b) ==
  {x \in Blocks(body) \X Nat :
     /\ x[2] \in 1 .. Len(Result(body, x[1]))
     /\ Result(body, x[1])[x[2]] = b
     /\ x[1] < blk \/ (x[1] = blk /\ x[2] <= cnt)}

CollectInv ==
  phase = "collect" =>
    /\ cnt <= Len(Result(body, blk))
    /\ q = {} /\ topo = <<>>
    /\ \A a \in Blocks(body) : a < blk => e[a] = Result(body, a)
    /\ \A b \in Blocks(body) : /\ IsFiniteSet(Counted(b))
                               /\ lev[b] = Cardinality(Counted(b))
                               /\ Counted(b) # {} => pre[b] # <<>>

\* The edges into b that topo_order still has to follow.
Pending(b) == EdgesInto(b) \ FollowedEdges

OrderInv ==
  phase # "collect" =>
    /\ \A b \in Blocks(body) : /\ IsFiniteSet(Pending(b))
                               /\ lev[b] = Cardinality(Pending(b))
                               /\ EdgesInto(b) # {} => pre[b] # <<>>
    /\ phase = "relax" => blk \in Ordered /\ cnt <= Len(e[blk])
    /\ q \cap Ordered = {}
    /\ \A b \in q \cup Ordered : Pending(b) = {} /\ (b # 0 => pre[b] # <<>>)

IInv == OrderTypeOK /\ CollectInv /\ OrderInv /\ OrderedOnceAfterPreds

-----------------------------------------------------------------------------
\* What collect_edges takes from a terminator is a sequence of blocks other
\* than the start block.
LEMMA ResultType ==
  ASSUME NEW b \in Bodies, NEW i \in Blocks(b)
  PROVE  Result(b, i) \in Seq(1 .. b.n - 1)
<1>1. b.blocks[i].term.targets \in Seq(1 .. b.n - 1)
  BY BodiesAssumption
<1>2. <<>> \in Seq(1 .. b.n - 1)
  OBVIOUS
<1>3. QED
  BY <1>1, <1>2, Zenon DEF Result, Collected

\* The blocks of a body are its numbers from zero, and zero is one of them.
LEMMA BlocksAreNumbers ==
  ASSUME NEW b \in Bodies
  PROVE  b.n \in Nat \ {0} /\ 0 \in Blocks(b) /\ Blocks(b) \subseteq Nat
                           /\ 1 .. b.n - 1 \subseteq Blocks(b)
BY BodiesAssumption DEF Blocks

\* An element of a sequence is one of its set.
LEMMA ElementOf ==
  ASSUME NEW S, NEW s \in Seq(S), NEW i \in 1 .. Len(s)
  PROVE  s[i] \in S
OBVIOUS

\* A sequence that was appended to is not empty.
LEMMA AppendNotEmpty ==
  ASSUME NEW s \in Seq(Nat), NEW v \in Nat
  PROVE  Append(s, v) \in Seq(Nat) /\ Append(s, v) # <<>>
<1>1. Append(s, v) \in Seq(Nat) /\ Len(Append(s, v)) = Len(s) + 1 /\ Len(s) \in Nat
  OBVIOUS
<1>2. Len(<<>>) = 0
  OBVIOUS
<1>3. QED
  BY <1>1, <1>2

\* A finite set grows by one with a new element, and shrinks by one without one
\* of its elements.
LEMMA OneMore ==
  ASSUME NEW S, NEW y, IsFiniteSet(S), y \notin S
  PROVE  IsFiniteSet(S \cup {y}) /\ Cardinality(S \cup {y}) = Cardinality(S) + 1
BY FS_AddElement

\* A finite set that has an element loses one by its removal, and is empty then
\* if that was the only one: what `lev[tgt] -= 1` and the test for 0 rely on.
LEMMA OneLess ==
  ASSUME NEW S, NEW y, IsFiniteSet(S), y \in S
  PROVE  /\ IsFiniteSet(S \ {y}) /\ Cardinality(S \ {y}) = Cardinality(S) - 1
         /\ Cardinality(S) \in Nat \ {0}
         /\ Cardinality(S) = 1 => S \ {y} = {}
<1>1. IsFiniteSet(S \ {y}) /\ Cardinality(S \ {y}) = Cardinality(S) - 1
  BY FS_RemoveElement
<1>2. Cardinality(S) \in Nat /\ Cardinality(S \ {y}) \in Nat
  BY <1>1, FS_CardinalityType
<1>3. Cardinality(S \ {y}) = 0 => S \ {y} = {}
  BY <1>1, FS_EmptySet
<1>4. QED
  BY <1>1, <1>2, <1>3

\* Before the first step nothing is counted and nothing is ordered.
LEMMA InitHolds == OrderInit => IInv
<1> SUFFICES ASSUME OrderInit PROVE IInv
  OBVIOUS
<1>1. OrderTypeOK
  BY BlocksAreNumbers DEF OrderInit, OrderTypeOK
<1>2. CollectInv
  <2>1. \A b \in Blocks(body) : Counted(b) = {}
    BY BlocksAreNumbers DEF OrderInit, Counted, Blocks
  <2>2. cnt <= Len(Result(body, blk))
    BY ResultType, BlocksAreNumbers DEF OrderInit
  <2>3. \A a \in Blocks(body) : a < blk => e[a] = Result(body, a)
    BY BlocksAreNumbers DEF OrderInit, Blocks
  <2>4. QED
    BY <2>1, <2>2, <2>3, FS_EmptySet DEF OrderInit, CollectInv
<1>3. OrderInv /\ OrderedOnceAfterPreds
  BY DEF OrderInit, OrderInv, OrderedOnceAfterPreds
<1>4. QED
  BY <1>1, <1>2, <1>3 DEF IInv

\* One more edge counted: `lev` of its target and the edges counted into it both
\* grow by one, and no other block is concerned.
LEMMA CollectEdgeStep == IInv /\ CollectEdge => IInv'
<1> SUFFICES ASSUME IInv, CollectEdge PROVE IInv'
  OBVIOUS
<1> DEFINE next == Result(body, blk)[cnt + 1]
           x == <<blk, cnt + 1>>
<1> USE DEF IInv
<1>1. /\ phase = "collect" /\ phase' = "collect" /\ body' = body /\ blk' = blk /\ e' = e
      /\ cnt < Len(Result(body, blk)) /\ cnt' = cnt + 1 /\ q' = q /\ topo' = topo
      /\ lev' = [lev EXCEPT ![next] = @ + 1] /\ pre' = [pre EXCEPT ![next] = Append(@, blk)]
  BY Zenon DEF CollectEdge
<1>2. body \in Bodies /\ blk \in Blocks(body) /\ blk \in Nat /\ cnt \in Nat
  BY BlocksAreNumbers DEF OrderTypeOK
<1>3. Result(body, blk) \in Seq(1 .. body.n - 1)
  BY <1>2, ResultType
<1>4. next \in 1 .. body.n - 1 /\ next \in Blocks(body)
  <2>1. cnt + 1 \in 1 .. Len(Result(body, blk))
    BY <1>1, <1>2, <1>3
  <2>2. next \in 1 .. body.n - 1
    BY <2>1, <1>3, ElementOf, Zenon
  <2>3. QED
    BY <2>2, <1>2, BlocksAreNumbers
<1> HIDE DEF next
<1>5. OrderTypeOK'
  <2>1. lev' \in [Blocks(body) -> Nat]
    BY <1>1, <1>4, SMTT(60) DEF OrderTypeOK
  <2>2. pre[next] \in Seq(Nat)
    BY <1>4 DEF OrderTypeOK
  <2>3. Append(pre[next], blk) \in Seq(Nat)
    BY <2>2, <1>2
  <2>4. pre' \in [Blocks(body) -> Seq(Nat)]
    BY <1>1, <1>4, <2>3 DEF OrderTypeOK
  <2>5. cnt' \in Nat
    BY <1>1, <1>2
  <2>6. QED
    BY <1>1, <1>2, <2>1, <2>4, <2>5, Zenon DEF OrderTypeOK
<1>6. x \in Blocks(body) \X Nat /\ x[2] \in 1 .. Len(Result(body, x[1])) /\ Result(body, x[1])[x[2]] = next
  BY <1>1, <1>2, <1>3 DEF next
<1>7. ASSUME NEW b \in Blocks(body)
      PROVE  Counted(b)' = IF b = next THEN Counted(b) \cup {x} ELSE Counted(b)
  <2>1. ASSUME NEW y \in Blocks(body) \X Nat, y[1] < blk \/ (y[1] = blk /\ y[2] <= cnt + 1),
               ~ (y[1] < blk \/ (y[1] = blk /\ y[2] <= cnt))
        PROVE  y = x
    BY <2>1, <1>2, BlocksAreNumbers
  <2>2. ASSUME NEW y \in Blocks(body) \X Nat, y[1] < blk \/ (y[1] = blk /\ y[2] <= cnt)
        PROVE  y[1] < blk \/ (y[1] = blk /\ y[2] <= cnt + 1)
    BY <2>2, <1>2, BlocksAreNumbers
  <2>3. Counted(b)' = {y \in Blocks(body) \X Nat :
                         /\ y[2] \in 1 .. Len(Result(body, y[1]))
                         /\ Result(body, y[1])[y[2]] = b
                         /\ y[1] < blk \/ (y[1] = blk /\ y[2] <= cnt + 1)}
    BY <1>1 DEF Counted
  <2>4. x[1] = blk /\ x[2] <= cnt + 1
    BY <1>2
  <2>5. QED
    BY <2>1, <2>2, <2>3, <2>4, <1>6 DEF Counted
<1>8. x \notin Counted(next)
  BY <1>2 DEF Counted
<1>9. CollectInv'
  <2>1. cnt' <= Len(Result(body', blk'))
    BY <1>1, <1>2, <1>3
  <2>2. ASSUME NEW b \in Blocks(body)
        PROVE  /\ IsFiniteSet(Counted(b)') /\ lev'[b] = Cardinality(Counted(b)')
               /\ Counted(b)' # {} => pre'[b] # <<>>
    <3>1. IsFiniteSet(Counted(b)) /\ lev[b] = Cardinality(Counted(b)) /\ (Counted(b) # {} => pre[b] # <<>>)
      BY <1>1 DEF CollectInv
    <3>2. CASE b = next
      <4>1. Counted(b)' = Counted(b) \cup {x}
        BY <3>2, <1>7
      <4>2. IsFiniteSet(Counted(b)') /\ Cardinality(Counted(b)') = Cardinality(Counted(b)) + 1
        <5> HIDE DEF x
        <5>1. QED
          BY <4>1, <3>1, <3>2, <1>8, OneMore
      <4>3. lev'[b] = lev[b] + 1 /\ pre'[b] = Append(pre[b], blk)
        BY <1>1, <1>4, <3>2 DEF OrderTypeOK
      <4>4. pre[b] \in Seq(Nat)
        BY DEF OrderTypeOK
      <4>5. pre'[b] # <<>>
        BY <4>3, <4>4, <1>2, AppendNotEmpty
      <4>6. QED
        BY <4>2, <4>3, <4>5, <3>1
    <3>3. CASE b # next
      <4>1. Counted(b)' = Counted(b) /\ lev'[b] = lev[b] /\ pre'[b] = pre[b]
        BY <3>3, <1>1, <1>7 DEF OrderTypeOK
      <4>2. QED
        BY <4>1, <3>1
    <3>4. QED
      BY <3>2, <3>3
  <2>3. QED
    BY <2>1, <2>2, <1>1 DEF CollectInv
<1>10. OrderInv' /\ OrderedOnceAfterPreds'
  BY <1>1 DEF OrderInv, OrderedOnceAfterPreds, CollectInv
<1>11. QED
  BY <1>5, <1>9, <1>10

\* A block's edges are stored; after the last block the edges counted are the
\* edges of the graph, and topo_order has followed none.
LEMMA CollectBlockStep == IInv /\ CollectBlock => IInv'
<1> SUFFICES ASSUME IInv, CollectBlock PROVE IInv'
  OBVIOUS
<1> USE DEF IInv
<1>1. /\ phase = "collect" /\ body' = body /\ pre' = pre /\ lev' = lev /\ topo' = topo
      /\ cnt = Len(Result(body, blk)) /\ cnt' = 0 /\ e' = [e EXCEPT ![blk] = Result(body, blk)]
  BY DEF CollectBlock
<1>2. body \in Bodies /\ blk \in Blocks(body) /\ blk \in Nat /\ cnt \in Nat /\ topo = <<>> /\ q = {}
  BY <1>1, BlocksAreNumbers, Zenon DEF OrderTypeOK, CollectInv
<1>3. Result(body, blk) \in Seq(1 .. body.n - 1)
  BY <1>2, ResultType
<1>4. \A a \in Blocks(body) : a <= blk => e'[a] = Result(body, a)
  BY <1>1, <1>2, BlocksAreNumbers DEF OrderTypeOK, CollectInv
<1>5. CASE blk + 1 < body.n
  <2>1. blk' = blk + 1 /\ phase' = "collect" /\ q' = {}
    BY <1>5, <1>1, <1>2 DEF CollectBlock
  <2>2. blk' \in Blocks(body)
    BY <2>1, <1>2, <1>5, BlocksAreNumbers DEF Blocks
  <2>3. OrderTypeOK'
    BY <1>1, <1>2, <1>3, <2>1, <2>2 DEF OrderTypeOK
  <2>4. \A b \in Blocks(body) : Counted(b)' = Counted(b)
    <3>1. ASSUME NEW y \in Blocks(body) \X Nat, y[2] \in 1 .. Len(Result(body, y[1]))
          PROVE  (y[1] < blk + 1 \/ (y[1] = blk + 1 /\ y[2] <= 0))
                    <=> (y[1] < blk \/ (y[1] = blk /\ y[2] <= cnt))
      BY <3>1, <1>1, <1>2, BlocksAreNumbers
    <3>2. QED
      BY <3>1, <1>1, <2>1 DEF Counted
  <2>5. cnt' <= Len(Result(body', blk'))
    BY <1>1, <1>2, <2>2, ResultType
  <2>6. \A a \in Blocks(body) : a < blk' => e'[a] = Result(body, a)
    BY <1>4, <1>2, <2>1, BlocksAreNumbers
  <2>7. CollectInv'
    BY <1>1, <1>2, <2>1, <2>4, <2>5, <2>6 DEF CollectInv
  <2>8. OrderInv' /\ OrderedOnceAfterPreds'
    BY <1>1, <1>2, <2>1 DEF OrderInv, OrderedOnceAfterPreds
  <2>9. QED
    BY <2>3, <2>7, <2>8
<1>6. CASE ~ (blk + 1 < body.n)
  <2>1. blk' = blk /\ phase' = "pop" /\ q' = {0}
    BY <1>6, <1>1, <1>2 DEF CollectBlock
  <2>2. OrderTypeOK'
    BY <1>1, <1>2, <1>3, <2>1, BlocksAreNumbers, Zenon DEF OrderTypeOK
  <2>3. \A a \in Blocks(body) : a <= blk /\ e'[a] = Result(body, a)
    BY <1>2, <1>4, <1>6, BlocksAreNumbers DEF Blocks
  <2>4. Ordered' = {}
    BY <1>1, <1>2 DEF Ordered
  <2>5. FollowedEdges' = {}
    BY <2>4 DEF FollowedEdges
  <2>6. ASSUME NEW b \in Blocks(body)
        PROVE  EdgesInto(b)' = Counted(b)
    <3>1. ASSUME NEW y \in Blocks(body) \X Nat, y[2] \in 1 .. Len(Result(body, y[1]))
          PROVE  y[1] < blk \/ (y[1] = blk /\ y[2] <= cnt)
      BY <3>1, <2>3, <1>1, <1>2, BlocksAreNumbers
    <3>2. Edges' = {y \in Blocks(body) \X Nat : y[2] \in 1 .. Len(Result(body, y[1]))}
      <4>1. Edges' = UNION {{a} \X (1 .. Len(Result(body, a))) : a \in Blocks(body)}
        BY <1>1, <2>3 DEF Edges
      <4>2. \A a \in Blocks(body) : 1 .. Len(Result(body, a)) \subseteq Nat
        BY ResultType, <1>2
      <4>3. QED
        BY <4>1, <4>2
    <3>3. EdgesInto(b)' = {y \in Edges' : Result(body, y[1])[y[2]] = b}
      BY <2>3, <3>2 DEF EdgesInto
    <3>4. QED
      BY <3>1, <3>2, <3>3 DEF Counted
  <2>7. ASSUME NEW b \in Blocks(body)
        PROVE  /\ IsFiniteSet(Pending(b)') /\ lev'[b] = Cardinality(Pending(b)')
               /\ EdgesInto(b)' # {} => pre'[b] # <<>>
    <3>1. Pending(b)' = Counted(b)
      BY <2>5, <2>6 DEF Pending
    <3>2. QED
      BY <3>1, <2>6, <1>1 DEF CollectInv
  <2>8. EdgesInto(0)' = {}
    <3>1. ASSUME NEW y \in Counted(0) PROVE FALSE
      <4>1. y[1] \in Blocks(body) /\ y[2] \in 1 .. Len(Result(body, y[1])) /\ Result(body, y[1])[y[2]] = 0
        BY DEF Counted
      <4>2. Result(body, y[1]) \in Seq(1 .. body.n - 1)
        BY <4>1, <1>2, ResultType, Zenon
      <4>3. QED
        BY <4>1, <4>2, <1>2, BlocksAreNumbers
    <3>2. QED
      BY <3>1, <2>6, <1>2, BlocksAreNumbers
  <2>9. OrderInv'
    BY <1>1, <2>1, <2>4, <2>7, <2>8, Zenon DEF OrderInv, Pending
  <2>10. CollectInv' /\ OrderedOnceAfterPreds'
    BY <1>1, <1>2, <2>1 DEF CollectInv, OrderedOnceAfterPreds
  <2>11. QED
    BY <2>2, <2>9, <2>10
<1>7. QED
  BY <1>5, <1>6

\* A block leaves the heap for the order. No edge of it is followed yet, and all
\* edges into it are, so all its predecessors are in the order already.
LEMMA PopStep == IInv /\ Pop => IInv'
<1> SUFFICES ASSUME IInv, Pop PROVE IInv'
  OBVIOUS
<1> USE DEF IInv
<1>1. PICK top \in q : q' = q \ {top} /\ topo' = Append(topo, top) /\ blk' = top
  BY DEF Pop
<1>2. /\ phase = "pop" /\ phase' = "relax" /\ cnt' = 0
      /\ body' = body /\ e' = e /\ pre' = pre /\ lev' = lev
  BY DEF Pop
<1>3. top \in Blocks(body) /\ topo \in Seq(Blocks(body)) /\ Len(topo) \in Nat
  BY DEF OrderTypeOK
<1>4. topo' \in Seq(Blocks(body)) /\ Len(topo') = Len(topo) + 1 /\ topo'[Len(topo) + 1] = top
  BY <1>1, <1>3
<1>5. \A i \in 1 .. Len(topo) : topo'[i] = topo[i]
  BY <1>1, <1>3
<1>6. OrderTypeOK'
  BY <1>1, <1>2, <1>3, <1>4 DEF OrderTypeOK
<1>7. Ordered' = Ordered \cup {top}
  <2>1. 1 .. Len(topo') = (1 .. Len(topo)) \cup {Len(topo) + 1}
    BY <1>3, <1>4
  <2>2. QED
    BY <2>1, <1>4, <1>5 DEF Ordered
<1>8. top \notin Ordered
  BY <1>2 DEF OrderInv
<1>9. Edges' = Edges /\ (\A b : EdgesInto(b)' = EdgesInto(b))
  BY <1>2 DEF Edges, EdgesInto
<1>10. FollowedEdges' = FollowedEdges
  <2>1. \A x \in Edges : x[2] \in Nat /\ ~ (x[2] <= 0)
    BY <1>3, SMTT(60) DEF Edges, OrderTypeOK
  <2>2. FollowedEdges' = {x \in Edges : x[1] \in Ordered \cup {top} /\ (x[1] = top => x[2] <= 0)}
    BY <1>1, <1>2, <1>7, <1>9 DEF FollowedEdges
  <2>3. FollowedEdges = {x \in Edges : x[1] \in Ordered}
    BY <1>2 DEF FollowedEdges
  <2>4. QED
    BY <2>1, <2>2, <2>3, <1>8
<1>11. \A b : Pending(b)' = Pending(b)
  BY <1>9, <1>10 DEF Pending
<1>12. OrderInv'
  <2>1. cnt' <= Len(e'[blk'])
    BY <1>1, <1>2, <1>3 DEF OrderTypeOK
  <2>2. q' \cap Ordered' = {} /\ q' \cup Ordered' = q \cup Ordered
    BY <1>1, <1>2, <1>7 DEF OrderInv
  <2>3. blk' \in Ordered'
    BY <1>1, <1>7
  <2>4. QED
    BY <1>2, <1>9, <1>11, <2>1, <2>2, <2>3 DEF OrderInv
<1>13. OrderedOnceAfterPreds'
  <2> SUFFICES ASSUME NEW i \in 1 .. Len(topo')
               PROVE  /\ \A j \in 1 .. Len(topo') : topo'[i] = topo'[j] => i = j
                      /\ \A x \in Edges : e[x[1]][x[2]] = topo'[i] => \E j \in 1 .. i - 1 : topo'[j] = x[1]
                      /\ topo'[i] # 0 => pre[topo'[i]] # <<>>
    BY <1>2, <1>9 DEF OrderedOnceAfterPreds
  <2>1. \A j \in 1 .. Len(topo) : topo[j] # top
    BY <1>8 DEF Ordered
  <2>2. CASE i \in 1 .. Len(topo)
    <3>1. \A j \in 1 .. Len(topo') : topo'[i] = topo'[j] => i = j
      BY <2>1, <2>2, <1>3, <1>4, <1>5 DEF OrderedOnceAfterPreds
    <3>2. ASSUME NEW x \in Edges, e[x[1]][x[2]] = topo'[i]
          PROVE  \E j \in 1 .. i - 1 : topo'[j] = x[1]
      <4>1. PICK j \in 1 .. i - 1 : topo[j] = x[1]
        BY <2>2, <3>2, <1>5 DEF OrderedOnceAfterPreds
      <4>2. j \in 1 .. Len(topo)
        BY <2>2, <1>3
      <4>3. QED
        BY <4>1, <4>2, <1>5
    <3>3. topo'[i] # 0 => pre[topo'[i]] # <<>>
      BY <2>2, <1>5 DEF OrderedOnceAfterPreds
    <3>4. QED
      BY <3>1, <3>2, <3>3
  <2>3. CASE i = Len(topo) + 1
    <3>1. topo'[i] = top
      BY <2>3, <1>4
    <3>2. \A j \in 1 .. Len(topo') : topo'[i] = topo'[j] => i = j
      BY <2>1, <2>3, <3>1, <1>3, <1>4, <1>5
    <3>3. ASSUME NEW x \in Edges, e[x[1]][x[2]] = top
          PROVE  \E j \in 1 .. i - 1 : topo'[j] = x[1]
      <4>1. x \in EdgesInto(top)
        BY <3>3 DEF EdgesInto
      <4>2. Pending(top) = {}
        BY <1>2 DEF OrderInv
      <4>3. x[1] \in Ordered
        BY <4>1, <4>2 DEF Pending, FollowedEdges
      <4>4. PICK j \in 1 .. Len(topo) : topo[j] = x[1]
        BY <4>3 DEF Ordered
      <4>5. j \in 1 .. i - 1
        BY <2>3, <1>3
      <4>6. QED
        BY <4>4, <4>5, <1>5
    <3>4. top # 0 => pre[top] # <<>>
      BY <1>2 DEF OrderInv
    <3>5. QED
      BY <3>1, <3>2, <3>3, <3>4
  <2>4. QED
    BY <2>2, <2>3, <1>3, <1>4
<1>14. CollectInv'
  BY <1>2 DEF CollectInv
<1>15. QED
  BY <1>6, <1>12, <1>13, <1>14

\* One edge followed: it was pending, so its target is in neither the heap nor
\* the order, and the counter of the target was at least one.
LEMMA RelaxStep == IInv /\ Relax => IInv'
<1> SUFFICES ASSUME IInv, Relax PROVE IInv'
  OBVIOUS
<1> DEFINE next == e[blk][cnt + 1]
           x == <<blk, cnt + 1>>
<1> USE DEF IInv
<1>1. /\ phase = "relax" /\ phase' = "relax" /\ cnt < Len(e[blk]) /\ cnt' = cnt + 1
      /\ lev' = [lev EXCEPT ![next] = @ - 1] /\ q' = (IF lev[next] = 1 THEN q \cup {next} ELSE q)
      /\ body' = body /\ e' = e /\ pre' = pre /\ blk' = blk /\ topo' = topo
  BY Zenon DEF Relax
<1>2. body \in Bodies /\ blk \in Blocks(body) /\ cnt \in Nat /\ e[blk] \in Seq(1 .. body.n - 1)
  BY DEF OrderTypeOK
<1>3. cnt + 1 \in 1 .. Len(e[blk])
  BY <1>1, <1>2
<1>4. next \in 1 .. body.n - 1 /\ next \in Blocks(body)
  <2>1. next \in 1 .. body.n - 1
    BY <1>2, <1>3, ElementOf, Zenon
  <2>2. QED
    BY <2>1, <1>2, BlocksAreNumbers
<1>5. x \in Edges /\ x \in EdgesInto(next)
  BY <1>2, <1>3 DEF Edges, EdgesInto
<1> HIDE DEF next
<1>6. x \notin FollowedEdges
  BY <1>1, <1>2 DEF FollowedEdges
<1>7. Ordered' = Ordered /\ Edges' = Edges /\ (\A b : EdgesInto(b)' = EdgesInto(b))
  BY <1>1 DEF Ordered, Edges, EdgesInto
<1>8. blk \in Ordered
  BY <1>1 DEF OrderInv
<1>9. FollowedEdges' = FollowedEdges \cup {x}
  <2>1. \A y \in Edges : /\ y[1] \in Blocks(body) /\ y[2] \in Nat /\ y = <<y[1], y[2]>>
    BY DEF Edges, OrderTypeOK
  <2>2. FollowedEdges' = {y \in Edges : y[1] \in Ordered /\ (y[1] = blk => y[2] <= cnt + 1)}
    BY <1>1, <1>7 DEF FollowedEdges
  <2>3. FollowedEdges = {y \in Edges : y[1] \in Ordered /\ (y[1] = blk => y[2] <= cnt)}
    BY <1>1 DEF FollowedEdges
  <2>4. ASSUME NEW y \in Edges, y[1] = blk, y[2] <= cnt + 1, ~ (y[2] <= cnt)
        PROVE  y = x
    BY <2>1, <2>4, <1>2
  <2>5. ASSUME NEW y \in Edges, y[2] <= cnt
        PROVE  y[2] <= cnt + 1
    BY <2>1, <2>5, <1>2
  <2>6. x[1] = blk /\ x[2] <= cnt + 1
    BY <1>2
  <2>7. QED
    BY <2>2, <2>3, <2>4, <2>5, <2>6, <1>5, <1>8
<1>10. ASSUME NEW b \in Blocks(body)
       PROVE  Pending(b)' = IF b = next THEN Pending(b) \ {x} ELSE Pending(b)
  BY <1>5, <1>7, <1>9 DEF Pending, EdgesInto
<1>11. x \in Pending(next)
  BY <1>5, <1>6 DEF Pending
<1> HIDE DEF x
<1>12. next \notin q \cup Ordered
  BY <1>1, <1>11 DEF OrderInv
<1>13. IsFiniteSet(Pending(next)) /\ lev[next] = Cardinality(Pending(next))
  BY <1>1, <1>4 DEF OrderInv
<1>14. /\ IsFiniteSet(Pending(next) \ {x}) /\ Cardinality(Pending(next) \ {x}) = lev[next] - 1
       /\ lev[next] \in Nat \ {0} /\ (lev[next] = 1 => Pending(next) \ {x} = {})
  BY <1>11, <1>13, OneLess
<1>15. OrderTypeOK'
  <2>1. lev' \in [Blocks(body) -> Nat]
    BY <1>1, <1>4, <1>14, SMTT(60) DEF OrderTypeOK
  <2>2. q' \subseteq Blocks(body)
    BY <1>1, <1>4 DEF OrderTypeOK
  <2>3. cnt' \in Nat
    BY <1>1, <1>2
  <2>4. QED
    BY <1>1, <2>1, <2>2, <2>3 DEF OrderTypeOK
<1>16. OrderInv'
  <2>1. ASSUME NEW b \in Blocks(body)
        PROVE  IsFiniteSet(Pending(b)') /\ lev'[b] = Cardinality(Pending(b)')
    <3>1. CASE b = next
      BY <3>1, <1>1, <1>4, <1>10, <1>14, Zenon DEF OrderTypeOK
    <3>2. CASE b # next
      <4>1. Pending(b)' = Pending(b) /\ lev'[b] = lev[b]
        BY <3>2, <1>1, <1>10 DEF OrderTypeOK
      <4>2. QED
        BY <4>1, <1>1 DEF OrderInv
    <3>3. QED
      BY <3>1, <3>2
  <2>2. \A b \in Blocks(body) : EdgesInto(b)' # {} => pre'[b] # <<>>
    BY <1>1, <1>7 DEF OrderInv
  <2>3. blk' \in Ordered' /\ cnt' <= Len(e'[blk'])
    BY <1>1, <1>2, <1>7, <1>8
  <2>4. q' \cap Ordered' = {}
    BY <1>1, <1>7, <1>12 DEF OrderInv
  <2>5. ASSUME NEW b \in q' \cup Ordered'
        PROVE  Pending(b)' = {} /\ (b # 0 => pre'[b] # <<>>)
    <3>1. CASE b \in q \cup Ordered
      <4>1. b \in Blocks(body) /\ b # next
        BY <3>1, <1>12, SMTT(60) DEF OrderTypeOK, Ordered
      <4>2. QED
        BY <3>1, <4>1, <1>1, <1>10 DEF OrderInv
    <3>2. CASE b \notin q \cup Ordered
      <4>1. b = next /\ lev[next] = 1
        BY <3>2, <1>1, <1>7
      <4>2. pre[next] # <<>>
        BY <1>1, <1>4, <1>5 DEF OrderInv
      <4>3. QED
        BY <4>1, <4>2, <1>1, <1>4, <1>10, <1>14
    <3>3. QED
      BY <3>1, <3>2
  <2>6. QED
    BY <1>1, <2>1, <2>2, <2>3, <2>4, <2>5 DEF OrderInv
<1>17. OrderedOnceAfterPreds' /\ CollectInv'
  BY <1>1, <1>7 DEF OrderedOnceAfterPreds, CollectInv
<1>18. QED
  BY <1>15, <1>16, <1>17

\* The last edge of a block is followed: all edges of the order's blocks are.
LEMMA FollowedStep == IInv /\ Followed => IInv'
<1> SUFFICES ASSUME IInv, Followed PROVE IInv'
  OBVIOUS
<1> USE DEF IInv
<1>1. /\ phase = "relax" /\ phase' \in {"pop", "done"} /\ cnt = Len(e[blk])
      /\ body' = body /\ e' = e /\ pre' = pre /\ lev' = lev /\ blk' = blk /\ cnt' = cnt
      /\ q' = q /\ topo' = topo
  BY DEF Followed
<1>2. OrderTypeOK' /\ CollectInv'
  BY <1>1 DEF OrderTypeOK, CollectInv
<1>3. Ordered' = Ordered /\ Edges' = Edges /\ (\A b : EdgesInto(b)' = EdgesInto(b))
  BY <1>1 DEF Ordered, Edges, EdgesInto
<1>4. FollowedEdges' = FollowedEdges
  <2>1. \A y \in Edges : y[1] = blk => y[2] <= cnt
    BY <1>1 DEF Edges, OrderTypeOK
  <2>2. QED
    BY <2>1, <1>1, <1>3 DEF FollowedEdges
<1>5. \A b : Pending(b)' = Pending(b)
  BY <1>3, <1>4, Zenon DEF Pending
<1>6. OrderInv'
  BY <1>1, <1>3, <1>5, Zenon DEF OrderInv
<1>7. OrderedOnceAfterPreds'
  BY <1>1, <1>3, Zenon DEF OrderedOnceAfterPreds
<1>8. QED
  BY <1>2, <1>6, <1>7

\* Every step of the ordering, and every stuttering step, keeps the invariant.
LEMMA NextHolds == IInv /\ [OrderNext]_orderVars => IInv'
<1> SUFFICES ASSUME IInv, [OrderNext]_orderVars PROVE IInv'
  OBVIOUS
<1>1. CASE UNCHANGED orderVars
  <2>1. /\ body' = body /\ phase' = phase /\ e' = e /\ pre' = pre /\ lev' = lev
        /\ blk' = blk /\ cnt' = cnt /\ q' = q /\ topo' = topo
    BY <1>1 DEF orderVars
  <2>2. \A b : Counted(b)' = Counted(b)
    BY <2>1 DEF Counted
  <2>3. Ordered' = Ordered /\ Edges' = Edges
    BY <2>1 DEF Ordered, Edges
  <2>4. FollowedEdges' = FollowedEdges /\ (\A b : EdgesInto(b)' = EdgesInto(b))
    BY <2>1, <2>3 DEF FollowedEdges, EdgesInto
  <2>5. \A b : Pending(b)' = Pending(b)
    BY <2>4 DEF Pending
  <2>6. OrderTypeOK' /\ CollectInv'
    BY <2>1, <2>2 DEF IInv, OrderTypeOK, CollectInv
  <2>7. OrderInv' /\ OrderedOnceAfterPreds'
    BY <2>1, <2>3, <2>4, <2>5 DEF IInv, OrderInv, OrderedOnceAfterPreds
  <2>8. QED
    BY <2>6, <2>7 DEF IInv
<1>2. QED
  BY <1>1, CollectEdgeStep, CollectBlockStep, PopStep, RelaxStep, FollowedStep DEF OrderNext

\* The inductive invariant holds of every state in which topo_order is observed.
LEMMA IInvHolds == OrderSpec => []IInv
BY InitHolds, NextHolds, PTL DEF OrderSpec

\* For every body, the counter `lev` of topo_order is exact, so that its usize
\* subtraction never wraps.
THEOREM LevIsExact == OrderSpec => [](LevCounts /\ OrderTypeOK)
<1>1. IInv => LevCounts /\ OrderTypeOK
  BY DEF IInv, OrderInv, LevCounts, Pending
<1>2. QED
  BY <1>1, IInvHolds, PTL

\* For every body, topo_order gives each block once and after every block with
\* an edge into it: when preprocess_for_basic_block reads the out slice of a
\* predecessor, that predecessor was visited, and pre[0] exists.
THEOREM PredecessorsComeFirst == OrderSpec => []OrderedOnceAfterPreds
<1>1. IInv => OrderedOnceAfterPreds
  BY DEF IInv
<1>2. QED
  BY <1>1, IInvHolds, PTL

\* Both facts for every body and at every step of collect_relations and
\* topo_order: the order is topological, and the counters it comes from are exact.
THEOREM OrderIsRight == OrderSpec => []OrderIsTopological
BY LevIsExact, PredecessorsComeFirst, PTL DEF OrderIsTopological

=============================================================================
