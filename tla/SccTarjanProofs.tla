-------------------------- MODULE SccTarjanProofs --------------------------
(***************************************************************************)
(* The components that solve_scc finds are the strongly connected          *)
(* components of the MIR body, for every body and every order of the hash  *)
(* sets. The argument is Tarjan's: low of an activation's block is the     *)
(* number of a block on the stack that can be reached from it, and no edge *)
(* that has been looked at leads lower.                                    *)
(***************************************************************************)
EXTENDS SccSolveProofs

\* The activations of tarjan by their depth: the block, and the successors that
\* it still has to look at.
Depth == Len(calls)

BlockOf(k) == calls[k].index

LeftOf(k) == calls[k].out_set

\* c can be reached from b, or is b: no set of blocks that edges do not leave
\* separates the two.
Reaches(b, c) == \A S \in ClosedSets : b \in S => c \in S

\* Numbers grow with time, along the stack and along the activations.
Sorted ==
  /\ \A i, j \in 1 .. Len(stack) : i < j => dfn[stack[i]] < dfn[stack[j]]
  /\ \A k, l \in 1 .. Depth : k < l => dfn[BlockOf(k)] < dfn[BlockOf(l)]
  /\ \A b \in Blocks : Seen(b) => dfn[b] < time

\* What was entered after an activation began, and is still on the stack, can be
\* reached from its block.
Descends ==
  \A k \in 1 .. Depth : \A v \in Visiting : dfn[BlockOf(k)] <= dfn[v] => Reaches(BlockOf(k), v)

\* low is the number of a block on the stack, which can be reached.
LowIsReached ==
  \A k \in 1 .. Depth : \E w \in Visiting : dfn[w] = low[BlockOf(k)] /\ Reaches(BlockOf(k), w)

\* The activation k answers for v, a block on the stack that it or a call it made
\* has entered: v leads back to the block of k, and low of that block has taken
\* account of every edge of v that has been looked at.
Owns(k, v) ==
  /\ dfn[BlockOf(k)] <= dfn[v]
  /\ k < Depth => dfn[v] < dfn[BlockOf(k + 1)]
  /\ Reaches(v, BlockOf(k))
  /\ \A w \in cfg[v] \cap Visiting :
       (v = BlockOf(k) /\ w \in LeftOf(k)) \/ low[BlockOf(k)] <= dfn[w]

Owned == \A v \in Visiting : \E k \in 1 .. Depth : Owns(k, v)

\* No edge leaves the finished components.
FinishedIsClosed == \A b \in Finished : cfg[b] \subseteq Finished

\* Two finished blocks are in one component when each reaches the other.
Mutual ==
  \A b, c \in Finished :
    scc_indices[b] = scc_indices[c] <=> Reaches(b, c) /\ Reaches(c, b)

\* tarjan is called only for what control flow can reach.
FromStart == \A b \in Blocks : Seen(b) => Reaches(0, b)

\* The contraction leads to blocks.
LeadsToBlocks == \A b \in Blocks : blocks[b].next \subseteq Blocks

TarjanInv ==
  /\ Sorted /\ Descends /\ LowIsReached /\ Owned
  /\ FinishedIsClosed /\ Mutual /\ FromStart /\ LeadsToBlocks

-----------------------------------------------------------------------------
\* Reachability is reflexive and transitive, has the edges, and stays in a set
\* that no edge leaves.
LEMMA ReachesFacts ==
  /\ \A b : Reaches(b, b)
  /\ \A b, c, d : Reaches(b, c) /\ Reaches(c, d) => Reaches(b, d)
  /\ \A b : \A c \in cfg[b] : Reaches(b, c)
  /\ \A S \in ClosedSets : \A b \in S : \A c : Reaches(b, c) => c \in S
BY DEF Reaches, ClosedSets

\* No step changes what can be reached.
LEMMA ReachesSame ==
  ASSUME cfg' = cfg, Blocks' = Blocks
  PROVE  \A b, c : Reaches(b, c)' <=> Reaches(b, c)
<1>1. ClosedSets' = ClosedSets
  BY DEF ClosedSets
<1> QED BY <1>1 DEF Reaches

\* It is what Reach says, with the block itself.
LEMMA ReachesIsReach ==
  ASSUME IInv, NEW b \in Blocks, NEW c \in Blocks
  PROVE  Reaches(b, c) <=> b = c \/ c \in Reach[b]
<1>0. \A S \in ClosedSets : S \subseteq Blocks /\ \A x \in S : cfg[x] \subseteq S
  BY DEF ClosedSets
<1>1. c \in Reach[b] <=> \A S \in ClosedSets : cfg[b] \subseteq S => c \in S
  BY DEF Reach
<1>2. ASSUME c \in Reach[b] PROVE Reaches(b, c)
  BY <1>0, <1>1, <1>2 DEF Reaches
<1>3. ASSUME Reaches(b, c), b # c, NEW S \in ClosedSets, cfg[b] \subseteq S
      PROVE  c \in S
  <2>1. S \cup {b} \in ClosedSets
    <3>1. S \cup {b} \in SUBSET Blocks
      BY <1>0
    <3>2. \A x \in S \cup {b} : cfg[x] \subseteq S \cup {b}
      BY <1>0, <1>3
    <3> QED BY <3>1, <3>2 DEF ClosedSets
  <2>2. c \in S \cup {b}
    BY <2>1, <1>3 DEF Reaches
  <2> QED BY <2>2, <1>3
<1> QED BY <1>1, <1>2, <1>3, ReachesFacts

\* The state as the argument sees it: the activations, the blocks on the stack,
\* and the finished ones.
LEMMA View ==
  ASSUME IInv
  PROVE  /\ Depth \in Nat /\ (calls = <<>> <=> Depth = 0)
         /\ \A k \in 1 .. Depth : /\ BlockOf(k) \in Visiting /\ BlockOf(k) \in Blocks
                                  /\ LeftOf(k) \subseteq cfg[BlockOf(k)]
         /\ \A v \in Visiting : v \in Blocks /\ Seen(v) /\ v \notin Finished
         /\ \A b \in Blocks : /\ cfg[b] \subseteq Blocks /\ dfn[b] \in Nat
                              /\ low[b] \in Nat /\ low[b] <= dfn[b]
         /\ time \in Nat
         /\ \A b : b \in Finished <=> b \in Blocks /\ Seen(b) /\ b \notin Visiting
<1>i. Types /\ Numbers /\ StackOnce /\ CallsOnStack
  BY DEF IInv
<1>t. /\ stack \in Seq(Blocks) /\ calls \in Seq(Frames) /\ time \in Nat
      /\ cfg \in [Blocks -> SUBSET (Blocks \ {0})]
      /\ dfn \in [Blocks -> Nat] /\ low \in [Blocks -> Nat]
  BY <1>i DEF Types
<1>1. Depth \in Nat /\ (calls = <<>> <=> Depth = 0)
  BY <1>t, SeqFacts DEF Depth
<1>2. /\ \A x : x \in Visiting <=> \E i \in 1 .. Len(stack) : x = stack[i]
      /\ \A i \in 1 .. Len(stack) : stack[i] \in Blocks
  BY <1>t, SeqFacts DEF Visiting
<1>3. \A b : b \in Finished <=> b \in Blocks /\ Seen(b) /\ b \notin Visiting
  BY DEF Finished, Seen
<1>4. \A v \in Visiting : v \in Blocks /\ Seen(v) /\ v \notin Finished
  BY <1>2, <1>3, <1>i DEF StackOnce
<1>5. ASSUME NEW k \in 1 .. Depth
      PROVE  BlockOf(k) \in Visiting /\ BlockOf(k) \in Blocks /\ LeftOf(k) \subseteq cfg[BlockOf(k)]
  BY <1>2, <1>i DEF CallsOnStack, BlockOf, LeftOf, Depth
<1>6. \A b \in Blocks : /\ cfg[b] \subseteq Blocks /\ dfn[b] \in Nat
                        /\ low[b] \in Nat /\ low[b] <= dfn[b]
  BY <1>t, <1>i DEF Numbers
<1> QED BY <1>1, <1>3, <1>4, <1>5, <1>6, <1>t

-----------------------------------------------------------------------------
\* Before solve_scc there is nothing to say.
LEMMA TarjanInit ==
  ASSUME NEW CONSTANT bs, MirBody(bs), SccInit(bs)
  PROVE  TarjanInv
<1>1. /\ stack = <<>> /\ calls = <<>> /\ time = 0 /\ Blocks = DOMAIN bs
      /\ \A b \in Blocks : dfn[b] = 0
  BY DEF SccInit, Blocks
<1>2. Visiting = {} /\ Finished = {} /\ \A b \in Blocks : ~ Seen(b)
  BY <1>1 DEF Visiting, Range, Finished, Seen
<1>3. Len(stack) = 0 /\ Depth = 0
  BY <1>1 DEF Depth
<1>4. LeadsToBlocks
  BY <1>1 DEF SccInit, MirBody, LeadsToBlocks
<1> QED
  BY <1>2, <1>3, <1>4
     DEF TarjanInv, Sorted, Descends, LowIsReached, Owned, FinishedIsClosed, Mutual, FromStart

-----------------------------------------------------------------------------
\* The entry of tarjan, seen the same way: n activations become n + 1.
Entered(index, n) ==
  /\ Blocks' = Blocks /\ cfg' = cfg /\ scc_indices' = scc_indices
  /\ Finished' = Finished /\ Visiting' = Visiting \cup {index}
  /\ index \in Blocks /\ index \notin Visiting
  /\ dfn'[index] = time /\ low'[index] = time /\ time' = time + 1
  /\ \A b \in Blocks : b # index => dfn'[b] = dfn[b] /\ low'[b] = low[b]
  /\ n = Depth /\ Depth' = n + 1
  /\ BlockOf(n + 1)' = index /\ LeftOf(n + 1)' = cfg[index]
  /\ \A k \in 1 .. n : /\ BlockOf(k)' = BlockOf(k) /\ LeftOf(k)' \subseteq LeftOf(k)
                       /\ LeftOf(k) \subseteq LeftOf(k)' \cup {index}
  /\ (n = 0 /\ index = 0) \/ (n # 0 /\ index \in cfg[BlockOf(n)])
  /\ \A b \in Blocks : Seen(b)' <=> Seen(b) \/ b = index

\* What the entry of a block does to the numbers and the stack.
LEMMA EnterView ==
  ASSUME IInv, NEW index \in Blocks, NEW frames, Entering(index, frames),
         NEW CONSTANT n, n = Depth
  PROVE  Entered(index, n)
<1>i. Types /\ Numbers
  BY DEF IInv
<1>t. dfn \in [Blocks -> Nat] /\ low \in [Blocks -> Nat]
  BY <1>i DEF Types
<1>1. /\ Blocks' = Blocks /\ cfg' = cfg /\ scc_indices' = scc_indices
      /\ time' = time + 1 /\ dfn' = [dfn EXCEPT ![index] = time]
      /\ low' = [low EXCEPT ![index] = time]
  BY DEF Entering, Enter, Blocks
<1>2. /\ dfn'[index] = time /\ low'[index] = time
      /\ \A b \in Blocks : b # index => dfn'[b] = dfn[b] /\ low'[b] = low[b]
  BY <1>1, <1>t
<1>3. /\ Finished' = Finished /\ Visiting' = Visiting \cup {index} /\ index \notin Visiting
      /\ \A b \in Blocks : Seen(b)' <=> Seen(b) \/ b = index
  BY EnterFacts
<1>4. /\ Len(calls) = n /\ Len(calls') = n + 1 /\ n \in Nat
      /\ calls'[n + 1].index = index /\ calls'[n + 1].out_set = cfg[index]
      /\ \A k \in 1 .. n : /\ calls'[k].index = calls[k].index
                           /\ calls'[k].out_set \subseteq calls[k].out_set
                           /\ calls[k].out_set \subseteq calls'[k].out_set \cup {index}
  BY EnterFacts DEF Depth
<1>5. /\ Depth' = n + 1 /\ BlockOf(n + 1)' = index /\ LeftOf(n + 1)' = cfg[index]
      /\ \A k \in 1 .. n : /\ BlockOf(k)' = BlockOf(k) /\ LeftOf(k)' \subseteq LeftOf(k)
                           /\ LeftOf(k) \subseteq LeftOf(k)' \cup {index}
  BY <1>4 DEF Depth, BlockOf, LeftOf
<1>6. (n = 0 /\ index = 0) \/ (n # 0 /\ index \in cfg[BlockOf(n)])
  <2>1. CASE time = 0 /\ index = 0 /\ frames = <<>> /\ stack = <<>>
    <3>1. calls = <<>>
      BY <2>1, <1>i DEF Numbers
    <3> QED BY <2>1, <3>1, View
  <2>2. CASE calls # <<>> /\ index \in Top.out_set
    <3>1. n \in 1 .. Depth /\ n # 0
      BY <2>2, View
    <3>2. index \in LeftOf(n)
      BY <2>2 DEF Top, LeftOf, Depth
    <3> QED BY <3>1, <3>2, View
  <2> QED BY <2>1, <2>2 DEF Entering
<1> QED BY <1>1, <1>2, <1>3, <1>5, <1>6 DEF Entered

\* A block that is entered gets the highest number, and is reached from all the
\* activations; no old edge leads to it from below their low.
LEMMA EnterKeeps ==
  ASSUME IInv, TarjanInv, NEW index \in Blocks, NEW frames, Entering(index, frames)
  PROVE  TarjanInv'
<1>n. PICK n : n = Depth
  OBVIOUS
<1>i. /\ Sorted /\ Descends /\ LowIsReached /\ Owned
      /\ FinishedIsClosed /\ Mutual /\ FromStart /\ LeadsToBlocks
  BY DEF TarjanInv
<1>e. Entered(index, n)
  BY <1>n, EnterView
<1>0. /\ Blocks' = Blocks /\ cfg' = cfg /\ scc_indices' = scc_indices
      /\ Finished' = Finished /\ Visiting' = Visiting \cup {index} /\ index \notin Visiting
  BY <1>e DEF Entered
<1>1. /\ dfn'[index] = time /\ low'[index] = time /\ time' = time + 1
      /\ \A b \in Blocks : b # index => dfn'[b] = dfn[b] /\ low'[b] = low[b]
  BY <1>e DEF Entered
<1>2. /\ Depth = n /\ Depth' = n + 1
      /\ BlockOf(n + 1)' = index /\ LeftOf(n + 1)' = cfg[index]
      /\ \A k \in 1 .. n : /\ BlockOf(k)' = BlockOf(k) /\ LeftOf(k)' \subseteq LeftOf(k)
                           /\ LeftOf(k) \subseteq LeftOf(k)' \cup {index}
  BY <1>e DEF Entered
<1>3. \A b \in Blocks : Seen(b)' <=> Seen(b) \/ b = index
  BY <1>e DEF Entered
<1>r. \A b, c : Reaches(b, c)' <=> Reaches(b, c)
  BY <1>0, ReachesSame
<1>v. /\ n \in Nat /\ time \in Nat
      /\ \A k \in 1 .. n : BlockOf(k) \in Visiting /\ BlockOf(k) \in Blocks
      /\ \A v \in Visiting : v \in Blocks /\ Seen(v)
      /\ \A b \in Blocks : /\ cfg[b] \subseteq Blocks /\ dfn[b] \in Nat
                           /\ low[b] \in Nat /\ low[b] <= dfn[b]
  BY <1>2, View
<1>4. /\ \A v \in Visiting : v # index /\ dfn[v] < time /\ dfn'[v] = dfn[v] /\ low'[v] = low[v]
      /\ \A k \in 1 .. n : BlockOf(k) # index
  BY <1>0, <1>1, <1>v, <1>i DEF Sorted
<1>5. \A k \in 1 .. n + 1 : k = n + 1 \/ k \in 1 .. n
  BY <1>v
<1>6. Sorted'
  <2>1. \A i, j \in 1 .. Len(stack') : i < j => dfn'[stack'[i]] < dfn'[stack'[j]]
    <3>0. /\ Len(stack') = Len(stack) + 1 /\ stack'[Len(stack) + 1] = index
          /\ \A i \in 1 .. Len(stack) : stack'[i] = stack[i]
          /\ Len(stack) \in Nat
      BY EnterFacts
    <3>1. \A i \in 1 .. Len(stack) : stack[i] \in Visiting
      <4>1. stack \in Seq(Blocks)
        BY DEF IInv, Types
      <4> QED BY <4>1, SeqFacts DEF Visiting
    <3> SUFFICES ASSUME NEW i \in 1 .. Len(stack) + 1, NEW j \in 1 .. Len(stack) + 1, i < j
                 PROVE  dfn'[stack'[i]] < dfn'[stack'[j]]
      BY <3>0
    <3>2. i \in 1 .. Len(stack) /\ stack'[i] = stack[i] /\ dfn'[stack[i]] = dfn[stack[i]] /\ dfn[stack[i]] < time
      BY <3>0, <3>1, <1>4
    <3>3. CASE j = Len(stack) + 1
      BY <3>0, <3>2, <3>3, <1>1
    <3>4. CASE j \in 1 .. Len(stack)
      <4>1. dfn'[stack'[j]] = dfn[stack[j]]
        BY <3>0, <3>1, <3>4, <1>4
      <4>2. dfn[stack[i]] < dfn[stack[j]]
        BY <3>2, <3>4, <1>i DEF Sorted
      <4> QED BY <3>2, <4>1, <4>2
    <3> QED BY <3>0, <3>3, <3>4
  <2>2. \A k, l \in 1 .. n + 1 : k < l => dfn'[BlockOf(k)'] < dfn'[BlockOf(l)']
    <3> SUFFICES ASSUME NEW k \in 1 .. n + 1, NEW l \in 1 .. n + 1, k < l
                 PROVE  dfn'[BlockOf(k)'] < dfn'[BlockOf(l)']
      OBVIOUS
    <3>1. k \in 1 .. n
      BY <1>v
    <3>2. BlockOf(k)' = BlockOf(k) /\ dfn'[BlockOf(k)] = dfn[BlockOf(k)] /\ dfn[BlockOf(k)] < time
      BY <3>1, <1>2, <1>4, <1>v
    <3>3. CASE l = n + 1
      BY <3>2, <3>3, <1>1, <1>2
    <3>4. CASE l \in 1 .. n
      <4>1. BlockOf(l)' = BlockOf(l) /\ dfn'[BlockOf(l)] = dfn[BlockOf(l)]
        BY <3>4, <1>2, <1>4, <1>v
      <4>2. dfn[BlockOf(k)] < dfn[BlockOf(l)]
        BY <3>1, <3>4, <1>2, <1>i DEF Sorted
      <4> QED BY <3>2, <4>1, <4>2
    <3> QED BY <3>3, <3>4, <1>5
  <2>3. \A b \in Blocks : Seen(b)' => dfn'[b] < time'
    BY <1>1, <1>3, <1>v, <1>i DEF Sorted
  <2> QED BY <2>1, <2>2, <2>3, <1>0, <1>2 DEF Sorted
<1>7. Descends'
  <2> SUFFICES ASSUME NEW k \in 1 .. n + 1, NEW v \in Visiting \cup {index},
                      dfn'[BlockOf(k)'] <= dfn'[v]
               PROVE  Reaches(BlockOf(k)', v)
    <3>1. \A k \in 1 .. n + 1 : \A v \in Visiting \cup {index} :
            dfn'[BlockOf(k)'] <= dfn'[v] => Reaches(BlockOf(k)', v)
      OBVIOUS
    <3> QED BY <3>1, <1>0, <1>2, <1>r DEF Descends
  <2>1. CASE k = n + 1
    <3>1. BlockOf(k)' = index /\ dfn'[index] = time
      BY <2>1, <1>1, <1>2
    <3>2. v = index
      BY <3>1, <1>4, <1>v
    <3> QED BY <3>1, <3>2, ReachesFacts
  <2>2. CASE k \in 1 .. n
    <3>1. BlockOf(k)' = BlockOf(k) /\ BlockOf(k) \in Visiting
      BY <2>2, <1>2, <1>v
    <3>2. CASE v \in Visiting
      BY <2>2, <3>1, <3>2, <1>2, <1>4, <1>i DEF Descends
    <3>3. CASE v = index
      <4>1. n \in 1 .. n /\ index \in cfg[BlockOf(n)]
        BY <2>2, <1>e, <1>v DEF Entered
      <4>2. dfn[BlockOf(k)] <= dfn[BlockOf(n)]
        <5>1. CASE k = n
          BY <5>1, <4>1, <1>v
        <5>2. CASE k < n
          BY <5>2, <2>2, <4>1, <1>2, <1>v, <1>i DEF Sorted
        <5> QED BY <5>1, <5>2, <2>2, <1>v
      <4>3. Reaches(BlockOf(k), BlockOf(n))
        BY <2>2, <4>1, <4>2, <1>2, <1>v, <1>i DEF Descends
      <4> QED BY <3>1, <3>3, <4>1, <4>3, ReachesFacts
    <3> QED BY <3>2, <3>3
  <2> QED BY <2>1, <2>2, <1>5
<1>8. LowIsReached'
  <2> SUFFICES ASSUME NEW k \in 1 .. n + 1
               PROVE  \E w \in Visiting \cup {index} :
                        dfn'[w] = low'[BlockOf(k)'] /\ Reaches(BlockOf(k)', w)
    BY <1>0, <1>2, <1>r DEF LowIsReached
  <2>1. CASE k = n + 1
    BY <2>1, <1>1, <1>2, ReachesFacts
  <2>2. CASE k \in 1 .. n
    <3>1. PICK w \in Visiting : dfn[w] = low[BlockOf(k)] /\ Reaches(BlockOf(k), w)
      BY <2>2, <1>2, <1>i DEF LowIsReached
    <3> QED BY <2>2, <3>1, <1>2, <1>4, <1>v
  <2> QED BY <2>1, <2>2, <1>5
<1>9. Owned'
  <2> SUFFICES ASSUME NEW v \in Visiting \cup {index}
               PROVE  \E k \in 1 .. n + 1 : Owns(k, v)'
    BY <1>0, <1>2 DEF Owned
  <2>1. CASE v = index
    <3>1. n + 1 \in 1 .. n + 1 /\ ~ (n + 1 < Depth')
      BY <1>2, <1>v
    <3>2. Reaches(v, BlockOf(n + 1))'
      BY <2>1, <1>2, <1>r, ReachesFacts
    <3>3. dfn'[BlockOf(n + 1)'] <= dfn'[v] /\ \A w \in cfg'[v] : v = BlockOf(n + 1)' /\ w \in LeftOf(n + 1)'
      BY <2>1, <1>0, <1>1, <1>2, <1>v
    <3>4. Owns(n + 1, v)'
      BY <3>1, <3>2, <3>3 DEF Owns
    <3> QED BY <3>1, <3>4
  <2>2. CASE v \in Visiting
    <3>1. PICK k \in 1 .. n : Owns(k, v)
      BY <2>2, <1>2, <1>i DEF Owned
    <3>2. /\ BlockOf(k)' = BlockOf(k) /\ BlockOf(k) \in Visiting /\ k \in 1 .. n + 1
          /\ LeftOf(k) \subseteq LeftOf(k)' \cup {index}
      BY <3>1, <1>2, <1>v
    <3>3. dfn'[BlockOf(k)'] <= dfn'[v] /\ Reaches(v, BlockOf(k))'
      BY <2>2, <3>1, <3>2, <1>4, <1>r DEF Owns
    <3>4. k < Depth' => dfn'[v] < dfn'[BlockOf(k + 1)']
      <4>1. CASE k = n
        BY <4>1, <2>2, <1>1, <1>2, <1>4
      <4>2. CASE k < n
        <5>1. k + 1 \in 1 .. n
          BY <4>2, <1>v
        <5>2. BlockOf(k + 1)' = BlockOf(k + 1) /\ BlockOf(k + 1) \in Visiting
          BY <5>1, <1>2, <1>v
        <5>3. dfn[v] < dfn[BlockOf(k + 1)]
          BY <4>2, <3>1, <1>2 DEF Owns
        <5> QED BY <5>2, <5>3, <2>2, <1>4
      <4> QED BY <4>1, <4>2, <1>v
    <3>5. ASSUME NEW w \in cfg[v] \cap (Visiting \cup {index})
          PROVE  (v = BlockOf(k)' /\ w \in LeftOf(k)') \/ low'[BlockOf(k)'] <= dfn'[w]
      <4>1. CASE w = index
        <5>1. low'[BlockOf(k)'] = low[BlockOf(k)] /\ low[BlockOf(k)] <= dfn[BlockOf(k)] /\ dfn[BlockOf(k)] < time
          BY <3>2, <1>4, <1>v
        <5> QED BY <5>1, <4>1, <3>2, <1>1, <1>v
      <4>2. CASE w \in Visiting
        <5>1. (v = BlockOf(k) /\ w \in LeftOf(k)) \/ low[BlockOf(k)] <= dfn[w]
          BY <4>2, <3>1, <3>5 DEF Owns
        <5> QED BY <5>1, <4>2, <3>2, <1>4
      <4> QED BY <4>1, <4>2, <3>5
    <3>6. Owns(k, v)'
      BY <3>3, <3>4, <3>5, <1>0 DEF Owns
    <3> QED BY <3>2, <3>6
  <2> QED BY <2>1, <2>2
<1>10. FinishedIsClosed' /\ Mutual'
  BY <1>0, <1>r, <1>i DEF FinishedIsClosed, Mutual
<1>11. FromStart'
  <2>1. Reaches(0, index)
    <3>1. CASE n = 0 /\ index = 0
      BY <3>1, ReachesFacts
    <3>2. CASE n # 0 /\ index \in cfg[BlockOf(n)]
      <4>1. BlockOf(n) \in Blocks /\ Seen(BlockOf(n))
        BY <3>2, <1>v
      <4> QED BY <4>1, <3>2, <1>i, ReachesFacts DEF FromStart
    <3> QED BY <3>1, <3>2, <1>e DEF Entered
  <2> QED BY <2>1, <1>0, <1>3, <1>r, <1>i DEF FromStart
<1>12. LeadsToBlocks'
  BY <1>i DEF LeadsToBlocks, Entering, Enter, Blocks
<1> QED BY <1>6, <1>7, <1>8, <1>9, <1>10, <1>11, <1>12 DEF TarjanInv

-----------------------------------------------------------------------------
\* A step that keeps the stack and the numbers, and of whose activations some
\* end: the numbers stay sorted and the finished blocks are as they were.
LEMMA SameNumbers ==
  ASSUME IInv, UNCHANGED <<cfg, blocks, scc_indices, dfn, time, stack>>
  PROVE  /\ Blocks' = Blocks /\ Visiting' = Visiting /\ Finished' = Finished
         /\ \A b, c : Reaches(b, c)' <=> Reaches(b, c)
         /\ FinishedIsClosed => FinishedIsClosed'
         /\ Mutual => Mutual'
         /\ FromStart => FromStart'
         /\ LeadsToBlocks => LeadsToBlocks'
<1>1. Blocks' = Blocks /\ Visiting' = Visiting
  BY DEF Blocks, Visiting
<1>2. Finished' = Finished
  BY <1>1 DEF Finished
<1>3. \A b, c : Reaches(b, c)' <=> Reaches(b, c)
  BY <1>1, ReachesSame
<1>4. FinishedIsClosed => FinishedIsClosed'
  BY <1>2 DEF FinishedIsClosed
<1>5. Mutual => Mutual'
  BY <1>2, <1>3 DEF Mutual
<1>6. FromStart => FromStart'
  BY <1>1, <1>3 DEF FromStart, Seen
<1>7. LeadsToBlocks => LeadsToBlocks'
  BY <1>1 DEF LeadsToBlocks
<1> QED BY <1>1, <1>2, <1>3, <1>4, <1>5, <1>6, <1>7

\* An edge to a block on the stack lowers low to its number; an edge to a block
\* of a finished component changes nothing.
LEMMA OtherKeeps ==
  ASSUME IInv, TarjanInv, NEW target \in Blocks, other_edge(target), UNCHANGED cfg
  PROVE  TarjanInv'
<1>n. PICK n : n = Depth
  OBVIOUS
<1>u. PICK u : u = BlockOf(n)
  OBVIOUS
<1>i. /\ Sorted /\ Descends /\ LowIsReached /\ Owned
      /\ FinishedIsClosed /\ Mutual /\ FromStart /\ LeadsToBlocks
  BY DEF TarjanInv
<1>s. UNCHANGED <<cfg, blocks, scc_indices, dfn, time, stack>>
  BY DEF other_edge
<1>0. /\ Blocks' = Blocks /\ Visiting' = Visiting /\ Finished' = Finished
      /\ cfg' = cfg /\ dfn' = dfn /\ time' = time /\ stack' = stack
      /\ \A b, c : Reaches(b, c)' <=> Reaches(b, c)
  BY <1>s, SameNumbers
<1>v. /\ n \in Nat /\ n # 0
      /\ \A k \in 1 .. n : /\ BlockOf(k) \in Visiting /\ BlockOf(k) \in Blocks
                           /\ LeftOf(k) \subseteq cfg[BlockOf(k)]
      /\ \A v \in Visiting : v \in Blocks
      /\ \A b \in Blocks : cfg[b] \subseteq Blocks /\ dfn[b] \in Nat /\ low[b] \in Nat
  BY <1>n, View DEF other_edge
<1>1. /\ Depth' = n
      /\ \A k \in 1 .. n : BlockOf(k)' = BlockOf(k) /\ LeftOf(k) \subseteq LeftOf(k)' \cup {target}
      /\ \A k \in 1 .. n : k # n => LeftOf(k)' = LeftOf(k)
  <2>1. calls # <<>> /\ calls' = Visited(target) /\ calls \in Seq(Frames)
    BY DEF other_edge, IInv, Types
  <2>2. /\ Len(calls') = n
        /\ \A k \in 1 .. n : /\ calls'[k].index = calls[k].index
                             /\ calls[k].out_set \subseteq calls'[k].out_set \cup {target}
    BY <2>1, <1>n, VisitedFacts DEF Depth
  <2>3. \A k \in 1 .. n : k # n => calls'[k] = calls[k]
    BY <2>1, <1>n DEF Visited, Depth
  <2> QED BY <2>2, <2>3 DEF Depth, BlockOf, LeftOf
<1>2. target \in cfg[u] /\ u \in Visiting /\ u \in Blocks /\ n \in 1 .. n
  <2>1. target \in LeftOf(n)
    BY <1>n DEF other_edge, Top, LeftOf, Depth
  <2> QED BY <2>1, <1>u, <1>v
<1>3. low' = [low EXCEPT ![u] = IF target \in Visiting /\ dfn[target] < @ THEN dfn[target] ELSE @]
  BY <1>n, <1>u DEF other_edge, Top, BlockOf, Depth, Visiting
<1>4. /\ \A b \in Blocks : b # u => low'[b] = low[b]
      /\ low'[u] = IF target \in Visiting /\ dfn[target] < low[u] THEN dfn[target] ELSE low[u]
  <2>1. low \in [Blocks -> Nat]
    BY DEF IInv, Types
  <2> QED BY <2>1, <1>2, <1>3
<1>5. /\ \A b \in Blocks : low'[b] \in Nat /\ low'[b] <= low[b]
      /\ target \in Visiting => low'[u] <= dfn[target]
  BY <1>4, <1>2, <1>v
<1>6. Sorted'
  <2>1. \A b : Seen(b)' <=> Seen(b)
    BY <1>0 DEF Seen
  <2>2. \A k, l \in 1 .. n : k < l => dfn[BlockOf(k)'] < dfn[BlockOf(l)']
    BY <1>1, <1>n, <1>i DEF Sorted
  <2> QED BY <2>1, <2>2, <1>0, <1>1, <1>i DEF Sorted
<1>7. Descends'
  <2>1. \A k \in 1 .. n : \A v \in Visiting : dfn[BlockOf(k)'] <= dfn[v] => Reaches(BlockOf(k)', v)
    BY <1>1, <1>n, <1>i DEF Descends
  <2> QED BY <2>1, <1>0, <1>1 DEF Descends
<1>8. LowIsReached'
  <2> SUFFICES ASSUME NEW k \in 1 .. n
               PROVE  \E w \in Visiting : dfn[w] = low'[BlockOf(k)] /\ Reaches(BlockOf(k), w)
    BY <1>0, <1>1 DEF LowIsReached
  <2>1. PICK w \in Visiting : dfn[w] = low[BlockOf(k)] /\ Reaches(BlockOf(k), w)
    BY <1>n, <1>i DEF LowIsReached
  <2>2. CASE low'[BlockOf(k)] = low[BlockOf(k)]
    BY <2>1, <2>2
  <2>3. CASE BlockOf(k) = u /\ target \in Visiting /\ low'[u] = dfn[target]
    BY <2>3, <1>2, ReachesFacts
  <2> QED BY <2>2, <2>3, <1>4, <1>v
<1>9. Owned'
  <2> SUFFICES ASSUME NEW v \in Visiting
               PROVE  \E k \in 1 .. n : Owns(k, v)'
    BY <1>0, <1>1 DEF Owned
  <2>1. PICK k \in 1 .. n : Owns(k, v)
    BY <1>n, <1>i DEF Owned
  <2>2. dfn[BlockOf(k)'] <= dfn[v] /\ Reaches(v, BlockOf(k))'
    BY <2>1, <1>0, <1>1 DEF Owns
  <2>3. k < Depth' => dfn[v] < dfn[BlockOf(k + 1)']
    <3>1. k < n => k + 1 \in 1 .. n
      BY <1>v
    <3> QED BY <3>1, <2>1, <1>1, <1>n DEF Owns
  <2>4. ASSUME NEW w \in cfg[v] \cap Visiting
        PROVE  (v = BlockOf(k)' /\ w \in LeftOf(k)') \/ low'[BlockOf(k)'] <= dfn[w]
    <3>1. (v = BlockOf(k) /\ w \in LeftOf(k)) \/ low[BlockOf(k)] <= dfn[w]
      BY <2>1, <2>4 DEF Owns
    <3>2. BlockOf(k)' = BlockOf(k) /\ BlockOf(k) \in Blocks /\ w \in Blocks
      BY <2>4, <1>1, <1>v
    <3>3. CASE low[BlockOf(k)] <= dfn[w]
      BY <3>2, <3>3, <1>5, <1>v
    <3>4. CASE v = BlockOf(k) /\ w \in LeftOf(k)
      <4>1. CASE w \in LeftOf(k)'
        BY <3>2, <3>4, <4>1
      <4>2. CASE w \notin LeftOf(k)'
        <5>1. w = target /\ k = n
          BY <3>4, <4>2, <1>1
        <5> QED BY <5>1, <3>2, <2>4, <1>5, <1>u
      <4> QED BY <4>1, <4>2
    <3> QED BY <3>1, <3>3, <3>4
  <2>5. Owns(k, v)'
    BY <2>2, <2>3, <2>4, <1>0 DEF Owns
  <2> QED BY <2>5
<1>10. FinishedIsClosed' /\ Mutual' /\ FromStart' /\ LeadsToBlocks'
  BY <1>s, <1>i, SameNumbers
<1> QED BY <1>6, <1>7, <1>8, <1>9, <1>10 DEF TarjanInv

\* When tarjan(u) returns, with n activations, u has no edge to look at, and the
\* caller takes the smaller low.
LEMMA ReturnView ==
  ASSUME IInv, calls # <<>>, Top.out_set = {}, Return(Top.index), cfg' = cfg, Blocks' = Blocks,
         NEW CONSTANT n, n = Depth, NEW CONSTANT u, u = BlockOf(n)
  PROVE  /\ n \in Nat \ {0} /\ Depth' = n - 1 /\ LeftOf(n) = {} /\ u = Top.index
         /\ \A k \in 1 .. n - 1 : k \in 1 .. n /\ BlockOf(k)' = BlockOf(k) /\ LeftOf(k)' = LeftOf(k)
         /\ dfn' = dfn /\ time' = time
         /\ n = 1 => low' = low
         /\ n # 1 => low' = IF low[u] < low[BlockOf(n - 1)]
                            THEN [low EXCEPT ![BlockOf(n - 1)] = low[u]] ELSE low
<1>1. /\ Len(calls') = n - 1 /\ n \in Nat \ {0}
      /\ \A k \in 1 .. n - 1 : calls'[k] = calls[k]
      /\ dfn' = dfn /\ time' = time
  BY ReturnFacts DEF Depth
<1>2. LeftOf(n) = {} /\ u = Top.index
  BY DEF Top, LeftOf, BlockOf, Depth
<1>3. /\ Depth' = n - 1
      /\ \A k \in 1 .. n - 1 : k \in 1 .. n /\ BlockOf(k)' = BlockOf(k) /\ LeftOf(k)' = LeftOf(k)
  BY <1>1 DEF Depth, BlockOf, LeftOf
<1>4. PICK frames : frames = SubSeq(calls, 1, Len(calls) - 1)
  BY Zenon
<1>5. low' = IF frames # <<>> /\ low[u] < low[frames[Len(frames)].index]
             THEN [low EXCEPT ![frames[Len(frames)].index] = low[u]] ELSE low
  BY <1>2, <1>4 DEF Return
<1>6. Len(frames) = n - 1 /\ frames \in Seq(Frames) /\ \A k \in 1 .. n - 1 : frames[k] = calls[k]
  <2>1. calls \in Seq(Frames) /\ Len(calls) = n /\ n - 1 \in Nat /\ n - 1 <= n
    BY <1>1 DEF IInv, Types, Depth
  <2> QED BY <2>1, <1>4, PrefixFacts
<1>7. ASSUME n = 1 PROVE low' = low
  <2>1. frames = <<>>
    BY <1>6, <1>7, SeqFacts
  <2> QED BY <2>1, <1>5
<1>8. ASSUME n # 1 PROVE low' = IF low[u] < low[BlockOf(n - 1)]
                                THEN [low EXCEPT ![BlockOf(n - 1)] = low[u]] ELSE low
  <2>1. frames # <<>>
    BY <1>1, <1>6, <1>8, SeqFacts
  <2>2. frames[Len(frames)].index = BlockOf(n - 1)
    <3>1. n - 1 \in 1 .. n - 1
      BY <1>1, <1>8
    <3> QED BY <3>1, <1>6 DEF BlockOf
  <2> QED BY <2>1, <2>2, <1>5
<1> QED BY <1>1, <1>2, <1>3, <1>7, <1>8

\* A block that is not the root of its component is handed to the caller, which
\* reaches it and is reached from it, and whose low is now at most its low.
LEMMA InnerKeeps ==
  ASSUME IInv, TarjanInv, return_inner, UNCHANGED cfg
  PROVE  TarjanInv'
<1>n. PICK n : n = Depth
  OBVIOUS
<1>u. PICK u : u = BlockOf(n)
  OBVIOUS
<1>p. PICK caller : caller = BlockOf(n - 1)
  OBVIOUS
<1>i. /\ Sorted /\ Descends /\ LowIsReached /\ Owned
      /\ FinishedIsClosed /\ Mutual /\ FromStart /\ LeadsToBlocks
  BY DEF TarjanInv
<1>g. /\ calls # <<>> /\ Top.out_set = {} /\ Return(Top.index) /\ cfg' = cfg
      /\ dfn[Top.index] # low[Top.index]
      /\ UNCHANGED <<cfg, blocks, scc_indices, dfn, time, stack>>
  BY DEF return_inner, Return
<1>0. /\ Blocks' = Blocks /\ Visiting' = Visiting /\ Finished' = Finished
      /\ cfg' = cfg /\ dfn' = dfn /\ time' = time /\ stack' = stack
      /\ \A b, c : Reaches(b, c)' <=> Reaches(b, c)
  BY <1>g, SameNumbers
<1>r. /\ n \in Nat \ {0} /\ Depth' = n - 1 /\ LeftOf(n) = {} /\ u = Top.index
      /\ \A k \in 1 .. n - 1 : k \in 1 .. n /\ BlockOf(k)' = BlockOf(k) /\ LeftOf(k)' = LeftOf(k)
      /\ n # 1 => low' = IF low[u] < low[caller] THEN [low EXCEPT ![caller] = low[u]] ELSE low
  BY <1>n, <1>u, <1>p, <1>g, <1>0, ReturnView
<1>v. /\ \A k \in 1 .. n : /\ BlockOf(k) \in Visiting /\ BlockOf(k) \in Blocks
                           /\ LeftOf(k) \subseteq cfg[BlockOf(k)]
      /\ \A v \in Visiting : v \in Blocks
      /\ \A b \in Blocks : /\ cfg[b] \subseteq Blocks /\ dfn[b] \in Nat
                           /\ low[b] \in Nat /\ low[b] <= dfn[b]
  BY <1>n, View
<1>1. n # 1
  <2>1. low[0] <= dfn[0] /\ dfn[0] = 0 /\ low[0] \in Nat
    BY DEF IInv, Numbers, Types
  <2>2. BlockOf(1) = 0
    BY <1>g DEF BlockOf, IInv, CallsOnStack
  <2> QED BY <2>1, <2>2, <1>g, <1>r, <1>u
<1>2. /\ n - 1 \in 1 .. n - 1 /\ n - 1 \in 1 .. n /\ n \in 1 .. n
      /\ caller \in Visiting /\ u \in Visiting /\ caller \in Blocks /\ u \in Blocks
  <2>1. n - 1 \in 1 .. n - 1 /\ n - 1 \in 1 .. n /\ n \in 1 .. n
    BY <1>1, <1>r
  <2> QED BY <2>1, <1>u, <1>p, <1>v
<1>3. dfn[caller] < dfn[u]
  <2>1. n - 1 < n
    BY <1>r
  <2>2. \A k, l \in 1 .. n : k < l => dfn[BlockOf(k)] < dfn[BlockOf(l)]
    BY <1>n, <1>i DEF Sorted
  <2> QED BY <2>1, <2>2, <1>2, <1>u, <1>p
<1>4. /\ \A b \in Blocks : b # caller => low'[b] = low[b]
      /\ low'[caller] = IF low[u] < low[caller] THEN low[u] ELSE low[caller]
  <2>1. low \in [Blocks -> Nat]
    BY DEF IInv, Types
  <2> QED BY <2>1, <1>1, <1>2, <1>r
<1>5. /\ \A b \in Blocks : low'[b] \in Nat /\ low'[b] <= low[b]
      /\ low'[caller] <= low[u]
  BY <1>2, <1>4, <1>v
<1>6. Sorted'
  <2>1. \A b : Seen(b)' <=> Seen(b)
    BY <1>0 DEF Seen
  <2>2. \A k, l \in 1 .. n - 1 : k < l => dfn[BlockOf(k)'] < dfn[BlockOf(l)']
    BY <1>r, <1>n, <1>i DEF Sorted
  <2> QED BY <2>1, <2>2, <1>0, <1>r, <1>i DEF Sorted
<1>7. Descends'
  <2>1. \A k \in 1 .. n - 1 : \A v \in Visiting : dfn[BlockOf(k)'] <= dfn[v] => Reaches(BlockOf(k)', v)
    BY <1>r, <1>n, <1>i DEF Descends
  <2> QED BY <2>1, <1>0, <1>r DEF Descends
<1>8. Reaches(caller, u)
  BY <1>2, <1>3, <1>n, <1>p, <1>v, <1>i DEF Descends
<1>b. Reaches(u, caller)
  <2>1. PICK w \in Visiting : dfn[w] = low[u] /\ Reaches(u, w)
    BY <1>2, <1>n, <1>u, <1>i DEF LowIsReached
  <2>2. dfn[w] < dfn[u]
    BY <2>1, <1>2, <1>g, <1>r, <1>v
  <2>3. PICK m \in 1 .. n : Owns(m, w)
    BY <1>n, <1>i DEF Owned
  <2>4. dfn[BlockOf(m)] <= dfn[w] /\ Reaches(w, BlockOf(m))
    BY <2>3 DEF Owns
  <2>5. BlockOf(m) \in Blocks /\ w \in Blocks
    BY <1>v
  <2>6. m # n
    BY <2>2, <2>4, <2>5, <1>2, <1>u, <1>v
  <2>7. dfn[BlockOf(m)] <= dfn[caller]
    <3>1. CASE m = n - 1
      BY <3>1, <1>2, <1>p, <1>v
    <3>2. CASE m < n - 1
      BY <3>2, <2>5, <1>2, <1>n, <1>p, <1>v, <1>i DEF Sorted
    <3> QED BY <2>6, <3>1, <3>2, <1>r
  <2>8. Reaches(BlockOf(m), caller)
    BY <2>7, <1>2, <1>n, <1>i DEF Descends
  <2> QED BY <2>1, <2>4, <2>8, ReachesFacts
<1>9. LowIsReached'
  <2> SUFFICES ASSUME NEW k \in 1 .. n - 1
               PROVE  \E w \in Visiting : dfn[w] = low'[BlockOf(k)] /\ Reaches(BlockOf(k), w)
    BY <1>0, <1>r DEF LowIsReached
  <2>0. k \in 1 .. n
    BY <1>r
  <2>1. PICK w \in Visiting : dfn[w] = low[BlockOf(k)] /\ Reaches(BlockOf(k), w)
    BY <2>0, <1>n, <1>i DEF LowIsReached
  <2>2. CASE low'[BlockOf(k)] = low[BlockOf(k)]
    BY <2>1, <2>2
  <2>3. CASE BlockOf(k) = caller /\ low'[caller] = low[u]
    <3>1. PICK x \in Visiting : dfn[x] = low[u] /\ Reaches(u, x)
      BY <1>2, <1>n, <1>u, <1>i DEF LowIsReached
    <3> QED BY <2>3, <3>1, <1>8, ReachesFacts
  <2> QED BY <2>0, <2>2, <2>3, <1>4, <1>v
<1>10. Owned'
  <2> SUFFICES ASSUME NEW v \in Visiting
               PROVE  \E k \in 1 .. n - 1 : Owns(k, v)'
    BY <1>0, <1>r DEF Owned
  <2>0. v \in Blocks
    BY <1>v
  <2>1. PICK k \in 1 .. n : Owns(k, v)
    BY <1>n, <1>i DEF Owned
  <2>2. CASE k # n
    <3>1. k \in 1 .. n - 1 /\ BlockOf(k)' = BlockOf(k) /\ LeftOf(k)' = LeftOf(k) /\ BlockOf(k) \in Blocks
      BY <2>2, <1>r, <1>v
    <3>2. dfn[BlockOf(k)'] <= dfn[v] /\ Reaches(v, BlockOf(k))'
      BY <2>1, <3>1, <1>0 DEF Owns
    <3>3. k < Depth' => dfn[v] < dfn[BlockOf(k + 1)']
      <4>1. k < n - 1 => k + 1 \in 1 .. n - 1
        BY <1>r
      <4> QED BY <4>1, <2>1, <1>r, <1>n DEF Owns
    <3>4. ASSUME NEW w \in cfg[v] \cap Visiting
          PROVE  (v = BlockOf(k)' /\ w \in LeftOf(k)') \/ low'[BlockOf(k)'] <= dfn[w]
      <4>1. (v = BlockOf(k) /\ w \in LeftOf(k)) \/ low[BlockOf(k)] <= dfn[w]
        BY <2>1, <3>4 DEF Owns
      <4>2. low'[BlockOf(k)] <= low[BlockOf(k)] /\ low'[BlockOf(k)] \in Nat /\ low[BlockOf(k)] \in Nat /\ dfn[w] \in Nat
        BY <3>1, <3>4, <1>5, <1>v
      <4> QED BY <3>1, <4>1, <4>2
    <3>5. Owns(k, v)'
      BY <3>2, <3>3, <3>4, <1>0 DEF Owns
    <3> QED BY <3>1, <3>5
  <2>3. CASE k = n
    <3>1. dfn[u] <= dfn[v] /\ Reaches(v, u) /\ \A w \in cfg[v] \cap Visiting : low[u] <= dfn[w]
      BY <2>1, <2>3, <1>r, <1>u DEF Owns
    <3>2. BlockOf(n - 1)' = caller /\ ~ (n - 1 < Depth')
      BY <1>2, <1>p, <1>r
    <3>3. dfn[caller] <= dfn[v]
      BY <2>0, <3>1, <1>2, <1>3, <1>v
    <3>4. Reaches(v, caller)'
      BY <3>1, <1>0, <1>b, ReachesFacts
    <3>5. \A w \in cfg[v] \cap Visiting : low'[caller] <= dfn[w]
      BY <2>0, <3>1, <1>2, <1>5, <1>v
    <3>6. Owns(n - 1, v)'
      BY <3>2, <3>3, <3>4, <3>5, <1>0 DEF Owns
    <3> QED BY <3>6, <1>2
  <2> QED BY <2>2, <2>3
<1>11. FinishedIsClosed' /\ Mutual' /\ FromStart' /\ LeadsToBlocks'
  BY <1>g, <1>i, SameNumbers
<1> QED BY <1>6, <1>7, <1>9, <1>10, <1>11 DEF TarjanInv

\* A root whose low is its number: the blocks from it on reach it and are reached
\* from it, and none of their edges leads to another block on the stack.
LEMMA GenerateKeeps ==
  ASSUME IInv, TarjanInv, generate_scc, UNCHANGED cfg
  PROVE  TarjanInv'
<1>n. PICK n : n = Depth
  OBVIOUS
<1>r. PICK root : root = Top.index
  OBVIOUS
<1>u. PICK subs : subs = SubSeq(stack, RootAt(root) + 1, Len(stack))
  BY Zenon
<1>i. /\ Sorted /\ Descends /\ LowIsReached /\ Owned
      /\ FinishedIsClosed /\ Mutual /\ FromStart /\ LeadsToBlocks
  BY DEF TarjanInv
<1>g. /\ calls # <<>> /\ Top.out_set = {} /\ Return(root) /\ cfg' = cfg
      /\ dfn[root] = low[root]
      /\ stack' = Rest(root)
      /\ scc_indices' = [b \in Blocks |-> IF b \in {root} \cup Range(subs) THEN root ELSE scc_indices[b]]
      /\ blocks' = Contracted(root, subs)
  BY <1>r, <1>u, Zenon DEF generate_scc
<1>0. Popping(root, subs)
  BY <1>r, <1>u, <1>g DEF Popping
<1>p. PICK p \in 1 .. Len(stack) :
           /\ stack[p] = root /\ root \in Blocks
           /\ Len(stack') = p - 1
           /\ \A i \in 1 .. p - 1 : stack'[i] = stack[i]
           /\ {root} \cup Range(subs) = Popped(p) /\ root \notin Range(subs)
           /\ Visiting' = Visiting \ Popped(p) /\ Popped(p) \subseteq Visiting
  BY <1>0, <1>g, PopFacts, SMTT(60)
<1>m. Merging(root, subs, p)
  BY <1>p, <1>g DEF Merging, Return
<1>M. PICK M : M = Popped(p)
  OBVIOUS
<1>1. /\ Blocks' = Blocks /\ root \in M /\ M \subseteq Blocks
      /\ \A b \in M : b \notin Finished
      /\ \A b : Seen(b)' <=> Seen(b)
      /\ Finished' = Finished \cup M
  BY <1>m, <1>M, MergeFacts
<1>2. /\ Visiting' = Visiting \ M /\ M \subseteq Visiting
      /\ \A b \in Blocks : scc_indices'[b] = IF b \in M THEN root ELSE scc_indices[b]
      /\ cfg' = cfg /\ dfn' = dfn /\ time' = time
  BY <1>m, <1>M DEF Merging
<1>3. \A b \in Finished : scc_indices[b] # root
  <2>1. \A b \in Finished : scc_indices[b] \in Roots
    BY DEF IInv, Untouched
  <2>2. root \notin Roots
    BY <1>1 DEF Roots
  <2> QED BY <2>1, <2>2
<1>e. \A b, c : Reaches(b, c)' <=> Reaches(b, c)
  BY <1>1, <1>2, ReachesSame
<1>a. root = BlockOf(n)
  BY <1>n, <1>r DEF Top, BlockOf, Depth
<1>f. /\ n \in Nat \ {0} /\ Depth' = n - 1 /\ LeftOf(n) = {}
      /\ \A k \in 1 .. n - 1 : k \in 1 .. n /\ BlockOf(k)' = BlockOf(k) /\ LeftOf(k)' = LeftOf(k)
      /\ n = 1 => low' = low
      /\ n # 1 => low' = IF low[root] < low[BlockOf(n - 1)]
                         THEN [low EXCEPT ![BlockOf(n - 1)] = low[root]] ELSE low
  BY <1>n, <1>a, <1>r, <1>g, <1>1, ReturnView
<1>v. /\ \A k \in 1 .. n : BlockOf(k) \in Visiting /\ BlockOf(k) \in Blocks
      /\ \A v \in Visiting : v \in Blocks /\ Seen(v) /\ v \notin Finished
      /\ \A b \in Blocks : /\ cfg[b] \subseteq Blocks /\ dfn[b] \in Nat
                           /\ low[b] \in Nat /\ low[b] <= dfn[b]
      /\ \A b : b \in Finished <=> b \in Blocks /\ Seen(b) /\ b \notin Visiting
  BY <1>n, View
<1>c. \A k \in 1 .. n - 1 : dfn[BlockOf(k)] < dfn[root]
  BY <1>a, <1>f, <1>n, <1>i DEF Sorted
<1>4. \A v \in Visiting : v \in M <=> dfn[root] <= dfn[v]
  <2>0. /\ \A x : x \in Visiting <=> \E i \in 1 .. Len(stack) : x = stack[i]
        /\ Len(stack) \in Nat
    <3>1. stack \in Seq(Blocks)
      BY DEF IInv, Types
    <3> QED BY <3>1, SeqFacts DEF Visiting
  <2>1. \A i, j \in 1 .. Len(stack) : i < j => dfn[stack[i]] < dfn[stack[j]]
    BY <1>i DEF Sorted
  <2>2. M = {stack[i] : i \in p .. Len(stack)} /\ stack[p] = root
    BY <1>M, <1>p DEF Popped
  <2> SUFFICES ASSUME NEW q \in 1 .. Len(stack)
               PROVE  stack[q] \in M <=> dfn[root] <= dfn[stack[q]]
    BY <2>0
  <2>3. stack[q] \in Visiting /\ stack[q] \in Blocks /\ root \in Blocks
    BY <2>0, <1>v, <1>1
  <2>4. CASE q < p
    <3>1. dfn[stack[q]] < dfn[root]
      BY <2>1, <2>2, <2>4
    <3>2. ASSUME NEW j \in p .. Len(stack) PROVE stack[q] # stack[j]
      <4>1. j \in 1 .. Len(stack) /\ q < j
        BY <2>0, <2>4
      <4>2. dfn[stack[q]] < dfn[stack[j]]
        BY <2>1, <4>1
      <4> QED BY <4>2, <2>3, <1>v
    <3> QED BY <3>1, <3>2, <2>2, <2>3, <1>v
  <2>5. CASE q = p
    BY <2>2, <2>3, <2>5, <1>1, <1>v
  <2>6. CASE p < q
    <3>1. dfn[root] < dfn[stack[q]]
      BY <2>1, <2>2, <2>6
    <3>2. q \in p .. Len(stack)
      BY <2>6
    <3> QED BY <3>1, <3>2, <2>2, <2>3, <1>v
  <2> QED BY <2>0, <2>4, <2>5, <2>6
<1>5. low' = low
  <2>1. CASE n = 1
    BY <2>1, <1>f
  <2>2. CASE n # 1
    <3>1. n - 1 \in 1 .. n - 1
      BY <2>2, <1>f
    <3>2. low[BlockOf(n - 1)] <= dfn[BlockOf(n - 1)] /\ dfn[BlockOf(n - 1)] < dfn[root] /\ BlockOf(n - 1) \in Blocks
      BY <3>1, <1>c, <1>f, <1>v
    <3>3. /\ low[root] = dfn[root] /\ dfn[root] \in Nat
          /\ dfn[BlockOf(n - 1)] \in Nat /\ low[BlockOf(n - 1)] \in Nat
      <4>1. low[root] = dfn[root]
        BY <1>g, Zenon
      <4> QED BY <4>1, <3>2, <1>1, <1>v, Zenon
    <3>4. \A x, y, z \in Nat : x <= y /\ y < z => ~ (z < x)
      OBVIOUS
    <3>5. ~ (low[root] < low[BlockOf(n - 1)])
      BY <3>2, <3>3, <3>4, Zenon
    <3> QED BY <3>5, <2>2, <1>f
  <2> QED BY <2>1, <2>2
<1>6. ASSUME NEW v \in M PROVE Owns(n, v)
  <2>1. v \in Visiting /\ v \in Blocks /\ dfn[root] <= dfn[v]
    BY <1>2, <1>4, <1>v
  <2>2. PICK k \in 1 .. n : Owns(k, v)
    BY <2>1, <1>n, <1>i DEF Owned
  <2>3. CASE k # n
    <3>1. k < n /\ k + 1 \in 1 .. n /\ n \in 1 .. n
      BY <2>3, <1>f
    <3>2. dfn[v] < dfn[BlockOf(k + 1)]
      BY <3>1, <2>2, <1>n DEF Owns
    <3>3. dfn[BlockOf(k + 1)] <= dfn[root]
      <4>1. CASE k + 1 = n
        BY <4>1, <1>a, <1>1, <1>v
      <4>2. CASE k + 1 # n
        <5>1. k + 1 \in 1 .. n - 1
          BY <4>2, <3>1, <1>f
        <5> QED BY <5>1, <3>1, <1>c, <1>1, <1>v
      <4> QED BY <4>1, <4>2
    <3> QED BY <2>1, <3>1, <3>2, <3>3, <1>1, <1>v
  <2> QED BY <2>2, <2>3
<1>7. \A v \in M : Reaches(v, root) /\ Reaches(root, v)
  <2>1. \A v \in M : Reaches(v, root)
    BY <1>6, <1>a DEF Owns
  <2>2. n \in 1 .. n
    BY <1>f
  <2>3. \A v \in M : Reaches(root, v)
    BY <2>2, <1>2, <1>4, <1>a, <1>n, <1>i DEF Descends
  <2> QED BY <2>1, <2>3
<1>8. ASSUME NEW v \in M, NEW w \in cfg[v] PROVE w \in Finished \cup M
  <2>0. v \in Visiting /\ v \in Blocks /\ Seen(v) /\ w \in Blocks
    BY <1>2, <1>v
  <2>1. Seen(w)
    <3>1. CASE \A c \in cfg[v] : Seen(c)
      BY <3>1
    <3>2. ASSUME NEW k \in 1 .. n, BlockOf(k) = v, \A c \in cfg[v] \ LeftOf(k) : Seen(c)
          PROVE  Seen(w)
      <4>1. k = n
        <5>1. dfn[root] <= dfn[BlockOf(k)]
          BY <3>2, <2>0, <1>4
        <5>2. k \in 1 .. n - 1 => dfn[BlockOf(k)] < dfn[root]
          BY <1>c
        <5>3. dfn[BlockOf(k)] \in Nat /\ dfn[root] \in Nat
          BY <2>0, <3>2, <1>1, <1>v
        <5> QED BY <5>1, <5>2, <5>3, <1>f
      <4> QED BY <4>1, <3>2, <1>f
    <3>3. \/ \A c \in cfg[v] : Seen(c)
          \/ \E k \in 1 .. n : BlockOf(k) = v /\ \A c \in cfg[v] \ LeftOf(k) : Seen(c)
      BY <2>0, <1>n DEF IInv, Explored, BlockOf, LeftOf, Depth
    <3> QED BY <3>1, <3>2, <3>3
  <2>2. CASE w \in Visiting
    <3>1. low[root] <= dfn[w]
      BY <2>2, <1>6, <1>a, <1>f DEF Owns
    <3> QED BY <3>1, <2>2, <1>4, <1>g
  <2> QED BY <2>0, <2>1, <2>2, <1>v
<1>9. Sorted'
  <2>1. ASSUME NEW i \in 1 .. p - 1, NEW j \in 1 .. p - 1, i < j
        PROVE  dfn[stack'[i]] < dfn[stack'[j]]
    <3>0. stack \in Seq(Blocks)
      BY DEF IInv, Types
    <3>1. i \in 1 .. Len(stack) /\ j \in 1 .. Len(stack)
      BY <3>0, SeqFacts
    <3>2. stack'[i] = stack[i] /\ stack'[j] = stack[j]
      BY <1>p
    <3> QED BY <2>1, <3>1, <3>2, <1>i DEF Sorted
  <2>2. \A k, l \in 1 .. n - 1 : k < l => dfn[BlockOf(k)'] < dfn[BlockOf(l)']
    BY <1>f, <1>n, <1>i DEF Sorted
  <2>3. \A b \in Blocks : Seen(b)' => dfn[b] < time
    BY <1>1, <1>i DEF Sorted
  <2>4. Len(stack') = p - 1
    BY <1>p
  <2> QED BY <2>1, <2>2, <2>3, <2>4, <1>1, <1>2, <1>f DEF Sorted
<1>10. Descends'
  <2>1. \A k \in 1 .. n - 1 : \A v \in Visiting \ M :
          dfn[BlockOf(k)'] <= dfn[v] => Reaches(BlockOf(k)', v)
    BY <1>f, <1>n, <1>i DEF Descends
  <2> QED BY <2>1, <1>2, <1>e, <1>f DEF Descends
<1>11. LowIsReached'
  <2> SUFFICES ASSUME NEW k \in 1 .. n - 1
               PROVE  \E w \in Visiting \ M : dfn[w] = low[BlockOf(k)] /\ Reaches(BlockOf(k), w)
    BY <1>2, <1>5, <1>e, <1>f DEF LowIsReached
  <2>0. k \in 1 .. n /\ BlockOf(k) \in Blocks
    BY <1>f, <1>v
  <2>1. PICK w \in Visiting : dfn[w] = low[BlockOf(k)] /\ Reaches(BlockOf(k), w)
    BY <2>0, <1>n, <1>i DEF LowIsReached
  <2>2. ~ (dfn[root] <= dfn[w])
    BY <2>0, <2>1, <1>1, <1>c, <1>v
  <2> QED BY <2>1, <2>2, <1>4
<1>12. Owned'
  <2> SUFFICES ASSUME NEW v \in Visiting \ M
               PROVE  \E k \in 1 .. n - 1 : Owns(k, v)'
    BY <1>2, <1>f DEF Owned
  <2>1. PICK k \in 1 .. n : Owns(k, v)
    BY <1>n, <1>i DEF Owned
  <2>2. k # n
    BY <2>1, <1>4, <1>a DEF Owns
  <2>3. k \in 1 .. n - 1 /\ BlockOf(k)' = BlockOf(k) /\ LeftOf(k)' = LeftOf(k)
    BY <2>2, <1>f
  <2>4. k < Depth' => dfn[v] < dfn[BlockOf(k + 1)']
    <3>1. k < n - 1 => k + 1 \in 1 .. n - 1
      BY <1>f
    <3> QED BY <3>1, <2>1, <1>f, <1>n DEF Owns
  <2>5. \A w \in cfg[v] \cap (Visiting \ M) :
          (v = BlockOf(k)' /\ w \in LeftOf(k)') \/ low[BlockOf(k)'] <= dfn[w]
    BY <2>1, <2>3 DEF Owns
  <2>6. dfn[BlockOf(k)'] <= dfn[v] /\ Reaches(v, BlockOf(k))'
    BY <2>1, <2>3, <1>e DEF Owns
  <2>7. Owns(k, v)'
    BY <2>4, <2>5, <2>6, <1>2, <1>5 DEF Owns
  <2> QED BY <2>3, <2>7
<1>13. FinishedIsClosed'
  BY <1>1, <1>2, <1>8, <1>i DEF FinishedIsClosed
<1>14. Mutual'
  <2>0. Finished \in ClosedSets
    <3>1. Finished \subseteq Blocks
      BY <1>v
    <3> QED BY <3>1, <1>i DEF ClosedSets, FinishedIsClosed
  <2>1. ASSUME NEW b \in M, NEW c \in M
        PROVE  scc_indices'[b] = scc_indices'[c] /\ Reaches(b, c) /\ Reaches(c, b)
    BY <1>1, <1>2, <1>7, ReachesFacts
  <2>2. ASSUME NEW b \in Finished, NEW c \in M
        PROVE  scc_indices'[b] # scc_indices'[c] /\ ~ Reaches(b, c)
    <3>1. scc_indices'[c] = root /\ scc_indices'[b] = scc_indices[b]
      BY <1>1, <1>2, <1>v
    <3>2. ~ Reaches(b, c)
      BY <2>0, <1>1, ReachesFacts
    <3> QED BY <3>1, <3>2, <1>3
  <2>3. ASSUME NEW b \in Finished, NEW c \in Finished
        PROVE  scc_indices'[b] = scc_indices'[c] <=> Reaches(b, c) /\ Reaches(c, b)
    <3>1. scc_indices'[c] = scc_indices[c] /\ scc_indices'[b] = scc_indices[b]
      BY <1>1, <1>2, <1>v
    <3> QED BY <3>1, <1>i DEF Mutual
  <2>4. \A b, c \in Finished \cup M :
          scc_indices'[b] = scc_indices'[c] <=> Reaches(b, c) /\ Reaches(c, b)
    BY <2>1, <2>2, <2>3
  <2> QED BY <2>4, <1>1, <1>e DEF Mutual
<1>15. FromStart'
  BY <1>1, <1>e, <1>i DEF FromStart
<1>16. LeadsToBlocks'
  <2>1. /\ \A b \in Blocks : b # root => blocks'[b] = blocks[b]
        /\ blocks'[root].next = (UNION {cfg[m] : m \in M}) \ M
    BY <1>m, <1>M, MergeFacts
  <2>2. (UNION {cfg[m] : m \in M}) \ M \subseteq Blocks
    BY <1>1, <1>v
  <2> QED BY <2>1, <2>2, <1>1, <1>i DEF LeadsToBlocks
<1> QED BY <1>9, <1>10, <1>11, <1>12, <1>13, <1>14, <1>15, <1>16 DEF TarjanInv

-----------------------------------------------------------------------------
\* Every step of solve_scc keeps Tarjan's argument.
LEMMA TarjanStep ==
  ASSUME IInv, TarjanInv, [SccStep]_scc_vars
  PROVE  TarjanInv'
<1>1. CASE UNCHANGED scc_vars
  <2>0. UNCHANGED <<cfg, blocks, scc_indices, dfn, time, stack>> /\ low' = low /\ calls' = calls
    BY <1>1 DEF scc_vars
  <2>1. /\ Depth' = Depth /\ Blocks' = Blocks /\ Visiting' = Visiting
        /\ \A k : BlockOf(k)' = BlockOf(k) /\ LeftOf(k)' = LeftOf(k)
        /\ \A b : Seen(b)' <=> Seen(b)
    BY <2>0 DEF Depth, BlockOf, LeftOf, Blocks, Visiting, Seen
  <2>2. \A b, c : Reaches(b, c)' <=> Reaches(b, c)
    BY <2>0, SameNumbers
  <2>3. \A k, v : Owns(k, v)' <=> Owns(k, v)
    BY <2>0, <2>1, <2>2 DEF Owns
  <2>4. Sorted' /\ Descends' /\ LowIsReached' /\ Owned'
    <3>1. Sorted /\ Descends /\ LowIsReached /\ Owned
      BY DEF TarjanInv
    <3>2. Sorted'
      BY <2>0, <2>1, <3>1 DEF Sorted
    <3>3. Descends'
      BY <2>0, <2>1, <2>2, <3>1 DEF Descends
    <3>4. LowIsReached'
      BY <2>0, <2>1, <2>2, <3>1 DEF LowIsReached
    <3>5. Owned'
      BY <2>1, <2>3, <3>1 DEF Owned
    <3> QED BY <3>2, <3>3, <3>4, <3>5
  <2>5. FinishedIsClosed' /\ Mutual' /\ FromStart' /\ LeadsToBlocks'
    BY <2>0, SameNumbers DEF TarjanInv
  <2> QED BY <2>4, <2>5 DEF TarjanInv
<1>2. CASE solve_scc /\ UNCHANGED cfg
  BY <1>2, Entrances, EnterKeeps
<1>3. ASSUME NEW target \in Blocks, tree_edge(target), UNCHANGED cfg
      PROVE  TarjanInv'
  BY <1>3, Entrances, EnterKeeps
<1>6. ASSUME NEW target \in Blocks, other_edge(target), UNCHANGED cfg
      PROVE  TarjanInv'
  BY <1>6, OtherKeeps
<1>4. CASE return_inner /\ UNCHANGED cfg
  BY <1>4, InnerKeeps
<1>5. CASE generate_scc /\ UNCHANGED cfg
  BY <1>5, GenerateKeeps
<1> QED
  BY <1>1, <1>2, <1>3, <1>4, <1>5, <1>6 DEF SccStep, SccActions

\* What the invariant says of the roots is what ComponentsAreExact says.
LEMMA TarjanResult ==
  ASSUME IInv, TarjanInv
  PROVE  ComponentsAreExact
<1>v. /\ Depth \in Nat
      /\ \A k \in 1 .. Depth : /\ BlockOf(k) \in Visiting /\ BlockOf(k) \in Blocks
                               /\ LeftOf(k) \subseteq cfg[BlockOf(k)]
      /\ \A b \in Blocks : /\ cfg[b] \subseteq Blocks /\ dfn[b] \in Nat
                           /\ low[b] \in Nat /\ low[b] <= dfn[b]
      /\ time \in Nat
      /\ \A b : b \in Finished <=> b \in Blocks /\ Seen(b) /\ b \notin Visiting
  BY View
<1>t. /\ cfg \in [Blocks -> SUBSET (Blocks \ {0})] /\ scc_indices \in [Blocks -> Blocks]
      /\ dfn \in [Blocks -> Nat] /\ low \in [Blocks -> Nat] /\ 0 \in Blocks
  BY DEF IInv, Types
<1>1. SccTypeOK
  <2>1. \A b \in Blocks : dfn[b] \in 0 .. time /\ low[b] \in 0 .. time
    BY <1>v DEF IInv, Numbers
  <2>2. dfn \in [Blocks -> 0 .. time] /\ low \in [Blocks -> 0 .. time]
    BY <2>1, <1>t
  <2>3. cfg \in [Blocks -> SUBSET Blocks]
    BY <1>t
  <2>4. \A b \in Blocks : blocks[b].next \subseteq Blocks
    BY DEF TarjanInv, LeadsToBlocks
  <2>5. \A k \in DOMAIN calls : calls[k].index \in Visiting /\ calls[k].out_set \subseteq Blocks
    <3>1. \A k \in 1 .. Depth : BlockOf(k) \in Visiting /\ LeftOf(k) \subseteq Blocks
      BY <1>v
    <3>2. DOMAIN calls = 1 .. Depth
      BY DEF IInv, Types, Depth
    <3> QED BY <3>1, <3>2 DEF BlockOf, LeftOf
  <2> QED BY <2>2, <2>3, <2>4, <2>5, <1>t DEF SccTypeOK
<1>2. ComponentsAreMutual
  <2> SUFFICES ASSUME NEW b \in Finished, NEW c \in Finished
               PROVE  scc_indices[b] = scc_indices[c] <=> b = c \/ (c \in Reach[b] /\ b \in Reach[c])
    BY DEF ComponentsAreMutual
  <2>1. b \in Blocks /\ c \in Blocks
    BY <1>v
  <2>2. /\ Reaches(b, c) <=> b = c \/ c \in Reach[b]
        /\ Reaches(c, b) <=> c = b \/ b \in Reach[c]
    BY <2>1, ReachesIsReach
  <2>3. scc_indices[b] = scc_indices[c] <=> Reaches(b, c) /\ Reaches(c, b)
    BY DEF TarjanInv, Mutual
  <2> QED BY <2>2, <2>3
<1>3. AllReachableSolved
  <2> SUFFICES ASSUME SccDone
               PROVE  stack = <<>> /\ Finished = {0} \cup Reach[0]
    BY DEF AllReachableSolved
  <2>1. calls = <<>> /\ time # 0 /\ stack = <<>>
    BY DEF SccDone, IInv, CallsOnStack
  <2>2. Visiting = {}
    BY <2>1 DEF Visiting, Range
  <2>3. 0 \in Finished
    BY <2>1, <2>2, <1>v, <1>t DEF Seen
  <2>4. Finished \in ClosedSets
    <3>1. Finished \subseteq Blocks /\ \A b \in Finished : cfg[b] \subseteq Finished
      BY <1>v DEF TarjanInv, FinishedIsClosed
    <3> QED BY <3>1 DEF ClosedSets
  <2>5. \A c \in Blocks : Reaches(0, c) => c \in Finished
    BY <2>3, <2>4, ReachesFacts
  <2>6. \A c \in Finished : c \in Blocks /\ Reaches(0, c)
    BY <1>v DEF TarjanInv, FromStart
  <2>7. \A c \in Blocks : Reaches(0, c) <=> c = 0 \/ c \in Reach[0]
    BY <1>t, ReachesIsReach
  <2>8. Reach[0] \subseteq Blocks
    BY <1>t DEF Reach
  <2> QED BY <2>1, <2>3, <2>5, <2>6, <2>7, <2>8
<1> QED BY <1>1, <1>2, <1>3 DEF ComponentsAreExact

\* For the blocks of every MIR body, in every order of the hash sets: two blocks
\* that tarjan is finished with have the same root exactly when each can be
\* reached from the other, and when solve_scc returns, exactly the blocks that
\* control flow can reach have a component.
THEOREM TarjanIsExact ==
  ASSUME NEW CONSTANT bs, MirBody(bs)
  PROVE  SccSpec(bs) => []ComponentsAreExact
<1>1. SccInit(bs) => IInv /\ TarjanInv
  BY InitHolds, TarjanInit
<1>2. IInv /\ TarjanInv /\ [SccStep]_scc_vars => (IInv /\ TarjanInv)'
  BY StepHolds, TarjanStep
<1>3. IInv /\ TarjanInv => ComponentsAreExact
  BY TarjanResult
<1> QED
  BY <1>1, <1>2, <1>3, PTL DEF SccSpec

=============================================================================
