--------------------------- MODULE SccSolveProofs ---------------------------
(***************************************************************************)
(* Proofs about solve_scc for every control-flow graph. tarjan pops its    *)
(* stack down to the root of a component; that nothing is popped which a   *)
(* caller still works on, and that the popped blocks are new to every      *)
(* component, rests on the discipline of the stack stated here.            *)
(***************************************************************************)
EXTENDS SccSolve, SeqLemmas

\* tarjan has been called for b. The start block has the number 0, which for the
\* others means that they have not been visited.
Seen(b) == dfn[b] # 0 \/ (b = 0 /\ time # 0)

\* An activation of tarjan: its block, and the successors that it still has to
\* look at.
Frames == [index : Blocks, out_set : SUBSET Blocks]

Types ==
  /\ 0 \in Blocks
  /\ blocks = [b \in Blocks |-> blocks[b]]
  /\ \A b \in Blocks : {"next", "scc_sub_blocks"} \subseteq DOMAIN blocks[b]
  /\ cfg \in [Blocks -> SUBSET (Blocks \ {0})]
  /\ scc_indices \in [Blocks -> Blocks]
  /\ dfn \in [Blocks -> Nat] /\ low \in [Blocks -> Nat] /\ time \in Nat
  /\ stack \in Seq(Blocks)
  /\ calls \in Seq(Frames)

\* Block 0 keeps its number, and low never exceeds dfn: the start block is the
\* root of its component when tarjan(0) ends.
Numbers ==
  /\ dfn[0] = 0
  /\ \A b \in Blocks : low[b] <= dfn[b] /\ dfn[b] <= time
  /\ time = 0 => calls = <<>> /\ \A b \in Blocks : dfn[b] = 0

\* A block is on the stack once, after tarjan was called for it.
StackOnce ==
  /\ \A i, j \in 1 .. Len(stack) : stack[i] = stack[j] => i = j
  /\ \A i \in 1 .. Len(stack) : Seen(stack[i])

\* The activations are of blocks on the stack, from the bottom to the top.
CallsOnStack ==
  /\ calls = <<>> => stack = <<>>
  /\ calls # <<>> => calls[1].index = 0 /\ stack # <<>> /\ stack[1] = 0
  /\ \A k \in 1 .. Len(calls) :
       /\ \E p \in 1 .. Len(stack) : stack[p] = calls[k].index
       /\ calls[k].out_set \subseteq cfg[calls[k].index]
  /\ \A k, l \in 1 .. Len(calls) : \A p, q \in 1 .. Len(stack) :
       k < l /\ stack[p] = calls[k].index /\ stack[q] = calls[l].index => p < q

\* What lies above an activation's block was entered from that block or from one
\* above it.
Parents ==
  \A k \in 1 .. Len(calls) : \A p, q \in 1 .. Len(stack) :
    stack[p] = calls[k].index /\ p < q => \E j \in p .. q - 1 : stack[q] \in cfg[stack[j]]

\* A block in no component is as it was, and a component has a finished root.
Untouched ==
  /\ \A b \in Blocks \ Finished :
       /\ scc_indices[b] = b
       /\ blocks[b].next = cfg[b]
       /\ blocks[b].scc_sub_blocks = <<>>
  /\ \A b \in Finished : scc_indices[b] \in Roots

\* tarjan has been called for the successors of a block, but for those that are
\* still in the loop of its activation.
Explored ==
  \A b \in Blocks : Seen(b) =>
    \/ \A c \in cfg[b] : Seen(c)
    \/ \E k \in 1 .. Len(calls) : calls[k].index = b /\ \A c \in cfg[b] \ calls[k].out_set : Seen(c)

IInv ==
  /\ Types /\ Numbers /\ StackOnce /\ CallsOnStack /\ Parents
  /\ Untouched /\ Explored /\ ContractionIsExact /\ SubBlocksInOrder

-----------------------------------------------------------------------------
\* The loop of the innermost activation moves on; the others stay as they are.
LEMMA VisitedFacts ==
  ASSUME calls \in Seq(Frames), calls # <<>>, NEW target
  PROVE  /\ Visited(target) \in Seq(Frames) /\ Len(Visited(target)) = Len(calls)
         /\ \A k \in 1 .. Len(calls) :
              /\ Visited(target)[k].index = calls[k].index
              /\ Visited(target)[k].out_set \subseteq calls[k].out_set
              /\ calls[k].out_set \subseteq Visited(target)[k].out_set \cup {target}
<1> DEFINE top == Len(calls)
           frames == Visited(target)
<1>1. frames = [calls EXCEPT ![top].out_set = @ \ {target}]
  BY DEF Visited
<1>2. top \in DOMAIN calls /\ top \in 1 .. Len(calls)
  OBVIOUS
<1>3. \A k \in 1 .. Len(calls) :
        /\ calls[k] \in Frames
        /\ calls[k] = [index |-> calls[k].index, out_set |-> calls[k].out_set]
        /\ calls[k].index \in Blocks /\ calls[k].out_set \subseteq Blocks
  <2> SUFFICES ASSUME NEW k \in 1 .. Len(calls)
               PROVE  /\ calls[k] \in Frames
                      /\ calls[k] = [index |-> calls[k].index, out_set |-> calls[k].out_set]
                      /\ calls[k].index \in Blocks /\ calls[k].out_set \subseteq Blocks
    OBVIOUS
  <2>1. calls[k] \in Frames
    BY SeqFacts
  <2>2. ASSUME NEW x \in Frames
        PROVE  /\ x = [index |-> x.index, out_set |-> x.out_set]
               /\ x.index \in Blocks /\ x.out_set \subseteq Blocks
    BY DEF Frames
  <2> QED BY <2>1, <2>2
<1>4. \A k \in 1 .. Len(calls) : k # top => frames[k] = calls[k]
  BY <1>1
<1>5. frames[top] = [calls[top] EXCEPT !.out_set = @ \ {target}]
  BY <1>1, <1>2
<1>6. /\ frames[top].index = calls[top].index
      /\ frames[top].out_set = calls[top].out_set \ {target}
      /\ frames[top] = [index |-> calls[top].index, out_set |-> calls[top].out_set \ {target}]
  BY <1>2, <1>3, <1>5, Zenon
<1>7. frames[top] \in Frames
  BY <1>2, <1>3, <1>6, Zenon DEF Frames
<1>8. frames \in Seq(Frames) /\ Len(frames) = Len(calls)
  <2>1. frames = [calls EXCEPT ![top] = frames[top]]
    BY <1>1, <1>5, Zenon
  <2> HIDE DEF frames
  <2> QED BY <2>1, <1>2, <1>7, UpdateFacts
<1> QED
  <2> HIDE DEF frames
  <2>1. \A k \in 1 .. Len(calls) :
              /\ frames[k].index = calls[k].index
              /\ frames[k].out_set \subseteq calls[k].out_set
              /\ calls[k].out_set \subseteq frames[k].out_set \cup {target}
    BY <1>4, <1>6
  <2> QED BY <1>8, <2>1 DEF frames

\* What the body of the MIR guarantees is all that the invariant needs.
LEMMA InitHolds ==
  ASSUME NEW CONSTANT bs, MirBody(bs), SccInit(bs)
  PROVE  IInv
<1>1. /\ Blocks = DOMAIN bs /\ stack = <<>> /\ calls = <<>> /\ time = 0
      /\ \A b \in Blocks : dfn[b] = 0 /\ low[b] = 0
  BY DEF SccInit, Blocks
<1>2. Types
  BY DEF SccInit, MirBody, Types, Blocks
<1>3. Finished = {} /\ Roots = {} /\ \A b \in Blocks : ~ Seen(b)
  BY <1>1 DEF Finished, Roots, Seen
<1>4. Numbers /\ StackOnce /\ CallsOnStack /\ Parents /\ Explored
  BY <1>1, <1>2, <1>3 DEF Types, Numbers, StackOnce, CallsOnStack, Parents, Explored
<1>5. Untouched
  BY <1>1, <1>3 DEF SccInit, MirBody, Untouched
<1>6. ContractionIsExact /\ SubBlocksInOrder
  BY <1>3 DEF ContractionIsExact, SubBlocksInOrder
<1> QED BY <1>2, <1>4, <1>5, <1>6 DEF IInv

-----------------------------------------------------------------------------
\* tarjan(index) is entered for a block that has not been seen, by an activation
\* that has it in its loop, or by solve_scc.
Entering(index, frames) ==
  /\ ~ Seen(index) /\ Enter(index, frames) /\ UNCHANGED cfg
  /\ \/ time = 0 /\ index = 0 /\ frames = <<>> /\ stack = <<>>
     \/ /\ time # 0 /\ index # 0 /\ calls # <<>> /\ index \in Top.out_set
        /\ frames = Visited(index)

\* What the entry of tarjan changes: the block is new to the stack and to the
\* activations, and the loop of the caller has moved on.
LEMMA EnterFacts ==
  ASSUME IInv, NEW index \in Blocks, NEW frames, Entering(index, frames)
  PROVE  /\ stack' \in Seq(Blocks) /\ Len(stack) \in Nat
         /\ Len(stack') = Len(stack) + 1 /\ stack'[Len(stack) + 1] = index
         /\ \A i \in 1 .. Len(stack) : stack'[i] = stack[i]
         /\ calls' \in Seq(Frames) /\ Len(calls) \in Nat
         /\ Len(calls') = Len(calls) + 1 /\ calls'[Len(calls) + 1].index = index
         /\ calls'[Len(calls) + 1].out_set = cfg[index]
         /\ \A k \in 1 .. Len(calls) :
              /\ calls'[k].index = calls[k].index
              /\ calls'[k].out_set \subseteq calls[k].out_set
              /\ calls[k].out_set \subseteq calls'[k].out_set \cup {index}
         /\ Len(frames) = Len(calls)
         /\ index \notin Visiting /\ Visiting' = Visiting \cup {index}
         /\ Finished' = Finished /\ Roots' = Roots /\ \A r : Component(r)' = Component(r)
         /\ \A b \in Blocks : Seen(b)' <=> Seen(b) \/ b = index
<1>i. /\ Types /\ Numbers /\ StackOnce /\ CallsOnStack /\ Parents
      /\ Untouched /\ Explored /\ ContractionIsExact /\ SubBlocksInOrder
  BY DEF IInv
<1>0. /\ blocks' = blocks /\ Blocks' = Blocks /\ cfg' = cfg /\ scc_indices' = scc_indices
      /\ time' = time + 1 /\ dfn' = [dfn EXCEPT ![index] = time]
      /\ low' = [low EXCEPT ![index] = time]
      /\ stack' = Append(stack, index)
      /\ calls' = Append(frames, [index |-> index, out_set |-> blocks[index].next])
      /\ ~ Seen(index)
  BY DEF Entering, Enter, Blocks
<1>h. \/ time = 0 /\ index = 0 /\ frames = <<>> /\ stack = <<>>
      \/ /\ time # 0 /\ index # 0 /\ calls # <<>> /\ index \in Top.out_set
         /\ frames = Visited(index)
  BY DEF Entering
<1>t. /\ 0 \in Blocks /\ stack \in Seq(Blocks)
      /\ calls \in Seq(Frames)
      /\ cfg \in [Blocks -> SUBSET (Blocks \ {0})]
      /\ dfn \in [Blocks -> Nat] /\ low \in [Blocks -> Nat] /\ time \in Nat
  BY <1>i DEF Types
<1>1. /\ Len(stack') = Len(stack) + 1
      /\ stack'[Len(stack) + 1] = index
      /\ \A i \in 1 .. Len(stack) : stack'[i] = stack[i]
      /\ Len(stack) \in Nat
  BY <1>0, <1>t, AppendFacts, SeqFacts
<1>s. stack' \in Seq(Blocks)
  BY <1>0, <1>t, AppendFacts
<1>v. /\ \A x : x \in Visiting <=> \E i \in 1 .. Len(stack) : x = stack[i]
      /\ \A x : x \in Visiting' <=> \E i \in 1 .. Len(stack') : x = stack'[i]
      /\ \A i \in 1 .. Len(stack) : stack[i] \in Blocks
  <2>0. stack \in Seq(Blocks)
    BY <1>t, Zenon
  <2>1. \A x : x \in Visiting <=> \E i \in 1 .. Len(stack) : x = stack[i]
    BY <2>0, SeqFacts, Zenon DEF Visiting
  <2>2. \A x : x \in Visiting' <=> \E i \in 1 .. Len(stack') : x = stack'[i]
    BY <1>s, SeqFacts, Zenon DEF Visiting
  <2>3. \A i \in 1 .. Len(stack) : stack[i] \in Blocks
    BY <2>0, SeqFacts, Zenon
  <2> QED BY <2>1, <2>2, <2>3, Zenon
<1>c. /\ Len(calls) \in Nat
      /\ (calls = <<>> <=> Len(calls) = 0)
      /\ \A k \in 1 .. Len(calls) : calls[k] \in Frames
  BY <1>t, SeqFacts
<1>3. index \notin Visiting /\ index \notin Finished /\ Visiting' = Visiting \cup {index}
  <2>1. index \notin Visiting
    BY <1>0, <1>v, <1>i DEF StackOnce
  <2>2. index \notin Finished
    BY <1>0 DEF Finished, Seen
  <2>3. Visiting' = Visiting \cup {index}
    BY <1>1, <1>v
  <2> QED BY <2>1, <2>2, <2>3
<1>7. blocks[index].next = cfg[index] /\ cfg[index] \in SUBSET (Blocks \ {0})
  BY <1>3, <1>i, <1>t DEF Untouched
<1>2. /\ Len(frames) = Len(calls) /\ frames \in Seq(Frames)
      /\ \A k \in 1 .. Len(calls) :
           /\ frames[k].index = calls[k].index
           /\ frames[k].out_set \subseteq calls[k].out_set
           /\ calls[k].out_set \subseteq frames[k].out_set \cup {index}
  <2>1. CASE frames = <<>> /\ time = 0
    <3>1. Len(frames) = Len(calls) /\ Len(calls) = 0
      BY <2>1, <1>i, <1>c DEF Numbers
    <3>2. frames \in Seq(Frames)
      BY <2>1
    <3> QED BY <3>1, <3>2
  <2>2. CASE calls # <<>> /\ frames = Visited(index)
    BY <2>2, <1>t, VisitedFacts
  <2> QED BY <2>1, <2>2, <1>h
<1>g. /\ calls' \in Seq(Frames) /\ Len(calls') = Len(calls) + 1
      /\ \A k \in 1 .. Len(calls) : calls'[k] = frames[k]
      /\ calls'[Len(calls) + 1].index = index
      /\ calls'[Len(calls) + 1].out_set = cfg[index]
  <2> DEFINE frame == [index |-> index, out_set |-> blocks[index].next]
  <2>1. frame \in Frames
    BY <1>7 DEF Frames
  <2>2. frame.index = index /\ frame.out_set = cfg[index]
    BY <1>7
  <2>3. calls' = Append(frames, frame) /\ frames \in Seq(Frames)
    BY <1>0, <1>2
  <2> HIDE DEF frame
  <2>4. /\ calls' \in Seq(Frames) /\ Len(calls') = Len(frames) + 1
        /\ \A k \in 1 .. Len(frames) : calls'[k] = frames[k]
        /\ calls'[Len(frames) + 1] = frame
    BY <2>1, <2>3, AppendFacts
  <2> QED BY <2>2, <2>4, <1>2
<1>f. /\ Len(calls') = Len(calls) + 1
      /\ \A k \in 1 .. Len(calls) : calls'[k].index = calls[k].index
      /\ calls'[Len(calls) + 1].index = index
  BY <1>2, <1>g
<1>o. /\ \A k \in 1 .. Len(calls) : /\ calls'[k].out_set \subseteq calls[k].out_set
                                    /\ calls[k].out_set \subseteq calls'[k].out_set \cup {index}
      /\ calls'[Len(calls) + 1].out_set = cfg[index]
  BY <1>2, <1>g
<1>4. \A b \in Blocks : Seen(b)' <=> Seen(b) \/ b = index
  <2> SUFFICES ASSUME NEW b \in Blocks PROVE Seen(b)' <=> Seen(b) \/ b = index
    OBVIOUS
  <2>1. CASE b = index
    <3>1. dfn'[index] = time /\ time' = time + 1
      BY <1>0, <1>t
    <3>2. time # 0 \/ index = 0
      BY <1>h
    <3> QED BY <2>1, <3>1, <3>2, <1>t DEF Seen
  <2>2. CASE b # index
    <3>1. dfn'[b] = dfn[b] /\ time' = time + 1
      BY <1>0, <1>t, <2>2
    <3>2. time = 0 => index = 0
      BY <1>h
    <3> QED BY <2>2, <3>1, <3>2, <1>t DEF Seen
  <2> QED BY <2>1, <2>2
<1>5. Finished' = Finished
  BY <1>0, <1>3, <1>4 DEF Finished, Seen
<1>6. Roots' = Roots /\ \A r : Component(r)' = Component(r)
  BY <1>0, <1>5 DEF Roots, Component
<1> QED
  BY <1>s, <1>1, <1>c, <1>g, <1>f, <1>o, <1>2, <1>3, <1>5, <1>6, <1>4

\* The entry of tarjan keeps the discipline.
LEMMA EnterStep ==
  ASSUME IInv, NEW index \in Blocks, NEW frames, Entering(index, frames)
  PROVE  IInv'
<1>i. /\ Types /\ Numbers /\ StackOnce /\ CallsOnStack /\ Parents
      /\ Untouched /\ Explored /\ ContractionIsExact /\ SubBlocksInOrder
  BY DEF IInv
<1>0. /\ blocks' = blocks /\ Blocks' = Blocks /\ cfg' = cfg /\ scc_indices' = scc_indices
      /\ time' = time + 1 /\ dfn' = [dfn EXCEPT ![index] = time]
      /\ low' = [low EXCEPT ![index] = time]
      /\ stack' = Append(stack, index)
      /\ calls' = Append(frames, [index |-> index, out_set |-> blocks[index].next])
      /\ ~ Seen(index)
  BY DEF Entering, Enter, Blocks
<1>h. \/ time = 0 /\ index = 0 /\ frames = <<>> /\ stack = <<>>
      \/ /\ time # 0 /\ index # 0 /\ calls # <<>> /\ index \in Top.out_set
         /\ frames = Visited(index)
  BY DEF Entering
<1>t. /\ 0 \in Blocks /\ stack \in Seq(Blocks)
      /\ calls \in Seq(Frames)
      /\ cfg \in [Blocks -> SUBSET (Blocks \ {0})]
      /\ dfn \in [Blocks -> Nat] /\ low \in [Blocks -> Nat] /\ time \in Nat
  BY <1>i DEF Types
<1>s. stack' \in Seq(Blocks)
  BY EnterFacts
<1>1. /\ Len(stack') = Len(stack) + 1
      /\ stack'[Len(stack) + 1] = index
      /\ \A i \in 1 .. Len(stack) : stack'[i] = stack[i]
      /\ Len(stack) \in Nat
  BY EnterFacts
<1>v. /\ \A x : x \in Visiting <=> \E i \in 1 .. Len(stack) : x = stack[i]
      /\ \A x : x \in Visiting' <=> \E i \in 1 .. Len(stack') : x = stack'[i]
      /\ \A i \in 1 .. Len(stack) : stack[i] \in Blocks
  <2>0. stack \in Seq(Blocks)
    BY <1>t, Zenon
  <2>1. \A x : x \in Visiting <=> \E i \in 1 .. Len(stack) : x = stack[i]
    BY <2>0, SeqFacts, Zenon DEF Visiting
  <2>2. \A x : x \in Visiting' <=> \E i \in 1 .. Len(stack') : x = stack'[i]
    BY <1>s, SeqFacts, Zenon DEF Visiting
  <2>3. \A i \in 1 .. Len(stack) : stack[i] \in Blocks
    BY <2>0, SeqFacts, Zenon
  <2> QED BY <2>1, <2>2, <2>3, Zenon
<1>c. /\ Len(calls) \in Nat
      /\ (calls = <<>> <=> Len(calls) = 0)
      /\ \A k \in 1 .. Len(calls) : calls[k] \in Frames
  BY <1>t, SeqFacts
<1>g. calls' \in Seq(Frames)
  BY EnterFacts
<1>f. /\ Len(calls') = Len(calls) + 1
      /\ \A k \in 1 .. Len(calls) : calls'[k].index = calls[k].index
      /\ calls'[Len(calls) + 1].index = index
  BY EnterFacts
<1>o. /\ \A k \in 1 .. Len(calls) : /\ calls'[k].out_set \subseteq calls[k].out_set
                                    /\ calls[k].out_set \subseteq calls'[k].out_set \cup {index}
      /\ calls'[Len(calls) + 1].out_set = cfg[index]
  BY EnterFacts
<1>2. Len(frames) = Len(calls)
  BY EnterFacts
<1>z. stack' # <<>> /\ calls' # <<>>
  <2>1. Len(stack') # 0 /\ Len(calls') # 0
    BY <1>1, <1>f, <1>c
  <2>2. stack' # <<>>
    BY <2>1, <1>s, SeqFacts
  <2>3. calls' # <<>>
    BY <2>1, <1>g, SeqFacts
  <2> QED BY <2>2, <2>3
<1>3. index \notin Visiting /\ Visiting' = Visiting \cup {index}
  BY EnterFacts
<1>4. \A b \in Blocks : Seen(b)' <=> Seen(b) \/ b = index
  BY EnterFacts
<1>5. Finished' = Finished
  BY EnterFacts
<1>6. Roots' = Roots /\ \A r : Component(r)' = Component(r)
  BY EnterFacts
<1>8. Types'
  <2>1. dfn' \in [Blocks -> Nat] /\ low' \in [Blocks -> Nat] /\ time' \in Nat
    BY <1>0, <1>t
  <2>2. Frames' = Frames
    BY <1>0 DEF Frames
  <2> QED BY <2>1, <2>2, <1>0, <1>s, <1>g, <1>i, Zenon DEF Types
<1>9. Numbers'
  <2>1. dfn'[0] = 0
    BY <1>0, <1>h, <1>t, <1>i DEF Numbers
  <2>2. ASSUME NEW b \in Blocks PROVE low'[b] <= dfn'[b] /\ dfn'[b] <= time'
    <3>1. low[b] <= dfn[b] /\ dfn[b] <= time /\ low[b] \in Nat /\ dfn[b] \in Nat /\ time \in Nat
      BY <1>t, <1>i DEF Numbers
    <3>2. \/ low'[b] = low[b] /\ dfn'[b] = dfn[b]
          \/ low'[b] = time /\ dfn'[b] = time
      BY <1>0, <1>t, Zenon
    <3> QED BY <3>1, <3>2, <1>0
  <2>3. time' # 0
    BY <1>0, <1>t
  <2> QED BY <2>1, <2>2, <2>3, <1>0 DEF Numbers
<1>10. StackOnce'
  <2>1. \A i \in 1 .. Len(stack) : stack[i] # index /\ stack[i] \in Blocks /\ Seen(stack[i])
    BY <1>3, <1>v, <1>i DEF StackOnce
  <2>2. \A i \in 1 .. Len(stack) + 1 : Seen(stack[i])'
    BY <2>1, <1>1, <1>4 DEF Seen
  <2>3. \A i, j \in 1 .. Len(stack) + 1 : stack'[i] = stack'[j] => i = j
    BY <2>1, <1>1, <1>i DEF StackOnce
  <2> QED BY <2>2, <2>3, <1>1 DEF StackOnce
<1>d. /\ \A k \in 1 .. Len(calls) : calls[k].index # index
      /\ \A p \in 1 .. Len(stack) : stack[p] # index
  <2>1. \A p \in 1 .. Len(stack) : stack[p] # index
    BY <1>3, <1>v, Zenon
  <2> QED BY <2>1, <1>i, Zenon DEF CallsOnStack
<1>e. \A k \in 1 .. Len(calls) + 1, p \in 1 .. Len(stack) + 1 :
        stack'[p] = calls'[k].index =>
          \/ k \in 1 .. Len(calls) /\ p \in 1 .. Len(stack) /\ stack[p] = calls[k].index
          \/ k = Len(calls) + 1 /\ p = Len(stack) + 1
  <2> SUFFICES ASSUME NEW k \in 1 .. Len(calls) + 1, NEW p \in 1 .. Len(stack) + 1,
                      stack'[p] = calls'[k].index
               PROVE  \/ k \in 1 .. Len(calls) /\ p \in 1 .. Len(stack) /\ stack[p] = calls[k].index
                      \/ k = Len(calls) + 1 /\ p = Len(stack) + 1
    OBVIOUS
  <2>1. \/ k \in 1 .. Len(calls) /\ calls'[k].index = calls[k].index
        \/ k = Len(calls) + 1 /\ calls'[k].index = index
    BY <1>f, <1>c
  <2>2. \/ p \in 1 .. Len(stack) /\ stack'[p] = stack[p]
        \/ p = Len(stack) + 1 /\ stack'[p] = index
    BY <1>1
  <2> QED BY <2>1, <2>2, <1>d
<1>11. CallsOnStack'
  <2>1. calls' # <<>> /\ calls'[1].index = 0 /\ stack' # <<>> /\ stack'[1] = 0
    <3>1. CASE time = 0 /\ index = 0 /\ frames = <<>> /\ stack = <<>>
      <4>1. Len(stack) = 0 /\ Len(calls) = 0
        BY <3>1, <1>2
      <4>2. calls'[1].index = 0 /\ stack'[1] = 0
        BY <3>1, <4>1, <1>1, <1>f
      <4> QED BY <4>2, <1>z
    <3>2. CASE calls # <<>>
      <4>1. calls[1].index = 0 /\ stack # <<>> /\ stack[1] = 0
        BY <3>2, <1>i DEF CallsOnStack
      <4>2. 1 \in 1 .. Len(calls) /\ 1 \in 1 .. Len(stack)
        BY <3>2, <4>1, <1>c, <1>t, SeqFacts
      <4>3. calls'[1].index = 0 /\ stack'[1] = 0
        BY <4>1, <4>2, <1>1, <1>f
      <4> QED BY <4>3, <1>z
    <3> QED BY <3>1, <3>2, <1>h
  <2>2. \A k \in 1 .. Len(calls') :
          /\ \E p \in 1 .. Len(stack') : stack'[p] = calls'[k].index
          /\ calls'[k].out_set \subseteq cfg'[calls'[k].index]
    <3> SUFFICES ASSUME NEW k \in 1 .. Len(calls) + 1
                 PROVE  /\ \E p \in 1 .. Len(stack) + 1 : stack'[p] = calls'[k].index
                        /\ calls'[k].out_set \subseteq cfg[calls'[k].index]
      BY <1>0, <1>1, <1>f
    <3>1. CASE k = Len(calls) + 1
      BY <3>1, <1>1, <1>f, <1>o
    <3>2. CASE k \in 1 .. Len(calls)
      <4>1. PICK p \in 1 .. Len(stack) : stack[p] = calls[k].index
        BY <3>2, <1>1, <1>c, <1>i DEF CallsOnStack
      <4>2. calls[k].out_set \subseteq cfg[calls[k].index]
        BY <3>2, <1>c, <1>i DEF CallsOnStack
      <4>3. stack'[p] = calls'[k].index /\ p \in 1 .. Len(stack) + 1
        BY <3>2, <4>1, <1>1, <1>f
      <4>4. calls'[k].out_set \subseteq cfg[calls'[k].index]
        BY <3>2, <4>2, <1>f, <1>o
      <4> QED BY <4>3, <4>4
    <3> QED BY <3>1, <3>2, <1>c
  <2>3. \A k, l \in 1 .. Len(calls') : \A p, q \in 1 .. Len(stack') :
          k < l /\ stack'[p] = calls'[k].index /\ stack'[q] = calls'[l].index => p < q
    <3> SUFFICES ASSUME NEW k \in 1 .. Len(calls) + 1, NEW l \in 1 .. Len(calls) + 1,
                        NEW p \in 1 .. Len(stack) + 1, NEW q \in 1 .. Len(stack) + 1,
                        k < l, stack'[p] = calls'[k].index, stack'[q] = calls'[l].index
                 PROVE  p < q
      BY <1>1, <1>f
    <3>1. k \in 1 .. Len(calls) /\ p \in 1 .. Len(stack) /\ stack[p] = calls[k].index
      BY <1>c, <1>e
    <3>2. \/ q = Len(stack) + 1
          \/ l \in 1 .. Len(calls) /\ q \in 1 .. Len(stack) /\ stack[q] = calls[l].index
      BY <1>e
    <3>3. ASSUME l \in 1 .. Len(calls), q \in 1 .. Len(stack), stack[q] = calls[l].index
          PROVE  p < q
      BY <3>1, <3>3, <1>1, <1>c, <1>i DEF CallsOnStack
    <3> QED BY <3>1, <3>2, <3>3, <1>1
  <2> QED BY <2>1, <2>2, <2>3 DEF CallsOnStack
<1>12. Parents'
  <2> SUFFICES ASSUME NEW k \in 1 .. Len(calls) + 1, NEW p \in 1 .. Len(stack) + 1,
                      NEW q \in 1 .. Len(stack) + 1, stack'[p] = calls'[k].index, p < q
               PROVE  \E j \in p .. q - 1 : stack'[q] \in cfg[stack'[j]]
    <3>1. cfg' = cfg /\ Len(calls') = Len(calls) + 1 /\ Len(stack') = Len(stack) + 1
      BY <1>0, <1>1, <1>f
    <3> QED BY <3>1 DEF Parents
  <2>1. p \in 1 .. Len(stack)
    BY <1>1
  <2>2. k \in 1 .. Len(calls) /\ stack[p] = calls[k].index
    BY <2>1, <1>1, <1>e
  <2>3. CASE q \in 1 .. Len(stack)
    <3>1. PICK j \in p .. q - 1 : stack[q] \in cfg[stack[j]]
      BY <2>1, <2>2, <2>3, <1>1, <1>c, <1>i, Zenon DEF Parents
    <3>2. j \in 1 .. Len(stack)
      BY <2>1, <2>3, <1>1
    <3>3. stack'[q] = stack[q] /\ stack'[j] = stack[j]
      BY <3>2, <2>3, <1>1, Zenon
    <3> QED BY <3>1, <3>3, Zenon
  <2>4. CASE q = Len(stack) + 1
    <3>1. Len(calls) \in 1 .. Len(calls) /\ index \in calls[Len(calls)].out_set
      BY <2>2, <1>h, <1>c, <1>i DEF Top, Numbers
    <3>2. PICK j \in 1 .. Len(stack) : stack[j] = calls[Len(calls)].index
      BY <3>1, <1>1, <1>i, Zenon DEF CallsOnStack
    <3>3. index \in cfg[stack[j]]
      BY <3>1, <3>2, <1>i, Zenon DEF CallsOnStack
    <3>4. p <= j
      <4>1. CASE k = Len(calls)
        BY <4>1, <2>1, <2>2, <3>2, <1>1, <1>i DEF StackOnce
      <4>2. CASE k < Len(calls)
        <5>1. \A l \in 1 .. Len(calls) : \A m, n \in 1 .. Len(stack) :
                k < l /\ stack[m] = calls[k].index /\ stack[n] = calls[l].index => m < n
          BY <2>2, <1>i, Zenon DEF CallsOnStack
        <5>2. p < j
          BY <4>2, <5>1, <2>1, <2>2, <3>1, <3>2, Zenon
        <5> QED BY <5>2
      <4> QED BY <4>1, <4>2, <2>2, <1>c
    <3> QED BY <3>2, <3>3, <3>4, <2>4, <1>1
  <2> QED BY <2>3, <2>4, <1>1
<1>13. Untouched'
  BY <1>0, <1>5, <1>6, <1>i DEF Untouched
<1>14. Explored'
  <2> SUFFICES ASSUME NEW b \in Blocks, Seen(b) \/ b = index
               PROVE  \/ \A c \in cfg[b] : Seen(c)'
                      \/ \E k \in 1 .. Len(calls') : /\ calls'[k].index = b
                                                 /\ \A c \in cfg[b] \ calls'[k].out_set : Seen(c)'
    BY <1>0, <1>4 DEF Explored
  <2>0. cfg[b] \subseteq Blocks
    BY <1>t
  <2>1. CASE b = index
    BY <2>1, <1>c, <1>f, <1>o
  <2>2. CASE \A c \in cfg[b] : Seen(c)
    BY <2>0, <2>2, <1>4
  <2>3. ASSUME NEW k \in 1 .. Len(calls), calls[k].index = b,
               \A c \in cfg[b] \ calls[k].out_set : Seen(c)
        PROVE  \E l \in 1 .. Len(calls') : /\ calls'[l].index = b
                                       /\ \A c \in cfg[b] \ calls'[l].out_set : Seen(c)'
    <3>1. /\ k \in 1 .. Len(calls') /\ calls'[k].index = b
          /\ \A c \in cfg[b] \ calls'[k].out_set : c = index \/ c \in cfg[b] \ calls[k].out_set
      BY <2>3, <1>c, <1>f, <1>o
    <3> QED BY <3>1, <2>0, <2>3, <1>4
  <2> QED BY <2>1, <2>2, <2>3, <1>i DEF Explored
<1>15. ContractionIsExact' /\ SubBlocksInOrder'
  <2>1. \A r : Component(r)' = Component(r)
    BY <1>6
  <2>2. ContractionIsExact'
    BY <2>1, <1>0, <1>6, <1>i DEF ContractionIsExact
  <2>3. SubBlocksInOrder'
    BY <2>1, <1>0, <1>6, <1>i DEF SubBlocksInOrder
  <2> QED BY <2>2, <2>3
<1> QED
  BY <1>8, <1>9, <1>10, <1>11, <1>12, <1>13, <1>14, <1>15 DEF IInv

\* A step that keeps the numbers, the stack and the blocks keeps what is said of
\* them alone.
LEMMA SameStack ==
  ASSUME UNCHANGED <<cfg, blocks, scc_indices, dfn, time, stack>>
  PROVE  /\ Blocks' = Blocks /\ Frames' = Frames /\ \A b \in Blocks : Seen(b)' <=> Seen(b)
         /\ Finished' = Finished /\ Roots' = Roots /\ \A r : Component(r)' = Component(r)
         /\ StackOnce => StackOnce'
         /\ Untouched => Untouched'
         /\ ContractionIsExact => ContractionIsExact'
         /\ SubBlocksInOrder => SubBlocksInOrder'
<1>1. Blocks' = Blocks /\ Visiting' = Visiting
  BY DEF Blocks, Visiting
<1>2. Frames' = Frames
  BY <1>1 DEF Frames
<1>3. \A b : Seen(b)' <=> Seen(b)
  BY DEF Seen
<1>4. Finished' = Finished
  BY <1>1 DEF Finished
<1>5. Roots' = Roots /\ \A r : Component(r)' = Component(r)
  BY <1>4 DEF Roots, Component
<1>6. StackOnce => StackOnce'
  BY <1>3 DEF StackOnce
<1>7. Untouched => Untouched'
  BY <1>1, <1>4, <1>5 DEF Untouched
<1>8. ContractionIsExact => ContractionIsExact'
  BY <1>5 DEF ContractionIsExact
<1>9. SubBlocksInOrder => SubBlocksInOrder'
  BY <1>5 DEF SubBlocksInOrder
<1> QED BY <1>1, <1>2, <1>3, <1>4, <1>5, <1>6, <1>7, <1>8, <1>9

\* An edge to a block that has been visited only takes it out of the loop.
LEMMA OtherStep ==
  ASSUME IInv, NEW target \in Blocks, other_edge(target), UNCHANGED cfg
  PROVE  IInv'
<1>i. /\ Types /\ Numbers /\ StackOnce /\ CallsOnStack /\ Parents
      /\ Untouched /\ Explored /\ ContractionIsExact /\ SubBlocksInOrder
  BY DEF IInv
<1>0. /\ UNCHANGED <<cfg, blocks, scc_indices, dfn, time, stack>>
      /\ calls # <<>> /\ calls' = Visited(target) /\ dfn[target] # 0
  BY DEF other_edge
<1>l. low' = [low EXCEPT ![Top.index] =
                IF target \in Range(stack) /\ dfn[target] < @ THEN dfn[target] ELSE @]
  BY DEF other_edge
<1>t. /\ calls \in Seq(Frames) /\ cfg \in [Blocks -> SUBSET (Blocks \ {0})]
      /\ dfn \in [Blocks -> Nat] /\ low \in [Blocks -> Nat] /\ time \in Nat
  BY <1>i DEF Types
<1>1. /\ Blocks' = Blocks /\ Frames' = Frames /\ \A b \in Blocks : Seen(b)' <=> Seen(b)
      /\ StackOnce' /\ Untouched' /\ ContractionIsExact' /\ SubBlocksInOrder'
  BY <1>0, <1>i, SameStack
<1>s. calls' \in Seq(Frames)
  BY <1>0, <1>t, VisitedFacts
<1>2. /\ Len(calls') = Len(calls)
      /\ \A k \in 1 .. Len(calls) : calls'[k].index = calls[k].index
  BY <1>0, <1>t, VisitedFacts
<1>o. \A k \in 1 .. Len(calls) : /\ calls'[k].out_set \subseteq calls[k].out_set
                                 /\ calls[k].out_set \subseteq calls'[k].out_set \cup {target}
  BY <1>0, <1>t, VisitedFacts
<1>3. \A b \in Blocks : low'[b] \in Nat /\ low'[b] <= dfn[b]
  <2> SUFFICES ASSUME NEW b \in Blocks PROVE low'[b] \in Nat /\ low'[b] <= dfn[b]
    OBVIOUS
  <2>1. low[b] <= dfn[b] /\ low[b] \in Nat /\ dfn[b] \in Nat /\ dfn[target] \in Nat
    BY <1>t, <1>i DEF Numbers
  <2>2. \/ low'[b] = low[b]
        \/ low'[b] = dfn[target] /\ dfn[target] < low[b]
    BY <1>l, <1>t
  <2> QED BY <2>1, <2>2
<1>4. low' \in [Blocks -> Nat]
  BY <1>l, <1>t, <1>3, Zenon
<1>5. Types'
  BY <1>0, <1>1, <1>4, <1>s, <1>i DEF Types
<1>z. calls' # <<>>
  BY <1>0, <1>2, <1>s, <1>t, SeqFacts
<1>6. Numbers'
  <2>1. time # 0
    BY <1>0, <1>i DEF Numbers
  <2> QED BY <2>1, <1>0, <1>1, <1>3, <1>i DEF Numbers
<1>7. CallsOnStack'
  <2>1. calls'[1].index = 0 /\ stack # <<>> /\ stack[1] = 0
    <3>1. 1 \in 1 .. Len(calls)
      BY <1>0, <1>t, SeqFacts
    <3> QED BY <3>1, <1>0, <1>2, <1>i DEF CallsOnStack
  <2>2. \A k \in 1 .. Len(calls) :
          /\ \E p \in 1 .. Len(stack) : stack[p] = calls'[k].index
          /\ calls'[k].out_set \subseteq cfg[calls'[k].index]
    BY <1>2, <1>o, <1>i, Zenon DEF CallsOnStack
  <2>3. \A k, l \in 1 .. Len(calls) : \A p, q \in 1 .. Len(stack) :
          k < l /\ stack[p] = calls'[k].index /\ stack[q] = calls'[l].index => p < q
    BY <1>2, <1>i, Zenon DEF CallsOnStack
  <2> QED BY <2>1, <2>2, <2>3, <1>0, <1>2, <1>z DEF CallsOnStack
<1>8. Parents'
  <2>1. \A k \in 1 .. Len(calls) : \A p, q \in 1 .. Len(stack) :
          stack[p] = calls'[k].index /\ p < q => \E j \in p .. q - 1 : stack[q] \in cfg[stack[j]]
    BY <1>2, <1>i, Zenon DEF Parents
  <2>2. cfg' = cfg /\ stack' = stack /\ Len(calls') = Len(calls)
    BY <1>0, <1>2
  <2> QED BY <2>1, <2>2 DEF Parents
<1>9. Explored'
  <2> SUFFICES ASSUME NEW b \in Blocks, Seen(b)
               PROVE  \/ \A c \in cfg[b] : Seen(c)
                      \/ \E k \in 1 .. Len(calls') : /\ calls'[k].index = b
                                                     /\ \A c \in cfg[b] \ calls'[k].out_set : Seen(c)
    <3>1. cfg' = cfg /\ \A b \in Blocks : cfg[b] \subseteq Blocks
      BY <1>0, <1>t
    <3> QED BY <3>1, <1>1 DEF Explored
  <2>1. Seen(target)
    BY <1>0 DEF Seen
  <2>2. ASSUME NEW k \in 1 .. Len(calls), calls[k].index = b,
               \A c \in cfg[b] \ calls[k].out_set : Seen(c)
        PROVE  /\ k \in 1 .. Len(calls') /\ calls'[k].index = b
               /\ \A c \in cfg[b] \ calls'[k].out_set : Seen(c)
    BY <2>1, <2>2, <1>2, <1>o
  <2> QED BY <2>2, <1>i DEF Explored
<1> QED BY <1>1, <1>5, <1>6, <1>7, <1>8, <1>9 DEF IInv

\* When an activation returns, the others stay as they are, and low of the
\* caller stays at most its number. Its loop is over: tarjan has been called for
\* all the successors of its block.
LEMMA ReturnFacts ==
  ASSUME IInv, calls # <<>>, Top.out_set = {}, Return(Top.index),
         cfg' = cfg, Blocks' = Blocks
  PROVE  /\ calls' \in Seq(Frames) /\ Len(calls') = Len(calls) - 1 /\ Len(calls) \in Nat \ {0}
         /\ \A k \in 1 .. Len(calls) - 1 : calls'[k] = calls[k]
         /\ low' \in [Blocks -> Nat] /\ Numbers' /\ Explored'
         /\ time # 0 /\ dfn' = dfn /\ time' = time
<1>i. Types /\ Numbers /\ Explored /\ CallsOnStack
  BY DEF IInv
<1>0. dfn' = dfn /\ time' = time /\ calls' = SubSeq(calls, 1, Len(calls) - 1)
  BY DEF Return
<1>t. /\ calls \in Seq(Frames) /\ cfg \in [Blocks -> SUBSET (Blocks \ {0})]
      /\ dfn \in [Blocks -> Nat] /\ low \in [Blocks -> Nat] /\ time \in Nat
  BY <1>i DEF Types
<1>1. Len(calls) \in Nat \ {0}
  BY <1>t, SeqFacts
<1>3. /\ calls' \in Seq(Frames) /\ Len(calls') = Len(calls) - 1
      /\ \A k \in 1 .. Len(calls) - 1 : calls'[k] = calls[k]
  <2>1. Len(calls) - 1 \in Nat /\ Len(calls) - 1 <= Len(calls)
    BY <1>1
  <2>2. PICK n \in Nat : n = Len(calls) - 1 /\ n <= Len(calls)
    BY <2>1, Zenon
  <2>3. /\ SubSeq(calls, 1, n) \in Seq(Frames) /\ Len(SubSeq(calls, 1, n)) = n
        /\ \A k \in 1 .. n : SubSeq(calls, 1, n)[k] = calls[k]
    BY <2>2, <1>t, PrefixFacts
  <2> QED BY <2>2, <2>3, <1>0, Zenon
<1>4. time # 0
  BY <1>i DEF Numbers
<1>c. Top.index \in Blocks
  <2>1. calls[Len(calls)] \in Frames
    BY <1>1, <1>t, SeqFacts
  <2>2. \A x \in Frames : x.index \in Blocks
    BY DEF Frames
  <2> QED BY <2>1, <2>2 DEF Top
<1>5. \A b \in Blocks : low'[b] \in Nat /\ low'[b] <= dfn[b]
  <2> SUFFICES ASSUME NEW b \in Blocks PROVE low'[b] \in Nat /\ low'[b] <= dfn[b]
    OBVIOUS
  <2>1. low[b] <= dfn[b] /\ low[b] \in Nat /\ dfn[b] \in Nat /\ low[Top.index] \in Nat
    BY <1>t, <1>c, <1>i DEF Numbers
  <2>2. PICK caller : low' = IF SubSeq(calls, 1, Len(calls) - 1) # <<>> /\ low[Top.index] < low[caller]
                             THEN [low EXCEPT ![caller] = low[Top.index]] ELSE low
    BY Zenon DEF Return
  <2>3. \/ low'[b] = low[b]
        \/ low'[b] = low[Top.index] /\ low[Top.index] < low[b]
    BY <2>2, <1>t
  <2> QED BY <2>1, <2>3
<1>6. low' \in [Blocks -> Nat]
  <2>1. PICK caller : low' = IF SubSeq(calls, 1, Len(calls) - 1) # <<>> /\ low[Top.index] < low[caller]
                             THEN [low EXCEPT ![caller] = low[Top.index]] ELSE low
    BY Zenon DEF Return
  <2> QED BY <2>1, <1>c, <1>t, Zenon
<1>7. Numbers'
  BY <1>0, <1>4, <1>5, <1>i DEF Numbers
<1>8. Explored'
  <2> SUFFICES ASSUME NEW b \in Blocks, Seen(b)
               PROVE  \/ \A c \in cfg[b] : Seen(c)
                      \/ \E k \in 1 .. Len(calls') : /\ calls'[k].index = b
                                                     /\ \A c \in cfg[b] \ calls'[k].out_set : Seen(c)
    <3>1. \A c : Seen(c)' <=> Seen(c)
      BY <1>0 DEF Seen
    <3> QED BY <3>1 DEF Explored
  <2>1. ASSUME NEW k \in 1 .. Len(calls), calls[k].index = b,
               \A c \in cfg[b] \ calls[k].out_set : Seen(c)
        PROVE  \/ \A c \in cfg[b] : Seen(c)
               \/ k \in 1 .. Len(calls') /\ calls'[k] = calls[k]
    <3>1. CASE k = Len(calls)
      <4>1. calls[k].out_set = {}
        BY <3>1 DEF Top
      <4> QED BY <4>1, <2>1
    <3>2. CASE k # Len(calls)
      BY <3>2, <1>1, <1>3
    <3> QED BY <3>1, <3>2
  <2> QED BY <2>1, <1>i DEF Explored
<1> QED BY <1>0, <1>1, <1>3, <1>4, <1>6, <1>7, <1>8

\* A block that is not a root stays on the stack when its activation returns. It
\* is not the start block, whose low is its number, so a caller is left.
LEMMA InnerStep ==
  ASSUME IInv, return_inner, UNCHANGED cfg
  PROVE  IInv'
<1>i. /\ Types /\ Numbers /\ StackOnce /\ CallsOnStack /\ Parents
      /\ Untouched /\ ContractionIsExact /\ SubBlocksInOrder
  BY DEF IInv
<1>0. /\ calls # <<>> /\ Top.out_set = {} /\ dfn[Top.index] # low[Top.index]
      /\ Return(Top.index) /\ UNCHANGED <<blocks, scc_indices, stack, cfg>>
  BY DEF return_inner
<1>b. Blocks' = Blocks
  BY <1>0 DEF Blocks
<1>1. /\ calls' \in Seq(Frames) /\ Len(calls') = Len(calls) - 1 /\ Len(calls) \in Nat \ {0}
      /\ \A k \in 1 .. Len(calls) - 1 : calls'[k] = calls[k]
  BY <1>0, <1>b, ReturnFacts
<1>2. low' \in [Blocks -> Nat] /\ Numbers' /\ Explored' /\ time # 0 /\ dfn' = dfn /\ time' = time
  BY <1>0, <1>b, ReturnFacts
<1>3. /\ Frames' = Frames
      /\ StackOnce' /\ Untouched' /\ ContractionIsExact' /\ SubBlocksInOrder'
  BY <1>0, <1>2, <1>i, SameStack
<1>4. Types'
  BY <1>0, <1>1, <1>2, <1>3, <1>b, <1>i DEF Types
<1>5. Len(calls) # 1
  <2>1. low[0] <= dfn[0] /\ dfn[0] = 0 /\ low[0] \in Nat
    BY <1>i DEF Numbers, Types
  <2>2. Top.index # 0
    BY <2>1, <1>0
  <2>3. calls[1].index = 0
    BY <1>0, <1>i DEF CallsOnStack
  <2> QED BY <2>2, <2>3 DEF Top
<1>6. \A k \in 1 .. Len(calls') : k \in 1 .. Len(calls) /\ calls'[k] = calls[k]
  BY <1>1
<1>7. CallsOnStack'
  <2>1. calls' # <<>>
    BY <1>1, <1>5, SeqFacts
  <2>2. calls'[1].index = 0 /\ stack # <<>> /\ stack[1] = 0
    <3>1. 1 \in 1 .. Len(calls')
      BY <1>1, <1>5
    <3> QED BY <3>1, <1>0, <1>6, <1>i DEF CallsOnStack
  <2>3. \A k \in 1 .. Len(calls') :
          /\ \E p \in 1 .. Len(stack) : stack[p] = calls'[k].index
          /\ calls'[k].out_set \subseteq cfg[calls'[k].index]
    BY <1>6, <1>i, Zenon DEF CallsOnStack
  <2>4. \A k, l \in 1 .. Len(calls') : \A p, q \in 1 .. Len(stack) :
          k < l /\ stack[p] = calls'[k].index /\ stack[q] = calls'[l].index => p < q
    BY <1>6, <1>i, Zenon DEF CallsOnStack
  <2> QED BY <2>1, <2>2, <2>3, <2>4, <1>0 DEF CallsOnStack
<1>8. Parents'
  <2>1. \A k \in 1 .. Len(calls') : \A p, q \in 1 .. Len(stack) :
          stack[p] = calls'[k].index /\ p < q => \E j \in p .. q - 1 : stack[q] \in cfg[stack[j]]
    <3> SUFFICES ASSUME NEW k \in 1 .. Len(calls'), NEW p \in 1 .. Len(stack), NEW q \in 1 .. Len(stack),
                        stack[p] = calls'[k].index, p < q
                 PROVE  \E j \in p .. q - 1 : stack[q] \in cfg[stack[j]]
      BY Zenon
    <3>1. k \in 1 .. Len(calls) /\ stack[p] = calls[k].index
      BY <1>6, Zenon
    <3> QED BY <3>1, <1>i, Zenon DEF Parents
  <2>2. cfg' = cfg /\ stack' = stack
    BY <1>0
  <2> QED BY <2>1, <2>2, Zenon DEF Parents
<1> QED BY <1>2, <1>3, <1>4, <1>7, <1>8 DEF IInv

\* The members of the component that generate_scc makes of root: the blocks on
\* the stack from p, the place of root, on.
Popped(p) == {stack[i] : i \in p .. Len(stack)}

\* The loop of generate_scc, when tarjan(root) ends.
Popping(root, subs) ==
  /\ root = Top.index
  /\ subs = SubSeq(stack, RootAt(root) + 1, Len(stack))
  /\ stack' = Rest(root)

\* What is popped, and what is left. Every block is popped once, and the
\* activations that go on are of blocks that stay.
LEMMA PopFacts ==
  ASSUME IInv, calls # <<>>, NEW root, NEW subs, Popping(root, subs)
  PROVE  \E p \in 1 .. Len(stack) :
           /\ stack[p] = root /\ root \in Blocks
           /\ stack' \in Seq(Blocks) /\ Len(stack') = p - 1
           /\ \A i \in 1 .. p - 1 : stack'[i] = stack[i]
           /\ subs \in Seq(Blocks) /\ Len(subs) = Len(stack) - p
           /\ \A i \in 1 .. Len(stack) - p : subs[i] = stack[p + i]
           /\ {root} \cup Range(subs) = Popped(p) /\ root \notin Range(subs)
           /\ Visiting' = Visiting \ Popped(p) /\ Popped(p) \subseteq Visiting
           /\ \A k \in 1 .. Len(calls) - 1 : \A q \in 1 .. Len(stack) :
                stack[q] = calls[k].index => q \in 1 .. p - 1
<1>i. Types /\ StackOnce /\ CallsOnStack
  BY DEF IInv
<1>t. stack \in Seq(Blocks) /\ calls \in Seq(Frames)
  BY <1>i DEF Types
<1>c. Len(calls) \in Nat \ {0} /\ Len(stack) \in Nat
  BY <1>t, SeqFacts
<1>s. \A i \in 1 .. Len(stack) : stack[i] \in Blocks
  BY <1>t, SeqFacts
<1>d. DOMAIN stack = 1 .. Len(stack)
  BY <1>t
<1> DEFINE p == RootAt(root)
<1>1. p \in 1 .. Len(stack) /\ stack[p] = root
  <2>1. Len(calls) \in 1 .. Len(calls)
    BY <1>c
  <2>2. \E q \in 1 .. Len(stack) : stack[q] = calls[Len(calls)].index
    BY <2>1, <1>i DEF CallsOnStack
  <2>3. \E q \in DOMAIN stack : stack[q] = root
    BY <2>2, <1>d DEF Top, Popping
  <2>4. p \in DOMAIN stack /\ stack[p] = root
    BY <2>3 DEF RootAt
  <2> QED BY <2>4, <1>d
<1> HIDE DEF p
<1>2. /\ stack' \in Seq(Blocks) /\ Len(stack') = p - 1
      /\ \A i \in 1 .. p - 1 : stack'[i] = stack[i]
  <2>1. stack' = SubSeq(stack, 1, p - 1) /\ p - 1 \in Nat /\ p - 1 <= Len(stack)
    BY <1>1, <1>c DEF Rest, p, Popping
  <2> QED BY <2>1, <1>t, PrefixFacts
<1>3. /\ subs \in Seq(Blocks) /\ Len(subs) = Len(stack) - p
      /\ \A i \in 1 .. Len(stack) - p : subs[i] = stack[p + i]
  <2>1. subs = SubSeq(stack, p + 1, Len(stack))
    BY DEF p, Popping
  <2> QED BY <2>1, <1>1, <1>t, SuffixFacts
<1>4. \A x : x \in Range(subs) <=> \E i \in p + 1 .. Len(stack) : x = stack[i]
  <2> TAKE x
  <2>1. x \in Range(subs) <=> \E i \in 1 .. Len(subs) : x = subs[i]
    <3>1. subs \in Seq(Blocks)
      BY <1>3
    <3> QED BY <3>1, SeqFacts
  <2>2. ASSUME NEW i \in 1 .. Len(subs), x = subs[i]
        PROVE  p + i \in p + 1 .. Len(stack) /\ x = stack[p + i]
    <3>1. Len(subs) = Len(stack) - p
      BY <1>3
    <3>2. p + i \in p + 1 .. Len(stack) /\ i \in 1 .. Len(stack) - p
      BY <3>1, <1>1, <1>c
    <3> QED BY <2>2, <3>2, <1>3
  <2>3. ASSUME NEW i \in p + 1 .. Len(stack), x = stack[i]
        PROVE  i - p \in 1 .. Len(subs) /\ x = subs[i - p]
    <3>1. i - p \in 1 .. Len(stack) - p /\ p + (i - p) = i
      BY <1>1, <1>c
    <3> QED BY <3>1, <2>3, <1>3
  <2> QED BY <2>1, <2>2, <2>3
<1>5. {root} \cup Range(subs) = Popped(p)
  <2>1. ASSUME NEW i \in p .. Len(stack) PROVE i = p \/ i \in p + 1 .. Len(stack)
    BY <1>1, <1>c
  <2>2. ASSUME NEW i \in p + 1 .. Len(stack) PROVE i \in p .. Len(stack)
    BY <1>1, <1>c
  <2>3. p \in p .. Len(stack)
    BY <1>1, <1>c
  <2> QED BY <2>1, <2>2, <2>3, <1>1, <1>4 DEF Popped
<1>6. root \notin Range(subs)
  <2>1. ASSUME NEW i \in p + 1 .. Len(stack) PROVE stack[i] # root
    <3>1. i \in 1 .. Len(stack) /\ i # p
      BY <1>1, <1>c
    <3> QED BY <3>1, <1>1, <1>i DEF StackOnce
  <2> QED BY <2>1, <1>4
<1>7. \A x : x \in Visiting <=> \E i \in 1 .. Len(stack) : x = stack[i]
  BY <1>t, SeqFacts DEF Visiting
<1>8. \A x : x \in Visiting' <=> \E i \in 1 .. p - 1 : x = stack[i]
  <2>1. \A x : x \in Visiting' <=> \E i \in 1 .. Len(stack') : x = stack'[i]
    BY <1>2, SeqFacts DEF Visiting
  <2> QED BY <2>1, <1>2
<1>9. Visiting' = Visiting \ Popped(p) /\ Popped(p) \subseteq Visiting
  <2>1. ASSUME NEW i \in 1 .. p - 1 PROVE i \in 1 .. Len(stack) /\ stack[i] \notin Popped(p)
    <3>1. i \in 1 .. Len(stack)
      BY <1>1, <1>c
    <3>2. ASSUME NEW j \in p .. Len(stack) PROVE stack[i] # stack[j]
      <4>1. j \in 1 .. Len(stack) /\ i # j
        BY <1>1, <1>c
      <4> QED BY <3>1, <4>1, <1>i DEF StackOnce
    <3> QED BY <3>1, <3>2 DEF Popped
  <2>2. ASSUME NEW i \in 1 .. Len(stack) PROVE i \in 1 .. p - 1 \/ i \in p .. Len(stack)
    BY <1>1, <1>c
  <2>3. ASSUME NEW i \in p .. Len(stack) PROVE i \in 1 .. Len(stack)
    BY <1>1, <1>c
  <2>4. Popped(p) \subseteq Visiting
    BY <2>3, <1>7 DEF Popped
  <2>5. ASSUME NEW x \in Visiting, x \notin Popped(p) PROVE x \in Visiting'
    BY <2>2, <2>5, <1>7, <1>8 DEF Popped
  <2>6. ASSUME NEW x \in Visiting' PROVE x \in Visiting /\ x \notin Popped(p)
    BY <2>1, <2>6, <1>7, <1>8
  <2> QED BY <2>4, <2>5, <2>6
<1>10. ASSUME NEW k \in 1 .. Len(calls) - 1, NEW q \in 1 .. Len(stack), stack[q] = calls[k].index
       PROVE  q \in 1 .. p - 1
  <2>1. k \in 1 .. Len(calls) /\ Len(calls) \in 1 .. Len(calls) /\ k < Len(calls)
    BY <1>c
  <2>2. stack[p] = calls[Len(calls)].index
    BY <1>1 DEF Top, Popping
  <2>3. q < p
    BY <2>1, <2>2, <1>1, <1>10, <1>i, Zenon DEF CallsOnStack
  <2> QED BY <2>3, <1>1, <1>c
<1>11. root \in Blocks
  BY <1>1, <1>s
<1> QED
  <2> p \in 1 .. Len(stack)
    BY <1>1
  <2> WITNESS p \in 1 .. Len(stack)
  <2> QED BY <1>1, <1>2, <1>3, <1>5, <1>6, <1>9, <1>10, <1>11

\* What generate_scc does with the component Popped(p) of root.
Merging(root, subs, p) ==
  /\ p \in 1 .. Len(stack) /\ stack[p] = root
  /\ {root} \cup Range(subs) = Popped(p) /\ root \notin Range(subs)
  /\ Visiting' = Visiting \ Popped(p) /\ Popped(p) \subseteq Visiting
  /\ scc_indices' = [b \in Blocks |-> IF b \in Popped(p) THEN root ELSE scc_indices[b]]
  /\ blocks' = Contracted(root, subs)
  /\ UNCHANGED <<cfg, dfn, time>>

\* The component is new: it shares no block with another, and changes none.
LEMMA MergeFacts ==
  ASSUME IInv, NEW root, NEW subs, NEW p, Merging(root, subs, p)
  PROVE  /\ Blocks' = Blocks /\ root \in Popped(p) /\ Popped(p) \subseteq Blocks
         /\ \A b \in Popped(p) : b \notin Finished
         /\ \A b : Seen(b)' <=> Seen(b)
         /\ Finished' = Finished \cup Popped(p)
         /\ Roots' = Roots \cup {root} /\ root \notin Roots
         /\ Component(root)' = Popped(p)
         /\ \A r \in Roots : Component(r)' = Component(r)
         /\ \A b \in Blocks : b # root => blocks'[b] = blocks[b]
         /\ blocks'[root].next = (UNION {cfg[m] : m \in Popped(p)}) \ Popped(p)
         /\ blocks'[root].scc_sub_blocks = <<>> \o subs
         /\ blocks' = [b \in Blocks |-> blocks'[b]]
         /\ \A b \in Blocks : {"next", "scc_sub_blocks"} \subseteq DOMAIN blocks'[b]
         /\ scc_indices' \in [Blocks -> Blocks]
         /\ Untouched'
<1>i. Types /\ StackOnce /\ Untouched
  BY DEF IInv
<1>t. /\ stack \in Seq(Blocks) /\ scc_indices \in [Blocks -> Blocks]
      /\ blocks = [b \in Blocks |-> blocks[b]]
      /\ \A b \in Blocks : {"next", "scc_sub_blocks"} \subseteq DOMAIN blocks[b]
  BY <1>i DEF Types
<1>m. /\ p \in 1 .. Len(stack) /\ stack[p] = root
      /\ {root} \cup Range(subs) = Popped(p)
      /\ Visiting' = Visiting \ Popped(p) /\ Popped(p) \subseteq Visiting
      /\ scc_indices' = [b \in Blocks |-> IF b \in Popped(p) THEN root ELSE scc_indices[b]]
      /\ blocks' = Contracted(root, subs)
      /\ UNCHANGED <<cfg, dfn, time>>
  BY DEF Merging
<1>v. \A x \in Visiting : x \in Blocks /\ Seen(x) /\ x \notin Finished
  <2>1. \A x : x \in Visiting <=> \E i \in 1 .. Len(stack) : x = stack[i]
    BY <1>t, SeqFacts DEF Visiting
  <2>2. \A i \in 1 .. Len(stack) : stack[i] \in Blocks
    BY <1>t, SeqFacts
  <2> QED BY <2>1, <2>2, <1>i DEF StackOnce, Finished
<1>1. root \in Popped(p) /\ Popped(p) \subseteq Blocks
  BY <1>m, <1>v
<1>2. \A b \in Popped(p) : b \notin Finished /\ Seen(b)
  BY <1>m, <1>v
<1>3. blocks' = [blocks EXCEPT
                   ![root].next = (UNION {blocks[m].next : m \in Popped(p)}) \ Popped(p),
                   ![root].scc_sub_blocks = @ \o subs]
  <2> DEFINE M == {root} \cup Range(subs)
             Merged(S) == [blocks EXCEPT ![root].next = (UNION {blocks[m].next : m \in S}) \ S,
                                         ![root].scc_sub_blocks = @ \o subs]
  <2>1. blocks' = Merged(M)
    <3>1. blocks' = Contracted(root, subs)
      BY <1>m
    <3> QED BY <3>1, Zenon DEF Contracted
  <2>2. M = Popped(p)
    BY <1>m
  <2> HIDE DEF M
  <2>3. blocks' = Merged(Popped(p))
    BY <2>1, <2>2, Zenon
  <2> QED BY <2>3
<1>4. DOMAIN blocks' = DOMAIN blocks
  BY <1>3
<1>5. Blocks' = Blocks
  BY <1>4 DEF Blocks
<1>6. \A b \in Blocks : b # root => blocks'[b] = blocks[b]
  BY <1>3 DEF Blocks
<1>7. blocks'[root] = [blocks[root] EXCEPT
                         !.next = (UNION {blocks[m].next : m \in Popped(p)}) \ Popped(p),
                         !.scc_sub_blocks = @ \o subs]
  BY <1>1, <1>3, Zenon DEF Blocks
<1>8. /\ blocks'[root].next = (UNION {blocks[m].next : m \in Popped(p)}) \ Popped(p)
      /\ blocks'[root].scc_sub_blocks = blocks[root].scc_sub_blocks \o subs
      /\ DOMAIN blocks'[root] = DOMAIN blocks[root]
  BY <1>1, <1>7, <1>t
<1>9. /\ \A m \in Popped(p) : blocks[m].next = cfg[m]
      /\ blocks[root].scc_sub_blocks = <<>>
  BY <1>1, <1>2, <1>i DEF Untouched
<1>10. /\ blocks'[root].next = (UNION {cfg[m] : m \in Popped(p)}) \ Popped(p)
       /\ blocks'[root].scc_sub_blocks = <<>> \o subs
  BY <1>8, <1>9
<1>11. blocks' = [b \in Blocks |-> blocks'[b]]
  BY <1>3, <1>t, Zenon DEF Blocks
<1>12. \A b \in Blocks : {"next", "scc_sub_blocks"} \subseteq DOMAIN blocks'[b]
  BY <1>6, <1>8, <1>t
<1>13. scc_indices' \in [Blocks -> Blocks]
  BY <1>1, <1>m, <1>t
<1>14. \A b \in Blocks : scc_indices'[b] = IF b \in Popped(p) THEN root ELSE scc_indices[b]
  BY <1>m
<1>15. \A b : Seen(b)' <=> Seen(b)
  BY <1>m DEF Seen
<1>16. /\ \A b : b \in Finished <=> b \in Blocks /\ Seen(b) /\ b \notin Visiting
       /\ \A b : b \in Finished' <=> b \in Blocks' /\ Seen(b)' /\ b \notin Visiting'
  BY DEF Finished, Seen
<1>17. Finished' = Finished \cup Popped(p)
  BY <1>2, <1>1, <1>5, <1>15, <1>16, <1>m
<1>18. \A b \in Finished : b \in Blocks /\ b \notin Popped(p) /\ b # root
  BY <1>1, <1>2, <1>16
<1>19. \A b \in Finished : scc_indices[b] \in Roots /\ scc_indices[b] # root /\ scc_indices'[b] = scc_indices[b]
  BY <1>18, <1>14, <1>i DEF Untouched, Roots
<1>20. \A b \in Popped(p) : scc_indices'[b] = root
  BY <1>1, <1>14
<1>21. Roots' = Roots \cup {root} /\ root \notin Roots
  BY <1>1, <1>17, <1>18, <1>19, <1>20 DEF Roots
<1>22. Component(root)' = Popped(p)
  BY <1>17, <1>19, <1>20 DEF Component
<1>23. ASSUME NEW r \in Roots PROVE Component(r)' = Component(r)
  BY <1>17, <1>19, <1>20, <1>21 DEF Component
<1>24. Untouched'
  <2>1. \A b \in Blocks' \ Finished' : b \in Blocks \ Finished /\ b \notin Popped(p) /\ b # root
    BY <1>1, <1>5, <1>17
  <2>2. \A b \in Blocks' \ Finished' :
          /\ scc_indices'[b] = b
          /\ blocks'[b].next = cfg'[b]
          /\ blocks'[b].scc_sub_blocks = <<>>
    BY <2>1, <1>6, <1>14, <1>m, <1>i DEF Untouched
  <2>3. \A b \in Finished' : scc_indices'[b] \in Roots'
    BY <1>17, <1>19, <1>20, <1>21
  <2> QED BY <2>2, <2>3 DEF Untouched
<1> QED
  BY <1>1, <1>2, <1>5, <1>6, <1>10, <1>11, <1>12, <1>13, <1>15, <1>17, <1>21, <1>22, <1>23, <1>24

\* tarjan(root) ends with low[root] = dfn[root]: the blocks from root on leave the
\* stack and become its component.
LEMMA GenerateStep ==
  ASSUME IInv, generate_scc, UNCHANGED cfg
  PROVE  IInv'
<1>i. /\ Types /\ Numbers /\ StackOnce /\ CallsOnStack /\ Parents
      /\ ContractionIsExact /\ SubBlocksInOrder
  BY DEF IInv
<1>r. PICK root : root = Top.index
  OBVIOUS
<1>u. PICK subs : subs = SubSeq(stack, RootAt(root) + 1, Len(stack))
  BY Zenon
<1>g. /\ calls # <<>> /\ Top.out_set = {} /\ Return(root) /\ cfg' = cfg
      /\ stack' = Rest(root)
      /\ scc_indices' = [b \in Blocks |-> IF b \in {root} \cup Range(subs) THEN root ELSE scc_indices[b]]
      /\ blocks' = Contracted(root, subs)
  BY <1>r, <1>u, Zenon DEF generate_scc
<1>0. Popping(root, subs)
  BY <1>r, <1>u, <1>g DEF Popping
<1>1. PICK p \in 1 .. Len(stack) :
           /\ stack[p] = root /\ root \in Blocks
           /\ stack' \in Seq(Blocks) /\ Len(stack') = p - 1
           /\ \A i \in 1 .. p - 1 : stack'[i] = stack[i]
           /\ subs \in Seq(Blocks) /\ Len(subs) = Len(stack) - p
           /\ \A i \in 1 .. Len(stack) - p : subs[i] = stack[p + i]
           /\ {root} \cup Range(subs) = Popped(p) /\ root \notin Range(subs)
           /\ Visiting' = Visiting \ Popped(p) /\ Popped(p) \subseteq Visiting
           /\ \A k \in 1 .. Len(calls) - 1 : \A q \in 1 .. Len(stack) :
                stack[q] = calls[k].index => q \in 1 .. p - 1
  BY <1>0, <1>g, PopFacts, Zenon
<1>m. Merging(root, subs, p)
  BY <1>1, <1>g, Zenon DEF Merging, Return
<1>2. /\ Blocks' = Blocks /\ root \in Popped(p) /\ Popped(p) \subseteq Blocks
      /\ \A b : Seen(b)' <=> Seen(b)
  BY <1>m, MergeFacts
<1>3. /\ Roots' = Roots \cup {root} /\ root \notin Roots
      /\ Component(root)' = Popped(p)
      /\ \A r \in Roots : Component(r)' = Component(r)
  BY <1>m, MergeFacts
<1>4. /\ \A b \in Blocks : b # root => blocks'[b] = blocks[b]
      /\ blocks'[root].next = (UNION {cfg[m] : m \in Popped(p)}) \ Popped(p)
      /\ blocks'[root].scc_sub_blocks = <<>> \o subs
  BY <1>m, MergeFacts
<1>5. /\ blocks' = [b \in Blocks |-> blocks'[b]]
      /\ \A b \in Blocks : {"next", "scc_sub_blocks"} \subseteq DOMAIN blocks'[b]
      /\ scc_indices' \in [Blocks -> Blocks]
  BY <1>m, MergeFacts
<1>6. Untouched'
  BY <1>m, MergeFacts
<1>7. /\ calls' \in Seq(Frames) /\ Len(calls') = Len(calls) - 1 /\ Len(calls) \in Nat \ {0}
      /\ \A k \in 1 .. Len(calls) - 1 : calls'[k] = calls[k]
  BY <1>r, <1>g, <1>2, ReturnFacts
<1>8. low' \in [Blocks -> Nat] /\ Numbers' /\ Explored' /\ dfn' = dfn /\ time' = time
  BY <1>r, <1>g, <1>2, ReturnFacts
<1>9. Types'
  <2>1. Frames' = Frames
    BY <1>2 DEF Frames
  <2>2. stack' \in Seq(Blocks)
    BY <1>1
  <2> QED BY <2>1, <2>2, <1>2, <1>5, <1>7, <1>8, <1>g, <1>i, Zenon DEF Types
<1>c. /\ Len(stack) \in Nat /\ stack \in Seq(Blocks)
      /\ \A i \in 1 .. p - 1 : i \in 1 .. Len(stack)
      /\ \A k \in 1 .. Len(calls) - 1 : k \in 1 .. Len(calls)
  <2>1. stack \in Seq(Blocks)
    BY <1>i DEF Types
  <2>2. Len(stack) \in Nat
    BY <2>1, SeqFacts
  <2> QED BY <2>1, <2>2, <1>7
<1>s. Len(stack') = p - 1 /\ \A i \in 1 .. p - 1 : stack'[i] = stack[i]
  BY <1>1
<1>10. StackOnce'
  <2>1. \A i, j \in 1 .. p - 1 : stack'[i] = stack'[j] => i = j
    BY <1>s, <1>c, <1>i DEF StackOnce
  <2>2. \A i \in 1 .. p - 1 : Seen(stack[i])'
    <3>1. \A i \in 1 .. p - 1 : Seen(stack[i])
      BY <1>c, <1>i DEF StackOnce
    <3> QED BY <3>1, <1>s, <1>8 DEF Seen
  <2> QED BY <2>1, <2>2, <1>s DEF StackOnce
<1>k. \A k \in 1 .. Len(calls) - 1 : \A q \in 1 .. Len(stack) :
        stack[q] = calls[k].index => q \in 1 .. p - 1
  BY <1>1, Zenon
<1>11. CallsOnStack'
  <2>1. ASSUME calls' = <<>> PROVE stack' = <<>>
    <3>1. Len(calls) = 1
      BY <2>1, <1>7
    <3>2. root = 0 /\ stack[1] = 0 /\ stack # <<>>
      BY <3>1, <1>r, <1>g, <1>i DEF Top, CallsOnStack
    <3>3. p = 1
      <4>1. 1 \in 1 .. Len(stack)
        BY <3>2, <1>c, SeqFacts
      <4> QED BY <4>1, <3>2, <1>1, <1>i DEF StackOnce
    <3>4. Len(stack') = 0 /\ stack' \in Seq(Blocks)
      BY <3>3, <1>1
    <3> QED BY <3>4, SeqFacts
  <2>2. ASSUME calls' # <<>> PROVE calls'[1].index = 0 /\ stack' # <<>> /\ stack'[1] = 0
    <3>1. 1 \in 1 .. Len(calls) - 1
      <4>1. Len(calls') # 0
        BY <2>2, <1>7, SeqFacts
      <4> QED BY <4>1, <1>7
    <3>2. calls[1].index = 0 /\ stack # <<>> /\ stack[1] = 0
      BY <1>g, <1>i DEF CallsOnStack
    <3>3. 1 \in 1 .. Len(stack)
      BY <3>2, <1>c, SeqFacts
    <3>4. 1 \in 1 .. p - 1
      BY <3>1, <3>2, <3>3, <1>k
    <3>5. stack' # <<>>
      <4>1. Len(stack') # 0 /\ stack' \in Seq(Blocks)
        BY <3>4, <1>1
      <4> QED BY <4>1, SeqFacts
    <3>6. stack'[1] = stack[1] /\ calls'[1] = calls[1]
      BY <3>1, <3>4, <1>s, <1>7
    <3> QED BY <3>2, <3>5, <3>6
  <2>3. ASSUME NEW k \in 1 .. Len(calls) - 1
        PROVE  /\ \E q \in 1 .. p - 1 : stack'[q] = calls'[k].index
               /\ calls'[k].out_set \subseteq cfg[calls'[k].index]
    <3>1. k \in 1 .. Len(calls) /\ calls'[k] = calls[k]
      BY <1>c, <1>7, Zenon
    <3>2. PICK q \in 1 .. Len(stack) : stack[q] = calls[k].index
      BY <3>1, <1>i DEF CallsOnStack
    <3>3. q \in 1 .. p - 1 /\ stack'[q] = stack[q]
      BY <3>2, <1>k, <1>s
    <3>4. calls[k].out_set \subseteq cfg[calls[k].index]
      BY <3>1, <1>i DEF CallsOnStack
    <3> QED BY <3>1, <3>2, <3>3, <3>4
  <2>4. ASSUME NEW k \in 1 .. Len(calls) - 1, NEW l \in 1 .. Len(calls) - 1,
               NEW m \in 1 .. p - 1, NEW q \in 1 .. p - 1,
               k < l, stack'[m] = calls'[k].index, stack'[q] = calls'[l].index
        PROVE  m < q
    <3>1. k \in 1 .. Len(calls) /\ l \in 1 .. Len(calls) /\ m \in 1 .. Len(stack) /\ q \in 1 .. Len(stack)
      BY <1>c
    <3>2. stack[m] = calls[k].index /\ stack[q] = calls[l].index
      BY <2>4, <1>s, <1>7, Zenon
    <3> QED BY <2>4, <3>1, <3>2, <1>i, Zenon DEF CallsOnStack
  <2>5. Len(calls') = Len(calls) - 1 /\ Len(stack') = p - 1 /\ cfg' = cfg
    BY <1>7, <1>s, <1>g
  <2>6. \A k \in 1 .. Len(calls') :
          /\ \E q \in 1 .. Len(stack') : stack'[q] = calls'[k].index
          /\ calls'[k].out_set \subseteq cfg'[calls'[k].index]
    BY <2>3, <2>5, Zenon
  <2>7. \A k, l \in 1 .. Len(calls') : \A m, q \in 1 .. Len(stack') :
          k < l /\ stack'[m] = calls'[k].index /\ stack'[q] = calls'[l].index => m < q
    BY <2>4, <2>5, Zenon
  <2> QED BY <2>1, <2>2, <2>6, <2>7, Zenon DEF CallsOnStack
<1>12. Parents'
  <2>1. ASSUME NEW k \in 1 .. Len(calls) - 1, NEW m \in 1 .. p - 1, NEW q \in 1 .. p - 1,
               stack'[m] = calls'[k].index, m < q
        PROVE  \E j \in m .. q - 1 : stack'[q] \in cfg[stack'[j]]
    <3>1. k \in 1 .. Len(calls) /\ m \in 1 .. Len(stack) /\ q \in 1 .. Len(stack)
      BY <1>c
    <3>2. stack[m] = calls[k].index /\ stack'[q] = stack[q]
      BY <2>1, <1>s, <1>7, Zenon
    <3>3. PICK j \in m .. q - 1 : stack[q] \in cfg[stack[j]]
      BY <2>1, <3>1, <3>2, <1>i DEF Parents
    <3>4. j \in 1 .. p - 1
      OBVIOUS
    <3> QED BY <3>2, <3>3, <3>4, <1>s, Zenon
  <2>2. Len(calls') = Len(calls) - 1 /\ Len(stack') = p - 1 /\ cfg' = cfg
    BY <1>7, <1>s, <1>g
  <2> QED BY <2>1, <2>2, Zenon DEF Parents
<1>13. ContractionIsExact'
  <2>1. ASSUME NEW r \in Roots
        PROVE  blocks'[r].next = (UNION {cfg[b] : b \in Component(r)'}) \ Component(r)'
    <3>1. r # root /\ r \in Blocks
      BY <1>3 DEF Roots, Finished
    <3> QED BY <3>1, <1>3, <1>4, <1>i DEF ContractionIsExact
  <2>2. blocks'[root].next = (UNION {cfg[b] : b \in Component(root)'}) \ Component(root)'
    BY <1>3, <1>4
  <2> QED BY <2>1, <2>2, <1>3, <1>g DEF ContractionIsExact
<1>14. SubBlocksInOrder'
  <2>1. ASSUME NEW r \in Roots PROVE r # root /\ blocks'[r] = blocks[r] /\ Component(r)' = Component(r)
    BY <1>3, <1>4 DEF Roots, Finished
  <2>2. blocks'[root].scc_sub_blocks = subs
    BY <1>1, <1>4, ConcatEmpty
  <2>3. Range(subs) = Popped(p) \ {root}
    BY <1>1
  <2>u. Len(subs) = Len(stack) - p /\ \A i \in 1 .. Len(stack) - p : subs[i] = stack[p + i]
    BY <1>1
  <2>4. IsInjective(subs)
    <3>1. ASSUME NEW i \in 1 .. Len(subs), NEW j \in 1 .. Len(subs), subs[i] = subs[j] PROVE i = j
      <4>1. p + i \in 1 .. Len(stack) /\ p + j \in 1 .. Len(stack)
        BY <2>u, <1>c
      <4>2. stack[p + i] = stack[p + j]
        BY <2>u, <3>1
      <4>3. p + i = p + j
        BY <4>1, <4>2, <1>i DEF StackOnce
      <4> QED BY <4>3
    <3>2. subs \in Seq(Blocks)
      BY <1>1
    <3>3. DOMAIN subs = 1 .. Len(subs)
      BY <3>2
    <3> QED BY <3>1, <3>3, Zenon DEF IsInjective
  <2>5. ASSUME NEW k \in DOMAIN subs
        PROVE  \E m \in {root} \cup Range(SubSeq(subs, 1, k - 1)) : subs[k] \in cfg[m]
    <3>0. subs \in Seq(Blocks)
      BY <1>1
    <3>1. k \in 1 .. Len(subs)
      BY <3>0
    <3>2. p + k \in 1 .. Len(stack) /\ subs[k] = stack[p + k] /\ p < p + k
      BY <3>1, <2>u, <1>c
    <3>3. Len(calls) \in 1 .. Len(calls) /\ stack[p] = calls[Len(calls)].index
      BY <1>r, <1>1, <1>7 DEF Top
    <3>4. PICK j \in p .. (p + k) - 1 : stack[p + k] \in cfg[stack[j]]
      BY <3>2, <3>3, <1>i, Zenon DEF Parents
    <3>5. CASE j = p
      BY <3>2, <3>4, <3>5, <1>1
    <3>6. CASE j # p
      <4>1. j - p \in 1 .. k - 1 /\ j - p \in 1 .. Len(stack) - p /\ p + (j - p) = j
        BY <3>1, <3>6, <2>u, <1>c
      <4>2. subs[j - p] = stack[j]
        BY <4>1, <2>u, Zenon
      <4>3. k - 1 \in Nat /\ k - 1 <= Len(subs)
        BY <3>0, <3>1
      <4>4. /\ SubSeq(subs, 1, k - 1) \in Seq(Blocks) /\ Len(SubSeq(subs, 1, k - 1)) = k - 1
            /\ \A i \in 1 .. k - 1 : SubSeq(subs, 1, k - 1)[i] = subs[i]
        BY <3>0, <4>3, PrefixFacts
      <4>5. stack[j] \in Range(SubSeq(subs, 1, k - 1))
        BY <4>1, <4>2, <4>4, SeqFacts, Zenon
      <4> QED BY <4>5, <3>2, <3>4
    <3> QED BY <3>5, <3>6
  <2>6. /\ Range(blocks'[root].scc_sub_blocks) = Component(root)' \ {root}
        /\ IsInjective(blocks'[root].scc_sub_blocks)
        /\ \A k \in DOMAIN blocks'[root].scc_sub_blocks :
             \E m \in {root} \cup Range(SubSeq(blocks'[root].scc_sub_blocks, 1, k - 1)) :
               blocks'[root].scc_sub_blocks[k] \in cfg[m]
    BY <2>2, <2>3, <2>4, <2>5, <1>3, Zenon
  <2>7. ASSUME NEW r \in Roots'
        PROVE  /\ Range(blocks'[r].scc_sub_blocks) = Component(r)' \ {r}
               /\ IsInjective(blocks'[r].scc_sub_blocks)
               /\ \A k \in DOMAIN blocks'[r].scc_sub_blocks :
                    \E m \in {r} \cup Range(SubSeq(blocks'[r].scc_sub_blocks, 1, k - 1)) :
                      blocks'[r].scc_sub_blocks[k] \in cfg[m]
    <3>1. CASE r = root
      BY <3>1, <2>6, Zenon
    <3>2. CASE r \in Roots
      BY <3>2, <2>1, <1>i, Zenon DEF SubBlocksInOrder
    <3> QED BY <3>1, <3>2, <1>3
  <2> QED BY <2>7, <1>g, Zenon DEF SubBlocksInOrder
<1> QED BY <1>6, <1>8, <1>9, <1>10, <1>11, <1>12, <1>13, <1>14 DEF IInv

-----------------------------------------------------------------------------
\* tarjan is entered by solve_scc and along the tree edges, and for a block that
\* has not been seen.
LEMMA Entrances ==
  ASSUME IInv, UNCHANGED cfg
  PROVE  /\ solve_scc => 0 \in Blocks /\ Entering(0, <<>>)
         /\ \A target \in Blocks : tree_edge(target) => Entering(target, Visited(target))
<1>1. ASSUME solve_scc PROVE 0 \in Blocks /\ Entering(0, <<>>)
  <2>1. time = 0 /\ 0 \in Blocks /\ Enter(0, <<>>)
    BY <1>1 DEF solve_scc, IInv, Types
  <2>2. calls = <<>> /\ ~ Seen(0)
    BY <2>1 DEF IInv, Numbers, Seen
  <2>3. stack = <<>>
    BY <2>2 DEF IInv, CallsOnStack
  <2>4. Entering(0, <<>>)
    BY <2>1, <2>2, <2>3 DEF Entering
  <2> QED BY <2>1, <2>4
<1>2. ASSUME NEW target \in Blocks, tree_edge(target)
      PROVE  Entering(target, Visited(target))
  <2>1. /\ calls # <<>> /\ target \in Top.out_set /\ dfn[target] = 0
        /\ Enter(target, Visited(target))
    BY <1>2 DEF tree_edge
  <2>2. time # 0
    BY <2>1 DEF IInv, Numbers
  <2>3. target # 0
    <3>1. calls \in Seq(Frames) /\ cfg \in [Blocks -> SUBSET (Blocks \ {0})] /\ stack \in Seq(Blocks)
      BY DEF IInv, Types
    <3>2. Len(calls) \in 1 .. Len(calls)
      BY <2>1, <3>1, SeqFacts
    <3>3. calls[Len(calls)] \in Frames /\ calls[Len(calls)].out_set \subseteq cfg[calls[Len(calls)].index]
      BY <3>1, <3>2, SeqFacts DEF IInv, CallsOnStack
    <3>4. \A x \in Frames : x.index \in Blocks
      BY DEF Frames
    <3> QED BY <2>1, <3>1, <3>3, <3>4 DEF Top
  <2> QED BY <2>1, <2>2, <2>3 DEF Entering, Seen
<1> QED BY <1>1, <1>2

\* Every step of solve_scc keeps the invariant.
LEMMA StepHolds ==
  ASSUME IInv, [SccStep]_scc_vars
  PROVE  IInv'
<1>1. CASE UNCHANGED scc_vars
  <2>1. /\ UNCHANGED <<cfg, blocks, scc_indices, dfn, time, stack>>
        /\ low' = low /\ calls' = calls
    BY <1>1 DEF scc_vars
  <2>2. Blocks' = Blocks /\ Frames' = Frames /\ \A b : Seen(b)' <=> Seen(b)
    BY <2>1 DEF Blocks, Frames, Seen
  <2>3. Types'
    BY <2>1, <2>2 DEF IInv, Types
  <2>4. Numbers'
    BY <2>1, <2>2 DEF IInv, Numbers
  <2>5. CallsOnStack' /\ Parents'
    BY <2>1 DEF IInv, CallsOnStack, Parents
  <2>6. Explored'
    BY <2>1, <2>2 DEF IInv, Explored
  <2> QED BY <2>1, <2>3, <2>4, <2>5, <2>6, SameStack DEF IInv
<1>2. CASE solve_scc /\ UNCHANGED cfg
  BY <1>2, Entrances, EnterStep
<1>3. ASSUME NEW target \in Blocks, tree_edge(target), UNCHANGED cfg
      PROVE  IInv'
  BY <1>3, Entrances, EnterStep
<1>4. ASSUME NEW target \in Blocks, other_edge(target), UNCHANGED cfg
      PROVE  IInv'
  BY <1>4, OtherStep
<1>5. CASE return_inner /\ UNCHANGED cfg
  BY <1>5, InnerStep
<1>6. CASE generate_scc /\ UNCHANGED cfg
  BY <1>6, GenerateStep
<1> QED
  BY <1>1, <1>2, <1>3, <1>4, <1>5, <1>6 DEF SccStep, SccActions

\* The stack of tarjan has its discipline throughout solve_scc.
THEOREM StackDiscipline ==
  ASSUME NEW CONSTANT bs, MirBody(bs)
  PROVE  SccSpec(bs) => []IInv
<1>1. SccInit(bs) => IInv
  BY InitHolds
<1>2. IInv /\ [SccStep]_scc_vars => IInv'
  BY StepHolds
<1> QED
  BY <1>1, <1>2, PTL DEF SccSpec

\* For the blocks of every MIR body, in every order of the hash sets, the root of
\* a component leads where its blocks led outside it, and lists the others once,
\* each after a block that leads to it.
THEOREM FlowIsKept ==
  ASSUME NEW CONSTANT bs, MirBody(bs)
  PROVE  SccSpec(bs) => []ContractionKeepsFlow
<1>1. IInv => ContractionKeepsFlow
  BY DEF IInv, ContractionKeepsFlow
<1> QED
  BY <1>1, StackDiscipline, PTL

\* When solve_scc returns, no block is pending: the start block is in a component
\* and so is every successor of a block in a component.
NothingPending ==
  SccDone => /\ stack = <<>> /\ 0 \in Finished
             /\ \A b \in Finished : cfg[b] \subseteq Finished

\* tarjan(0) is enough to assign every block that control flow can reach: the
\* stack is empty when it returns, and no edge leaves the blocks it has assigned.
THEOREM AllAssigned ==
  ASSUME NEW CONSTANT bs, MirBody(bs)
  PROVE  SccSpec(bs) => []NothingPending
<1>1. IInv => NothingPending
  <2> SUFFICES ASSUME IInv, SccDone
               PROVE  /\ stack = <<>> /\ 0 \in Finished
                      /\ \A b \in Finished : cfg[b] \subseteq Finished
    BY DEF NothingPending
  <2>1. calls = <<>> /\ time # 0 /\ stack = <<>>
    BY DEF SccDone, IInv, CallsOnStack
  <2>2. Visiting = {}
    BY <2>1 DEF Visiting, Range
  <2>3. \A b : b \in Finished <=> b \in Blocks /\ Seen(b)
    BY <2>2 DEF Finished, Seen
  <2>4. 0 \in Blocks /\ \A b \in Blocks : cfg[b] \subseteq Blocks
    BY DEF IInv, Types
  <2>5. ~ \E k \in 1 .. Len(calls) : TRUE
    BY <2>1
  <2>6. \A b \in Blocks : Seen(b) => \A c \in cfg[b] : Seen(c)
    BY <2>5 DEF IInv, Explored
  <2>7. Seen(0)
    BY <2>1 DEF Seen
  <2> QED BY <2>1, <2>3, <2>4, <2>6, <2>7
<1> QED
  BY <1>1, StackDiscipline, PTL

-----------------------------------------------------------------------------
\* What solve_scc leaves as it was: the successors of a block that is merged into
\* a root, and the switches, which lead to successors.
SwitchKept(b) ==
  /\ scc_indices[b] # b => blocks[b].next = cfg[b]
  /\ "switch_stmts" \in DOMAIN blocks[b]
  /\ blocks[b].switch_stmts # <<>> =>
       /\ blocks[b].switch_stmts[1].targets \in Seq(Int \X cfg[b])
       /\ blocks[b].switch_stmts[1].otherwise \in cfg[b]

\* child_scc has a component by its root, with the root as it was.
ChildKept(r) ==
  /\ r \in Roots /\ child_scc[r].scc_block_set \subseteq Component(r)
  /\ child_scc[r].init_block.next = cfg[r]
  /\ child_scc[r].init_block.switch_stmts = blocks[r].switch_stmts
  /\ blocks[r].switch_stmts # <<>> /\ child_scc[r].switch = blocks[r].switch_stmts[1]

EdgesKept ==
  /\ \A b \in Blocks : SwitchKept(b)
  /\ \A r \in DOMAIN child_scc : ChildKept(r)

\* SafeDropGraph::new makes switches that lead to successors.
LEMMA EdgesInit ==
  ASSUME NEW bs, MirBody(bs), SwitchesLead(bs), SccInit(bs)
  PROVE  EdgesKept
<1>1. /\ blocks = bs /\ Blocks = DOMAIN bs /\ child_scc = <<>>
      /\ \A b \in Blocks : cfg[b] = bs[b].next /\ scc_indices[b] = b
  BY DEF SccInit, Blocks
<1>2. ASSUME NEW b \in Blocks PROVE SwitchKept(b)
  BY <1>1, Zenon DEF SwitchKept, SwitchesLead
<1>3. DOMAIN child_scc = {}
  BY <1>1
<1> QED BY <1>2, <1>3 DEF EdgesKept

\* A step that contracts nothing.
LEMMA EdgesSame ==
  ASSUME EdgesKept, blocks' = blocks, scc_indices' = scc_indices, child_scc' = child_scc,
         cfg' = cfg, Roots' = Roots, \A r : Component(r)' = Component(r)
  PROVE  EdgesKept'
<1>1. Blocks' = Blocks
  BY DEF Blocks
<1>2. \A b : SwitchKept(b)' <=> SwitchKept(b)
  BY DEF SwitchKept
<1>3. \A r : ChildKept(r)' <=> ChildKept(r)
  BY DEF ChildKept
<1> QED BY <1>1, <1>2, <1>3 DEF EdgesKept

\* generate_scc changes the successors of the root only, and keeps them in
\* child_scc.
LEMMA EdgesGenerate ==
  ASSUME IInv, EdgesKept, generate_scc, UNCHANGED cfg
  PROVE  EdgesKept'
<1>r. PICK root : root = Top.index
  OBVIOUS
<1>u. PICK subs : subs = SubSeq(stack, RootAt(root) + 1, Len(stack))
  BY Zenon
<1>g. /\ calls # <<>> /\ Return(root) /\ cfg' = cfg
      /\ stack' = Rest(root)
      /\ scc_indices' = [b \in Blocks |-> IF b \in {root} \cup Range(subs) THEN root ELSE scc_indices[b]]
      /\ blocks' = Contracted(root, subs)
      /\ child_scc' = IF IsChild(blocks, root, subs)
                      THEN [r \in DOMAIN child_scc \cup {root} |->
                              IF r = root THEN Child(blocks, root, subs) ELSE child_scc[r]]
                      ELSE child_scc
  BY <1>r, <1>u, Zenon DEF generate_scc
<1>0. Popping(root, subs)
  BY <1>r, <1>u, <1>g DEF Popping
<1>p. PICK p \in 1 .. Len(stack) :
           /\ stack[p] = root /\ root \in Blocks
           /\ {root} \cup Range(subs) = Popped(p) /\ root \notin Range(subs)
           /\ Visiting' = Visiting \ Popped(p) /\ Popped(p) \subseteq Visiting
  BY <1>0, <1>g, PopFacts
<1>m. Merging(root, subs, p)
  BY <1>p, <1>g DEF Merging, Return
<1>M. PICK M : M = Popped(p)
  OBVIOUS
<1>1. /\ Blocks' = Blocks /\ root \in M /\ M \subseteq Blocks
      /\ \A b \in M : b \notin Finished
      /\ Roots' = Roots \cup {root} /\ root \notin Roots
      /\ Component(root)' = M
      /\ \A r \in Roots : Component(r)' = Component(r)
      /\ \A b \in Blocks : b # root => blocks'[b] = blocks[b]
  BY <1>m, <1>M, MergeFacts
<1>2. /\ Range(subs) \subseteq M
      /\ \A b \in Blocks : scc_indices'[b] = IF b \in M THEN root ELSE scc_indices[b]
  BY <1>p, <1>g, <1>M
<1>3. \A b \in M : blocks[b].next = cfg[b]
  BY <1>1 DEF IInv, Untouched
<1>4. /\ "switch_stmts" \in DOMAIN blocks'[root]
      /\ blocks'[root].switch_stmts = blocks[root].switch_stmts
  <2>1. /\ blocks = [b \in Blocks |-> blocks[b]]
        /\ "switch_stmts" \in DOMAIN blocks[root]
    BY <1>1, Zenon DEF IInv, Types, EdgesKept, SwitchKept
  <2>2. PICK N, S : blocks' = [blocks EXCEPT ![root].next = N, ![root].scc_sub_blocks = S]
    BY <1>g, Zenon DEF Contracted
  <2>3. blocks'[root] = [[blocks[root] EXCEPT !.next = N] EXCEPT !.scc_sub_blocks = S]
    BY <2>1, <2>2, <1>1, Zenon
  <2> QED BY <2>1, <2>3
<1>5. ASSUME NEW b \in Blocks PROVE SwitchKept(b)'
  <2>1. SwitchKept(b) /\ (b = root \/ blocks'[b] = blocks[b])
    BY <1>1 DEF EdgesKept
  <2>2. scc_indices'[b] # b => blocks'[b].next = cfg[b]
    <3>1. CASE b \in M
      BY <3>1, <1>1, <1>2, <1>3
    <3>2. CASE b \notin M
      BY <3>2, <2>1, <1>1, <1>2 DEF SwitchKept
    <3> QED BY <3>1, <3>2
  <2>3. /\ "switch_stmts" \in DOMAIN blocks'[b]
        /\ blocks'[b].switch_stmts = blocks[b].switch_stmts
    BY <2>1, <1>4 DEF SwitchKept
  <2> QED BY <2>1, <2>2, <2>3, <1>g DEF SwitchKept
<1>6. ASSUME NEW r \in DOMAIN child_scc, child_scc'[r] = child_scc[r] PROVE ChildKept(r)'
  <2>1. ChildKept(r) /\ r \in Roots
    BY DEF EdgesKept, ChildKept
  <2>2. r # root /\ r \in Blocks
    BY <2>1, <1>1 DEF Roots, Finished
  <2> QED BY <2>1, <2>2, <1>1, <1>6, <1>g DEF ChildKept
<1>7. ASSUME IsChild(blocks, root, subs), child_scc'[root] = Child(blocks, root, subs)
      PROVE  ChildKept(root)'
  <2>1. blocks[root].switch_stmts # <<>>
    BY <1>7 DEF IsChild, Switching
  <2>2. /\ child_scc'[root].init_block = blocks[root]
        /\ child_scc'[root].switch = blocks[root].switch_stmts[1]
        /\ child_scc'[root].scc_block_set = Range(subs)
    BY <1>7 DEF Child
  <2> QED BY <2>1, <2>2, <1>1, <1>2, <1>3, <1>4, <1>g DEF ChildKept
<1>8. ASSUME NEW r \in DOMAIN child_scc' PROVE ChildKept(r)'
  <2>1. \A q \in DOMAIN child_scc : q # root
    BY <1>1 DEF EdgesKept, ChildKept
  <2>2. CASE IsChild(blocks, root, subs)
    <3>1. /\ r \in DOMAIN child_scc \cup {root}
          /\ child_scc'[r] = IF r = root THEN Child(blocks, root, subs) ELSE child_scc[r]
      BY <2>2, <1>g, <1>8
    <3> QED BY <3>1, <2>2, <1>6, <1>7
  <2>3. CASE ~ IsChild(blocks, root, subs)
    BY <2>3, <1>g, <1>6, <1>8
  <2> QED BY <2>2, <2>3
<1> QED BY <1>1, <1>5, <1>8 DEF EdgesKept

\* Every step of tarjan keeps the edges that the walk reads.
LEMMA EdgesStep ==
  ASSUME IInv, EdgesKept, [SccStep]_scc_vars
  PROVE  EdgesKept'
<1>1. ASSUME UNCHANGED <<cfg, blocks, scc_indices, dfn, time, stack, child_scc>> PROVE EdgesKept'
  BY <1>1, SameStack, EdgesSame
<1>2. ASSUME NEW index \in Blocks, NEW cs, Entering(index, cs) PROVE EdgesKept'
  <2>1. blocks' = blocks /\ scc_indices' = scc_indices /\ child_scc' = child_scc /\ cfg' = cfg
    BY <1>2 DEF Entering, Enter
  <2>2. Roots' = Roots /\ \A r : Component(r)' = Component(r)
    BY <1>2, EnterFacts
  <2> QED BY <2>1, <2>2, EdgesSame
<1>3. CASE UNCHANGED scc_vars
  BY <1>1, <1>3 DEF scc_vars
<1>4. CASE solve_scc /\ UNCHANGED cfg
  BY <1>4, <1>2, Entrances
<1>5. ASSUME NEW target \in Blocks, tree_edge(target), UNCHANGED cfg PROVE EdgesKept'
  BY <1>5, <1>2, Entrances
<1>6. ASSUME NEW target \in Blocks, other_edge(target), UNCHANGED cfg PROVE EdgesKept'
  BY <1>6, <1>1 DEF other_edge
<1>7. CASE return_inner /\ UNCHANGED cfg
  BY <1>7, <1>1 DEF return_inner, Return
<1>8. CASE generate_scc /\ UNCHANGED cfg
  BY <1>8, EdgesGenerate
<1> QED BY <1>3, <1>4, <1>5, <1>6, <1>7, <1>8 DEF SccStep, SccActions

\* The blocks of a body stay its blocks.
LEMMA BlocksStay ==
  ASSUME [SccStep]_scc_vars
  PROVE  Blocks' = Blocks
BY Zenon DEF SccStep, SccActions, scc_vars, solve_scc, tree_edge, Enter, other_edge, return_inner,
       generate_scc, Contracted, Blocks

=============================================================================
