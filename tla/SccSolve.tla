------------------------------ MODULE SccSolve ------------------------------
(***************************************************************************)
(* solve_scc: Tarjan's algorithm on the control-flow graph, contracting    *)
(* every strongly connected component into its root block. The recursion   *)
(* of tarjan is a stack of activations; the successors of a block are a    *)
(* hash set, so each activation visits its out_set in any order.           *)
(***************************************************************************)
EXTENDS SccContract

VARIABLES
  cfg,          \* history: the successors of each block in the MIR body
  blocks,       \* BlockNode of each block; next and scc_sub_blocks change
  scc_indices,  \* the root of the component of each block
  child_scc,    \* components that are analysed once per switch target
  dfn, low, time,
  stack,        \* blocks visited and in no component yet (instack: its range)
  calls         \* activations of tarjan: [index, out_set], innermost last

scc_vars == <<cfg, blocks, scc_indices, child_scc, dfn, low, time, stack, calls>>

Blocks == DOMAIN blocks

\* The blocks that SafeDropGraph::new makes of a MIR body: the successors are
\* blocks, none is the start block, and nothing has been contracted yet.
MirBody(bs) ==
  /\ bs = [b \in DOMAIN bs |-> bs[b]] /\ 0 \in DOMAIN bs
  /\ \A b \in DOMAIN bs :
       /\ {"next", "scc_sub_blocks"} \subseteq DOMAIN bs[b]
       /\ bs[b].next \subseteq (DOMAIN bs) \ {0}
       /\ bs[b].scc_sub_blocks = <<>>

\* A switch leads to successors of its block.
SwitchesLead(bs) ==
  \A b \in DOMAIN bs :
    /\ "switch_stmts" \in DOMAIN bs[b]
    /\ bs[b].switch_stmts # <<>> => /\ bs[b].switch_stmts[1].targets \in Seq(Int \X bs[b].next)
                                   /\ bs[b].switch_stmts[1].otherwise \in bs[b].next

SccInit(bs) ==
  /\ blocks = bs
  /\ cfg = [b \in DOMAIN bs |-> bs[b].next]
  /\ scc_indices = [b \in DOMAIN bs |-> b]
  /\ child_scc = <<>>
  /\ dfn = [b \in DOMAIN bs |-> 0]
  /\ low = [b \in DOMAIN bs |-> 0]
  /\ time = 0
  /\ stack = <<>>
  /\ calls = <<>>

Top == calls[Len(calls)]

\* The entry of tarjan(index), called by an activation in frames.
Enter(index, frames) ==
  /\ dfn' = [dfn EXCEPT ![index] = time]
  /\ low' = [low EXCEPT ![index] = time]
  /\ time' = time + 1
  /\ stack' = Append(stack, index)
  /\ calls' = Append(frames, [index |-> index, out_set |-> blocks[index].next])
  /\ UNCHANGED <<blocks, scc_indices, child_scc>>

solve_scc == time = 0 /\ Enter(0, <<>>)

\* MUTANT of Visited: the loop does not move on.
Visited_again(target) == calls

\* The activations after the innermost one takes target out of its loop.
Visited(target) == [calls EXCEPT ![Len(calls)].out_set = @ \ {target}]

tree_edge(target) ==
  /\ calls # <<>> /\ target \in Top.out_set
  /\ dfn[target] = 0
  /\ Enter(target, Visited(target))

\* MUTANT of other_edge: the test for instack is missing.
other_edge_cross(target) ==
  /\ calls # <<>> /\ target \in Top.out_set
  /\ dfn[target] # 0
  /\ low' = [low EXCEPT ![Top.index] = IF dfn[target] < @ THEN dfn[target] ELSE @]
  /\ calls' = Visited(target)
  /\ UNCHANGED <<blocks, scc_indices, child_scc, dfn, time, stack>>

other_edge(target) ==
  /\ calls # <<>> /\ target \in Top.out_set
  /\ dfn[target] # 0
  /\ low' = [low EXCEPT ![Top.index] =
               IF target \in Range(stack) /\ dfn[target] < @ THEN dfn[target] ELSE @]
  /\ calls' = Visited(target)
  /\ UNCHANGED <<blocks, scc_indices, child_scc, dfn, time, stack>>

\* The caller takes the smaller low after the call returns.
Return(index) ==
  LET frames == SubSeq(calls, 1, Len(calls) - 1)
      caller == frames[Len(frames)].index
  IN  /\ calls' = frames
      /\ low' = IF frames # <<>> /\ low[index] < low[caller]
                THEN [low EXCEPT ![caller] = low[index]] ELSE low
      /\ UNCHANGED <<dfn, time>>

return_inner ==
  /\ calls # <<>> /\ Top.out_set = {}
  /\ dfn[Top.index] # low[Top.index]
  /\ Return(Top.index)
  /\ UNCHANGED <<blocks, scc_indices, child_scc, stack>>

\* MUTANT of Contracted: edges inside the component stay.
Contracted_loops(root, subs) ==
  LET members == {root} \cup Range(subs)
      out == UNION {blocks[m].next : m \in members}
  IN  [blocks EXCEPT ![root].next = out, ![root].scc_sub_blocks = @ \o subs]

\* MUTANT of Contracted: the final reverse is missing.
Contracted_popped(root, subs) ==
  LET members == {root} \cup Range(subs)
      out == UNION {blocks[m].next : m \in members}
  IN  [blocks EXCEPT ![root].next = out \ members, ![root].scc_sub_blocks = @ \o [k \in DOMAIN subs |-> subs[Len(subs) + 1 - k]]]

\* The members of a component are popped, renamed to the root, and merged into
\* it; what leaves the component is what the root leads to.
Contracted(root, subs) ==
  LET members == {root} \cup Range(subs)
      out == UNION {blocks[m].next : m \in members}
  IN  [blocks EXCEPT ![root].next = out \ members, ![root].scc_sub_blocks = @ \o subs]

\* The position of the root on the stack; the members of its component are
\* popped from there on.
RootAt(root) == CHOOSE k \in DOMAIN stack : stack[k] = root

\* What the loop leaves on the stack.
Rest(root) == SubSeq(stack, 1, RootAt(root) - 1)

generate_scc ==
  /\ calls # <<>> /\ Top.out_set = {}
  /\ dfn[Top.index] = low[Top.index]
  /\ LET root == Top.index
         subs == SubSeq(stack, RootAt(root) + 1, Len(stack))
         members == {root} \cup Range(subs)
     IN  /\ stack' = Rest(root)
         /\ scc_indices' = [b \in Blocks |-> IF b \in members THEN root ELSE scc_indices[b]]
         /\ blocks' = Contracted(root, subs)
         /\ child_scc' =
              IF IsChild(blocks, root, subs)
              THEN [r \in DOMAIN child_scc \cup {root} |->
                      IF r = root THEN Child(blocks, root, subs) ELSE child_scc[r]]
              ELSE child_scc
         /\ Return(root)

SccActions ==
  \/ solve_scc
  \/ \E target \in Blocks : tree_edge(target) \/ other_edge(target)
  \/ return_inner
  \/ generate_scc

SccStep == SccActions /\ UNCHANGED cfg

SccDone == time # 0 /\ calls = <<>>

\* solve_scc on the blocks bs.
SccSpec(bs) == SccInit(bs) /\ [][SccStep]_scc_vars

-----------------------------------------------------------------------------

Visiting == Range(stack)

Finished == {b \in Blocks : (dfn[b] # 0 \/ (b = 0 /\ time # 0)) /\ b \notin Visiting}

Roots == {b \in Finished : scc_indices[b] = b}

Component(r) == {b \in Finished : scc_indices[b] = r}

\* The sets of blocks that no edge of the MIR body leaves.
ClosedSets == {S \in SUBSET Blocks : \A b \in S : cfg[b] \subseteq S}

\* What can be reached from each block along the edges of the MIR body: what is
\* in every closed set that has the successors of the block.
Reach ==
  LET closed == ClosedSets
  IN  [b \in Blocks |-> {c \in Blocks : \A S \in closed : cfg[b] \subseteq S => c \in S}]

SccTypeOK ==
  /\ cfg \in [Blocks -> SUBSET Blocks]
  /\ scc_indices \in [Blocks -> Blocks]
  /\ dfn \in [Blocks -> 0 .. time] /\ low \in [Blocks -> 0 .. time]
  /\ \A b \in Blocks : blocks[b].next \subseteq Blocks
  /\ \A k \in DOMAIN calls : calls[k].index \in Visiting /\ calls[k].out_set \subseteq Blocks

\* Two blocks that tarjan is finished with are given the same root exactly when
\* each can be reached from the other in the MIR body, whatever the order of
\* the hash sets; a wrong root merges branches or leaves a loop uncontracted.
ComponentsAreMutual ==
  LET reach == Reach
  IN  \A b, c \in Finished :
        scc_indices[b] = scc_indices[c] <=> b = c \/ (c \in reach[b] /\ b \in reach[c])

\* A finished root leads to exactly what its component leads to outside itself:
\* no loop is left for check to follow for ever, and no exit is lost.
ContractionIsExact ==
  \A r \in Roots :
    blocks[r].next = (UNION {cfg[b] : b \in Component(r)}) \ Component(r)

\* "To ensure a resonable order of blocks within one SCC": the sub blocks are
\* the rest of the component, each once, and each is listed after a block that
\* leads to it, so an effect is applied after one of its causes.
SubBlocksInOrder ==
  \A r \in Roots :
    LET subs == blocks[r].scc_sub_blocks
    IN  /\ Range(subs) = Component(r) \ {r}
        /\ IsInjective(subs)
        /\ \A k \in DOMAIN subs :
             \E p \in {r} \cup Range(SubSeq(subs, 1, k - 1)) : subs[k] \in cfg[p]

\* A contracted component leads where its blocks led, and applies them in order.
ContractionKeepsFlow == ContractionIsExact /\ SubBlocksInOrder

\* When solve_scc returns, exactly the blocks that control flow can reach have
\* been assigned to a component, and the stack of pending blocks is empty.
AllReachableSolved ==
  SccDone => stack = <<>> /\ Finished = {0} \cup Reach[0]

\* The components that tarjan finds are those of the MIR body, all of them.
ComponentsAreExact == SccTypeOK /\ ComponentsAreMutual /\ AllReachableSolved

\* The blocks in the order in which tarjan entered them.
Entries ==
  [t \in 1 .. time |-> IF t = 1 THEN 0 ELSE CHOOSE b \in Blocks \ {0} : dfn[b] = t - 1]

\* The blocks as they were before the contraction.
Uncontracted == [b \in Blocks |-> [blocks[b] EXCEPT !.next = cfg[b], !.scc_sub_blocks = <<>>]]

\* When solve_scc returns, the roots, the sub blocks in their order, the exits
\* and the child components are the ones of SccContract for the order in which
\* the blocks were entered, which is one of a depth-first search.
ResultIsClosedForm ==
  SccDone =>
    /\ Entries \in DfsOrders(cfg)
    /\ [blocks |-> blocks, scc_indices |-> scc_indices, child_scc |-> child_scc]
         = Solved(Uncontracted, Entries)

=============================================================================
