--------------------------- MODULE SafeDropProofs ---------------------------
(***************************************************************************)
(* Proofs about the walk of check for every set of bodies. The components  *)
(* that solve_scc has found are those of the control flow, so a walk that  *)
(* leaves a component by an exit cannot come back to it; and the walk is   *)
(* cut short exactly when its visits pass the limit.                       *)
(***************************************************************************)
EXTENDS SafeDrop, SccTarjanProofs

\* The targets of a switch.
TargetsOf(t) == {t.targets[i][2] : i \in 1 .. Len(t.targets)} \cup {t.otherwise}

\* The blocks that a frame will still call check for, or is at work on.
BlocksOf(f) ==
  IF f.k \in {"call", "child", "work"} THEN {f.bb}
  ELSE IF f.k = "split" THEN {f.todo[i].bb : i \in 1 .. Len(f.todo)}
  ELSE IF f.k = "seq" THEN {f.todo[i] : i \in 1 .. Len(f.todo)}
  ELSE {}

\* The fields of a frame that searches the blocks of a component.
WorkFields == {"k", "bb", "root", "todo", "target", "work_list", "work_set", "subs"}

\* A frame that is at work on a component knows its root, one of the targets of
\* its switch, and blocks of the component.
AtWork(f) ==
  /\ f.root = scc_indices[f.bb] /\ f.root \in DOMAIN child_scc
  /\ f.todo \in Seq(TargetsOf(child_scc[f.root].switch))
  /\ f.k = "work" =>
       /\ f = [x \in WorkFields |-> f[x]]
       /\ f.target \in TargetsOf(child_scc[f.root].switch)
       /\ f.work_list \in Seq(Component(f.root))
       /\ f.subs \in Seq(Component(f.root))

FrameOK(f) ==
  /\ BlocksOf(f) \subseteq Finished
  /\ f.k = "split" => f = [x \in {"k", "todo"} |-> f[x]] /\ IsSeq(f.todo)
  /\ f.k = "seq" => /\ f = [x \in {"k", "todo", "saved"} |-> f[x]]
                    /\ f.todo \in Seq(Finished)
  /\ f.k \in {"child", "work"} => AtWork(f)

\* The frames above the loop over a component's targets lead away from it.
WalkInv ==
  /\ IsSeq(frames)
  /\ frames # <<>> => SccDone
  /\ \A i \in 1 .. Len(frames) : FrameOK(frames[i])
  /\ \A i, j \in 1 .. Len(frames) : i < j /\ frames[i].k = "child" =>
       \A b \in BlocksOf(frames[j]) : ~ Reaches(b, frames[i].root)

\* The visits are counted whether or not the walk goes on.
LimitInv ==
  /\ body \in Bodies /\ visit_times \in Nat
  /\ visit_times <= VISIT_LIMIT => cut = FALSE
  /\ visit_times > VISIT_LIMIT => cut = TRUE
  /\ outcome # "none" => frames = <<>> /\ visit_times # 0
  /\ outcome = "reported" => visit_times <= VISIT_LIMIT
  /\ outcome = "over visited" => visit_times > VISIT_LIMIT

SafeDropInv ==
  IInv /\ TarjanInv /\ IsFiniteSet(Blocks) /\ EdgesKept /\ WalkInv /\ LimitInv

-----------------------------------------------------------------------------
\* What the steps need to know of numbers and of finite sets. SetFactsHold proves it
\* at the end, from theorems of the library that the steps do without.
SetFacts ==
  /\ \A T \in SUBSET Nat : T # {} => \E x \in T : \A y \in T : x <= y
  /\ \A B : IsFiniteSet(B) => \A S \in SUBSET B : Cardinality(S) \in Nat

\* Nothing that the frames speak of changes after solve_scc.
LEMMA FramesSame ==
  ASSUME UNCHANGED scc_vars
  PROVE  /\ Finished' = Finished /\ (SccDone' <=> SccDone)
         /\ \A b, c : Reaches(b, c)' <=> Reaches(b, c)
         /\ \A f : FrameOK(f)' <=> FrameOK(f)
<1>1. /\ cfg' = cfg /\ blocks' = blocks /\ scc_indices' = scc_indices /\ child_scc' = child_scc
      /\ dfn' = dfn /\ time' = time /\ stack' = stack /\ calls' = calls
  BY DEF scc_vars
<1>2. Blocks' = Blocks /\ Visiting' = Visiting
  BY <1>1 DEF Blocks, Visiting
<1>3. Finished' = Finished /\ (SccDone' <=> SccDone)
  BY <1>1, <1>2 DEF Finished, SccDone
<1>4. \A r : Component(r)' = Component(r)
  BY <1>1, <1>3 DEF Component
<1>5. \A f : AtWork(f)' <=> AtWork(f)
  BY <1>1, <1>4 DEF AtWork
<1>6. \A f : FrameOK(f)' <=> FrameOK(f)
  BY <1>3, <1>5 DEF FrameOK
<1> QED BY <1>1, <1>2, <1>3, <1>6, ReachesSame

\* The blocks of a frame can be reached from those of the last frame.
Led(f) ==
  FrameOK(f) /\ \A b \in BlocksOf(f) : \E a \in BlocksOf(Last(frames)) : Reaches(a, b)

\* What a step must show of the frames it puts in the place of the last one: they
\* are led to, and what is above the loop over a component's targets leads away
\* from the component.
Leading(fs) ==
  /\ \A j \in 1 .. Len(fs) : Led(fs[j])
  /\ \A i, j \in 1 .. Len(fs) : i < j /\ fs[i].k = "child" =>
       \A b \in BlocksOf(fs[j]) : ~ Reaches(b, fs[i].root)

\* The walk descends: what cannot reach a component goes on to where it cannot
\* reach it either.
LEMMA Descend ==
  ASSUME WalkInv, UNCHANGED scc_vars, frames # <<>>,
         NEW fs, IsSeq(fs), frames' = Front(frames) \o fs, Leading(fs)
  PROVE  WalkInv'
<1>1. PICK n : n = Len(frames)
  BY Zenon
<1>2. IsSeq(frames)
  BY DEF WalkInv
<1>3. /\ IsSeq(frames') /\ n \in Nat \ {0} /\ Len(fs) \in Nat /\ Len(frames') = n - 1 + Len(fs)
      /\ \A i \in 1 .. n - 1 : frames'[i] = frames[i]
      /\ \A i \in 1 .. Len(fs) : frames'[n - 1 + i] = fs[i]
      /\ Last(frames) = frames[n]
  <2>1. PICK g : g = Below(frames) \o fs
    BY Zenon
  <2>2. /\ IsSeq(g) /\ Len(frames) \in Nat \ {0} /\ Len(fs) \in Nat
        /\ Len(g) = Len(frames) - 1 + Len(fs)
        /\ \A i \in 1 .. Len(frames) - 1 : g[i] = frames[i]
        /\ \A i \in 1 .. Len(fs) : g[Len(frames) - 1 + i] = fs[i]
    <3>1. Replaced(g, frames, fs)
      BY <2>1, <1>2, ReplaceIs, Zenon
    <3> QED BY <3>1, Zenon DEF Replaced
  <2>3. frames' = g /\ Last(frames) = frames[Len(frames)]
    BY <2>1 DEF Front, Below, Last
  <2> QED BY <2>2, <2>3, <1>1, Zenon
<1>4. /\ SccDone' /\ \A f : FrameOK(f)' <=> FrameOK(f)
      /\ \A b, c : Reaches(b, c)' <=> Reaches(b, c)
  BY FramesSame DEF WalkInv
<1>5. /\ \A i \in 1 .. n : FrameOK(frames[i])
      /\ \A i, j \in 1 .. n : i < j /\ frames[i].k = "child" =>
           \A b \in BlocksOf(frames[j]) : ~ Reaches(b, frames[i].root)
  BY <1>1 DEF WalkInv
<1>6. \A j \in 1 .. n - 1 + Len(fs) : j \in 1 .. n - 1 \/ \E m \in 1 .. Len(fs) : j = n - 1 + m
  <2> SUFFICES ASSUME NEW j \in 1 .. n - 1 + Len(fs), j \notin 1 .. n - 1
               PROVE  \E m \in 1 .. Len(fs) : j = n - 1 + m
    OBVIOUS
  <2>1. j - n + 1 \in 1 .. Len(fs) /\ j = n - 1 + (j - n + 1)
    BY <1>3
  <2> QED BY <2>1
<1>7. \A i \in 1 .. n - 1 : i \in 1 .. n /\ n \in 1 .. n /\ i < n
  BY <1>3
<1>8. ASSUME NEW j \in 1 .. n - 1 + Len(fs) PROVE FrameOK(frames'[j])
  <2>1. CASE j \in 1 .. n - 1
    BY <2>1, <1>3, <1>5, <1>7
  <2>2. ASSUME NEW m \in 1 .. Len(fs), j = n - 1 + m PROVE FrameOK(frames'[j])
    BY <2>2, <1>3 DEF Leading, Led
  <2> QED BY <2>1, <2>2, <1>6, Zenon
<1>9. ASSUME NEW i \in 1 .. n - 1 + Len(fs), NEW j \in 1 .. n - 1 + Len(fs),
             i < j, frames'[i].k = "child", NEW b \in BlocksOf(frames'[j])
      PROVE  ~ Reaches(b, frames'[i].root)
  <2>1. CASE j \in 1 .. n - 1
    <3>1. i \in 1 .. n - 1
      BY <2>1, <1>9, <1>3
    <3> QED BY <2>1, <3>1, <1>9, <1>3, <1>5, <1>7, Zenon
  <2>2. ASSUME i \in 1 .. n - 1, NEW m \in 1 .. Len(fs), j = n - 1 + m
        PROVE  ~ Reaches(b, frames'[i].root)
    <3>1. PICK a \in BlocksOf(frames[n]) : Reaches(a, b)
      BY <2>2, <1>9, <1>3, Zenon DEF Leading, Led
    <3>2. ~ Reaches(a, frames[i].root) /\ frames'[i] = frames[i]
      BY <2>2, <3>1, <1>9, <1>3, <1>5, <1>7, Zenon
    <3> QED BY <3>1, <3>2, ReachesFacts
  <2>3. ASSUME NEW l \in 1 .. Len(fs), i = n - 1 + l, NEW m \in 1 .. Len(fs), j = n - 1 + m
        PROVE  ~ Reaches(b, frames'[i].root)
    <3>0. n \in Nat /\ Len(fs) \in Nat
      BY <1>3
    <3>1. l < m
      BY <2>3, <1>9, <3>0
    <3>2. frames'[i] = fs[l] /\ frames'[j] = fs[m]
      BY <2>3, <1>3, Zenon
    <3> QED BY <3>1, <3>2, <1>9, Zenon DEF Leading, Led
  <2> QED BY <2>1, <2>2, <2>3, <1>6, Zenon
<1>10. IsSeq(frames)'
  BY <1>3 DEF IsSeq
<1>11. \A i \in 1 .. Len(frames') : FrameOK(frames[i])'
  <2>1. \A f : FrameOK(f) => FrameOK(f)'
    BY <1>4
  <2> QED BY <2>1, <1>3, <1>8, Zenon DEF FrameOK, AtWork, BlocksOf
<1>12. \A i, j \in 1 .. Len(frames') : i < j /\ frames'[i].k = "child" =>
         \A b \in BlocksOf(frames[j])' : ~ Reaches(b, frames[i].root)'
  BY <1>3, <1>4, <1>9, Zenon
<1> QED BY <1>4, <1>10, <1>11, <1>12, Zenon DEF WalkInv

\* Nothing takes the place of the last frame, or one, two or three frames do.
LEMMA Put ==
  ASSUME WalkInv, UNCHANGED scc_vars, frames # <<>>
  PROVE  /\ frames' = Front(frames) => WalkInv'
         /\ \A f : frames' = Replace(<<f>>) /\ Led(f) => WalkInv'
         /\ \A f, g : /\ frames' = Replace(<<f, g>>) /\ Led(f) /\ Led(g)
                      /\ f.k = "child" => \A b \in BlocksOf(g) : ~ Reaches(b, f.root)
                      => WalkInv'
         /\ \A f, g, h : /\ frames' = Replace(<<f, g, h>>) /\ Led(f) /\ Led(g) /\ Led(h)
                         /\ f.k # "child" /\ g.k # "child"
                         => WalkInv'
<1>1. ASSUME frames' = Front(frames) PROVE WalkInv'
  <2>1. IsSeq(<<>>) /\ Leading(<<>>)
    BY DEF IsSeq, Leading
  <2>2. Front(frames) \o <<>> = Front(frames)
    <3>1. IsSeq(Front(frames))
      <4>1. frames \in Seq(Range(frames)) /\ Front(frames) = Below(frames)
        BY DEF WalkInv, IsSeq, Front, Below
      <4> QED BY <4>1, FrontFacts
    <3> QED BY <3>1, ConcatEmpty DEF IsSeq
  <2> QED BY <1>1, <2>1, <2>2, Descend, Zenon
<1>2. ASSUME NEW f, frames' = Replace(<<f>>), Led(f) PROVE WalkInv'
  <2>1. PICK fs : fs = <<f>>
    BY Zenon
  <2>2. IsSeq(fs) /\ Len(fs) = 1 /\ fs[1] = f
    BY <2>1 DEF IsSeq, Range
  <2>3. Leading(fs)
    BY <2>2, <1>2 DEF Leading
  <2> QED BY <1>2, <2>1, <2>2, <2>3, Descend, Zenon DEF Replace
<1>3. ASSUME NEW f, NEW g, frames' = Replace(<<f, g>>), Led(f), Led(g),
             f.k = "child" => \A b \in BlocksOf(g) : ~ Reaches(b, f.root)
      PROVE  WalkInv'
  <2>1. PICK fs : fs = <<f, g>>
    BY Zenon
  <2>2. IsSeq(fs) /\ Len(fs) = 2 /\ fs[1] = f /\ fs[2] = g
    BY <2>1 DEF IsSeq, Range
  <2>3. /\ \A j \in 1 .. Len(fs) : j = 1 \/ j = 2
        /\ \A i, j \in 1 .. Len(fs) : i < j => i = 1 /\ j = 2
    BY <2>2
  <2>4. Leading(fs)
    BY <2>2, <2>3, <1>3, Zenon DEF Leading
  <2> QED BY <1>3, <2>1, <2>2, <2>4, Descend, Zenon DEF Replace
<1>4. ASSUME NEW f, NEW g, NEW h, frames' = Replace(<<f, g, h>>), Led(f), Led(g), Led(h),
             f.k # "child", g.k # "child"
      PROVE  WalkInv'
  <2>1. PICK fs : fs = <<f, g, h>>
    BY Zenon
  <2>2. IsSeq(fs) /\ Len(fs) = 3 /\ fs[1] = f /\ fs[2] = g /\ fs[3] = h
    BY <2>1 DEF IsSeq, Range
  <2>3. /\ \A j \in 1 .. Len(fs) : j = 1 \/ j = 2 \/ j = 3
        /\ \A i, j \in 1 .. Len(fs) : i < j => i = 1 \/ i = 2
    BY <2>2
  <2>4. Leading(fs)
    BY <2>2, <2>3, <1>4, Zenon DEF Leading
  <2> QED BY <1>4, <2>1, <2>2, <2>4, Descend, Zenon DEF Replace
<1> QED BY <1>1, <1>2, <1>3, <1>4

-----------------------------------------------------------------------------
\* Where a walk can go: a block and its root reach each other, and the root leads
\* to what the component leads to.
LEMMA RootFacts ==
  ASSUME IInv, TarjanInv
  PROVE  /\ \A b \in Finished : /\ b \in Blocks /\ cfg[b] \subseteq Finished
                                /\ scc_indices[b] \in Roots /\ b \in Component(scc_indices[b])
         /\ \A r \in Roots : /\ r \in Finished /\ scc_indices[r] = r /\ r \in Component(r)
                             /\ \A b \in Component(r) :
                                  b \in Finished /\ Reaches(b, r) /\ Reaches(r, b)
                             /\ blocks[r].next \subseteq Finished
                             /\ \A n \in blocks[r].next : Reaches(r, n)
         /\ \A r \in Roots, n \in Finished : scc_indices[n] # r /\ Reaches(r, n) => ~ Reaches(n, r)
<1>1. /\ \A b \in Finished : b \in Blocks /\ scc_indices[b] \in Roots /\ cfg[b] \subseteq Finished
      /\ \A b, c \in Finished : scc_indices[b] = scc_indices[c] <=> Reaches(b, c) /\ Reaches(c, b)
      /\ \A r \in Roots : blocks[r].next = (UNION {cfg[b] : b \in Component(r)}) \ Component(r)
  BY DEF IInv, TarjanInv, Untouched, FinishedIsClosed, Mutual, ContractionIsExact, Finished
<1>2. /\ \A r \in Roots : r \in Finished /\ scc_indices[r] = r
      /\ \A r, b : b \in Component(r) <=> b \in Finished /\ scc_indices[b] = r
  BY DEF Roots, Component
<1>3. \A r \in Roots : \A b \in Component(r) : b \in Finished /\ Reaches(b, r) /\ Reaches(r, b)
  BY <1>1, <1>2
<1>4. ASSUME NEW r \in Roots, NEW n \in blocks[r].next PROVE n \in Finished /\ Reaches(r, n)
  <2>1. PICK b \in Component(r) : n \in cfg[b]
    BY <1>1
  <2> QED BY <2>1, <1>1, <1>3, ReachesFacts
<1> QED BY <1>1, <1>2, <1>3, <1>4

\* The order of a hash set is a sequence of its elements.
LEMMA OrderFacts ==
  ASSUME SetFacts, NEW S, NEW B, S \subseteq B, IsFiniteSet(B), NEW p \in SetToSeqs(S)
  PROVE  p \in Seq(S) /\ DOMAIN p = 1 .. Len(p) /\ \A i \in 1 .. Len(p) : p[i] \in S
<1>1. Cardinality(S) \in Nat
  BY DEF SetFacts
<1>2. p \in [1 .. Cardinality(S) -> S]
  BY DEF SetToSeqs
<1>3. PICK n \in Nat : p \in [1 .. n -> S]
  BY <1>1, <1>2
<1>4. p \in Seq(S)
  BY <1>3
<1> QED BY <1>4, SeqFacts

\* The target of a switch whose value is known is one of its targets.
LEMMA TargetFacts ==
  ASSUME SetFacts, NEW t, NEW C, t.targets \in Seq(Int \X C), t.otherwise \in C, NEW val
  PROVE  TargetOf(t, val) \in C /\ TargetsOf(t) \subseteq C
<1>1. /\ DOMAIN t.targets = 1 .. Len(t.targets) /\ Len(t.targets) \in Nat
      /\ \A i \in 1 .. Len(t.targets) : t.targets[i] \in Int \X C
  BY SeqFacts
<1>2. \A i \in 1 .. Len(t.targets) : t.targets[i][2] \in C
  BY <1>1
<1>3. TargetsOf(t) \subseteq C
  BY <1>2 DEF TargetsOf
<1> DEFINE hits == {k \in DOMAIN t.targets : t.targets[k][1] = val}
<1>4. ASSUME hits # {} PROVE Min(hits) \in 1 .. Len(t.targets)
  <2>1. hits \subseteq 1 .. Len(t.targets) /\ hits \subseteq Nat
    BY <1>1
  <2> HIDE DEF hits
  <2>2. \E x \in hits : \A y \in hits : x <= y
    BY <2>1, <1>4, Zenon DEF SetFacts
  <2>3. Min(hits) \in hits
    BY <2>2, Zenon DEF Min
  <2> QED BY <2>1, <2>3, Zenon
<1>5. TargetOf(t, val) \in C
  <2>1. CASE hits = {}
    BY <2>1 DEF TargetOf
  <2>2. CASE hits # {}
    BY <2>2, <1>2, <1>4, Zenon DEF TargetOf
  <2> QED BY <2>1, <2>2
<1> QED BY <1>3, <1>5

\* What a block of a component leads to, for one target, is what it leads to in
\* the body.
LEMMA TakenFacts ==
  ASSUME SetFacts, IInv, TarjanInv, EdgesKept, NEW r \in DOMAIN child_scc, NEW b \in Component(r),
         NEW target \in TargetsOf(child_scc[r].switch), NEW n \in TakenNext(r, b, target)
  PROVE  n \in Finished /\ Reaches(r, n)
<1>1. /\ r \in Roots /\ child_scc[r].init_block.next = cfg[r]
      /\ blocks[r].switch_stmts # <<>> /\ child_scc[r].switch = blocks[r].switch_stmts[1]
  BY DEF EdgesKept, ChildKept
<1>2. /\ b \in Finished /\ b \in Blocks /\ Reaches(r, b) /\ cfg[b] \subseteq Finished
      /\ r \in Finished /\ r \in Blocks /\ scc_indices[b] = r
  BY <1>1, RootFacts DEF Component
<1>3. SwitchKept(b) /\ SwitchKept(r)
  BY <1>2 DEF EdgesKept
<1>4. blocks[b].switch_stmts # <<>> => TargetsOf(blocks[b].switch_stmts[1]) \subseteq cfg[b]
  BY <1>3, TargetFacts, Zenon DEF SwitchKept
<1>5. n \in cfg[b]
  <2>1. CASE b = r
    BY <2>1, <1>1, <1>4 DEF TakenNext
  <2>2. CASE b # r
    <3>1. blocks[b].next = cfg[b]
      BY <2>2, <1>2, <1>3 DEF SwitchKept
    <3>2. CASE blocks[b].switch_stmts # <<>>
               /\ SameTargets(blocks[b].switch_stmts[1], child_scc[r].switch)
      <4>1. TargetsOf(child_scc[r].switch) = TargetsOf(blocks[b].switch_stmts[1])
        BY <3>2 DEF SameTargets, TargetsOf
      <4> QED BY <4>1, <2>2, <3>2, <1>4 DEF TakenNext
    <3> QED BY <3>1, <3>2, <2>2 DEF TakenNext
  <2> QED BY <2>1, <2>2
<1> QED BY <1>2, <1>5, ReachesFacts

\* check goes on with what can be reached from the root: with nothing, with one
\* call, or with the branches of a loop.
Goes(root, fs) ==
  \/ fs = <<>>
  \/ \E n \in Finished : Reaches(root, n) /\ fs = <<Pending(n)>>
  \/ \E todo : /\ IsSeq(todo) /\ fs = << [k |-> "split", todo |-> todo] >>
               /\ \A i \in 1 .. Len(todo) : todo[i].bb \in Finished /\ Reaches(root, todo[i].bb)

\* What Continue chooses is of this form.
LEMMA ContinueFacts ==
  ASSUME SetFacts, IInv, TarjanInv, EdgesKept, IsFiniteSet(Blocks), NEW root \in Roots,
         NEW h, NEW c \in Continue(h, root)
  PROVE  Goes(root, c.frames)
<1>1. /\ root \in Finished /\ root \in Blocks /\ blocks[root].next \subseteq Finished
      /\ blocks[root].next \subseteq Blocks /\ cfg[root] \subseteq Finished
      /\ \A n \in blocks[root].next : Reaches(root, n)
      /\ \A n \in cfg[root] : Reaches(root, n)
  BY RootFacts, ReachesFacts
<1>2. \A n \in blocks[root].next \cup cfg[root] : Goes(root, <<Pending(n)>>)
  BY <1>1, Zenon DEF Goes
<1>3. ASSUME NEW p \in SetToSeqs(blocks[root].next)
      PROVE  Goes(root, << [k |-> "split", todo |-> [i \in DOMAIN p |-> Plain(p[i])]] >>)
  <2>1. /\ DOMAIN p = 1 .. Len(p) /\ p \in Seq(blocks[root].next)
        /\ \A i \in 1 .. Len(p) : p[i] \in blocks[root].next
    BY <1>1, OrderFacts
  <2>2. PICK n \in Nat : n = Len(p)
    BY <2>1
  <2>3. PICK todo : todo = [i \in 1 .. n |-> Plain(p[i])]
    BY Zenon
  <2>4. todo \in Seq(Range(todo)) /\ Len(todo) = n
    BY <2>3 DEF Range
  <2>5. \A i \in 1 .. n : todo[i].bb = p[i]
    BY <2>3 DEF Plain
  <2>6. \A i \in 1 .. Len(todo) : todo[i].bb \in Finished /\ Reaches(root, todo[i].bb)
    BY <2>1, <2>2, <2>4, <2>5, <1>1
  <2>7. Goes(root, << [k |-> "split", todo |-> todo] >>)
    BY <2>4, <2>6, Zenon DEF Goes, IsSeq
  <2> QED BY <2>1, <2>2, <2>3, <2>7, Zenon
<1>4. PICK t : t = blocks[root].switch_stmts[1]
  OBVIOUS
<1>5. ASSUME blocks[root].switch_stmts # <<>>
      PROVE  /\ t.targets \in Seq(Int \X cfg[root]) /\ t.otherwise \in cfg[root]
             /\ \A v : TargetOf(t, v) \in cfg[root]
  <2>1. t.targets \in Seq(Int \X cfg[root]) /\ t.otherwise \in cfg[root]
    BY <1>1, <1>4, <1>5 DEF EdgesKept, SwitchKept
  <2> QED BY <2>1, TargetFacts, Zenon
<1>6. ASSUME blocks[root].switch_stmts # <<>>, NEW d
      PROVE  Goes(root, << [k |-> "split", todo |-> Conditional(t, d)] >>)
  <2>1. /\ DOMAIN t.targets = 1 .. Len(t.targets) /\ Len(t.targets) \in Nat
        /\ \A i \in 1 .. Len(t.targets) : t.targets[i] \in Int \X cfg[root]
    BY <1>5, <1>6, SeqFacts
  <2>2. PICK n \in Nat : n = Len(t.targets)
    BY <2>1
  <2>3. PICK s : s = [k \in 1 .. n |->
                        [bb |-> t.targets[k][2], cond |-> d :> t.targets[k][1], always |-> FALSE]]
    BY Zenon
  <2>4. PICK last : last = [bb |-> t.otherwise, cond |-> d :> DefaultPath, always |-> TRUE]
    BY Zenon
  <2>5. PICK S : S = {x \in Range(s) \cup {last} : x.bb \in cfg[root]}
    BY Zenon
  <2>6. s \in Seq(S)
    <3>1. \A i \in 1 .. n : s[i] \in Range(s) /\ s[i].bb = t.targets[i][2]
      BY <2>3, Zenon DEF Range
    <3>2. \A i \in 1 .. n : t.targets[i][2] \in cfg[root]
      BY <2>1, <2>2
    <3>3. \A i \in 1 .. n : s[i] \in S
      BY <3>1, <3>2, <2>5
    <3>4. DOMAIN s = 1 .. n /\ s = [i \in 1 .. n |-> s[i]]
      BY <2>3
    <3> QED BY <3>3, <3>4
  <2>7. <<last>> \in Seq(S)
    BY <1>5, <1>6, <2>4, <2>5
  <2>8. PICK todo : todo = s \o <<last>>
    BY Zenon
  <2>9. todo \in Seq(S)
    BY <2>6, <2>7, <2>8, ConcatFacts
  <2>10. \A i \in 1 .. Len(todo) : todo[i] \in S /\ todo[i] \in Range(todo)
    BY <2>9, SeqFacts DEF Range
  <2>11. IsSeq(todo)
    BY <2>9, <2>10, SeqFacts DEF IsSeq
  <2>12. \A i \in 1 .. Len(todo) : todo[i].bb \in Finished /\ Reaches(root, todo[i].bb)
    BY <2>5, <2>10, <1>1
  <2>13. Conditional(t, d) = todo
    BY <2>1, <2>2, <2>3, <2>4, <2>8 DEF Conditional
  <2> QED BY <2>11, <2>12, <2>13, Zenon DEF Goes
<1>7. ASSUME c \in Branch(h, root) PROVE Goes(root, c.frames)
  <2> DEFINE Split(todo) == << [k |-> "split", todo |-> todo] >>
  <2> DEFINE Orders == {[graph |-> h, frames |-> Split([k \in DOMAIN p |-> Plain(p[k])])]
                          : p \in SetToSeqs(blocks[root].next)}
  <2>1. \/ c \in Orders
        \/ blocks[root].switch_stmts # <<>> /\ \E g, v : c = [graph |-> g, frames |-> <<Pending(TargetOf(t, v))>>]
        \/ blocks[root].switch_stmts # <<>> /\ \E g, d : c = [graph |-> g, frames |-> Split(Conditional(t, d))]
        \/ \E g : \E o \in Orders : c = [o EXCEPT !.graph = g]
    BY <1>4, <1>7, Zenon DEF Branch
  <2>2. \A o \in Orders : Goes(root, o.frames) /\ \A g : [o EXCEPT !.graph = g].frames = o.frames
    BY <1>3
  <2>3. ASSUME blocks[root].switch_stmts # <<>>, NEW g, NEW v,
               c = [graph |-> g, frames |-> <<Pending(TargetOf(t, v))>>]
        PROVE  Goes(root, c.frames)
    BY <2>3, <1>2, <1>5
  <2>4. ASSUME blocks[root].switch_stmts # <<>>, NEW g, NEW d,
               c = [graph |-> g, frames |-> Split(Conditional(t, d))]
        PROVE  Goes(root, c.frames)
    BY <2>4, <1>6
  <2> HIDE DEF Orders, Split
  <2> QED BY <2>1, <2>2, <2>3, <2>4, Zenon
<1>8. CASE blocks[root].next = {}
  <2>1. c.frames = <<>>
    BY <1>8 DEF Continue
  <2> QED BY <2>1 DEF Goes
<1>9. CASE blocks[root].next # {} /\ Cardinality(blocks[root].next) = 1
  <2>1. \E n \in blocks[root].next : c.frames = <<Pending(n)>>
    BY <1>9 DEF Continue
  <2> QED BY <2>1, <1>2
<1>10. CASE blocks[root].next # {} /\ Cardinality(blocks[root].next) # 1
  BY <1>10, <1>7 DEF Continue
<1> QED BY <1>8, <1>9, <1>10

-----------------------------------------------------------------------------
\* The frame that a step of check works on, and the simplest frames.
LEMMA LastFacts ==
  ASSUME WalkInv
  PROVE  /\ frames # <<>> => SccDone /\ FrameOK(Last(frames))
         /\ \A b : BlocksOf(Pending(b)) = {b} /\ (b \in Finished => FrameOK(Pending(b)))
         /\ \A b \in Finished : b \in BlocksOf(Last(frames)) => Led(Pending(b))
         /\ \A s : Led([k |-> "restore", saved |-> s])
<1>1. ASSUME frames # <<>> PROVE SccDone /\ FrameOK(Last(frames))
  <2>1. IsSeq(frames) /\ IsSeq(<<>>) /\ \A i \in 1 .. Len(frames) : FrameOK(frames[i])
    BY DEF WalkInv, IsSeq
  <2>2. Last(frames) = frames[Len(frames)] /\ Len(frames) \in Nat \ {0}
    BY <2>1, <1>1, ReplaceFacts DEF Front, Below, Last
  <2>3. Len(frames) \in 1 .. Len(frames)
    BY <2>2
  <2> QED BY <2>1, <2>2, <2>3, <1>1 DEF WalkInv
<1>2. \A b : /\ Pending(b).k = "call" /\ Pending(b).bb = b
             /\ BlocksOf(Pending(b)) = {b} /\ (b \in Finished => FrameOK(Pending(b)))
  BY DEF Pending, BlocksOf, FrameOK
<1>3. ASSUME NEW s PROVE Led([k |-> "restore", saved |-> s])
  BY DEF Led, BlocksOf, FrameOK
<1>4. ASSUME NEW b \in Finished, b \in BlocksOf(Last(frames)) PROVE Led(Pending(b))
  BY <1>2, <1>4, ReachesFacts DEF Led
<1> QED BY <1>1, <1>2, <1>3, <1>4

\* The calls that check makes from a block, once the limit is not passed.
LEMMA CheckDescends ==
  ASSUME SetFacts, SafeDropInv, UNCHANGED scc_vars
  PROVE  check \/ check_child => WalkInv'
<1>i. IInv /\ TarjanInv /\ EdgesKept /\ IsFiniteSet(Blocks) /\ WalkInv
  BY DEF SafeDropInv
<1> SUFFICES ASSUME At("call"), NEW bb, bb = Last(frames).bb, NEW root, root = scc_indices[bb]
             PROVE  check \/ check_child => WalkInv'
  BY Zenon DEF check, check_child
<1>1. /\ frames # <<>> /\ Last(frames).k = "call" /\ BlocksOf(Last(frames)) = {bb}
      /\ bb \in Finished
  <2>1. frames # <<>> /\ Last(frames).k = "call" /\ FrameOK(Last(frames))
    BY <1>i, LastFacts DEF At
  <2>2. BlocksOf(Last(frames)) = {bb}
    BY <2>1 DEF BlocksOf
  <2> QED BY <2>1, <2>2 DEF FrameOK
<1>2. root \in Roots /\ root \in Finished /\ Reaches(bb, root)
  BY <1>1, <1>i, RootFacts
<1>3. ASSUME check PROVE WalkInv'
  <2>1. PICK h : \E c \in Continue(h, root) : frames' = Replace(c.frames)
    BY <1>3 DEF check
  <2>2. PICK fs : Goes(root, fs) /\ frames' = Replace(fs)
    BY <2>1, <1>2, <1>i, ContinueFacts
  <2>3. CASE fs = <<>>
    <3>1. frames' = Front(frames) \o <<>> /\ IsSeq(<<>>) /\ Leading(<<>>)
      BY <2>2, <2>3 DEF Replace, IsSeq, Leading
    <3> QED BY <3>1, <1>1, <1>i, Descend, Zenon
  <2>4. ASSUME NEW n \in Finished, Reaches(root, n), fs = <<Pending(n)>> PROVE WalkInv'
    <3>1. Led(Pending(n))
      BY <2>4, <1>1, <1>2, <1>i, LastFacts, ReachesFacts DEF Led
    <3> QED BY <3>1, <2>2, <2>4, <1>1, <1>i, Put
  <2>5. ASSUME NEW todo, IsSeq(todo), fs = << [k |-> "split", todo |-> todo] >>,
               \A i \in 1 .. Len(todo) : todo[i].bb \in Finished /\ Reaches(root, todo[i].bb)
        PROVE  WalkInv'
    <3>1. PICK f : f = [k |-> "split", todo |-> todo]
      BY Zenon
    <3>2. /\ f.k = "split" /\ f.todo = todo
          /\ BlocksOf(f) = {todo[i].bb : i \in 1 .. Len(todo)}
      BY <3>1 DEF BlocksOf
    <3>3. \A b \in BlocksOf(f) : b \in Finished /\ Reaches(bb, b)
      BY <3>2, <2>5, <1>2, ReachesFacts
    <3>4. Led(f)
      BY <3>1, <3>2, <3>3, <2>5, <1>1 DEF Led, FrameOK
    <3> QED BY <3>1, <3>4, <2>2, <2>5, <1>1, <1>i, Put
  <2> QED BY <2>2, <2>3, <2>4, <2>5 DEF Goes
<1>4. ASSUME check_child PROVE WalkInv'
  <2>1. PICK t : t = child_scc[root].switch
    OBVIOUS
  <2>2. PICK todo : todo = [k \in DOMAIN t.targets |-> t.targets[k][2]] \o <<t.otherwise>>
    BY Zenon
  <2>3. PICK f : f = [k |-> "child", bb |-> bb, root |-> root, todo |-> todo]
    BY Zenon
  <2>4. root \in DOMAIN child_scc /\ frames' = Replace(<<f>>)
    BY <1>4, <2>1, <2>2, <2>3, Zenon DEF check_child
  <2>5. t.targets \in Seq(Int \X cfg[root])
    <3>1. ChildKept(root) /\ SwitchKept(root)
      BY <2>4, <1>2, <1>i, RootFacts DEF EdgesKept
    <3> QED BY <3>1, <2>1 DEF ChildKept, SwitchKept
  <2>6. PICK n \in Nat : n = Len(t.targets) /\ DOMAIN t.targets = 1 .. n
    BY <2>5, SeqFacts
  <2>7. todo \in Seq(TargetsOf(t))
    <3>1. PICK T : T = TargetsOf(t)
      OBVIOUS
    <3>2. t.otherwise \in T /\ \A k \in 1 .. n : t.targets[k][2] \in T
      BY <3>1, <2>6 DEF TargetsOf
    <3>3. [k \in 1 .. n |-> t.targets[k][2]] \in Seq(T) /\ <<t.otherwise>> \in Seq(T)
      BY <3>2
    <3>4. [k \in 1 .. n |-> t.targets[k][2]] \o <<t.otherwise>> \in Seq(T)
      BY <3>3, ConcatFacts
    <3> QED BY <3>1, <3>4, <2>2, <2>6
  <2>8. f.k = "child" /\ f.bb = bb /\ f.root = root /\ f.todo = todo /\ BlocksOf(f) = {bb}
    BY <2>3 DEF BlocksOf
  <2>9. AtWork(f)
    BY <2>1, <2>4, <2>7, <2>8 DEF AtWork
  <2>10. Led(f)
    BY <2>8, <2>9, <1>1, ReachesFacts DEF Led, FrameOK
  <2> QED BY <2>4, <2>10, <1>1, <1>i, Put
<1> QED BY <1>3, <1>4

\* The blocks of a component that are taken for one target, and its exits.
LEMMA ChildDescends ==
  ASSUME SetFacts, SafeDropInv, UNCHANGED scc_vars
  PROVE  child_target \/ child_work \/ child_blocks => WalkInv'
<1>i. IInv /\ TarjanInv /\ EdgesKept /\ IsFiniteSet(Blocks) /\ WalkInv
  BY DEF SafeDropInv
<1> SUFFICES ASSUME At("child") \/ At("work"), NEW f, f = Last(frames)
             PROVE  child_target \/ child_work \/ child_blocks => WalkInv'
  BY Zenon DEF child_target, child_work, child_blocks
<1>1. /\ frames # <<>> /\ f.k \in {"child", "work"} /\ BlocksOf(f) = {f.bb}
      /\ f.bb \in Finished /\ AtWork(f)
  <2>1. frames # <<>> /\ f.k \in {"child", "work"} /\ FrameOK(f)
    BY <1>i, LastFacts DEF At
  <2>2. BlocksOf(f) = {f.bb}
    BY <2>1 DEF BlocksOf
  <2> QED BY <2>1, <2>2 DEF FrameOK
<1>2. PICK T, C : T = TargetsOf(child_scc[f.root].switch) /\ C = Component(f.root)
  OBVIOUS
<1>3. /\ f.root \in DOMAIN child_scc /\ f.root = scc_indices[f.bb] /\ f.todo \in Seq(T)
      /\ f.root \in Roots /\ f.bb \in C /\ Reaches(f.bb, f.root)
      /\ child_scc[f.root].scc_block_set \subseteq C /\ C \subseteq Blocks
  BY <1>1, <1>2, <1>i, RootFacts DEF AtWork, EdgesKept, ChildKept
<1>4. ASSUME NEW g, g.k \in {"child", "work"}, g.bb = f.bb, AtWork(g) PROVE Led(g)
  <2>1. BlocksOf(g) = {f.bb}
    BY <1>4 DEF BlocksOf
  <2> QED BY <2>1, <1>4, <1>1, ReachesFacts DEF Led, FrameOK
<1>5. ASSUME child_target PROVE WalkInv'
  <2>1. f.todo # <<>> /\ Head(f.todo) \in T /\ Tail(f.todo) \in Seq(T)
    BY <1>5, <1>3, HeadTailFacts DEF child_target
  <2>2. PICK g : g = [k |-> "work", bb |-> f.bb, root |-> f.root, todo |-> Tail(f.todo),
                      target |-> Head(f.todo), work_list |-> <<f.bb>>,
                      work_set |-> {f.bb}, subs |-> <<>>]
    BY Zenon
  <2>3. frames' = Replace(<<g>>)
    BY <1>5, <2>2 DEF child_target
  <2>4. <<f.bb>> \in Seq(C) /\ <<>> \in Seq(C)
    BY <1>3
  <2>5. g.k = "work" /\ g.bb = f.bb /\ AtWork(g)
    BY <2>1, <2>2, <2>4, <1>2, <1>3, Zenon DEF AtWork, WorkFields
  <2> QED BY <2>3, <2>5, <1>1, <1>4, <1>i, Put
<1>6. ASSUME f.k = "work"
      PROVE  /\ f.target \in T /\ f.work_list \in Seq(C) /\ f.subs \in Seq(C)
             /\ f = [x \in WorkFields |-> f[x]]
  BY <1>1, <1>2, <1>6 DEF AtWork
<1>7. ASSUME child_work PROVE WalkInv'
  <2>1. f.k = "work" /\ f.work_list # <<>>
    BY <1>7 DEF child_work, At
  <2>2. PICK b : b = Last(f.work_list)
    OBVIOUS
  <2>3. PICK p \in SetToSeqs(Found(f, b)) :
          frames' = Replace(<< [f EXCEPT !.work_list = Front(@) \o p,
                                         !.work_set = @ \cup Found(f, b),
                                         !.subs = Append(@, b)] >>)
    BY <1>7, <2>2, Zenon DEF child_work
  <2>4. Found(f, b) \subseteq C
    BY <1>3 DEF Found
  <2>5. p \in Seq(C)
    <3>1. p \in Seq(Found(f, b))
      BY <2>3, <2>4, <1>3, <1>i, OrderFacts
    <3> QED BY <3>1, <2>4
  <2>6. PICK l, s : l = Front(f.work_list) \o p /\ s = Append(f.subs, b)
    BY Zenon
  <2>7. l \in Seq(C) /\ s \in Seq(C)
    <3>1. Front(f.work_list) \in Seq(C) /\ b \in C
      <4>1. f.work_list \in Seq(C) /\ f.work_list # <<>>
        BY <2>1, <1>6
      <4>2. Len(f.work_list) \in Nat /\ Len(f.work_list) # 0
        BY <4>1, SeqFacts
      <4>4. Front(f.work_list) \in Seq(C)
        BY <4>1, FrontFacts DEF Front, Below
      <4>5. Len(f.work_list) \in 1 .. Len(f.work_list)
        BY <4>2
      <4>6. b \in C
        BY <4>1, <4>5, <2>2, SeqFacts DEF Last
      <4> QED BY <4>4, <4>6
    <3>2. s \in Seq(C)
      BY <3>1, <2>1, <2>6, <1>6, AppendFacts
    <3> QED BY <3>1, <3>2, <2>5, <2>6, ConcatFacts
  <2>8. PICK w : w = f.work_set \cup Found(f, b)
    BY Zenon
  <2>9. PICK g : g = [f EXCEPT !.work_list = l, !.work_set = w, !.subs = s]
    OBVIOUS
  <2>10. frames' = Replace(<<g>>)
    BY <2>3, <2>6, <2>8, <2>9, Zenon
  <2>12. /\ g.k = "work" /\ g.bb = f.bb /\ g.root = f.root /\ g.todo = f.todo
         /\ g.target = f.target /\ g.work_list = l /\ g.subs = s
         /\ g = [x \in WorkFields |-> g[x]]
    BY <2>1, <2>9, <1>6, Zenon DEF WorkFields
  <2>11. g.k = "work" /\ g.bb = f.bb /\ AtWork(g)
    BY <2>1, <2>7, <2>12, <1>2, <1>3, <1>6 DEF AtWork
  <2> QED BY <2>10, <2>11, <1>1, <1>4, <1>i, Put
<1>8. ASSUME child_blocks PROVE WalkInv'
  <2>1. PICK E : E = Exits(f.root, ToSet(f.subs), f.target)
    OBVIOUS
  <2>2. f.k = "work" /\ ToSet(f.subs) \subseteq C
    <3>1. f.k = "work"
      BY <1>8 DEF child_blocks, At
    <3> QED BY <3>1, <1>6, SeqFacts DEF ToSet
  <2>3. ASSUME NEW n \in E PROVE n \in Finished /\ Reaches(f.bb, n) /\ ~ Reaches(n, f.root)
    <3>1. PICK b \in C : n \in TakenNext(f.root, b, f.target) /\ scc_indices[n] # f.root
      BY <2>1, <2>2 DEF Exits
    <3>2. n \in Finished /\ Reaches(f.root, n)
      BY <3>1, <2>2, <1>2, <1>3, <1>6, <1>i, TakenFacts
    <3> QED BY <3>1, <3>2, <1>3, <1>i, RootFacts, ReachesFacts
  <2>4. CASE E = {}
    <3>1. frames' = Front(frames)
      BY <1>8, <2>1, <2>4 DEF child_blocks
    <3> QED BY <3>1, <1>1, <1>i, Put
  <2>5. CASE E # {}
    <3>1. PICK p \in SetToSeqs(E) :
            frames' = Replace(<< [k |-> "child", bb |-> f.bb, root |-> f.root, todo |-> f.todo],
                                 [k |-> "seq", todo |-> p, saved |-> Backup] >>)
      BY <1>8, <2>1, <2>5, Zenon DEF child_blocks
    <3>2. PICK g, h : /\ g = [k |-> "child", bb |-> f.bb, root |-> f.root, todo |-> f.todo]
                      /\ h = [k |-> "seq", todo |-> p, saved |-> Backup]
      BY Zenon
    <3>3. /\ E \subseteq Finished /\ E \subseteq Blocks
          /\ p \in Seq(E) /\ \A i \in 1 .. Len(p) : p[i] \in E
      <4>1. E \subseteq Finished /\ E \subseteq Blocks
        BY <2>3 DEF Finished
      <4> QED BY <4>1, <1>i, OrderFacts
    <3>4. g.k = "child" /\ g.root = f.root /\ Led(g)
      <4>1. g.k = "child" /\ g.bb = f.bb /\ g.root = f.root /\ AtWork(g)
        BY <3>2, <1>2, <1>3 DEF AtWork
      <4> QED BY <4>1, <1>4
    <3>5. /\ h.k = "seq" /\ h.todo = p /\ h = [x \in {"k", "todo", "saved"} |-> h[x]]
          /\ BlocksOf(h) = {p[i] : i \in 1 .. Len(p)}
      BY <3>2 DEF BlocksOf
    <3>6. p \in Seq(Finished)
      BY <3>3
    <3>7. Led(h) /\ \A b \in BlocksOf(h) : ~ Reaches(b, f.root)
      BY <3>3, <3>5, <3>6, <2>3, <1>1 DEF Led, FrameOK
    <3> QED BY <3>1, <3>2, <3>4, <3>7, <1>1, <1>i, Put
  <2> QED BY <2>4, <2>5
<1> QED BY <1>5, <1>7, <1>8

\* The rest of a loop is part of it.
LEMMA RestFacts ==
  ASSUME NEW S, NEW s \in Seq(S), s # <<>>
  PROVE  /\ Tail(s) \in Seq(S) /\ IsSeq(Tail(s)) /\ 1 \in 1 .. Len(s) /\ Head(s) = s[1]
         /\ \A i \in 1 .. Len(Tail(s)) : \E j \in 1 .. Len(s) : Tail(s)[i] = s[j]
<1>1. /\ Tail(s) \in Seq(S) /\ Len(Tail(s)) = Len(s) - 1
      /\ \A i \in 1 .. Len(Tail(s)) : Tail(s)[i] = s[i + 1]
  BY HeadTailFacts
<1>2. Len(s) \in Nat /\ Len(s) # 0 /\ Head(s) = s[1]
  BY SeqFacts
<1>3. \A i \in 1 .. Len(Tail(s)) : i + 1 \in 1 .. Len(s)
  BY <1>1, <1>2
<1>4. \A i \in 1 .. Len(Tail(s)) : \E j \in 1 .. Len(s) : Tail(s)[i] = s[j]
  BY <1>1, <1>3, Zenon
<1>5. 1 \in 1 .. Len(s)
  BY <1>2
<1>6. IsSeq(Tail(s))
  BY <1>1, SeqIsSeq, Zenon
<1> QED BY <1>1, <1>2, <1>4, <1>5, <1>6

\* The next exit of a component, or the next branch of a block.
LEMMA LoopDescends ==
  ASSUME SafeDropInv, UNCHANGED scc_vars
  PROVE  child_exit \/ split_check => WalkInv'
<1>i. WalkInv
  BY DEF SafeDropInv
<1>1. ASSUME child_exit PROVE WalkInv'
  <2>1. PICK f : f = Last(frames)
    OBVIOUS
  <2>2. /\ frames # <<>> /\ f.k = "seq" /\ f.todo # <<>>
        /\ frames' = Replace(<< [f EXCEPT !.todo = Tail(@)], Pending(Head(f.todo)) >>)
    BY <1>1, <2>1 DEF child_exit, At
  <2>3. FrameOK(f)
    BY <2>1, <2>2, <1>i, LastFacts
  <2>s. f = [x \in {"k", "todo", "saved"} |-> f[x]]
    BY <2>2, <2>3 DEF FrameOK
  <2>4. /\ f.todo \in Seq(Finished)
        /\ BlocksOf(f) = {f.todo[i] : i \in 1 .. Len(f.todo)} /\ BlocksOf(f) \subseteq Finished
    BY <2>2, <2>3 DEF FrameOK, BlocksOf
  <2>5. /\ Tail(f.todo) \in Seq(Finished) /\ 1 \in 1 .. Len(f.todo) /\ Head(f.todo) = f.todo[1]
        /\ \A i \in 1 .. Len(Tail(f.todo)) : \E j \in 1 .. Len(f.todo) : Tail(f.todo)[i] = f.todo[j]
    BY <2>2, <2>4, RestFacts
  <2>6. PICK g : g = [f EXCEPT !.todo = Tail(@)]
    BY Zenon
  <2>7. /\ g.k = "seq" /\ g.todo = Tail(f.todo)
        /\ g = [x \in {"k", "todo", "saved"} |-> g[x]]
    BY <2>2, <2>s, <2>6, Zenon
  <2>8. BlocksOf(g) \subseteq BlocksOf(f)
    <3>1. BlocksOf(g) = {Tail(f.todo)[i] : i \in 1 .. Len(Tail(f.todo))}
      BY <2>7 DEF BlocksOf
    <3> QED BY <3>1, <2>4, <2>5
  <2>9. Led(g)
    <3>1. \A b \in BlocksOf(g) : b \in Finished /\ \E a \in BlocksOf(f) : Reaches(a, b)
      BY <2>4, <2>8, ReachesFacts
    <3>2. FrameOK(g)
      BY <3>1, <2>5, <2>7 DEF FrameOK
    <3> QED BY <3>1, <3>2, <2>1 DEF Led
  <2>10. Head(f.todo) \in BlocksOf(f)
    BY <2>4, <2>5
  <2>11. Led(Pending(Head(f.todo)))
    <3>1. Head(f.todo) \in Finished
      BY <2>4, <2>10
    <3> QED BY <3>1, <2>1, <2>10, <1>i, LastFacts
  <2> QED BY <2>2, <2>6, <2>7, <2>9, <2>11, <1>i, Put, Zenon
<1>2. ASSUME split_check PROVE WalkInv'
  <2>1. PICK f : f = Last(frames)
    OBVIOUS
  <2>6. PICK g : g = [f EXCEPT !.todo = Tail(@)]
    BY Zenon
  <2>r. PICK r : r = [k |-> "restore", saved |-> Backup]
    BY Zenon
  <2>2. /\ frames # <<>> /\ f.k = "split" /\ f.todo # <<>>
        /\ \/ frames' = Replace(<<g>>)
           \/ frames' = Replace(<<g, r, Pending(Head(f.todo).bb)>>)
    BY <1>2, <2>1, <2>6, <2>r DEF split_check, At, Skipped
  <2>3. FrameOK(f)
    BY <2>1, <2>2, <1>i, LastFacts
  <2>s. f = [x \in {"k", "todo"} |-> f[x]]
    BY <2>2, <2>3 DEF FrameOK
  <2>4. /\ f.todo \in Seq(Range(f.todo))
        /\ BlocksOf(f) = {f.todo[i].bb : i \in 1 .. Len(f.todo)} /\ BlocksOf(f) \subseteq Finished
    BY <2>2, <2>3 DEF FrameOK, BlocksOf, IsSeq
  <2>5. /\ IsSeq(Tail(f.todo)) /\ 1 \in 1 .. Len(f.todo) /\ Head(f.todo) = f.todo[1]
        /\ \A i \in 1 .. Len(Tail(f.todo)) : \E j \in 1 .. Len(f.todo) : Tail(f.todo)[i] = f.todo[j]
    BY <2>2, <2>4, RestFacts
  <2>7. /\ g.k = "split" /\ g.todo = Tail(f.todo)
        /\ g = [x \in {"k", "todo"} |-> g[x]]
    BY <2>2, <2>s, <2>6, Zenon
  <2>8. BlocksOf(g) \subseteq BlocksOf(f)
    <3>1. BlocksOf(g) = {Tail(f.todo)[i].bb : i \in 1 .. Len(Tail(f.todo))}
      BY <2>7 DEF BlocksOf
    <3> QED BY <3>1, <2>4, <2>5
  <2>9. Led(g)
    <3>1. \A b \in BlocksOf(g) : b \in Finished /\ \E a \in BlocksOf(f) : Reaches(a, b)
      BY <2>4, <2>8, ReachesFacts
    <3>2. FrameOK(g)
      BY <3>1, <2>5, <2>7 DEF FrameOK
    <3> QED BY <3>1, <3>2, <2>1 DEF Led
  <2>10. Head(f.todo).bb \in BlocksOf(f)
    BY <2>4, <2>5
  <2>11. Led(Pending(Head(f.todo).bb))
    <3>1. Head(f.todo).bb \in Finished
      BY <2>4, <2>10
    <3> QED BY <3>1, <2>1, <2>10, <1>i, LastFacts
  <2>12. Led(r) /\ r.k # "child"
    BY <2>r, <1>i, LastFacts
  <2> QED BY <2>2, <2>7, <2>9, <2>11, <2>12, <1>i, Put
<1> QED BY <1>1, <1>2

\* A step that leaves the frames and the components alone.
LEMMA WalkSame ==
  ASSUME WalkInv, UNCHANGED scc_vars, frames' = frames
  PROVE  WalkInv'
<1>1. IsSeq(frames)'
  BY DEF WalkInv, IsSeq
<1>2. SccDone <=> SccDone'
  BY FramesSame
<1>3. \A i \in 1 .. Len(frames) : FrameOK(frames[i])'
  <2>1. \A f : FrameOK(f) => FrameOK(f)'
    BY FramesSame
  <2>2. \A i \in 1 .. Len(frames') : FrameOK(frames'[i])
    BY Zenon DEF WalkInv
  <2> QED BY <2>1, <2>2, Zenon DEF FrameOK, AtWork, BlocksOf
<1>4. \A i, j \in 1 .. Len(frames) : i < j /\ frames[i].k = "child" =>
        \A b \in BlocksOf(frames[j]) : ~ Reaches(b, frames[i].root)'
  <2>1. \A b, c : Reaches(b, c)' <=> Reaches(b, c)
    BY FramesSame
  <2> QED BY <2>1, Zenon DEF WalkInv
<1> QED BY <1>1, <1>2, <1>3, <1>4 DEF WalkInv

\* Every step of check keeps the frames in order.
LEMMA WalkStep ==
  ASSUME SetFacts, SafeDropInv, CheckStep
  PROVE  WalkInv'
<1>i. UNCHANGED scc_vars /\ WalkInv /\ IInv
  BY DEF SafeDropInv, CheckStep
<1>1. CASE start_check
  <2>1. SccDone /\ frames' = <<Pending(0)>>
    BY <1>1 DEF start_check
  <2>2. 0 \in Finished
    <3>1. calls = <<>> /\ time # 0 /\ stack = <<>> /\ 0 \in Blocks
      BY <2>1, <1>i DEF SccDone, IInv, CallsOnStack, Types
    <3> QED BY <3>1 DEF Finished, Visiting, Range
  <2>3. SccDone' /\ FrameOK(Pending(0))'
    BY <2>1, <2>2, <1>i, FramesSame, LastFacts
  <2>4. PICK fs : fs = <<Pending(0)>>
    BY Zenon
  <2>5. fs \in Seq(Range(fs)) /\ Len(fs) = 1 /\ fs[1] = Pending(0)
    BY <2>4 DEF Range
  <2>6. frames' = fs
    BY <2>1, <2>4
  <2>7. IsSeq(frames)' /\ Len(frames') = 1 /\ frames'[1] = Pending(0)
    BY <2>5, <2>6 DEF IsSeq
  <2>8. /\ \A i \in 1 .. Len(frames') : frames'[i] = Pending(0)
        /\ \A i, j \in 1 .. Len(frames') : ~ (i < j)
    BY <2>7
  <2> QED BY <2>3, <2>7, <2>8 DEF WalkInv
<1>2. CASE report
  BY <1>2, <1>i, WalkSame, Zenon DEF report
<1>3. CASE check_over_limit \/ child_restore \/ split_restore \/ loop_end
  <2>1. frames # <<>> /\ frames' = Front(frames)
    BY <1>3 DEF check_over_limit, child_restore, split_restore, loop_end, At
  <2> QED BY <2>1, <1>i, Put
<1> QED BY <1>1, <1>2, <1>3, <1>i, CheckDescends, ChildDescends, LoopDescends DEF CheckStep

\* The visits pass the limit exactly when a call is refused.
LEMMA LimitStep ==
  ASSUME LimitInv, [Next]_vars
  PROVE  LimitInv'
<1>1. /\ body \in Bodies /\ visit_times \in Nat /\ VISIT_LIMIT \in Nat \ {0}
      /\ visit_times <= VISIT_LIMIT => cut = FALSE
      /\ visit_times > VISIT_LIMIT => cut = TRUE
      /\ outcome # "none" => frames = <<>> /\ visit_times # 0
      /\ outcome = "reported" => visit_times <= VISIT_LIMIT
      /\ outcome = "over visited" => visit_times > VISIT_LIMIT
  BY VisitLimitAssumption, Zenon DEF LimitInv, VISIT_LIMIT
<1>n. visit_times \in Nat /\ VISIT_LIMIT \in Nat
  BY <1>1, Zenon
<1>2. body' = body
  BY Zenon DEF Next, Step, SolveScc, CheckStep, start_check, check_over_limit, check, check_child,
         child_target, child_work, child_blocks, child_exit, child_restore, split_check,
         split_restore, loop_end, report, Stop, vars, check_vars
<1>3. body' \in Bodies /\ VISIT_LIMIT' = VISIT_LIMIT
  BY <1>1, <1>2, Zenon DEF VISIT_LIMIT
<1>4. ASSUME visit_times' = visit_times, cut' = cut, outcome' = outcome, frames' = frames \/ frames # <<>>
      PROVE  LimitInv'
  BY <1>1, <1>3, <1>4, Zenon DEF LimitInv
<1>5. CASE SolveScc \/ UNCHANGED vars
  BY <1>4, <1>5 DEF SolveScc, vars, check_vars
<1>6. CASE start_check
  BY <1>6, <1>1, <1>3, Zenon DEF start_check, LimitInv
<1>7. CASE child_target \/ child_work \/ child_blocks \/ child_exit \/ child_restore
           \/ split_restore \/ loop_end
  BY <1>7, <1>4, Zenon DEF child_target, child_work, child_blocks, child_exit, child_restore,
                    split_restore, loop_end, At
<1>8. CASE check \/ check_child
  <2>0. visit_times + 1 <= VISIT_LIMIT /\ visit_times' = visit_times + 1
    BY <1>8, Zenon DEF check, check_child
  <2>1. /\ cut' = cut /\ outcome' = outcome /\ frames # <<>>
    BY <1>8, Zenon DEF check, check_child, At
  <2>2. outcome = "none"
    BY <2>1, <1>1, Zenon
  <2>3. /\ visit_times <= VISIT_LIMIT /\ visit_times' \in Nat
        /\ visit_times' <= VISIT_LIMIT /\ ~ (visit_times' > VISIT_LIMIT)
    BY <2>0, <1>n
  <2> QED BY <2>1, <2>2, <2>3, <1>1, <1>3, Zenon DEF LimitInv
<1>9. CASE check_over_limit
  <2>0. visit_times + 1 > VISIT_LIMIT /\ visit_times' = visit_times + 1
    BY <1>9 DEF check_over_limit
  <2>1. /\ cut' = TRUE /\ outcome' = outcome /\ frames # <<>>
    BY <1>9 DEF check_over_limit, At
  <2>2. outcome = "none"
    BY <2>1, <1>1, Zenon
  <2>3. /\ visit_times' \in Nat
        /\ visit_times' > VISIT_LIMIT /\ ~ (visit_times' <= VISIT_LIMIT)
    BY <2>0, <1>n
  <2> QED BY <2>1, <2>2, <2>3, <1>1, <1>3, Zenon DEF LimitInv
<1>10. CASE split_check
  <2>1. /\ visit_times' = visit_times /\ outcome' = outcome /\ frames # <<>>
        /\ cut' = cut \/ (cut' = TRUE /\ visit_times > VISIT_LIMIT)
    BY <1>10 DEF split_check, OverLimit, At
  <2>2. cut' = cut
    BY <2>1, <1>1, Zenon
  <2> QED BY <2>1, <2>2, <1>4
<1>11. CASE report
  <2>1. /\ visit_times' = visit_times /\ cut' = cut /\ frames' = <<>> /\ visit_times # 0
        /\ outcome' = IF visit_times <= VISIT_LIMIT THEN "reported" ELSE "over visited"
    BY <1>11, Zenon DEF report
  <2>2. visit_times > VISIT_LIMIT <=> ~ (visit_times <= VISIT_LIMIT)
    BY <1>n
  <2>3. /\ outcome' = "reported" => visit_times <= VISIT_LIMIT
        /\ outcome' = "over visited" => ~ (visit_times <= VISIT_LIMIT)
    BY <2>1, Zenon
  <2> QED BY <2>1, <2>2, <2>3, <1>1, <1>3, Zenon DEF LimitInv
<1> QED BY <1>5, <1>6, <1>7, <1>8, <1>9, <1>10, <1>11 DEF Next, Step, CheckStep, Stop

-----------------------------------------------------------------------------
\* No walk has begun.
LEMMA SafeDropInit ==
  ASSUME Init
  PROVE  SafeDropInv
<1>1. PICK b \in Bodies : /\ body = b /\ SccInit(Build(b).blocks)
                          /\ frames = <<>> /\ visit_times = 0 /\ cut = FALSE /\ outcome = "none"
  BY DEF Init
<1>2. PICK bs : bs = Build(b).blocks
  OBVIOUS
<1>3. MirBody(bs) /\ SwitchesLead(bs) /\ IsFiniteSet(DOMAIN bs) /\ SccInit(bs)
  BY <1>1, <1>2, BodiesAssumption
<1>4. IInv /\ TarjanInv /\ EdgesKept
  BY <1>3, InitHolds, TarjanInit, EdgesInit
<1>5. IsFiniteSet(Blocks)
  BY <1>3 DEF SccInit, Blocks
<1>6. WalkInv
  BY <1>1 DEF WalkInv, IsSeq
<1>7. LimitInv
  BY <1>1, VisitLimitAssumption DEF LimitInv, VISIT_LIMIT
<1> QED BY <1>4, <1>5, <1>6, <1>7 DEF SafeDropInv

\* Every step keeps the invariant.
LEMMA SafeDropStep ==
  ASSUME SetFacts, SafeDropInv, [Next]_vars
  PROVE  SafeDropInv'
<1>i. IInv /\ TarjanInv /\ EdgesKept /\ IsFiniteSet(Blocks) /\ WalkInv /\ LimitInv
  BY DEF SafeDropInv
<1>1. [SccStep]_scc_vars
  BY DEF Next, Step, SolveScc, CheckStep, Stop, vars
<1>2. IInv' /\ TarjanInv' /\ EdgesKept' /\ Blocks' = Blocks
  BY <1>1, <1>i, StepHolds, TarjanStep, EdgesStep, BlocksStay
<1>3. WalkInv'
  <2>1. CASE SolveScc
    <3>1. frames = <<>> /\ frames' = frames
      BY <2>1, <1>i DEF SolveScc, WalkInv
    <3> QED BY <3>1 DEF WalkInv, IsSeq
  <2>2. CASE CheckStep
    BY <2>2, WalkStep
  <2>3. CASE UNCHANGED vars
    BY <2>3, <1>i, WalkSame DEF vars, check_vars
  <2> QED BY <2>1, <2>2, <2>3 DEF Next, Step, Stop
<1>4. LimitInv'
  BY <1>i, LimitStep
<1>5. IsFiniteSet(Blocks)'
  BY <1>2, <1>i
<1> QED BY <1>2, <1>3, <1>4, <1>5 DEF SafeDropInv

INSTANCE FiniteSetTheorems
INSTANCE WellFoundedInduction

\* A set of natural numbers has a least element.
LEMMA LeastNat ==
  ASSUME NEW T, T \subseteq Nat, T # {}
  PROVE  \E x \in T : \A y \in T : x <= y
<1>1. PICK x \in T : \A y \in T : ~ (<<y, x>> \in OpToRel(<, Nat))
  BY WFMin, NatLessThanWellFounded, Zenon
<1>2. \A y \in T : (<<y, x>> \in OpToRel(<, Nat)) <=> y < x
  BY DEF OpToRel
<1>3. \A y \in T : ~ (y < x)
  BY <1>1, <1>2, Zenon
<1> QED BY <1>3

\* The facts that the steps take from the library.
LEMMA SetFactsHold == SetFacts
<1>1. \A B : IsFiniteSet(B) => \A S \in SUBSET B : Cardinality(S) \in Nat
  <2> SUFFICES ASSUME NEW B, IsFiniteSet(B), NEW S \in SUBSET B PROVE Cardinality(S) \in Nat
    BY Zenon
  <2>1. S \subseteq B
    BY Zenon
  <2>2. IsFiniteSet(S)
    BY <2>1, FS_Subset, Zenon
  <2> QED BY <2>2, FS_CardinalityType, Zenon
<1> QED BY <1>1, LeastNat, Zenon DEF SetFacts

\* For all bodies, whatever the order of the hash sets and whatever the values:
\* while check follows the exits of a component, it is never called for a block of
\* that component again.
THEOREM WalkLeavesComponents == Spec => []ComponentsAreLeft
<1>1. SafeDropInv => ComponentsAreLeft
  <2> SUFFICES ASSUME SafeDropInv, At("call"), scc_indices[Last(frames).bb] \in WorkingOn
               PROVE  FALSE
    BY DEF ComponentsAreLeft
  <2>1. PICK bb, n : bb = Last(frames).bb /\ n = Len(frames)
    BY Zenon
  <2>2. IInv /\ TarjanInv /\ WalkInv /\ IsSeq(frames)
    BY DEF SafeDropInv, WalkInv
  <2>3. n \in Nat \ {0} /\ Last(frames) = frames[n] /\ frames # <<>>
    <3>1. IsSeq(<<>>) /\ frames # <<>>
      BY DEF IsSeq, At
    <3> QED BY <3>1, <2>1, <2>2, ReplaceFacts DEF Front, Below, Last
  <2>4. DOMAIN frames = 1 .. n
    BY <2>1, <2>2 DEF IsSeq
  <2>5. PICK k \in 1 .. n : frames[k].k = "child" /\ scc_indices[frames[k].bb] = scc_indices[bb]
    BY <2>1, <2>4 DEF WorkingOn
  <2>6. Last(frames).k = "call" /\ BlocksOf(Last(frames)) = {bb}
    BY <2>1 DEF At, BlocksOf
  <2>7. FrameOK(frames[k]) /\ FrameOK(frames[n])
    BY <2>1, <2>2, <2>3 DEF WalkInv
  <2>8. frames[k].root = scc_indices[bb] /\ bb \in Finished
    BY <2>3, <2>5, <2>6, <2>7 DEF FrameOK, AtWork
  <2>9. k < n
    <3>1. k # n
      BY <2>3, <2>5, <2>6
    <3> QED BY <3>1, <2>3
  <2>10. ~ Reaches(bb, frames[k].root)
    <3>1. \A i, j \in 1 .. n : i < j /\ frames[i].k = "child" =>
            \A b \in BlocksOf(frames[j]) : ~ Reaches(b, frames[i].root)
      BY <2>1, <2>2 DEF WalkInv
    <3>2. n \in 1 .. n /\ bb \in BlocksOf(frames[n])
      BY <2>3, <2>6
    <3> QED BY <3>1, <3>2, <2>5, <2>9
  <2> QED BY <2>2, <2>8, <2>10, RootFacts
<1>2. Init => SafeDropInv
  BY SafeDropInit
<1>3. SafeDropInv /\ [Next]_vars => SafeDropInv'
  BY SafeDropStep, SetFactsHold
<1> QED BY <1>1, <1>2, <1>3, PTL DEF Spec

\* For all bodies and all limits: report_bugs prints the bugs exactly when no call
\* of check was refused and no branch skipped.
THEOREM ReportIsOfAllPaths == Spec => []ReportIsComplete
<1>1. SafeDropInv => ReportIsComplete
  <2> SUFFICES ASSUME LimitInv PROVE ReportIsComplete
    BY DEF SafeDropInv
  <2>1. /\ outcome = "reported" => cut = FALSE
        /\ outcome = "over visited" => cut = TRUE
    BY Zenon DEF LimitInv
  <2> QED BY <2>1, Zenon DEF ReportIsComplete
<1>2. Init => SafeDropInv
  BY SafeDropInit
<1>3. SafeDropInv /\ [Next]_vars => SafeDropInv'
  BY SafeDropStep, SetFactsHold
<1> QED BY <1>1, <1>2, <1>3, PTL DEF Spec

\* What solve_scc establishes holds in the analysis that calls it, to its end.
THEOREM ComponentsStayExact == Spec => [](ComponentsAreExact /\ ContractionKeepsFlow)
<1>1. SafeDropInv => ComponentsAreExact /\ ContractionKeepsFlow
  BY TarjanResult DEF SafeDropInv, IInv, ContractionKeepsFlow
<1>2. Init => SafeDropInv
  BY SafeDropInit
<1>3. SafeDropInv /\ [Next]_vars => SafeDropInv'
  BY SafeDropStep, SetFactsHold
<1> QED BY <1>1, <1>2, <1>3, PTL DEF Spec

=============================================================================
