----------------------------- MODULE MopProofs ------------------------------
(***************************************************************************)
(* Proofs about the analysis of nested calls for every set of crates: no   *)
(* function is analysed twice at a time on behalf of a caller, although a  *)
(* round of the loop over orders puts back a copy of the set that ensures  *)
(* it; and the branches of a block start from the same graph, however many *)
(* blocks and calls the branches before them have had.                     *)
(***************************************************************************)
EXTENDS Mop, SeqLemmas

\* The functions that are analysed for a caller, up to the k-th in progress.
NestedUpTo(k) == {active[j].fn : j \in 2 .. k}

\* What a frame keeps while the function goes on: the copy of recursion_set is
\* the set R of its function, and a backup holds what a restore puts back.
FrameKeeps(f, R) ==
  /\ "k" \in DOMAIN f
  /\ f.k = "orders" => "recursion_set" \in DOMAIN f /\ f.recursion_set = R
  /\ f.k = "split" => "entry" \in DOMAIN f
  /\ f.k = "restore" => "saved" \in DOMAIN f /\ f.saved = Saved(f.saved)

\* h may lie directly above f: the backup is taken where the branches start, and
\* a round of the loop over orders is above that loop.
Above(f, h) ==
  /\ f.k = "split" => h.k = "restore" /\ h.saved = f.entry
  /\ h.k = "exits" => f.k = "orders"

Framed(fs, g, R) ==
  /\ IsSeq(fs)
  /\ \A i \in 1 .. Len(fs) : FrameKeeps(fs[i], R)
  /\ \A i, j \in 1 .. Len(fs) : j = i + 1 => Above(fs[i], fs[j])
  /\ fs # <<>> => /\ fs[1].k # "exits"
                  /\ fs[Len(fs)].k = "split" => Saved(g) = fs[Len(fs)].entry

\* A function in progress.
Running(c, R) == {"fn", "g", "frames"} \subseteq DOMAIN c /\ Framed(c.frames, c.g, R)

\* A caller waits for the summary of its callee.
Waits(c) == c.frames # <<>> /\ Last(c.frames).k = "await"

MopInv ==
  /\ IsSeq(active)
  /\ \A k \in 1 .. Len(active) : Running(active[k], NestedUpTo(k))
  /\ \A k \in 1 .. Len(active) - 1 : Waits(active[k])
  /\ \A i, j \in 2 .. Len(active) : active[i].fn = active[j].fn => i = j
  /\ active # <<>> => recursion_set = NestedUpTo(Len(active))

-----------------------------------------------------------------------------
(* The frames of one function *)

\* What takes the place of the last frame fits: the frame below it waits for a
\* restore only if the last frame was one, and then the graph is restored.
LEMMA FramedStep ==
  ASSUME NEW R, NEW s, NEW g, Framed(s, g, R), s # <<>>,
         NEW t, NEW h, Framed(t, h, R), NEW r, r = Below(s) \o t,
         t # <<>> => s[Len(s)].k # "restore",
         t = <<>> /\ s[Len(s)].k = "restore" => Saved(h) = s[Len(s)].saved
  PROVE  Framed(r, h, R)
<1>1. PICK n, m : n = Len(s) /\ m = Len(t)
  BY Zenon
<1>2. /\ IsSeq(r) /\ n \in Nat \ {0} /\ m \in Nat /\ Len(r) = n - 1 + m
      /\ \A i \in 1 .. n - 1 : r[i] = s[i]
      /\ \A i \in 1 .. m : r[n - 1 + i] = t[i]
  <2>1. IsSeq(s) /\ IsSeq(t)
    BY DEF Framed
  <2>2. Replaced(r, s, t)
    BY <2>1, ReplaceIs, Zenon
  <2> QED BY <2>2, <1>1, Zenon DEF Replaced
<1>3. \A j \in 1 .. n - 1 + m : j \in 1 .. n - 1 \/ \E l \in 1 .. m : j = n - 1 + l
  <2> SUFFICES ASSUME NEW j \in 1 .. n - 1 + m, j \notin 1 .. n - 1
               PROVE  \E l \in 1 .. m : j = n - 1 + l
    OBVIOUS
  <2>1. j - n + 1 \in 1 .. m /\ j = n - 1 + (j - n + 1)
    BY <1>2
  <2> QED BY <2>1
<1>4. (r = <<>> <=> n - 1 + m = 0) /\ (t = <<>> <=> m = 0)
  BY <1>1, <1>2, SeqFacts DEF IsSeq, Framed
<1>5. /\ \A i \in 1 .. n : FrameKeeps(s[i], R)
      /\ \A i, j \in 1 .. n : j = i + 1 => Above(s[i], s[j])
      /\ s[1].k # "exits"
      /\ \A i \in 1 .. m : FrameKeeps(t[i], R)
      /\ \A i, j \in 1 .. m : j = i + 1 => Above(t[i], t[j])
      /\ m # 0 => t[1].k # "exits" /\ (t[m].k = "split" => Saved(h) = t[m].entry)
      /\ m # 0 => s[n].k # "restore"
      /\ m = 0 /\ s[n].k = "restore" => Saved(h) = s[n].saved
  BY <1>1, <1>4 DEF Framed
<1>6. \A i \in 1 .. n - 1 : i \in 1 .. n
  BY <1>2
<1>7. ASSUME NEW j \in 1 .. Len(r) PROVE FrameKeeps(r[j], R)
  <2>1. CASE j \in 1 .. n - 1
    BY <2>1, <1>2, <1>5, <1>6
  <2>2. ASSUME NEW l \in 1 .. m, j = n - 1 + l PROVE FrameKeeps(r[j], R)
    BY <2>2, <1>2, <1>5, Zenon
  <2> QED BY <2>1, <2>2, <1>2, <1>3, Zenon
<1>8. ASSUME NEW i \in 1 .. Len(r), NEW j \in 1 .. Len(r), j = i + 1
      PROVE  Above(r[i], r[j])
  <2>1. CASE j \in 1 .. n - 1
    <3>1. i \in 1 .. n - 1
      BY <2>1, <1>8, <1>2
    <3> QED BY <2>1, <3>1, <1>8, <1>2, <1>5, <1>6, Zenon
  <2>2. CASE i \in 1 .. n - 1 /\ j \notin 1 .. n - 1
    <3>1. i = n - 1 /\ j = n - 1 + 1 /\ 1 \in 1 .. m /\ n \in 1 .. n /\ n = i + 1 /\ m # 0
      <4>1. n \in Nat /\ m \in Nat /\ Len(r) = n - 1 + m
        BY <1>2
      <4> QED BY <4>1, <2>2, <1>8
    <3>2. r[i] = s[i] /\ r[j] = t[1]
      BY <2>2, <3>1, <1>2, Zenon
    <3>3. Above(s[i], s[n])
      BY <2>2, <3>1, <1>5, <1>6
    <3> QED BY <3>1, <3>2, <3>3, <1>5, Zenon DEF Above
  <2>3. ASSUME NEW l \in 1 .. m, i = n - 1 + l, NEW q \in 1 .. m, j = n - 1 + q
        PROVE  Above(r[i], r[j])
    <3>1. q = l + 1
      BY <2>3, <1>8, <1>2
    <3>2. r[i] = t[l] /\ r[j] = t[q]
      BY <2>3, <1>2, Zenon
    <3> QED BY <3>1, <3>2, <1>5
  <2>4. i \notin 1 .. n - 1 => j \notin 1 .. n - 1
    BY <1>8, <1>2
  <2> QED BY <2>1, <2>2, <2>3, <2>4, <1>2, <1>3, Zenon
<1>9. ASSUME n - 1 + m # 0 PROVE r[1].k # "exits"
  <2>1. CASE n = 1
    <3>1. m # 0 /\ 1 \in 1 .. m /\ n - 1 + 1 = 1
      BY <2>1, <1>9, <1>2
    <3>2. r[1] = t[1]
      BY <3>1, <1>2
    <3> QED BY <3>1, <3>2, <1>5
  <2>2. CASE n # 1
    <3>1. 1 \in 1 .. n - 1
      BY <2>2, <1>2
    <3> QED BY <3>1, <1>2, <1>5
  <2> QED BY <2>1, <2>2, Zenon
<1>10. ASSUME n - 1 + m # 0, r[n - 1 + m].k = "split" PROVE Saved(h) = r[n - 1 + m].entry
  <2>1. CASE m # 0
    <3>1. m \in 1 .. m
      BY <2>1, <1>2
    <3> QED BY <2>1, <3>1, <1>10, <1>2, <1>5, Zenon
  <2>2. CASE m = 0
    <3>1. n - 1 + m \in 1 .. n - 1 /\ n - 1 + m \in 1 .. n /\ n \in 1 .. n /\ n = n - 1 + m + 1
      BY <2>2, <1>10, <1>2
    <3>2. PICK i \in 1 .. n - 1 : i = n - 1 + m
      BY <3>1
    <3>3. Above(s[i], s[n]) /\ r[i] = s[i]
      BY <3>1, <3>2, <1>2, <1>5, Zenon
    <3> QED BY <2>2, <3>2, <3>3, <1>10, <1>5 DEF Above
  <2> QED BY <2>1, <2>2, Zenon
<1>11. r # <<>> => /\ r[1].k # "exits"
                   /\ r[Len(r)].k = "split" => Saved(h) = r[Len(r)].entry
  BY <1>2, <1>4, <1>9, <1>10, SMTT(60)
<1> QED BY <1>2, <1>7, <1>8, <1>11, Zenon DEF Framed

\* Nothing, one, two or three frames.
LEMMA FramedLists ==
  ASSUME NEW R, NEW h
  PROVE  /\ Framed(<<>>, h, R)
         /\ \A f : FrameKeeps(f, R) /\ f.k # "exits" /\ (f.k = "split" => Saved(h) = f.entry)
                   => Framed(<<f>>, h, R)
         /\ \A f, e : /\ FrameKeeps(f, R) /\ FrameKeeps(e, R) /\ Above(f, e)
                      /\ f.k # "exits" /\ e.k # "split"
                      => Framed(<<f, e>>, h, R)
         /\ \A f, e, d : /\ FrameKeeps(f, R) /\ FrameKeeps(e, R) /\ FrameKeeps(d, R)
                         /\ Above(f, e) /\ Above(e, d) /\ f.k # "exits" /\ d.k # "split"
                         => Framed(<<f, e, d>>, h, R)
<1>1. Framed(<<>>, h, R)
  BY DEF Framed, IsSeq, Range
<1>2. ASSUME NEW f, FrameKeeps(f, R), f.k # "exits", f.k = "split" => Saved(h) = f.entry
      PROVE  Framed(<<f>>, h, R)
  <2>1. PICK fs : fs = <<f>>
    BY Zenon
  <2>2. IsSeq(fs) /\ Len(fs) = 1 /\ fs[1] = f
    BY <2>1 DEF IsSeq, Range
  <2>3. /\ \A j \in 1 .. Len(fs) : j = 1
        /\ \A i, j \in 1 .. Len(fs) : j # i + 1
    BY <2>2
  <2>4. Framed(fs, h, R)
    BY <2>2, <2>3, <1>2 DEF Framed
  <2> QED BY <2>1, <2>4
<1>3. ASSUME NEW f, NEW e, FrameKeeps(f, R), FrameKeeps(e, R), Above(f, e),
             f.k # "exits", e.k # "split"
      PROVE  Framed(<<f, e>>, h, R)
  <2>1. PICK fs : fs = <<f, e>>
    BY Zenon
  <2>2. IsSeq(fs) /\ Len(fs) = 2 /\ fs[1] = f /\ fs[2] = e
    BY <2>1 DEF IsSeq, Range
  <2>3. /\ \A j \in 1 .. Len(fs) : j = 1 \/ j = 2
        /\ \A i, j \in 1 .. Len(fs) : j = i + 1 => i = 1 /\ j = 2
    BY <2>2
  <2>4. Framed(fs, h, R)
    BY <2>2, <2>3, <1>3, Zenon DEF Framed
  <2> QED BY <2>1, <2>4
<1>4. ASSUME NEW f, NEW e, NEW d, FrameKeeps(f, R), FrameKeeps(e, R), FrameKeeps(d, R),
             Above(f, e), Above(e, d), f.k # "exits", d.k # "split"
      PROVE  Framed(<<f, e, d>>, h, R)
  <2>1. PICK fs : fs = <<f, e, d>>
    BY Zenon
  <2>2. IsSeq(fs) /\ Len(fs) = 3 /\ fs[1] = f /\ fs[2] = e /\ fs[3] = d
    BY <2>1 DEF IsSeq, Range
  <2>3. /\ \A j \in 1 .. Len(fs) : j = 1 \/ j = 2 \/ j = 3
        /\ \A i, j \in 1 .. Len(fs) : j = i + 1 => (i = 1 /\ j = 2) \/ (i = 2 /\ j = 3)
    BY <2>2
  <2>4. Framed(fs, h, R)
    BY <2>2, <2>3, <1>4, Zenon DEF Framed
  <2> QED BY <2>1, <2>4
<1> QED BY <1>1, <1>2, <1>3, <1>4

\* A frame that goes on with another list keeps what it is.
LEMMA RestKeeps ==
  ASSUME NEW R, NEW f, FrameKeeps(f, R), NEW x
  PROVE  /\ FrameKeeps([f EXCEPT !.todo = x], R) /\ [f EXCEPT !.todo = x].k = f.k
         /\ f.k = "split" => [f EXCEPT !.todo = x].entry = f.entry
         /\ FrameKeeps([f EXCEPT !.ans = x], R) /\ [f EXCEPT !.ans = x].k = f.k
<1>1. "k" \in DOMAIN f
  BY DEF FrameKeeps
<1>2. /\ "k" \in DOMAIN [f EXCEPT !.todo = x] /\ [f EXCEPT !.todo = x].k = f.k
      /\ "k" \in DOMAIN [f EXCEPT !.ans = x] /\ [f EXCEPT !.ans = x].k = f.k
  BY <1>1
<1>3. f.k = "split" =>
        /\ "entry" \in DOMAIN [f EXCEPT !.todo = x] /\ [f EXCEPT !.todo = x].entry = f.entry
        /\ "entry" \in DOMAIN [f EXCEPT !.ans = x]
  BY DEF FrameKeeps
<1>4. f.k = "orders" =>
        /\ "recursion_set" \in DOMAIN [f EXCEPT !.todo = x]
        /\ [f EXCEPT !.todo = x].recursion_set = R
        /\ "recursion_set" \in DOMAIN [f EXCEPT !.ans = x]
        /\ [f EXCEPT !.ans = x].recursion_set = R
  BY DEF FrameKeeps
<1>5. f.k = "restore" =>
        /\ "saved" \in DOMAIN [f EXCEPT !.todo = x] /\ "saved" \in DOMAIN [f EXCEPT !.ans = x]
        /\ [f EXCEPT !.todo = x].saved = f.saved /\ [f EXCEPT !.ans = x].saved = f.saved
  BY DEF FrameKeeps
<1> QED BY <1>1, <1>2, <1>3, <1>4, <1>5 DEF FrameKeeps

\* A backup is what a restore puts back.
LEMMA SavedFacts ==
  /\ \A g : Saved(Saved(g)) = Saved(g)
  /\ \A g, s : s = Saved(s) => Saved(Restored(g, s)) = s
<1>1. \A g : Saved(Saved(g)) = Saved(g)
  BY DEF Saved
<1>2. ASSUME NEW g, NEW s, s = Saved(s) PROVE Saved(Restored(g, s)) = s
  <2>1. DOMAIN s = {"values", "constant", "alias_set"}
    BY <1>2 DEF Saved
  <2>2. \A x \in DOMAIN s : Restored(g, s)[x] = s[x]
    BY DEF Restored
  <2>3. /\ Restored(g, s).values = s.values /\ Restored(g, s).constant = s.constant
        /\ Restored(g, s).alias_set = s.alias_set
    BY <2>1, <2>2
  <2> QED BY <2>3, <1>2 DEF Saved
<1> QED BY <1>1, <1>2

-----------------------------------------------------------------------------
(* The functions in progress *)

\* The function that runs is the last in progress.
LEMMA TopFacts ==
  ASSUME MopInv, active # <<>>
  PROVE  /\ IsSeq(active) /\ Len(active) \in Nat \ {0} /\ Top = active[Len(active)]
         /\ Front(active) = Below(active)
         /\ Running(Top, recursion_set) /\ recursion_set = NestedUpTo(Len(active))
<1>1. IsSeq(active)
  BY DEF MopInv
<1>2. Len(active) \in Nat \ {0}
  BY <1>1, SeqFacts DEF IsSeq
<1>3. Top = active[Len(active)] /\ Front(active) = Below(active)
  BY DEF Top, Last, Front, Below
<1>4. recursion_set = NestedUpTo(Len(active))
  BY DEF MopInv
<1>5. Len(active) \in 1 .. Len(active)
  BY <1>2
<1>6. Running(active[Len(active)], NestedUpTo(Len(active)))
  BY <1>5 DEF MopInv
<1> QED BY <1>1, <1>2, <1>3, <1>4, <1>6

\* The running function goes on.
LEMMA Stays ==
  ASSUME MopInv, active # <<>>, NEW c, Running(c, recursion_set), c.fn = Top.fn,
         active' = Append(Front(active), c), recursion_set' = recursion_set
  PROVE  MopInv'
<1>1. PICK n : n = Len(active)
  BY Zenon
<1>2. /\ IsSeq(active) /\ n \in Nat \ {0} /\ Top = active[n] /\ Front(active) = Below(active)
      /\ recursion_set = NestedUpTo(n)
  BY <1>1, TopFacts
<1>3. Replaced(active', active, <<c>>)
  <2>1. Replaced(Append(Below(active), c), active, <<c>>)
    BY <1>2, AppendIs
  <2> QED BY <2>1, <1>2
<1>4. /\ IsSeq(active') /\ Len(active') = n /\ \A i \in 1 .. n - 1 : active'[i] = active[i]
      /\ active'[n] = c
  <2>1. PICK a, t : a = active' /\ t = <<c>>
    BY Zenon
  <2>2. Len(t) = 1 /\ t[1] = c
    BY <2>1
  <2>3. Replaced(a, active, t)
    BY <2>1, <1>3
  <2>4. IsSeq(a) /\ Len(a) = n /\ \A i \in 1 .. n - 1 : a[i] = active[i]
    BY <2>2, <2>3, <1>1 DEF Replaced
  <2>5. 1 \in 1 .. Len(t) /\ n - 1 + 1 = n
    BY <2>2, <1>2
  <2>6. a[n] = c
    BY <2>2, <2>3, <2>5, <1>1 DEF Replaced
  <2> QED BY <2>1, <2>4, <2>6
<1>5. \A i \in 1 .. n : i \in 1 .. n - 1 \/ i = n
  BY <1>2
<1>6. \A i \in 1 .. n : active'[i].fn = active[i].fn
  BY <1>2, <1>4, <1>5
<1>7. \A k \in 1 .. n : NestedUpTo(k)' = NestedUpTo(k)
  <2> SUFFICES ASSUME NEW k \in 1 .. n PROVE NestedUpTo(k)' = NestedUpTo(k)
    OBVIOUS
  <2>1. \A j \in 2 .. k : j \in 1 .. n
    BY <1>2
  <2> QED BY <2>1, <1>6, Zenon DEF NestedUpTo
<1>8. n \in 1 .. n /\ \A i \in 1 .. n - 1 : i \in 1 .. n
  BY <1>2
<1>9. ASSUME NEW k \in 1 .. n PROVE Running(active'[k], NestedUpTo(k)')
  <2>1. CASE k \in 1 .. n - 1
    BY <2>1, <1>1, <1>4, <1>7 DEF MopInv
  <2>2. CASE k = n
    BY <2>2, <1>2, <1>4, <1>7
  <2> QED BY <2>1, <2>2, <1>5, Zenon
<1>10. \A k \in 1 .. n - 1 : Waits(active'[k])
  BY <1>1, <1>4 DEF MopInv
<1>11. \A i, j \in 2 .. n : active'[i].fn = active'[j].fn => i = j
  <2>1. \A i \in 2 .. n : i \in 1 .. n
    BY <1>2
  <2> QED BY <2>1, <1>1, <1>6, Zenon DEF MopInv
<1>12. recursion_set' = NestedUpTo(n)'
  BY <1>2, <1>7, <1>8
<1>13. /\ IsSeq(active)'
       /\ \A k \in 1 .. Len(active') : Running(active[k], NestedUpTo(k))'
       /\ \A k \in 1 .. Len(active') - 1 : Waits(active[k])'
  BY <1>4, <1>9, <1>10, Zenon DEF IsSeq, Running, Framed, Waits
<1>14. (active # <<>>)' => recursion_set' = NestedUpTo(Len(active))'
  BY <1>4, <1>12
<1> QED BY <1>4, <1>11, <1>13, <1>14 DEF MopInv

\* The running function goes on with fs in the place of its last frame.
LEMMA FramesStep ==
  ASSUME MopInv, active # <<>>, Top.frames # <<>>, recursion_set' = recursion_set,
         NEW c, {"fn", "g", "frames"} \subseteq DOMAIN c, c.fn = Top.fn,
         active' = Append(Front(active), c),
         NEW fs, c.frames = Front(Top.frames) \o fs, Framed(fs, c.g, recursion_set),
         fs # <<>> => Frame.k # "restore",
         fs = <<>> /\ Frame.k = "restore" => Saved(c.g) = Frame.saved
  PROVE  MopInv'
<1>1. Framed(Top.frames, Top.g, recursion_set)
  BY TopFacts DEF Running
<1>2. Front(Top.frames) = Below(Top.frames) /\ Frame = Top.frames[Len(Top.frames)]
  BY DEF Front, Below, Frame, Last
<1>3. Framed(c.frames, c.g, recursion_set)
  <2>1. PICK s, r : s = Top.frames /\ r = c.frames
    BY Zenon
  <2>2. /\ Framed(s, Top.g, recursion_set) /\ s # <<>> /\ r = Below(s) \o fs
        /\ (fs # <<>> => s[Len(s)].k # "restore")
        /\ (fs = <<>> /\ s[Len(s)].k = "restore" => Saved(c.g) = s[Len(s)].saved)
    BY <2>1, <1>1, <1>2
  <2>3. Framed(r, c.g, recursion_set)
    BY <2>2, FramedStep, Zenon
  <2> QED BY <2>1, <2>3
<1>4. Running(c, recursion_set)
  BY <1>3 DEF Running
<1> QED BY <1>4, Stays

\* The same for Goes.
LEMMA GoesStep ==
  ASSUME MopInv, active # <<>>, Top.frames # <<>>, recursion_set' = recursion_set,
         NEW g, NEW fs, Goes(g, fs), Framed(fs, g, recursion_set),
         fs # <<>> => Frame.k # "restore",
         fs = <<>> /\ Frame.k = "restore" => Saved(g) = Frame.saved
  PROVE  MopInv'
<1>1. {"fn", "g", "frames"} \subseteq DOMAIN Top
  BY TopFacts DEF Running
<1>2. PICK c : c = [Top EXCEPT !.g = g, !.frames = Front(@) \o fs]
  BY Zenon
<1>3. /\ {"fn", "g", "frames"} \subseteq DOMAIN c /\ c.fn = Top.fn /\ c.g = g
      /\ c.frames = Front(Top.frames) \o fs
  BY <1>1, <1>2
<1>4. active' = Append(Front(active), c)
  BY <1>2 DEF Goes
<1> QED BY <1>3, <1>4, FramesStep, Zenon

\* Nothing takes the place of the last frame, or one, two or three frames do.
LEMMA GoesPut ==
  ASSUME MopInv, active # <<>>, Top.frames # <<>>, recursion_set' = recursion_set, NEW g
  PROVE  /\ Goes(g, <<>>) /\ (Frame.k = "restore" => Saved(g) = Frame.saved) => MopInv'
         /\ \A f : /\ Goes(g, <<f>>) /\ Frame.k # "restore" /\ FrameKeeps(f, recursion_set)
                   /\ f.k # "exits" /\ (f.k = "split" => Saved(g) = f.entry)
                   => MopInv'
         /\ \A f, e : /\ Goes(g, <<f, e>>) /\ Frame.k # "restore"
                      /\ FrameKeeps(f, recursion_set) /\ FrameKeeps(e, recursion_set)
                      /\ Above(f, e) /\ f.k # "exits" /\ e.k # "split"
                      => MopInv'
         /\ \A f, e, d : /\ Goes(g, <<f, e, d>>) /\ Frame.k # "restore"
                         /\ FrameKeeps(f, recursion_set) /\ FrameKeeps(e, recursion_set)
                         /\ FrameKeeps(d, recursion_set)
                         /\ Above(f, e) /\ Above(e, d) /\ f.k # "exits" /\ d.k # "split"
                         => MopInv'
<1>1. ASSUME Goes(g, <<>>), Frame.k = "restore" => Saved(g) = Frame.saved PROVE MopInv'
  <2>1. Framed(<<>>, g, recursion_set)
    BY FramedLists
  <2> QED BY <2>1, <1>1, GoesStep
<1>2. ASSUME NEW f, Goes(g, <<f>>), Frame.k # "restore", FrameKeeps(f, recursion_set),
             f.k # "exits", f.k = "split" => Saved(g) = f.entry
      PROVE  MopInv'
  <2>1. Framed(<<f>>, g, recursion_set)
    BY <1>2, FramedLists, Zenon
  <2> QED BY <2>1, <1>2, GoesStep
<1>3. ASSUME NEW f, NEW e, Goes(g, <<f, e>>), Frame.k # "restore",
             FrameKeeps(f, recursion_set), FrameKeeps(e, recursion_set), Above(f, e),
             f.k # "exits", e.k # "split"
      PROVE  MopInv'
  <2>1. Framed(<<f, e>>, g, recursion_set)
    BY <1>3, FramedLists, Zenon
  <2> QED BY <2>1, <1>3, GoesStep
<1>4. ASSUME NEW f, NEW e, NEW d, Goes(g, <<f, e, d>>), Frame.k # "restore",
             FrameKeeps(f, recursion_set), FrameKeeps(e, recursion_set),
             FrameKeeps(d, recursion_set), Above(f, e), Above(e, d),
             f.k # "exits", d.k # "split"
      PROVE  MopInv'
  <2>1. Framed(<<f, e, d>>, g, recursion_set)
    BY <1>4, FramedLists, Zenon
  <2> QED BY <2>1, <1>4, GoesStep
<1> QED BY <1>1, <1>2, <1>3, <1>4

-----------------------------------------------------------------------------
(* The actions *)

\* Most frames keep nothing.
LEMMA PlainFrame ==
  ASSUME NEW R, NEW f, "k" \in DOMAIN f, f.k \notin {"orders", "split", "restore"}
  PROVE  FrameKeeps(f, R)
BY DEF FrameKeeps

\* Frames of calls and effects keep nothing and lie anywhere but on a split.
LEMMA PlainFrames ==
  ASSUME NEW R
  PROVE  /\ \A bb : FrameKeeps(Pending(bb), R) /\ Pending(bb).k = "call"
         /\ \A bs : FrameKeeps(Effects(bs), R) /\ Effects(bs).k = "effects"
         /\ \A f, e : f.k # "split" /\ e.k # "exits" => Above(f, e)
<1>1. \A bb : "k" \in DOMAIN Pending(bb) /\ Pending(bb).k = "call"
  BY DEF Pending
<1>2. \A bs : "k" \in DOMAIN Effects(bs) /\ Effects(bs).k = "effects"
  BY DEF Effects
<1>3. \A f, e : f.k # "split" /\ e.k # "exits" => Above(f, e)
  BY DEF Above
<1>4. \A bb : FrameKeeps(Pending(bb), R)
  BY <1>1, PlainFrame
<1>5. \A bs : FrameKeeps(Effects(bs), R)
  BY <1>2, PlainFrame
<1> QED BY <1>1, <1>2, <1>3, <1>4, <1>5

\* The last frame of the running function.
LEMMA FrameFacts ==
  ASSUME MopInv, NEW k, At(k)
  PROVE  /\ active # <<>> /\ Top.frames # <<>> /\ Frame.k = k
         /\ FrameKeeps(Frame, recursion_set) /\ FrameKeeps(Rest, recursion_set) /\ Rest.k = k
         /\ k = "split" => Saved(Top.g) = Frame.entry /\ Rest.entry = Frame.entry
<1>1. active # <<>> /\ Top.frames # <<>> /\ Frame.k = k
  BY DEF At
<1>2. PICK s : s = Top.frames
  BY Zenon
<1>3. Framed(s, Top.g, recursion_set)
  BY <1>1, <1>2, TopFacts DEF Running
<1>4. Frame = s[Len(s)]
  BY <1>2 DEF Frame, Last
<1>5. Len(s) \in 1 .. Len(s)
  <2>1. Len(s) \in Nat /\ Len(s) # 0
    BY <1>1, <1>2, <1>3, SeqFacts DEF Framed, IsSeq
  <2> QED BY <2>1
<1>6. FrameKeeps(Frame, recursion_set) /\ (k = "split" => Saved(Top.g) = Frame.entry)
  BY <1>1, <1>2, <1>3, <1>4, <1>5 DEF Framed
<1>7. Rest = [Frame EXCEPT !.todo = Tail(Frame.todo)]
  BY DEF Rest
<1>8. FrameKeeps(Rest, recursion_set) /\ Rest.k = k /\ (k = "split" => Rest.entry = Frame.entry)
  BY <1>1, <1>6, <1>7, RestKeeps, Zenon
<1> QED BY <1>1, <1>6, <1>8

\* The effect of a block.
LEMMA BlockStep ==
  ASSUME MopInv, At("effects"), NEW g, BlockDone(g)
  PROVE  MopInv'
<1>1. /\ active # <<>> /\ Top.frames # <<>> /\ Frame.k = "effects"
      /\ FrameKeeps(Rest, recursion_set) /\ Rest.k = "effects"
  BY FrameFacts
<1>2. {"fn", "g", "frames"} \subseteq DOMAIN Top
  BY <1>1, TopFacts DEF Running
<1>3. PICK c : c = [Top EXCEPT !.g = g, !.frames = Front(@) \o <<Rest>>,
                               !.applied = @ \cup {Head(Frame.todo)}]
  BY Zenon
<1>4. /\ {"fn", "g", "frames"} \subseteq DOMAIN c /\ c.fn = Top.fn
      /\ c.frames = Front(Top.frames) \o <<Rest>>
  BY <1>2, <1>3
<1>5. active' = Append(Front(active), c) /\ recursion_set' = recursion_set
  BY <1>3 DEF BlockDone
<1>6. Framed(<<Rest>>, c.g, recursion_set)
  BY <1>1, FramedLists, Zenon
<1>7. <<Rest>> # <<>>
  OBVIOUS
<1> QED BY <1>1, <1>4, <1>5, <1>6, <1>7, FramesStep, Zenon

\* A block without a call, or with one that needs no analysis: nothing to apply,
\* no MIR, a cached summary.
LEMMA BlockSteps ==
  ASSUME MopInv, block_no_call \/ block_no_alias \/ block_unknown_call \/ block_cached_call
  PROVE  MopInv'
<1>1. At("effects") /\ \E g : BlockDone(g)
  <2>1. CASE block_no_call
    BY <2>1 DEF block_no_call, AtBlock
  <2>2. CASE block_no_alias
    BY <2>2 DEF block_no_alias, AtBlock
  <2>3. CASE block_unknown_call
    BY <2>3 DEF block_unknown_call, AtBlock
  <2>4. CASE block_cached_call
    BY <2>4 DEF block_cached_call, AtBlock
  <2> QED BY <2>1, <2>2, <2>3, <2>4
<1> QED BY <1>1, BlockStep

\* The frame is done, or a frame that keeps nothing goes on or takes its place.
LEMMA PlainStep ==
  ASSUME MopInv, NEW k, At(k), k # "restore", recursion_set' = recursion_set, NEW g
  PROVE  /\ Goes(g, <<>>) => MopInv'
         /\ \A f : /\ Goes(g, <<f>>) /\ "k" \in DOMAIN f
                   /\ f.k \notin {"orders", "split", "restore", "exits"}
                   => MopInv'
<1>1. active # <<>> /\ Top.frames # <<>> /\ Frame.k = k
  BY FrameFacts
<1>2. Goes(g, <<>>) => MopInv'
  BY <1>1, GoesPut
<1>3. ASSUME NEW f, Goes(g, <<f>>), "k" \in DOMAIN f,
             f.k \notin {"orders", "split", "restore", "exits"}
      PROVE  MopInv'
  <2>1. FrameKeeps(f, recursion_set)
    BY <1>3, PlainFrame
  <2> QED BY <2>1, <1>1, <1>3, GoesPut, Zenon
<1> QED BY <1>2, <1>3

\* The loop over orders starts with a copy of recursion_set.
LEMMA OrdersStart ==
  ASSUME MopInv, NEW k, At(k), k # "restore", recursion_set' = recursion_set,
         NEW root, NEW orders, Goes(Top.g, <<OrderLoop(root, orders)>>)
  PROVE  MopInv'
<1>1. active # <<>> /\ Top.frames # <<>> /\ Frame.k = k
  BY FrameFacts
<1>2. PICK f : f = OrderLoop(root, orders)
  BY Zenon
<1>3. /\ "k" \in DOMAIN f /\ f.k = "orders"
      /\ "recursion_set" \in DOMAIN f /\ f.recursion_set = recursion_set
  BY <1>2 DEF OrderLoop
<1>4. FrameKeeps(f, recursion_set)
  BY <1>3 DEF FrameKeeps
<1> QED BY <1>1, <1>2, <1>3, <1>4, GoesPut, Zenon

\* check of a block that is not refused: its component is entered.
LEMMA EnterSteps ==
  ASSUME MopInv, enter_child \/ enter \/ enter_component \/ ways_found
  PROVE  MopInv'
<1>1. CASE enter_child
  <2>1. At("enter") /\ recursion_set' = recursion_set
    BY <1>1, Zenon DEF enter_child
  <2>2. PICK b, r, t : Goes(Top.g, << [k |-> "child", bb |-> b, root |-> r, todo |-> t] >>)
    BY <1>1, Zenon DEF enter_child
  <2>3. PICK f : f = [k |-> "child", bb |-> b, root |-> r, todo |-> t]
    BY Zenon
  <2>4. "k" \in DOMAIN f /\ f.k = "child"
    BY <2>3
  <2> QED BY <2>1, <2>2, <2>3, <2>4, PlainStep, Zenon
<1>2. CASE enter
  <2>1. At("enter") /\ recursion_set' = recursion_set
    BY <1>2 DEF enter
  <2>2. PICK root, orders : Goes(Top.g, <<OrderLoop(root, orders)>>)
    BY <1>2 DEF enter
  <2> QED BY <2>1, <2>2, OrdersStart
<1>3. CASE enter_component
  <2>1. At("enter") /\ recursion_set' = recursion_set
    BY <1>3 DEF enter_component
  <2>2. PICK b, r, a, t :
          Goes(Top.g, << [k |-> "ways", bb |-> b, root |-> r, ans |-> a, todo |-> t] >>)
    BY <1>3, Zenon DEF enter_component
  <2>3. PICK f : f = [k |-> "ways", bb |-> b, root |-> r, ans |-> a, todo |-> t]
    BY Zenon
  <2>4. "k" \in DOMAIN f /\ f.k = "ways"
    BY <2>3
  <2> QED BY <2>1, <2>2, <2>3, <2>4, PlainStep
<1>4. CASE ways_found
  <2>1. At("ways") /\ recursion_set' = recursion_set
    BY <1>4 DEF ways_found
  <2>2. PICK root, orders : Goes(Top.g, <<OrderLoop(root, orders)>>)
    BY <1>4 DEF ways_found
  <2> QED BY <2>1, <2>2, OrdersStart
<1> QED BY <1>1, <1>2, <1>3, <1>4

\* The search for the ways round a component goes on in its frame.
LEMMA WaysStep ==
  ASSUME MopInv, calculate_scc_order
  PROVE  MopInv'
<1>1. At("ways") /\ recursion_set' = recursion_set
  BY Zenon DEF calculate_scc_order
<1>2. /\ FrameKeeps(Rest, recursion_set) /\ Rest.k = "ways"
  BY <1>1, FrameFacts
<1>3. ASSUME NEW g, NEW x, Goes(g, << [Rest EXCEPT !.todo = x] >>) \/ Goes(g, << [Rest EXCEPT !.ans = x] >>)
      PROVE  MopInv'
  <2>1. /\ "k" \in DOMAIN [Rest EXCEPT !.todo = x] /\ [Rest EXCEPT !.todo = x].k = "ways"
        /\ "k" \in DOMAIN [Rest EXCEPT !.ans = x] /\ [Rest EXCEPT !.ans = x].k = "ways"
    BY <1>2 DEF FrameKeeps
  <2> QED BY <2>1, <1>1, <1>3, PlainStep, Zenon
<1>4. \/ \E g, ws : Calling(g, ws)
      \/ \E w : Goes(Top.g, << [Rest EXCEPT !.ans = Append(@, w.path)] >>)
  BY Zenon DEF calculate_scc_order
<1>5. ASSUME NEW g, NEW ws, Calling(g, ws) PROVE MopInv'
  <2>1. Goes(g, << [Rest EXCEPT !.todo = ws \o Rest.todo] >>)
    BY <1>5 DEF Calling
  <2> QED BY <2>1, <1>3, Zenon
<1>6. ASSUME NEW w, Goes(Top.g, << [Rest EXCEPT !.ans = Append(@, w.path)] >>) PROVE MopInv'
  <2>1. Goes(Top.g, << [Rest EXCEPT !.ans = Append(Rest.ans, w.path)] >>)
    BY <1>6
  <2> QED BY <2>1, <1>3, Zenon
<1> QED BY <1>4, <1>5, <1>6, Zenon

\* check counts its call.
LEMMA CheckSteps ==
  ASSUME MopInv, check_over_limit \/ check
  PROVE  MopInv'
<1>1. At("call") /\ recursion_set' = recursion_set
  BY DEF check_over_limit, check
<1>2. active # <<>> /\ Top.frames # <<>> /\ Frame.k = "call"
  BY <1>1, FrameFacts
<1>3. {"fn", "g", "frames"} \subseteq DOMAIN Top /\ IsSeq(Top.frames)
  BY <1>2, TopFacts DEF Running, Framed
<1>4. CASE check_over_limit
  <2>1. PICK c : c = [Top EXCEPT !.visit_times = @ + 1, !.frames = Front(@)]
    BY Zenon
  <2>2. {"fn", "g", "frames"} \subseteq DOMAIN c /\ c.fn = Top.fn /\ c.frames = Front(Top.frames)
    BY <1>3, <2>1
  <2>3. active' = Append(Front(active), c)
    BY <1>4, <2>1 DEF check_over_limit
  <2>4. Front(Top.frames) = Front(Top.frames) \o <<>>
    BY <1>2, <1>3, BelowEmpty DEF Front, Below
  <2>5. Framed(<<>>, c.g, recursion_set)
    BY FramedLists
  <2>6. c.frames = Front(Top.frames) \o <<>>
    BY <2>2, <2>4
  <2> HIDE DEF Front
  <2> QED BY <1>1, <1>2, <2>2, <2>3, <2>5, <2>6, FramesStep, Zenon
<1>5. CASE check
  <2>1. PICK e, d : /\ active' = Append(Front(active), [Top EXCEPT !.visit_times = @ + 1,
                                                    !.frames = Front(@) \o <<e, d>>])
                    /\ e = [k |-> "enter", bb |-> Frame.bb]
                    /\ d = Effects(<<Top.scc_indices[Frame.bb]>>)
    BY <1>5, Zenon DEF check
  <2>2. PICK c : c = [Top EXCEPT !.visit_times = @ + 1, !.frames = Front(@) \o <<e, d>>]
    BY Zenon
  <2>3. /\ {"fn", "g", "frames"} \subseteq DOMAIN c /\ c.fn = Top.fn
        /\ c.frames = Front(Top.frames) \o <<e, d>>
    BY <1>3, <2>2
  <2>4. "k" \in DOMAIN e /\ e.k = "enter"
    BY <2>1
  <2>5. /\ FrameKeeps(e, recursion_set) /\ FrameKeeps(d, recursion_set) /\ d.k = "effects"
        /\ Above(e, d)
    BY <2>1, <2>4, PlainFrame, PlainFrames, Zenon
  <2>6. Framed(<<e, d>>, c.g, recursion_set)
    BY <2>4, <2>5, FramedLists, Zenon
  <2>7. active' = Append(Front(active), c)
    BY <2>1, <2>2
  <2>8. <<e, d>> # <<>>
    OBVIOUS
  <2> QED BY <1>1, <1>2, <2>3, <2>6, <2>7, <2>8, FramesStep, Zenon
<1> QED BY <1>4, <1>5

\* A round of the loop over orders starts: recursion_set is replaced by its copy,
\* which is the same set.
LEMMA OrderStep ==
  ASSUME MopInv, next_order
  PROVE  MopInv'
<1>1. At("orders")
  BY DEF next_order
<1>2. /\ active # <<>> /\ Top.frames # <<>> /\ Frame.k = "orders" /\ Rest.k = "orders"
      /\ FrameKeeps(Frame, recursion_set) /\ FrameKeeps(Rest, recursion_set)
  BY <1>1, FrameFacts
<1>3. recursion_set' = recursion_set
  BY <1>2 DEF next_order, FrameKeeps
<1>4. PICK g, e, d : /\ Goes(g, <<Rest, e, d>>) /\ e = [k |-> "exits", root |-> Frame.root]
                     /\ d = Effects(Head(Frame.todo))
  BY Zenon DEF next_order
<1>5. "k" \in DOMAIN e /\ e.k = "exits"
  BY <1>4
<1>6. FrameKeeps(e, recursion_set) /\ FrameKeeps(d, recursion_set) /\ d.k = "effects"
  BY <1>4, <1>5, PlainFrame, PlainFrames
<1>7. Above(Rest, e) /\ Above(e, d)
  BY <1>2, <1>5, <1>6 DEF Above
<1> QED BY <1>2, <1>3, <1>4, <1>5, <1>6, <1>7, GoesPut, Zenon

\* check returns from the middle of a round: the round and its loop are gone.
LEMMA TwoBelow ==
  ASSUME NEW R, NEW s, NEW g, Framed(s, g, R), s # <<>>, s[Len(s)].k = "exits",
         NEW t, NEW h, Framed(t, h, R)
  PROVE  /\ Framed(Below(Below(s)) \o t, h, R)
         /\ Below(Below(s)) \o <<>> = Below(Below(s))
<1>1. PICK u : u = Below(s)
  BY Zenon
<1>2. IsSeq(s)
  BY DEF Framed
<1>3. Framed(u, h, R)
  <2>1. Framed(<<>>, h, R)
    BY FramedLists
  <2>2. u = Below(s) \o <<>>
    BY <1>1, <1>2, BelowEmpty
  <2> QED BY <2>1, <2>2, FramedStep, Zenon
<1>4. Len(s) \in Nat \ {0}
  BY <1>2, SeqFacts DEF IsSeq
<1>5. Len(u) = Len(s) - 1 /\ \A i \in 1 .. Len(s) - 1 : u[i] = s[i]
  <2>1. s \in Seq(Range(s))
    BY <1>2 DEF IsSeq
  <2> QED BY <2>1, <1>1, FrontFacts
<1>6. Len(s) # 1
  BY DEF Framed
<1>7. PICK n \in 1 .. Len(s) : Len(s) = n + 1 /\ n = Len(s) - 1 /\ n \in 1 .. Len(s) - 1
  <2>1. \A l \in Nat \ {0} : l # 1 => l - 1 \in 1 .. l /\ l = l - 1 + 1 /\ l - 1 \in 1 .. l - 1
    OBVIOUS
  <2>2. /\ Len(s) - 1 \in 1 .. Len(s) /\ Len(s) = Len(s) - 1 + 1
        /\ Len(s) - 1 \in 1 .. Len(s) - 1
    BY <2>1, <1>4, <1>6, Zenon
  <2> QED BY <2>2, Zenon
<1>8. s[n].k = "orders"
  <2>1. Len(s) \in 1 .. Len(s)
    BY <1>4
  <2>2. Above(s[n], s[Len(s)])
    BY <2>1, <1>7 DEF Framed
  <2> QED BY <2>2 DEF Above
<1>9. u[Len(u)].k = "orders"
  BY <1>5, <1>7, <1>8
<1>10. IsSeq(u) /\ u # <<>>
  <2>1. IsSeq(u)
    BY <1>3 DEF Framed
  <2>2. Len(u) # 0
    BY <1>4, <1>5, <1>6
  <2>3. u # <<>>
    BY <2>2
  <2> QED BY <2>1, <2>3
<1>11. PICK r : r = Below(u) \o t
  BY Zenon
<1>12. Framed(r, h, R)
  BY <1>3, <1>9, <1>10, <1>11, FramedStep, Zenon
<1>13. Below(u) \o <<>> = Below(u)
  BY <1>10, BelowEmpty
<1> QED BY <1>1, <1>11, <1>12, <1>13

\* check returns from the round of a loop that has no way on.
LEMMA ExitSteps ==
  ASSUME MopInv, leaf \/ one_exit
  PROVE  MopInv'
<1>1. At("exits") /\ recursion_set' = recursion_set
  BY DEF leaf, one_exit
<1>2. active # <<>> /\ Top.frames # <<>> /\ Frame.k = "exits"
  BY <1>1, FrameFacts
<1>3. PICK s : s = Top.frames
  BY Zenon
<1>4. {"fn", "g", "frames"} \subseteq DOMAIN Top /\ Framed(s, Top.g, recursion_set)
  BY <1>2, <1>3, TopFacts DEF Running
<1>5. s # <<>> /\ s[Len(s)].k = "exits" /\ Front(Front(s)) = Below(Below(s))
  BY <1>2, <1>3 DEF Frame, Last, Front, Below
<1>6. CASE leaf
  <2>1. PICK c : /\ c = [Top EXCEPT !.g = merge_results(@, Body(Top.fn).arg_size),
                                    !.frames = Front(Front(@))]
                 /\ active' = Append(Front(active), c)
    BY <1>6, Zenon DEF leaf
  <2>2. {"fn", "g", "frames"} \subseteq DOMAIN c /\ c.fn = Top.fn /\ c.frames = Below(Below(s))
    BY <2>1, <1>3, <1>4, <1>5
  <2>3. Framed(<<>>, c.g, recursion_set)
    BY FramedLists
  <2>4. Framed(c.frames, c.g, recursion_set)
    BY <2>2, <2>3, <1>4, <1>5, TwoBelow, Zenon
  <2>5. Running(c, recursion_set)
    BY <2>2, <2>4 DEF Running
  <2> QED BY <2>1, <2>2, <2>5, <1>1, <1>2, Stays, Zenon
<1>7. CASE one_exit
  <2>1. PICK n, c : /\ c = [Top EXCEPT !.frames = Front(Front(@)) \o <<Pending(n)>>]
                    /\ active' = Append(Front(active), c)
    BY <1>7, Zenon DEF one_exit
  <2>2. /\ {"fn", "g", "frames"} \subseteq DOMAIN c /\ c.fn = Top.fn
        /\ c.frames = Below(Below(s)) \o <<Pending(n)>>
    BY <2>1, <1>3, <1>4, <1>5
  <2>3. Framed(<<Pending(n)>>, c.g, recursion_set)
    BY PlainFrames, FramedLists, Zenon
  <2>4. Framed(c.frames, c.g, recursion_set)
    BY <2>2, <2>3, <1>4, <1>5, TwoBelow
  <2>5. Running(c, recursion_set)
    BY <2>2, <2>4 DEF Running
  <2> QED BY <2>1, <2>2, <2>5, <1>1, <1>2, Stays, Zenon
<1> QED BY <1>6, <1>7

\* The branches of a block start from the graph in which the switch was looked at.
LEMMA BranchStep ==
  ASSUME MopInv, branch
  PROVE  MopInv'
<1>1. At("exits") /\ recursion_set' = recursion_set
  BY Zenon DEF branch
<1>2. active # <<>> /\ Top.frames # <<>> /\ Frame.k = "exits"
  BY <1>1, FrameFacts
<1>3. \A g, next : \A fs \in Plain(g, next) : \E x : fs = Split(g, x)
  BY Zenon DEF Plain
<1>4. \A r, t, m, next : \A fs \in Switched(r, t, m, next) :
        \E x : fs = <<Pending(x)>> \/ fs = Split(r.g, x)
  <2> SUFFICES ASSUME NEW r, NEW t, NEW m, NEW next, NEW fs \in Switched(r, t, m, next)
               PROVE  \E x : fs = <<Pending(x)>> \/ fs = Split(r.g, x)
    BY Zenon
  <2>1. \/ \E x : fs = <<Pending(x)>>
        \/ \E x : fs = Split(r.g, x)
        \/ fs \in Plain(r.g, next)
    BY Zenon DEF Switched
  <2> QED BY <2>1, <1>3
<1>5. \E g, x : Goes(g, <<Pending(x)>>) \/ Goes(g, Split(g, x))
  <2>1. \/ \E fs \in Plain(Top.g, Nexts) : Goes(Top.g, fs)
        \/ \E x : Goes(Top.g, <<Pending(x)>>)
        \/ \E r, t, m : \E fs \in Switched(r, t, m, Nexts) : Goes(r.g, fs)
    BY Zenon DEF branch
  <2>2. ASSUME NEW fs \in Plain(Top.g, Nexts), Goes(Top.g, fs)
        PROVE  \E g, x : Goes(g, Split(g, x))
    BY <2>2, <1>3
  <2>3. ASSUME NEW r, NEW t, NEW m, NEW fs \in Switched(r, t, m, Nexts), Goes(r.g, fs)
        PROVE  \E g, x : Goes(g, <<Pending(x)>>) \/ Goes(g, Split(g, x))
    <3>1. PICK x : fs = <<Pending(x)>> \/ fs = Split(r.g, x)
      BY <2>3, <1>4
    <3> QED BY <2>3, <3>1, Zenon
  <2> QED BY <2>1, <2>2, <2>3, Zenon
<1>6. ASSUME NEW g, NEW x, Goes(g, <<Pending(x)>>) PROVE MopInv'
  BY <1>1, <1>2, <1>6, PlainFrames, GoesPut, Zenon
<1>7. ASSUME NEW g, NEW x, Goes(g, Split(g, x)) PROVE MopInv'
  <2>1. PICK f : f = [k |-> "split", todo |-> x, entry |-> Saved(g)]
    BY Zenon
  <2>2. "k" \in DOMAIN f /\ f.k = "split" /\ "entry" \in DOMAIN f /\ f.entry = Saved(g)
    BY <2>1
  <2>3. FrameKeeps(f, recursion_set)
    BY <2>2 DEF FrameKeeps
  <2>4. Goes(g, <<f>>)
    BY <2>1, <1>7 DEF Split
  <2> QED BY <1>1, <1>2, <2>2, <2>3, <2>4, GoesPut
<1> QED BY <1>5, <1>6, <1>7

\* A branch is skipped, or it starts after a backup.
LEMMA SplitStep ==
  ASSUME MopInv, split_check
  PROVE  MopInv'
<1>1. At("split") /\ recursion_set' = recursion_set
  BY DEF split_check
<1>2. /\ active # <<>> /\ Top.frames # <<>> /\ Frame.k = "split" /\ Rest.k = "split"
      /\ FrameKeeps(Rest, recursion_set)
      /\ Saved(Top.g) = Frame.entry /\ Rest.entry = Frame.entry
  BY <1>1, FrameFacts
<1>3. \/ Goes(Top.g, <<Rest>>)
      \/ \E g, e, next : /\ Goes(g, <<Rest, e, Pending(next.bb)>>)
                         /\ e = [k |-> "restore", saved |-> Saved(Top.g), cond |-> next.cond]
  BY Zenon DEF split_check, Skipped
<1>4. CASE Goes(Top.g, <<Rest>>)
  BY <1>1, <1>2, <1>4, GoesPut
<1>5. ASSUME NEW g, NEW e, NEW next, Goes(g, <<Rest, e, Pending(next.bb)>>),
             e = [k |-> "restore", saved |-> Saved(Top.g), cond |-> next.cond]
      PROVE  MopInv'
  <2>1. /\ "k" \in DOMAIN e /\ e.k = "restore" /\ "saved" \in DOMAIN e
        /\ e.saved = Saved(Top.g)
    BY <1>5
  <2>2. FrameKeeps(e, recursion_set)
    BY <2>1, SavedFacts DEF FrameKeeps
  <2>3. Above(Rest, e)
    BY <2>1, <1>2 DEF Above
  <2>4. PICK d : d = Pending(next.bb)
    BY Zenon
  <2>5. FrameKeeps(d, recursion_set) /\ d.k = "call" /\ Above(e, d)
    BY <2>1, <2>4, PlainFrames
  <2> QED BY <1>1, <1>2, <1>5, <2>2, <2>3, <2>4, <2>5, GoesPut, Zenon
<1> QED BY <1>3, <1>4, <1>5, Zenon

\* The end of a branch puts the backup back.
LEMMA RestoreStep ==
  ASSUME MopInv, split_restore
  PROVE  MopInv'
<1>1. At("restore") /\ recursion_set' = recursion_set /\ Goes(Restored(Top.g, Frame.saved), <<>>)
  BY DEF split_restore
<1>2. active # <<>> /\ Top.frames # <<>> /\ Frame.k = "restore" /\ FrameKeeps(Frame, recursion_set)
  BY <1>1, FrameFacts
<1>3. Saved(Restored(Top.g, Frame.saved)) = Frame.saved
  BY <1>2, SavedFacts DEF FrameKeeps
<1> QED BY <1>1, <1>2, <1>3, GoesPut

\* A loop of check ends, or the graph is put back for the next target.
LEMMA EndSteps ==
  ASSUME MopInv, effects_end \/ loop_end \/ child_restore
  PROVE  MopInv'
<1>1. PICK k \in {"effects", "split", "orders", "child", "seq"} : At(k)
  BY DEF effects_end, loop_end, child_restore
<1>2. (\E g : Goes(g, <<>>)) /\ recursion_set' = recursion_set
  BY DEF effects_end, loop_end, child_restore
<1> QED BY <1>1, <1>2, PlainStep

\* The loops over the targets of a component and over its exits.
LEMMA ChildSteps ==
  ASSUME MopInv, child_target \/ child_work \/ child_blocks \/ child_exit
  PROVE  MopInv'
<1>1. CASE child_target
  <2>1. At("child") /\ recursion_set' = recursion_set
    BY <1>1 DEF child_target
  <2>2. PICK f : /\ Goes(Top.g, <<f>>)
                 /\ f = [k |-> "work", bb |-> Frame.bb, root |-> Frame.root,
                         todo |-> Tail(Frame.todo), target |-> Head(Frame.todo),
                         work_list |-> <<Frame.bb>>, work_set |-> {Frame.bb}, subs |-> <<>>]
    BY <1>1, Zenon DEF child_target
  <2>3. "k" \in DOMAIN f /\ f.k = "work"
    BY <2>2
  <2> QED BY <2>1, <2>2, <2>3, PlainStep, Zenon
<1>2. CASE child_work
  <2>1. At("work") /\ recursion_set' = recursion_set
    BY <1>2, Zenon DEF child_work
  <2>2. PICK b, p, f : /\ Goes(Top.g, <<f>>)
                       /\ f = [Frame EXCEPT !.work_list = Front(@) \o p,
                                            !.work_set = @ \cup Found(Frame, b),
                                            !.subs = Append(@, b)]
    BY <1>2, Zenon DEF child_work
  <2>3. "k" \in DOMAIN Frame /\ Frame.k = "work"
    BY <2>1, FrameFacts DEF FrameKeeps
  <2>4. "k" \in DOMAIN f /\ f.k = "work"
    BY <2>2, <2>3
  <2> QED BY <2>1, <2>2, <2>4, PlainStep, Zenon
<1>3. CASE child_blocks
  <2>1. At("work") /\ recursion_set' = recursion_set
    BY <1>3 DEF child_blocks
  <2>2. active # <<>> /\ Top.frames # <<>> /\ Frame.k = "work"
    BY <2>1, FrameFacts
  <2>3. PICK p, f, e, d :
          /\ Goes(Top.g, <<f, e, d>>)
          /\ f = [k |-> "child", bb |-> Frame.bb, root |-> Frame.root, todo |-> Frame.todo]
          /\ e = [k |-> "seq", todo |-> p,
                  saved |-> [values |-> Top.g.values, constant |-> Top.g.constant]]
          /\ d = Effects(Frame.subs)
    BY <1>3, Zenon DEF child_blocks
  <2>4. "k" \in DOMAIN f /\ f.k = "child" /\ "k" \in DOMAIN e /\ e.k = "seq"
    BY <2>3
  <2>5. /\ FrameKeeps(f, recursion_set) /\ FrameKeeps(e, recursion_set)
        /\ FrameKeeps(d, recursion_set) /\ d.k = "effects"
    BY <2>3, <2>4, PlainFrame, PlainFrames
  <2>6. Above(f, e) /\ Above(e, d)
    BY <2>4, <2>5, PlainFrames
  <2> QED BY <2>1, <2>2, <2>3, <2>4, <2>5, <2>6, GoesPut, Zenon
<1>4. CASE child_exit
  <2>1. At("seq") /\ recursion_set' = recursion_set
    BY <1>4 DEF child_exit
  <2>2. /\ active # <<>> /\ Top.frames # <<>> /\ Frame.k = "seq" /\ Rest.k = "seq"
        /\ FrameKeeps(Rest, recursion_set)
    BY <2>1, FrameFacts
  <2>3. PICK e : Goes(Top.g, <<Rest, e>>) /\ e = Pending(Head(Frame.todo))
    BY <1>4, Zenon DEF child_exit
  <2>4. FrameKeeps(e, recursion_set) /\ e.k = "call" /\ Above(Rest, e)
    BY <2>2, <2>3, PlainFrames
  <2> QED BY <2>1, <2>2, <2>3, <2>4, GoesPut, Zenon
<1> QED BY <1>1, <1>2, <1>3, <1>4

-----------------------------------------------------------------------------
(* Calls *)

\* A function starts with the call of check for its start block.
LEMMA OpensFacts ==
  ASSUME NEW f, NEW c \in Opens(f), NEW R
  PROVE  c.fn = f /\ Running(c, R)
<1>1. PICK bs, order : c = Opened(f, bs, order)
  BY Zenon DEF Opens
<1>2. {"fn", "g", "frames"} \subseteq DOMAIN c /\ c.fn = f /\ c.frames = <<Pending(0)>>
  BY <1>1, Zenon DEF Opened
<1>3. Framed(<<Pending(0)>>, c.g, R)
  BY PlainFrames, FramedLists, Zenon
<1> QED BY <1>2, <1>3 DEF Running

\* A function that is not in recursion_set is analysed for the running one.
LEMMA Calls ==
  ASSUME MopInv, active # <<>>,
         NEW c, Running(c, recursion_set), c.fn = Top.fn, Waits(c),
         NEW d, Running(d, recursion_set \cup {d.fn}), d.fn \notin recursion_set,
         active' = Front(active) \o <<c, d>>, recursion_set' = recursion_set \cup {d.fn}
  PROVE  MopInv'
<1>1. PICK n : n = Len(active)
  BY Zenon
<1>2. /\ IsSeq(active) /\ n \in Nat \ {0} /\ Top = active[n] /\ Front(active) = Below(active)
      /\ recursion_set = NestedUpTo(n)
  BY <1>1, TopFacts
<1>3. Replaced(active', active, <<c, d>>)
  <2>1. IsSeq(<<c, d>>)
    BY DEF IsSeq, Range
  <2>2. Replaced(Below(active) \o <<c, d>>, active, <<c, d>>)
    BY <2>1, <1>2, ReplaceIs
  <2> QED BY <2>2, <1>2
<1>4. /\ IsSeq(active') /\ Len(active') = n + 1 /\ \A i \in 1 .. n - 1 : active'[i] = active[i]
      /\ active'[n] = c /\ active'[n + 1] = d
  <2>1. PICK a, t : a = active' /\ t = <<c, d>>
    BY Zenon
  <2>2. Len(t) = 2 /\ t[1] = c /\ t[2] = d
    BY <2>1
  <2>3. Replaced(a, active, t)
    BY <2>1, <1>3, Zenon
  <2>4. IsSeq(a) /\ Len(a) = n + 1 /\ \A i \in 1 .. n - 1 : a[i] = active[i]
    BY <2>2, <2>3, <1>1 DEF Replaced
  <2>5. 1 \in 1 .. Len(t) /\ 2 \in 1 .. Len(t) /\ n - 1 + 1 = n /\ n - 1 + 2 = n + 1
    BY <2>2, <1>2
  <2>6. a[n] = c /\ a[n + 1] = d
    BY <2>2, <2>3, <2>5, <1>1 DEF Replaced
  <2> QED BY <2>1, <2>4, <2>6, Zenon
<1>5. \A i \in 1 .. n : i \in 1 .. n - 1 \/ i = n
  BY <1>2
<1>6. \A i \in 1 .. n : active'[i].fn = active[i].fn
  BY <1>2, <1>4, <1>5, Zenon
<1>7. \A k \in 1 .. n : NestedUpTo(k)' = NestedUpTo(k)
  <2> SUFFICES ASSUME NEW k \in 1 .. n PROVE NestedUpTo(k)' = NestedUpTo(k)
    OBVIOUS
  <2>1. \A j \in 2 .. k : j \in 1 .. n
    BY <1>2
  <2> QED BY <2>1, <1>6, Zenon DEF NestedUpTo
<1>8. NestedUpTo(n + 1)' = recursion_set \cup {d.fn}
  <2>1. \A j : j \in 2 .. n + 1 <=> j \in 2 .. n \/ j = n + 1
    BY <1>2
  <2>2. \A j \in 2 .. n : j \in 1 .. n
    BY <1>2
  <2>3. recursion_set = {active[j].fn : j \in 2 .. n}
    BY <1>2 DEF NestedUpTo
  <2>4. NestedUpTo(n + 1)' = {active'[j].fn : j \in 2 .. n + 1}
    BY DEF NestedUpTo
  <2>5. ASSUME NEW j \in 2 .. n + 1 PROVE active'[j].fn \in recursion_set \cup {d.fn}
    <3>1. CASE j \in 2 .. n
      BY <3>1, <2>2, <2>3, <1>6, Zenon
    <3>2. CASE j = n + 1
      BY <3>2, <1>4
    <3> QED BY <3>1, <3>2, <2>1, Zenon
  <2>6. ASSUME NEW x \in recursion_set \cup {d.fn}
        PROVE  \E j \in 2 .. n + 1 : x = active'[j].fn
    <3>1. CASE x = d.fn
      BY <3>1, <2>1, <1>4
    <3>2. CASE x \in recursion_set
      <4>1. PICK j \in 2 .. n : x = active[j].fn
        BY <3>2, <2>3
      <4> QED BY <4>1, <2>1, <2>2, <1>6, Zenon
    <3> QED BY <3>1, <3>2, Zenon
  <2>7. {active'[j].fn : j \in 2 .. n + 1} \subseteq recursion_set \cup {d.fn}
    BY <2>5, Zenon
  <2>8. recursion_set \cup {d.fn} \subseteq {active'[j].fn : j \in 2 .. n + 1}
    BY <2>6, Zenon
  <2> QED BY <2>4, <2>7, <2>8, Zenon
<1>9. /\ \A k \in 1 .. n + 1 : k \in 1 .. n \/ k = n + 1
      /\ \A k \in 2 .. n + 1 : k \in 2 .. n \/ k = n + 1
      /\ \A k \in 2 .. n : k \in 1 .. n
      /\ n + 1 - 1 = n /\ n \in 1 .. n
  BY <1>2
<1>10. ASSUME NEW k \in 1 .. n + 1 PROVE Running(active'[k], NestedUpTo(k)')
  <2>1. CASE k \in 1 .. n - 1
    <3>1. k \in 1 .. n
      BY <2>1, <1>2
    <3> QED BY <2>1, <3>1, <1>1, <1>4, <1>7 DEF MopInv
  <2>2. CASE k = n
    BY <2>2, <1>2, <1>4, <1>7, <1>9
  <2>3. CASE k = n + 1
    BY <2>3, <1>4, <1>8, Zenon
  <2> QED BY <2>1, <2>2, <2>3, <1>5, <1>9, Zenon
<1>11. \A k \in 1 .. n : Waits(active'[k])
  BY <1>1, <1>4, <1>5 DEF MopInv
<1>12. \A i \in 2 .. n : active'[i].fn # d.fn
  BY <1>2, <1>6, <1>9, Zenon DEF NestedUpTo
<1>13. ASSUME NEW i \in 2 .. n + 1, NEW j \in 2 .. n + 1, active'[i].fn = active'[j].fn
       PROVE  i = j
  <2>1. CASE i \in 2 .. n /\ j \in 2 .. n
    BY <2>1, <1>13, <1>1, <1>6, <1>9, Zenon DEF MopInv
  <2>2. CASE i = n + 1 \/ j = n + 1
    BY <2>2, <1>13, <1>4, <1>9, <1>12, Zenon
  <2> QED BY <2>1, <2>2, <1>9
<1>14. /\ IsSeq(active)'
       /\ \A k \in 1 .. Len(active') : Running(active[k], NestedUpTo(k))'
       /\ \A k \in 1 .. Len(active') - 1 : Waits(active[k])'
  <2>1. IsSeq(active)'
    BY <1>4, Zenon DEF IsSeq
  <2>2. \A k \in 1 .. Len(active') : Running(active[k], NestedUpTo(k))'
    BY <1>4, <1>10, Zenon DEF Running, Framed
  <2>3. Len(active') - 1 = n
    BY <1>4, <1>9
  <2>4. \A k \in 1 .. Len(active') - 1 : Waits(active[k])'
    BY <2>3, <1>11 DEF Waits
  <2> QED BY <2>1, <2>2, <2>4, Zenon
<1>15. (active # <<>>)' => recursion_set' = NestedUpTo(Len(active))'
  BY <1>4, <1>8
<1>16. \A i, j \in 2 .. Len(active') : active'[i].fn = active'[j].fn => i = j
  BY <1>4, <1>13, Zenon
<1> QED BY <1>14, <1>15, <1>16, Zenon DEF MopInv

\* alias_bbcall for a callee without a summary.
LEMMA NestedCall ==
  ASSUME MopInv, nested_call
  PROVE  MopInv'
<1>1. At("effects") /\ CallKind(Head(Frame.todo)) = "nested"
  BY DEF nested_call, AtBlock
<1>2. /\ active # <<>> /\ Top.frames # <<>> /\ Frame.k = "effects"
      /\ FrameKeeps(Rest, recursion_set) /\ Rest.k = "effects"
  BY <1>1, FrameFacts
<1>3. PICK f : f = CallOf(Head(Frame.todo)).fn.id
  BY Zenon
<1>4. f \notin recursion_set
  BY <1>1, <1>3 DEF CallKind
<1>5. PICK g, vec, e, c, d :
        /\ e = [k |-> "await", vec |-> vec]
        /\ c = [Top EXCEPT !.g = g, !.applied = @ \cup {Head(Frame.todo)},
                           !.frames = Front(@) \o <<Rest, e>>]
        /\ d \in Opens(f) /\ active' = Front(active) \o <<c, d>>
        /\ recursion_set' = recursion_set \cup {f}
  BY <1>3, Zenon DEF nested_call
<1>6. d.fn = f /\ Running(d, recursion_set \cup {d.fn})
  BY <1>5, OpensFacts
<1>7. {"fn", "g", "frames"} \subseteq DOMAIN Top /\ Framed(Top.frames, Top.g, recursion_set)
  BY <1>2, TopFacts DEF Running
<1>8. PICK s, t, r : s = Top.frames /\ t = <<Rest, e>> /\ r = Below(s) \o t
  BY Zenon
<1>9. {"fn", "g", "frames"} \subseteq DOMAIN c /\ c.fn = Top.fn /\ c.frames = r
  BY <1>5, <1>7, <1>8 DEF Front, Below
<1>10. "k" \in DOMAIN e /\ e.k = "await"
  BY <1>5
<1>11. Framed(t, c.g, recursion_set)
  <2>1. FrameKeeps(e, recursion_set) /\ Above(Rest, e)
    BY <1>2, <1>10, PlainFrame, PlainFrames
  <2> QED BY <2>1, <1>2, <1>8, <1>10, FramedLists, Zenon
<1>12. Framed(r, c.g, recursion_set)
  <2>1. Framed(s, Top.g, recursion_set) /\ s # <<>> /\ s[Len(s)].k # "restore" /\ t # <<>>
    BY <1>2, <1>7, <1>8 DEF Frame, Last
  <2> QED BY <2>1, <1>8, <1>11, FramedStep, Zenon
<1>13. Waits(c)
  <2>1. IsSeq(s) /\ IsSeq(t)
    BY <1>7, <1>8, <1>11 DEF Framed
  <2>2. Replaced(r, s, t)
    BY <2>1, <1>2, <1>8, ReplaceIs
  <2>3. Len(t) = 2 /\ t[2] = e
    BY <1>8
  <2>4. Len(r) = Len(s) - 1 + 2 /\ Len(s) \in Nat \ {0} /\ r[Len(s) - 1 + 2] = e
    BY <2>2, <2>3 DEF Replaced
  <2>5. r[Len(r)] = e /\ Len(r) # 0
    BY <2>4
  <2>6. r # <<>>
    BY <2>5
  <2> QED BY <2>5, <2>6, <1>9, <1>10 DEF Waits, Last
<1>14. Running(c, recursion_set)
  BY <1>9, <1>12 DEF Running
<1> QED BY <1>2, <1>4, <1>5, <1>6, <1>9, <1>13, <1>14, Calls, Zenon

\* The caller goes on without its callee.
LEMMA NestedReturn ==
  ASSUME MopInv, nested_return
  PROVE  MopInv'
<1>1. active # <<>> /\ Len(active) > 1
  BY DEF nested_return
<1>2. PICK n \in Nat : Len(active) = n + 2 /\ n = Len(active) - 2
  <2>1. Len(active) \in Nat /\ Len(active) > 1
    BY <1>1, TopFacts
  <2>2. Len(active) - 2 \in Nat /\ Len(active) = Len(active) - 2 + 2
    BY <2>1
  <2> QED BY <2>2, Zenon
<1>3. /\ IsSeq(active) /\ Top = active[n + 2] /\ recursion_set = NestedUpTo(n + 2)
  BY <1>1, <1>2, TopFacts
<1>4. /\ n + 1 \in 1 .. n + 2 /\ n + 1 \in 1 .. n + 1 /\ n + 2 - 1 = n + 1 /\ n + 2 \in 2 .. n + 2
      /\ \A i \in 1 .. n + 1 : i \in 1 .. n \/ i = n + 1
      /\ \A i \in 1 .. n + 1 : i \in 1 .. n + 2
      /\ \A i \in 2 .. n + 1 : i \in 2 .. n + 2 /\ i # n + 2 /\ i \in 1 .. n + 1
      /\ \A i \in 2 .. n + 2 : i \in 2 .. n + 1 \/ i = n + 2
  OBVIOUS
<1>5. /\ \A k \in 1 .. n + 2 : Running(active[k], NestedUpTo(k))
      /\ \A k \in 1 .. n + 1 : Waits(active[k])
      /\ \A i, j \in 2 .. n + 2 : active[i].fn = active[j].fn => i = j
  BY <1>2, <1>4 DEF MopInv
<1>6. PICK b, g, c : /\ b = active[n + 1] /\ c = [b EXCEPT !.g = g, !.frames = Front(@)]
                     /\ active' = Append(SubSeq(active, 1, n), c)
                     /\ recursion_set' = recursion_set \ {Top.fn}
  <2>1. Len(active) - 1 = n + 1
    BY <1>2
  <2> QED BY <2>1, <1>2, Zenon DEF nested_return
<1>7. Running(b, NestedUpTo(n + 1)) /\ Waits(b)
  BY <1>4, <1>5, <1>6
<1>8. PICK s : s = b.frames
  BY Zenon
<1>9. {"fn", "g", "frames"} \subseteq DOMAIN c /\ c.fn = b.fn /\ c.frames = Below(s)
  BY <1>6, <1>7, <1>8 DEF Running, Front, Below
<1>10. Framed(c.frames, c.g, NestedUpTo(n + 1))
  <2>1. Framed(s, b.g, NestedUpTo(n + 1)) /\ s # <<>> /\ s[Len(s)].k = "await"
    BY <1>7, <1>8 DEF Running, Waits, Last
  <2>2. IsSeq(s)
    BY <2>1 DEF Framed
  <2>3. Framed(<<>>, c.g, NestedUpTo(n + 1)) /\ c.frames = Below(s) \o <<>>
    BY <2>1, <2>2, <1>9, FramedLists, BelowEmpty
  <2> QED BY <2>1, <2>3, FramedStep, Zenon
<1>11. Running(c, NestedUpTo(n + 1))
  BY <1>9, <1>10 DEF Running
<1>12. /\ IsSeq(active') /\ Len(active') = n + 1 /\ active'[n + 1] = c
       /\ \A i \in 1 .. n : active'[i] = active[i]
  <2>1. n <= Len(active)
    BY <1>2
  <2>2. Resumed(active', active, n, c)
    BY <2>1, <1>3, <1>6, ResumeIs
  <2> QED BY <2>2 DEF Resumed
<1>13. \A i \in 1 .. n + 1 : active'[i].fn = active[i].fn
  BY <1>4, <1>6, <1>9, <1>12
<1>14. \A k \in 1 .. n + 1 : NestedUpTo(k)' = NestedUpTo(k)
  <2> SUFFICES ASSUME NEW k \in 1 .. n + 1 PROVE NestedUpTo(k)' = NestedUpTo(k)
    OBVIOUS
  <2>1. \A j \in 2 .. k : j \in 1 .. n + 1
    OBVIOUS
  <2> QED BY <2>1, <1>13 DEF NestedUpTo
<1>15. NestedUpTo(n + 1)' = recursion_set \ {Top.fn}
  <2>1. NestedUpTo(n + 1) \subseteq recursion_set \ {Top.fn}
    BY <1>3, <1>4, <1>5 DEF NestedUpTo
  <2>2. recursion_set \ {Top.fn} \subseteq NestedUpTo(n + 1)
    BY <1>3, <1>4 DEF NestedUpTo
  <2> QED BY <2>1, <2>2, <1>4, <1>14
<1>16. ASSUME NEW k \in 1 .. n + 1 PROVE Running(active'[k], NestedUpTo(k)')
  <2>1. CASE k \in 1 .. n
    BY <2>1, <1>4, <1>5, <1>12, <1>14
  <2>2. CASE k = n + 1
    BY <2>2, <1>4, <1>11, <1>12, <1>14
  <2> QED BY <2>1, <2>2, <1>4
<1>17. \A k \in 1 .. n : Waits(active'[k])
  BY <1>5, <1>12
<1>18. \A i, j \in 2 .. n + 1 : active'[i].fn = active'[j].fn => i = j
  BY <1>4, <1>5, <1>13
<1>19. IsSeq(active)'
  BY <1>12 DEF IsSeq
<1>20. \A k \in 1 .. Len(active') : Running(active[k], NestedUpTo(k))'
  BY <1>12, <1>16 DEF Running, Framed
<1>21. \A k \in 1 .. Len(active') - 1 : Waits(active[k])'
  <2>1. Len(active') - 1 = n
    BY <1>12
  <2> QED BY <2>1, <1>17 DEF Waits
<1>22. (active # <<>>)' => recursion_set' = NestedUpTo(Len(active))'
  BY <1>6, <1>12, <1>15
<1>23. \A i, j \in 2 .. Len(active') : active'[i].fn = active'[j].fn => i = j
  BY <1>12, <1>18
<1> QED BY <1>19, <1>20, <1>21, <1>22, <1>23 DEF MopInv

\* A step that changes nothing of the functions in progress.
LEMMA MopSame ==
  ASSUME MopInv, active' = active, recursion_set' = recursion_set
  PROVE  MopInv'
<1>1. \A k : NestedUpTo(k)' = NestedUpTo(k)
  BY DEF NestedUpTo
<1>2. IsSeq(active)'
  BY DEF MopInv, IsSeq
<1>3. \A k \in 1 .. Len(active') : Running(active[k], NestedUpTo(k))'
  <2>1. \A k \in 1 .. Len(active) : Running(active[k], NestedUpTo(k))
    BY DEF MopInv
  <2> QED BY <2>1, <1>1 DEF Running, Framed
<1>4. \A k \in 1 .. Len(active') - 1 : Waits(active[k])'
  <2>1. \A k \in 1 .. Len(active) - 1 : Waits(active[k])
    BY DEF MopInv
  <2> QED BY <2>1 DEF Waits
<1>5. /\ \A i, j \in 2 .. Len(active') : active'[i].fn = active'[j].fn => i = j
      /\ active' # <<>> => recursion_set' = NestedUpTo(Len(active))'
  <2>1. /\ \A i, j \in 2 .. Len(active) : active[i].fn = active[j].fn => i = j
        /\ active # <<>> => recursion_set = NestedUpTo(Len(active))
    BY DEF MopInv
  <2> QED BY <2>1 DEF NestedUpTo
<1> QED BY <1>2, <1>3, <1>4, <1>5 DEF MopInv

\* query_mop of a function that no caller asked for: it is skipped, begins or ends.
LEMMA QuerySteps ==
  ASSUME MopInv, query_skip \/ query_mop \/ query_end \/ handle_conor_cases
  PROVE  MopInv'
<1>1. CASE query_skip \/ handle_conor_cases
  <2>1. active' = active /\ recursion_set' = recursion_set
    BY <1>1 DEF query_skip, handle_conor_cases
  <2> QED BY <2>1, MopSame
<1>2. CASE query_end
  <2>1. active' = <<>>
    BY <1>2 DEF query_end
  <2>2. Len(active') = 0 /\ IsSeq(active')
    BY <2>1 DEF IsSeq, Range
  <2> QED BY <2>1, <2>2 DEF MopInv, IsSeq
<1>3. CASE query_mop
  <2>1. PICK f, c : c \in Opens(f) /\ active' = <<c>> /\ recursion_set' = {}
    BY <1>3 DEF query_mop
  <2>2. Running(c, {})
    BY <2>1, OpensFacts
  <2>3. /\ Len(active') = 1 /\ active'[1] = c /\ IsSeq(active')
    BY <2>1 DEF IsSeq, Range
  <2>4. /\ \A k \in 1 .. 1 : k = 1
        /\ \A k \in 1 .. 0 : FALSE
        /\ \A k \in 2 .. 1 : FALSE
        /\ 1 - 1 = 0
    OBVIOUS
  <2>5. NestedUpTo(1)' = {}
    BY <2>4, Zenon DEF NestedUpTo
  <2>6. \A k \in 1 .. Len(active') : Running(active[k], NestedUpTo(k))'
    BY <2>2, <2>3, <2>4, <2>5, Zenon DEF Running, Framed
  <2>7. \A k \in 1 .. Len(active') - 1 : Waits(active[k])'
    BY <2>3, <2>4, Zenon DEF Waits
  <2>8. \A i, j \in 2 .. Len(active') : active'[i].fn = active'[j].fn => i = j
    BY <2>3, <2>4, Zenon
  <2>9. IsSeq(active)' /\ recursion_set' = NestedUpTo(Len(active))'
    BY <2>1, <2>3, <2>5, Zenon DEF IsSeq
  <2> QED BY <2>6, <2>7, <2>8, <2>9 DEF MopInv
<1> QED BY <1>1, <1>2, <1>3

-----------------------------------------------------------------------------
\* Nothing is in progress at first.
LEMMA MopInit ==
  ASSUME Init
  PROVE  MopInv
<1>1. active = <<>>
  BY DEF Init
<1>2. Len(active) = 0 /\ IsSeq(active)
  BY <1>1 DEF IsSeq, Range
<1> QED BY <1>1, <1>2 DEF MopInv

\* Every step keeps the invariant.
LEMMA MopStep ==
  ASSUME MopInv, [Next]_vars
  PROVE  MopInv'
<1>1. CASE UNCHANGED vars
  BY <1>1, MopSame DEF vars
<1>2. CASE Step
  <2>1. CASE query_skip \/ query_mop \/ query_end \/ handle_conor_cases
    BY <2>1, QuerySteps
  <2>2. CASE block_no_call \/ block_no_alias \/ block_unknown_call \/ block_cached_call
    BY <2>2, BlockSteps
  <2>3. CASE nested_call
    BY <2>3, NestedCall
  <2>4. CASE nested_return
    BY <2>4, NestedReturn
  <2>5. CASE check_over_limit \/ check
    BY <2>5, CheckSteps
  <2>6. CASE enter_child \/ enter \/ enter_component \/ ways_found
    BY <2>6, EnterSteps
  <2>7. CASE calculate_scc_order
    BY <2>7, WaysStep
  <2>8. CASE next_order
    BY <2>8, OrderStep
  <2>9. CASE leaf \/ one_exit
    BY <2>9, ExitSteps
  <2>10. CASE branch
    BY <2>10, BranchStep
  <2>11. CASE split_check
    BY <2>11, SplitStep
  <2>12. CASE split_restore
    BY <2>12, RestoreStep
  <2>13. CASE effects_end \/ loop_end \/ child_restore
    BY <2>13, EndSteps
  <2>14. CASE child_target \/ child_work \/ child_blocks \/ child_exit
    BY <2>14, ChildSteps
  <2> QED BY <1>2, <2>1, <2>2, <2>3, <2>4, <2>5, <2>6, <2>7, <2>8, <2>9, <2>10, <2>11,
             <2>12, <2>13, <2>14 DEF Step
<1> QED BY <1>1, <1>2 DEF Next, Stop

INSTANCE FiniteSetTheorems

\* The set of callees in progress has as many members as there are callees.
LEMMA EachOnce ==
  ASSUME MopInv
  PROVE  NestedOnce
<1> SUFFICES ASSUME active # <<>>
             PROVE  /\ recursion_set = NestedUpTo(Len(active))
                    /\ Cardinality(NestedUpTo(Len(active))) = Len(active) - 1
  BY DEF NestedOnce, NestedUpTo
<1>1. PICK n : n = Len(active)
  BY Zenon
<1>2. n \in Nat \ {0} /\ recursion_set = NestedUpTo(n)
  BY <1>1, TopFacts
<1>3. \A i, j \in 2 .. n : active[i].fn = active[j].fn => i = j
  BY <1>1 DEF MopInv
<1>4. PICK S, T, f : S = 2 .. n /\ T = NestedUpTo(n) /\ f = [i \in S |-> active[i].fn]
  BY Zenon
<1>5. f \in Bijection(S, T)
  <2>1. f \in [S -> T] /\ \A i \in S : f[i] = active[i].fn
    BY <1>4 DEF NestedUpTo
  <2>2. \A i, j \in S : f[i] = f[j] => i = j
    BY <2>1, <1>3, <1>4
  <2>3. \A x \in T : \E i \in S : f[i] = x
    BY <2>1, <1>4 DEF NestedUpTo
  <2> QED BY <2>1, <2>2, <2>3 DEF Bijection, Injection, Surjection, IsInjective
<1>6. IsFiniteSet(S) /\ Cardinality(S) = n - 1
  <2>1. IsFiniteSet(2 .. n) /\ Cardinality(2 .. n) = IF 2 > n THEN 0 ELSE n - 2 + 1
    BY <1>2, FS_Interval
  <2>2. (IF 2 > n THEN 0 ELSE n - 2 + 1) = n - 1
    BY <1>2
  <2> QED BY <2>1, <2>2, <1>4
<1>7. Cardinality(T) = Cardinality(S)
  BY <1>5, <1>6, FS_Bijection DEF ExistsBijection
<1> QED BY <1>1, <1>2, <1>4, <1>6, <1>7

\* What the invariant says of the last frame is what the property says.
LEMMA StartAlike ==
  ASSUME MopInv
  PROVE  SiblingsStartAlike
<1> SUFFICES ASSUME NEW k \in DOMAIN active, active[k].frames # <<>>,
                    Last(active[k].frames).k = "split"
             PROVE  Saved(active[k].g) = Last(active[k].frames).entry
  BY DEF SiblingsStartAlike
<1>1. k \in 1 .. Len(active)
  BY DEF MopInv, IsSeq
<1>2. Framed(active[k].frames, active[k].g, NestedUpTo(k))
  BY <1>1 DEF MopInv, Running
<1> QED BY <1>2 DEF Framed, Last

\* alias_bbcall and the loop over orders: whatever crate is analysed, recursion_set
\* is exactly the functions analysed for a caller, and none is in progress twice.
THEOREM AnalysedOnce == Spec => []NestedOnce
<1>1. Init => MopInv
  BY MopInit
<1>2. MopInv /\ [Next]_vars => MopInv'
  BY MopStep
<1>3. MopInv => NestedOnce
  BY EachOnce
<1> QED BY <1>1, <1>2, <1>3, PTL DEF Spec

\* split_check and split_check_with_cond: nothing of a branch, whatever it called,
\* is left over for the branches after it.
THEOREM BranchesStartAlike == Spec => []SiblingsStartAlike
<1>1. Init => MopInv
  BY MopInit
<1>2. MopInv /\ [Next]_vars => MopInv'
  BY MopStep
<1>3. MopInv => SiblingsStartAlike
  BY StartAlike
<1> QED BY <1>1, <1>2, <1>3, PTL DEF Spec

=============================================================================
