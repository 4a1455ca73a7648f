--------------------------- MODULE AliasSetProofs ---------------------------
(***************************************************************************)
(* Proofs about alias_set for every number of locals, every set of         *)
(* discriminants and every number of nodes. The inductive invariant is     *)
(* TypeOK /\ Flat: from it union_find is two array reads, and the effect   *)
(* of union_merge on the roots can be written down without recursion.      *)
(***************************************************************************)
EXTENDS AliasSet, TLAPS

\* The root of a node of a flat array.
Root(a, i) == a[a[i]]

\* union_find follows at most three entries when no chain is longer.
LEMMA FindShallow ==
  ASSUME NEW D, NEW a \in [D -> D], NEW e \in D,
         \A r \in D : a[a[a[a[r]]]] = a[a[a[r]]]
  PROVE  union_find(a, e) = a[a[a[e]]]
<1> DEFINE step(f) == [r \in DOMAIN a |-> IF a[r] = r THEN r ELSE f[a[r]]]
           g == [r \in D |-> a[a[a[r]]]]
           find == CHOOSE f : f = step(f)
<1>1. DOMAIN a = D
  OBVIOUS
<1>2. g = step(g)
  <2>1. ASSUME NEW r \in D
        PROVE  g[r] = IF a[r] = r THEN r ELSE g[a[r]]
    BY <2>1
  <2> QED BY <2>1, <1>1
<1>3. find = step(find)
  <2> HIDE DEF step
  <2>1. \E f : f = step(f)
    BY <1>2
  <2> QED BY <2>1
<1>4. \A r \in D : find[r] = IF a[r] = r THEN r ELSE find[a[r]]
  <2> HIDE DEF find
  <2> QED BY <1>1, <1>3
<1>5. find[e] = a[a[a[e]]]
  <2> HIDE DEF find
  <2>1. /\ a[e] \in D /\ a[a[e]] \in D /\ a[a[a[e]]] \in D
    OBVIOUS
  <2> QED BY <1>4, <2>1
<1> QED BY <1>5 DEF union_find

-----------------------------------------------------------------------------

\* What Flat says of chains: two reads reach a root.
LEMMA RootFacts ==
  ASSUME IInv
  PROVE  /\ \A i \in Nodes : /\ alias_set[i] \in Nodes
                            /\ Root(alias_set, i) \in Nodes
                            /\ alias_set[Root(alias_set, i)] = Root(alias_set, i)
         /\ \A i \in Nodes \ Discr : /\ Root(alias_set, i) = alias_set[i]
                                    /\ Root(alias_set, i) \notin Discr
                                    /\ Root(alias_set, i) <= i
         /\ \A d \in Discr : /\ d \in Nodes
                             /\ \/ Root(alias_set, d) = d
                                \/ Root(alias_set, d) \notin Discr
<1> DEFINE a == alias_set
<1>1. a \in [Nodes -> Nodes]
  BY DEF IInv, TypeOK, Forests, Nodes
<1>2. Discr \subseteq Nodes
  BY SizesAssumption DEF IInv, TypeOK, Nodes
<1>3. \A i \in Nodes \ Discr : a[i] \notin Discr /\ a[i] <= i /\ a[a[i]] = a[i]
  BY DEF IInv, Flat
<1>4. \A d \in Discr : a[d] = d \/ a[d] \notin Discr
  BY DEF IInv, Flat
<1> HIDE DEF a
<1>5. \A i \in Nodes : a[i] \in Nodes /\ a[a[i]] \in Nodes /\ a[a[a[i]]] = a[a[i]]
  BY <1>1, <1>3, <1>4
<1>6. \A d \in Discr : a[a[d]] = d \/ a[a[d]] \notin Discr
  BY <1>1, <1>2, <1>3, <1>4
<1> QED BY <1>2, <1>3, <1>5, <1>6 DEF Root, a

\* In a flat array union_find returns the root.
LEMMA FindIsRoot ==
  ASSUME IInv, NEW e \in Nodes
  PROVE  union_find(alias_set, e) = Root(alias_set, e)
<1>1. alias_set \in [Nodes -> Nodes]
  BY DEF IInv, TypeOK, Forests, Nodes
<1>2. \A r \in Nodes : alias_set[alias_set[alias_set[alias_set[r]]]] = alias_set[alias_set[alias_set[r]]]
  BY RootFacts DEF Root
<1>3. union_find(alias_set, e) = alias_set[alias_set[alias_set[e]]]
  BY <1>1, <1>2, FindShallow
<1> QED BY <1>3, RootFacts DEF Root

\* The effect of union_merge: members of the two classes get the smaller of
\* the two roots, every other member gets the root it had.
LEMMA MergeIsUnion ==
  ASSUME IInv, NEW e1 \in Nodes \ Discr, NEW e2 \in Nodes \ Discr
  PROVE  LET f1 == Root(alias_set, e1)
             f2 == Root(alias_set, e2)
             least == IF f1 < f2 THEN f1 ELSE f2
         IN  union_merge(alias_set, e1, e2) =
               [m \in Nodes |-> IF Root(alias_set, m) \in {f1, f2}
                                THEN least ELSE Root(alias_set, m)]
<1> DEFINE f1 == Root(alias_set, e1)
           f2 == Root(alias_set, e2)
           least == IF f1 < f2 THEN f1 ELSE f2
           b == link(alias_set, f1, f2)
           R(m) == Root(alias_set, m)
           new(m) == IF R(m) \in {f1, f2} THEN least ELSE R(m)
<1>1. alias_set \in [Nodes -> Nodes] /\ DOMAIN alias_set = Nodes
  BY Zenon DEF IInv, TypeOK, Forests, Nodes
<1>2. /\ f1 \in Nodes /\ f2 \in Nodes /\ f1 \in Nat /\ f2 \in Nat
      /\ alias_set[f1] = f1 /\ alias_set[f2] = f2
      /\ f1 \notin Discr /\ f2 \notin Discr
  BY RootFacts DEF Nodes, IInv, TypeOK
<1>3. b \in [Nodes -> Nodes] /\ DOMAIN b = Nodes
  BY <1>1, <1>2 DEF link
<1>4. \A r \in Nodes : b[r] = IF r \in {f1, f2} THEN least ELSE alias_set[r]
  BY <1>1, <1>2 DEF link
<1>5. b[least] = least
  BY <1>2, <1>4
<1>6. \A m \in Nodes : b[b[b[m]]] = new(m)
  <2> SUFFICES ASSUME NEW m \in Nodes PROVE b[b[b[m]]] = new(m)
    OBVIOUS
  <2> HIDE DEF b, f1, f2
  <2>1. CASE m \in {f1, f2}
    <3>1. R(m) = m
      BY <2>1, <1>2 DEF Root
    <3> QED BY <2>1, <3>1, <1>2, <1>4, <1>5
  <2>2. CASE m \notin {f1, f2}
    <3>1. b[m] = alias_set[m] /\ alias_set[m] \in Nodes
      BY <2>2, <1>4, <1>1
    <3>2. CASE alias_set[m] \in {f1, f2}
      <4>1. R(m) = alias_set[m]
        BY <3>2, <1>2 DEF Root
      <4> QED BY <3>1, <3>2, <4>1, <1>4, <1>5
    <3>3. CASE alias_set[m] \notin {f1, f2}
      <4>1. b[b[m]] = R(m)
        BY <3>1, <3>3, <1>4 DEF Root
      <4>2. R(m) \in Nodes /\ alias_set[R(m)] = R(m)
        BY RootFacts
      <4> QED BY <4>1, <4>2, <1>4
    <3> QED BY <3>2, <3>3
  <2> QED BY <2>1, <2>2
<1>7. \A m \in Nodes : new(m) \in Nodes /\ b[new(m)] = new(m)
  <2> SUFFICES ASSUME NEW m \in Nodes PROVE new(m) \in Nodes /\ b[new(m)] = new(m)
    OBVIOUS
  <2>1. R(m) \in Nodes /\ alias_set[R(m)] = R(m)
    BY RootFacts
  <2> HIDE DEF b, f1, f2, R
  <2> QED BY <2>1, <1>2, <1>4, <1>5, Zenon
<1>8. \A m \in Nodes : union_find(b, b[m]) = new(m)
  <2> SUFFICES ASSUME NEW m \in Nodes PROVE union_find(b, b[m]) = new(m)
    OBVIOUS
  <2> HIDE DEF b, new
  <2>1. \A r \in Nodes : b[b[b[b[r]]]] = b[b[b[r]]]
    BY <1>6, <1>7
  <2>2. b[m] \in Nodes
    BY <1>3
  <2>3. union_find(b, b[m]) = b[b[b[b[m]]]]
    BY <2>1, <2>2, <1>3, FindShallow
  <2> QED BY <2>1, <2>3, <1>6
<1>9. union_find(alias_set, e1) = f1 /\ union_find(alias_set, e2) = f2
  BY FindIsRoot
<1> QED BY <1>1, <1>8, <1>9 DEF union_merge

-----------------------------------------------------------------------------

\* The entries after a step of each kind, with no recursion left in them.
LEMMA NextCases ==
  ASSUME IInv, [Next]_vars
  PROVE  \/ UNCHANGED vars
         \/ push
         \/ \E e1, e2 \in Nodes \ Discr :
              LET f1 == Root(alias_set, e1)
                  f2 == Root(alias_set, e2)
                  least == IF f1 < f2 THEN f1 ELSE f2
              IN  /\ alias_set' = [m \in Nodes |-> IF Root(alias_set, m) \in {f1, f2}
                                                   THEN least ELSE Root(alias_set, m)]
                  /\ len' = len
         \/ \E lv \in Discr, rv \in Nodes \ Discr : variant(lv, rv)
<1>1. ASSUME NEW e1 \in Nodes \ Discr, NEW e2 \in Nodes \ Discr, merge(e1, e2)
      PROVE  LET f1 == Root(alias_set, e1)
                 f2 == Root(alias_set, e2)
                 least == IF f1 < f2 THEN f1 ELSE f2
             IN  /\ alias_set' = [m \in Nodes |-> IF Root(alias_set, m) \in {f1, f2}
                                                  THEN least ELSE Root(alias_set, m)]
                 /\ len' = len
  BY <1>1, MergeIsUnion DEF merge
<1> QED BY <1>1 DEF Next

\* One step keeps the array flat.
LEMMA FlatStep ==
  ASSUME IInv, [Next]_vars
  PROVE  IInv'
<1> DEFINE a == alias_set
<1>0. /\ len \in Nat \ {0} /\ NLocals <= len /\ a \in [Nodes -> Nodes]
      /\ Discr \subseteq Nodes /\ Nodes \subseteq Nat
  BY SizesAssumption DEF IInv, TypeOK, Forests, Nodes
<1>1. CASE UNCHANGED vars
  BY <1>1 DEF vars, IInv, TypeOK, Flat, Forests, Nodes
<1>2. CASE push
  <2>1. /\ len' = len + 1 /\ Nodes' = 0 .. len /\ Nodes' = Nodes \cup {len}
        /\ len \notin Nodes /\ len \notin Discr
        /\ a' = [i \in 0 .. len |-> IF i = len THEN len ELSE a[i]]
    BY <1>2, <1>0 DEF push, Nodes
  <2>2. TypeOK'
    <3>1. 0 .. len' - 1 = Nodes'
      BY <2>1 DEF Nodes
    <3>2. \A i \in Nodes' : (IF i = len THEN len ELSE a[i]) \in Nodes'
      BY <2>1, <1>0
    <3>3. a' \in [Nodes' -> Nodes']
      BY <2>1, <3>2
    <3>4. len' \in Nat \ {0} /\ NLocals <= len'
      BY <2>1, <1>0, SizesAssumption
    <3> QED BY <3>1, <3>3, <3>4, Zenon DEF TypeOK, Forests
  <2>3. \A i \in Nodes' \ Discr : a'[i] \notin Discr /\ a'[i] <= i /\ a'[a'[i]] = a'[i]
    BY <2>1, <1>0 DEF IInv, Flat, Nodes
  <2>4. \A d \in Discr : a'[d] = d \/ a'[d] \notin Discr
    BY <2>1, <1>0 DEF IInv, Flat, Nodes
  <2> QED BY <2>2, <2>3, <2>4 DEF IInv, Flat
<1>3. ASSUME NEW e1 \in Nodes \ Discr, NEW e2 \in Nodes \ Discr,
             LET f1 == Root(a, e1)
                 f2 == Root(a, e2)
                 least == IF f1 < f2 THEN f1 ELSE f2
             IN  /\ a' = [m \in Nodes |-> IF Root(a, m) \in {f1, f2}
                                          THEN least ELSE Root(a, m)]
                 /\ len' = len
      PROVE  IInv'
  <2> DEFINE f1 == Root(a, e1)
             f2 == Root(a, e2)
             least == IF f1 < f2 THEN f1 ELSE f2
             R(m) == Root(a, m)
  <2>1. /\ len' = len /\ Nodes' = Nodes
        /\ a' = [m \in Nodes |-> IF R(m) \in {f1, f2} THEN least ELSE R(m)]
    BY <1>3 DEF Nodes
  <2>2. /\ \A m \in Nodes : R(m) \in Nodes /\ R(R(m)) = R(m)
        /\ \A m \in Nodes \ Discr : R(m) \notin Discr /\ R(m) <= m
        /\ \A d \in Discr : R(d) = d \/ R(d) \notin Discr
    BY RootFacts DEF Root
  <2>3. /\ f1 \in Nodes \ Discr /\ f2 \in Nodes \ Discr
        /\ R(f1) = f1 /\ R(f2) = f2 /\ f1 \in Nat /\ f2 \in Nat
    BY <2>2, <1>0, Zenon
  <2>4. least \in {f1, f2} /\ least \in Nodes \ Discr /\ least <= f1 /\ least <= f2
    BY <2>3
  <2> HIDE DEF f1, f2, least, R
  <2>5. a' \in [Nodes -> Nodes]
    BY <2>1, <2>2, <2>4
  <2>6. TypeOK'
    BY <2>1, <2>5, <1>0, Zenon DEF TypeOK, Forests, Nodes
  <2>7. \A m \in Nodes : a'[m] = IF R(m) \in {f1, f2} THEN least ELSE R(m)
    BY <2>1
  <2>8. \A i \in Nodes \ Discr : a'[i] \notin Discr /\ a'[i] <= i /\ a'[a'[i]] = a'[i]
    <3> SUFFICES ASSUME NEW i \in Nodes \ Discr
                 PROVE  a'[i] \notin Discr /\ a'[i] <= i /\ a'[a'[i]] = a'[i]
      OBVIOUS
    <3>1. i \in Nat /\ R(i) \in Nat /\ least \in Nat /\ R(i) \in Nodes
      BY <1>0, <2>2, <2>4, Zenon
    <3>2. CASE R(i) \in {f1, f2}
      BY <3>1, <3>2, <2>2, <2>3, <2>4, <2>7
    <3>3. CASE R(i) \notin {f1, f2}
      BY <3>1, <3>3, <2>2, <2>3, <2>4, <2>7
    <3> QED BY <3>2, <3>3
  <2>9. \A d \in Discr : a'[d] = d \/ a'[d] \notin Discr
    BY <1>0, <2>2, <2>3, <2>4, <2>7
  <2> QED BY <2>1, <2>6, <2>8, <2>9 DEF IInv, Flat
<1>4. ASSUME NEW lv \in Discr, NEW rv \in Nodes \ Discr, variant(lv, rv)
      PROVE  IInv'
  <2>1. len' = len /\ Nodes' = Nodes /\ a' = [a EXCEPT ![lv] = rv]
    BY <1>4 DEF variant, Nodes
  <2>2. \A i \in Nodes : a'[i] = IF i = lv THEN rv ELSE a[i]
    BY <2>1, <1>0
  <2>3. TypeOK'
    BY <2>1, <1>0, Zenon DEF TypeOK, Forests, Nodes
  <2>4. \A i \in Nodes \ Discr : a'[i] \notin Discr /\ a'[i] <= i /\ a'[a'[i]] = a'[i]
    BY <2>2, <1>0, Zenon DEF IInv, Flat
  <2>5. \A d \in Discr : a'[d] = d \/ a'[d] \notin Discr
    BY <2>2, <1>0 DEF IInv, Flat
  <2> QED BY <2>1, <2>3, <2>4, <2>5 DEF IInv, Flat
<1> QED BY <1>1, <1>2, <1>3, <1>4, NextCases

\* The array that MopGraph::new and SafeDropGraph::new build is flat.
LEMMA FlatInit == Init => IInv
<1> SUFFICES ASSUME Init PROVE IInv
  OBVIOUS
<1>1. Nodes = 0 .. NLocals - 1 /\ \A i \in Nodes : alias_set[i] = i
  BY DEF Init, Nodes
<1>2. TypeOK
  BY SizesAssumption DEF Init, TypeOK, Forests
<1>3. Flat
  BY <1>1, SizesAssumption DEF Flat
<1> QED BY <1>2, <1>3 DEF IInv

\* For every number of nodes, alias_set keeps len in-range entries and stays flat
\* under every sequence of pushes, union_merges and Discriminant assignments.
THEOREM InductiveInvariant == Spec => []IInv
BY FlatInit, FlatStep, PTL DEF Spec

\* alias_set keeps len in-range entries, whatever is pushed, united or
\* assigned by a Discriminant statement.
THEOREM TypeCorrect == Spec => []TypeOK
BY InductiveInvariant, PTL DEF IInv

\* The forest stays flat and rooted at least nodes, so the loop of union_find
\* ends after at most two reads in every reachable state.
THEOREM StaysFlat == Spec => []Flat
BY InductiveInvariant, PTL DEF IInv

-----------------------------------------------------------------------------

\* Two nodes are in one class exactly when they have one root.
LEMMA SameIsSameRoot ==
  IInv => \A i, j \in Nodes :
            union_is_same(alias_set, i, j) <=> Root(alias_set, i) = Root(alias_set, j)
BY FindIsRoot DEF union_is_same

\* The head that projection follows is the least node of its class, so it is a
\* canonical name of the class.
THEOREM HeadIsLeastNode == Spec => []HeadIsLeast
<1>1. IInv => HeadIsLeast
  <2> SUFFICES ASSUME IInv PROVE HeadIsLeast
    OBVIOUS
  <2>1. ASSUME NEW i \in Nodes \ Discr
        PROVE  union_is_same(alias_set, i, alias_set[i])
    <3>1. alias_set[i] \in Nodes /\ Root(alias_set, alias_set[i]) = Root(alias_set, i)
      BY RootFacts DEF Root
    <3> QED BY <3>1, SameIsSameRoot
  <2>2. ASSUME NEW i \in Nodes \ Discr, NEW j \in Nodes \ Discr,
               union_is_same(alias_set, i, j)
        PROVE  alias_set[i] = alias_set[j] /\ alias_set[i] <= j
    <3>1. Root(alias_set, i) = Root(alias_set, j)
      BY <2>2, SameIsSameRoot
    <3> QED BY <3>1, RootFacts
  <2> QED BY <2>1, <2>2 DEF HeadIsLeast
<1> QED BY <1>1, InductiveInvariant, PTL

\* The classes before and after a step, in terms of roots.
LEMMA RootsAfter ==
  ASSUME IInv, IInv', [Next]_vars
  PROVE  /\ \A i, j \in Nodes :
              union_is_same(alias_set, i, j) <=> Root(alias_set, i) = Root(alias_set, j)
         /\ \A i, j \in Nodes' :
              union_is_same(alias_set', i, j) <=> Root(alias_set', i) = Root(alias_set', j)
<1>1. IInv' => (\A i, j \in Nodes :
                  union_is_same(alias_set, i, j) <=> Root(alias_set, i) = Root(alias_set, j))'
  BY SameIsSameRoot, PTL
<1> QED BY <1>1, SameIsSameRoot

\* The roots after a union: two nodes have one root when they had one, or when
\* each is in one of the two united classes.
LEMMA RootsAfterMerge ==
  ASSUME IInv, NEW e1 \in Nodes \ Discr, NEW e2 \in Nodes \ Discr, merge(e1, e2)
  PROVE  /\ Nodes' = Nodes
         /\ \A i, j \in Nodes :
              Root(alias_set', i) = Root(alias_set', j) <=>
                \/ Root(alias_set, i) = Root(alias_set, j)
                \/ /\ Root(alias_set, i) \in {Root(alias_set, e1), Root(alias_set, e2)}
                   /\ Root(alias_set, j) \in {Root(alias_set, e1), Root(alias_set, e2)}
<1> DEFINE R(m) == Root(alias_set, m)
           f1 == R(e1)
           f2 == R(e2)
           least == IF f1 < f2 THEN f1 ELSE f2
<1>1. Nodes' = Nodes
  BY DEF merge, Nodes
<1>2. alias_set' = [m \in Nodes |-> IF R(m) \in {f1, f2} THEN least ELSE R(m)]
  BY MergeIsUnion DEF merge
<1>3. \A m \in Nodes : R(m) \in Nodes /\ R(R(m)) = R(m)
  BY RootFacts DEF Root
<1>4. \A m \in Nodes : alias_set'[m] = IF R(m) \in {f1, f2} THEN least ELSE R(m)
  BY <1>2
<1>5. f1 \in Nodes /\ f2 \in Nodes /\ least \in {f1, f2} /\ R(f1) = f1 /\ R(f2) = f2
  BY <1>3
<1>6. \A m \in Nodes : Root(alias_set', m) = IF R(m) \in {f1, f2} THEN least ELSE R(m)
  <2> SUFFICES ASSUME NEW m \in Nodes
               PROVE  alias_set'[alias_set'[m]] = IF R(m) \in {f1, f2} THEN least ELSE R(m)
    BY DEF Root
  <2> HIDE DEF R, f1, f2, least
  <2> QED BY <1>3, <1>4, <1>5
<1> HIDE DEF R, f1, f2, least
<1>7. \A i, j \in Nodes : Root(alias_set', i) = Root(alias_set', j) <=>
                           (R(i) = R(j) \/ (R(i) \in {f1, f2} /\ R(j) \in {f1, f2}))
  BY <1>5, <1>6
<1> QED BY <1>1, <1>7 DEF R, f1, f2

\* The roots after a push: the new node is alone.
LEMMA RootsAfterPush ==
  ASSUME IInv, push
  PROVE  /\ Nodes' = Nodes \cup {len} /\ len \notin Nodes
         /\ \A i \in Nodes : Root(alias_set', i) = Root(alias_set, i)
         /\ Root(alias_set', len) = len
<1>1. /\ Nodes' = Nodes \cup {len} /\ len \notin Nodes /\ 0 .. len = Nodes \cup {len}
  BY DEF push, Nodes, IInv, TypeOK
<1>2. \A i \in Nodes \cup {len} : alias_set'[i] = IF i = len THEN len ELSE alias_set[i]
  BY <1>1 DEF push
<1>3. \A i \in Nodes : alias_set[i] \in Nodes
  BY RootFacts
<1> QED BY <1>1, <1>2, <1>3 DEF Root

\* The roots after a variant assignment: only the discriminant moves.
LEMMA RootsAfterVariant ==
  ASSUME IInv, NEW lv \in Discr, NEW rv \in Nodes \ Discr, variant(lv, rv)
  PROVE  /\ Nodes' = Nodes
         /\ \A i \in Nodes \ {lv} : Root(alias_set', i) = Root(alias_set, i) /\ Root(alias_set, i) # lv
         /\ Root(alias_set', lv) = Root(alias_set, rv)
<1>1. Nodes' = Nodes /\ lv \in Nodes /\ alias_set \in [Nodes -> Nodes]
  <2>1. Nodes' = Nodes
    BY DEF variant, Nodes
  <2>2. alias_set \in [Nodes -> Nodes]
    BY Zenon DEF Nodes, IInv, TypeOK, Forests
  <2> QED BY <2>1, <2>2, RootFacts
<1>2. \A i \in Nodes : alias_set'[i] = IF i = lv THEN rv ELSE alias_set[i]
  BY <1>1 DEF variant
<1>3. \A i \in Nodes : i # lv => alias_set[i] # lv /\ alias_set[i] \in Nodes
  BY <1>1 DEF IInv, Flat
<1>4. rv # lv /\ alias_set[alias_set[rv]] = alias_set[rv]
  BY RootFacts DEF Root
<1> QED BY <1>1, <1>2, <1>3, <1>4 DEF Root

\* No step of the analysis takes an alias away from two nodes that are no
\* discriminants: between a split and its restore aliases only accumulate.
THEOREM AliasesOnlyGrow == Spec => AliasesAreKept
<1>1. ASSUME IInv, IInv', [Next]_vars
      PROVE  [\A i, j \in Nodes \ Discr :
                union_is_same(alias_set, i, j) => union_is_same(alias_set', i, j)]_vars
  <2> SUFFICES ASSUME NEW i \in Nodes \ Discr, NEW j \in Nodes \ Discr,
                      Root(alias_set, i) = Root(alias_set, j),
                      ~ UNCHANGED vars
               PROVE  i \in Nodes' /\ j \in Nodes' /\ Root(alias_set', i) = Root(alias_set', j)
    BY <1>1, RootsAfter
  <2>1. CASE push
    BY <1>1, <2>1, RootsAfterPush
  <2>2. ASSUME NEW e1 \in Nodes \ Discr, NEW e2 \in Nodes \ Discr, merge(e1, e2)
        PROVE  i \in Nodes' /\ j \in Nodes' /\ Root(alias_set', i) = Root(alias_set', j)
    BY <1>1, <2>2, RootsAfterMerge
  <2>3. ASSUME NEW lv \in Discr, NEW rv \in Nodes \ Discr, variant(lv, rv)
        PROVE  i \in Nodes' /\ j \in Nodes' /\ Root(alias_set', i) = Root(alias_set', j)
    BY <1>1, <2>3, RootsAfterVariant
  <2> QED BY <1>1, <2>1, <2>2, <2>3 DEF Next
<1> QED BY <1>1, InductiveInvariant, PTL DEF Spec, AliasesAreKept

-----------------------------------------------------------------------------

\* The partition that the array stands for.
Classes == [i \in Nodes |-> {j \in Nodes : union_is_same(alias_set, i, j)}]

\* Every step of the array is a step of the partition.
LEMMA StepRefines ==
  ASSUME IInv, IInv', [Next]_vars
  PROVE  [P!Next]_(P!pvars)
<1> DEFINE R(m) == Root(alias_set, m)
           Q(m) == Root(alias_set', m)
           C == Classes
           D == [i \in Nodes' |-> {j \in Nodes' : union_is_same(alias_set', i, j)}]
<1>1. C = [i \in Nodes |-> {j \in Nodes : R(i) = R(j)}]
  BY RootsAfter DEF Classes
<1>2. D = [i \in Nodes' |-> {j \in Nodes' : Q(i) = Q(j)}]
  BY RootsAfter
<1>3. Classes' = D
  BY DEF Classes
<1>4. Nodes = 0 .. len - 1 /\ Nodes' = 0 .. len' - 1 /\ len \in Nat /\ len \notin Nodes
  BY DEF Nodes, IInv, TypeOK
<1>5. P!Nodes = Nodes
  BY DEF P!Nodes, Nodes
<1> HIDE DEF R, Q, C, D
<1>6. CASE UNCHANGED vars
  <2>1. UNCHANGED <<len, Classes>>
    BY <1>6 DEF vars, Classes, Nodes
  <2> QED BY <2>1 DEF P!pvars, Classes
<1>7. CASE push
  <2>1. /\ len' = len + 1 /\ Nodes' = Nodes \cup {len} /\ 0 .. len = Nodes'
        /\ \A i \in Nodes : Q(i) = R(i) /\ R(i) \in Nodes
        /\ Q(len) = len
    <3>1. len' = len + 1 /\ 0 .. len = Nodes'
      BY <1>7, <1>4 DEF push
    <3> QED BY <1>7, <3>1, RootsAfterPush, RootFacts DEF R, Q
  <2>2. D[len] = {len}
    BY <1>2, <1>4, <2>1
  <2>3. \A i \in Nodes : D[i] = C[i]
    BY <1>1, <1>2, <1>4, <2>1, SMTT(60)
  <2>4. D = [i \in 0 .. len |-> IF i = len THEN {len} ELSE C[i]]
    <3>1. \A i \in Nodes' : D[i] = IF i = len THEN {len} ELSE C[i]
      BY <2>1, <2>2, <2>3, Zenon
    <3>2. D = [i \in Nodes' |-> D[i]]
      BY <1>2
    <3> QED BY <2>1, <3>1, <3>2, Zenon
  <2>5. P!Grow
    BY <1>3, <2>1, <2>4, Zenon DEF P!Grow, C, Classes
  <2> QED BY <2>5 DEF P!Next
<1>8. ASSUME NEW e1 \in Nodes \ Discr, NEW e2 \in Nodes \ Discr, merge(e1, e2)
      PROVE  P!Next
  <2>1. /\ Nodes' = Nodes
        /\ \A i, j \in Nodes : Q(i) = Q(j) <=>
             (R(i) = R(j) \/ (R(i) \in {R(e1), R(e2)} /\ R(j) \in {R(e1), R(e2)}))
    BY <1>8, RootsAfterMerge DEF R, Q
  <2>2. \A i \in Nodes : D[i] = IF i \in C[e1] \cup C[e2] THEN C[e1] \cup C[e2] ELSE C[i]
    <3> SUFFICES ASSUME NEW i \in Nodes
                 PROVE  D[i] = IF i \in C[e1] \cup C[e2] THEN C[e1] \cup C[e2] ELSE C[i]
      OBVIOUS
    <3>1. \A x \in Nodes : C[x] = {j \in Nodes : R(x) = R(j)}
      BY <1>1
    <3>2. D[i] = {j \in Nodes : Q(i) = Q(j)}
      BY <1>2, <2>1
    <3>3. CASE i \in C[e1] \cup C[e2]
      BY <3>1, <3>2, <3>3, <2>1
    <3>4. CASE i \notin C[e1] \cup C[e2]
      BY <3>1, <3>2, <3>4, <2>1
    <3> QED BY <3>3, <3>4
  <2>3. D = [i \in Nodes |-> IF i \in C[e1] \cup C[e2] THEN C[e1] \cup C[e2] ELSE C[i]]
    <3>1. D = [i \in Nodes |-> D[i]]
      BY <1>2, <2>1
    <3> QED BY <2>2, <3>1
  <2>4. len' = len
    BY <1>8 DEF merge
  <2>5. P!Union(e1, e2)
    BY <1>3, <1>5, <2>3, <2>4 DEF P!Union, C, Classes
  <2> QED BY <1>5, <2>5 DEF P!Next
<1>9. ASSUME NEW lv \in Discr, NEW rv \in Nodes \ Discr, variant(lv, rv)
      PROVE  P!Next
  <2>1. /\ Nodes' = Nodes /\ lv \in Nodes
        /\ \A i \in Nodes : i # lv => Q(i) = R(i) /\ R(i) # lv
        /\ Q(lv) = R(rv) /\ rv # lv
    BY <1>9, RootsAfterVariant, RootFacts DEF R, Q
  <2>2. \A i \in Nodes : D[i] = IF i = lv \/ i \in C[rv] THEN C[rv] \cup {lv} ELSE C[i] \ {lv}
    <3> SUFFICES ASSUME NEW i \in Nodes
                 PROVE  D[i] = IF i = lv \/ i \in C[rv] THEN C[rv] \cup {lv} ELSE C[i] \ {lv}
      OBVIOUS
    <3>1. \A x \in Nodes : C[x] = {j \in Nodes : R(x) = R(j)}
      BY <1>1
    <3>2. D[i] = {j \in Nodes : Q(i) = Q(j)}
      BY <1>2, <2>1
    <3>3. CASE i = lv
      BY <3>1, <3>2, <3>3, <2>1
    <3>4. CASE i # lv /\ i \in C[rv]
      BY <3>1, <3>2, <3>4, <2>1
    <3>5. CASE i # lv /\ i \notin C[rv]
      BY <3>1, <3>2, <3>5, <2>1
    <3> QED BY <3>3, <3>4, <3>5
  <2>3. D = [i \in Nodes |-> IF i = lv \/ i \in C[rv] THEN C[rv] \cup {lv} ELSE C[i] \ {lv}]
    <3>1. D = [i \in Nodes |-> D[i]]
      BY <1>2, <2>1
    <3> QED BY <2>2, <3>1
  <2>4. len' = len
    BY <1>9 DEF variant
  <2>5. P!Attach(lv, rv)
    BY <1>3, <1>5, <2>3, <2>4 DEF P!Attach, C, Classes
  <2> QED BY <1>5, <2>5 DEF P!Next
<1> QED BY <1>6, <1>7, <1>8, <1>9 DEF Next

\* The array of the code implements the partition it stands for: a union joins
\* exactly the two classes, reading a discriminant moves only the discriminant,
\* and a new node is alone.
THEOREM Refinement == Spec => ImplementsPartition
<1>1. Init => P!Init
  <2> SUFFICES ASSUME Init PROVE P!Init
    OBVIOUS
  <2>1. Nodes = 0 .. NLocals - 1 /\ \A i \in Nodes : Root(alias_set, i) = i
    BY DEF Init, Nodes, Root
  <2>2. Classes = [i \in Nodes |-> {i}]
    BY <2>1, FlatInit, SameIsSameRoot DEF Classes
  <2> QED BY <2>1, <2>2 DEF Init, P!Init, Classes
<1> QED BY <1>1, StepRefines, InductiveInvariant, PTL DEF Spec, ImplementsPartition, P!Spec

=============================================================================
