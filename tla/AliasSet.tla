------------------------------ MODULE AliasSet ------------------------------
(***************************************************************************)
(* The array alias_set of the safedrop and mop analyses: a union-find      *)
(* forest over value nodes, kept flat by compressing every node after each *)
(* union. A node is an index into the array; the entry of a root is the    *)
(* root itself.                                                            *)
(*                                                                         *)
(* The actions are the writes of one path: the code pushes an entry for a  *)
(* new node, unites two classes, or assigns the entry of a discriminant    *)
(* temporary directly. The fourth write, the restore of a copy before the  *)
(* next path, is an action of SafeDrop and of Mop.                         *)
(***************************************************************************)
EXTENDS UnionFind

CONSTANTS
  NLocals,   \* number of MIR locals of the analysed function
  Discr,     \* locals assigned by a Discriminant statement
  MaxNodes   \* bound: nodes created before the run stops

\* A discriminant has an integer type, for which may_drop is false. Graph
\* construction records an assignment only between locals that may drop, so
\* a discriminant is never an operand of union_merge.
ASSUME SizesAssumption ==
  /\ NLocals \in Nat \ {0}
  /\ MaxNodes \in Nat
  /\ Discr \subseteq 0 .. NLocals - 1

VARIABLE alias_set, len

vars == <<alias_set, len>>

Nodes == 0 .. len - 1

\* The entries of a Vec of length l that hold an index of the Vec.
Forests(l) == [0 .. l - 1 -> 0 .. l - 1]

-----------------------------------------------------------------------------

Init ==
  /\ len = NLocals
  /\ alias_set = [i \in 0 .. NLocals - 1 |-> i]

\* MUTANT of push: the Vec is extended with 0.
push_zero ==
  /\ len < MaxNodes
  /\ len' = len + 1
  /\ alias_set' = [i \in 0 .. len |-> IF i = len THEN 0 ELSE alias_set[i]]

\* A field node is created and its entry is its index. The code pushes
\* alias_set.len(), but values.len() on the right side of merge and in all of mop:
\* the same number as long as both Vecs have one length. DropGraph pushes what
\* each place pushes, and safedrop_index has the case where the lengths differ.
push ==
  /\ len < MaxNodes
  /\ len' = len + 1
  /\ alias_set' = [i \in 0 .. len |-> IF i = len THEN len ELSE alias_set[i]]

merge(e1, e2) ==
  /\ alias_set' = union_merge(alias_set, e1, e2)
  /\ UNCHANGED len

\* AssignType::Variant: self.alias_set[lv] = rv, whatever rv points to.
variant(lv, rv) ==
  /\ alias_set' = [alias_set EXCEPT ![lv] = rv]
  /\ UNCHANGED len

Next ==
  \/ push
  \/ \E e1, e2 \in Nodes \ Discr : merge(e1, e2)
  \/ \E lv \in Discr, rv \in Nodes \ Discr : variant(lv, rv)

Spec == Init /\ [][Next]_vars

-----------------------------------------------------------------------------

\* alias_set is a Vec of len entries, each an index of the Vec.
TypeOK ==
  /\ len \in Nat \ {0}
  /\ NLocals <= len
  /\ alias_set \in Forests(len)

\* The forest has no cycle and stays shallow, so union_find stops: a node that
\* is no discriminant points straight at its root, which is no discriminant
\* and not larger than it; a discriminant points at itself or at such a node.
\* Variant assigns an entry without a union, which is where it could go wrong.
Flat ==
  /\ \A i \in Nodes \ Discr :
       /\ alias_set[i] \notin Discr
       /\ alias_set[i] <= i
       /\ alias_set[alias_set[i]] = alias_set[i]
  /\ \A d \in Discr : alias_set[d] = d \/ alias_set[d] \notin Discr

\* Both together are inductive: union_merge compresses the entries it leaves, so
\* the array that is flat before a push, a merge or a variant is flat after it.
IInv == TypeOK /\ Flat

\* The entry that projection reads for a Deref, and for a Field of a right
\* value, names the smallest node of the class: two nodes are in one class
\* exactly when projection takes both to the same head.
HeadIsLeast ==
  \A i \in Nodes \ Discr :
    /\ union_is_same(alias_set, i, alias_set[i])
    /\ \A j \in Nodes \ Discr :
         union_is_same(alias_set, i, j) => alias_set[i] = alias_set[j] /\ alias_set[i] <= j

\* A step only ever adds aliases between nodes that are no discriminants: no
\* union or variant assignment separates two nodes of one class.
AliasesAreKept ==
  [][\A i, j \in Nodes \ Discr :
       union_is_same(alias_set, i, j) => union_is_same(alias_set', i, j)]_vars

\* The array implements the partition: a union joins exactly two classes, a
\* variant assignment moves the discriminant alone, a push adds a singleton.
P == INSTANCE AliasPartition WITH
       n <- len,
       part <- [i \in Nodes |-> {j \in Nodes : union_is_same(alias_set, i, j)}]

ImplementsPartition == P!Spec

=============================================================================
