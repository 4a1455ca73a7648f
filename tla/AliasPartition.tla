--------------------------- MODULE AliasPartition ---------------------------
(***************************************************************************)
(* What alias_set promises: a partition of the value nodes into classes of *)
(* nodes that may alias. part[i] is the class of node i.                   *)
(*                                                                         *)
(* Discriminant temporaries are the nodes written by the MIR statement     *)
(* _d = discriminant(place). Such a node always belongs to the class of    *)
(* the place it was last read from, and brings nobody else along.          *)
(***************************************************************************)
EXTENDS Naturals

CONSTANTS
  NLocals,   \* number of MIR locals, which are the first nodes
  Discr      \* the locals that hold a discriminant

VARIABLES n, part

pvars == <<n, part>>

Nodes == 0 .. n - 1

Init ==
  /\ n = NLocals
  /\ part = [i \in 0 .. NLocals - 1 |-> {i}]

\* A new node aliases nothing.
Grow ==
  /\ n' = n + 1
  /\ part' = [i \in 0 .. n |-> IF i = n THEN {n} ELSE part[i]]

\* Two classes become one; every other class is what it was.
Union(e1, e2) ==
  /\ part' = [i \in Nodes |->
                IF i \in part[e1] \cup part[e2]
                THEN part[e1] \cup part[e2] ELSE part[i]]
  /\ n' = n

\* Discriminant d leaves its class and joins that of e.
Attach(d, e) ==
  /\ part' = [i \in Nodes |->
                IF i = d \/ i \in part[e]
                THEN part[e] \cup {d} ELSE part[i] \ {d}]
  /\ n' = n

Next ==
  \/ Grow
  \/ \E e1, e2 \in Nodes \ Discr : Union(e1, e2)
  \/ \E d \in Discr, e \in Nodes \ Discr : Attach(d, e)

Spec == Init /\ [][Next]_pvars

=============================================================================
