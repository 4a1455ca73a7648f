----------------------------- MODULE MCSccSolve -----------------------------
(***************************************************************************)
(* solve_scc on every control-flow graph with NBlocks blocks. MIR has no   *)
(* edge into its start block, which tarjan relies on: dfn 0 means unseen.  *)
(***************************************************************************)
EXTENDS SccPaths

CONSTANT NBlocks

ASSUME NBlocksAssumption == NBlocks \in Nat \ {0}

Shapes == [0 .. NBlocks - 1 -> SUBSET (1 .. NBlocks - 1)]

Init ==
  \E shape \in Shapes :
    SccInit([b \in DOMAIN shape |->
       [next |-> shape[b], scc_sub_blocks |-> <<>>, switch_stmts |-> <<>>,
        modified_value |-> {}]])

Done == SccDone /\ UNCHANGED scc_vars

Spec == Init /\ [][SccStep \/ Done]_scc_vars /\ WF_scc_vars(SccStep)

\* solve_scc returns: every activation of tarjan ends.
Terminates == <>SccDone

=============================================================================
