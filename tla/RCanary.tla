------------------------------ MODULE RCanary -------------------------------
(***************************************************************************)
(* rCanary::start: TypeAnalysis over the crate (HeapItem), the order of    *)
(* the blocks of a body (TopoOrder), and the flow analysis of that body    *)
(* with the handlers of IntraVisitor. The bodies of a crate only share     *)
(* adt_owner, so a behaviour follows one of them, any one. A body is a     *)
(* function of the crate: [locals, calls, args, n, blocks], a block        *)
(* [stmts, term].                                                          *)
(***************************************************************************)
EXTENDS HeapItem, TopoOrder, IntraVisitor

VARIABLES step,  \* "types", "order", "enter", "visit", "done" or "panic"
          ti,    \* position in topo
          sidx,  \* statements of the block that are visited
          slice, \* icx_slice with the solver: see IntraVisitor
          out,   \* icx: the out slice of each block visited
          reports \* one entry per Return: [block, result, leak]

flowVars == <<step, ti, sidx, slice, out, reports>>
vars == <<heapVars, orderVars, flowVars>>

\* The part of `slice` that is kept per block.
Kept(s) == [var |-> s.var, len |-> s.len, ty |-> s.ty, layout |-> s.layout, taint |-> s.taint]

WithSlice(s, k) == [s EXCEPT !.var = k.var, !.len = k.len, !.ty = k.ty,
                             !.layout = k.layout, !.taint = k.taint]

NewSolver(b) ==
  new_for_block_0(b) @@ [ms |-> {<<>>}, taint_flag |-> FALSE, bad |-> FALSE, reused |-> FALSE]

NoBody == [n |-> 1, blocks |-> <<>>]

RInit ==
  /\ HeapInit
  /\ body = NoBody /\ phase = "done"
  /\ e = [i \in {0} |-> <<>>] /\ pre = [i \in {0} |-> <<>>] /\ lev = [i \in {0} |-> 0]
  /\ blk = 0 /\ cnt = 0 /\ q = {} /\ topo = <<>>
  /\ step = "types" /\ ti = 0 /\ sidx = 0 /\ slice = <<>> /\ out = <<>> /\ reports = <<>>

TypeStep == step = "types" /\ HeapNext /\ UNCHANGED <<orderVars, flowVars>>

\* FlowAnalysis::start, order(): one body of the mir_keys.
StartOrder ==
  /\ step = "types" /\ Done
  /\ \E f \in DOMAIN crate.fns : body' = crate.fns[f]
  /\ phase' = "collect"
  /\ e' = [i \in Blocks(body') |-> <<>>]
  /\ pre' = [i \in Blocks(body') |-> <<>>]
  /\ lev' = [i \in Blocks(body') |-> 0]
  /\ blk' = 0 /\ cnt' = 0 /\ q' = {} /\ topo' = <<>>
  /\ step' = "order" /\ pc' = "read"
  /\ UNCHANGED <<crate, st, todo, dids, left, pass, at, adt_owner>>
  /\ UNCHANGED <<ti, sidx, slice, out, reports>>

OrderStep == step = "order" /\ OrderNext /\ UNCHANGED <<heapVars, flowVars>>

\* Some blocks have, each of them, a successor among them.
is_cfg_cyclic(b) ==
  \E C \in (SUBSET Blocks(b)) \ {{}} :
    \A i \in C : \E j \in DOMAIN b.blocks[i].term.targets : b.blocks[i].term.targets[j] \in C

\* intra_run, IntraFlowAnalysis::new: a body with a loop is skipped.
StartFlow ==
  /\ step = "order" /\ phase = "done"
  /\ IF is_cfg_cyclic(body) THEN step' = "done" /\ UNCHANGED <<ti, slice, out>>
     ELSE /\ step' = "enter" /\ ti' = 1
          /\ slice' = NewSolver(body)
          /\ out' = [i \in Blocks(body) |-> Kept(NewSolver(body))]
  /\ UNCHANGED <<heapVars, orderVars, sidx, reports>>

Here == [ow |-> adt_owner, b |-> body, bi |-> topo[ti], si |-> sidx]

Outs == [i \in DOMAIN pre[topo[ti]] |-> out[pre[topo[ti]][i]]]

\* A panic ends the program.
Go(s, next) == IF s.bad THEN "panic" ELSE next

\* preprocess_for_basic_block
EnterBlock ==
  /\ step = "enter"
  /\ \E s \in {CASE topo[ti] = 0 -> EntrySlice(Here, WithSlice(slice, new_for_block_0(body)))
                 [] topo[ti] # 0 /\ Len(Outs) > 1 ->
                      MergeSlices(Here, WithSlice(slice, Outs[1]), Outs)
                 [] topo[ti] # 0 /\ Len(Outs) = 1 -> WithSlice(slice, Outs[1])} :
       slice' = s /\ step' = Go(s, "visit")
  /\ UNCHANGED <<heapVars, orderVars, ti, sidx, out, reports>>

Stmts == body.blocks[topo[ti]].stmts
Term == body.blocks[topo[ti]].term

VisitStatement ==
  /\ step = "visit" /\ sidx < Len(Stmts)
  /\ \E s \in {visit_assign(Here, slice, Stmts[sidx + 1].lp, Stmts[sidx + 1].rv)} :
       slice' = s /\ step' = Go(s, "visit")
  /\ sidx' = sidx + 1
  /\ UNCHANGED <<heapVars, orderVars, ti, out, reports>>

\* visit_terminator; the names of its constants have statement 0. Then
\* reprocess_for_basic_block, and the next block.
LeaveBlock(s) ==
  /\ slice' = s
  /\ out' = [out EXCEPT ![topo[ti]] = Kept(s)]
  /\ step' = Go(s, IF ti < Len(topo) THEN "enter" ELSE "done")
  /\ ti' = ti + 1 /\ sidx' = 0
  /\ UNCHANGED <<heapVars, orderVars>>

VisitTerminator ==
  /\ step = "visit" /\ sidx = Len(Stmts) /\ Term.kind # "Return"
  /\ \E s \in {visit_terminator([Here EXCEPT !.si = 0], slice, Term)} : LeaveBlock(s)
  /\ UNCHANGED reports

\* handle_return ends with solver.check(), which may time out.
VisitReturn ==
  /\ step = "visit" /\ sidx = Len(Stmts) /\ Term.kind = "Return"
  /\ \E s \in {visit_terminator([Here EXCEPT !.si = 0], slice, Term)} :
       /\ LeaveBlock(s)
       /\ \E result \in {IF s.ms = {} THEN "Unsat" ELSE "Sat", "Unknown"} :
            reports' = IF s.bad THEN reports
                       ELSE Append(reports, [block |-> topo[ti], result |-> result,
                                             leak |-> result = "Unsat" /\ s.taint_flag])

RNext == \/ TypeStep \/ StartOrder \/ OrderStep \/ StartFlow
         \/ EnterBlock \/ VisitStatement \/ VisitTerminator \/ VisitReturn

RSpec == RInit /\ [][RNext]_vars

-----------------------------------------------------------------------------
\* Before the flow analysis there is no slice, and its variables stay as they
\* are; every other variable has its type.
RTypeOK ==
  /\ step \in {"types", "order", "enter", "visit", "done", "panic"}
  /\ step \in {"types", "order"} => slice = <<>> /\ reports = <<>>
  /\ step \in {"enter", "visit"} => ti \in DOMAIN topo /\ sidx \in 0 .. Len(Stmts)
  /\ step = "visit" => \A u \in Locals(body) :
       slice.var[u].k \in {"Declared", "Init", "Unsupported"} /\ slice.len[u] \in Nat

Followed_by_flow == step \in {"enter", "visit", "done"} /\ slice # <<>>

\* The block i and those that lead to it.
RECURSIVE LeadingTo(_)
LeadingTo(i) == {i} \cup UNION {LeadingTo(j) : j \in ToSet(pre[i])}

\* The lengths of the variants with which block i fills the local u.
Sizes(i, u) ==
  {Len(encode(adt_owner, body.locals[u + 1], s.rv.v).layout) :
     s \in {x \in ToSet(body.blocks[i].stmts) : x.rv.k = "Adt" /\ x.lp = [local |-> u, proj |-> <<>>]}}

\* The enum u is filled twice on a path, with variants of different length:
\* handle_aggregate_init then changes the length and leaves the vector.
Refilled(u) ==
  \E i \in Blocks(body) : \E j \in LeadingTo(i) : \E m \in Sizes(i, u), n \in Sizes(j, u) :
    m # n /\ m > 0 /\ n > 0

\* `len` of a followed variable is the width of its vector, and not zero; every
\* model of the solver knows the vector. The handlers rely on it: they build
\* masks and zeros of the length `len` and unwrap the comparison. An enum that
\* is filled a second time with a longer or shorter variant breaks it.
WidthsAgree ==
  Followed_by_flow =>
    \A u \in Locals(body) :
      /\ is_init(slice, u) =>
           \/ /\ ~ Misfit(slice, u) /\ slice.len[u] > 0
              /\ \A m \in slice.ms : slice.var[u].c \in DOMAIN m
                                     /\ ValueOf(m, slice, u) \subseteq 0 .. slice.len[u] - 1
           \/ Refilled(u)
      /\ is_unsupported(slice, u) => slice.len[u] = 0

\* The block just left ends with a call whose result is stored behind a pointer:
\* `*l = f()`, for which handle_call asks for a field.
CallsIntoPointee ==
  sidx = 0 /\ ti > 1 /\ body.blocks[topo[ti - 1]].term.kind = "Call"
    /\ body.blocks[topo[ti - 1]].term.dest.proj = <<[k |-> "Deref"]>>

\* No index, unwrap or sort of a bit vector is out of range, but in these two
\* cases, where rCanary stops.
PanicsAreKnown ==
  step = "panic" => CallsIntoPointee \/ \E u \in Locals(body) : Refilled(u)

\* All handlers agree on what they keep of a variable: its vector and its length
\* fit, and no handler fails on what another one left, except for an enum filled
\* twice and a call into what a pointer points to.
HandlersAgree == RTypeOK /\ WidthsAgree /\ PanicsAreKnown

\* Every block is visited once, and every return is checked: of a body without
\* a loop and without the terminators whose successors collect_edges leaves out.
ReturnsAreChecked ==
  step = "done" /\ ~ is_cfg_cyclic(body)
  /\ (\A i \in Blocks(body) : body.blocks[i].term.kind # "InlineAsm") =>
    \A i \in Blocks(body) : body.blocks[i].term.kind = "Return" =>
      Cardinality({r \in DOMAIN reports : reports[r].block = i}) = 1

\* The model m1 is m with more constants.
Extends(m1, m) == DOMAIN m \subseteq DOMAIN m1 /\ \A c \in DOMAIN m : m[c] = m1[c]

\* What the variables of the slice s hold in the model m.
Holdings(m, s) ==
  FoldSet(LAMBDA u, n : n + Cardinality(ValueOf(m, s, u)), 0, {u \in Locals(body) : is_init(s, u)})

\* An assignment passes ownership on and never multiplies it: in each model
\* there is after it, the variables hold no more than they did before. (A field
\* of a type that owns more than once over would be spread over several bits.)
NotMultiplied ==
  [][ti' = ti /\ sidx' # sidx =>
       \A m1 \in slice'.ms : \E m \in slice.ms :
         Extends(m1, m) /\ Holdings(m1, slice') <= Holdings(m, slice)]_vars

\* "generate new bit vectors for variables", says the comment in each handler: a
\* variable never gets a vector that the solver has constraints on already. An
\* aggregate of two moved operands fills both fields under the number of one
\* statement, so that the second gets the name of the first.
NewVectorsAreNew == Followed_by_flow => ~ slice.reused

=============================================================================
