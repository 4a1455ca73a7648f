-------------------------------- MODULE Mop ---------------------------------
(***************************************************************************)
(* MopAlias: the alias summaries of all functions of a crate. query_mop    *)
(* walks the paths of a function; where a call needs a summary that is not *)
(* in fn_map, the callee is analysed there and then on a graph of its own, *)
(* so that a stack of functions is in progress. A function in progress is  *)
(* a record [fn, g, blocks, scc_indices, child_scc, visit_times, frames];  *)
(* the recursion of its check is the stack frames, innermost last:         *)
(*   call     check(bb) is about to run                                    *)
(*   effects  alias_bb and alias_bbcall for a list of blocks               *)
(*   await    a call waits for the summary of its callee                   *)
(*   enter    the rest of check after the effects of the block itself      *)
(*   ways     the calls of calculate_scc_order                             *)
(*   orders   the loop over the orders of a component's sub blocks         *)
(*   exits    one round of that loop, after the effects                    *)
(*   split    the loop over the branches                                   *)
(*   restore  the end of split_check and split_check_with_cond             *)
(*   child    the loop over the switch targets of a component              *)
(*   work     the search for the blocks of a component for one target      *)
(*   seq      the loop over the exits of a component for one target        *)
(***************************************************************************)
EXTENDS MopGraph, SccContract

\* Crates to analyse, [fns, fast, limit], fns a sequence of bodies.
CONSTANT Programs

ASSUME VisitLimitAssumption == \A p \in Programs : p.limit \in Nat \ {0}

VARIABLES
  program,       \* the crate, which nothing changes
  fn_map,        \* summaries by function
  recursion_set, \* functions analysed on behalf of a caller
  active,        \* functions in progress, the one that runs last
  queue,         \* local functions not queried yet
  finished,
  cut            \* history: some walk passed the visit limit

vars == <<program, fn_map, recursion_set, active, queue, finished, cut>>

Fns == DOMAIN program.fns

\* Calls of check before a function is given up.
VISIT_LIMIT == program.limit

Init ==
  /\ program \in Programs
  /\ fn_map = <<>> /\ recursion_set = {} /\ active = <<>>
  /\ queue = SelectSeq([f \in Fns |-> f], LAMBDA f : program.fns[f].local)
  /\ finished = FALSE
  /\ cut = FALSE

Body(f) == program.fns[f]

-----------------------------------------------------------------------------
(* The functions in progress *)

Pending(bb) == [k |-> "call", bb |-> bb]

\* MopGraph::new and solve_scc, for one order of the depth-first search. The
\* places that sub blocks switch on are projected, which may create nodes, in the
\* order in which the sub blocks are popped.
Opened(f, bs, order) ==
  LET s == Solved(bs, order)
      subs == {b \in DOMAIN bs : s.scc_indices[b] # b /\ HasSwitchTarget(bs, b)}
  IN  [fn |-> f, blocks |-> s.blocks, scc_indices |-> s.scc_indices,
       child_scc |-> s.child_scc, visit_times |-> 0, frames |-> <<Pending(0)>>,
       applied |-> {}, \* history: blocks whose effect was applied
       g |-> FoldLeft(LAMBDA h, b : projection(h, FALSE, bs[b].switch_stmts[1].discr.place).g,
                      NewValues(Body(f)), PopOrder([b \in DOMAIN bs |-> bs[b].next], order, subs))]

Opens(f) ==
  LET bs == NewBlocks(Body(f))
  IN  {Opened(f, bs, order) : order \in DfsOrders([b \in DOMAIN bs |-> bs[b].next])}

Top == Last(active)

Frame == Last(Top.frames)

At(k) == active # <<>> /\ Top.frames # <<>> /\ Frame.k = k

\* The running function goes on with graph g and with fs for its last frame.
Goes(g, fs) ==
  active' = Append(Front(active), [Top EXCEPT !.g = g, !.frames = Front(@) \o fs])

\* The last frame without the first element of its list.
Rest == [Frame EXCEPT !.todo = Tail(@)]

Others == <<program, queue, finished>>

-----------------------------------------------------------------------------
(* The effects of blocks *)

CallOf(b) == Top.blocks[b].calls[1]

\* alias_bb of the first block of the list.
Here == alias_bb(Top.g, Top.blocks[Head(Frame.todo)])

\* What alias_bbcall does with a block: nothing to look up, or the summary of
\* a callee, or an unknown callee.
CallKind(b) ==
  IF Top.blocks[b].calls = <<>> \/ CallOf(b).fn.kind = "Operand" THEN "none"
  ELSE LET fn == CallOf(b).fn
       IN  IF fn.kind # "FnDef" \/ ~CallOperands(Here, CallOf(b)).may_drop THEN "projected"
           ELSE IF ~fn.mir THEN "unknown"
           ELSE IF fn.id \in DOMAIN fn_map THEN "cached"
           ELSE IF fn.id \in recursion_set THEN "projected"
           ELSE "nested"

AtBlock(kind) ==
  At("effects") /\ Frame.todo # <<>> /\ CallKind(Head(Frame.todo)) = kind

\* The block is done: its effect is g.
BlockDone(g) ==
  /\ active' = Append(Front(active),
       [Top EXCEPT !.g = g, !.frames = Front(@) \o <<Rest>>,
                   !.applied = @ \cup {Head(Frame.todo)}])
  /\ UNCHANGED <<Others, fn_map, recursion_set, cut>>

block_no_call == AtBlock("none") /\ BlockDone(Here)

\* The operands are projected, and the callee has no effect: it cannot drop, or
\* its analysis is in progress.
block_no_alias ==
  /\ AtBlock("projected")
  /\ BlockDone(CallOperands(Here, CallOf(Head(Frame.todo))).g)

block_unknown_call ==
  /\ AtBlock("unknown")
  /\ BlockDone(ApplyUnknown(CallOperands(Here, CallOf(Head(Frame.todo))),
                            CallOf(Head(Frame.todo)).fn))

block_cached_call ==
  /\ AtBlock("cached")
  /\ \E s \in {CallOperands(Here, CallOf(Head(Frame.todo)))} :
       \E g \in ApplySummary(s.g, fn_map[CallOf(Head(Frame.todo)).fn.id], s.vec) : BlockDone(g)

\* MUTANT of nested_call: the callee is not recorded as in progress.
nested_call_unrecorded ==
  /\ AtBlock("nested")
  /\ \E s \in {CallOperands(Here, CallOf(Head(Frame.todo)))} :
       \E c \in Opens(CallOf(Head(Frame.todo)).fn.id) :
         active' = Front(active)
           \o << [Top EXCEPT !.g = s.g, !.applied = @ \cup {Head(Frame.todo)},
                             !.frames = Front(@) \o <<Rest, [k |-> "await", vec |-> s.vec]>>], c>>
  /\ UNCHANGED <<Others, fn_map, recursion_set, cut>>

\* The callee is analysed first.
nested_call ==
  /\ AtBlock("nested")
  /\ \E s \in {CallOperands(Here, CallOf(Head(Frame.todo)))} :
       \E c \in Opens(CallOf(Head(Frame.todo)).fn.id) :
         active' = Front(active)
           \o << [Top EXCEPT !.g = s.g, !.applied = @ \cup {Head(Frame.todo)},
                             !.frames = Front(@) \o <<Rest, [k |-> "await", vec |-> s.vec]>>], c>>
  /\ recursion_set' = recursion_set \cup {CallOf(Head(Frame.todo)).fn.id}
  /\ UNCHANGED <<Others, fn_map, cut>>

\* Its summary is applied to the operands of the call and kept.
nested_return ==
  /\ Len(active) > 1 /\ Top.frames = <<>>
  /\ LET caller == active[Len(active) - 1]
     IN  \E g \in ApplySummary(caller.g, Top.g.ret_alias, Last(caller.frames).vec) :
           active' = Append(SubSeq(active, 1, Len(active) - 2),
                            [caller EXCEPT !.g = g, !.frames = Front(@)])
  /\ fn_map' = (Top.fn :> Top.g.ret_alias) @@ fn_map
  /\ recursion_set' = recursion_set \ {Top.fn}
  /\ UNCHANGED <<program, queue, finished, cut>>

effects_end ==
  /\ At("effects") /\ Frame.todo = <<>>
  /\ Goes(Top.g, <<>>)
  /\ UNCHANGED <<Others, fn_map, recursion_set, cut>>

-----------------------------------------------------------------------------
(* check *)

Effects(bs) == [k |-> "effects", todo |-> bs]

check_over_limit ==
  /\ At("call") /\ Top.visit_times + 1 > VISIT_LIMIT
  /\ active' = Append(Front(active), [Top EXCEPT !.visit_times = @ + 1, !.frames = Front(@)])
  /\ cut' = TRUE
  /\ UNCHANGED <<Others, fn_map, recursion_set>>

check ==
  /\ At("call") /\ Top.visit_times + 1 <= VISIT_LIMIT
  /\ LET root == Top.scc_indices[Frame.bb]
     IN  active' = Append(Front(active), [Top EXCEPT !.visit_times = @ + 1,
           !.frames = Front(@) \o <<[k |-> "enter", bb |-> Frame.bb], Effects(<<root>>)>>])
  /\ UNCHANGED <<Others, fn_map, recursion_set, cut>>

\* The component is analysed once for each target of its switch.
enter_child ==
  /\ At("enter") /\ Top.scc_indices[Frame.bb] \in DOMAIN Top.child_scc
  /\ LET root == Top.scc_indices[Frame.bb]
         t == Top.child_scc[root].switch
     IN  Goes(Top.g, << [k |-> "child", bb |-> Frame.bb, root |-> root,
           todo |-> [i \in DOMAIN t.targets |-> t.targets[i][2]] \o <<t.otherwise>>] >>)
  /\ UNCHANGED <<Others, fn_map, recursion_set, cut>>

\* The targets that calculate_scc_order follows from a switch on node r.id, as
\* <<value, target>>, when disc holds the values fixed so far under keys.
Fixed(disc_map, r) ==
  LET local == r.g.values[r.id].local
  IN  IF local \in DOMAIN disc_map THEN disc_map[local] ELSE r.id

\* MUTANT of OrderTargets: the values fixed so far are not looked up.
OrderTargets_free(t, disc, key, is_enum) ==
  IF is_enum THEN t.targets ELSE Append(t.targets, <<Len(t.targets), t.otherwise>>)

OrderTargets(t, disc, key, is_enum) ==
  IF key \in DOMAIN disc THEN SelectSeq(t.targets, LAMBDA v : v[1] = disc[key])
  ELSE IF is_enum THEN t.targets
  ELSE Append(t.targets, <<Len(t.targets), t.otherwise>>)

Saved(g) == [values |-> g.values, constant |-> g.constant, alias_set |-> g.alias_set]

Restored(g, saved) ==
  [x \in DOMAIN saved \cup DOMAIN g |-> IF x \in DOMAIN saved THEN saved[x] ELSE g[x]]

\* The loop over the orders of a component's sub blocks. check saves everything
\* before it, the summaries included.
OrderLoop(root, orders) ==
  [k |-> "orders", root |-> root, todo |-> orders, saved |-> Saved(Top.g),
   fn_map |-> fn_map, recursion_set |-> recursion_set]

\* The rest of check for a block, or with FAST_ALIAS: the first order is empty,
\* and there is at most one more.
enter ==
  /\ At("enter") /\ Top.scc_indices[Frame.bb] \notin DOMAIN Top.child_scc
  /\ LET root == Top.scc_indices[Frame.bb]
         subs == Top.blocks[root].scc_sub_blocks
     IN  /\ subs = <<>> \/ program.fast
         /\ Goes(Top.g, <<OrderLoop(root, IF subs = <<>> THEN << <<>> >> ELSE <<<<>>, subs>>)>>)
  /\ UNCHANGED <<Others, fn_map, recursion_set, cut>>

\* The rest of check for a component: the ways round it are to be found. todo
\* holds the calls of calculate_scc_order, the next one first.
enter_component ==
  /\ At("enter") /\ Top.scc_indices[Frame.bb] \notin DOMAIN Top.child_scc
  /\ LET root == Top.scc_indices[Frame.bb]
     IN  /\ Top.blocks[root].scc_sub_blocks # <<>> /\ ~program.fast
         /\ Goes(Top.g, << [k |-> "ways", bb |-> Frame.bb, root |-> root, ans |-> << <<>> >>,
                            todo |-> << [path |-> <<>>, disc |-> <<>>, idx |-> Frame.bb] >>] >>)
  /\ UNCHANGED <<Others, fn_map, recursion_set, cut>>

\* The calls that a call w makes for a switch on the node r.id.
TargetCalls(w, t, r, disc_map) ==
  LET key == Fixed(disc_map, r)
      targets == SelectSeq(
        OrderTargets(t, w.disc, key, r.g.values[r.id].local \in DOMAIN disc_map),
        LAMBDA v : v[2] \notin ToSet(w.path))
  IN  [i \in DOMAIN targets |->
         [path |-> Append(w.path, targets[i][2]), disc |-> (key :> targets[i][1]) @@ w.disc,
          idx |-> targets[i][2]]]

\* The calls it makes for the successors p that belong to the component.
NextCalls(w, p) ==
  [i \in DOMAIN p |->
     [w EXCEPT !.path = IF p[i] = Frame.bb THEN @ ELSE Append(@, p[i]), !.idx = p[i]]]

\* The calls made by a call come before those that its caller has still to make.
Calling(g, ws) == Goes(g, << [Rest EXCEPT !.todo = ws \o @] >>)

\* One call of calculate_scc_order: a way is found when it is back at the block
\* where it began. The places that are switched on are projected.
calculate_scc_order ==
  /\ At("ways") /\ Frame.todo # <<>>
  /\ LET w == Head(Frame.todo)
         t == Body(Top.fn).mir[w.idx + 1].term
         inside == ToSet(Top.blocks[Frame.root].scc_sub_blocks) \cup {Frame.bb}
     IN  IF w.idx = Frame.bb /\ w.path # <<>>
         THEN Goes(Top.g, << [Rest EXCEPT !.ans = Append(@, w.path)] >>)
         ELSE IF t.kind # "SwitchInt"
         THEN \E p \in SetToSeqs(Top.blocks[w.idx].next \cap inside) : Calling(Top.g, NextCalls(w, p))
         ELSE IF t.discr.op = "Const" THEN Calling(Top.g, <<>>)
         ELSE \E r \in {projection(Top.g, FALSE, t.discr.place)} :
                Calling(r.g, TargetCalls(w, t, r, DiscMap(Body(Top.fn))))
  /\ UNCHANGED <<Others, fn_map, recursion_set, cut>>

ways_found ==
  /\ At("ways") /\ Frame.todo = <<>>
  /\ Goes(Top.g, <<OrderLoop(Frame.root, Frame.ans)>>)
  /\ UNCHANGED <<Others, fn_map, recursion_set, cut>>

next_order ==
  /\ At("orders") /\ Frame.todo # <<>>
  /\ Goes(Restored(Top.g, Frame.saved),
          <<Rest, [k |-> "exits", root |-> Frame.root], Effects(Head(Frame.todo))>>)
  /\ fn_map' = Frame.fn_map
  /\ recursion_set' = Frame.recursion_set
  /\ UNCHANGED <<Others, cut>>

\* The number of exits decides: a leaf and a block with one exit return from
\* check, orders that are left included.
Nexts == Top.blocks[Frame.root].next

\* MUTANT of leaf: the summary is that of the last path.
leaf_last ==
  /\ At("exits") /\ Nexts = {}
  /\ active' = Append(Front(active), [Top EXCEPT
       !.g = merge_results([@ EXCEPT !.ret_alias = {}], Body(Top.fn).arg_size),
       !.frames = Front(Front(@))])
  /\ UNCHANGED <<Others, fn_map, recursion_set, cut>>

leaf ==
  /\ At("exits") /\ Nexts = {}
  /\ active' = Append(Front(active), [Top EXCEPT
       !.g = merge_results(@, Body(Top.fn).arg_size), !.frames = Front(Front(@))])
  /\ UNCHANGED <<Others, fn_map, recursion_set, cut>>

one_exit ==
  /\ At("exits") /\ Cardinality(Nexts) = 1
  /\ \E n \in Nexts :
       active' = Append(Front(active), [Top EXCEPT
         !.frames = Front(Front(@)) \o <<Pending(n)>>])
  /\ UNCHANGED <<Others, fn_map, recursion_set, cut>>

\* The target of a switch whose value is known: the first with that value, or
\* the last of all targets.
TargetOf(t, val) ==
  LET hits == SelectSeq(t.targets, LAMBDA v : v[1] = val)
  IN  IF hits = <<>> THEN t.otherwise ELSE hits[1][2]

\* usize::MAX, the value recorded for the default branch.
DefaultPath == -1

\* The loop over the branches; the frame keeps the graph it starts from for the
\* properties below.
Split(g, todo) == << [k |-> "split", todo |-> todo, entry |-> Saved(g)] >>

\* The successors in each order of their hash set.
Plain(g, next) ==
  {Split(g, [i \in DOMAIN p |-> [bb |-> p[i], cond |-> <<>>, always |-> FALSE]])
     : p \in SetToSeqs(next)}

\* MUTANT of Conditional: the value of the branch is not recorded.
Conditional_unknown(t, enum) ==
  [i \in DOMAIN t.targets |->
     [bb |-> t.targets[i][2], cond |-> <<>>, always |-> FALSE]]
  \o << [bb |-> t.otherwise, cond |-> enum :> DefaultPath, always |-> TRUE] >>

\* The branches of a switch on the discriminant of an enum, each with the
\* variant it stands for; the default is taken whatever the limit.
Conditional(t, enum) ==
  [i \in DOMAIN t.targets |->
     [bb |-> t.targets[i][2], cond |-> enum :> t.targets[i][1], always |-> FALSE]]
  \o << [bb |-> t.otherwise, cond |-> enum :> DefaultPath, always |-> TRUE] >>

\* A switch on the node r.id: a known variant leaves one target.
Switched(r, t, disc_map, next) ==
  LET local == r.g.values[r.id].local
      known == /\ local \in DOMAIN disc_map
               /\ disc_map[local] \in DOMAIN r.g.constant
               /\ r.g.constant[disc_map[local]] # DefaultPath
  IN  IF known THEN {<<Pending(TargetOf(t, r.g.constant[disc_map[local]]))>>}
      ELSE IF local \in DOMAIN disc_map /\ local = r.id
      THEN {Split(r.g, Conditional(t, disc_map[local]))}
      ELSE Plain(r.g, next)

\* Only a block that is no component looks at its switch.
LooksAtSwitch(b) == b.switch_stmts # <<>> /\ b.scc_sub_blocks = <<>>

branch ==
  /\ At("exits") /\ Cardinality(Nexts) > 1
  /\ LET b == Top.blocks[Frame.root]
         t == b.switch_stmts[1]
     IN  IF ~LooksAtSwitch(b) THEN \E fs \in Plain(Top.g, Nexts) : Goes(Top.g, fs)
         ELSE IF t.discr.op = "Const"
         THEN Goes(Top.g, <<Pending(TargetOf(t, IF t.discr.val = NoScalar THEN 0 ELSE t.discr.val))>>)
         ELSE \E r \in {projection(Top.g, FALSE, t.discr.place)} :
                \E fs \in Switched(r, t, DiscMap(Body(Top.fn)), Nexts) : Goes(r.g, fs)
  /\ UNCHANGED <<Others, fn_map, recursion_set, cut>>

\* MUTANT of Skipped: the branch is put off.
Skipped_later == [Frame EXCEPT !.todo = Append(Tail(@), Head(@))]

\* A branch is skipped once the limit is passed.
Skipped == Rest

\* split_check and split_check_with_cond, up to the call of check. The frame
\* keeps the condition for the properties below.
split_check ==
  /\ At("split") /\ Frame.todo # <<>>
  /\ LET next == Head(Frame.todo)
     IN  IF Top.visit_times > VISIT_LIMIT /\ ~next.always
         THEN Goes(Top.g, <<Skipped>>) /\ cut' = TRUE
         ELSE /\ Goes([Top.g EXCEPT !.constant = next.cond @@ @],
                      <<Rest, [k |-> "restore", saved |-> Saved(Top.g), cond |-> next.cond],
                        Pending(next.bb)>>)
              /\ UNCHANGED cut
  /\ UNCHANGED <<Others, fn_map, recursion_set>>

\* MUTANT of split_restore: alias_set is not restored.
split_restore_kept ==
  /\ At("restore")
  /\ Goes(Restored(Top.g, [values |-> Frame.saved.values, constant |-> Frame.saved.constant]), <<>>)
  /\ UNCHANGED <<Others, fn_map, recursion_set, cut>>

split_restore ==
  /\ At("restore")
  /\ Goes(Restored(Top.g, Frame.saved), <<>>)
  /\ UNCHANGED <<Others, fn_map, recursion_set, cut>>

loop_end ==
  /\ At("split") \/ At("orders") \/ At("child")
  /\ Frame.todo = <<>>
  /\ Goes(Top.g, <<>>)
  /\ UNCHANGED <<Others, fn_map, recursion_set, cut>>

-----------------------------------------------------------------------------
(* A component that is analysed once per target of its root's switch *)

SameTargets(t, u) == t.targets = u.targets /\ t.otherwise = u.otherwise

\* The successors of a block of a component for one target of its switch.
TakenNext(root, b, target) ==
  LET real == IF b = root THEN Top.child_scc[root].init_block ELSE Top.blocks[b]
  IN  IF real.switch_stmts # <<>> /\ SameTargets(real.switch_stmts[1], Top.child_scc[root].switch)
      THEN {target} ELSE real.next

\* One target: the search for its blocks starts at the block that was entered.
\* The frame is that of the loop, with the work list and the blocks taken from it.
child_target ==
  /\ At("child") /\ Frame.todo # <<>>
  /\ Goes(Top.g, << [k |-> "work", bb |-> Frame.bb, root |-> Frame.root, todo |-> Tail(Frame.todo),
                     target |-> Head(Frame.todo), work_list |-> <<Frame.bb>>,
                     work_set |-> {Frame.bb}, subs |-> <<>>] >>)
  /\ UNCHANGED <<Others, fn_map, recursion_set, cut>>

\* The successors of b in the component that are new to the work list.
Found(f, b) ==
  (TakenNext(f.root, b, f.target) \cap Top.child_scc[f.root].scc_block_set) \ f.work_set

child_work ==
  /\ At("work") /\ Frame.work_list # <<>>
  /\ LET b == Last(Frame.work_list)
     IN  \E p \in SetToSeqs(Found(Frame, b)) :
           Goes(Top.g, << [Frame EXCEPT !.work_list = Front(@) \o p,
                                        !.work_set = @ \cup Found(Frame, b),
                                        !.subs = Append(@, b)] >>)
  /\ UNCHANGED <<Others, fn_map, recursion_set, cut>>

\* The blocks of the target in turn, then each exit without a backup between
\* them; values and constant are restored, alias_set is not.
child_blocks ==
  /\ At("work") /\ Frame.work_list = <<>>
  /\ LET out == UNION {TakenNext(Frame.root, b, Frame.target) : b \in ToSet(Frame.subs)}
     IN  \E p \in SetToSeqs({n \in out : Top.scc_indices[n] # Frame.root}) :
           Goes(Top.g, << [k |-> "child", bb |-> Frame.bb, root |-> Frame.root, todo |-> Frame.todo],
                          [k |-> "seq", todo |-> p,
                           saved |-> [values |-> Top.g.values, constant |-> Top.g.constant]],
                          Effects(Frame.subs) >>)
  /\ UNCHANGED <<Others, fn_map, recursion_set, cut>>

child_exit ==
  /\ At("seq") /\ Frame.todo # <<>>
  /\ Goes(Top.g, <<Rest, Pending(Head(Frame.todo))>>)
  /\ UNCHANGED <<Others, fn_map, recursion_set, cut>>

child_restore ==
  /\ At("seq") /\ Frame.todo = <<>>
  /\ Goes(Restored(Top.g, Frame.saved), <<>>)
  /\ UNCHANGED <<Others, fn_map, recursion_set, cut>>

-----------------------------------------------------------------------------
(* MopAlias::start *)

\* A constant has no summary.
query_skip ==
  /\ active = <<>> /\ queue # <<>> /\ Body(Head(queue)).const_context
  /\ queue' = Tail(queue)
  /\ UNCHANGED <<program, fn_map, recursion_set, active, finished, cut>>

query_mop ==
  /\ active = <<>> /\ queue # <<>> /\ ~Body(Head(queue)).const_context
  /\ \E c \in Opens(Head(queue)) : active' = <<c>>
  /\ recursion_set' = {}
  /\ queue' = Tail(queue)
  /\ UNCHANGED <<program, fn_map, finished, cut>>

\* The summary of the function queried is not kept.
query_end ==
  /\ Len(active) = 1 /\ Top.frames = <<>>
  /\ active' = <<>>
  /\ UNCHANGED <<program, fn_map, recursion_set, queue, finished, cut>>

\* The summary of the functions that copy memory, whatever was computed.
CopyAlias ==
  [left_index |-> 1, left_field_seq |-> <<>>, left_may_drop |-> TRUE, left_need_drop |-> TRUE,
   right_index |-> 2, right_field_seq |-> <<>>, right_may_drop |-> TRUE, right_need_drop |-> TRUE]

handle_conor_cases ==
  /\ active = <<>> /\ queue = <<>> /\ ~finished
  /\ fn_map' = [f \in DOMAIN fn_map |-> IF Body(f).copies THEN {CopyAlias} ELSE fn_map[f]]
  /\ finished' = TRUE
  /\ UNCHANGED <<program, recursion_set, active, queue, cut>>

Step ==
  \/ query_skip \/ query_mop \/ query_end \/ handle_conor_cases
  \/ block_no_call \/ block_no_alias \/ block_unknown_call \/ block_cached_call
  \/ nested_call \/ nested_return \/ effects_end
  \/ check_over_limit \/ check \/ enter_child \/ enter
  \/ enter_component \/ calculate_scc_order \/ ways_found \/ next_order
  \/ leaf \/ one_exit \/ branch \/ split_check \/ split_restore \/ loop_end
  \/ child_target \/ child_work \/ child_blocks \/ child_exit \/ child_restore

\* A merge_alias that does not return has no further effect.
Recurses == active # <<>> /\ Top.g.endless # <<>>

Ended == finished \/ Recurses

Stop == Ended /\ UNCHANGED vars

Next == (~Recurses /\ Step) \/ Stop

\* The analysis is one sequential computation that goes on as long as there is
\* something left to do. This is WF_vars(Step) with ENABLED spelled out; what
\* changes the state is a Step.
Fairness == []<>Ended \/ []<><<TRUE>>_vars

Spec == Init /\ [][Next]_vars /\ Fairness

-----------------------------------------------------------------------------
(* Properties *)

TypeOK ==
  /\ DOMAIN fn_map \subseteq Fns /\ recursion_set \subseteq Fns
  /\ ToSet(queue) \subseteq Fns
  /\ \A k \in DOMAIN active :
       LET c == active[k]
       IN  /\ c.fn \in Fns /\ c.visit_times \in Nat
           /\ c.applied \subseteq DOMAIN c.blocks
           /\ \A n \in DOMAIN c.g.values : c.g.values[n].index = n

\* alias_bbcall analyses a callee only if it is not in recursion_set, which a
\* round of the loop over orders replaces by a copy from before: through all
\* that, the set is exactly the functions analysed for a caller, and each is in
\* progress only once, so the recursion between graphs is bounded.
NestedOnce ==
  LET nested == {active[k].fn : k \in 2 .. Len(active)}
  IN  active # <<>> => recursion_set = nested /\ Cardinality(nested) = Len(active) - 1

\* A summary names different parameters of its function, the return value only
\* on the left, so that merge never meets an index outside its operands, the
\* case it reports as "Vector error!".
SummaryFitsCall ==
  \A f \in DOMAIN fn_map : \A a \in fn_map[f] :
    /\ a.left_index \in 0 .. Body(f).arg_size
    /\ a.right_index \in 1 .. Body(f).arg_size
    /\ a.left_index # a.right_index

\* The graphs of MopGraph and the summaries of merge_results name nodes and
\* operands that exist.
SummariesAreTyped == TypeOK /\ SummaryFitsCall

\* The conditions under which the running function is on its path, outermost first.
Conds(c) ==
  LET fs == SelectSeq(c.frames, LAMBDA fr : fr.k = "restore")
  IN  [i \in DOMAIN fs |-> fs[i].cond]

\* On a path that has taken the branch of one variant of an enum, no later
\* switch on that enum is split again.
OneVariantPerPath ==
  \A k \in DOMAIN active :
    LET cs == Conds(active[k])
    IN  \A i, j \in DOMAIN cs : i < j =>
          \A e \in DOMAIN cs[i] \cap DOMAIN cs[j] : cs[i][e] = DefaultPath

\* Whenever a branch of a block is about to be taken, the aliases, the nodes and
\* the known values are those with which the first branch started: nothing of a
\* path, however many blocks and calls it had, is left over for its siblings.
SiblingsStartAlike ==
  \A k \in DOMAIN active :
    active[k].frames # <<>> /\ Last(active[k].frames).k = "split" =>
      Saved(active[k].g) = Last(active[k].frames).entry

\* split_check and split_check_with_cond keep the branches apart.
BranchesAreSeparate == OneVariantPerPath /\ SiblingsStartAlike

\* Each order in which the sub blocks of a component are applied follows the
\* control flow from the root and passes no block twice.
OrdersAreRounds ==
  At("orders") /\ ~program.fast =>
    LET cfg == [b \in DOMAIN Top.blocks |-> NewBlocks(Body(Top.fn))[b].next]
    IN  \A p \in ToSet(Frame.todo) : p # <<>> =>
          /\ p[1] \in cfg[Frame.root]
          /\ \A i \in 2 .. Len(p) : p[i] \in cfg[p[i - 1]]
          /\ Last(p) = Frame.root \/ Frame.root \in cfg[Last(p)]
          /\ Cardinality(ToSet(p)) = Len(p)

\* The walks of all functions come to an end, with one exception: merge_alias
\* recurses for ever when the left node is a part of the right one, and only
\* then, as when a function stores one argument in another and a caller
\* passes the same value for both.
Terminates ==
  <>(finished \/ (Recurses /\ Top.g.endless[1] \in Parts(Top.g.values, Top.g.endless[2])))

\* "Handle cases if the current block is a merged scc block with sub block": a
\* complete walk has applied each block that control flow reaches.
AllBlocksApplied ==
  active # <<>> /\ Top.frames = <<>> /\ ~cut =>
    LET bs == NewBlocks(Body(Top.fn))
    IN  ReachBy([b \in DOMAIN bs |-> bs[b].next])[0] \subseteq Top.applied

=============================================================================
