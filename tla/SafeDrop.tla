------------------------------ MODULE SafeDrop ------------------------------
(***************************************************************************)
(* query_safedrop on one body: build the graph, contract the components    *)
(* (SccSolve), then check(0): a path-sensitive depth-first walk that       *)
(* mutates one graph and restores a backup after each branch. The          *)
(* recursion of check is a stack of frames, innermost last:                *)
(*   call     check(bb) is about to run                                    *)
(*   split    the loop over the successors of a branching block            *)
(*   restore  the end of split_check and split_check_with_cond             *)
(*   child    the loop over the switch targets of a component              *)
(*   work     the search for the blocks of a component for one target      *)
(*   seq      the loop over the exits of a component for one target        *)
(***************************************************************************)
EXTENDS SccSolve, DropGraph

CONSTANT Bodies \* MIR bodies to analyse, each with a limit for its visits

ASSUME VisitLimitAssumption == \A b \in Bodies : b.limit \in Nat \ {0}

ASSUME BodiesAssumption ==
  \A b \in Bodies : /\ MirBody(Build(b).blocks) /\ SwitchesLead(Build(b).blocks)
                    /\ IsFiniteSet(DOMAIN Build(b).blocks)

VARIABLES
  body,         \* the MIR body, which nothing changes
  graph,        \* values, alias_set, dead_record, constant and bug records
  frames, visit_times,
  cut,          \* history: some call of check was refused or skipped
  outcome       \* what query_safedrop prints: bugs, or "over visited"

check_vars == <<body, graph, frames, visit_times, cut, outcome>>

vars == <<scc_vars, check_vars>>

\* Calls of check before the analysis gives up.
VISIT_LIMIT == body.limit

Init ==
  \E b \in Bodies :
    LET built == Build(b)
    IN  /\ body = b
        /\ graph = built.g @@ [unknown |-> {}]
        /\ SccInit(built.blocks)
        /\ frames = <<>> /\ visit_times = 0 /\ cut = FALSE /\ outcome = "none"

-----------------------------------------------------------------------------
(* solve_scc *)

\* switch_target projects the place a sub block switches on, which may create
\* field nodes, for each block popped with a component.
SwitchNodes(h, popped) ==
  FoldLeft(LAMBDA k, b : IF HasSwitchTarget(blocks, b)
                         THEN projection(k, FALSE, blocks[b].switch_stmts[1].discr.place).g
                         ELSE k, h, popped)

SolveScc ==
  /\ ~SccDone /\ SccStep
  /\ graph' = SwitchNodes(graph, Reverse(SubSeq(stack, Len(stack') + 2, Len(stack))))
  /\ UNCHANGED <<body, frames, visit_times, cut, outcome>>

-----------------------------------------------------------------------------
(* check *)

\* History: the locals whose last write on the path is no scalar constant.
LastWrites(u, b) ==
  LET mir == body.mir[b + 1]
      Write(s) == <<s.lv.local, s.kind = "Use" /\ s.x.op = "Const" /\ s.x.val # NoScalar>>
      dest == IF mir.term.kind = "Call" THEN << <<mir.term.dest.local, FALSE>> >> ELSE <<>>
      Apply(v, w) == IF w[2] THEN v \ {w[1]} ELSE v \cup {w[1]}
  IN  FoldLeft(Apply, u, [k \in DOMAIN mir.stmts |-> Write(mir.stmts[k])] \o dest)

\* The effect of a block, with the SCC it belongs to as the birth.
Effect(h, b) ==
  [BlockEffect(h, blocks[b], scc_indices[b]) EXCEPT !.unknown = LastWrites(@, b)]

Effects(h, bs) == FoldLeft(Effect, h, bs)

Pending(bb) == [k |-> "call", bb |-> bb]

Replace(fs) == Front(frames) \o fs

Backup == [values |-> graph.values, constant |-> graph.constant, unknown |-> graph.unknown,
           alias_set |-> graph.alias_set, dead_record |-> graph.dead_record]

\* MUTANT of Restored: dead_record is only cut to its old length.
Restored_cut(h, saved) ==
  [h EXCEPT !.values = saved.values, !.constant = saved.constant,
            !.unknown = saved.unknown, !.alias_set = saved.alias_set,
            !.dead_record = [n \in DOMAIN saved.dead_record |-> @[n]]]

\* All the state of a path; the bug records are kept.
Restored(h, saved) ==
  [h EXCEPT !.values = saved.values, !.constant = saved.constant,
            !.unknown = saved.unknown, !.alias_set = saved.alias_set,
            !.dead_record = saved.dead_record]

\* The loop over switch targets backs up values and constant only.
RestoredChild(h, saved) ==
  [h EXCEPT !.values = saved.values, !.constant = saved.constant,
            !.unknown = saved.unknown]

\* should_check: a function named after a destructor may leave dangling pointers.
should_check == body.should_check

Leaf(h, root) ==
  IF should_check THEN dp_check(h, blocks[root].is_cleanup, body.arg_size) ELSE h

\* The target of a switch whose value is known: the first with that value, or
\* the last of all targets.
TargetOf(t, val) ==
  LET hits == {k \in DOMAIN t.targets : t.targets[k][1] = val}
  IN  IF hits = {} THEN t.otherwise ELSE t.targets[Min(hits)][2]

\* usize::MAX, the value recorded for the default branch.
DefaultPath == -1

Plain(bb) == [bb |-> bb, cond |-> <<>>, always |-> FALSE]

\* The branches of a switch on a node that is recorded under another index:
\* each is taken with the value it stands for, the default whatever the limit.
Conditional(t, discr) ==
  [k \in DOMAIN t.targets |->
     [bb |-> t.targets[k][2], cond |-> discr :> t.targets[k][1], always |-> FALSE]]
  \o << [bb |-> t.otherwise, cond |-> discr :> DefaultPath, always |-> TRUE] >>

\* How a branching block continues: the graph and the frames that replace the
\* call. Only a block that is no component looks at its switch.
Branch(h, root) ==
  LET b == blocks[root]
      t == b.switch_stmts[1]
      r == projection(h, FALSE, t.discr.place)
      index == r.g.values[r.id].index
      Split(todo) == << [k |-> "split", todo |-> todo] >>
      Orders == {[graph |-> h, frames |-> Split([k \in DOMAIN p |-> Plain(p[k])])]
                : p \in SetToSeqs(b.next)}
  IN  IF b.switch_stmts = <<>> \/ b.scc_sub_blocks # <<>> THEN Orders
      ELSE IF t.discr.op = "Const"
      THEN {[graph |-> h, frames |-> <<Pending(TargetOf(t, IF t.discr.val = NoScalar THEN 0
                                                       ELSE t.discr.val))>>]}
      ELSE IF index \in DOMAIN r.g.constant
      THEN {[graph |-> r.g, frames |-> <<Pending(TargetOf(t, r.g.constant[index]))>>]}
      ELSE IF index # r.id
      THEN {[graph |-> r.g, frames |-> Split(Conditional(t, index))]}
      ELSE {[c EXCEPT !.graph = r.g] : c \in Orders}

\* How a block continues, for each order of its hash set of successors.
Continue(h, root) ==
  CASE blocks[root].next = {} -> {[graph |-> Leaf(h, root), frames |-> <<>>]}
    [] Cardinality(blocks[root].next) = 1 ->
         {[graph |-> h, frames |-> <<Pending(n)>>] : n \in blocks[root].next}
    [] OTHER -> Branch(h, root)

start_check ==
  /\ SccDone /\ frames = <<>> /\ visit_times = 0
  /\ frames' = <<Pending(0)>>
  /\ UNCHANGED <<body, graph, visit_times, cut, outcome>>

At(k) == frames # <<>> /\ Last(frames).k = k

check_over_limit ==
  /\ At("call") /\ visit_times + 1 > VISIT_LIMIT
  /\ visit_times' = visit_times + 1
  /\ frames' = Front(frames)
  /\ cut' = TRUE
  /\ UNCHANGED <<body, graph, outcome>>

\* check of a block or of a component that is analysed once.
check ==
  /\ At("call") /\ visit_times + 1 <= VISIT_LIMIT
  /\ LET root == scc_indices[Last(frames).bb]
     IN  /\ root \notin DOMAIN child_scc
         /\ \E c \in Continue(Effects(graph, <<root>> \o blocks[root].scc_sub_blocks), root) :
              /\ graph' = c.graph
              /\ frames' = Replace(c.frames)
  /\ visit_times' = visit_times + 1
  /\ UNCHANGED <<body, cut, outcome>>

\* check of a component that is analysed once for each target of its switch.
check_child ==
  /\ At("call") /\ visit_times + 1 <= VISIT_LIMIT
  /\ LET bb == Last(frames).bb
         root == scc_indices[bb]
         t == child_scc[root].switch
     IN  /\ root \in DOMAIN child_scc
         /\ graph' = Effect(graph, root)
         /\ frames' = Replace(<< [k |-> "child", bb |-> bb, root |-> root,
              todo |-> [k \in DOMAIN t.targets |-> t.targets[k][2]] \o <<t.otherwise>>] >>)
  /\ visit_times' = visit_times + 1
  /\ UNCHANGED <<body, cut, outcome>>

SameTargets(t, u) == t.targets = u.targets /\ t.otherwise = u.otherwise

\* The successors of a block of a component for one target of its switch.
TakenNext(root, b, target) ==
  LET real == IF b = root THEN child_scc[root].init_block ELSE blocks[b]
  IN  IF real.switch_stmts # <<>> /\ SameTargets(real.switch_stmts[1], child_scc[root].switch)
      THEN {target} ELSE real.next

\* One target: the search for its blocks starts at the block that was entered.
\* The frame is that of the loop, with the work list and the blocks taken from it.
child_target ==
  /\ At("child") /\ Last(frames).todo # <<>>
  /\ LET f == Last(frames)
     IN  frames' = Replace(<< [k |-> "work", bb |-> f.bb, root |-> f.root, todo |-> Tail(f.todo),
                               target |-> Head(f.todo), work_list |-> <<f.bb>>,
                               work_set |-> {f.bb}, subs |-> <<>>] >>)
  /\ UNCHANGED <<body, graph, visit_times, cut, outcome>>

\* The successors of b in the component that are new to the work list.
Found(f, b) ==
  (TakenNext(f.root, b, f.target) \cap child_scc[f.root].scc_block_set) \ f.work_set

child_work ==
  /\ At("work") /\ Last(frames).work_list # <<>>
  /\ LET f == Last(frames)
         b == Last(f.work_list)
     IN  \E p \in SetToSeqs(Found(f, b)) :
           frames' = Replace(<< [f EXCEPT !.work_list = Front(@) \o p,
                                          !.work_set = @ \cup Found(f, b),
                                          !.subs = Append(@, b)] >>)
  /\ UNCHANGED <<body, graph, visit_times, cut, outcome>>

\* MUTANT of Exits: the blocks of the component are not removed.
Exits_inner(root, subs, target) == UNION {TakenNext(root, b, target) : b \in subs}

\* What the blocks taken lead to outside of the component.
Exits(root, subs, target) ==
  {n \in UNION {TakenNext(root, b, target) : b \in subs} : scc_indices[n] # root}

\* The blocks of the target in turn, then each exit without a backup between
\* them. Without an exit the whole call returns, other targets included.
child_blocks ==
  /\ At("work") /\ Last(frames).work_list = <<>>
  /\ LET f == Last(frames)
         exits == Exits(f.root, ToSet(f.subs), f.target)
     IN  IF exits = {}
         THEN graph' = Leaf(Effects(graph, f.subs), f.root) /\ frames' = Front(frames)
         ELSE /\ graph' = Effects(graph, f.subs)
              /\ \E p \in SetToSeqs(exits) :
                   frames' = Replace(<< [k |-> "child", bb |-> f.bb, root |-> f.root, todo |-> f.todo],
                                        [k |-> "seq", todo |-> p, saved |-> Backup] >>)
  /\ UNCHANGED <<body, visit_times, cut, outcome>>

child_exit ==
  /\ At("seq") /\ Last(frames).todo # <<>>
  /\ frames' = Replace(<< [Last(frames) EXCEPT !.todo = Tail(@)],
                          Pending(Head(Last(frames).todo)) >>)
  /\ UNCHANGED <<body, graph, visit_times, cut, outcome>>

child_restore ==
  /\ At("seq") /\ Last(frames).todo = <<>>
  /\ graph' = RestoredChild(graph, Last(frames).saved)
  /\ frames' = Front(frames)
  /\ UNCHANGED <<body, visit_times, cut, outcome>>

\* MUTANT of Skipped: a refused branch is queued again.
Skipped_later(f) == [f EXCEPT !.todo = Append(Tail(@), Head(@))]

\* A branch is refused and the loop goes on with the next one.
Skipped(f) == [f EXCEPT !.todo = Tail(@)]

\* The test at the top of split_check.
OverLimit(visits) == visits > VISIT_LIMIT

\* split_check or split_check_with_cond, up to the call of check.
split_check ==
  /\ At("split") /\ Last(frames).todo # <<>>
  /\ LET f == Last(frames)
         branch == Head(f.todo)
     IN  IF OverLimit(visit_times) /\ ~branch.always
         THEN frames' = Replace(<<Skipped(f)>>) /\ cut' = TRUE /\ UNCHANGED graph
         ELSE /\ frames' = Replace(<<[f EXCEPT !.todo = Tail(@)],
                                     [k |-> "restore", saved |-> Backup], Pending(branch.bb)>>)
              /\ graph' = [graph EXCEPT !.constant = branch.cond @@ @]
              /\ UNCHANGED cut
  /\ UNCHANGED <<body, visit_times, outcome>>

split_restore ==
  /\ At("restore")
  /\ graph' = Restored(graph, Last(frames).saved)
  /\ frames' = Front(frames)
  /\ UNCHANGED <<body, visit_times, cut, outcome>>

loop_end ==
  /\ At("split") \/ At("child")
  /\ Last(frames).todo = <<>>
  /\ frames' = Front(frames)
  /\ UNCHANGED <<body, graph, visit_times, cut, outcome>>

\* MUTANT of report: bugs are printed although the walk was cut short.
report_always ==
  /\ SccDone /\ frames = <<>> /\ visit_times # 0 /\ outcome = "none"
  /\ outcome' = "reported"
  /\ UNCHANGED <<body, graph, frames, visit_times, cut>>

report ==
  /\ SccDone /\ frames = <<>> /\ visit_times # 0 /\ outcome = "none"
  /\ outcome' = IF visit_times <= VISIT_LIMIT THEN "reported" ELSE "over visited"
  /\ UNCHANGED <<body, graph, frames, visit_times, cut>>

CheckStep ==
  /\ \/ start_check \/ check_over_limit \/ check \/ check_child
     \/ child_target \/ child_work \/ child_blocks \/ child_exit \/ child_restore
     \/ split_check \/ split_restore \/ loop_end \/ report
  /\ UNCHANGED scc_vars

Step == SolveScc \/ CheckStep

\* A merge_alias that does not return has no further effect.
Recurses == graph.endless # <<>>

Ended == outcome # "none" \/ Recurses

Stop == Ended /\ UNCHANGED vars

Next == (~Recurses /\ Step) \/ Stop

\* The analysis of a body is one sequential computation that goes on as long as
\* there is something left to do. This is WF_vars(Step) with ENABLED spelled
\* out: a step that changes the state is possible until the analysis has ended,
\* and what changes the state is a Step.
Fairness == []<>Ended \/ []<><<TRUE>>_vars

Spec == Init /\ [][Next]_vars /\ Fairness

-----------------------------------------------------------------------------
(* Properties *)

Nodes == DOMAIN graph.values

\* No block is being worked on: the graph is that of the path up to here.
Between == ~Recurses /\ (At("call") \/ outcome = "reported")

\* The graph has one entry per node in each of its Vecs (IndexIsPosition is about
\* the components for which it has not), an alias entry names a node, and a birth is dead or the number of a block.
TypeOK ==
  /\ Nodes = 0 .. VLen(graph.values) - 1
  /\ child_scc = <<>> => DOMAIN graph.alias_set = Nodes /\ DOMAIN graph.dead_record = Nodes
  /\ \A n \in DOMAIN graph.alias_set : graph.alias_set[n] \in DOMAIN graph.alias_set
  /\ \A n \in DOMAIN graph.dead_record : graph.dead_record[n] \in BOOLEAN
  /\ \A n \in Nodes : graph.values[n].birth \in {-1} \cup Blocks
  /\ outcome \in {"none", "reported", "over visited"}

\* "index: usize, // node index": a node is stored at its own index, so that
\* fields, alias entries and dead records all speak of the same node.
IndexIsPosition == \A n \in Nodes : graph.values[n].index = n

\* The locals through which a place on the left of an assignment or a call goes.
Pointers ==
  LET Left(b) == {a.lv : a \in ToSet(b.assignments)} \cup {t.dest : t \in ToSet(b.calls)}
  IN  {p.local : p \in {q \in UNION {Left(blocks[b]) : b \in Blocks} :
                          \E i \in DOMAIN q.proj : q.proj[i].op = "Deref"}}

\* The fields of a node are later nodes, and no node is a field twice. They are
\* counted to the local of the node, so that the guard of alias_bb, which only
\* compares the locals, keeps merge_alias from merging a node into a part of
\* itself, except where it does not: a field written through a pointer is counted
\* to the pointer, and one that a summary walks to on the left to the operand.
FieldsAreTrees ==
  Between => \A n \in Nodes : \A f \in DOMAIN graph.values[n].fields :
    LET c == graph.values[n].fields[f]
        local == graph.values[c].local
    IN  /\ c \in Nodes /\ c > n
        /\ local = graph.values[n].local \/ local \in Pointers \/ c \in Parts(graph.values, local)
        /\ \A m \in Nodes : \A e \in DOMAIN graph.values[m].fields :
             graph.values[m].fields[e] = c => m = n /\ e = f

\* The locals a Discriminant statement of the body assigns.
Discriminants ==
  UNION {{s.lv.local : s \in {x \in ToSet(body.mir[b].stmts) : x.kind = "Discriminant"}}
           : b \in DOMAIN body.mir}

\* What AliasSet assumes and proves Flat from, seen in the whole analysis: no
\* assignment or call ever unites a discriminant, so the entry that Variant
\* writes without a union never breaks a chain to a root.
AliasesAreFlat ==
  Between => \A n \in Nodes \ Discriminants :
    /\ graph.alias_set[n] \notin Discriminants
    /\ graph.alias_set[graph.alias_set[n]] = graph.alias_set[n]

\* The Vecs are in step, the fields are trees, the alias array is flat and, without
\* child components, nodes are where their index says, in every state between two
\* blocks: what each operation on the graph relies on.
GraphIsSound ==
  TypeOK /\ FieldsAreTrees /\ AliasesAreFlat /\ (child_scc = <<>> => IndexIsPosition)

\* The graph after a drop of a node in a block later than all others.
AfterDrop(n) == dead_node(graph, n, Cardinality(Blocks), <<>>)

\* Dropping a node kills nothing that does not share memory with it: a node
\* that dies is reached from the dropped one over aliases and fields.
OnlyLinkedNodesDie ==
  Between /\ child_scc = <<>> => \A n \in Nodes :
    LET after == AfterDrop(n)
        linked == Searched(graph, n)
    IN  \A m \in Nodes : is_alive(graph.values[m]) /\ ~is_alive(after.values[m])
                           => m \in linked

\* The component of a frame that is at work on one.
WorkingOn == {scc_indices[frames[k].bb] : k \in {j \in DOMAIN frames : frames[j].k = "child"}}

\* A component whose exits are being followed is not entered again: the walk
\* descends the contracted graph, which has no cycle.
ComponentsAreLeft ==
  At("call") => scc_indices[Last(frames).bb] \notin WorkingOn

\* Bugs are reported exactly when no call of check was refused: the reported
\* list is never that of half the paths.
ReportIsComplete ==
  (outcome = "reported" => ~cut) /\ (outcome = "over visited" => cut)

\* "a threhold to avoid path explosion": without child components the calls of
\* check stop one past the limit, however many branches are still pending.
VisitsAreBounded == child_scc = <<>> => visit_times <= VISIT_LIMIT + 1

\* The visit limit of check stops the walk where it should, and report_bugs shows
\* no half result.
LimitIsHonoured == ReportIsComplete /\ VisitsAreBounded

\* query_safedrop ends on every body, with one exception: merge_alias recurses for
\* ever when the left node is a part of the right one, and only then. alias_bbcall
\* never excludes this case, alias_bb not always.
Terminates ==
  <>(outcome # "none" \/ (Recurses /\ graph.endless[1] \in Parts(graph.values, graph.endless[2])))

\* "record the constant value during safedrop checking, i.e., which id has what
\* value": a local with a recorded constant was last written with a constant.
ConstantIsCurrent == DOMAIN graph.constant \cap graph.unknown = {}

=============================================================================
