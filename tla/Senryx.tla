------------------------------- MODULE Senryx -------------------------------
(***************************************************************************)
(* SenryxCheck::start: every function with an unsafe block is checked by a *)
(* BodyVisitor, which follows the paths of the body one after the other    *)
(* and keeps, for each path, what is known of the alignment of pointers.   *)
(* A call of a function with MIR starts a visitor for the callee; `stack`  *)
(* holds the visitors that are at work.                                    *)
(*                                                                         *)
(* A crate maps names to the functions with MIR, [local, block_unsafe,     *)
(* visible, method, cons, n, bounds, tys, paths, subs, blocks]: cons are   *)
(* the constructors of a method's type, n is the number of inputs, bounds  *)
(* the traits each generic parameter has to implement, tys the types of    *)
(* the locals without the pointers and slices around them, paths what      *)
(* get_paths returns and subs the scc_sub_blocks after solve_scc (see      *)
(* SccSolve and SccPaths); the loops have one entry, so that solving the   *)
(* contracted graph again keeps the paths. A block is [stmts, call], and a *)
(* call [fn, args, generics]; fn is "" where there is none.                *)
(*                                                                         *)
(* A place is [local, fields]: SafeDropGraph::projection gives each path   *)
(* of fields a node of its own, and drops a Deref, as no alias is merged.  *)
(***************************************************************************)
EXTENDS Integers, FiniteSets, SequencesExt, TLC

CONSTANTS Crates, STACK,
          Align, \* the alignment of each type
          Impls  \* the types each trait is implemented for

ASSUME StackAssumption == STACK \in Nat \ {0}

VARIABLES crate, level,  \* the functions; "High" checks the visible ones only
          todo,          \* functions that are still to be checked
          jobs,          \* path_forward_checks of the current function
          main,          \* the visitor whose results count
          stack,
          report,        \* per function checked, its check_results
          step           \* "next", "visit", "done", "panic" or "overflow"

vars == <<crate, level, todo, jobs, main, stack, report, step>>

API == {"from_raw_parts", "from_raw_parts_mut"}
None == [k |-> "None"]  \* an Option without a value
Aligned == [k |-> "Aligned"]
Cast(from, to) == [k |-> "Cast", from |-> from, to |-> to]
Item(ty, al) == [k |-> "Item", ty |-> ty, al |-> al]

\* BodyVisitor::new. solved: 1 or 2 when its graph went through solve_scc an odd or
\* an even number of times; st: per path, the abstract state of places; rec: the
\* global_recorder; pre: what is asked about the callee that is being visited.
NewVisitor(f, vt, rec) ==
  [fn |-> f, vt |-> vt, solved |-> 0, path |-> 1, pos |-> 1, st |-> <<>>, rec |-> rec,
   res |-> <<>>, pre |-> <<>>, bad |-> FALSE]

NoVisitor == NewVisitor("", 0, <<>>)

Init ==
  /\ crate \in Crates /\ level \in {"High", "Low"}
  /\ todo = {f \in DOMAIN crate : crate[f].local} /\ jobs = <<>> /\ main = NoVisitor
  /\ stack = <<>> /\ report = <<>> /\ step = "next"

-----------------------------------------------------------------------------
\* The abstract state of the current path: insert_path_abstate,
\* get_abstate_by_place_in_path.
Insert(v, p, item) == [v EXCEPT !.st[v.path] = (p :> item) @@ @]
Known(v, p) == p \in DOMAIN v.st[v.path]
ItemAt(v, p) == IF Known(v, p) THEN v.st[v.path][p] ELSE None

Whole(l) == [local |-> l, fields |-> <<>>]

\* GenericChecker::new: the types a parameter may stand for, of every trait it is
\* bounded by; none at all if the bounds are met by arbitrary types.
StdTraits == {"Copy", "Clone", "Sized"}
get_satisfied_ty_for_pod ==
  {"i8", "i16", "i32", "i64", "i128", "isize", "u8", "u16", "u32", "u64", "u128", "usize",
   "f32", "f64"} \cap DOMAIN Align
SatisfiedTys(bounds) ==
  IF bounds \subseteq StdTraits THEN {}
  ELSE UNION {Impls[t] : t \in bounds \cap DOMAIN Impls}
         \cup (IF "Pod" \in bounds THEN get_satisfied_ty_for_pod ELSE {})

\* A type is [k, name] with k "Ty" or "Param"; the layout keeps possible_aligns.
\* Types that differ have layouts that differ.
visit_ty_and_get_layout(f, ty) ==
  [ty |-> ty.name,
   aligns |-> {Align[t] : t \in IF ty.k = "Ty" THEN {ty.name} ELSE SatisfiedTys(crate[f].bounds[ty.name])}]

\* A parameter without any bound is not in the generic_map, which is unwrapped.
NoLayout(f) == \E i \in DOMAIN crate[f].tys :
  crate[f].tys[i].k = "Param" /\ crate[f].bounds[crate[f].tys[i].name] = {}

\* get_layout_by_place_usize knows the locals only, and unwraps.
HasLayout(p) == p.fields = <<>>
layout(v, p) == visit_ty_and_get_layout(v.fn, crate[v.fn].tys[p.local + 1])

\* MUTANT of handle_cast: a cast of a cast starts from the type in between.
handle_cast_last(v, lp, rp, ty) ==
  IF ~ HasLayout(rp) THEN [v EXCEPT !.bad = TRUE]
  ELSE LET to == visit_ty_and_get_layout(v.fn, ty)
       IN Insert(v, lp, Item(to, Cast(layout(v, rp), to)))

\* A cast of a cast starts from the first type.
handle_cast(v, lp, rp, ty) ==
  IF ~ HasLayout(rp) THEN [v EXCEPT !.bad = TRUE]
  ELSE LET r == ItemAt(v, rp)
           to == visit_ty_and_get_layout(v.fn, ty)
           from == IF r # None /\ r.al.k = "Cast" THEN r.al.from ELSE layout(v, rp)
       IN Insert(v, lp, Item(to, Cast(from, to)))

\* A statement is [k, lp, rp] with k "Use", "Ref", "PtrCast" (and `to`),
\* "OtherCast" or "Other".
path_analyze_assign(v, s) ==
  CASE s.k = "Use" -> IF Known(v, s.rp) THEN Insert(v, s.lp, ItemAt(v, s.rp)) ELSE v
    [] s.k = "Ref" -> IF HasLayout(s.rp) THEN Insert(v, s.lp, Item(layout(v, s.rp), Aligned))
                      ELSE [v EXCEPT !.bad = TRUE]
    [] s.k = "PtrCast" -> handle_cast(v, s.lp, s.rp, s.to)
    [] s.k = "OtherCast" -> [v EXCEPT !.bad = @ \/ ~ HasLayout(s.rp)]
    [] s.k = "Other" -> v

\* AlignState::check
Passes(al) ==
  al.k = "Aligned" \/
    /\ ~ (al.to.aligns = {} /\ al.from # al.to)
    /\ \A d \in al.to.aligns :
         ~ (d # 1 /\ al.from.aligns = {}) /\ \A s \in al.from.aligns : s <= d

\* get_arg_place: the projection is not looked at, and a constant is local 0.
ArgPlace(arg) == IF arg.k = "const" THEN 0 ELSE arg.local

\* SliceFromRawPartsChecker, process_checker, check_contract. Argument 0 has to be
\* aligned. The value of argument 1 is never known, and not known is more than
\* the bound; an item that is None is unwrapped.
Contracts == {<<1, "state">>, <<2, "value">>}
ArgItem(v, args, c) == ItemAt(v, Whole(ArgPlace(args[c[1]])))
Applies(v, args) ==
  {c \in Contracts : ArgPlace(args[c[1]]) # 0 /\ Known(v, Whole(ArgPlace(args[c[1]])))}
process_checker(v, name, args) ==
  LET failed == {c \in Applies(v, args) : c[2] = "value" \/ ~ Passes(ArgItem(v, args, c).al)}
  IN [name |-> name, failed |-> failed, passed |-> Applies(v, args) \ failed]

\* MUTANT of Checked: a later result replaces an earlier one.
Checked_last(v, call) ==
  IF v.vt # 0 \/ call.fn \notin API \/ call.generics = 0 THEN v
  ELSE IF \E c \in Applies(v, call.args) : ArgItem(v, call.args, c) = None THEN [v EXCEPT !.bad = TRUE]
  ELSE [v EXCEPT !.res = Append(SelectSeq(@, LAMBDA r : r.name # call.fn),
                                process_checker(v, call.fn, call.args))]

\* The unsafe call is checked by the outermost visitor, once for each type
\* argument; only the first result for a name is kept.
Checked(v, call) ==
  IF v.vt # 0 \/ call.fn \notin API \/ call.generics = 0 THEN v
  ELSE IF \E c \in Applies(v, call.args) : ArgItem(v, call.args, c) = None THEN [v EXCEPT !.bad = TRUE]
  ELSE IF \E i \in DOMAIN v.res : v.res[i].name = call.fn THEN v
  ELSE [v EXCEPT !.res = Append(@, process_checker(v, call.fn, call.args))]

-----------------------------------------------------------------------------
\* update_post_state: every argument takes the state of the parameter.
update_post_state(v, args, post) ==
  FoldLeft(LAMBDA v1, i : IF i \in DOMAIN post THEN Insert(v1, Whole(ArgPlace(args[i])), post[i]) ELSE v1,
           v, [i \in DOMAIN args |-> i])

PreState(v, args) == [i \in DOMAIN args |-> ItemAt(v, Whole(ArgPlace(args[i])))]

\* handle_call, up to the visit of the callee.
CallStarts(v, call) ==
  LET pre == PreState(v, call.args)
      hit == call.fn \in DOMAIN v.rec /\ v.rec[call.fn].pre = pre
  IN [(IF hit THEN update_post_state(v, call.args, v.rec[call.fn].post) ELSE v) EXCEPT !.pre = pre]

\* abstract_states_mop: the HashMap of paths has any order, and the first path
\* that knows a variable decides: what `meet` computes is dropped.
Orders(n) == {o \in [1 .. n -> 1 .. n] : \A i, j \in 1 .. n : o[i] = o[j] => i = j}
FirstKnown(v, o, p) ==
  LET knows == {i \in DOMAIN o : p \in DOMAIN v.st[o[i]]}
  IN IF knows = {} THEN None ELSE v.st[o[CHOOSE i \in knows : \A j \in knows : i <= j]][p]
get_args_post_states(v, o) == [i \in 1 .. crate[v.fn].n |-> FirstKnown(v, o, Whole(i))]

\* scc_sub_blocks: the first run of solve_scc finds them, and every further one,
\* which finds no new component, reverses them once more.
SubBlocks(f, b, solved) == IF solved = 1 THEN crate[f].subs[b] ELSE Reverse(crate[f].subs[b])

\* The blocks of path q, each followed by its scc_sub_blocks.
Blocks(f, q, solved) ==
  LET inside == SelectSeq(crate[f].paths[q], LAMBDA b : b \in DOMAIN crate[f].blocks)
  IN FlattenSeq([i \in DOMAIN inside |-> <<inside[i]>> \o SubBlocks(f, inside[i], solved)])

AtEnd(v) == v.path > Len(crate[v.fn].paths)
Here(v) == Blocks(v.fn, v.path, v.solved)

\* get_all_paths
Solving(v) == [v EXCEPT !.solved = IF @ = 1 THEN 2 ELSE 1]

\* MUTANT of PathStarts: the states of the path before are kept.
PathStarts_kept(v) ==
  IF v.path \in DOMAIN v.st THEN v
  ELSE [v EXCEPT !.st = Append(@, IF @ = <<>> THEN <<>> ELSE Last(@))]

\* A path starts with an empty abstract state, also if the body is visited again.
PathStarts(v) ==
  IF v.path \in DOMAIN v.st THEN [v EXCEPT !.st[v.path] = <<>>] ELSE [v EXCEPT !.st = Append(@, <<>>)]

\* To the next block of the path, or to the next path.
Advanced(v) == IF v.pos < Len(Here(v)) THEN [v EXCEPT !.pos = @ + 1]
               ELSE [v EXCEPT !.pos = 1, !.path = @ + 1]

Onward(v) ==
  LET w == Advanced(v)
  IN IF w.path # v.path /\ ~ AtEnd(w) THEN PathStarts(w) ELSE w

-----------------------------------------------------------------------------
\* start, check_soundness, body_visit_and_check: the body of a method is visited
\* once after each constructor.
NextFunction ==
  /\ step = "next" /\ main = NoVisitor
  /\ \E f \in todo :
       /\ todo' = todo \ {f}
       /\ IF crate[f].block_unsafe /\ (level = "High" => crate[f].visible)
          THEN /\ main' = NewVisitor(f, 0, <<>>)
               /\ jobs' = IF crate[f].method
                          THEN FlattenSeq([i \in DOMAIN crate[f].cons |-> <<crate[f].cons[i], f>>])
                          ELSE <<f>>
          ELSE UNCHANGED <<main, jobs>>
  /\ UNCHANGED <<crate, level, stack, report, step>>

\* path_forward_check
StartJob ==
  /\ step = "next" /\ jobs # <<>>
  /\ stack' = <<PathStarts(Solving(IF Head(jobs) = main.fn THEN [main EXCEPT !.path = 1, !.pos = 1]
                                   ELSE NewVisitor(Head(jobs), 0, <<>>)))>>
  /\ step' = "visit"
  /\ UNCHANGED <<crate, level, todo, jobs, main, report>>

\* path_analyze_block. There is no test for a function that is being visited
\* already.
VisitBlock ==
  /\ step = "visit" /\ ~ AtEnd(Last(stack))
  /\ \E v \in {Last(stack)}, b \in {crate[Last(stack).fn].blocks[Here(Last(stack))[Last(stack).pos]]} :
     \E v1 \in {FoldLeft(path_analyze_assign, v, b.stmts)} :
     \E v2 \in {IF b.call.fn = "" THEN v1 ELSE Checked(v1, b.call)} :
       IF v2.bad \/ NoLayout(v.fn) THEN step' = "panic" /\ UNCHANGED stack
       ELSE IF b.call.fn \notin DOMAIN crate
       THEN stack' = Append(Front(stack), Onward(v2)) /\ UNCHANGED step
       ELSE /\ stack' = Front(stack) \o
                 <<CallStarts(v2, b.call), PathStarts(Solving(NewVisitor(b.call.fn, v.vt + 1, v.rec)))>>
            /\ step' = IF Len(stack') > STACK THEN "overflow" ELSE step
  /\ UNCHANGED <<crate, level, todo, jobs, main, report>>

\* The rest of handle_call. What the callee's visitor recorded is lost.
ReturnToCaller ==
  /\ step = "visit" /\ Len(stack) > 1 /\ AtEnd(Last(stack))
  /\ \E v \in {Last(stack)}, w \in {Last(Front(stack))} :
     \E o \in Orders(Len(v.st)) :
       stack' = Append(Front(Front(stack)),
                       Onward([w EXCEPT !.pre = <<>>, !.rec =
                                 (v.fn :> [pre |-> w.pre, post |-> get_args_post_states(v, o)]) @@ @]))
  /\ UNCHANGED <<crate, level, todo, jobs, main, report, step>>

\* MUTANT of FinishJob: the same body is next again.
FinishJob_again ==
  /\ step = "visit" /\ Len(stack) = 1 /\ AtEnd(Last(stack))
  /\ main' = IF Head(jobs) = main.fn THEN Last(stack) ELSE main
  /\ stack' = <<>> /\ UNCHANGED jobs /\ step' = "next"
  /\ UNCHANGED <<crate, level, todo, report>>

FinishJob ==
  /\ step = "visit" /\ Len(stack) = 1 /\ AtEnd(Last(stack))
  /\ main' = IF Head(jobs) = main.fn THEN Last(stack) ELSE main
  /\ stack' = <<>> /\ jobs' = Tail(jobs) /\ step' = "next"
  /\ UNCHANGED <<crate, level, todo, report>>

FinishFunction ==
  /\ step = "next" /\ jobs = <<>> /\ main # NoVisitor
  /\ report' = (main.fn :> main.res) @@ report
  /\ main' = NoVisitor
  /\ UNCHANGED <<crate, level, todo, jobs, stack, step>>

Finish ==
  /\ step = "next" /\ main = NoVisitor /\ todo = {}
  /\ step' = "done"
  /\ UNCHANGED <<crate, level, todo, jobs, main, stack, report>>

Ended == step \in {"done", "panic", "overflow"}

Stop == Ended /\ UNCHANGED vars

Next == \/ NextFunction \/ StartJob \/ VisitBlock \/ ReturnToCaller
        \/ FinishJob \/ FinishFunction \/ Finish \/ Stop

\* One thread, which goes on until it has ended: weak fairness of the steps that
\* change the state, with ENABLED spelled out.
Fairness == []<>Ended \/ []<><<TRUE>>_vars

Spec == Init /\ [][Next]_vars /\ Fairness

-----------------------------------------------------------------------------
\* The visitors are of functions with MIR, one call deeper than the one below,
\* and have a state for each path they have started.
STypeOK ==
  /\ step \in {"next", "visit", "done", "panic", "overflow"}
  /\ todo \subseteq DOMAIN crate /\ DOMAIN report \subseteq DOMAIN crate \ todo
  /\ (step = "visit") = (stack # <<>> /\ step \notin {"panic", "overflow"})
  /\ \A i \in DOMAIN stack :
       /\ stack[i].fn \in DOMAIN crate /\ stack[i].vt = i - 1
       /\ stack[i].path \in 1 .. Len(crate[stack[i].fn].paths) + 1
       /\ ~ AtEnd(stack[i]) => stack[i].path \in DOMAIN stack[i].st
                               /\ stack[i].pos \in DOMAIN Here(stack[i])

\* A function whose calls are of functions without MIR.
Plain(f) == \A b \in DOMAIN crate[f].blocks : crate[f].blocks[b].call.fn \notin DOMAIN crate

\* The visitor v of f after the first k blocks of path q alone, without the calls.
Replay(f, q, k, solved) ==
  FoldLeft(LAMBDA v, b : FoldLeft(path_analyze_assign, v, crate[f].blocks[b].stmts),
           [NewVisitor(f, 0, <<>>) EXCEPT !.path = q, !.st = [i \in 1 .. q |-> <<>>]],
           SubSeq(Blocks(f, q, solved), 1, k))

\* The places that take a state from S over a statement or a call of a function
\* with MIR for which Tells says so of the argument.
Spread(S, s) ==
  CASE s.k = "Use" /\ s.rp \in S -> S \cup {s.lp}
    [] s.k = "PtrCast" /\ s.rp \in S -> S \cup {s.lp}
    [] s.k = "PtrCast" /\ s.rp \notin S -> S \ {s.lp}
    [] s.k = "Ref" -> S \ {s.lp}
    [] OTHER -> S
Told(f, blocks, Tells(_, _)) ==
  FoldLeft(LAMBDA S, b :
             LET call == crate[f].blocks[b].call
             IN FoldLeft(Spread, S, crate[f].blocks[b].stmts) \cup
                  {Whole(ArgPlace(call.args[j])) :
                     j \in {i \in DOMAIN call.args : call.fn \in DOMAIN crate /\ Tells(call.fn, i)}},
           {}, blocks)

\* The blocks visitor i has been through on path q; it stands in a block whose
\* callee is being visited.
Walked(i, q) ==
  LET v == stack[i]
      all == Blocks(v.fn, q, v.solved)
  IN IF q < v.path THEN all ELSE SubSeq(all, 1, IF i < Len(stack) THEN v.pos ELSE v.pos - 1)

\* What is known on a path comes from the blocks of that path: nothing is left
\* of the paths before, of an earlier visit of the same body, or of the callees
\* visited in between, but for the arguments they were called with.
StatesAreOfOnePath ==
  \A i \in DOMAIN stack : \A q \in 1 .. Min({stack[i].path, Len(crate[stack[i].fn].paths)}) :
    LET known == stack[i].st[q]
        alone == Replay(stack[i].fn, q, Len(Walked(i, q)), stack[i].solved).st[q]
        told == Told(stack[i].fn, Walked(i, q), LAMBDA h, j : TRUE)
    IN \A p \in (DOMAIN known \cup DOMAIN alone) \ told :
         p \in DOMAIN known /\ p \in DOMAIN alone /\ known[p] = alone[p]

\* path_analyze keeps each visitor to its path: where it is, and what it knows
\* there, whatever was visited before and in between.
VisitorsKeepToPaths == STypeOK /\ StatesAreOfOnePath

\* Nothing is known of the parameter j of h at the end of its paths: the record of
\* h has None for it. For a function that calls others this depends on the calls.
LeavesAlone(h, j) ==
  Plain(h) => \A q \in DOMAIN crate[h].paths :
                Whole(j) \notin DOMAIN Replay(h, q, Len(Blocks(h, q, 1)), 1).st[q]

\* A place is known without an item only if it was an argument, or copied from one,
\* of a function that does nothing to the parameter; update_post_state writes the
\* None of its record, although the comment before it is about `mut_ref` parameters.
NoneOnlyFromCache ==
  \A i \in DOMAIN stack : \A q \in 1 .. Min({stack[i].path, Len(stack[i].st)}) :
    \A p \in DOMAIN stack[i].st[q] :
      stack[i].st[q][p] = None =>
        p \in Told(stack[i].fn, Walked(i, q), LAMBDA h, j : h \in DOMAIN stack[i].rec /\ LeavesAlone(h, j))

\* process_checker unwraps the item of an argument: the check panics for no other
\* reason than such a None, a type parameter without a bound, or a cast or borrow
\* of a field, which has no layout.
PanicsAreKnown ==
  step = "panic" =>
    LET v == Last(stack)
        b == crate[v.fn].blocks[Here(v)[v.pos]]
        lost == Told(v.fn, SubSeq(Here(v), 1, v.pos), LAMBDA h, j : h \in DOMAIN v.rec /\ LeavesAlone(h, j))
    IN \/ NoLayout(v.fn)
       \/ \E i \in DOMAIN b.stmts :
            b.stmts[i].k \in {"Ref", "PtrCast", "OtherCast"} /\ ~ HasLayout(b.stmts[i].rp)
       \/ \E c \in Contracts : Whole(ArgPlace(b.call.args[c[1]])) \in lost

Statements(f) ==
  FlattenSeq([b \in 1 .. Cardinality(DOMAIN crate[f].blocks) |-> crate[f].blocks[b - 1].stmts])
AssignedOnce(f) ==
  \A i, j \in DOMAIN Statements(f) : Statements(f)[i].lp = Statements(f)[j].lp => i = j
\* The place whose pointer is given or made, from which p is copied or cast.
RECURSIVE Origin(_, _)
Origin(f, p) ==
  LET from == {s.rp : s \in {t \in ToSet(Statements(f)) : t.lp = p /\ t.k \in {"Use", "PtrCast"}}}
  IN IF from = {} THEN p ELSE Origin(f, CHOOSE r \in from : TRUE)

\* The body was visited before, and one of its loops is walked backwards now.
Backwards(v) == v.solved = 2 /\ \E b \in DOMAIN crate[v.fn].blocks : Len(crate[v.fn].subs[b]) > 1

\* Where every place is assigned once, a cast remembers the type its pointer had
\* in the beginning, over all the casts and copies in between. A loop that is
\* walked backwards may read a pointer before it is made.
CastsStartAtOrigin ==
  \A i \in DOMAIN stack :
    LET v == stack[i]
    IN Plain(v.fn) /\ AssignedOnce(v.fn) /\ ~ Backwards(v) =>
         \A q \in 1 .. Min({v.path, Len(v.st)}) : \A p \in DOMAIN v.st[q] :
           v.st[q][p].al.k = "Cast" => v.st[q][p].al.from = layout(v, Origin(v.fn, p))

\* What check_contract is asked about has a known origin: the type a pointer
\* started with, or, for want of an item, a cached call.
ItemsHaveOrigins == CastsStartAtOrigin /\ NoneOnlyFromCache /\ PanicsAreKnown

\* The positions <<path, block>> at which f calls the unsafe function `name`.
CallsOf(f, name) ==
  {z \in (1 .. Len(crate[f].paths)) \X (1 .. 20) :
     /\ z[2] <= Len(Blocks(f, z[1], 1))
     /\ LET c == crate[f].blocks[Blocks(f, z[1], 1)[z[2]]].call
        IN c.fn = name /\ c.generics > 0}

\* A function with an unsafe block is checked, unless it is a method of a type
\* without a constructor, and each unsafe function it calls has one result: that
\* of the first call on the first path, with the loops in the order of the first
\* visit. That a method is visited once more for each constructor, with its loops
\* reversed every other time, does not show.
ReportIsOfFirstCall ==
  step = "done" =>
    \A f \in DOMAIN crate :
      crate[f].local /\ crate[f].block_unsafe /\ (level = "High" => crate[f].visible) =>
        /\ f \in DOMAIN report
        /\ Plain(f) /\ (crate[f].method => crate[f].cons # <<>>) =>
             \A name \in API :
               LET calls == CallsOf(f, name)
                   first == CHOOSE z \in calls : \A y \in calls : z[1] < y[1] \/ (z[1] = y[1] /\ z[2] <= y[2])
                   b == crate[f].blocks[Blocks(f, first[1], 1)[first[2]]]
               IN SelectSeq(report[f], LAMBDA r : r.name = name) =
                    IF calls = {} THEN <<>>
                    ELSE <<process_checker(Replay(f, first[1], first[2], 1), name, b.call.args)>>

\* No function calls itself, directly or not: when the functions that call none
\* of the rest are taken away, round by round, none is left.
Callees(f) == {crate[f].blocks[b].call.fn : b \in DOMAIN crate[f].blocks}
NoRecursion ==
  FoldLeft(LAMBDA T, i : {f \in T : Callees(f) \cap T # {}}, DOMAIN crate,
           [i \in 1 .. Cardinality(DOMAIN crate) |-> i]) = {}

\* Without recursion the check comes to its end.
ChecksEnd == NoRecursion ~> step \in {"done", "panic"}

=============================================================================
