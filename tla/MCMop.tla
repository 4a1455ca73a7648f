------------------------------- MODULE MCMop --------------------------------
(***************************************************************************)
(* Small crates for Mop. Locals: 0 the returned pointer, two arguments 1   *)
(* and 2 that are pointers, 3 a struct, 4 and 5 integers, 6 an enum.       *)
(***************************************************************************)
EXTENDS Mop

RawPtr == Ty(FALSE, TRUE, "RawPtr")
Owner == Ty(TRUE, TRUE, "Adt")
Scalar == Ty(FALSE, FALSE, "Adt")

Tys == <<RawPtr, RawPtr, RawPtr, Owner, Scalar, Scalar, Owner>>

L(l) == [local |-> l, proj |-> <<>>]
FieldOf(f) == [op |-> "Field", field |-> f, ty |-> RawPtr]
F(l, f) == [local |-> l, proj |-> <<FieldOf(f)>>]
Deref(l) == [local |-> l, proj |-> << [op |-> "Deref"] >>]

Copy(p) == [op |-> "Copy", place |-> p]
Const(v) == [op |-> "Const", val |-> v]

Use(lv, x) == [kind |-> "Use", lv |-> lv, x |-> x, span |-> 0]
Box(lv, x) == [kind |-> "ShallowInitBox", lv |-> lv, x |-> x, span |-> 0]
Discriminant(lv, rv) == [kind |-> "Discriminant", lv |-> lv, rv |-> rv, span |-> 0]

Goto(b) == [kind |-> "Goto", targets |-> {b}]
Return == [kind |-> "Goto", targets |-> {}]
Switch(x, targets, otherwise) ==
  [kind |-> "SwitchInt", discr |-> x, targets |-> targets, otherwise |-> otherwise]

Def(id) == [kind |-> "FnDef", id |-> id, mir |-> TRUE, corner |-> FALSE, is_drop |-> FALSE]
Extern(corner) == [Def(0) EXCEPT !.mir = FALSE, !.corner = corner]
FnPtr == [Def(0) EXCEPT !.kind = "FnPtr"]
Closure == [Def(0) EXCEPT !.kind = "Operand"]
Call(fn, dest, args, target) ==
  [kind |-> "Call", fn |-> fn, dest |-> dest, args |-> args, target |-> {target}, unwind |-> {}]

Block(stmts, term) == [is_cleanup |-> FALSE, stmts |-> stmts, term |-> term]

Fn(mir) == [tys |-> Tys, arg_size |-> 2, mir |-> mir, local |-> TRUE,
            const_context |-> FALSE, copies |-> FALSE]
Crate(fns) == [fns |-> fns, fast |-> FALSE, limit |-> 100]

-----------------------------------------------------------------------------
(* Functions that call each other *)

Args == <<Copy(L(1)), Copy(L(2))>>
Swapped == <<Copy(L(2)), Copy(L(1))>>

Assignments == {Use(F(0, 0), Copy(L(1))), Use(L(3), Copy(L(2)))}

\* A statement and at most one call.
Straight(stmt, g, args) ==
  Fn(<<Block(<<stmt>>, IF g = 0 THEN Goto(1) ELSE Call(Def(g), L(0), args, 1)),
       Block(<<>>, Return)>>)

\* Each of three functions calls any of them, itself included, or none.
Cycles ==
  {Crate(<<Straight(s1, g1, Args), Straight(s2, g2, Swapped), Straight(s3, g3, Args)>>)
     : s1 \in Assignments, s2 \in Assignments, s3 \in {Use(L(3), Copy(L(2)))},
       g1 \in 0 .. 3, g2 \in 0 .. 3, g3 \in 0 .. 3}

\* A function that reaches the same callees on two branches.
Diamond(t1, t2, join) ==
  Fn(<<Block(<<>>, Switch(Copy(L(4)), << <<0, 1>> >>, 2)), Block(<<>>, t1), Block(<<>>, t2),
       Block(<<join>>, Return)>>)

Shared ==
  {Crate(<<Diamond(Call(Def(g), L(0), a, 3), Call(Def(h), L(3), Args, 3), s),
           Straight(s2, 3, Swapped), Straight(s3, 0, Args)>>)
     : g \in 2 .. 3, h \in 2 .. 3, a \in {Args, Swapped}, s \in Assignments,
       s2 \in Assignments, s3 \in Assignments}
  \cup
  {Crate(<<Straight(s1, 2, a), Diamond(Call(Def(3), L(0), Args, 3), Goto(3), s2),
           Straight(s3, 0, Args)>>)
     : a \in {Args, Swapped}, s1 \in Assignments, s2 \in Assignments, s3 \in Assignments}

\* Callees without a summary of their own, operands that are constants or
\* cannot drop, a constant, functions that copy.
Leaves ==
  {Crate(<<Fn(<<Block(<<s>>, Call(fn, d, as, 1)), Block(<<>>, Return)>>),
           [Straight(Use(L(0), Copy(Deref(1))), 0, Args) EXCEPT !.copies = TRUE, !.local = FALSE],
           [Straight(Box(L(3), Copy(L(1))), 0, Args) EXCEPT !.const_context = TRUE]>>)
     : s \in Assignments \cup {Box(L(3), Copy(L(1)))},
       fn \in {Def(2), Def(3), Extern(FALSE), Extern(TRUE), FnPtr, Closure},
       d \in {L(0), L(3), L(4)},
       as \in {Args, <<Copy(L(1)), Const(0)>>, <<Copy(L(4)), Const(1)>>}}

\* A callee that stores an argument in the other, which may be the same value,
\* and one without MIR whose result is stored in its argument.
Links ==
  {Crate(<<Fn(<<Block(<<s>>, Call(fn, d, as, 1)), Block(<<>>, Return)>>),
           Straight(Use(F(1, 0), Copy(L(2))), 0, Args)>>)
     : s \in Assignments \cup {Use(F(1, 0), Copy(L(2)))}, fn \in {Def(2), Extern(FALSE)},
       d \in {L(0), F(3, 0), F(1, 0)}, as \in {Args, <<Copy(L(1)), Copy(L(1))>>, <<Copy(F(1, 0)), Copy(L(1))>>,
              <<Copy(L(3)), Const(0)>>}}

CallPrograms == Cycles \cup Shared \cup Leaves \cup Links

-----------------------------------------------------------------------------
(* Functions that switch *)

Exit(p) == Block(<<Use(L(0), Copy(p))>>, Return)

\* Two switches in a row, on the discriminant of one enum or on other values.
Twice(p, q, d) ==
  Fn(<<Block(<<Discriminant(L(4), L(6))>>, Switch(p, << <<0, 1>>, <<1, 2>> >>, 3)),
       Block(<<Use(F(3, 0), Copy(L(1)))>>, Goto(4)),
       Block(<<Use(L(3), Copy(F(6, 0)))>>, Goto(4)),
       Block(<<Use(L(1), Copy(L(2)))>>, Goto(4)),
       Block(<<d>>, Switch(q, << <<0, 5>>, <<1, 6>> >>, 7)),
       Exit(L(1)), Exit(F(3, 0)), Exit(F(6, 0))>>)

SwitchedPlaces == {Copy(L(4)), Copy(L(5)), Copy(F(6, 1))}
SwitchedConsts == {Const(1), Const(7), Const(NoScalar)}
Between == {Discriminant(L(5), L(6)), Use(L(5), Const(1)), Use(L(6), Const(1))}

SwitchPrograms ==
  {Crate(<<Twice(p, Copy(L(5)), d)>>) : p \in SwitchedPlaces \cup SwitchedConsts, d \in Between}
  \cup {Crate(<<Twice(Copy(L(4)), q, d)>>) : q \in SwitchedPlaces \cup SwitchedConsts, d \in Between}

-----------------------------------------------------------------------------
(* Functions with loops *)

\* A loop from block 1 with an exit 5 from its head, and one to e from its body:
\* 6, or 1 or 2 for none. The head may modify what the body switches on.
Loop(head, body, x, back, e) ==
  Fn(<<Block(<<>>, Goto(1)),
       Block(<<head>>, Switch(Copy(L(4)), << <<0, 2>> >>, 5)),
       Block(<<Use(F(3, 0), Copy(L(1)))>>, Switch(x, << <<0, 3>> >>, e)),
       Block(<<body>>, Switch(Copy(L(4)), << <<0, 1>>, <<1, 4>> >>, 4)),
       Block(<<>>, Goto(back)),
       Exit(F(3, 0)), Exit(L(2))>>)

Loops ==
  {Loop(h, b, x, back, e) : h \in {Use(L(5), Const(0)), Use(L(3), Copy(L(2)))},
     b \in {Use(L(1), Copy(L(2))), Use(L(5), Const(1))}, x \in {Copy(L(5)), Copy(F(6, 0))},
     back \in {1, 2}, e \in {1, 2, 6}}

ComponentPrograms == {[Crate(<<f>>) EXCEPT !.fast = b] : f \in Loops, b \in BOOLEAN}

\* The limit of 4 cuts the walks of these functions off.
LimitPrograms ==
  {[p EXCEPT !.limit = 4]
     : p \in ComponentPrograms \cup {Crate(<<Twice(p, q, Discriminant(L(5), L(6)))>>)
                                      : p \in SwitchedPlaces, q \in SwitchedPlaces}}

\* A loop whose body is one block: its head is the only one that switches.
Simple(term) ==
  Fn(<<Block(<<>>, Goto(1)), Block(<<>>, Switch(Copy(L(4)), << <<0, 2>> >>, 3)),
       Block(<<Use(L(1), Copy(L(2)))>>, term), Exit(L(1)), Exit(L(2))>>)

WhilePrograms == {Crate(<<Simple(Goto(1))>>)}

-----------------------------------------------------------------------------
(* The functions foo of the repository's tests of the alias analysis, called *)
(* by a main. Locals of foo: 3 the enum choice, 4 is a, 5 is r, the others   *)
(* are the values it switches on.                                            *)

Selecting == <<RawPtr, RawPtr, RawPtr, Scalar, RawPtr, RawPtr, Scalar, Scalar, Scalar>>
Gt(l) == [kind |-> "BinaryOp", lv |-> L(l), span |-> 0]
Shared_ref(lv, rv) == [kind |-> "Ref", lv |-> lv, rv |-> rv, span |-> 0]
Of(l, f) == [local |-> l, proj |-> << [op |-> "Deref"], [FieldOf(f) EXCEPT !.ty = Scalar] >>]

alias_field ==
  [Fn(<<Block(<<Gt(4)>>, Switch(Copy(L(4)), << <<0, 2>> >>, 1)),
        Block(<<Shared_ref(L(0), Of(1, 0))>>, Goto(3)),
        Block(<<Shared_ref(L(0), Of(1, 1))>>, Goto(3)),
        Block(<<>>, Return)>>) EXCEPT !.arg_size = 1]

alias_switch ==
  [Fn(<<Block(<<Discriminant(L(7), L(3))>>, Switch(Copy(L(7)), << <<0, 3>>, <<1, 2>> >>, 1)),
        Block(<<>>, Return),
        Block(<<Use(L(4), Copy(L(2)))>>, Goto(4)),
        Block(<<Use(L(4), Copy(L(1)))>>, Goto(4)),
        Block(<<Discriminant(L(8), L(3))>>, Switch(Copy(L(8)), << <<0, 6>>, <<1, 5>> >>, 1)),
        Block(<<Use(L(0), Copy(L(1)))>>, Goto(7)),
        Block(<<Use(L(0), Copy(L(4)))>>, Goto(7)),
        Block(<<>>, Return)>>) EXCEPT !.arg_size = 3, !.tys = Selecting]

alias_scc ==
  [Fn(<<Block(<<Use(L(5), Copy(L(1)))>>, Goto(1)),
        Block(<<Gt(6)>>, Switch(Copy(L(6)), << <<0, 9>> >>, 2)),
        Block(<<Discriminant(L(7), L(3))>>, Switch(Copy(L(7)), << <<0, 5>>, <<1, 4>> >>, 3)),
        Block(<<>>, Return),
        Block(<<Use(L(4), Copy(L(2)))>>, Goto(6)),
        Block(<<Use(L(4), Copy(L(1)))>>, Goto(6)),
        Block(<<Discriminant(L(8), L(3))>>, Switch(Copy(L(8)), << <<0, 8>>, <<1, 7>> >>, 3)),
        Block(<<Use(L(5), Copy(L(1)))>>, Goto(1)),
        Block(<<Use(L(5), Copy(L(4)))>>, Goto(1)),
        Block(<<Use(L(0), Copy(L(5)))>>, Return)>>) EXCEPT !.arg_size = 3, !.tys = Selecting]

Main(args) == Fn(<<Block(<<>>, Call(Def(2), L(0), args, 1)), Block(<<>>, Return)>>)

TestPrograms ==
  {Crate(<<Main(<<Copy(L(1))>>), alias_field>>)}
  \cup {Crate(<<Main(<<Copy(L(1)), Copy(L(2)), Copy(L(4))>>), f>>) : f \in {alias_switch, alias_scc}}

\* A summary as it is displayed.
Shown(summary) ==
  {<<a.left_index, a.left_field_seq, a.right_index, a.right_field_seq>> : a \in summary}

\* What test_alias_field, test_alias_switch and test_alias_scc expect of foo, in
\* every order of the hash sets: both fields of the argument, and the first
\* argument only, although branches that exclude each other name the second.
FooAsTested ==
  finished /\ program \in TestPrograms => Shown(fn_map[2]) =
    IF Body(2) = alias_field THEN { <<0, <<>>, 1, <<0>>>>, <<0, <<>>, 1, <<1>>>> }
    ELSE { <<0, <<>>, 1, <<>>>> }

AllPrograms ==
  CallPrograms \cup SwitchPrograms \cup ComponentPrograms \cup LimitPrograms \cup TestPrograms

-----------------------------------------------------------------------------
(* The summary of a function, path by path *)

\* The functions that f calls with a summary.
Calls(f) ==
  {m.term.fn.id : m \in {b \in ToSet(Body(f).mir) :
     b.term.kind = "Call" /\ b.term.fn.kind = "FnDef" /\ b.term.fn.mir}}

CallsFrom == ReachBy([h \in Fns |-> Calls(h)])

\* f has no loop, and no switch of it is on a constant or a discriminant.
Plainly(f) ==
  LET bs == NewBlocks(Body(f))
      reach == ReachBy([b \in DOMAIN bs |-> bs[b].next])
  IN  /\ \A b \in DOMAIN bs : b \notin reach[b] /\ (bs[b].switch_stmts = <<>> \/ HasSwitchTarget(bs, b))
      /\ DOMAIN DiscMap(Body(f)) = {}

\* Neither f nor what it calls recurses, loops or leaves out branches.
Direct(f) == \A h \in {f} \cup CallsFrom[f] : h \notin CallsFrom[h] /\ Plainly(h)

\* The summaries that f can have when it is analysed by itself: path by path,
\* each callee by itself again, nothing kept. Res holds them for the rest of a
\* path from block b with graph g.
RECURSIVE Alone(_), Res(_, _, _, _)
Res(f, bs, g, b) ==
  LET h == alias_bb(g, bs[b])
      t == bs[b].calls[1]
      s == CallOperands(h, t)
      after ==
        IF bs[b].calls = <<>> \/ t.fn.kind = "Operand" THEN {h}
        ELSE IF t.fn.kind # "FnDef" \/ ~s.may_drop THEN {s.g}
        ELSE IF ~t.fn.mir THEN {ApplyUnknown(s, t.fn)}
        ELSE UNION {ApplySummary(s.g, a, s.vec) : a \in Alone(t.fn.id)}
      Joined(xs, n) == {x \cup y : x \in xs, y \in UNION {Res(f, bs, k, n) : k \in after}}
  IN  IF bs[b].next = {} THEN {merge_results(k, Body(f).arg_size).ret_alias : k \in after}
      ELSE FoldSet(LAMBDA n, xs : Joined(xs, n), {{}}, bs[b].next)

Alone(f) == Res(f, NewBlocks(Body(f)), NewValues(Body(f)), 0)

\* A function without loops whose calls do not recurse has the summary in fn_map
\* that its own analysis would give, whichever caller it was first analysed for, at whatever
\* depth, and although check puts back copies of fn_map; only the order in
\* which a callee's aliases are merged makes a difference.
SummaryIsStandalone ==
  ~cut /\ ~finished => \A f \in DOMAIN fn_map : Direct(f) => fn_map[f] \in Alone(f)

=============================================================================
