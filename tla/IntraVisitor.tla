---------------------------- MODULE IntraVisitor ----------------------------
(***************************************************************************)
(* IntraFlowAnalysis: what the statements and terminators of a body do to  *)
(* the slice of the current block (per local: var, len, ty, layout, taint) *)
(* and to the solver.                                                      *)
(*                                                                         *)
(* The solver is kept as the set `ms` of its models. A model gives each    *)
(* constant so far the set of its bits that are 1; asserting `c = v` makes *)
(* a constant known in the model a filter and adds one that is not. The    *)
(* assertions are satisfiable iff a model is left. A constant is a tuple   *)
(* <<block, statement, local, suffix, width>>: its name and its sort.      *)
(*                                                                         *)
(* s is the slice with ms, taint_flag, `bad`, set where the code panics    *)
(* (an index, an unwrap, vectors of different width), and `reused`, set    *)
(* where a variable gets a constant that the solver already knows. cx      *)
(* is the place in the program: [ow, b, bi, si], ow the table adt_owner.   *)
(***************************************************************************)
EXTENDS HeapTypes, Integers

Declared == [k |-> "Declared"]
Unsupported == [k |-> "Unsupported"]
Init(c) == [k |-> "Init", c |-> c]

is_init(s, u) == s.var[u].k = "Init"
is_unsupported(s, u) == s.var[u].k = "Unsupported"

Width(c) == c[5]
ValueOf(m, s, u) == m[s.var[u].c]
Bad(s, cond) == [s EXCEPT !.bad = @ \/ cond]
Misfit(s, u) == Width(s.var[u].c) # s.len[u] \* `_safe_eq` and `bvand` need equal widths

\* new_local_name, with a suffix
Name(cx, u, suffix, width) == <<cx.bi, cx.si, u, suffix, width>>

\* The models that agree with m on the equations <<constant, value>> of eqs.
RECURSIVE Agreeing(_, _)
Agreeing(m, eqs) ==
  IF eqs = <<>> THEN {m}
  ELSE LET c == Head(eqs)[1]
       IN IF c \in DOMAIN m
          THEN IF m[c] = Head(eqs)[2] THEN Agreeing(m, Tail(eqs)) ELSE {}
          ELSE Agreeing([x \in DOMAIN m \cup {c} |-> IF x = c THEN Head(eqs)[2] ELSE m[x]],
                        Tail(eqs))

\* `solver.assert` of a disjunction of conjunctions of equations, given for each
\* of the models so far.
Asserted(alternatives) ==
  UNION {UNION {Agreeing(m, eqs) : eqs \in alternatives[m]} : m \in DOMAIN alternatives}

Known(s, cs) == \E m \in s.ms : cs \cap DOMAIN m # {}

\* The variable u gets the constant c, asserted to be new[m].
Define(s, u, c, new) ==
  [s EXCEPT !.ms = Asserted([m \in @ |-> {<< <<c, new[m]>> >>}]),
            !.reused = @ \/ Known(s, {c}),
            !.len[u] = Width(c), !.var[u] = Init(c)]

AllBits(s, u) == 0 .. Width(s.var[u].c) - 1

\* The same length, and of the value the bits in `kept`.
Renew(cx, s, u, suffix, kept) ==
  Define(s, u, Name(cx, u, suffix, s.len[u]), [m \in s.ms |-> ValueOf(m, s, u) \cap kept])

Bits(layout) == {i - 1 : i \in {j \in DOMAIN layout : layout[j]}}
Reversed(layout) == {i - 1 : i \in {j \in DOMAIN layout : ~ layout[j]}}

handle_intra_var_unsupported(s, u) ==
  IF is_unsupported(s, u) THEN s ELSE [s EXCEPT !.var[u] = Unsupported, !.len[u] = 0]

GiveUp(s, l, r) == handle_intra_var_unsupported(handle_intra_var_unsupported(s, l), r)

\* The constraint that the variable owned nothing before it is overwritten.
AssertZero(s, u) ==
  [Bad(s, Misfit(s, u)) EXCEPT !.ms = {m \in @ : ValueOf(m, s, u) = {}}]

-----------------------------------------------------------------------------
\* Places. A projection element is [k |-> "Field", i], "Deref", "Downcast" with
\* the variant v, or "Index"; fields count from 0, as the bits do.
LocalTy(cx, u) == cx.b.locals[u + 1]
has_projection(p) == p.proj # <<>>

\* place.ty(): a type and a variant.
PlaceTy(cx, p) ==
  FoldLeft(LAMBDA tv, el :
             CASE el.k = "Downcast" -> [tv EXCEPT !.v = el.v]
               [] el.k = "Field" ->
                    [t |-> IF tv.t.k = "Tuple" THEN tv.t.ts[el.i + 1]
                           ELSE VariantTypes(tv.t, IF tv.v = NoVariant THEN 1 ELSE tv.v)[el.i + 1],
                     v |-> NoVariant]
               [] OTHER -> [t |-> tv.t.t, v |-> NoVariant],
           [t |-> LocalTy(cx, p.local), v |-> NoVariant], p.proj)

extract_default_ty_layout(cx, tv) == encode(cx.ow, tv.t, tv.v)
TyIndexOf(tv) == TyWithIndex(tv.t, tv.v)
Required(lay) == lay.requirement /\ lay.layout # <<>>

NoField == -1

ProjectionSupport == [field |-> NoField, deref |-> FALSE, downcast |-> NoVariant, unsupport |-> FALSE]

\* aggre is the field an aggregate fills, or NoField.
extract_projection(p, aggre) ==
  IF aggre # NoField THEN [ProjectionSupport EXCEPT !.field = aggre]
  ELSE FoldLeft(LAMBDA prj, idx :
         LET el == p.proj[idx]
         IN IF prj.unsupport THEN prj
            ELSE CASE el.k = "Field" -> [prj EXCEPT !.field = IF @ = NoField THEN el.i ELSE @,
                                                    !.unsupport = prj.field # NoField \/ prj.deref]
                   [] el.k = "Deref" -> [prj EXCEPT !.deref = TRUE, !.unsupport = idx > 1]
                   [] el.k = "Downcast" -> [prj EXCEPT !.downcast = el.v, !.unsupport = idx > 1]
                   [] el.k = "Index" -> [prj EXCEPT !.unsupport = TRUE],
         ProjectionSupport, [i \in DOMAIN p.proj |-> i])

has_field(prj) == prj.field # NoField

\* generate_ptr_layout, as the set of bits that are true.
generate_ptr_layout(tv) ==
  CASE tv.t.k = "Tuple" -> {i - 1 : i \in {j \in DOMAIN tv.t.ts : is_any_ptr(tv.t.ts[j])}}
    [] tv.t.k = "Ptr" -> {0}
    [] OTHER -> {}

-----------------------------------------------------------------------------
\* What every transfer l = r ends with: both get new constants, l the width it
\* has now, and the taint of r.
Transfer(s, l, lc, r, rc, alternatives) ==
  [s EXCEPT !.ms = Asserted(alternatives),
            !.reused = @ \/ lc = rc \/ Known(s, {lc, rc}),
            !.len[l] = Width(lc), !.var[l] = Init(lc), !.var[r] = Init(rc),
            !.taint[l] = @ \cup s.taint[r]]

\* MUTANT of WholeTransfer: a copy leaves both sides as owners.
WholeTransfer_shared(cx, s, l, suffix, r, copy) ==
  LET lc == Name(cx, l, suffix, s.len[r])
      rc == Name(cx, r, "", s.len[r])
  IN Transfer(Bad(s, Misfit(s, r)), l, lc, r, rc,
       [m \in s.ms |->
          {<< <<lc, ValueOf(m, s, r)>>, <<rc, IF copy THEN ValueOf(m, s, r) ELSE {}>> >>}])

\* handle_copy and handle_move once the types fit: the value goes over, or
\* (copy only) stays.
WholeTransfer(cx, s, l, suffix, r, copy) ==
  LET lc == Name(cx, l, suffix, s.len[r])
      rc == Name(cx, r, "", s.len[r])
  IN Transfer(Bad(s, Misfit(s, r)), l, lc, r, rc,
       [m \in s.ms |-> {<< <<lc, ValueOf(m, s, r)>>, <<rc, {}>> >>}
                       \cup IF copy THEN {<< <<rc, ValueOf(m, s, r)>>, <<lc, {}>> >>} ELSE {}])

\* The first assignment of l: TyWithIndex decides whether it is followed.
\* `first` is the slice to go on with.
ByPriority(s, ti, given_up, first) ==
  CASE get_priority(ti) = 0 -> given_up
    [] get_priority(ti) = 1 -> s
    [] get_priority(ti) = 2 -> first

handle_whole(cx, s, l, rp, copy) ==
  LET r == rp.local
  IN IF is_unsupported(s, l) \/ is_unsupported(s, r) THEN GiveUp(s, l, r)
     ELSE IF ~ is_init(s, r) \/ s.len[r] = 0 THEN s
     ELSE IF is_init(s, l)
     THEN IF s.ty[l] # s.ty[r] THEN GiveUp(s, l, r)
          ELSE WholeTransfer(cx, AssertZero(s, l), l, "", r, copy)
     ELSE ByPriority(s, TyIndexOf(PlaceTy(cx, rp)), GiveUp(s, l, r),
            WholeTransfer(cx, [s EXCEPT !.ty[l] = s.ty[r], !.layout[l] = s.layout[r]],
                          l, "_ctor_asgn", r, copy))

handle_copy(cx, s, l, rp) == handle_whole(cx, s, l, rp, TRUE)
handle_move(cx, s, l, rp) == handle_whole(cx, s, l, rp, FALSE)

-----------------------------------------------------------------------------
\* y = x.f: l gets the bit of the field, spread over what its type owns (and
\* over its pointers, if x is tainted).
FieldOut(cx, s, l, suffix, r, f, tv, width, copy) ==
  LET lc == Name(cx, l, suffix, width)
      rc == Name(cx, r, "", s.len[r])
      mask == Bits(extract_default_ty_layout(cx, tv).layout)
              \cup IF s.taint[r] # {} THEN generate_ptr_layout(tv) ELSE {}
  IN Transfer(Bad(s, Misfit(s, r) \/ f >= s.len[r]), l, lc, r, rc,
       [m \in s.ms |-> {<< <<lc, IF f \in ValueOf(m, s, r) THEN mask ELSE {}>>,
                           <<rc, ValueOf(m, s, r) \ {f}>> >>}
                       \cup IF copy THEN {<< <<rc, ValueOf(m, s, r)>>, <<lc, {}>> >>} ELSE {}])

FromFieldTyped(cx, s, l, r, f, tv, lay, copy) ==
  IF ~ Required(lay) \/ s.len[r] = 0 THEN s
  ELSE IF is_init(s, l)
  THEN FieldOut(cx, AssertZero(s, l), l, "", r, f, tv, Len(lay.layout), copy)
  ELSE ByPriority(s, TyIndexOf(tv), GiveUp(s, l, r),
         FieldOut(cx, [s EXCEPT !.ty[l] = TyIndexOf(tv), !.layout[l] = lay.layout],
                  l, "_ctor_asgn", r, f, tv, Len(lay.layout), copy))

FromField(cx, s, l, rp, prj, copy) ==
  IF is_unsupported(s, l) \/ is_unsupported(s, rp.local) THEN GiveUp(s, l, rp.local)
  ELSE IF ~ is_init(s, rp.local) \/ (copy /\ s.len[rp.local] = 0) THEN s
  ELSE IF prj.unsupport THEN GiveUp(s, l, rp.local)
  ELSE IF ~ has_field(prj) THEN handle_whole(cx, s, l, rp, copy)
  ELSE FromFieldTyped(cx, s, l, rp.local, prj.field, PlaceTy(cx, rp),
                      extract_default_ty_layout(cx, PlaceTy(cx, rp)), copy)

handle_copy_from_field(cx, s, l, rp) == FromField(cx, s, l, rp, extract_projection(rp, NoField), TRUE)
handle_move_from_field(cx, s, l, rp) == FromField(cx, s, l, rp, extract_projection(rp, NoField), FALSE)

-----------------------------------------------------------------------------
\* What a variable held before a write: the value of its constant, if it has one.
Former(m, s, u) == IF is_init(s, u) THEN ValueOf(m, s, u) ELSE {}

\* y.f = x and y.f = x.g: rf is the field of r, or NoField.
StoreField(cx, s, l, lf, width, r, rf, copy) ==
  LET lc == Name(cx, l, "", width)
      rc == Name(cx, r, "", s.len[r])
      Taken(v) == IF rf = NoField THEN v # {} ELSE rf \in v
      Rest(v) == IF rf = NoField THEN {} ELSE v \ {rf}
      Others(m) == (Former(m, s, l) \cap 0 .. width - 1) \ {lf}
  IN Transfer(Bad(s, \/ Misfit(s, r) /\ (copy \/ rf # NoField)
                     \/ lf >= width \/ rf >= s.len[r]), l, lc, r, rc,
       [m \in s.ms |->
          {<< <<rc, Rest(ValueOf(m, s, r))>>,
              <<lc, Others(m) \cup IF Taken(ValueOf(m, s, r)) THEN {lf} ELSE {}>> >>}
          \cup IF copy THEN {<< <<rc, ValueOf(m, s, r)>>, <<lc, Others(m)>> >>} ELSE {}])

\* `extract` needs the bits it takes, `bvand` (copy) exactly as many.
Unfit(width, len, copy) == width < len \/ (copy /\ width > len)

\* An argument's field may own something when it is overwritten, a local's may
\* not. The first store into l starts from a constant that owns nothing.
IntoField(cx, s, l, lf, lay, disc, r, rf, copy) ==
  IF s.len[r] = 0 THEN s
  ELSE IF is_init(s, l)
  THEN StoreField(cx, [Bad(s, Unfit(Width(s.var[l].c), Len(lay), copy)) EXCEPT
                         !.ms = {m \in @ : l > cx.b.args => lf \notin ValueOf(m, s, l)}],
                  l, lf, Len(lay), r, rf, copy)
  ELSE StoreField(cx, [s EXCEPT !.ms = Asserted([m \in @ |->
                                   {<< <<Name(cx, l, "_ctor_asgn", Len(lay)), {}>> >>}]),
                                !.ty[l] = TyWithIndex(LocalTy(cx, l), disc), !.layout[l] = lay],
                  l, lf, Len(lay), r, rf, copy)

\* Once the layout of l is known to matter, its length is set first.
IntoRequired(cx, s, l, lf, lay, disc, r, rf, copy) ==
  IF ~ Required(lay) THEN s
  ELSE IntoField(cx, [s EXCEPT !.len[l] = Len(lay.layout)], l, lf, lay.layout, disc, r, rf, copy)

ToField(cx, s, lp, rp, prj, copy) ==
  LET l == lp.local
      ti == TyWithIndex(LocalTy(cx, l), prj.downcast)
  IN IF is_unsupported(s, l) \/ is_unsupported(s, rp.local) THEN GiveUp(s, l, rp.local)
     ELSE IF ~ is_init(s, rp.local) THEN s
     ELSE IF prj.unsupport THEN GiveUp(s, l, rp.local)
     ELSE IF ~ has_field(prj)
     THEN IF prj.downcast # NoVariant THEN s ELSE handle_whole(cx, s, l, rp, copy)
     ELSE IF prj.downcast # NoVariant /\ ti = NoTy THEN s
     ELSE IF prj.downcast # NoVariant /\ prj.field = 0 /\ ti.len = 1
     THEN handle_whole(cx, s, l, rp, copy)
     ELSE IntoRequired(cx, s, l, prj.field, encode(cx.ow, LocalTy(cx, l), prj.downcast),
                       prj.downcast, rp.local, NoField, copy)

handle_copy_to_field(cx, s, lp, rp, aggre) ==
  ToField(cx, s, lp, rp, extract_projection(lp, aggre), TRUE)
handle_move_to_field(cx, s, lp, rp, aggre) ==
  ToField(cx, s, lp, rp, extract_projection(lp, aggre), FALSE)

\* The arm (no field on the right, a field on the left) of the move goes on
\* after handle_move_to_field, and asks the right side for its field.
FieldToField(cx, s, lp, rp, lprj, rprj, copy) ==
  IF is_unsupported(s, lp.local) \/ is_unsupported(s, rp.local) THEN GiveUp(s, lp.local, rp.local)
  ELSE IF ~ is_init(s, rp.local) THEN s
  ELSE IF rprj.unsupport \/ lprj.unsupport THEN GiveUp(s, lp.local, rp.local)
  ELSE IF has_field(rprj) /\ ~ has_field(lprj) THEN FromField(cx, s, lp.local, rp, rprj, copy)
  ELSE IF ~ has_field(rprj) /\ has_field(lprj)
  THEN Bad(ToField(cx, s, lp, rp, lprj, copy), ~ copy)
  ELSE IF ~ has_field(rprj) THEN handle_whole(cx, s, lp.local, rp, copy)
  ELSE IntoRequired(cx, s, lp.local, lprj.field, encode(cx.ow, LocalTy(cx, lp.local), NoVariant),
                    NoVariant, rp.local, rprj.field, copy)

handle_copy_field_to_field(cx, s, lp, rp, aggre) ==
  FieldToField(cx, s, lp, rp, extract_projection(lp, aggre), extract_projection(rp, NoField), TRUE)
handle_move_field_to_field(cx, s, lp, rp, aggre) ==
  FieldToField(cx, s, lp, rp, extract_projection(lp, aggre), extract_projection(rp, NoField), FALSE)

\* The handler of l = r is chosen by the projections; aggre # NoField counts as
\* one on the left.
Assign(cx, s, lp, rp, copy, aggre) ==
  CASE (has_projection(lp) \/ aggre # NoField) /\ has_projection(rp) ->
         IF copy THEN handle_copy_field_to_field(cx, s, lp, rp, aggre)
         ELSE handle_move_field_to_field(cx, s, lp, rp, aggre)
    [] (has_projection(lp) \/ aggre # NoField) /\ ~ has_projection(rp) ->
         IF copy THEN handle_copy_to_field(cx, s, lp, rp, aggre)
         ELSE handle_move_to_field(cx, s, lp, rp, aggre)
    [] ~ (has_projection(lp) \/ aggre # NoField) /\ has_projection(rp) ->
         IF copy THEN handle_copy_from_field(cx, s, lp.local, rp)
         ELSE handle_move_from_field(cx, s, lp.local, rp)
    [] OTHER ->
         IF copy THEN handle_copy(cx, s, lp.local, rp) ELSE handle_move(cx, s, lp.local, rp)

\* An operand is [k, p]: "Copy", "Move", or "Const" (p is then not looked at).
AssignOperand(cx, s, lp, op, aggre) ==
  IF op.k = "Const" THEN s ELSE Assign(cx, s, lp, op.p, op.k = "Copy", aggre)

AggregateReady(cx, s, l, lay) ==
  IF is_unsupported(s, l) \/ ~ Required(lay) THEN s
  ELSE IF is_init(s, l) THEN [s EXCEPT !.len[l] = Len(lay.layout)]
  ELSE [Define(s, l, Name(cx, l, "_ctor_asgn", Len(lay.layout)), [m \in s.ms |-> {}]) EXCEPT
          !.ty[l] = TyWithIndex(LocalTy(cx, l), NoVariant)]

handle_aggregate_init(cx, s, l, v) == AggregateReady(cx, s, l, encode(cx.ow, LocalTy(cx, l), v))

\* A statement is [lp, rv], rv.k "Use" or "Cast" with an operand, "Ref" or
\* "RawPtr" with a place, "Adt" (an aggregate of variant v) with operands.
visit_assign(cx, s, lp, rv) ==
  CASE rv.k \in {"Use", "Cast"} -> AssignOperand(cx, s, lp, rv.op, NoField)
    [] rv.k \in {"Ref", "RawPtr"} -> Assign(cx, s, lp, rv.p, TRUE, NoField)
    [] rv.k = "Adt" /\ ~ has_projection(lp) ->
         FoldLeft(LAMBDA s1, i : AssignOperand(cx, s1, lp, rv.ops[i], i - 1),
                  handle_aggregate_init(cx, s, lp.local, rv.v), [i \in DOMAIN rv.ops |-> i])
    [] OTHER -> s

-----------------------------------------------------------------------------
DropWhole(cx, s, u, recovery) ==
  IF recovery THEN Renew(cx, s, u, "_drop_recovery", {})
  ELSE Renew(cx, s, u, "_drop_all", Reversed(s.layout[u]))

\* Replacing bit f of a vector of the given width by one of width len.
SpliceFails(width, f, len) == f >= len \/ width < (IF f < len - 1 THEN len ELSE f)

\* MUTANT of DropField: the test of the layout is the wrong way round.
DropField_reversed(cx, s, u, f, recovery) ==
  IF f >= Len(s.layout[u]) THEN s
  ELSE IF s.layout[u][f + 1] # recovery THEN Renew(cx, s, u, "_drop_f", AllBits(s, u))
  ELSE Renew(cx, s, u, "_drop_f", AllBits(s, u) \ {f})

DropField(cx, s, u, f, recovery) ==
  LET suffix == IF recovery THEN "_drop_f_recovery" ELSE "_drop_f"
  IN IF f >= Len(s.layout[u]) THEN s
     ELSE IF s.layout[u][f + 1] = recovery
     THEN Renew(cx, Bad(s, Misfit(s, u)), u, suffix, AllBits(s, u))
     ELSE Renew(cx, Bad(s, SpliceFails(Width(s.var[u].c), f, s.len[u])), u, suffix,
                (0 .. s.len[u] - 1) \ {f})

handle_drop(cx, s, p, recovery) ==
  LET u == p.local
      prj == extract_projection(p, NoField)
  IN IF s.len[u] = 0 \/ ~ is_init(s, u) THEN s
     ELSE IF prj.unsupport THEN handle_intra_var_unsupported(s, u)
     ELSE IF ~ has_field(prj) THEN DropWhole(cx, Bad(s, Misfit(s, u)), u, recovery)
     ELSE DropField(cx, s, u, prj.field, recovery)

-----------------------------------------------------------------------------
is_place_containing_ptr(t) ==
  \/ t.k = "Ptr"
  \/ t.k = "Tuple" /\ \E i \in DOMAIN t.ts : is_any_ptr(t.ts[i])

\* fn(self) -> * or &: the pointer takes the ownership with it.
check_fn_source(cx, args, dest) ==
  /\ Len(args) = 1
  /\ is_place_containing_ptr(PlaceTy(cx, dest).t)
  /\ args[1].k = "Move"
  /\ extract_default_ty_layout(cx, PlaceTy(cx, args[1].p)).owned

\* MUTANT of check_fn_recovery: only arguments that are moved.
check_fn_recovery_moved(cx, s, args, dest) ==
  {args[i].p.local : i \in {j \in DOMAIN args :
     args[j].k = "Move" /\ TyIndexOf(PlaceTy(cx, dest)) \in s.taint[args[j].p.local]}}

\* fn(*) -> Self: the arguments whose taint has the type of the destination.
check_fn_recovery(cx, s, args, dest) ==
  IF ~ Required(extract_default_ty_layout(cx, PlaceTy(cx, dest))) THEN {}
  ELSE {args[i].p.local : i \in {j \in DOMAIN args :
          args[j].k # "Const" /\ TyIndexOf(PlaceTy(cx, dest)) \in s.taint[args[j].p.local]}}

\* A pointer is passed on: it must own nothing.
PassPtr(cx, s, u) ==
  Renew(cx, AssertZero(s, u), u, "_param_pass", AllBits(s, u))

\* The constant a'=a is asserted, the variable keeps its old one.
PassCopy(cx, s, u) ==
  [Renew(cx, Bad(s, Misfit(s, u)), u, "_param_pass", AllBits(s, u)) EXCEPT !.var[u] = s.var[u]]

CallArg(cx, s, arg, recovery) ==
  LET u == arg.p.local
      ptr == is_any_ptr(PlaceTy(cx, arg.p).t)
  IN CASE Len(arg.p.proj) > 1 -> handle_intra_var_unsupported(s, u)
       [] arg.p.proj = <<>> /\ ptr ->
            IF u \in recovery THEN handle_drop(cx, s, arg.p, TRUE) ELSE PassPtr(cx, s, u)
       [] Len(arg.p.proj) = 1 /\ ptr /\ arg.k = "Move" ->
            IF u \in recovery THEN handle_drop(cx, s, arg.p, TRUE) ELSE PassCopy(cx, s, u)
       [] Len(arg.p.proj) <= 1 /\ ~ ptr /\ arg.k = "Move" -> handle_drop(cx, s, arg.p, FALSE)
       [] OTHER -> PassCopy(cx, s, u)

\* The loop over the arguments. With a source the destination l is tainted.
CallArgs(cx, s, args, l, source, recovery) ==
  FoldLeft(LAMBDA s1, arg :
             IF arg.k = "Const" THEN s1
             ELSE IF s1.len[arg.p.local] = 0 \/ ~ is_init(s1, arg.p.local) THEN s1
             ELSE CallArg(cx, IF source /\ arg.k = "Move"
                              THEN [s1 EXCEPT !.taint[l] = @ \cup {TyIndexOf(PlaceTy(cx, arg.p))}]
                              ELSE s1, arg, recovery),
           s, args)

\* dest has no projection: what was in it must own nothing.
DestWhole(cx, s, l, tv, lay, source) ==
  LET bits == Bits(lay.layout) \cup IF source THEN generate_ptr_layout(tv) ELSE {}
      Filled(s1, suffix) == Define(s1, l, Name(cx, l, suffix, Len(lay.layout)), [m \in s1.ms |-> bits])
  IN IF ~ Required(lay) THEN s
     ELSE IF is_init(s, l) THEN Filled(AssertZero(s, l), "_cover_fn")
     ELSE ByPriority(s, TyIndexOf(tv), handle_intra_var_unsupported(s, l),
            Filled([s EXCEPT !.ty[l] = TyIndexOf(tv), !.layout[l] = lay.layout], "_ctor_fn"))

\* dest is a field (or `*l`, which panics): l keeps the width it has.
FillField(cx, s, l, f, width, lay, source) ==
  [Define(Bad(s, SpliceFails(width, f, s.len[l]) \/ (~ source /\ f >= Len(lay))),
          l, Name(cx, l, "", s.len[l]),
          [m \in s.ms |-> (Former(m, s, l) \ {f})
                          \cup IF source \/ (f < Len(lay) /\ lay[f + 1]) THEN {f} ELSE {}])
   EXCEPT !.len[l] = Len(lay)]

DestField(cx, s, l, prj, lay, source) ==
  IF ~ Required(lay) THEN s
  ELSE IF ~ has_field(prj) THEN Bad(s, TRUE)
  ELSE IF is_init(s, l)
  THEN FillField(cx, [Bad(s, Width(s.var[l].c) <= prj.field) EXCEPT
                        !.ms = {m \in @ : prj.field \notin ValueOf(m, s, l)}],
                 l, prj.field, Width(s.var[l].c), lay.layout, source)
  ELSE FillField(cx, [s EXCEPT !.ty[l] = TyWithIndex(LocalTy(cx, l), NoVariant),
                               !.layout[l] = lay.layout],
                 l, prj.field, s.len[l], lay.layout, source)

CallDest(cx, s, dest, source) ==
  CASE is_unsupported(s, dest.local) -> s
    [] ~ is_unsupported(s, dest.local) /\ dest.proj = <<>> ->
         DestWhole(cx, s, dest.local, PlaceTy(cx, dest),
                   extract_default_ty_layout(cx, PlaceTy(cx, dest)), source)
    [] ~ is_unsupported(s, dest.local) /\ Len(dest.proj) = 1 ->
         DestField(cx, s, dest.local, extract_projection(dest, NoField),
                   encode(cx.ow, LocalTy(cx, dest.local), NoVariant), source)
    [] OTHER -> handle_intra_var_unsupported(s, dest.local)

CallFlagged(cx, s, t, source, recovery) ==
  CallDest(cx, CallArgs(cx, [s EXCEPT !.taint_flag = @ \/ source],
                        t.args, t.dest.local, source, recovery), t.dest, source)

\* t.drop: the callee is the function the code takes for std::mem::drop.
handle_call(cx, s, t) ==
  IF t.drop /\ t.args[1].k = "Move" /\ PlaceTy(cx, t.dest).t.k = "Adt"
  THEN handle_drop(cx, s, t.args[1].p, FALSE)
  ELSE CallFlagged(cx, s, t, check_fn_source(cx, t.args, t.dest),
                   check_fn_recovery(cx, s, t.args, t.dest))

-----------------------------------------------------------------------------
Locals(b) == 0 .. Len(b.locals) - 1
MustBeFreed(cx, s) == {u \in Locals(cx.b) : u > cx.b.args /\ s.len[u] # 0 /\ is_init(s, u)}

FreedAtReturn(cx, s) ==
  [Bad(s, \E u \in MustBeFreed(cx, s) : Misfit(s, u)) EXCEPT
     !.ms = {m \in @ : \A u \in MustBeFreed(cx, s) : ValueOf(m, s, u) = {}}]

\* The constraints of handle_return: local 0 is handed over, and what is left
\* in a variable at the end must be nothing.
handle_return(cx, s) ==
  FreedAtReturn(cx, handle_drop(cx, s, [local |-> 0, proj |-> <<>>], FALSE))

visit_terminator(cx, s, t) ==
  CASE t.kind = "Drop" -> handle_drop(cx, s, t.place, FALSE)
    [] t.kind = "Call" -> handle_call(cx, s, t)
    [] t.kind = "Return" -> handle_return(cx, s)
    [] OTHER -> s

-----------------------------------------------------------------------------
new_for_block_0(b) ==
  [var |-> [u \in Locals(b) |-> Declared], len |-> [u \in Locals(b) |-> 0],
   ty |-> [u \in Locals(b) |-> NoTy], layout |-> [u \in Locals(b) |-> <<>>],
   taint |-> [u \in Locals(b) |-> {}]]

\* An argument: the type decides whether it is followed. The variable of an
\* enum is marked in a slice that is thrown away, and stays declared.
ArgInit(cx, s, u, ti, lay) ==
  CASE ti = NoTy -> s
    [] ti # NoTy /\ ~ lay.owned -> [s EXCEPT !.len[u] = 0, !.var[u] = Unsupported, !.ty[u] = NoTy]
    [] ti # NoTy /\ lay.owned ->
         [Define(s, u, Name(cx, u, "_arg_init", Len(lay.layout)), [m \in s.ms |-> Bits(lay.layout)])
          EXCEPT !.ty[u] = ti]

EntrySlice(cx, s) ==
  FoldLeft(LAMBDA s1, u : ArgInit(cx, s1, u, TyWithIndex(LocalTy(cx, u), NoVariant),
                                  encode(cx.ow, LocalTy(cx, u), NoVariant)),
           s, [i \in 1 .. cx.b.args |-> i])

\* MUTANT of MergeOne: the length is the one of the first predecessor.
MergeOne_first(outs, u) ==
  [ty |-> outs[1].ty[u], ans_ty |-> outs[1].ty[u], len |-> outs[1].len[u],
   cs |-> {outs[i].var[u].c : i \in {j \in DOMAIN outs : outs[j].var[u].k = "Init"}},
   unsupported |-> FALSE, taint |-> outs[1].taint[u]]

\* One variable over the out slices of the predecessors: cs are the constants
\* whose `and` it becomes.
MergeOne(outs, u) ==
  FoldLeft(LAMBDA acc, o :
      CASE acc.unsupported \/ o.var[u].k = "Declared" -> acc
        [] ~ acc.unsupported /\ o.var[u].k = "Unsupported" -> [acc EXCEPT !.unsupported = TRUE]
        [] ~ acc.unsupported /\ o.var[u].k = "Init" ->
             IF acc.ty = NoTy
             THEN [acc EXCEPT !.ty = o.ty[u], !.ans_ty = o.ty[u], !.len = o.len[u],
                              !.cs = {o.var[u].c}, !.taint = @ \cup o.taint[u]]
             ELSE IF acc.ty # o.ty[u] THEN [acc EXCEPT !.unsupported = TRUE]
             ELSE [acc EXCEPT !.cs = @ \cup {o.var[u].c}, !.taint = @ \cup o.taint[u]],
    [ty |-> NoTy, ans_ty |-> outs[1].ty[u], len |-> outs[1].len[u], cs |-> {},
     unsupported |-> FALSE, taint |-> outs[1].taint[u]], outs)

MergeInto(cx, s, u, acc) ==
  LET s1 == [s EXCEPT !.ty[u] = acc.ans_ty, !.len[u] = acc.len, !.taint[u] = acc.taint]
  IN CASE acc.unsupported -> [s1 EXCEPT !.len[u] = 0, !.var[u] = Unsupported]
       [] ~ acc.unsupported /\ acc.cs = {} -> s1
       [] ~ acc.unsupported /\ acc.cs # {} ->
            Define(Bad(s1, \E c \in acc.cs : Width(c) # acc.len),
                   u, Name(cx, u, "_phi", acc.len),
                   [m \in s1.ms |-> {i \in UNION {m[c] : c \in acc.cs} : \A c \in acc.cs : i \in m[c]}])

\* s starts as the out slice of the first predecessor.
MergeSlices(cx, s, outs) ==
  FoldLeft(LAMBDA s1, i : MergeInto(cx, s1, i - 1, MergeOne(outs, i - 1)),
           s, [i \in 1 .. Len(cx.b.locals) |-> i])

=============================================================================
