------------------------------ MODULE HeapItem ------------------------------
(***************************************************************************)
(* TypeAnalysis: the ADTs that occur in the bodies of the crate and of the *)
(* functions they call are recorded; four passes over them then fill the   *)
(* table adt_owner, in place and in the iteration order of a HashSet.      *)
(***************************************************************************)
EXTENDS HeapTypes

CONSTANT Crates \* [keys, fns]; a function is [locals, calls]

VARIABLES crate,
          pc,        \* "collect", "pass", "done", and "read" when rCanary has gone on
          st,        \* fn_set, ty_map and adt_recorder of the collection
          todo,      \* the mir_keys still to visit
          dids, left, \* the order of the recorded ADTs: fixed part, and the rest
          pass, at,  \* the pass and the position in dids
          adt_owner

heapVars == <<crate, pc, st, todo, dids, left, pass, at, adt_owner>>

-----------------------------------------------------------------------------
\* TypeAnalysis::visit_ty: every instance of an ADT is gone into once.
RECURSIVE visit_ty(_, _)
visit_ty(s, t) ==
  CASE t.k = "Adt" /\ t \in s.ty_map -> s
    [] t.k = "Adt" /\ t \notin s.ty_map ->
         FoldLeft(visit_ty, [s EXCEPT !.ty_map = @ \cup {t}, !.adt_recorder = @ \cup {t.d}],
                  all_fields(t) \o TypeArgs(t))
    [] t.k \in {"Array", "Slice", "Ptr"} -> visit_ty(s, t.t)
    [] t.k = "Tuple" -> FoldLeft(visit_ty, s, t.ts)
    [] OTHER -> s

\* visit_body: the declared locals, then the bodies of the functions called
\* whose MIR is available.
RECURSIVE visit_body(_, _, _)
visit_body(c, s, f) ==
  FoldLeft(LAMBDA acc, g : IF g \in acc.fn_set THEN acc
                           ELSE visit_body(c, [acc EXCEPT !.fn_set = @ \cup {g}], g),
           FoldLeft(visit_ty, s, c.fns[f].locals), c.fns[f].calls)

-----------------------------------------------------------------------------
\* IsolatedParam: parameters that are a field, or lie in tuples and arrays.
RECURSIVE IsolatedParam(_)
IsolatedParam(t) ==
  CASE t.k = "Param" -> {t.i}
    [] t.k \in {"Array", "Tuple"} -> UNION {IsolatedParam(u) : u \in ToSet(Inner(t))}
    [] OTHER -> {}

\* MUTANT of IsolatedParamFieldSubst: goes through pointers too.
RECURSIVE IsolatedParamFieldSubst_ptr(_)
IsolatedParamFieldSubst_ptr(t) ==
  CASE t.k = "Param" -> {t.i}
    [] t.k \in {"Array", "Tuple", "Adt", "Ptr"} ->
         UNION {IsolatedParamFieldSubst_ptr(u) : u \in ToSet(Inner(t))}
    [] OTHER -> {}

\* IsolatedParamFieldSubst: the same, also inside the arguments of an ADT.
RECURSIVE IsolatedParamFieldSubst(_)
IsolatedParamFieldSubst(t) ==
  CASE t.k = "Param" -> {t.i}
    [] t.k \in {"Array", "Tuple", "Adt"} ->
         UNION {IsolatedParamFieldSubst(u) : u \in ToSet(Inner(t))}
    [] OTHER -> {}

\* MUTANT of Propagate: only what the table already says, not the fields.
Propagate_table(ow, p, t) ==
  IF t.k = "Adt" /\ t.args # <<>> /\ ~ IsEnum(t.d)
  THEN [p EXCEPT !.record = @ \cup UNION {IsolatedParamFieldSubst(t.args[i]) :
                                            i \in ow[t.d][1].params}]
  ELSE p

\* IsolatedParamPropagation::visit_ty; p holds record, unique, source_enum and
\* whether the last visit broke off. An ADT that carries no parameter breaks
\* off and stays in `unique`.
RECURSIVE Propagate(_, _, _)
Propagate(ow, p, t) ==
  CASE t.k = "Adt" /\ (t.args = <<>> \/ (~ p.source_enum /\ IsEnum(t.d))) -> Break(p)
    [] t.k = "Adt" /\ ~ (t.args = <<>> \/ (~ p.source_enum /\ IsEnum(t.d))) ->
         IF t.d \in p.unique THEN p
         ELSE IF (\A a \in ToSet(t.args) : IsolatedParamFieldSubst(a) = {}) \/ ow[t.d] = <<>>
         THEN Break([p EXCEPT !.unique = @ \cup {t.d}])
         ELSE FoldLeft(LAMBDA s, u : IF s.brk THEN s ELSE Propagate(ow, s, u),
                [FoldLeft(LAMBDA s, u : Ignored(Propagate(ow, s, u)),
                   [p EXCEPT !.unique = @ \cup {t.d},
                             !.record = @ \cup UNION {IsolatedParamFieldSubst(t.args[i]) :
                                                        i \in ow[t.d][1].params}],
                   all_fields(t))
                 EXCEPT !.unique = @ \ {t.d}],
                TypeArgs(t))
    [] t.k \in {"Array", "Tuple"} ->
         FoldLeft(LAMBDA s, u : IF s.brk THEN s ELSE Propagate(ow, s, u), p, Inner(t))
    [] OTHER -> p

\* OwnerPropagation::visit_ty
RECURSIVE OwnerPropagate(_, _, _)
OwnerPropagate(ow, p, t) ==
  CASE t.k = "Adt" /\ t.d \in p.unique -> p
    [] t.k = "Adt" /\ t.d \notin p.unique ->
         IF IsEnum(t.d) \/ ow[t.d] = <<>> THEN Break([p EXCEPT !.unique = @ \cup {t.d}])
         ELSE IF ow[t.d][1].owned
         THEN Break([p EXCEPT !.unique = @ \cup {t.d}, !.ownership = TRUE])
         ELSE FoldLeft(LAMBDA s, u : IF s.brk THEN s ELSE OwnerPropagate(ow, s, u),
                [FoldLeft(LAMBDA s, u : Ignored(OwnerPropagate(ow, s, u)),
                          [p EXCEPT !.unique = @ \cup {t.d}], all_fields(t))
                 EXCEPT !.unique = @ \ {t.d}],
                TypeArgs(t))
    [] t.k \in {"Array", "Tuple"} ->
         FoldLeft(LAMBDA s, u : IF s.brk THEN s ELSE OwnerPropagate(ow, s, u), p, Inner(t))
    [] OTHER -> p

\* FindPtr: a pointer in the fields, through structs and tuples.
RECURSIVE FindPtr(_, _)
FindPtr(unique, t) ==
  CASE t.k = "Adt" -> /\ AdtDefs[t.d].kind = "struct" /\ t.d \notin unique
                      /\ \E u \in ToSet(all_fields(t)) : FindPtr(unique \cup {t.d}, u)
    [] t.k = "Tuple" -> \E u \in ToSet(t.ts) : FindPtr(unique, u)
    [] OTHER -> t.k = "Ptr"

-----------------------------------------------------------------------------
\* `type_of(did)`: its own parameters as arguments, so fields stay as declared.
Units(d, F(_)) == [v \in DOMAIN AdtDefs[d].variants |-> F(v)]

extract_raw_generic(ow, d) ==
  Units(d, LAMBDA v : [owned |-> FALSE,
                       params |-> UNION {IsolatedParam(f) : f \in ToSet(AdtDefs[d].variants[v])}])

\* Each variant has a visitor of its own.
extract_raw_generic_prop(ow, d) ==
  Units(d, LAMBDA v :
    [owned |-> FALSE,
     params |-> FoldLeft(LAMBDA p, f : Ignored(Propagate(ow, p, f)),
                         [record |-> ow[d][v].params, unique |-> {}, source_enum |-> IsEnum(d),
                          brk |-> FALSE],
                         AdtDefs[d].variants[v]).record])

\* A struct with a PhantomData over a parameter and a pointer in some field.
extract_phantom_unit(ow, d) ==
  IF /\ AdtDefs[d].kind = "struct"
     /\ \E f \in ToSet(AdtDefs[d].variants[1]) :
          /\ f.k = "Adt" /\ AdtDefs[f.d].phantom
          /\ \E a \in ToSet(f.args) : IsolatedParamFieldSubst(a) # {}
     /\ \E f \in ToSet(AdtDefs[d].variants[1]) : FindPtr({}, f)
  THEN <<[ow[d][1] EXCEPT !.owned = TRUE]>>
  ELSE ow[d]

extract_owner_prop(ow, d) ==
  Units(d, LAMBDA v :
    [ow[d][v] EXCEPT !.owned =
       FoldLeft(LAMBDA p, f : Ignored(OwnerPropagate(ow, p, f)),
                [ownership |-> @, unique |-> {}, brk |-> FALSE],
                AdtDefs[d].variants[v]).ownership])

\* MUTANT of PassOn: the propagation starts from nothing instead of the table.
PassOn_reset(n, ow, d) ==
  CASE n = 1 -> extract_raw_generic(ow, d)
    [] n = 2 -> extract_raw_generic(ow, d)
    [] n = 3 -> extract_phantom_unit(ow, d)
    [] n = 4 -> Units(d, LAMBDA v : [ow[d][v] EXCEPT !.owned = FALSE])

PassOn(n, ow, d) ==
  CASE n = 1 -> extract_raw_generic(ow, d)
    [] n = 2 -> extract_raw_generic_prop(ow, d)
    [] n = 3 -> extract_phantom_unit(ow, d)
    [] n = 4 -> extract_owner_prop(ow, d)

-----------------------------------------------------------------------------
HeapInit ==
  /\ crate \in Crates
  /\ pc = "collect"
  /\ st = [fn_set |-> {}, ty_map |-> {}, adt_recorder |-> {}]
  /\ todo = crate.keys
  /\ dids = <<>> /\ left = {} /\ pass = 0 /\ at = 1
  /\ adt_owner = <<>>

\* visitor, the loop over mir_keys.
CollectBody ==
  /\ pc = "collect" /\ todo # <<>>
  /\ st' = IF Head(todo) \in st.fn_set THEN st
           ELSE visit_body(crate, [st EXCEPT !.fn_set = @ \cup {Head(todo)}], Head(todo))
  /\ todo' = Tail(todo)
  /\ UNCHANGED <<crate, pc, dids, left, pass, at, adt_owner>>

StartPasses ==
  /\ pc = "collect" /\ todo = <<>>
  /\ pc' = "pass" /\ pass' = 1
  /\ left' = st.adt_recorder
  /\ UNCHANGED <<crate, st, todo, dids, at, adt_owner>>

\* The first pass meets the ADTs in an order of the HashSet's choosing ...
FirstPass ==
  /\ pc = "pass" /\ pass = 1
  /\ \E d \in left : /\ dids' = Append(dids, d)
                     /\ left' = left \ {d}
                     /\ adt_owner' = (d :> PassOn(1, adt_owner, d)) @@ adt_owner
  /\ UNCHANGED <<crate, pc, st, todo, pass, at>>

\* ... and the later passes in the same order.
LaterPass ==
  /\ pc = "pass" /\ pass > 1 /\ at <= Len(dids)
  /\ adt_owner' = [adt_owner EXCEPT ![dids[at]] = PassOn(pass, adt_owner, dids[at])]
  /\ at' = at + 1
  /\ UNCHANGED <<crate, pc, st, todo, dids, left, pass>>

NextPass ==
  /\ pc = "pass" /\ (IF pass = 1 THEN left = {} ELSE at > Len(dids))
  /\ IF pass = 4 THEN pc' = "done" /\ dids' = <<>> /\ UNCHANGED pass
                  ELSE pass' = pass + 1 /\ UNCHANGED <<pc, dids>>
  /\ at' = 1
  /\ UNCHANGED <<crate, st, todo, left, adt_owner>>

HeapNext == CollectBody \/ StartPasses \/ FirstPass \/ LaterPass \/ NextPass

HeapSpec == HeapInit /\ [][HeapNext]_heapVars

-----------------------------------------------------------------------------
\* The queries of HeapItem and IsolatedParameter: an answer, an error or a
\* panic; q names the one that asks.
Ok(x) == [ok |-> x]
Err == [err |-> TRUE]
Panic == [panic |-> TRUE]

Says(unit, q) == IF q = "HeapItem" THEN unit.owned ELSE unit.params # {}

is_adt(ow, t, q) ==
  IF t.k = "Adt" THEN Ok(\E i \in DOMAIN ow[t.d] : Says(ow[t.d][i], q)) ELSE Err

is_struct(ow, t, q) == IF t.k = "Adt" /\ ~ IsEnum(t.d) THEN Ok(Says(ow[t.d][1], q)) ELSE Err

is_enum(ow, t, q) == IF t.k = "Adt" /\ IsEnum(t.d) THEN is_adt(ow, t, q) ELSE Err

\* i counts from 0, as in the code: `idx > ans.len()` lets ans.len() through.
is_enum_vidx(ow, t, i, q) ==
  CASE t.k # "Adt" -> Err
    [] t.k = "Adt" /\ (~ IsEnum(t.d) \/ i > Len(ow[t.d])) -> Err
    [] t.k = "Adt" /\ IsEnum(t.d) /\ i = Len(ow[t.d]) -> Panic
    [] t.k = "Adt" /\ IsEnum(t.d) /\ i < Len(ow[t.d]) -> Ok(Says(ow[t.d][i + 1], q))

\* HeapItem answers with a truth value per variant, IsolatedParameter with the
\* parameters of each.
is_enum_flattened(ow, t, q) ==
  IF t.k = "Adt" /\ IsEnum(t.d)
  THEN Ok([i \in DOMAIN ow[t.d] |-> IF q = "HeapItem" THEN ow[t.d][i].owned ELSE ow[t.d][i].params])
  ELSE Err

-----------------------------------------------------------------------------
\* The type of the definition d: its own parameters as arguments.
Generic(d) == Adt(d, [i \in 1..AdtDefs[d].arity |-> Param(i)])

\* A pointer beside a PhantomData over a parameter: the unit that owns heap data.
IsUnit(d) ==
  LET fields == ToSet(AdtDefs[d].variants[1])
  IN /\ AdtDefs[d].kind = "struct"
     /\ \E f \in fields : /\ f.k = "Adt" /\ AdtDefs[f.d].phantom
                          /\ \E a \in ToSet(f.args) : IsolatedParamFieldSubst(a) # {}
     /\ \E f \in fields : FindPtr({}, f)

\* The types held by value in t: through structs, tuples and arrays, not
\* through pointers and enums.
RECURSIVE Held(_)
Held(t) ==
  {t} \cup (CASE t.k \in {"Array", "Tuple"} -> UNION {Held(u) : u \in ToSet(Inner(t))}
              [] t.k = "Adt" -> IF IsEnum(t.d) THEN {}
                                ELSE UNION {Held(u) : u \in ToSet(all_fields(t))}
              [] OTHER -> {})

\* The same, going into the generic arguments too.
RECURSIVE Mentioned(_, _)
Mentioned(seen, t) ==
  IF t \in seen THEN {}
  ELSE {t} \cup (CASE t.k \in {"Array", "Tuple"} ->
                        UNION {Mentioned(seen \cup {t}, u) : u \in ToSet(Inner(t))}
                   [] t.k = "Adt" ->
                        UNION {Mentioned(seen \cup {t}, u) : u \in ToSet(TypeArgs(t)) \cup
                                 (IF IsEnum(t.d) THEN {} ELSE ToSet(all_fields(t)))}
                   [] OTHER -> {})

ParamsOf(ts) == {t.i : t \in {u \in ts : u.k = "Param"}}

\* The parameters that a field of type t can make isolated: those it holds by
\* value, those in an argument of an ADT that holds that argument, and those of
\* an ADT that is itself an argument. What a pointer or a PhantomData names does
\* not count.
RECURSIVE Counted(_, _)
Counted(seen, t) ==
  CASE t.k = "Param" -> {t.i}
    [] t.k \in {"Array", "Tuple"} -> UNION {Counted(seen, u) : u \in ToSet(Inner(t))}
    [] t.k = "Adt" /\ ~IsEnum(t.d) /\ t \notin seen ->
         UNION {Counted(seen \cup {t}, u) : u \in ToSet(all_fields(t)) \cup
                                                  {a \in ToSet(TypeArgs(t)) : a.k # "Param"}}
         \cup UNION {IsolatedParamFieldSubst(t.args[i]) : i \in ParamsOf(Held(Generic(t.d)))}
    [] OTHER -> {}

UnitsOf(ts) == {t \in ts : t.k = "Adt" /\ ~ IsEnum(t.d) /\ IsUnit(t.d)}

\* The struct d holds two instances of one ADT, with and without a parameter. The
\* visitors keep definitions in `unique`, not instances: the one without leaves
\* its definition there, and the other is passed over if it comes later.
MixesInstances(d) ==
  \E t \in Held(Generic(d)), u \in Held(Generic(d)) :
    /\ t.k = "Adt" /\ u.k = "Adt" /\ t.d = u.d /\ t.args # <<>>
    /\ IsolatedParamFieldSubst(t) = {} /\ IsolatedParamFieldSubst(u) # {}

\* A tuple of it has a member that breaks off the visit of the members after it.
BreaksTuple(d) ==
  \E t \in Held(Generic(d)) :
     t.k = "Tuple" /\ \E u \in ToSet(Front(t.ts)) : u.k = "Adt" /\ (IsEnum(u.d) \/ u.args = <<>>)

Structs == {d \in st.adt_recorder : ~ IsEnum(d)}
Done == pc = "done"

HeapTypeOK ==
  /\ pc \in {"collect", "pass", "done", "read"} /\ pass \in 0..4
  /\ st.adt_recorder \subseteq DOMAIN AdtDefs
  /\ (pc \in {"done", "read"} /\ DOMAIN adt_owner = st.adt_recorder) \/ DOMAIN adt_owner = ToSet(dids)
  /\ \A d \in DOMAIN adt_owner :
       /\ Len(adt_owner[d]) = Len(AdtDefs[d].variants)
       /\ \A v \in DOMAIN adt_owner[d] : adt_owner[d][v].params \subseteq 1..AdtDefs[d].arity

\* The passes look up every ADT they meet with `unwrap`: an ADT in the fields
\* of a recorded one, or in the arguments of such a field, is recorded when
\* the passes start.
RecorderIsClosed ==
  pc = "pass" /\ dids = <<>> =>
    \A d \in st.adt_recorder : \A v \in DOMAIN AdtDefs[d].variants :
      \A f \in ToSet(AdtDefs[d].variants[v]) :
        \A t \in Mentioned({}, f) : t.k = "Adt" => t.d \in st.adt_recorder

\* extract_raw_generic_prop, in whatever order the ADTs come: a parameter that
\* a struct holds by value is isolated, and one is isolated only if a field
\* holds it or an ADT of which it is an argument. The first half excepts what
\* breaks a visit off, and the instances of which one hides another: these are
\* not as different to the visitor as its comment has it.
IsolatedIsHeld ==
  Done => \A d \in Structs :
    LET params == adt_owner[d][1].params
    IN /\ params \subseteq UNION {Counted({}, f) : f \in ToSet(AdtDefs[d].variants[1])}
       /\ ~ MixesInstances(d) /\ ~ BreaksTuple(d) => ParamsOf(Held(Generic(d))) \subseteq params

\* extract_phantom_unit and extract_owner_prop: a struct is an owner if it is
\* or holds a heap unit, and only if it mentions one.
OwnerHoldsUnit ==
  Done => \A d \in Structs :
    /\ adt_owner[d][1].owned => UnitsOf(Mentioned({}, Generic(d))) # {}
    /\ UnitsOf(Held(Generic(d))) # {} /\ ~ BreaksTuple(d) => adt_owner[d][1].owned

\* The table adt_owner says of each recorded type what its fields say, in every
\* order of the passes, and none of the types they look up is missing.
TableIsOfFields == HeapTypeOK /\ RecorderIsClosed /\ IsolatedIsHeld /\ OwnerHoldsUnit

\* The passes update the table in place while others read it: none takes back
\* an isolated parameter or an owner that an earlier step established.
PassesOnlyAdd ==
  [][\A d \in DOMAIN adt_owner : \A v \in DOMAIN adt_owner[d] :
       /\ adt_owner[d][v].params \subseteq adt_owner'[d][v].params
       /\ adt_owner[d][v].owned => adt_owner'[d][v].owned]_heapVars

\* The two summaries of an instance agree: some field of it owns by default
\* (Encoder::encode) iff the whole owns by its unit and its isolated arguments
\* (DefaultOwnership), unless it is itself the heap unit.
LayoutMatchesSummary ==
  Done => \A t \in st.ty_map :
    LET whole == DefaultOwnership(adt_owner, t).res
        fields == encode(adt_owner, t, NoVariant).owned
    IN ~ IsEnum(t.d) /\ ~ IsUnit(t.d) /\ ~ BreaksTuple(t.d) /\ ~ MixesInstances(t.d)
         => (whole <=> fields)

\* HeapItem's and IsolatedParameter's queries never contradict each other: what
\* is_adt and is_enum say of an enum is what is_enum_vidx says of some variant and
\* is_enum_flattened lists, for every index that names a variant.
QueriesAgree ==
  Done => \A d \in st.adt_recorder :
    \A q \in {"HeapItem", "IsolatedParameter"} :
      IF IsEnum(d)
      THEN LET flat == is_enum_flattened(adt_owner, Generic(d), q).ok
               Yes(v) == IF q = "HeapItem" THEN flat[v] ELSE flat[v] # {}
           IN /\ is_struct(adt_owner, Generic(d), q) = Err
              /\ is_adt(adt_owner, Generic(d), q) = is_enum(adt_owner, Generic(d), q)
              /\ is_enum(adt_owner, Generic(d), q).ok = \E v \in DOMAIN flat : Yes(v)
              /\ \A v \in DOMAIN flat :
                   is_enum_vidx(adt_owner, Generic(d), v - 1, q) = Ok(Yes(v))
      ELSE /\ is_struct(adt_owner, Generic(d), q) = is_adt(adt_owner, Generic(d), q)
           /\ is_enum(adt_owner, Generic(d), q) = Err

=============================================================================
