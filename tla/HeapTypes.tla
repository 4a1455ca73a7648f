----------------------------- MODULE HeapTypes ------------------------------
(***************************************************************************)
(* Types as the heap-item analysis and rCanary see them, and the type      *)
(* visitors that read the table adt_owner: what a type owns by default     *)
(* (DefaultOwnership, Encoder::encode) and its TyWithIndex.                *)
(*                                                                         *)
(* adt_owner maps an ADT to one unit per variant: [owned, params], params  *)
(* the positions (from 1) of the generic arguments that are isolated.      *)
(***************************************************************************)
EXTENDS Naturals, SequencesExt

CONSTANT AdtDefs \* per ADT: [kind, phantom, arity, variants], a variant the sequence of its
                 \* field types

Param(i) == [k |-> "Param", i |-> i]
Prim == [k |-> "Prim"]          \* bool, char, numbers, str
Other == [k |-> "Other"]        \* closures, never, ...
FnPtr == [k |-> "FnPtr"]
Lifetime == [k |-> "Lifetime"]
Ptr(t) == [k |-> "Ptr", t |-> t] \* raw pointers and references are treated alike
Array(t) == [k |-> "Array", t |-> t]
Slice(t) == [k |-> "Slice", t |-> t]
Tuple(ts) == [k |-> "Tuple", ts |-> ts]
Adt(d, args) == [k |-> "Adt", d |-> d, args |-> args]

NoVariant == 0 \* `None` for a VariantIdx; variant i of the code is i + 1 here

IsEnum(d) == AdtDefs[d].kind = "enum"
is_any_ptr(t) == t.k \in {"Ptr", "FnPtr"}

RECURSIVE Subst(_, _)
Subst(t, args) ==
  CASE t.k = "Param" -> args[t.i]
    [] t.k \in {"Ptr", "Array", "Slice"} -> [t EXCEPT !.t = Subst(@, args)]
    [] t.k = "Tuple" -> [t EXCEPT !.ts = [j \in DOMAIN @ |-> Subst(@[j], args)]]
    [] t.k = "Adt" -> [t EXCEPT !.args = [j \in DOMAIN @ |-> Subst(@[j], args)]]
    [] OTHER -> t

\* The field types of a variant of the ADT t, and of all its variants.
VariantTypes(t, v) ==
  [j \in DOMAIN AdtDefs[t.d].variants[v] |-> Subst(AdtDefs[t.d].variants[v][j], t.args)]
all_fields(t) == FlattenSeq([v \in DOMAIN AdtDefs[t.d].variants |-> VariantTypes(t, v)])

\* `substs.types()`, and the types that `super_visit_with` goes on to.
TypeArgs(t) == SelectSeq(t.args, LAMBDA a : a.k # "Lifetime")
Inner(t) == CASE t.k = "Tuple" -> t.ts
              [] t.k = "Adt" -> TypeArgs(t)
              [] OTHER -> <<t.t>>

Break(st) == [st EXCEPT !.brk = TRUE]
Ignored(st) == [st EXCEPT !.brk = FALSE] \* the caller drops the ControlFlow

-----------------------------------------------------------------------------
\* MUTANT of DefaultVisit: the arguments of an ADT are not visited.
RECURSIVE DefaultVisit_noargs(_, _, _)
DefaultVisit_noargs(ow, st, t) ==
  CASE t.k = "Adt" -> IF ~ IsEnum(t.d) /\ ow[t.d][1].owned THEN [st EXCEPT !.res = TRUE] ELSE st
    [] t.k \in {"Array", "Tuple"} ->
         FoldLeft(LAMBDA s, u : DefaultVisit_noargs(ow, s, u), st, Inner(t))
    [] t.k = "Param" -> Break([st EXCEPT !.res = TRUE])
    [] t.k = "Ptr" -> [st EXCEPT !.ptr = TRUE]
    [] OTHER -> st

\* DefaultOwnership::visit_ty. An ADT counts by its first unit; its isolated
\* arguments are visited, everything else in it is not.
RECURSIVE DefaultVisit(_, _, _)
DefaultVisit(ow, st, t) ==
  CASE t.k = "Adt" /\ IsEnum(t.d) -> Break(st)
    [] t.k = "Adt" /\ ~ IsEnum(t.d) /\ t.d \in st.unique -> st
    [] t.k = "Adt" /\ ~ IsEnum(t.d) /\ t.d \notin st.unique ->
         IF ow[t.d] = <<>> THEN Break([st EXCEPT !.unique = @ \cup {t.d}])
         ELSE IF ow[t.d][1].owned
         THEN Break([st EXCEPT !.unique = @ \cup {t.d}, !.res = TRUE])
         ELSE IF ow[t.d][1].params = {} THEN [st EXCEPT !.unique = @ \cup {t.d}]
         ELSE FoldLeft(LAMBDA s, i : IF i \in ow[t.d][1].params
                                     THEN Ignored(DefaultVisit(ow, s, t.args[i])) ELSE s,
                       st, [i \in DOMAIN t.args |-> i])
    [] t.k \in {"Array", "Tuple"} ->
         FoldLeft(LAMBDA s, u : IF s.brk THEN s ELSE DefaultVisit(ow, s, u), st, Inner(t))
    [] t.k = "Param" -> Break([st EXCEPT !.res = TRUE])
    [] t.k = "Ptr" -> [st EXCEPT !.ptr = TRUE]
    [] OTHER -> st

DefaultOwnership(ow, t) ==
  DefaultVisit(ow, [unique |-> {}, res |-> FALSE, ptr |-> FALSE, brk |-> FALSE], t)

\* OwnershipLayoutResult: new, and one update per visited type.
NoLayout == [layout |-> <<>>, requirement |-> FALSE, owned |-> FALSE]

update_from_default_ownership_visitor(res, dv) ==
  [layout |-> Append(res.layout, dv.res),
   requirement |-> res.requirement \/ dv.res \/ dv.ptr,
   owned |-> res.owned \/ dv.res]

\* The layout with one entry per type of ts.
LayoutOf(ow, ts) ==
  FoldLeft(LAMBDA res, t : update_from_default_ownership_visitor(res, DefaultOwnership(ow, t)),
           NoLayout, ts)

\* Encoder::encode; TRUE in the layout is RawTypeOwner::Owned.
encode(ow, t, v) ==
  CASE t.k = "Array" -> LayoutOf(ow, <<t>>)
    [] t.k = "Tuple" -> LayoutOf(ow, t.ts)
    [] t.k = "Adt" /\ IsEnum(t.d) ->
         IF v = NoVariant THEN NoLayout ELSE LayoutOf(ow, VariantTypes(t, v))
    [] t.k = "Adt" /\ ~ IsEnum(t.d) -> LayoutOf(ow, all_fields(t))
    [] t.k = "Param" -> [layout |-> <<TRUE>>, requirement |-> TRUE, owned |-> TRUE]
    [] t.k = "Ptr" -> [layout |-> <<FALSE>>, requirement |-> TRUE, owned |-> FALSE]
    [] OTHER -> NoLayout

-----------------------------------------------------------------------------
NoTy == [len |-> 0, ty |-> Other, v |-> NoVariant, need |-> FALSE] \* TyWithIndex(None)

TyWithIndex(t, v) ==
  CASE t.k = "Tuple" -> [len |-> Len(t.ts), ty |-> t, v |-> NoVariant, need |-> TRUE]
    [] t.k = "Adt" /\ IsEnum(t.d) ->
         IF v = NoVariant THEN NoTy
         ELSE [len |-> Len(AdtDefs[t.d].variants[v]), ty |-> t, v |-> v, need |-> TRUE]
    [] t.k = "Adt" /\ ~ IsEnum(t.d) ->
         [len |-> Len(AdtDefs[t.d].variants[1]), ty |-> t, v |-> NoVariant, need |-> TRUE]
    [] t.k \in {"Array", "Param", "Ptr"} -> [len |-> 1, ty |-> t, v |-> NoVariant, need |-> TRUE]
    [] t.k \in {"Prim", "Slice"} -> [len |-> 1, ty |-> t, v |-> NoVariant, need |-> FALSE]
    [] OTHER -> NoTy

\* 0 unsupported, 1 trivial, 2 needed
get_priority(ti) == IF ti = NoTy THEN 0 ELSE IF ti.len > 0 /\ ti.need THEN 2 ELSE 1

=============================================================================
