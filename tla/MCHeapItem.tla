----------------------------- MODULE MCHeapItem -----------------------------
(***************************************************************************)
(* The crates of the repository's heap tests, and one crate for every      *)
(* struct Pair(f, g) of two fields out of a few kinds.                     *)
(***************************************************************************)
EXTENDS HeapItem, TLC

T == Param(1)
Of(name, args) == Adt(<<name>>, args)
Phantom(t) == Of("PhantomData", <<t>>)
Box(t) == Of("Box", <<t>>)

Def(kind, arity, variants) ==
  [kind |-> kind, phantom |-> FALSE, arity |-> arity, variants |-> variants]
Struct(arity, fields) == Def("struct", arity, <<fields>>)

Library ==
  <<"PhantomData">> :> [Struct(1, <<>>) EXCEPT !.phantom = TRUE]
  @@ <<"Unique">> :> Struct(1, <<Ptr(T), Phantom(T)>>)
  @@ <<"Box">> :> Struct(1, <<Of("Unique", <<T>>)>>)
  @@ <<"Vec">> :> Struct(2, <<Of("Unique", <<T>>), Param(2), Prim>>)
  @@ <<"Option">> :> Def("enum", 1, << <<>>, <<T>> >>)

\* tests/heap: heap_cell aside, heap_collections, heap_nested and heap_proxy
Tested ==
  <<"X">> :> Struct(1, <<T>>)
  @@ <<"Y">> :> Struct(1, <<Tuple(<<Prim, Tuple(<<Prim, T>>)>>), Of("X", <<Prim>>)>>)
  @@ <<"Example">> :> Struct(4, <<Of("X", <<T>>), Tuple(<<Prim, Tuple(<<Prim, Param(2)>>)>>),
                              Array(Array(Param(4))), Of("Vec", <<Param(3), Prim>>),
                              Of("Y", <<Param(2)>>)>>)
  @@ <<"Proxy1">> :> Struct(1, <<Ptr(T)>>)
  @@ <<"Proxy2">> :> Struct(1, <<Ptr(T), Phantom(T)>>)
  @@ <<"Proxy3">> :> Struct(2, <<Ptr(Param(2)), Phantom(Ptr(Param(2)))>>)
  @@ <<"Proxy4">> :> Struct(1, <<T>>)
  @@ <<"Proxy5">> :> Struct(1, <<Of("Proxy2", <<T>>)>>)

\* Made up: a recursive struct, an enum with a variant of each kind, and a struct
\* that only mentions another.
Others ==
  <<"List">> :> Struct(1, <<T, Box(Of("List", <<T>>))>>)
  @@ <<"Buf">> :> Def("enum", 1, << <<T>>, <<Box(T)>>, <<Ptr(T)>>, <<Of("X", <<T>>)>> >>)
  @@ <<"Msg">> :> Def("enum", 0, << <<Box(Prim)>>, <<Box(Prim), Prim>> >>)
  @@ <<"Outer">> :> Struct(1, <<Of("X", <<T>>)>>)
  @@ <<"Two">> :> Struct(0, <<Box(Prim), Box(Prim)>>)
  @@ <<"Tagged">> :> Struct(1, <<Ptr(T), Phantom(Of("Proxy4", <<T>>))>>)

FieldKinds ==
  {T, Ptr(T), Phantom(T), Of("Unique", <<T>>), Of("X", <<T>>), Of("X", <<Prim>>),
   Of("Outer", <<T>>), Tuple(<<Of("Option", <<Prim>>), T>>)}
Pairs == [p \in {<<"Pair", f, g>> : f \in FieldKinds, g \in FieldKinds} |->
            Struct(1, <<p[2], p[3]>>)]

MCAdtDefs == Library @@ Tested @@ Others @@ Pairs

\* A function that only returns.
Returns(locals, calls) ==
  [locals |-> locals, calls |-> calls, args |-> 0, n |-> 1, about |-> <<"plain">>,
   blocks |-> 0 :> [stmts |-> <<>>, term |-> [kind |-> "Return", targets |-> <<>>]]]

Main(locals) == [keys |-> <<1, 2>>, fns |-> <<Returns(locals, <<2, 2>>), Returns(<<Prim>>, <<1>>)>>]
TestCrates ==
  {Main(<<Of("Proxy1", <<Prim>>), Of("Proxy2", <<Prim>>), Of("Proxy5", <<Prim>>)>>),
   Main(<<Ptr(Of("Proxy3", <<Lifetime, Prim>>)), Of("Proxy4", <<Prim>>)>>),
   Main(<<Of("Y", <<Prim>>)>>),
   Main(<<Of("Example", <<Prim, Prim, Prim, Prim>>)>>),
   Main(<<Tuple(<<Of("List", <<Prim>>)>>)>>),
   Main(<<Of("Tagged", <<Prim>>)>>),
   Main(<<Slice(Of("Buf", <<Box(Prim)>>))>>)}
PairCrates == {Main(<<Adt(p, <<Prim>>)>>) : p \in DOMAIN Pairs} \cup
              {Main(<<Adt(p, <<Of("Unique", <<Prim>>)>>)>>) : p \in {q \in DOMAIN Pairs : q[2] = T}}
MCCrates == TestCrates \cup PairCrates

\* What the tests of heap_proxy and heap_nested expect: (owned, params).
Expected ==
  <<"Proxy1">> :> <<FALSE, {}>> @@ <<"Proxy2">> :> <<TRUE, {}>> @@ <<"Proxy3">> :> <<FALSE, {}>>
  @@ <<"Proxy4">> :> <<FALSE, {1}>> @@ <<"Proxy5">> :> <<TRUE, {}>> @@ <<"X">> :> <<FALSE, {1}>>
  @@ <<"Y">> :> <<FALSE, {1}>> @@ <<"Example">> :> <<TRUE, {1, 2, 4}>> @@ <<"Vec">> :> <<TRUE, {2}>>

\* The results the tests of heap_proxy, heap_nested and heap_collections name
\* are reached whatever order the HashSet of ADTs has.
HeapAsTested ==
  Done => \A d \in st.adt_recorder \cap DOMAIN Expected :
            adt_owner[d] = <<[owned |-> Expected[d][1], params |-> Expected[d][2]]>>

\* What the users of the analysis are told: the results of the tests, by queries
\* that do not contradict each other.
AnswersAsTested == HeapAsTested /\ QueriesAgree

=============================================================================
