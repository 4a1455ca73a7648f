------------------------------ MODULE MCSenryx ------------------------------
(***************************************************************************)
(* Crates for Senryx: one function with every choice of three statements   *)
(* before one or two checked calls, on one path, on two, and around a      *)
(* loop; methods with and without constructors; callers with callees that  *)
(* touch their parameter or not, and recursion.                            *)
(***************************************************************************)
EXTENDS Senryx

MCAlign == [u8 |-> 1, i8 |-> 1, f32 |-> 4, u32 |-> 4, f64 |-> 8]
\* The traits of tests/support/safety_check/slice_from_raw_parts.
MCImpls == [MySpecialTrait |-> {"i8", "f32"}, MySpecialTrait2 |-> {"i8", "f64"}, Copy |-> {"u8", "f64"}]

Ty(name) == [k |-> "Ty", name |-> name]
Param(name) == [k |-> "Param", name |-> name]
Field(l) == [local |-> l, fields |-> <<1>>]
At(p) == [k |-> "place"] @@ p
Const == [k |-> "const"]

Use(l, r) == [k |-> "Use", lp |-> Whole(l), rp |-> Whole(r)]
Ref(l, r) == [k |-> "Ref", lp |-> Whole(l), rp |-> Whole(r)]
As(l, r, ty) == [k |-> "PtrCast", lp |-> Whole(l), rp |-> Whole(r), to |-> ty]
Other(l) == [k |-> "Other", lp |-> Whole(l), rp |-> Whole(l)]
NoCall == [fn |-> "", args |-> <<>>, generics |-> 0]
Calling(fn, args) == [fn |-> fn, args |-> args, generics |-> 1]
Block(stmts, call) == [stmts |-> stmts, call |-> call]

\* Locals 1, 2 and 3 are inputs, 3 is a length. T and U are those of test6.
Inputs == {1, 2, 3}
Fn(blocks, paths, subs) ==
  [local |-> TRUE, block_unsafe |-> TRUE, visible |-> TRUE, method |-> FALSE, cons |-> <<>>, n |-> 3,
   bounds |-> [T |-> {"MySpecialTrait2", "Copy"}, U |-> {"MySpecialTrait", "Sized"}, A |-> {"Copy"}],
   tys |-> <<Ty("u8"), Ty("u32"), Param("T"), Ty("u32"), Ty("u8"), Ty("u32"), Ty("u8"), Param("U"), Param("A")>>,
   paths |-> paths,
   subs |-> [b \in 0 .. Len(blocks) - 1 |-> IF b \in DOMAIN subs THEN subs[b] ELSE <<>>],
   blocks |-> [b \in 0 .. Len(blocks) - 1 |-> blocks[b + 1]]]
NoSubs == [b \in {} |-> <<>>]

Slice(fn, l) == Calling(fn, <<At(Whole(l)), At(Whole(3))>>)
Kinds ==
  {Use(5, 1), Use(6, 4), Use(3, 5), Ref(5, 1), Ref(2, 2), As(4, 1, Ty("u8")), As(4, 2, Ty("u8")),
   As(5, 4, Ty("u32")), As(5, 6, Ty("u32")), As(7, 2, Param("U")), As(7, 4, Param("U")), As(8, 7, Param("A")),
   As(8, 4, Param("A")), [k |-> "Use", lp |-> Field(1), rp |-> Whole(4)], [k |-> "Ref", lp |-> Whole(4), rp |-> Field(1)],
   [k |-> "PtrCast", lp |-> Whole(5), rp |-> Field(1), to |-> Ty("u32")],
   [k |-> "OtherCast", lp |-> Whole(5), rp |-> Whole(4)], Other(4)}
Short == {Use(5, 1), Ref(5, 1), As(5, 4, Ty("u32")), As(5, 6, Ty("u32")), As(4, 2, Ty("u8")), Other(4)}

\* A local is read when it has a value.
InOrder(stmts) ==
  \A i \in DOMAIN stmts :
    stmts[i].k = "Other" \/ stmts[i].rp.local \in Inputs \cup {stmts[j].lp.local : j \in 1 .. i - 1}

\* Straight bodies that check twice; one path and another; a loop 0 -> 1 -> 0.
Straight ==
  {Fn(<<Block(s[1], Slice("from_raw_parts", a[1])), Block(<<s[2]>>, Slice(a[2], 5)), Block(<<>>, NoCall)>>,
      <<<<0, 1, 2>>>>, NoSubs) :
     s \in {z \in {<<x, y>> : x \in {<<v, w>> : v \in Kinds, w \in Kinds}, y \in Short} : InOrder(Append(z[1], z[2]))},
     a \in {<<5, "from_raw_parts">>, <<7, "from_raw_parts_mut">>, <<8, "from_raw_parts_mut">>}}
Branching ==
  {Fn(<<Block(<<s[1]>>, NoCall), Block(<<s[2]>>, NoCall), Block(<<s[3]>>, NoCall),
        Block(<<>>, Slice("from_raw_parts", 5))>>, paths, NoSubs) :
     s \in {z \in Short \X Kinds \X Short : InOrder(<<z[1], z[2]>>) /\ InOrder(<<z[1], z[3]>>)},
     paths \in {<<<<0, 1, 3>>, <<0, 2, 3>>>>, <<<<0, 2, 3>>, <<0, 1, 3>>, <<0, 4>>>>}}
Looping ==
  {Fn(<<Block(<<s[1]>>, NoCall), Block(<<s[2]>>, Slice("from_raw_parts", 5)),
        Block(<<s[3]>>, Slice("from_raw_parts_mut", 5))>>, <<<<0, 2>>>>, 0 :> <<1>>) :
     s \in {z \in Short \X Short \X Short : InOrder(<<z[1], z[2]>>) /\ InOrder(<<z[1], z[3]>>)}}

Alone(F) == {[f |-> fn] : fn \in F}

\* g is a method whose constructors are `cons`; h is private or without an unsafe block.
Methods ==
  {[g |-> [fn EXCEPT !.method = TRUE, !.cons = cons], c |-> [con EXCEPT !.block_unsafe = FALSE],
    h |-> [con EXCEPT !.visible = FALSE]] :
     fn \in {b \in Branching : b.paths = <<<<0, 1, 3>>, <<0, 2, 3>>>> /\ b.blocks[2].stmts = <<Other(4)>>},
     con \in {Fn(<<Block(<<Ref(5, 1)>>, Slice("from_raw_parts", 5))>>, <<<<0>>>>, NoSubs)},
     cons \in {<<>>, <<"c">>, <<"c", "c">>}}

\* A method with a loop 0 -> 1 -> 2 -> 0, visited up to three times.
LoopMethods ==
  {[g |-> [fn EXCEPT !.method = TRUE, !.cons = cons],
    c |-> [Fn(<<Block(<<Ref(5, 1)>>, NoCall)>>, <<<<0>>>>, NoSubs) EXCEPT !.block_unsafe = FALSE]] :
     fn \in {Fn(<<Block(<<>>, NoCall), Block(<<s[1]>>, Slice("from_raw_parts", 5)),
                  Block(<<s[2]>>, Slice("from_raw_parts", 5)), Block(<<>>, Slice("from_raw_parts_mut", 5))>>,
                <<<<0, 3>>>>, 0 :> <<1, 2>>) : s \in {z \in Short \X Short : InOrder(z)}},
     cons \in {<<"c">>, <<"c", "c">>, <<"c", "c", "c">>}}

\* The callee: it leaves its parameter alone, or casts it, on one of two paths.
CalleeStmts == {Other(1), As(1, 1, Ty("u32")), Ref(1, 3)}
Callee(x, y, call) ==
  [Fn(<<Block(<<x>>, NoCall), Block(<<y>>, call)>>, <<<<0>>, <<1>>>>, NoSubs) EXCEPT !.block_unsafe = FALSE]
OneArg(fn) == Calling(fn, <<At(Whole(5))>>)
Caller(first, second) ==
  Fn(<<Block(<<Ref(5, 1)>>, OneArg(first)), Block(<<>>, OneArg(second)), Block(<<>>, Slice("from_raw_parts", 5))>>,
     <<<<0, 1, 2>>>>, NoSubs)
Calls ==
  {[f |-> Caller(a, b), g |-> [Callee(x, y, NoCall) EXCEPT !.n = 1], h |-> Callee(y, y, OneArg("g"))] :
     a \in {"g", "h"}, b \in {"g", "h"}, x \in CalleeStmts, y \in CalleeStmts}
\* from_raw_parts itself has MIR.
WithCore ==
  {("f" :> fn) @@ ("from_raw_parts" :> [Callee(Other(4), Other(4), NoCall) EXCEPT !.local = FALSE]) : fn \in Looping}
\* g calls itself, directly or through h.
Recursive ==
  {[f |-> Caller("g", "g"), g |-> Callee(Other(1), Other(1), OneArg(x)), h |-> Callee(Other(1), Other(1), OneArg("g"))] :
     x \in {"g", "h"}}
\* An unbounded parameter (`T: ?Sized`).
Unbounded == {[f |-> [fn EXCEPT !.bounds["A"] = {}, !.tys[1] = Param("A")]] : fn \in Looping}

MCCrates == Alone(Straight \cup Branching \cup Looping) \cup Methods \cup LoopMethods \cup Calls \cup WithCore
              \cup Recursive \cup Unbounded

=============================================================================
