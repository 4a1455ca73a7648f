----------------------------- MODULE MCDataflow -----------------------------
(***************************************************************************)
(* Bodies for the dataflow graph: every pair of items out of a list with   *)
(* one of each kind, loops that assign a local from itself, and programs   *)
(* for the two checks, one for every choice of their steps.                *)
(***************************************************************************)
EXTENDS Dataflow

P(l) == [local |-> l, proj |-> <<>>]
F(l) == [local |-> l, proj |-> <<[k |-> "Field"]>>]
Star(l) == [local |-> l, proj |-> <<[k |-> "Deref"]>>]
At(l, i) == [local |-> l, proj |-> <<[k |-> "Deref"], [k |-> "Index", i |-> i]>>]
Move(p) == [k |-> "Move", p |-> p]
Copy(p) == [k |-> "Copy", p |-> p]
Const == [k |-> "Const"]

Let(p, rv) == [k |-> "Assign", lp |-> p, rv |-> rv]
Using(op) == [k |-> "Use", ops |-> <<op>>]
Ref(p, borrow) == [k |-> "Ref", p |-> p, borrow |-> borrow]
Rv(k, ops) == [k |-> k, ops |-> ops]
OnPlace(k, p) == [k |-> k, p |-> p]
Agg(of, ops) == [k |-> "Aggregate", of |-> of, ops |-> ops]
Call(def, args, dest) == [k |-> "Call", func |-> [k |-> "FnDef", def |-> def], args |-> args, dest |-> dest]
CallBy(func, args, dest) == [k |-> "Call", func |-> func, args |-> args, dest |-> dest]

\* Which inputs are references.
Sig == [clone |-> <<TRUE>>, len |-> <<TRUE>>, index |-> <<TRUE, FALSE>>,
        index_mut |-> <<TRUE, FALSE>>, take |-> <<FALSE, FALSE>>, look |-> <<FALSE, TRUE>>]
BodyOf(items) == [argc |-> 2, n |-> 7, items |-> items, sig |-> Sig]

-----------------------------------------------------------------------------
Kinds ==
  {Let(P(2), Ref(P(0), "Mut")), Let(P(3), Using(Move(P(1)))), Let(P(3), Using(Const)), Let(P(0), Using(Copy(P(3)))),
   Let(P(4), Ref(P(3), "Shared")), Let(P(3), Ref(F(1), "Mut")), Let(P(3), Ref(P(4), "Fake")),
   Let(F(0), Using(Move(P(3)))), Let(P(0), Using(Copy(At(3, 2)))), Let(P(3), OnPlace("Len", Star(4))),
   Let(P(3), Rv("BinaryOp", <<Copy(P(3)), Copy(P(4))>>)), Let(P(4), Rv("Cast", <<Copy(P(3))>>)),
   Let(P(3), OnPlace("NullaryOp", P(0))), Let(P(3), Agg("Tuple", <<Move(P(1)), Const>>)), Let(P(4), Agg("RawPtr", <<Copy(P(3)), Const>>)),
   Call("take", <<Const, Move(P(3))>>, P(0)), Call("clone", <<Copy(P(4))>>, F(3)),
   CallBy(Move(P(4)), <<Copy(P(3))>>, P(0)), CallBy([k |-> "Other"], <<Copy(P(3))>>, P(3)),
   Let(P(3), OnPlace("ThreadLocalRef", P(0))), CallBy(Copy(P(4)), <<>>, P(3))}
PairBodies == {BodyOf(items) : items \in UNION {[1 .. k -> Kinds] : k \in 1 .. 2}}

\* A loop body: local 3 is assigned from 4 and 4 from 3.
Cycles ==
  {BodyOf(<<Let(P(3), Using(Move(P(1)))), x, y, Let(P(0), Using(Copy(P(4))))>>) :
     x \in {Let(P(4), Using(Copy(P(3)))), Let(P(4), Ref(P(3), "Shared")),
            Let(P(4), Rv("BinaryOp", <<Copy(P(3)), Const>>))},
     y \in {Let(P(3), Using(Move(P(4)))), Let(P(3), Rv("Cast", <<Copy(P(4))>>)),
            Let(F(3), Using(Move(P(4))))}}

\* for i in 0..v.len() { v[i] }: 1 the vector, 2 another one, 3 its length, 4 the
\* range, 5 the reference, 6 and 0 the elements, 7 something else.
Skip == Let(P(7), Using(Const))
BoundsBodies ==
  {[BodyOf(<<Let(P(5), Ref(P(v), "Shared")), Call("len", <<Copy(P(5))>>, P(3)), bound,
            Let(P(4), Agg("Range", <<Const, Copy(P(3))>>)), again,
            Call(f, <<Copy(P(w)), Copy(F(4))>>, P(6)), more>>) EXCEPT !.n = 8] :
     v \in {1, 2}, w \in {1, 5}, f \in {"index", "index_mut"},
     bound \in {Let(P(3), Using(Copy(P(3)))), Let(P(3), Rv("Cast", <<Copy(P(2))>>)), Skip},
     again \in {Let(P(5), Ref(P(1), "Mut")), Let(P(2), Using(Move(P(1)))), Skip},
     more \in {Call("index", <<Copy(P(2)), Copy(P(6))>>, P(0)), Let(P(0), Using(Const))}}

\* 3 is a clone; 4, 5 and 6 pass it on to calls.
CloneBodies ==
  {BodyOf(<<Call("clone", <<Copy(P(1))>>, P(3)), x, y, z, Call("look", <<Copy(P(5)), Copy(P(4))>>, P(6))>>) :
     x \in {Let(P(4), Using(Move(P(3)))), Let(P(4), Ref(P(3), "Shared")),
            Let(P(4), Rv("Cast", <<Copy(P(3))>>))},
     y \in {Call("take", <<Const, Copy(P(4))>>, P(0)), Call("look", <<Copy(P(4)), Const>>, P(0)),
            Let(P(5), Using(Copy(P(4))))},
     z \in {Call("take", <<Copy(F(2)), Move(P(4))>>, P(0)), Call("clone", <<Copy(P(5))>>, P(3)),
            Let(P(0), Agg("Tuple", <<Copy(P(4)), Copy(P(3))>>))}}

MCBodies == PairBodies \cup Cycles \cup BoundsBodies \cup CloneBodies

=============================================================================
