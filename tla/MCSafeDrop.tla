----------------------------- MODULE MCSafeDrop -----------------------------
(***************************************************************************)
(* Small MIR bodies for SafeDrop. Locals: 0 the returned pointer; two      *)
(* arguments, 1 an owned box and 2 a raw pointer; 3 a struct, 4 an         *)
(* integer, 5 a tuple, 6 another integer, 7 an Rc.                         *)
(***************************************************************************)
EXTENDS SafeDrop

RawPtr == Ty(FALSE, TRUE, "RawPtr")
Owner == Ty(TRUE, TRUE, "Adt")
Scalar == Ty(FALSE, FALSE, "Adt")

Tys == <<RawPtr, Owner, RawPtr, Owner, Scalar, Ty(TRUE, TRUE, "Tuple"), Scalar,
         Ty(TRUE, TRUE, "CornerCase")>>

Local(l) == [local |-> l, proj |-> <<>>]
Field(l, f) == [local |-> l, proj |-> << [op |-> "Field", field |-> f,
                                          ty |-> RawPtr] >>]
Deref(l) == [local |-> l, proj |-> << [op |-> "Deref"] >>]
Behind(l, f) == [local |-> l, proj |-> Deref(l).proj \o Field(l, f).proj]

Copy(p) == [op |-> "Copy", place |-> p]
Move(p) == [op |-> "Move", place |-> p]
Const(v) == [op |-> "Const", val |-> v]

Use(lv, x) == [kind |-> "Use", lv |-> lv, x |-> x]
Ref(lv, rv) == [kind |-> "Ref", lv |-> lv, rv |-> rv]
Cast(lv, x) == [kind |-> "Cast", lv |-> lv, x |-> x]
InitBox(lv, x) == [kind |-> "ShallowInitBox", lv |-> lv, x |-> x]
Aggregate(lv, xs) == [kind |-> "Aggregate", lv |-> lv, xs |-> xs]
Discriminant(lv, rv) == [kind |-> "Discriminant", lv |-> lv, rv |-> rv]

Goto(targets) == [kind |-> "Goto", targets |-> targets]
Switch(x, targets, otherwise) ==
  [kind |-> "SwitchInt", discr |-> x, targets |-> targets, otherwise |-> otherwise]
Unknown == [known |-> FALSE, owned |-> FALSE, params_owned |-> FALSE]
OwnsNothing == [Unknown EXCEPT !.known = TRUE]
DropOf(p, owner, target, unwind) ==
  [kind |-> "Drop", place |-> p, owner |-> owner, target |-> target, unwind |-> unwind]

Fn(mir, is_drop, aliases) ==
  [kind |-> "FnDef", is_drop |-> is_drop, mir |-> mir, corner |-> FALSE, aliases |-> aliases]
CallOf(fn, dest, args, target) ==
  [kind |-> "Call", fn |-> fn, dest |-> dest, args |-> args, target |-> {target},
   unwind |-> {}]
Alias(li, lf, ri, rf) ==
  [left_index |-> li, left_field_seq |-> lf, left_may_drop |-> TRUE, left_need_drop |-> FALSE,
   right_index |-> ri, right_field_seq |-> rf, right_may_drop |-> TRUE,
   right_need_drop |-> FALSE]

Block(stmts, term) == [is_cleanup |-> FALSE, stmts |-> stmts, term |-> term]
Cleanup(stmts, term) == [is_cleanup |-> TRUE, stmts |-> stmts, term |-> term]

\* Statements and terminators are told apart by where they are.
Placed(mir) ==
  [b \in DOMAIN mir |->
     [mir[b] EXCEPT
        !.stmts = [k \in DOMAIN @ |-> @[k] @@ [span |-> <<b - 1, k>>]],
        !.term = @ @@ [span |-> <<b - 1, 0>>]]]

Body(mir) == [tys |-> Tys, arg_size |-> 2, should_check |-> TRUE, mir |-> Placed(mir), limit |-> 20]

-----------------------------------------------------------------------------

TakeAddress == Ref(Local(2), Local(1))
ReturnIt == Use(Local(0), Copy(Local(2)))
StoreIt == Use(Field(3, 0), Copy(Local(2)))
LoadIt == Use(Local(2), Copy(Field(3, 0)))
Renew == Use(Local(1), Move(Local(3)))
SetFlag == Use(Local(4), Const(1))

Summary == Fn(TRUE, FALSE, <<Alias(0, <<>>, 1, <<0>>)>>)
Free == Fn(TRUE, TRUE, <<>>)
Unseen == Fn(FALSE, FALSE, <<>>)

Stmts == {<<>>, <<TakeAddress>>, <<ReturnIt>>, <<StoreIt>>, <<SetFlag>>, <<Renew>>}

\* Blocks with one successor: statements and a jump, or a drop, or a call.
Straight(next) ==
  {Block(s, Goto({next})) : s \in Stmts}
  \cup {Block(<<>>, DropOf(Local(1), Unknown, next, {})),
        Block(<<>>, CallOf(Summary, Local(0), <<Copy(Local(3))>>, next)),
        Block(<<>>, CallOf(Free, Local(4), <<Copy(Local(2))>>, next))}

Few(next) ==
  {Block(<<StoreIt>>, Goto({next})), Block(<<SetFlag>>, Goto({next})),
   Block(<<>>, DropOf(Local(1), Unknown, next, {})),
   Block(<<>>, CallOf(Free, Local(4), <<Copy(Local(2))>>, next))}

OnFlag == Copy(Local(4))
Exit == Goto({})

-----------------------------------------------------------------------------
(* Bodies without a branch, for the operations on the graph *)

AllStmts == {TakeAddress, ReturnIt, StoreIt, LoadIt, Renew,
  Use(Deref(2), Move(Local(3))), Use(Field(5, 1), Copy(Field(3, 0))),
  Cast(Local(2), Copy(Local(7))), InitBox(Local(1), Move(Local(2))),
  Aggregate(Local(5), <<Move(Local(1)), Const(0), Copy(Local(2))>>),
  Discriminant(Local(4), Local(3)), Use(Local(6), Copy(Local(4)))}

Drops(next) ==
  {Block(<<>>, DropOf(Local(l), Unknown, next, {})) : l \in {1, 3, 5, 7}}
  \cup {Block(<<>>, DropOf(Local(3), OwnsNothing, next, {})),
        Block(<<>>, CallOf(Summary, Local(0), <<Copy(Local(3))>>, next)),
        Block(<<>>, CallOf(Unseen, Local(2), <<Copy(Local(3)), Const(0)>>, next)),
        Block(<<>>, CallOf(Free, Local(6), <<Copy(Local(2))>>, next))}

\* A callee that stores its second argument in the first.
Link == Fn(TRUE, FALSE, <<Alias(1, <<0>>, 2, <<>>)>>)

\* Values that are stored in one another, and some in themselves: through a
\* pointer, by a callee, or as what a callee without MIR returns.
LinkedBodies ==
  {Body(<<Block(<<TakeAddress, s>>, t), Block(<<ReturnIt>>, DropOf(Local(1), Unknown, 2, {})),
          Block(<<>>, Exit)>>) :
     s \in {StoreIt, Use(Behind(2, 0), Copy(Local(1))), Use(Behind(2, 0), Copy(Local(3)))},
     t \in {Goto({1})} \cup
           {CallOf(Link, Local(0), <<Copy(p), Copy(q)>>, 1)
              : p \in {Local(2), Local(3), Field(3, 0)}, q \in {Local(2), Local(3)}} \cup
           {CallOf(Unseen, Field(l, 0), <<Copy(Local(3))>>, 1) : l \in {2, 3}}}

StraightBodies ==
  {Body(<<Block(<<s, t>>, Goto({1})), d, Block(<<ReturnIt>>, Exit)>>) :
     s \in AllStmts, t \in AllStmts, d \in Drops(2)}

-----------------------------------------------------------------------------
(* Bodies with branches, loops and unwinding *)

\* Two branches that join again.
Diamonds ==
  {Body(<<Block(s, Switch(OnFlag, << <<0, 1>> >>, 2)), b1, b2, Block(<<ReturnIt>>, Exit)>>) :
     s \in Stmts, b1 \in Straight(3), b2 \in Straight(3)}

\* A loop: block 1 is left to block 3, block 2 leads back to it.
Loops ==
  {Body(<<Block(s, Goto({1})), Block(<<>>, Switch(OnFlag, << <<0, 2>> >>, 3)), b2,
          Block(<<ReturnIt>>, Exit)>>) :
     s \in Stmts, b2 \in Straight(1)}

\* A drop that may unwind into a cleanup block, and a second drop.
Unwinds ==
  {Body(<<Block(s, Goto({1})),
          Block(<<>>, DropOf(Local(1), Unknown, 2, {3})), b2,
          Cleanup(<<>>, DropOf(Local(1), Unknown, 4, {})), Cleanup(<<>>, Exit),
          Block(<<ReturnIt>>, Exit)>>) :
     s \in Stmts, b2 \in Straight(5)}

\* Two diamonds in a row, with four paths.
DoubleDiamonds ==
  {Body(<<Block(<<TakeAddress>>, Switch(OnFlag, << <<0, 1>> >>, 2)), b1, b2,
          Block(<<>>, Switch(x, << <<0, 4>> >>, 5)), b4, Block(<<ReturnIt>>, Exit),
          Block(<<>>, Exit)>>) :
     b1 \in Few(3), b2 \in {Block(<<>>, Goto({3})), Block(<<SetFlag>>, Goto({3}))},
     b4 \in Few(6), x \in {OnFlag, Const(0)}}

\* A switch with three targets, and a long way to the end of each.
Tridents ==
  {Body(<<Block(<<TakeAddress>>, Switch(OnFlag, << <<0, 1>>, <<1, 2>> >>, 3)), b1, b2,
          Block(<<>>, Goto({4})), Block(<<>>, Goto({5})), Block(<<ReturnIt>>, Exit)>>) :
     b1 \in Few(4), b2 \in Few(4)}

\* A switch with four targets, of which two are left when the limit is passed.
Fans ==
  {Body(<<Block(s, Switch(OnFlag, << <<0, 1>>, <<1, 2>>, <<2, 3>> >>, 4)), b1,
          Block(<<>>, Goto({5})), Block(<<>>, Goto({5})), Block(<<>>, Goto({5})),
          Block(<<ReturnIt>>, Exit)>>) : s \in {<<>>, <<SetFlag>>},
     b1 \in {Block(<<>>, Goto({5})), Block(<<>>, DropOf(Local(1), Unknown, 5, {}))}}

BranchingBodies == Fans \cup Tridents \cup Diamonds \cup Loops \cup Unwinds \cup DoubleDiamonds

-----------------------------------------------------------------------------
(* Loops whose root and one sub block both switch on the same local, so that *)
(* the component is analysed once for each target of the root's switch.      *)

ChildLoop(b2, back, b3) ==
  Body(<<Block(<<TakeAddress>>, Goto({1})), Block(<<>>, Switch(OnFlag, << <<0, 2>> >>, 3)), b2,
         b3, Block(<<>>, Switch(OnFlag, back, 3)), Block(<<ReturnIt>>, Exit)>>)

\* The first target leads back to the root only, so it has no exit.
NoExit(b2) ==
  Body(<<Block(<<TakeAddress>>, Goto({1})), Block(<<>>, Switch(OnFlag, << <<0, 1>> >>, 2)), b2,
         Block(<<ReturnIt>>, Exit), Block(<<>>, Switch(OnFlag, << <<0, 1>> >>, 2))>>)

InLoop(next) ==
  {Block(s, Goto({next})) : s \in Stmts} \cup {Block(<<>>, DropOf(Local(1), Unknown, next, {}))}

ChildBodies ==
  {ChildLoop(b2, << <<0, 1>> >>, b3) : b2 \in InLoop(4), b3 \in InLoop(5)}
  \cup {NoExit(Block(<<>>, DropOf(Local(1), Unknown, 4, {3})))}

\* Calls that create two field nodes of an argument, in the loop and after it.
TwoFields == Fn(TRUE, FALSE, <<Alias(0, <<>>, 1, <<0>>), Alias(0, <<>>, 1, <<1>>)>>)

FieldBodies ==
  {ChildLoop(b2, << <<0, 1>> >>, Block(<<>>, CallOf(TwoFields, Local(0), <<Copy(Local(3))>>, 5))) :
     b2 \in InLoop(4) \cup {Block(<<>>, CallOf(TwoFields, Local(0), <<Copy(Local(3))>>, 4))}}

-----------------------------------------------------------------------------

\* The walks of the bodies with branches end below the limit of 20, and some of
\* them are cut off by the limit of 4.
AllBodies == StraightBodies \cup LinkedBodies \cup BranchingBodies \cup ChildBodies
               \cup {[b EXCEPT !.limit = 4] : b \in Fans \cup Tridents}

-----------------------------------------------------------------------------
(* The bugs of a body, path by path *)

Bugs(h) == [df |-> DOMAIN h.df, uaf |-> h.uaf, dp |-> {h.dp}, dp_unwind |-> {h.dp_unwind}]

AllBugs(S) ==
  [df |-> UNION {b.df : b \in S}, uaf |-> UNION {b.uaf : b \in S},
   dp |-> {TRUE \in UNION {b.dp : b \in S}},
   dp_unwind |-> {TRUE \in UNION {b.dp_unwind : b \in S}}]

\* The bugs on the paths from a block, where each branch is given a graph of
\* its own and nothing is ever restored; c is how the block continues.
RECURSIVE BugsAfter(_)
BugsAfter(c) ==
  LET From(h, bb) ==
        LET root == scc_indices[bb]
        IN  BugsAfter(CHOOSE x \in Continue(
              Effects(h, <<root>> \o blocks[root].scc_sub_blocks), root) : TRUE)
      f == c.frames[1]
  IN  IF c.frames = <<>> THEN Bugs(c.graph)
      ELSE IF f.k = "call" THEN From(c.graph, f.bb)
      ELSE AllBugs({From([c.graph EXCEPT !.constant = f.todo[i].cond @@ @], f.todo[i].bb)
                      : i \in DOMAIN f.todo})

\* "duplicate the status when visiting different paths": the bugs reported are
\* those of the separate paths, each analysed from the initial graph. No branch
\* sees an alias, a death or a constant of a branch visited before it.
PathsAreIsolated ==
  (outcome = "reported" /\ child_scc = <<>>) =>
    Bugs(graph) = BugsAfter([graph |-> Build(body).g @@ [unknown |-> {}], frames |-> <<Pending(0)>>])

=============================================================================
