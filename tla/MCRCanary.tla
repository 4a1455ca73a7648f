----------------------------- MODULE MCRCanary ------------------------------
(***************************************************************************)
(* Bodies for rCanary: the three leak tests, all short programs that pass  *)
(* one heap object on, bodies that move fields around, and control flow.   *)
(***************************************************************************)
EXTENDS MCHeapItem, RCanary

Raw == Ptr(Prim)
BoxTy == Of("Box", <<Prim>>)
Holder == Of("Proxy1", <<Prim>>) \* a pointer, no Drop
Guard == Of("Proxy2", <<Prim>>)  \* a pointer and a PhantomData, with Drop

P(l) == [local |-> l, proj |-> <<>>]
F(l, i) == [local |-> l, proj |-> <<[k |-> "Field", i |-> i]>>]
Star(l) == [local |-> l, proj |-> <<[k |-> "Deref"]>>]
In(l, v, i) == [local |-> l, proj |-> <<[k |-> "Downcast", v |-> v], [k |-> "Field", i |-> i]>>]
Move(p) == [k |-> "Move", p |-> p]
Copy(p) == [k |-> "Copy", p |-> p]
Const == [k |-> "Const"]
Let(p, op) == [lp |-> p, rv |-> [k |-> "Use", op |-> op]]
LetRef(p, r) == [lp |-> p, rv |-> [k |-> "Ref", p |-> r]]
LetAdt(p, v, ops) == [lp |-> p, rv |-> [k |-> "Adt", v |-> v, ops |-> ops]]

Block(stmts, kind, targets) == [stmts |-> stmts, term |-> [kind |-> kind, targets |-> targets]]
\* Terminators of a block that goes on to block j.
Goto(stmts, j) == Block(stmts, "Goto", <<j>>)
Call(stmts, dest, args, j) ==
  [stmts |-> stmts, term |-> [kind |-> "Call", dest |-> dest, args |-> args, drop |-> FALSE,
                              targets |-> <<j>>]]
Drop(p, j) == [stmts |-> <<>>, term |-> [kind |-> "Drop", place |-> p, targets |-> <<j>>]]
Return == Block(<<>>, "Return", <<>>)

\* about: what kind of body it is, and what it is made of
Body(about, locals, args, blocks) ==
  [locals |-> locals, calls |-> <<>>, args |-> args, n |-> Len(blocks), about |-> about,
   blocks |-> [i \in 0 .. Len(blocks) - 1 |-> blocks[i + 1]]]
Listed(S) == FoldSet(LAMBDA x, xs : Append(xs, x), <<>>, S)
CrateOf(bodies) == [keys |-> [i \in DOMAIN bodies |-> i], fns |-> bodies]

-----------------------------------------------------------------------------
\* tests/leak. The locals of all programs about one heap object:
\* 0 the result, 1 the box, 2 its temporary, 3 and 4 raw pointers, 5 a Holder,
\* 6 a box again, 7 a Guard.
ObjectLocals == <<Tuple(<<>>), BoxTy, BoxTy, Raw, Raw, Holder, BoxTy, Guard>>

\* Box::new and Box::into_raw
Forget == <<Call(<<>>, P(1), <<Const>>, 1), Call(<<Let(P(2), Move(P(1)))>>, P(3), <<Move(P(2))>>, 2)>>

leak_orphan == Body(<<"tested", TRUE>>, ObjectLocals, 0, Forget \o <<Return>>)
leak_proxy == Body(<<"tested", TRUE>>, ObjectLocals, 0, Forget \o
  <<Goto(<<Let(P(4), Copy(P(3))), LetAdt(P(5), 1, <<Copy(P(4))>>)>>, 3), Return>>)
leak_ctor == Body(<<"tested", FALSE>>, ObjectLocals, 0, Forget \o
  <<Goto(<<LetAdt(P(5), 1, <<Copy(P(3))>>), LetAdt(P(7), 1, <<Copy(P(3)), Const>>)>>, 3),
    Drop(P(7), 4), Return>>)
\* The pointer is the result.
hand_over == Body(<<"tested", FALSE>>, [ObjectLocals EXCEPT ![1] = Raw], 0,
  <<Call(<<>>, P(1), <<Const>>, 1), Call(<<Let(P(2), Move(P(1)))>>, P(0), <<Move(P(2))>>, 2), Return>>)

\* What becomes of the object then, in steps that start at block b.
Ops == {"copy", "wrap", "unwrap", "guard", "recover", "recover_copy"}
OpBlocks(op, b) ==
  CASE op = "copy" -> <<Goto(<<Let(P(4), Copy(P(3)))>>, b + 1)>>
    [] op = "wrap" -> <<Goto(<<LetAdt(P(5), 1, <<Copy(P(3))>>)>>, b + 1)>>
    [] op = "unwrap" -> <<Goto(<<Let(P(4), Copy(F(5, 0)))>>, b + 1)>>
    [] op = "guard" -> <<Goto(<<LetAdt(P(7), 1, <<Copy(P(3)), Const>>)>>, b + 1), Drop(P(7), b + 2)>>
    [] op = "recover" -> <<Call(<<>>, P(6), <<Copy(P(3))>>, b + 1), Drop(P(6), b + 2)>>
    [] op = "recover_copy" -> <<Call(<<>>, P(6), <<Copy(P(4))>>, b + 1), Drop(P(6), b + 2)>>

Program(ops) ==
  Body(<<"object", ops>>, ObjectLocals, 0,
       FoldLeft(LAMBDA bs, op : bs \o OpBlocks(op, Len(bs)), Forget, ops) \o <<Return>>)

\* A local is set before it is used, and the object is freed at most once.
Sensible(ops) ==
  \A i \in DOMAIN ops :
    /\ ops[i] = "unwrap" => \E j \in 1 .. i - 1 : ops[j] = "wrap"
    /\ ops[i] = "recover_copy" => \E j \in 1 .. i - 1 : ops[j] \in {"copy", "unwrap"}
Frees(ops) == {i \in DOMAIN ops : ops[i] \in {"guard", "recover", "recover_copy"}}
MaxOps == 3
OpLists == {ops \in UNION {[1 .. k -> Ops] : k \in 0 .. MaxOps} :
              Sensible(ops) /\ Cardinality(Frees(ops)) <= 1}

\* One crate for the programs with the same first step.
ObjectCrates ==
  {CrateOf(Listed({Program(ops) : ops \in {o \in OpLists : o # <<>> /\ o[1] = op}})) :
     op \in Ops \ {"unwrap", "recover_copy"}}

-----------------------------------------------------------------------------
\* Moves of boxes between the argument 1 and the local 2, both a Two, and the
\* Box 3. Local 2 is the result of a call, so its layout is known.
Two == Of("Two", <<>>)
FieldLocals == <<Tuple(<<>>), Two, Two, BoxTy>>
Fields == {<<1, 0>>, <<1, 1>>, <<2, 0>>, <<2, 1>>}
BoxPlaces == Fields \cup {<<3, NoField>>}
PlaceOf(x) == IF x[2] = NoField THEN P(x[1]) ELSE F(x[1], x[2])

\* A move from one field to another of the same variable is left out: its source
\* and its target get one and the same vector.
Moves == {[k |-> "move", src |-> z[1], dst |-> z[2]] :
            z \in {xy \in BoxPlaces \X BoxPlaces : xy[1][1] # xy[2][1]}}
Ends == {[k |-> k, src |-> x, dst |-> x] : k \in {"drop", "pass"}, x \in BoxPlaces}

\* Which places are initialised before step k.
RECURSIVE Full(_, _)
Full(ops, k) ==
  IF k = 1 THEN Fields
  ELSE LET op == ops[k - 1]
       IN (Full(ops, k - 1) \ {op.src}) \cup IF op.k = "move" THEN {op.dst} ELSE {}

\* The fields of the argument that were dropped or passed on before step k and are
\* not moved into since. handle_drop returns early for them: the layout of an
\* argument is never set, so that a field of it has no place in it.
Forgotten(ops, k) ==
  {x \in Fields : x[1] = 1 /\ \E i \in 1 .. k - 1 :
     /\ ops[i].k # "move" /\ ops[i].src = x
     /\ \A j \in i + 1 .. k - 1 : x # ops[j].dst}

FieldBlock(op, b) ==
  CASE op.k = "move" -> Goto(<<Let(PlaceOf(op.dst), Move(PlaceOf(op.src)))>>, b)
    [] op.k = "drop" -> Drop(PlaceOf(op.src), b)
    [] op.k = "pass" -> Call(<<>>, P(0), <<Move(PlaceOf(op.src))>>, b)

FieldProgram(ops) ==
  Body(<<"fields", ops>>, FieldLocals, 1,
       <<Call(<<>>, P(2), <<>>, 1)>> \o [k \in DOMAIN ops |-> FieldBlock(ops[k], k + 1)] \o <<Return>>)

\* What the borrow checker lets through.
Extend(opss) ==
  {Append(o[1], o[2]) : o \in {x \in opss \X (Moves \cup Ends) :
     LET full == Full(x[1], Len(x[1]) + 1)
     IN x[2].src \in full /\ (x[2].k = "move" => x[2].dst \notin full)}}

\* One crate for the programs with the same first step.
FieldBodies(starts) ==
  FoldSet(LAMBDA ops, bs : bs \o Listed({FieldProgram(o) : o \in Extend({ops})}), <<>>, starts)
FieldCrates == {CrateOf(FieldBodies(Extend({start}))) : start \in Extend({<<>>})}

-----------------------------------------------------------------------------
\* Control flow. about is <<"flow", is a leak reported>>.
Switch(i, j) == Block(<<>>, "SwitchInt", <<i, j>>)
Flow(leak, blocks) == Body(<<"flow", leak>>, ObjectLocals, 0, Forget \o blocks)
Recover(l, j) == Call(<<>>, P(6), <<Move(P(l))>>, j)

FlowBodies ==
  << \* both branches free the object, or none, or only one: `and` hides the other
     Flow(FALSE, <<Switch(3, 5), Recover(3, 4), Drop(P(6), 7), Recover(3, 6), Drop(P(6), 7), Return>>),
     Flow(TRUE, <<Switch(3, 4), Goto(<<>>, 5), Goto(<<Let(P(4), Copy(P(3)))>>, 5), Return>>),
     Flow(FALSE, <<Switch(3, 5), Recover(3, 4), Drop(P(6), 6), Goto(<<>>, 6), Return>>),
     \* both edges of a switch lead to one block
     Flow(TRUE, <<Switch(3, 3), Return>>),
     \* the branches leave a pointer to different types: it is given up
     Flow(FALSE, <<Switch(3, 4), Goto(<<Let(P(4), Move(P(3)))>>, 5),
                   Goto(<<LetRef(P(4), P(1)), Let(P(5), Const)>>, 5),
                   Goto(<<Let(P(4), Move(P(3)))>>, 6), Return>>),
     \* two returns share the solver
     Flow(TRUE, <<Switch(3, 5), Recover(3, 4), Drop(P(6), 6), Return, Return>>),
     \* a loop, and a block that is only reached through inline assembly
     Flow(FALSE, <<Goto(<<>>, 3), Switch(2, 4), Return>>),
     Flow(FALSE, <<Block(<<>>, "InlineAsm", <<3>>), Return>>) >>

\* An enum is built and taken apart: the box is followed to the call only.
OptionBodies ==
  <<Body(<<"flow", FALSE>>, <<Tuple(<<>>), BoxTy, Of("Option", <<BoxTy>>), BoxTy, Raw>>, 0,
         <<Call(<<>>, P(1), <<Const>>, 1),
           Goto(<<LetAdt(P(2), 2, <<Move(P(1))>>), Let(P(3), Move(In(2, 2, 0)))>>, 2), Return>>)>>

\* Through a reference, too deep a field, a call into a field.
DeepBodies ==
  <<Body(<<"flow", FALSE>>, <<Tuple(<<>>), Two, Two, Ptr(Two), BoxTy, Of("Unique", <<Prim>>)>>, 1,
         <<Call(<<>>, P(2), <<>>, 1),
           Call(<<LetRef(P(3), P(2)), Let(P(4), Move(F(2, 0)))>>, F(2, 0), <<Copy(P(3))>>, 2),
           Goto(<<Let(P(4), Copy(Star(3))),
                  Let(P(5), Move([local |-> 2, proj |-> F(2, 1).proj \o F(0, 0).proj]))>>, 3),
           Drop(P(1), 4), Return>>)>>

\* Two boxes become the fields of one value, in one statement: the constraints
\* contradict each other, and nothing is tainted, so nothing is reported.
PairBodies ==
  <<Body(<<"flow", FALSE>>, <<Tuple(<<>>), BoxTy, BoxTy, Two>>, 0,
         <<Call(<<>>, P(1), <<Const>>, 1), Call(<<>>, P(2), <<Const>>, 2),
           Goto(<<LetAdt(P(3), 1, <<Move(P(1)), Move(P(2))>>)>>, 3), Drop(P(3), 4), Return>>)>>

\* An enum filled twice, with a short and a long variant, and then dropped or not;
\* the same on two branches; a call whose result goes behind a pointer.
Msg == Of("Msg", <<>>)
Fill(v, j) == Goto(<<LetAdt(P(2), v, SubSeq(<<Move(P(1)), Const>>, 1, v))>>, j)
NewBox(j) == Call(<<>>, P(1), <<Const>>, j)
EnumBody(blocks) == Body(<<"flow", FALSE>>, <<Tuple(<<>>), BoxTy, Msg>>, 0, <<NewBox(1)>> \o blocks)
EnumBodies ==
  <<EnumBody(<<Fill(1, 2), NewBox(3), Fill(2, 4), Return>>),
    EnumBody(<<Fill(2, 2), NewBox(3), Fill(1, 4), Drop(P(2), 5), Return>>),
    EnumBody(<<Fill(1, 2), NewBox(3), Fill(1, 4), Drop(P(2), 5), Return>>),
    EnumBody(<<Switch(2, 3), Fill(1, 4), Fill(2, 4), Drop(P(2), 5), Return>>)>>
PointeeBodies ==
  <<Body(<<"flow", FALSE>>, <<Tuple(<<>>), Holder, Ptr(Holder)>>, 0,
         <<Call(<<>>, P(1), <<>>, 1), Call(<<LetRef(P(2), P(1))>>, Star(2), <<>>, 2), Return>>)>>

TestBodies == <<leak_orphan, leak_proxy, leak_ctor, hand_over>>

RCrates == MCCrates \cup ObjectCrates \cup FieldCrates
             \cup {CrateOf(b) : b \in {TestBodies, FlowBodies, OptionBodies, DeepBodies \o PairBodies,
                                       EnumBodies, PointeeBodies}}
PairedCrates == {CrateOf(PairBodies)}
RBodies == UNION {Range(c.fns) : c \in RCrates}

-----------------------------------------------------------------------------
Reported == \E r \in DOMAIN reports : reports[r].leak
Solved == step = "done" /\ \A r \in DOMAIN reports : reports[r].result # "Unknown"

\* A leak is reported only if there is one, and it is if the solver answers.
ReportedIff(leaks) == (Reported => leaks) /\ (Solved /\ leaks => Reported)

\* The leak tests have the outcome their assertions name, and the bodies with
\* branches the one the constraints of the join stand for.
LeaksAsTested == step = "done" /\ body.about[1] \in {"tested", "flow"} => ReportedIff(body.about[2])

\* A program that forgets a box and passes the pointer on is reported exactly
\* if nobody takes the object back, whatever copies and wrappers are made; a
\* solver that gives up at a return only ever hides a leak.
ReportsAreExact ==
  step = "done" /\ body.about[1] = "object" => ReportedIff(Frees(body.about[2]) = {})

\* Leaks are reported: every return is looked at, and the outcome is that of the
\* tests and of the way of the object; an Unknown of the solver invents none.
LeaksAreReported == ReturnsAreChecked /\ LeaksAsTested /\ ReportsAreExact

\* With moves, drops and calls alone the solver has one model, and in it a bit
\* is set iff the place is initialised in the sense of the borrow checker, or is a
\* field of the argument that was dropped or passed on, which handle_drop forgets.
VectorsAreMoves ==
  step = "enter" /\ ti > 2 /\ body.about[1] = "fields" =>
    /\ Cardinality(slice.ms) = 1
    /\ \A m \in slice.ms : \A x \in BoxPlaces :
         x \in Full(body.about[2], ti - 1) \cup Forgotten(body.about[2], ti - 1) <=>
           is_init(slice, x[1]) /\ (IF x[2] = NoField THEN 0 ELSE x[2]) \in ValueOf(m, slice, x[1])

=============================================================================
