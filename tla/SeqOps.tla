------------------------------- MODULE SeqOps -------------------------------
(***************************************************************************)
(* The operators on sequences that the models of the two graphs use, under *)
(* the names they have in SequencesExt. That module brings the theorems    *)
(* about finite sets, sequences and bags with it, and TLAPS then takes      *)
(* several times as long for each step of a proof about the graphs.        *)
(***************************************************************************)
EXTENDS Integers, Sequences, FiniteSets, FiniteSetsExt, TLC

Last(s) == s[Len(s)]

Front(s) == SubSeq(s, 1, Len(s) - 1)

ToSet(s) == Range(s)

Reverse(s) == [i \in DOMAIN s |-> s[Len(s) - i + 1]]

\* op(...op(op(base, s[1]), s[2])..., s[n]).
FoldLeft(op(_, _), base, s) ==
  LET upTo[n \in 0 .. Len(s)] == IF n = 0 THEN base ELSE op(upTo[n - 1], s[n])
  IN  upTo[Len(s)]

FlattenSeq(ss) == FoldLeft(\o, <<>>, ss)

\* The sequences that list a set, each element once.
SetToSeqs(S) ==
  {s \in [1 .. Cardinality(S) -> S] : S \subseteq Range(s)}

=============================================================================
