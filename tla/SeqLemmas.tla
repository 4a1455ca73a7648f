----------------------------- MODULE SeqLemmas ------------------------------
(***************************************************************************)
(* Facts about sequences that are used as stacks: the blocks and the calls *)
(* of tarjan, and the recursion of check in SafeDrop and MopAlias.         *)
(***************************************************************************)
EXTENDS Naturals, Sequences, Functions, TLAPS

\* s is a sequence, of whatever elements.
IsSeq(s) == s \in Seq(Range(s))

\* A stack without its top.
Below(s) == SubSeq(s, 1, Len(s) - 1)

\* Sequences are functions on their positions.
LEMMA SeqFacts ==
  ASSUME NEW S, NEW s \in Seq(S)
  PROVE  /\ Len(s) \in Nat /\ (s = <<>> <=> Len(s) = 0)
         /\ \A i \in 1 .. Len(s) : s[i] \in S
         /\ \A x : x \in Range(s) <=> \E i \in 1 .. Len(s) : x = s[i]
BY DEF Range

\* An element is added at the end.
LEMMA AppendFacts ==
  ASSUME NEW S, NEW s \in Seq(S), NEW x \in S
  PROVE  /\ Append(s, x) \in Seq(S) /\ Append(s, x) # <<>> /\ Len(Append(s, x)) = Len(s) + 1
         /\ \A i \in 1 .. Len(s) : Append(s, x)[i] = s[i]
         /\ Append(s, x)[Len(s) + 1] = x
OBVIOUS

\* One sequence after another.
LEMMA ConcatFacts ==
  ASSUME NEW S, NEW s \in Seq(S), NEW t \in Seq(S)
  PROVE  /\ s \o t \in Seq(S) /\ Len(s \o t) = Len(s) + Len(t)
         /\ \A i \in 1 .. Len(s) + Len(t) :
              (s \o t)[i] = IF i <= Len(s) THEN s[i] ELSE t[i - Len(s)]
OBVIOUS

\* The empty sequence adds nothing.
LEMMA ConcatEmpty ==
  ASSUME NEW S, NEW s \in Seq(S)
  PROVE  s \o <<>> = s /\ <<>> \o s = s
OBVIOUS

\* An element added at the end is a sequence of its own after the others.
LEMMA AppendConcat ==
  ASSUME NEW S, NEW s \in Seq(S), NEW x \in S
  PROVE  Append(s, x) = s \o <<x>>
OBVIOUS

\* One element is changed.
LEMMA UpdateFacts ==
  ASSUME NEW S, NEW s \in Seq(S), NEW i \in 1 .. Len(s), NEW x \in S
  PROVE  [s EXCEPT ![i] = x] \in Seq(S) /\ Len([s EXCEPT ![i] = x]) = Len(s)
OBVIOUS

\* The first element, and the others.
LEMMA HeadTailFacts ==
  ASSUME NEW S, NEW s \in Seq(S), s # <<>>
  PROVE  /\ Head(s) \in S /\ Tail(s) \in Seq(S) /\ Len(Tail(s)) = Len(s) - 1
         /\ \A i \in 1 .. Len(Tail(s)) : Tail(s)[i] = s[i + 1]
OBVIOUS

\* The first elements.
LEMMA PrefixFacts ==
  ASSUME NEW S, NEW s \in Seq(S), NEW n \in Nat, n <= Len(s)
  PROVE  /\ SubSeq(s, 1, n) \in Seq(S) /\ Len(SubSeq(s, 1, n)) = n
         /\ \A i \in 1 .. n : SubSeq(s, 1, n)[i] = s[i]
OBVIOUS

\* The elements after the first ones.
LEMMA SuffixFacts ==
  ASSUME NEW S, NEW s \in Seq(S), NEW p \in 1 .. Len(s)
  PROVE  /\ SubSeq(s, p + 1, Len(s)) \in Seq(S)
         /\ Len(SubSeq(s, p + 1, Len(s))) = Len(s) - p
         /\ \A i \in 1 .. Len(s) - p : SubSeq(s, p + 1, Len(s))[i] = s[p + i]
OBVIOUS

\* A sequence over any set is a sequence.
LEMMA SeqIsSeq ==
  ASSUME NEW S, NEW u \in Seq(S)
  PROVE  IsSeq(u)
BY SeqFacts DEF IsSeq, Range

\* All but the last element.
LEMMA FrontFacts ==
  ASSUME NEW S, NEW s \in Seq(S), s # <<>>
  PROVE  /\ Below(s) \in Seq(S) /\ IsSeq(Below(s))
         /\ Len(Below(s)) = Len(s) - 1
         /\ \A i \in 1 .. Len(s) - 1 : Below(s)[i] = s[i]
<1>1. Len(s) \in Nat /\ Len(s) # 0
  BY SeqFacts
<1>2. Len(s) - 1 \in Nat /\ Len(s) - 1 <= Len(s)
  BY <1>1
<1>3. PICK n \in Nat : n = Len(s) - 1 /\ n <= Len(s)
  BY <1>2, Zenon
<1>4. /\ SubSeq(s, 1, n) \in Seq(S) /\ Len(SubSeq(s, 1, n)) = n
      /\ \A i \in 1 .. n : SubSeq(s, 1, n)[i] = s[i]
  BY <1>3, PrefixFacts
<1>5. IsSeq(SubSeq(s, 1, n))
  BY <1>4, SeqIsSeq, Zenon
<1> QED BY <1>3, <1>4, <1>5 DEF Below

\* The last element is replaced by a sequence, the others are kept.
LEMMA ReplaceFacts ==
  ASSUME NEW s, IsSeq(s), s # <<>>, NEW t, IsSeq(t)
  PROVE  /\ IsSeq(Below(s) \o t) /\ Len(s) \in Nat \ {0} /\ Len(t) \in Nat
         /\ Len(Below(s) \o t) = Len(s) - 1 + Len(t)
         /\ \A i \in 1 .. Len(s) - 1 : (Below(s) \o t)[i] = s[i]
         /\ \A i \in 1 .. Len(t) : (Below(s) \o t)[Len(s) - 1 + i] = t[i]
<1> DEFINE S == Range(s) \cup Range(t)
<1>1. s \in Seq(S) /\ t \in Seq(S) /\ Len(s) \in Nat \ {0} /\ Len(t) \in Nat
  <2>1. /\ s \in Seq(Range(s)) /\ t \in Seq(Range(t))
        /\ Range(s) \subseteq S /\ Range(t) \subseteq S
    BY DEF IsSeq
  <2> HIDE DEF S
  <2> QED BY <2>1
<1> HIDE DEF S
<1>2. PICK f : f = Below(s)
  OBVIOUS
<1>3. f \in Seq(S) /\ Len(f) = Len(s) - 1 /\ \A i \in 1 .. Len(s) - 1 : f[i] = s[i]
  BY <1>1, <1>2, FrontFacts
<1>4. /\ f \o t \in Seq(S) /\ Len(f \o t) = Len(f) + Len(t)
      /\ \A i \in 1 .. Len(f) + Len(t) : (f \o t)[i] = IF i <= Len(f) THEN f[i] ELSE t[i - Len(f)]
  BY <1>1, <1>3, ConcatFacts, Zenon
<1>5. f \o t \in Seq(S) /\ Len(f \o t) = Len(s) - 1 + Len(t)
  BY <1>3, <1>4
<1>6. \A i \in 1 .. Len(s) - 1 : (f \o t)[i] = s[i]
  <2>1. \A i \in 1 .. Len(s) - 1 : i \in 1 .. Len(f) + Len(t) /\ i <= Len(f)
    BY <1>1, <1>3
  <2> QED BY <2>1, <1>3, <1>4
<1>7. \A i \in 1 .. Len(t) : (f \o t)[Len(s) - 1 + i] = t[i]
  <2>1. \A i \in 1 .. Len(t) : /\ Len(s) - 1 + i \in 1 .. Len(f) + Len(t)
                             /\ ~ (Len(s) - 1 + i <= Len(f)) /\ Len(s) - 1 + i - Len(f) = i
    BY <1>1, <1>3
  <2> QED BY <2>1, <1>4
<1>8. IsSeq(f \o t)
  BY <1>5, SeqIsSeq, Zenon
<1> QED BY <1>1, <1>2, <1>5, <1>6, <1>7, <1>8, Zenon

\* r is s with t in the place of its last element.
Replaced(r, s, t) ==
  /\ IsSeq(r) /\ Len(s) \in Nat \ {0} /\ Len(t) \in Nat /\ Len(r) = Len(s) - 1 + Len(t)
  /\ \A i \in 1 .. Len(s) - 1 : r[i] = s[i]
  /\ \A i \in 1 .. Len(t) : r[Len(s) - 1 + i] = t[i]

\* The same as a predicate.
LEMMA ReplaceIs ==
  ASSUME NEW s, IsSeq(s), s # <<>>, NEW t, IsSeq(t)
  PROVE  Replaced(Below(s) \o t, s, t)
BY ReplaceFacts, SMTT(60) DEF Replaced

\* The top of a stack gives way to c.
LEMMA AppendIs ==
  ASSUME NEW s, IsSeq(s), s # <<>>, NEW c
  PROVE  Replaced(Append(Below(s), c), s, <<c>>)
<1> DEFINE S == Range(s) \cup {c}
<1>1. s \in Seq(Range(s)) /\ Range(s) \subseteq S /\ c \in S
  BY DEF IsSeq
<1> HIDE DEF S
<1>2. s \in Seq(S)
  BY <1>1
<1>3. Below(s) \in Seq(S)
  BY <1>2, FrontFacts
<1>4. Append(Below(s), c) = Below(s) \o <<c>>
  BY <1>1, <1>3, AppendConcat
<1>5. IsSeq(<<c>>)
  BY DEF IsSeq, Range
<1>6. Replaced(Below(s) \o <<c>>, s, <<c>>)
  BY <1>5, ReplaceIs
<1> QED BY <1>4, <1>6

\* Nothing takes the place of the last element.
LEMMA BelowEmpty ==
  ASSUME NEW s, IsSeq(s), s # <<>>
  PROVE  Below(s) \o <<>> = Below(s)
BY FrontFacts, ConcatEmpty DEF IsSeq

\* r is s with c in the place of what comes after its first n elements.
Resumed(r, s, n, c) ==
  IsSeq(r) /\ Len(r) = n + 1 /\ r[n + 1] = c /\ \A i \in 1 .. n : r[i] = s[i]

\* A stack is cut back to n elements and c is put on it.
LEMMA ResumeIs ==
  ASSUME NEW s, IsSeq(s), NEW n \in Nat, n <= Len(s), NEW c
  PROVE  Resumed(Append(SubSeq(s, 1, n), c), s, n, c)
<1>0. PICK r : r = Append(SubSeq(s, 1, n), c)
  BY Zenon
<1> DEFINE S == Range(s) \cup {c}
<1>1. s \in Seq(Range(s)) /\ Range(s) \subseteq S /\ c \in S
  BY DEF IsSeq
<1> HIDE DEF S
<1>2. s \in Seq(S)
  BY <1>1
<1>3. PICK u : u = SubSeq(s, 1, n)
  BY Zenon
<1>4. u \in Seq(S) /\ Len(u) = n /\ \A i \in 1 .. n : u[i] = s[i]
  BY <1>2, <1>3, PrefixFacts
<1>5. /\ r \in Seq(S) /\ Len(r) = Len(u) + 1 /\ r[Len(u) + 1] = c
      /\ \A i \in 1 .. Len(u) : r[i] = u[i]
  BY <1>0, <1>1, <1>3, <1>4, AppendFacts
<1>6. IsSeq(r)
  BY <1>5, SeqIsSeq
<1>7. Resumed(r, s, n, c)
  BY <1>4, <1>5, <1>6 DEF Resumed
<1> QED BY <1>0, <1>7

=============================================================================
