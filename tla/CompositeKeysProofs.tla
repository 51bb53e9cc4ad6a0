------------------------ MODULE CompositeKeysProofs ------------------------
(***************************************************************************)
(* Theorems about CompositeKeys, for any alphabet, types, attributes and   *)
(* plain keys.                                                             *)
(***************************************************************************)
EXTENDS CompositeKeys, SequenceTheorems, DataInduction

Chars == 0 .. MaxRune
Texts == Seq(Strings)

(***************************************************************************)
(* Strings.                                                                *)
(***************************************************************************)

\* A string is a sequence of characters.
LEMMA StringFacts ==
  ASSUME NEW s \in Strings
  PROVE  /\ s \in Seq(Chars) /\ Len(s) \in Nat /\ DOMAIN s = 1 .. Len(s)
         /\ \A i \in 1 .. Len(s) : s[i] \in Chars
<1>1. s \in Seq(Chars)
  BY DEF Strings, Chars
<1> QED
  BY <1>1, LenProperties, ElementOfSeq

\* Two strings end to end.
LEMMA ConcatStrings ==
  ASSUME NEW s \in Strings, NEW t \in Strings
  PROVE  /\ s \o t \in Strings /\ Len(s \o t) = Len(s) + Len(t)
         /\ \A i \in 1 .. Len(s) + Len(t) :
              (s \o t)[i] = IF i <= Len(s) THEN s[i] ELSE t[i - Len(s)]
<1>1. s \in Seq(Chars) /\ t \in Seq(Chars)
  BY StringFacts
<1>2. Strings = Seq(Chars)
  BY DEF Strings, Chars
<1> QED
  BY <1>1, <1>2, ConcatProperties

\* Strings with the same characters.
LEMMA SameString ==
  ASSUME NEW s \in Strings, NEW t \in Strings, Len(s) = Len(t),
         \A i \in 1 .. Len(s) : s[i] = t[i]
  PROVE  s = t
BY StringFacts, SeqEqual

\* Concatenation of strings is associative.
LEMMA StringsAssociate ==
  ASSUME NEW s \in Strings, NEW t \in Strings, NEW u \in Strings
  PROVE  (s \o t) \o u = s \o (t \o u)
<1>1. s \in Seq(Chars) /\ t \in Seq(Chars) /\ u \in Seq(Chars)
  BY StringFacts
<1> QED
  BY <1>1, ConcatAssociative

\* Lists of strings end to end.
LEMMA TextsAssociate ==
  ASSUME NEW a \in Texts, NEW b \in Texts, NEW c \in Texts
  PROVE  (a \o b) \o c = a \o (b \o c)
BY ConcatAssociative DEF Texts

\* A list of strings after a list of strings is a list of strings.
LEMMA ConcatTexts ==
  ASSUME NEW a \in Texts, NEW b \in Texts
  PROVE  a \o b \in Texts
BY DEF Texts

\* A list of strings with one appended: its front and its last.
LEMMA FrontOfAppended ==
  ASSUME NEW a \in Texts, NEW s \in Strings
  PROVE  a \o <<s>> \in Texts /\ Front(a \o <<s>>) = a /\ Last(a \o <<s>>) = s
<1>1. <<s>> \in Texts
  BY DEF Texts
<1> DEFINE t == a \o <<s>>
<1>2. /\ t \in Texts /\ Len(t) = Len(a) + 1 /\ Len(a) \in Nat
      /\ \A i \in 1 .. Len(a) : t[i] = a[i]
      /\ t[Len(a) + 1] = s
  BY <1>1 DEF Texts
<1> HIDE DEF t
<1>3. Last(t) = s
  BY <1>2 DEF Last
<1>4. Front(t) = a
  <2>1. /\ Front(t) \in Seq(Strings) /\ Len(Front(t)) = Len(a)
        /\ \A i \in 1 .. Len(a) : Front(t)[i] = t[i]
    BY <1>2 DEF Front, Texts
  <2> QED
    BY <1>2, <2>1, SeqEqual DEF Texts
<1> QED
  BY <1>2, <1>3, <1>4 DEF t

(***************************************************************************)
(* What the recursive definitions compute.                                 *)
(***************************************************************************)

\* Joined unfolds.
LEMMA JoinedUnfolds ==
  /\ Joined \in [Texts -> Strings]
  /\ \A parts \in Texts :
       Joined[parts] = IF parts = <<>> THEN <<>>
                       ELSE Joined[Front(parts)] \o Last(parts) \o <<Min_Rune>>
<1> DEFINE rank == [parts \in Texts |-> Len(parts)]
           Step(g, parts) == IF parts = <<>> THEN <<>>
                             ELSE g[Front(parts)] \o Last(parts) \o <<Min_Rune>>
           F == [g \in [Texts -> Strings] |-> [parts \in Texts |-> Step(g, parts)]]
<1>1. ASSUME NEW parts \in Texts, parts # <<>>
      PROVE  /\ Front(parts) \in Texts /\ Last(parts) \in Strings
             /\ Len(Front(parts)) < Len(parts)
  BY <1>1 DEF Front, Last, Texts
<1>2. <<Min_Rune>> \in Strings
  BY StringsAssumption DEF Strings, Min_Rune
<1>3. ASSUME NEW g \in [Texts -> Strings], NEW parts \in Texts
      PROVE  Step(g, parts) \in Strings
  <2>1. CASE parts = <<>>
    BY <2>1 DEF Strings
  <2>2. CASE parts # <<>>
    <3>1. g[Front(parts)] \in Strings /\ Last(parts) \in Strings
      BY <1>1, <2>2
    <3> QED
      BY <1>2, <2>2, <3>1 DEF Strings
  <2> QED
    BY <2>1, <2>2
<1>4. F \in [[Texts -> Strings] -> [Texts -> Strings]]
  BY <1>3
<1>5. \A g, h \in [Texts -> Strings] : \A parts \in Texts :
        (\A y \in Texts : rank[y] < rank[parts] => g[y] = h[y]) => F[g][parts] = F[h][parts]
  BY <1>1
<1>6. rank \in [Texts -> Nat] /\ <<>> \in Strings
  BY DEF Texts, Strings
<1>7. \E f \in [Texts -> Strings] : f = F[f]
  <2> HIDE DEF F, rank
  <2>1. Unfolds(F, Texts, Strings, rank)
    BY <1>4, <1>5, <1>6 DEF Unfolds
  <2> QED
    BY <1>6, <2>1, RecursionByRank
<1>8. \E f : f = [parts \in Texts |-> Step(f, parts)]
  BY <1>7
<1>9. Joined = [parts \in Texts |-> Step(Joined, parts)]
  BY <1>8 DEF Joined, Texts
<1>10. \A parts \in Texts : Joined[parts] \in Strings
  <2> DEFINE P == {parts \in Texts : Joined[parts] \in Strings}
  <2>1. ASSUME NEW parts \in Texts, \A y \in Texts : rank[y] < rank[parts] => y \in P
        PROVE  parts \in P
    <3>1. CASE parts = <<>>
      BY <1>6, <1>9, <3>1
    <3>2. CASE parts # <<>>
      <4>1. Joined[parts] = Joined[Front(parts)] \o Last(parts) \o <<Min_Rune>>
        BY <1>9, <3>2
      <4>2. Joined[Front(parts)] \in Strings
        BY <1>1, <2>1, <3>2
      <4>3. Joined[parts] \in Strings
        BY <1>1, <1>2, <3>2, <4>1, <4>2 DEF Strings
      <4> QED
        BY <4>3
    <3> QED
      BY <3>1, <3>2
  <2> HIDE DEF P, rank
  <2>2. \A parts \in Texts : parts \in P
    BY <1>6, <2>1, InductionByRank
  <2> QED
    BY <2>2 DEF P
<1>11. Joined \in [Texts -> Strings]
  <2>1. Joined = [parts \in Texts |-> Joined[parts]]
    BY <1>9
  <2> QED
    BY <1>10, <2>1
<1> QED
  BY <1>9, <1>11

\* The last separator of a string that has one.
LEMMA LastCut ==
  ASSUME NEW s \in Strings, ~Free(s)
  PROVE  LET cut == Max({i \in 1 .. Len(s) : s[i] = Min_Rune}) IN
         /\ cut \in 1 .. Len(s) /\ s[cut] = Min_Rune
         /\ \A i \in 1 .. Len(s) : s[i] = Min_Rune => i <= cut
         /\ SubSeq(s, 1, cut - 1) \in Strings /\ Len(SubSeq(s, 1, cut - 1)) = cut - 1
         /\ SubSeq(s, cut + 1, Len(s)) \in Strings
<1> DEFINE cuts == {i \in 1 .. Len(s) : s[i] = Min_Rune}
           below == {Len(s) - i : i \in cuts}
<1>1. cuts # {} /\ Len(s) \in Nat
  BY DEF Free, Strings
<1>2. below \in SUBSET Nat /\ below # {}
  BY <1>1
<1>3. PICK m \in below : \A k \in below : m <= k
  <2> HIDE DEF below
  <2> QED
    BY <1>2, LeastElement
<1>4. \E c \in cuts : \A i \in cuts : c >= i
  <2>1. PICK c \in cuts : m = Len(s) - c
    BY <1>3
  <2>2. ASSUME NEW i \in cuts PROVE c >= i
    <3>1. m <= Len(s) - i
      BY <1>3
    <3>2. c \in Int /\ i \in Int
      OBVIOUS
    <3> QED
      BY <1>1, <2>1, <3>1, <3>2
  <2> QED
    BY <2>2
<1>5. Max(cuts) \in cuts /\ \A i \in cuts : Max(cuts) >= i
  <2> HIDE DEF cuts
  <2> QED
    BY <1>4 DEF Max
<1> DEFINE cut == Max(cuts)
<1> HIDE DEF cut
<1>6. /\ cut \in 1 .. Len(s) /\ s[cut] = Min_Rune
      /\ \A i \in 1 .. Len(s) : s[i] = Min_Rune => i <= cut
  BY <1>1, <1>5 DEF cut
<1>7. /\ SubSeq(s, 1, cut - 1) \in Strings /\ Len(SubSeq(s, 1, cut - 1)) = cut - 1
      /\ SubSeq(s, cut + 1, Len(s)) \in Strings
  <2>1. \A i \in 1 .. Len(s) : s[i] \in Chars
    BY StringFacts
  <2>2. cut \in Int /\ Len(s) \in Int /\ 1 <= cut /\ cut <= Len(s)
    BY <1>1, <1>6
  <2>3. /\ SubSeq(s, 1, cut - 1) \in Seq(Chars)
        /\ Len(SubSeq(s, 1, cut - 1)) = IF 1 <= cut - 1 THEN cut - 1 - 1 + 1 ELSE 0
    BY <2>1, <2>2, SubSeqProperties
  <2>4. SubSeq(s, cut + 1, Len(s)) \in Seq(Chars)
    BY <2>1, <2>2, SubSeqProperties
  <2> QED
    BY <2>2, <2>3, <2>4 DEF Strings, Chars
<1> QED
  BY <1>6, <1>7 DEF cut

\* Fields unfolds; there is always one.
LEMMA FieldsUnfolds ==
  /\ Fields \in [Strings -> Texts \ {<<>>}]
  /\ \A s \in Strings :
       LET cut == Max({i \in 1 .. Len(s) : s[i] = Min_Rune}) IN
       /\ Free(s) => Fields[s] = <<s>>
       /\ ~Free(s) => Fields[s] = Append(Fields[SubSeq(s, 1, cut - 1)],
                                        SubSeq(s, cut + 1, Len(s)))
<1> DEFINE T == Texts \ {<<>>}
           rank == [s \in Strings |-> Len(s)]
           cuts(s) == {i \in 1 .. Len(s) : s[i] = Min_Rune}
           before(s) == SubSeq(s, 1, Max(cuts(s)) - 1)
           after(s) == SubSeq(s, Max(cuts(s)) + 1, Len(s))
           Step(g, s) == IF cuts(s) = {} THEN <<s>> ELSE Append(g[before(s)], after(s))
           F == [g \in [Strings -> T] |-> [s \in Strings |-> Step(g, s)]]
<1>1. ASSUME NEW s \in Strings
      PROVE  /\ cuts(s) = {} <=> Free(s)
             /\ cuts(s) # {} => /\ before(s) \in Strings /\ after(s) \in Strings
                               /\ Len(before(s)) < Len(s)
  <2>1. cuts(s) = {} <=> Free(s)
    BY DEF Free, Strings
  <2>2. ASSUME cuts(s) # {}
        PROVE  before(s) \in Strings /\ after(s) \in Strings /\ Len(before(s)) < Len(s)
    BY <2>1, <2>2, LastCut
  <2> QED
    BY <2>1, <2>2
<1> HIDE DEF before, after, cuts
<1>2. ASSUME NEW g, NEW s \in Strings, cuts(s) # {} => g[before(s)] \in T
      PROVE  Step(g, s) \in T
  <2>1. CASE cuts(s) = {}
    BY <2>1 DEF Texts
  <2>2. CASE cuts(s) # {}
    <3>1. g[before(s)] \in Texts /\ after(s) \in Strings
      BY <1>1, <1>2, <2>2
    <3>2. Append(g[before(s)], after(s)) \in T
      BY <3>1 DEF Texts
    <3> QED
      BY <2>2, <3>2
  <2> QED
    BY <2>1, <2>2
<1>3. F \in [[Strings -> T] -> [Strings -> T]]
  <2> SUFFICES ASSUME NEW g \in [Strings -> T], NEW s \in Strings PROVE Step(g, s) \in T
    OBVIOUS
  <2>1. cuts(s) # {} => g[before(s)] \in T
    BY <1>1
  <2> HIDE DEF T, Step
  <2> QED
    BY <1>2, <2>1
<1>4. \A g, h \in [Strings -> T] : \A s \in Strings :
        (\A y \in Strings : rank[y] < rank[s] => g[y] = h[y]) => F[g][s] = F[h][s]
  BY <1>1
<1>5. rank \in [Strings -> Nat] /\ <<<<>>>> \in T
  BY DEF Texts, Strings
<1>6. \E f \in [Strings -> T] : f = F[f]
  <2> HIDE DEF F, T, rank
  <2>1. Unfolds(F, Strings, T, rank)
    BY <1>3, <1>4, <1>5 DEF Unfolds
  <2> QED
    BY <1>5, <2>1, RecursionByRank
<1>7. \E f : f = [s \in Strings |-> Step(f, s)]
  <2> HIDE DEF Step, T
  <2> QED
    BY <1>6
<1>8. Fields = [s \in Strings |-> Step(Fields, s)]
  BY <1>7 DEF Fields, cuts, before, after
<1>9. \A s \in Strings : Fields[s] \in T
  <2> DEFINE P == {s \in Strings : Fields[s] \in T}
  <2>1. ASSUME NEW s \in Strings, \A y \in Strings : rank[y] < rank[s] => y \in P
        PROVE  s \in P
    <3>1. cuts(s) # {} => Fields[before(s)] \in T
      BY <1>1, <2>1
    <3> HIDE DEF T, Step
    <3>2. Step(Fields, s) \in T
      BY <1>2, <3>1
    <3> QED
      BY <1>8, <3>2
  <2> HIDE DEF P, rank
  <2>2. \A s \in Strings : s \in P
    BY <1>5, <2>1, InductionByRank
  <2> QED
    BY <2>2 DEF P
<1>10. Fields \in [Strings -> T]
  <2> HIDE DEF Step, T
  <2> QED
    BY <1>8, <1>9
<1>11. ASSUME NEW s \in Strings
       PROVE  /\ Free(s) => Fields[s] = <<s>>
              /\ ~Free(s) => Fields[s] = Append(Fields[before(s)], after(s))
  BY <1>1, <1>8
<1> QED
  BY <1>10, <1>11 DEF before, after, cuts

(***************************************************************************)
(* Joining and splitting.                                                  *)
(***************************************************************************)

Separator == <<Min_Rune>>
\* The separator is a string of one rune.
LEMMA SeparatorType == Separator \in Strings /\ Len(Separator) = 1 /\ Separator[1] = Min_Rune
BY StringsAssumption DEF Separator, Strings, Min_Rune

\* Strings end to end.
LEMMA Concat3 ==
  ASSUME NEW s \in Strings, NEW w \in Strings
  PROVE  LET t == s \o Separator \o w IN
         /\ t \in Strings /\ Len(t) = Len(s) + 1 + Len(w) /\ Len(s) \in Nat /\ Len(w) \in Nat
         /\ \A i \in 1 .. Len(s) : t[i] = s[i]
         /\ t[Len(s) + 1] = Min_Rune
         /\ \A i \in 1 .. Len(w) : t[Len(s) + 1 + i] = w[i]
<1> DEFINE u == s \o Separator
<1>1. Len(s) \in Nat /\ Len(w) \in Nat
  BY StringFacts
<1>2. /\ u \in Strings /\ Len(u) = Len(s) + 1
      /\ \A i \in 1 .. Len(s) + 1 : u[i] = IF i <= Len(s) THEN s[i] ELSE Separator[i - Len(s)]
  <2>1. /\ u \in Strings /\ Len(u) = Len(s) + Len(Separator)
        /\ \A i \in 1 .. Len(s) + Len(Separator) :
             u[i] = IF i <= Len(s) THEN s[i] ELSE Separator[i - Len(s)]
    BY SeparatorType, ConcatStrings
  <2> QED
    BY <2>1, SeparatorType
<1>3. u[Len(s) + 1] = Min_Rune /\ \A i \in 1 .. Len(s) : u[i] = s[i]
  BY <1>1, <1>2, SeparatorType
<1> HIDE DEF u
<1>4. /\ u \o w \in Strings /\ Len(u \o w) = Len(u) + Len(w)
      /\ \A i \in 1 .. Len(u) + Len(w) : (u \o w)[i] = IF i <= Len(u) THEN u[i] ELSE w[i - Len(u)]
  BY <1>2, ConcatStrings
<1>5. \A i \in 1 .. Len(s) + 1 : (u \o w)[i] = u[i]
  BY <1>1, <1>2, <1>4
<1>6. \A i \in 1 .. Len(w) : (u \o w)[Len(s) + 1 + i] = w[i]
  <2> SUFFICES ASSUME NEW i \in 1 .. Len(w) PROVE (u \o w)[Len(s) + 1 + i] = w[i]
    OBVIOUS
  <2>1. /\ Len(s) + 1 + i \in 1 .. Len(u) + Len(w) /\ ~(Len(s) + 1 + i <= Len(u))
        /\ Len(s) + 1 + i - Len(u) = i
    BY <1>1, <1>2
  <2> QED
    BY <1>4, <2>1
<1> QED
  BY <1>1, <1>2, <1>3, <1>4, <1>5, <1>6 DEF u

\* Strings end to end begin as the first, when it is not empty.
LEMMA Concat3Head ==
  ASSUME NEW s \in Strings, NEW w \in Strings, s # <<>>
  PROVE  s \o Separator \o w # <<>> /\ (s \o Separator \o w)[1] = s[1]
<1> DEFINE t == s \o Separator \o w
<1>1. Len(s) \in Nat /\ Len(s) # 0
  BY EmptySeq DEF Strings
<1>2. /\ Len(t) = Len(s) + 1 + Len(w) /\ Len(w) \in Nat
      /\ \A i \in 1 .. Len(s) : t[i] = s[i]
  BY Concat3
<1> HIDE DEF t
<1>3. Len(t) # 0 /\ 1 \in 1 .. Len(s)
  BY <1>1, <1>2
<1>4. t # <<>> /\ t[1] = s[1]
  BY <1>2, <1>3
<1> QED
  BY <1>4 DEF t

\* What follows the last separator is the last field.
LEMMA FieldsAppend ==
  ASSUME NEW s \in Strings, NEW w \in Strings, Free(w)
  PROVE  Fields[s \o Separator \o w] = Append(Fields[s], w)
<1> DEFINE t == s \o Separator \o w
           cut == Max({i \in 1 .. Len(t) : t[i] = Min_Rune})
<1>1. /\ t \in Strings /\ Len(t) = Len(s) + 1 + Len(w) /\ Len(s) \in Nat /\ Len(w) \in Nat
      /\ \A i \in 1 .. Len(s) : t[i] = s[i]
      /\ t[Len(s) + 1] = Min_Rune
      /\ \A i \in 1 .. Len(w) : t[Len(s) + 1 + i] = w[i]
  BY Concat3
<1> HIDE DEF t
<1>2. \A i \in 1 .. Len(w) : w[i] # Min_Rune
  BY DEF Free, Strings
<1>3. ~Free(t)
  BY <1>1 DEF Free, Strings
<1>4. /\ cut \in 1 .. Len(t) /\ t[cut] = Min_Rune
      /\ \A i \in 1 .. Len(t) : t[i] = Min_Rune => i <= cut
      /\ SubSeq(t, 1, cut - 1) \in Strings /\ Len(SubSeq(t, 1, cut - 1)) = cut - 1
      /\ SubSeq(t, cut + 1, Len(t)) \in Strings
  BY <1>1, <1>3, LastCut
<1>5. Fields[t] = Append(Fields[SubSeq(t, 1, cut - 1)], SubSeq(t, cut + 1, Len(t)))
  BY <1>1, <1>3, FieldsUnfolds
<1> HIDE DEF cut
<1>6. cut = Len(s) + 1
  <2>1. Len(s) + 1 <= cut /\ cut <= Len(s) + 1 + Len(w)
    BY <1>1, <1>4
  <2>2. ASSUME Len(s) + 1 < cut PROVE FALSE
    <3>1. cut - (Len(s) + 1) \in 1 .. Len(w) /\ Len(s) + 1 + (cut - (Len(s) + 1)) = cut
      BY <1>1, <1>4, <2>1, <2>2
    <3>2. t[cut] = w[cut - (Len(s) + 1)]
      BY <1>1, <3>1
    <3> QED
      BY <1>2, <1>4, <3>1, <3>2
  <2> QED
    BY <1>1, <1>4, <2>1, <2>2
<1>7. SubSeq(t, 1, cut - 1) = s
  <2>1. \A i \in 1 .. Len(s) : SubSeq(t, 1, cut - 1)[i] = t[i]
    <3>1. \A i \in 1 .. cut - 1 : t[i] \in Chars
      BY <1>1, <1>4, <1>6, StringFacts
    <3>2. \A i \in 1 .. (cut - 1) - 1 + 1 : SubSeq(t, 1, cut - 1)[i] = t[1 + i - 1]
      BY <1>4, <3>1, SubSeqProperties
    <3> QED
      BY <1>1, <1>6, <3>2
  <2>2. \A i \in 1 .. Len(s) : SubSeq(t, 1, cut - 1)[i] = s[i]
    BY <1>1, <2>1
  <2>3. Len(SubSeq(t, 1, cut - 1)) = Len(s)
    BY <1>1, <1>4, <1>6
  <2> QED
    BY <1>4, <2>2, <2>3, SameString
<1>8. SubSeq(t, cut + 1, Len(t)) = w
  <2>1. \A i \in cut + 1 .. Len(t) : t[i] \in Chars
    BY <1>1, <1>4, StringFacts
  <2>2. /\ Len(SubSeq(t, cut + 1, Len(t))) = IF cut + 1 <= Len(t) THEN Len(t) - (cut + 1) + 1 ELSE 0
        /\ \A i \in 1 .. Len(t) - (cut + 1) + 1 :
             SubSeq(t, cut + 1, Len(t))[i] = t[cut + 1 + i - 1]
    BY <1>1, <1>4, <2>1, SubSeqProperties
  <2>3. Len(SubSeq(t, cut + 1, Len(t))) = Len(w)
    BY <1>1, <1>6, <2>2
  <2>4. \A i \in 1 .. Len(w) : SubSeq(t, cut + 1, Len(t))[i] = w[i]
    <3> SUFFICES ASSUME NEW i \in 1 .. Len(w) PROVE SubSeq(t, cut + 1, Len(t))[i] = w[i]
      OBVIOUS
    <3>1. i \in 1 .. Len(t) - (cut + 1) + 1 /\ cut + 1 + i - 1 = Len(s) + 1 + i
      BY <1>1, <1>6
    <3> QED
      BY <1>1, <2>2, <3>1
  <2> QED
    BY <1>4, <2>3, <2>4, SameString
<1> QED
  BY <1>5, <1>7, <1>8 DEF t

\* A string that has a separator, at its last one.
LEMMA LastSplit ==
  ASSUME NEW s \in Strings, ~Free(s)
  PROVE  \E r, w \in Strings : Free(w) /\ s = r \o Separator \o w /\ Len(r) < Len(s)
<1> DEFINE cut == Max({i \in 1 .. Len(s) : s[i] = Min_Rune})
           r == SubSeq(s, 1, cut - 1)
           w == SubSeq(s, cut + 1, Len(s))
<1>1. /\ cut \in 1 .. Len(s) /\ s[cut] = Min_Rune
      /\ \A i \in 1 .. Len(s) : s[i] = Min_Rune => i <= cut
      /\ r \in Strings /\ Len(r) = cut - 1
      /\ w \in Strings
  BY LastCut
<1> HIDE DEF cut
<1>2. Len(s) \in Nat /\ \A i \in 1 .. Len(s) : s[i] \in Chars
  BY StringFacts
<1>3. /\ Len(w) = IF cut + 1 <= Len(s) THEN Len(s) - (cut + 1) + 1 ELSE 0
      /\ \A i \in 1 .. Len(s) - (cut + 1) + 1 : w[i] = s[cut + 1 + i - 1]
  <2>1. \A i \in cut + 1 .. Len(s) : s[i] \in Chars
    BY <1>1, <1>2
  <2> QED
    BY <1>1, <1>2, <2>1, SubSeqProperties
<1>4. Len(w) = Len(s) - cut /\ \A i \in 1 .. Len(w) : w[i] = s[cut + i]
  BY <1>1, <1>2, <1>3
<1>5. \A i \in 1 .. Len(r) : r[i] = s[i]
  <2>1. \A i \in 1 .. cut - 1 : s[i] \in Chars
    BY <1>1, <1>2
  <2>2. \A i \in 1 .. (cut - 1) - 1 + 1 : r[i] = s[1 + i - 1]
    BY <1>1, <2>1, SubSeqProperties
  <2> QED
    BY <1>1, <2>2
<1> HIDE DEF r, w
<1>6. Free(w)
  <2> SUFFICES ASSUME NEW i \in 1 .. Len(w), w[i] = Min_Rune PROVE FALSE
    BY <1>1 DEF Free, Strings
  <2> QED
    BY <1>1, <1>2, <1>4
<1>7. s = r \o Separator \o w
  <2> DEFINE t == r \o Separator \o w
  <2>1. /\ t \in Strings /\ Len(t) = Len(r) + 1 + Len(w)
        /\ \A i \in 1 .. Len(r) : t[i] = r[i]
        /\ t[Len(r) + 1] = Min_Rune
        /\ \A i \in 1 .. Len(w) : t[Len(r) + 1 + i] = w[i]
    BY <1>1, Concat3
  <2> HIDE DEF t
  <2>2. Len(t) = Len(s)
    BY <1>1, <1>2, <1>4, <2>1
  <2>3. ASSUME NEW i \in 1 .. Len(s) PROVE s[i] = t[i]
    <3>1. CASE i < cut
      BY <1>1, <1>2, <1>5, <2>1, <3>1
    <3>2. CASE i = cut
      BY <1>1, <1>2, <2>1, <3>2
    <3>3. CASE i > cut
      <4>1. i - cut \in 1 .. Len(w) /\ cut + (i - cut) = i /\ Len(r) + 1 + (i - cut) = i
        BY <1>1, <1>2, <1>4, <3>3
      <4> QED
        BY <1>4, <2>1, <4>1
    <3> QED
      BY <1>1, <1>2, <3>1, <3>2, <3>3
  <2> QED
    BY <2>1, <2>2, <2>3, SameString DEF t
<1>8. Len(r) < Len(s)
  BY <1>1, <1>2
<1> QED
  BY <1>1, <1>6, <1>7, <1>8

\* A part without separators, and its separator, in front of a string give one more
\* field.
LEMMA FieldsCons ==
  ASSUME NEW u \in Strings, Free(u)
  PROVE  \A r \in Strings : Fields[u \o Separator \o r] = <<u>> \o Fields[r]
<1> DEFINE P == {r \in Strings : Fields[u \o Separator \o r] = <<u>> \o Fields[r]}
           rank == [r \in Strings |-> Len(r)]
<1>1. rank \in [Strings -> Nat]
  BY StringFacts
<1>2. \A r \in Strings : Fields[r] \in Texts
  BY FieldsUnfolds
<1>3. Fields[u] = <<u>> /\ <<u>> \in Texts
  BY FieldsUnfolds DEF Texts
<1>4. ASSUME NEW r \in Strings, \A y \in Strings : rank[y] < rank[r] => y \in P
      PROVE  r \in P
  <2>1. CASE Free(r)
    <3>1. Fields[u \o Separator \o r] = Append(<<u>>, r)
      BY <1>3, <2>1, FieldsAppend
    <3>2. Fields[r] = <<r>>
      BY <2>1, FieldsUnfolds
    <3>3. Append(<<u>>, r) = <<u>> \o <<r>>
      BY <1>3, AppendIsConcat DEF Texts
    <3>4. Fields[u \o Separator \o r] = <<u>> \o Fields[r]
      BY <3>1, <3>2, <3>3, Zenon
    <3> QED
      BY <3>4
  <2>2. CASE ~Free(r)
    <3>1. PICK r1, w \in Strings : Free(w) /\ r = r1 \o Separator \o w /\ Len(r1) < Len(r)
      BY <2>2, LastSplit
    <3>2. Fields[r] = Append(Fields[r1], w)
      BY <3>1, FieldsAppend
    <3>3. Fields[u \o Separator \o r1] = <<u>> \o Fields[r1]
      BY <1>4, <3>1
    <3> DEFINE v == u \o Separator \o r1
    <3>4. v \in Strings
      BY Concat3
    <3>5. u \o Separator \o r = v \o Separator \o w
      <4> DEFINE e == u \o Separator
      <4>1. e \in Strings
        BY ConcatStrings, SeparatorType
      <4> HIDE DEF e
      <4>2. r1 \o Separator \in Strings
        BY SeparatorType, ConcatStrings
      <4>3. e \o (r1 \o Separator) = (e \o r1) \o Separator
        BY <4>1, SeparatorType, StringsAssociate, Zenon
      <4>4. e \o ((r1 \o Separator) \o w) = (e \o (r1 \o Separator)) \o w
        BY <4>1, <4>2, StringsAssociate, Zenon
      <4>5. e \o r = ((e \o r1) \o Separator) \o w
        BY <3>1, <4>3, <4>4, Zenon
      <4> QED
        BY <4>5 DEF e
    <3>6. Fields[v \o Separator \o w] = Append(<<u>> \o Fields[r1], w)
      BY <3>1, <3>3, <3>4, FieldsAppend
    <3>7. Append(<<u>> \o Fields[r1], w) = <<u>> \o Append(Fields[r1], w)
      <4> DEFINE f == Fields[r1]
      <4>1. f \in Texts
        BY <1>2
      <4> HIDE DEF f
      <4> QED
        BY <1>3, <4>1 DEF Texts
    <3>8. Fields[u \o Separator \o r] = <<u>> \o Fields[r]
      BY <3>2, <3>5, <3>6, <3>7, Zenon
    <3> QED
      BY <3>8
  <2> QED
    BY <2>1, <2>2
<1> HIDE DEF P, rank
<1>5. \A r \in Strings : r \in P
  BY <1>1, <1>4, InductionByRank DEF rank
<1> QED
  BY <1>5 DEF P

Whole(parts) == \A i \in DOMAIN parts : Free(parts[i])

\* A list that is not empty.
LEMMA FrontLast ==
  ASSUME NEW a \in Texts, a # <<>>
  PROVE  /\ Front(a) \in Texts /\ Last(a) \in Strings /\ a = Front(a) \o <<Last(a)>>
         /\ Len(Front(a)) < Len(a) /\ Len(a) \in Nat
         /\ Whole(a) => Whole(Front(a)) /\ Free(Last(a))
<1> DEFINE n == Len(a)
<1>0. n \in Nat \ {0} /\ a \in Seq(Strings) /\ \A i \in 1 .. n : a[i] \in Strings
  BY EmptySeq, ElementOfSeq DEF Texts
<1>1. /\ Front(a) \in Texts /\ Last(a) \in Strings /\ Len(Front(a)) = n - 1
      /\ \A i \in 1 .. n - 1 : Front(a)[i] = a[i]
  <2>1. /\ SubSeq(a, 1, n - 1) \in Seq(Strings)
        /\ Len(SubSeq(a, 1, n - 1)) = IF 1 <= n - 1 THEN n - 1 - 1 + 1 ELSE 0
        /\ \A i \in 1 .. (n - 1) - 1 + 1 : SubSeq(a, 1, n - 1)[i] = a[1 + i - 1]
    BY <1>0, SubSeqProperties
  <2>2. Front(a) = SubSeq(a, 1, n - 1) /\ Last(a) = a[n]
    BY DEF Front, Last
  <2> HIDE DEF n
  <2>3. n - 1 \in Nat /\ Len(Front(a)) = n - 1 /\ \A i \in 1 .. n - 1 : Front(a)[i] = a[i]
    BY <1>0, <2>1, <2>2
  <2> QED
    BY <1>0, <2>1, <2>2, <2>3 DEF Texts
<1>2. a = Front(a) \o <<Last(a)>>
  <2>1. SubSeq(a, 1, n) = SubSeq(a, 1, n - 1) \o <<a[n]>>
    BY <1>0, SubSeqRecursiveSecond
  <2>2. SubSeq(a, 1, n) = a
    BY <1>0, SubSeqFull
  <2> QED
    BY <2>1, <2>2 DEF Front, Last
<1>3. Whole(a) => Whole(Front(a)) /\ Free(Last(a))
  <2>1. DOMAIN a = 1 .. n /\ DOMAIN Front(a) = 1 .. n - 1
    BY <1>0, <1>1, LenProperties DEF Texts
  <2> QED
    BY <1>0, <1>1, <2>1 DEF Whole, Last
<1> QED
  BY <1>0, <1>1, <1>2, <1>3

\* Joined parts in front of a string are the first fields of the whole.
LEMMA FieldsOfJoined ==
  \A a \in Texts : Whole(a) => \A r \in Strings : Fields[Joined[a] \o r] = a \o Fields[r]
<1> DEFINE P == {a \in Texts : Whole(a) => \A r \in Strings :
                                            Fields[Joined[a] \o r] = a \o Fields[r]}
           rank == [a \in Texts |-> Len(a)]
<1>1. rank \in [Texts -> Nat]
  BY DEF Texts
<1>2. \A r \in Strings : Fields[r] \in Texts
  BY FieldsUnfolds
<1>3. ASSUME NEW a \in Texts, \A y \in Texts : rank[y] < rank[a] => y \in P
      PROVE  a \in P
  <2> SUFFICES ASSUME Whole(a), NEW r \in Strings
               PROVE  Fields[Joined[a] \o r] = a \o Fields[r]
    OBVIOUS
  <2>1. CASE a = <<>>
    <3>1. Joined[a] = <<>>
      BY <2>1, JoinedUnfolds
    <3>2. Joined[a] \o r = r
      BY <3>1, StringFacts, ConcatEmptySeq
    <3>3. a \o Fields[r] = Fields[r]
      BY <1>2, <2>1, ConcatEmptySeq DEF Texts
    <3> QED
      BY <3>2, <3>3
  <2>2. CASE a # <<>>
    <3> DEFINE f == Front(a)
               l == Last(a)
               j == Joined[f]
    <3>1. /\ f \in Texts /\ l \in Strings /\ a = f \o <<l>> /\ Len(f) < Len(a)
          /\ Whole(f) /\ Free(l)
      BY <2>2, FrontLast
    <3>2. Joined[a] = j \o l \o Separator /\ j \in Strings
      BY <2>2, <3>1, JoinedUnfolds DEF Separator
    <3>3. l \o Separator \o r \in Strings /\ l \o Separator \in Strings
      BY <3>1, Concat3, ConcatStrings, SeparatorType
    <3>4. Joined[a] \o r = j \o (l \o Separator \o r)
      <4>1. (j \o l) \o Separator = j \o (l \o Separator)
        BY <3>1, <3>2, SeparatorType, StringsAssociate
      <4>2. (j \o (l \o Separator)) \o r = j \o ((l \o Separator) \o r)
        BY <3>2, <3>3, StringsAssociate
      <4> QED
        BY <3>2, <4>1, <4>2
    <3>5. Fields[j \o (l \o Separator \o r)] = f \o Fields[l \o Separator \o r]
      BY <1>3, <3>1, <3>3
    <3>6. Fields[l \o Separator \o r] = <<l>> \o Fields[r]
      BY <3>1, FieldsCons
    <3>7. f \o (<<l>> \o Fields[r]) = (f \o <<l>>) \o Fields[r]
      <4>1. f \in Texts /\ <<l>> \in Texts /\ Fields[r] \in Texts
        BY <1>2, <3>1 DEF Texts
      <4>2. \A b, c \in Texts : f \o (b \o c) = (f \o b) \o c
        BY <3>1, TextsAssociate
      <4> QED
        BY <4>1, <4>2, Zenon
    <3> QED
      BY <3>1, <3>4, <3>5, <3>6, <3>7
  <2> QED
    BY <2>1, <2>2
<1>4. \A a \in Texts : a \in P
  <2> HIDE DEF P, rank
  <2> QED
    BY <1>1, <1>3, InductionByRank
<1> QED
  BY <1>4

\* Joining goes list by list.
LEMMA JoinedConcat ==
  ASSUME NEW a \in Texts
  PROVE  \A b \in Texts : Joined[a \o b] = Joined[a] \o Joined[b]
<1> DEFINE P == {b \in Texts : Joined[a \o b] = Joined[a] \o Joined[b]}
           rank == [b \in Texts |-> Len(b)]
<1>1. rank \in [Texts -> Nat]
  BY DEF Texts
<1>2. \A b \in Texts : Joined[b] \in Strings
  BY JoinedUnfolds
<1>3. ASSUME NEW b \in Texts, \A y \in Texts : rank[y] < rank[b] => y \in P
      PROVE  b \in P
  <2>1. CASE b = <<>>
    <3>1. Joined[b] = <<>> /\ a \o b = a
      BY <2>1, JoinedUnfolds, ConcatEmptySeq DEF Texts
    <3>2. Joined[a] \o <<>> = Joined[a]
      BY <1>2, StringFacts, ConcatEmptySeq
    <3> QED
      BY <3>1, <3>2
  <2>2. CASE b # <<>>
    <3> DEFINE f == Front(b)
               l == Last(b)
    <3>1. f \in Texts /\ l \in Strings /\ b = f \o <<l>> /\ Len(f) < Len(b)
      BY <2>2, FrontLast
    <3>2. /\ a \o b \in Texts /\ a \o b # <<>> /\ Last(a \o b) = l
          /\ Front(a \o b) = a \o f
      <4>1. <<l>> \in Texts
        BY <3>1 DEF Texts
      <4>2. a \o b = (a \o f) \o <<l>> /\ a \o f \in Texts
        <5> HIDE DEF f, l
        <5>1. f \in Texts
          BY <3>1
        <5>2. \A c \in Texts : (a \o f) \o c = a \o (f \o c)
          BY <5>1, TextsAssociate
        <5>3. a \o f \in Texts
          BY <5>1, ConcatTexts
        <5> QED
          BY <3>1, <4>1, <5>2, <5>3, Zenon
      <4>3. a \o b # <<>>
        BY <2>2, ConcatEqualIffEmpty DEF Texts
      <4> HIDE DEF f, l
      <4> QED
        BY <3>1, <4>2, <4>3, FrontOfAppended, Zenon
    <3>3. /\ Joined[a \o b] = Joined[a \o f] \o l \o Separator
          /\ Joined[b] = Joined[f] \o l \o Separator
      BY <2>2, <3>1, <3>2, JoinedUnfolds DEF Separator
    <3>4. Joined[a \o f] = Joined[a] \o Joined[f]
      BY <1>3, <3>1
    <3> DEFINE x == Joined[a]
               y == Joined[f]
    <3>5. x \in Strings /\ y \in Strings /\ l \in Strings /\ Separator \in Strings
      BY <1>2, <3>1, SeparatorType
    <3>6. ((x \o y) \o l) \o Separator = x \o ((y \o l) \o Separator)
      <4> HIDE DEF x, y, l
      <4> QED
        <5>1. y \o l \in Strings
          BY <3>5, ConcatStrings
        <5>2. (x \o y) \o l = x \o (y \o l)
          BY <3>5, StringsAssociate, Zenon
        <5>3. (x \o (y \o l)) \o Separator = x \o ((y \o l) \o Separator)
          BY <3>5, <5>1, StringsAssociate, Zenon
        <5> QED
          BY <5>2, <5>3, Zenon
    <3> QED
      BY <3>3, <3>4, <3>6
  <2> QED
    BY <2>1, <2>2
<1>4. \A b \in Texts : b \in P
  <2> HIDE DEF P, rank
  <2> QED
    BY <1>1, <1>3, InductionByRank
<1> QED
  BY <1>4

\* What begins with joined parts and is joined itself has more parts.
LEMMA JoinedPrefix ==
  ASSUME NEW a \in Texts, Whole(a), NEW b \in Texts, Whole(b), NEW r \in Strings,
         Joined[a] = Joined[b] \o r
  PROVE  \E c \in Texts : a = b \o c /\ r = Joined[c]
<1> DEFINE f == Fields[r]
           c == Front(f)
           e == <<>>
<1>1. /\ \A x \in Texts : Joined[x] \in Strings
      /\ f \in Texts /\ f # <<>> /\ e \in Strings /\ Fields[e] = <<e>>
  <2>1. e \in Strings /\ Free(e)
    BY DEF Strings, Free
  <2>2. \A x \in Texts : Joined[x] \in Strings
    BY JoinedUnfolds
  <2>3. f \in Texts /\ f # <<>>
    BY FieldsUnfolds
  <2>4. Fields[e] = <<e>>
    <3> HIDE DEF e
    <3> QED
      BY <2>1, FieldsUnfolds
  <2> QED
    BY <2>1, <2>2, <2>3, <2>4
<1>2. Joined[a] \o e = Joined[a]
  BY <1>1, StringFacts, ConcatEmptySeq
<1>3. Fields[Joined[a] \o e] = a \o Fields[e]
  BY <1>1, FieldsOfJoined
<1>4. Fields[Joined[b] \o r] = b \o f
  BY FieldsOfJoined
<1>5. a \o <<e>> = b \o f
  BY <1>1, <1>2, <1>3, <1>4
<1> HIDE DEF f, e
<1>6. c \in Texts /\ Last(f) \in Strings /\ f = c \o <<Last(f)>> /\ <<Last(f)>> \in Texts
  <2>1. c \in Texts /\ Last(f) \in Strings /\ f = c \o <<Last(f)>>
    BY <1>1, FrontLast
  <2> QED
    BY <2>1 DEF Texts
<1> HIDE DEF c
<1>7. b \o c \in Texts /\ (b \o c) \o <<Last(f)>> = b \o (c \o <<Last(f)>>)
  <2>1. b \o c \in Texts
    BY <1>6, ConcatTexts
  <2>2. (b \o c) \o <<Last(f)>> = b \o (c \o <<Last(f)>>)
    BY <1>6, TextsAssociate, Zenon
  <2> QED
    BY <2>1, <2>2
<1>8. a \o <<e>> = (b \o c) \o <<Last(f)>>
  BY <1>5, <1>6, <1>7, Zenon
<1>9. a = b \o c
  <2>1. Front(a \o <<e>>) = a
    BY <1>1, FrontOfAppended
  <2>2. Front((b \o c) \o <<Last(f)>>) = b \o c
    BY <1>6, <1>7, FrontOfAppended, Zenon
  <2> QED
    BY <1>8, <2>1, <2>2, Zenon
<1>10. Joined[b] \o r = Joined[b] \o Joined[c]
  <2>1. Joined[b \o c] = Joined[b] \o Joined[c]
    BY <1>6, JoinedConcat
  <2> QED
    BY <1>9, <2>1, Zenon
<1>11. r = Joined[c]
  <2>1. Joined[b] \in Seq(Chars) /\ r \in Seq(Chars) /\ Joined[c] \in Seq(Chars)
    BY <1>1, <1>6, StringFacts
  <2>2. \A x, y, z \in Seq(Chars) : x \o y = x \o z => y = z
    BY ConcatSimplifications
  <2> QED
    BY <1>10, <2>1, <2>2, Zenon
<1> QED
  BY <1>6, <1>9, <1>11

\* Joined parts begin as the first of them.
LEMMA JoinedHead ==
  ASSUME NEW c \in Texts, c # <<>>, c[1] # <<>>
  PROVE  Joined[c] # <<>> /\ Joined[c][1] = c[1][1]
<1> DEFINE u == c[1]
           d == SubSeq(c, 2, Len(c))
           e == <<>>
<1>1. Len(c) \in Nat \ {0} /\ \A i \in 1 .. Len(c) : c[i] \in Strings
  BY EmptySeq, ElementOfSeq DEF Texts
<1>2. u \in Strings /\ Len(u) \in Nat \ {0} /\ <<u>> \in Texts
  <2>1. u \in Strings
    BY <1>1
  <2> QED
    BY <2>1, EmptySeq DEF Strings, Texts
<1>3. d \in Texts
  <2>1. \A i \in 2 .. Len(c) : c[i] \in Strings
    BY <1>1
  <2>2. SubSeq(c, 2, Len(c)) \in Seq(Strings)
    BY <1>1, <2>1, SubSeqProperties
  <2> QED
    BY <2>2 DEF Texts
<1>4. c = <<u>> \o d
  <2>1. SubSeq(c, 1, Len(c)) = <<c[1]>> \o SubSeq(c, 1 + 1, Len(c))
    BY <1>1, SubSeqRecursiveFirst DEF Texts
  <2>2. SubSeq(c, 1, Len(c)) = c
    BY SubSeqFull DEF Texts
  <2> QED
    BY <2>1, <2>2
<1>5. Joined[<<u>>] = u \o Separator
  <2>0. e \in Texts /\ e \in Strings
    BY DEF Texts, Strings
  <2>1. Joined[e] = e
    BY <2>0, JoinedUnfolds
  <2>2. <<u>> # <<>> /\ Front(<<u>>) = e /\ Last(<<u>>) = u
    BY <1>2 DEF Front, Last
  <2>3. Joined[<<u>>] = e \o u \o Separator
    BY <1>2, <2>0, <2>1, <2>2, JoinedUnfolds DEF Separator
  <2>4. e \o u = u
    BY <1>2, StringFacts, ConcatEmptySeq
  <2> HIDE DEF u, e
  <2> QED
    BY <2>3, <2>4, Zenon
<1> HIDE DEF u, d
<1>6. Joined[c] = (u \o Separator) \o Joined[d] /\ Joined[d] \in Strings
  <2>1. Joined[<<u>> \o d] = Joined[<<u>>] \o Joined[d]
    BY <1>2, <1>3, JoinedConcat
  <2>2. Joined[d] \in Strings
    BY <1>3, JoinedUnfolds
  <2> QED
    BY <1>4, <1>5, <2>1, <2>2, Zenon
<1>7. /\ (u \o Separator) \o Joined[d] # <<>>
      /\ ((u \o Separator) \o Joined[d])[1] = u[1]
  <2>1. u \in Strings /\ u # <<>>
    BY <1>2 DEF u
  <2> QED
    BY <1>6, <2>1, Concat3Head, Zenon
<1> QED
  BY <1>6, <1>7, Zenon DEF u

(***************************************************************************)
(* The range of a partial key.                                             *)
(***************************************************************************)

\* From a key to the same with the greatest code point lie its continuations that do
\* not begin with that one.
LEMMA InRange ==
  ASSUME NEW k \in Strings, NEW s \in Strings, ~Less(k, s), Less(k, RangeEnd(s))
  PROVE  \E r \in Strings : k = s \o r /\ (r # <<>> => r[1] # MaxRune)
<1> DEFINE e == RangeEnd(s)
           n == Len(s)
           r == SubSeq(k, n + 1, Len(k))
<1>1. /\ e \in Strings /\ Len(e) = n + 1 /\ n \in Nat /\ e[n + 1] = MaxRune
      /\ \A i \in 1 .. n : e[i] = s[i]
  <2>1. <<MaxRune>> \in Strings /\ n \in Nat
    BY StringsAssumption, StringFacts DEF Strings
  <2> QED
    BY <2>1, ConcatStrings DEF RangeEnd
<1>2. Len(k) \in Nat /\ k \in Seq(Chars) /\ \A i \in 1 .. Len(k) : k[i] \in Chars
  BY StringFacts
<1>3. PICK i \in 1 .. Len(e) :
        /\ i <= Len(k) + 1
        /\ SubSeq(k, 1, i - 1) = SubSeq(e, 1, i - 1)
        /\ i <= Len(k) => k[i] < e[i]
  BY DEF Less
<1> HIDE DEF e
<1>4. \A j \in 0 .. n : SubSeq(e, 1, j) = SubSeq(s, 1, j)
  <2> SUFFICES ASSUME NEW j \in 0 .. n PROVE SubSeq(e, 1, j) = SubSeq(s, 1, j)
    OBVIOUS
  <2>1. /\ \A x \in 1 .. j : e[x] \in Chars /\ s[x] \in Chars /\ e[x] = s[x]
        /\ j \in Int /\ 1 \in Int
    BY <1>1, StringFacts
  <2>2. /\ SubSeq(e, 1, j) \in Seq(Chars)
        /\ Len(SubSeq(e, 1, j)) = IF 1 <= j THEN j - 1 + 1 ELSE 0
        /\ \A x \in 1 .. j - 1 + 1 : SubSeq(e, 1, j)[x] = e[1 + x - 1]
    BY <2>1, SubSeqProperties
  <2>3. /\ SubSeq(s, 1, j) \in Seq(Chars)
        /\ Len(SubSeq(s, 1, j)) = IF 1 <= j THEN j - 1 + 1 ELSE 0
        /\ \A x \in 1 .. j - 1 + 1 : SubSeq(s, 1, j)[x] = s[1 + x - 1]
    BY <2>1, SubSeqProperties
  <2>4. /\ Len(SubSeq(e, 1, j)) = j /\ Len(SubSeq(s, 1, j)) = j
        /\ \A x \in 1 .. j : SubSeq(e, 1, j)[x] = SubSeq(s, 1, j)[x]
    BY <2>1, <2>2, <2>3
  <2> QED
    BY <2>2, <2>3, <2>4, SeqEqual
<1>5. i = n + 1
  <2> SUFFICES ASSUME i # n + 1 PROVE FALSE
    OBVIOUS
  <2>1. i \in 1 .. n /\ i - 1 \in 0 .. n
    BY <1>1, <1>3
  <2>2. SubSeq(k, 1, i - 1) = SubSeq(s, 1, i - 1)
    BY <1>3, <1>4, <2>1, Zenon
  <2>3. e[i] = s[i] /\ i \in 1 .. Len(s)
    BY <1>1, <2>1
  <2>4. i <= Len(k) + 1 /\ (i <= Len(k) => k[i] < s[i])
    BY <1>3, <2>3
  <2> QED
    BY <2>2, <2>3, <2>4, Zenon DEF Less
<1>6. SubSeq(k, 1, n) = s /\ n <= Len(k) /\ (n + 1 <= Len(k) => k[n + 1] < MaxRune)
  <2>1. SubSeq(s, 1, n) = s
    BY StringFacts, SubSeqFull
  <2>2. i - 1 = n
    BY <1>1, <1>5
  <2>3. SubSeq(k, 1, n) = SubSeq(e, 1, n)
    BY <1>3, <2>2, Zenon
  <2>4. SubSeq(e, 1, n) = SubSeq(s, 1, n)
    BY <1>1, <1>4
  <2>5. SubSeq(k, 1, n) = s
    BY <2>1, <2>3, <2>4, Zenon
  <2>6. n <= Len(k)
    BY <1>1, <1>2, <1>3, <1>5
  <2>7. n + 1 <= Len(k) => k[n + 1] < e[n + 1]
    BY <1>3, <1>5, Zenon
  <2> QED
    BY <1>1, <2>5, <2>6, <2>7
<1>7. /\ r \in Strings /\ (r # <<>> => n + 1 <= Len(k) /\ r[1] = k[n + 1])
  <2>1. \A x \in n + 1 .. Len(k) : k[x] \in Chars
    BY <1>1, <1>2
  <2>2. /\ r \in Seq(Chars)
        /\ Len(r) = IF n + 1 <= Len(k) THEN Len(k) - (n + 1) + 1 ELSE 0
        /\ \A x \in 1 .. Len(k) - (n + 1) + 1 : r[x] = k[n + 1 + x - 1]
    BY <1>1, <1>2, <2>1, SubSeqProperties
  <2> HIDE DEF r
  <2>3. ASSUME n + 1 <= Len(k) PROVE r[1] = k[n + 1]
    <3>1. 1 \in 1 .. Len(k) - (n + 1) + 1 /\ n + 1 + 1 - 1 = n + 1
      BY <1>1, <1>2, <2>3
    <3> QED
      BY <2>2, <3>1
  <2>4. r # <<>> => n + 1 <= Len(k)
    BY <2>2, EmptySeq
  <2> QED
    BY <2>2, <2>3, <2>4 DEF Strings, Chars
<1>8. k = s \o r
  <2>1. SubSeq(k, 1, n) \o SubSeq(k, n + 1, Len(k)) = SubSeq(k, 1, Len(k))
    <3>1. /\ 1 \in 1 .. Len(k) + 1 /\ n \in 1 - 1 .. Len(k) /\ Len(k) \in n .. Len(k)
      BY <1>1, <1>2, <1>6
    <3> QED
      BY <1>2, <3>1, ConcatAdjacentSubSeq
  <2>2. SubSeq(k, 1, Len(k)) = k
    BY <1>2, SubSeqFull
  <2> QED
    BY <1>6, <2>1, <2>2
<1>9. r # <<>> => r[1] # MaxRune
  <2> HIDE DEF r
  <2>1. \A x \in Chars : x < MaxRune => x # MaxRune
    BY StringsAssumption DEF Chars
  <2> SUFFICES ASSUME r # <<>> PROVE r[1] # MaxRune
    OBVIOUS
  <2>2. r[1] = k[n + 1] /\ k[n + 1] < MaxRune /\ n + 1 \in 1 .. Len(k)
    BY <1>1, <1>2, <1>6, <1>7
  <2> QED
    BY <1>2, <2>1, <2>2
<1> HIDE DEF r
<1> QED
  BY <1>7, <1>8, <1>9

\* And all of these do.
LEMMA RangeHas ==
  ASSUME NEW s \in Strings, NEW r \in Strings, r # <<>> => r[1] # MaxRune
  PROVE  ~Less(s \o r, s) /\ Less(s \o r, RangeEnd(s))
<1> DEFINE e == RangeEnd(s)
           n == Len(s)
           k == s \o r
<1>1. /\ e \in Strings /\ Len(e) = n + 1 /\ n \in Nat /\ e[n + 1] = MaxRune
      /\ \A i \in 1 .. n : e[i] = s[i]
  <2>1. <<MaxRune>> \in Strings /\ n \in Nat
    BY StringsAssumption, StringFacts DEF Strings
  <2> QED
    BY <2>1, ConcatStrings DEF RangeEnd
<1>2. /\ k \in Strings /\ Len(k) = n + Len(r) /\ Len(r) \in Nat
      /\ \A i \in 1 .. n + Len(r) : k[i] = IF i <= n THEN s[i] ELSE r[i - n]
  BY ConcatStrings, StringFacts
<1>3. \A i \in 1 .. n : k[i] = s[i] /\ s[i] \in Chars
  BY <1>1, <1>2, StringFacts
<1> HIDE DEF e, k
<1>4. ~Less(k, s)
  <2> SUFFICES ASSUME NEW i \in 1 .. n, i <= Len(k) => k[i] < s[i] PROVE FALSE
    BY DEF Less
  <2>1. k[i] < s[i] /\ k[i] = s[i] /\ s[i] \in Int
    BY <1>1, <1>2, <1>3 DEF Chars
  <2> QED
    BY <2>1
<1>5. Less(k, e)
  <2>1. n + 1 \in 1 .. Len(e) /\ n + 1 <= Len(k) + 1
    BY <1>1, <1>2
  <2>2. SubSeq(k, 1, n) = SubSeq(e, 1, n)
    <3>1. /\ \A x \in 1 .. n : e[x] \in Chars /\ k[x] \in Chars /\ e[x] = k[x]
          /\ n \in Int /\ 1 \in Int
      BY <1>1, <1>3
    <3>2. /\ SubSeq(e, 1, n) \in Seq(Chars)
          /\ Len(SubSeq(e, 1, n)) = IF 1 <= n THEN n - 1 + 1 ELSE 0
          /\ \A x \in 1 .. n - 1 + 1 : SubSeq(e, 1, n)[x] = e[1 + x - 1]
      BY <3>1, SubSeqProperties
    <3>3. /\ SubSeq(k, 1, n) \in Seq(Chars)
          /\ Len(SubSeq(k, 1, n)) = IF 1 <= n THEN n - 1 + 1 ELSE 0
          /\ \A x \in 1 .. n - 1 + 1 : SubSeq(k, 1, n)[x] = k[1 + x - 1]
      BY <3>1, SubSeqProperties
    <3>4. /\ Len(SubSeq(e, 1, n)) = n /\ Len(SubSeq(k, 1, n)) = n
          /\ \A x \in 1 .. n : SubSeq(k, 1, n)[x] = SubSeq(e, 1, n)[x]
      BY <1>1, <3>1, <3>2, <3>3
    <3> QED
      BY <3>2, <3>3, <3>4, SeqEqual
  <2>3. n + 1 <= Len(k) => k[n + 1] < e[n + 1]
    <3> SUFFICES ASSUME n + 1 <= Len(k) PROVE k[n + 1] < e[n + 1]
      OBVIOUS
    <3>1. 1 \in 1 .. Len(r) /\ n + 1 \in 1 .. n + Len(r) /\ ~(n + 1 <= n) /\ n + 1 - n = 1
      BY <1>1, <1>2
    <3>2. k[n + 1] = r[1] /\ r[1] \in Chars /\ r # <<>>
      BY <1>2, <3>1, StringFacts
    <3> QED
      BY <1>1, <3>2, StringsAssumption DEF Chars
  <2>4. n + 1 - 1 = n
    BY <1>1
  <2> QED
    BY <2>1, <2>2, <2>3, <2>4 DEF Less
<1> QED
  BY <1>4, <1>5 DEF e, k

(***************************************************************************)
(* Composite keys.                                                         *)
(***************************************************************************)

Keyed == [type : Strings, attrs : Texts]
PartsOf(p) == <<p.type>> \o p.attrs

\* A composite key of clean parts begins with the separator, and its tail is its parts
\* joined.
LEMMA KeyFacts ==
  ASSUME NEW p \in Keyed, Clean(p)
  PROVE  /\ PartsOf(p) \in Texts /\ Whole(PartsOf(p)) /\ Joined[PartsOf(p)] \in Strings
         /\ Key(p) = Separator \o Joined[PartsOf(p)] /\ Key(p) \in Strings
         /\ Key(p)[1] = Min_Rune /\ Len(Key(p)) > 1
         /\ Tail(Key(p)) = Joined[PartsOf(p)]
<1> DEFINE a == PartsOf(p)
           j == Joined[a]
<1>1. p.type \in Strings /\ p.attrs \in Texts /\ <<p.type>> \in Texts
  BY DEF Keyed, Texts
<1>2. p.type # <<>> /\ Free(p.type) /\ \A i \in DOMAIN p.attrs : Free(p.attrs[i])
  BY DEF Clean, Accepted, ValidPart
<1>3. /\ a \in Texts /\ Len(a) = 1 + Len(p.attrs) /\ Len(p.attrs) \in Nat
      /\ a[1] = p.type /\ \A i \in 1 .. Len(p.attrs) : a[i + 1] = p.attrs[i]
  BY <1>1 DEF PartsOf, Texts
<1>4. Whole(a)
  <2> SUFFICES ASSUME NEW i \in 1 .. Len(a) PROVE Free(a[i])
    BY <1>3 DEF Whole, Texts
  <2>1. DOMAIN p.attrs = 1 .. Len(p.attrs)
    BY <1>1 DEF Texts
  <2>2. CASE i = 1
    BY <1>2, <1>3, <2>2
  <2>3. CASE i # 1
    <3>1. i - 1 \in 1 .. Len(p.attrs) /\ i - 1 + 1 = i
      BY <1>3, <2>3
    <3> QED
      BY <1>2, <1>3, <2>1, <3>1
  <2> QED
    BY <2>2, <2>3
<1>5. a # <<>> /\ a[1] # <<>>
  BY <1>2, <1>3
<1> HIDE DEF a
<1>6. j \in Strings /\ j # <<>>
  BY <1>3, <1>5, JoinedUnfolds, JoinedHead
<1>7. Key(p) = Separator \o j
  BY DEF Key, a, PartsOf, Namespace, Separator
<1> HIDE DEF j
<1>8. /\ Separator \o j \in Strings /\ Len(Separator \o j) = 1 + Len(j) /\ Len(j) \in Nat
      /\ (Separator \o j)[1] = Min_Rune
      /\ \A i \in 1 .. Len(j) : (Separator \o j)[i + 1] = j[i]
  <2>1. /\ Separator \o j \in Strings /\ Len(Separator \o j) = Len(Separator) + Len(j)
        /\ \A i \in 1 .. Len(Separator) + Len(j) :
             (Separator \o j)[i] = IF i <= Len(Separator) THEN Separator[i]
                                   ELSE j[i - Len(Separator)]
    BY <1>6, SeparatorType, ConcatStrings
  <2>2. Len(j) \in Nat /\ Len(Separator) = 1 /\ Separator[1] = Min_Rune
    BY <1>6, SeparatorType, StringFacts
  <2> DEFINE k == Separator \o j
  <2> HIDE DEF k
  <2>3. k[1] = Separator[1] /\ \A i \in 1 .. Len(j) : k[i + 1] = j[i]
    <3>1. \A i \in 1 .. 1 + Len(j) : k[i] = IF i <= 1 THEN Separator[i] ELSE j[i - 1]
      BY <2>1, <2>2 DEF k
    <3>2. \A i \in 1 .. Len(j) : i + 1 \in 1 .. 1 + Len(j) /\ ~(i + 1 <= 1) /\ i + 1 - 1 = i
      BY <2>2
    <3> QED
      BY <2>2, <3>1, <3>2
  <2> QED
    BY <2>1, <2>2, <2>3 DEF k
<1> DEFINE k == Separator \o j
<1> HIDE DEF k
<1>9. Len(k) > 1 /\ k # <<>>
  <2>1. Len(j) # 0
    BY <1>6, EmptySeq, StringFacts
  <2> QED
    BY <1>8, <2>1 DEF k
<1>10. Tail(k) = j
  <2>1. k \in Seq(Chars)
    BY <1>8, StringFacts DEF k
  <2>2. /\ Tail(k) \in Seq(Chars) /\ Len(Tail(k)) = Len(k) - 1
        /\ \A i \in 1 .. Len(Tail(k)) : Tail(k)[i] = k[i + 1]
    BY <1>9, <2>1, HeadTailProperties
  <2>3. Len(Tail(k)) = Len(j) /\ \A i \in 1 .. Len(Tail(k)) : Tail(k)[i] = j[i]
    BY <1>8, <2>2 DEF k
  <2> QED
    BY <1>6, <2>2, <2>3, StringFacts, SeqEqual
<1> QED
  BY <1>3, <1>4, <1>6, <1>7, <1>8, <1>9, <1>10 DEF a, j, k

\* A clean key is taken apart into its parts.
LEMMA SplitKey ==
  ASSUME NEW p \in Keyed, Clean(p)
  PROVE  Split(Key(p)) = p
<1> DEFINE a == PartsOf(p)
           e == <<>>
           fields == Fields[Tail(Key(p))]
<1>1. /\ a \in Texts /\ Whole(a) /\ Joined[a] \in Strings
      /\ Key(p)[1] = Min_Rune /\ Len(Key(p)) > 1 /\ Tail(Key(p)) = Joined[a]
  BY KeyFacts
<1>2. e \in Strings /\ Free(e)
  BY DEF Strings, Free
<1> HIDE DEF a, e
<1>3. fields = a \o <<e>>
  <2>1. Fields[Joined[a] \o e] = a \o Fields[e]
    BY <1>1, <1>2, FieldsOfJoined
  <2>2. Fields[e] = <<e>>
    BY <1>2, FieldsUnfolds
  <2>3. Joined[a] \o e = Joined[a]
    BY <1>1, StringFacts, ConcatEmptySeq DEF e
  <2> QED
    BY <1>1, <2>1, <2>2, <2>3, Zenon
<1>4. p.type \in Strings /\ p.attrs \in Texts /\ <<p.type>> \in Texts
  BY DEF Keyed, Texts
<1>5. /\ Len(a) = 1 + Len(p.attrs) /\ Len(p.attrs) \in Nat
      /\ a[1] = p.type /\ \A i \in 1 .. Len(p.attrs) : a[i + 1] = p.attrs[i]
  BY <1>4 DEF a, PartsOf, Texts
<1> HIDE DEF fields
<1>6. /\ fields \in Texts /\ Len(fields) = Len(a) + 1 /\ fields[1] = a[1] /\ Front(fields) = a
  <2>1. /\ fields \in Texts /\ Len(fields) = Len(a) + 1 /\ fields[1] = a[1]
    <3>1. <<e>> \in Texts /\ Len(<<e>>) = 1
      BY <1>2 DEF Texts
    <3>2. /\ a \o <<e>> \in Texts /\ Len(a \o <<e>>) = Len(a) + 1
          /\ (a \o <<e>>)[1] = a[1]
      BY <1>1, <1>2, <1>5 DEF Texts
    <3> QED
      BY <1>3, <3>2
  <2>2. Front(fields) = a
    BY <1>1, <1>2, <1>3, FrontOfAppended, Zenon
  <2> QED
    BY <2>1, <2>2
<1>7. Tail(a) = p.attrs
  <2>1. a # <<>>
    BY <1>1, <1>5
  <2>2. /\ Tail(a) \in Seq(Strings) /\ Len(Tail(a)) = Len(a) - 1
        /\ \A i \in 1 .. Len(Tail(a)) : Tail(a)[i] = a[i + 1]
    BY <1>1, <2>1, HeadTailProperties DEF Texts
  <2>3. Len(Tail(a)) = Len(p.attrs) /\ \A i \in 1 .. Len(Tail(a)) : Tail(a)[i] = p.attrs[i]
    BY <1>5, <2>2
  <2> QED
    BY <1>4, <2>2, <2>3, SeqEqual DEF Texts
<1>8. (IF Len(fields) > 2 THEN Tail(Front(fields)) ELSE <<>>) = p.attrs
  <2>1. CASE Len(p.attrs) = 0
    BY <1>4, <1>5, <1>6, <2>1 DEF Texts
  <2>2. CASE Len(p.attrs) # 0
    <3>1. Len(fields) > 2
      BY <1>5, <1>6, <2>2
    <3>2. Tail(Front(fields)) = p.attrs
      BY <1>6, <1>7, Zenon
    <3> QED
      BY <3>1, <3>2, Zenon
  <2> QED
    BY <2>1, <2>2
<1>9. Split(Key(p)) = Parts(fields[1], IF Len(fields) > 2 THEN Tail(Front(fields)) ELSE <<>>)
  BY <1>1, Zenon DEF Split, fields
<1>10. p = [type |-> p.type, attrs |-> p.attrs]
  BY DEF Keyed
<1> QED
  BY <1>5, <1>6, <1>8, <1>9, <1>10 DEF Parts

\* p has the type of q and its attributes first, and none behind the range of q.
Extends(p, q) == p.type = q.type /\ IsPrefix(q.attrs, p.attrs) /\ ~Behind(p, q)

\* The attributes that p has beyond those of q.
LEMMA Rest ==
  ASSUME NEW p \in Keyed, NEW q \in Keyed, NEW c \in Texts, p.attrs = q.attrs \o c
  PROVE  /\ IsPrefix(q.attrs, p.attrs)
         /\ Len(p.attrs) > Len(q.attrs) <=> c # <<>>
         /\ c # <<>> => c[1] = p.attrs[Len(q.attrs) + 1]
<1> DEFINE s == q.attrs
           t == s \o c
<1>1. s \in Texts /\ Len(s) \in Nat /\ Len(c) \in Nat
  BY DEF Keyed, Texts
<1> HIDE DEF s
<1>2. /\ t \in Texts /\ Len(t) = Len(s) + Len(c)
      /\ \A i \in 1 .. Len(s) + Len(c) : t[i] = IF i <= Len(s) THEN s[i] ELSE c[i - Len(s)]
  BY <1>1, ConcatProperties DEF Texts
<1>3. c # <<>> <=> Len(c) > 0
  BY <1>1, EmptySeq DEF Texts
<1> HIDE DEF t
<1>4. c # <<>> => c[1] = t[Len(s) + 1]
  <2> SUFFICES ASSUME c # <<>> PROVE c[1] = t[Len(s) + 1]
    OBVIOUS
  <2>1. Len(s) + 1 \in 1 .. Len(s) + Len(c) /\ ~(Len(s) + 1 <= Len(s)) /\ Len(s) + 1 - Len(s) = 1
    BY <1>1, <1>3
  <2> QED
    BY <1>2, <2>1
<1>5. IsPrefix(s, t)
  <2>1. SubSeq(s, 1, Len(s)) = s
    BY <1>1, SubSeqFull DEF Texts
  <2>2. SubSeq(t, 1, Len(s)) = s
    <3>1. \A i \in 1 .. Len(s) : t[i] = s[i] /\ s[i] \in Strings
      BY <1>1, <1>2, ElementOfSeq DEF Texts
    <3>2. /\ SubSeq(t, 1, Len(s)) \in Seq(Strings)
          /\ Len(SubSeq(t, 1, Len(s))) = IF 1 <= Len(s) THEN Len(s) - 1 + 1 ELSE 0
          /\ \A i \in 1 .. Len(s) - 1 + 1 : SubSeq(t, 1, Len(s))[i] = t[1 + i - 1]
      BY <1>1, <3>1, SubSeqProperties
    <3>3. /\ Len(SubSeq(t, 1, Len(s))) = Len(s)
          /\ \A i \in 1 .. Len(s) : SubSeq(t, 1, Len(s))[i] = s[i]
      BY <1>1, <3>1, <3>2
    <3> QED
      BY <1>1, <3>2, <3>3, SeqEqual DEF Texts
  <2>3. Len(s) <= Len(t)
    BY <1>1, <1>2
  <2> QED
    BY <2>1, <2>2, <2>3, Zenon DEF IsPrefix
<1>6. Len(t) > Len(s) <=> c # <<>>
  BY <1>1, <1>2, <1>3
<1> QED
  BY <1>4, <1>5, <1>6, Zenon DEF s, t

\* A key in the range of a partial key extends it.
LEMMA RangeIsPrefix ==
  ASSUME NEW p \in Keyed, Clean(p), NEW q \in Keyed, Clean(q), NEW r \in Strings,
         Key(p) = Key(q) \o r, r # <<>> => r[1] # MaxRune
  PROVE  Extends(p, q)
<1> DEFINE a == PartsOf(p)
           b == PartsOf(q)
<1>1. /\ a \in Texts /\ Whole(a) /\ Joined[a] \in Strings /\ Key(p) = Separator \o Joined[a]
      /\ b \in Texts /\ Whole(b) /\ Joined[b] \in Strings /\ Key(q) = Separator \o Joined[b]
  BY KeyFacts
<1>2. /\ p.type \in Strings /\ p.attrs \in Texts /\ <<p.type>> \in Texts
      /\ q.type \in Strings /\ q.attrs \in Texts /\ <<q.type>> \in Texts
  BY DEF Keyed, Texts
<1> HIDE DEF a, b
<1>3. Joined[a] = Joined[b] \o r
  <2>1. (Separator \o Joined[b]) \o r = Separator \o (Joined[b] \o r)
    BY <1>1, SeparatorType, StringsAssociate, Zenon
  <2>2. Separator \o Joined[a] = Separator \o (Joined[b] \o r)
    BY <1>1, <2>1, Zenon
  <2>3. Joined[b] \o r \in Strings
    BY <1>1, ConcatStrings
  <2>4. \A x, y, z \in Seq(Chars) : x \o y = x \o z => y = z
    BY ConcatSimplifications
  <2>5. Separator \in Seq(Chars) /\ Joined[a] \in Seq(Chars) /\ Joined[b] \o r \in Seq(Chars)
    BY <1>1, <2>3, SeparatorType, StringFacts
  <2> QED
    BY <2>2, <2>4, <2>5, Zenon
<1>4. PICK c \in Texts : a = b \o c /\ r = Joined[c]
  BY <1>1, <1>3, JoinedPrefix
<1>5. p.type = q.type /\ p.attrs = q.attrs \o c
  <2>1. <<p.type>> \o p.attrs = <<q.type>> \o (q.attrs \o c)
    <3>1. (<<q.type>> \o q.attrs) \o c = <<q.type>> \o (q.attrs \o c)
      BY <1>2, TextsAssociate, Zenon
    <3> QED
      BY <1>4, <3>1, Zenon DEF a, b, PartsOf
  <2> DEFINE s == p.attrs
             t == q.attrs \o c
  <2>2. s \in Texts /\ t \in Texts
    BY <1>2, ConcatTexts
  <2> HIDE DEF s, t
  <2>3. <<p.type>> \o s = <<q.type>> \o t
    BY <2>1 DEF s, t
  <2>4. p.type = q.type
    <3>1. (<<p.type>> \o s)[1] = p.type
      BY <1>2, <2>2 DEF Texts
    <3>2. (<<q.type>> \o t)[1] = q.type
      BY <1>2, <2>2 DEF Texts
    <3> QED
      BY <2>3, <3>1, <3>2, Zenon
  <2>5. s = t
    <3>1. <<p.type>> \o s = <<p.type>> \o t
      BY <2>3, <2>4, Zenon
    <3>2. \A x, y, z \in Texts : x \o y = x \o z => y = z
      BY ConcatSimplifications DEF Texts
    <3> QED
      BY <1>2, <2>2, <3>1, <3>2, Zenon
  <2> QED
    BY <2>4, <2>5 DEF s, t
<1>6. /\ IsPrefix(q.attrs, p.attrs)
      /\ Len(p.attrs) > Len(q.attrs) <=> c # <<>>
      /\ c # <<>> => c[1] = p.attrs[Len(q.attrs) + 1]
  BY <1>5, Rest
<1>7. ~Behind(p, q)
  <2> SUFFICES ASSUME c # <<>>, c[1][1] = MaxRune PROVE FALSE
    BY <1>6, Zenon DEF Behind
  <2>1. c[1] # <<>>
    <3>1. Len(p.attrs) \in Nat /\ Len(q.attrs) \in Nat /\ DOMAIN p.attrs = 1 .. Len(p.attrs)
      BY <1>2 DEF Texts
    <3>2. Len(q.attrs) + 1 \in DOMAIN p.attrs
      BY <1>6, <3>1
    <3>3. p.attrs[Len(q.attrs) + 1] # <<>>
      BY <3>2, Zenon DEF Clean, Accepted, ValidPart
    <3> QED
      BY <1>6, <3>3, Zenon
  <2>2. r # <<>> /\ r[1] = c[1][1]
    BY <1>4, <2>1, JoinedHead, Zenon
  <2> QED
    BY <2>2
<1> QED
  BY <1>5, <1>6, <1>7 DEF Extends

\* A key that extends a partial key lies in its range.
LEMMA PrefixInRange ==
  ASSUME NEW p \in Keyed, Clean(p), NEW q \in Keyed, Clean(q), Extends(p, q)
  PROVE  \E r \in Strings : Key(p) = Key(q) \o r /\ (r # <<>> => r[1] # MaxRune)
<1> DEFINE a == PartsOf(p)
           b == PartsOf(q)
           s == q.attrs
           t == p.attrs
           n == Len(s)
           c == SubSeq(t, n + 1, Len(t))
<1>1. /\ a \in Texts /\ Whole(a) /\ Joined[a] \in Strings /\ Key(p) = Separator \o Joined[a]
      /\ b \in Texts /\ Whole(b) /\ Joined[b] \in Strings /\ Key(q) = Separator \o Joined[b]
  BY KeyFacts
<1>2. /\ p.type \in Strings /\ t \in Texts /\ <<p.type>> \in Texts
      /\ q.type \in Strings /\ s \in Texts /\ <<q.type>> \in Texts
      /\ Len(t) \in Nat /\ n \in Nat
      /\ t \in Seq(Strings) /\ \A i \in 1 .. Len(t) : t[i] \in Strings
  BY DEF Keyed, Texts
<1>3. p.type = q.type /\ n <= Len(t) /\ SubSeq(s, 1, n) = SubSeq(t, 1, n)
  BY Zenon DEF Extends, IsPrefix
<1> HIDE DEF a, b
<1>4. c \in Texts /\ t = s \o c
  <2>1. c \in Texts
    <3>1. \A i \in n + 1 .. Len(t) : t[i] \in Strings
      BY <1>2
    <3> QED
      BY <1>2, <3>1, SubSeqProperties DEF Texts
  <2>2. SubSeq(t, 1, n) \o SubSeq(t, n + 1, Len(t)) = SubSeq(t, 1, Len(t))
    <3>1. 1 \in 1 .. Len(t) + 1 /\ n \in 1 - 1 .. Len(t) /\ Len(t) \in n .. Len(t)
      BY <1>2, <1>3
    <3> QED
      BY <1>2, <3>1, ConcatAdjacentSubSeq
  <2>3. SubSeq(t, 1, Len(t)) = t /\ SubSeq(s, 1, n) = s
    BY <1>2, SubSeqFull DEF Texts
  <2> QED
    BY <1>3, <2>1, <2>2, <2>3, Zenon
<1> HIDE DEF c
<1>5. a = b \o c
  <2>1. (<<q.type>> \o s) \o c = <<q.type>> \o (s \o c)
    BY <1>2, <1>4, TextsAssociate, Zenon
  <2> QED
    BY <1>3, <1>4, <2>1, Zenon DEF a, b, PartsOf
<1> DEFINE r == Joined[c]
<1>6. Joined[a] = Joined[b] \o r /\ r \in Strings
  <2>1. Joined[b \o c] = Joined[b] \o Joined[c]
    BY <1>1, <1>4, JoinedConcat
  <2>2. r \in Strings
    BY <1>4, JoinedUnfolds
  <2> QED
    BY <1>5, <2>1, <2>2, Zenon
<1>7. Key(p) = Key(q) \o r
  <2>1. (Separator \o Joined[b]) \o r = Separator \o (Joined[b] \o r)
    BY <1>1, <1>6, SeparatorType, StringsAssociate, Zenon
  <2> QED
    BY <1>1, <1>6, <2>1, Zenon
<1>8. r # <<>> => r[1] # MaxRune
  <2> SUFFICES ASSUME r # <<>> PROVE r[1] # MaxRune
    OBVIOUS
  <2>1. c # <<>>
    <3>1. <<>> \in Texts
      BY DEF Texts
    <3>2. Joined[<<>>] = <<>>
      BY <3>1, JoinedUnfolds
    <3> QED
      BY <3>2
  <2>2. Len(t) > n /\ c[1] = t[n + 1]
    BY <1>4, <2>1, Rest
  <2>3. n + 1 \in DOMAIN t
    <3>1. DOMAIN t = 1 .. Len(t)
      BY <1>2 DEF Texts
    <3> QED
      BY <1>2, <2>2, <3>1
  <2>4. t[n + 1] # <<>>
    BY <2>3, Zenon DEF Clean, Accepted, ValidPart
  <2>5. c[1][1] # MaxRune
    BY <2>2, Zenon DEF Extends, Behind
  <2>6. r[1] = c[1][1]
    BY <1>4, <2>1, <2>2, <2>4, JoinedHead
  <2> QED
    BY <2>5, <2>6
<1> QED
  BY <1>6, <1>7, <1>8

(***************************************************************************)
(* The ledger.                                                             *)
(***************************************************************************)

\* What the calls have kept: every key of the ledger was made of accepted parts, or
\* put as it is.
KeysRight ==
  /\ made \subseteq {p \in Keyed : Accepted(p)}
  /\ plain \subseteq Strings
  /\ ledger = {Key(p) : p \in made} \cup plain

\* The parts of a call.
LEMMA PartsKeyed ==
  ASSUME NEW t \in Types, NEW as \in Attrs
  PROVE  Parts(t, as) \in Keyed
BY StringsAssumption DEF Parts, Keyed, Texts

\* Every call keeps the ledger and the two histories together.
LEMMA KeysRightStep ==
  ASSUME KeysRight, [Next]_vars
  PROVE  KeysRight'
<1>1. ASSUME NEW t \in Types, NEW as \in Attrs, PutComposite(Parts(t, as))
      PROVE  KeysRight'
  <2> DEFINE p == Parts(t, as)
  <2>1. p \in Keyed /\ Accepted(p)
    BY <1>1, PartsKeyed DEF PutComposite
  <2> HIDE DEF p
  <2>2. ledger' = ledger \cup {Key(p)} /\ made' = made \cup {p} /\ plain' = plain
    BY <1>1 DEF PutComposite, p
  <2> QED
    BY <2>1, <2>2 DEF KeysRight
<1>2. ASSUME NEW t \in Types, NEW as \in Attrs, PutRefused(Parts(t, as))
      PROVE  KeysRight'
  BY <1>2 DEF PutRefused, KeysRight
<1>3. ASSUME NEW key \in Simple, PutSimple(key)
      PROVE  KeysRight'
  BY <1>3, StringsAssumption DEF PutSimple, KeysRight
<1>4. ASSUME NEW key \in ledger, Delete(key)
      PROVE  KeysRight'
  BY <1>4 DEF Delete, KeysRight
<1>5. CASE UNCHANGED vars
  BY <1>5 DEF vars, KeysRight
<1> QED
  BY <1>1, <1>2, <1>3, <1>4, <1>5 DEF Next

\* Every key of the ledger was made of parts that create_composite_key accepts, none
\* of them empty, or was put as it is (stub.py:319-330).
THEOREM KeysRightHolds == Spec => []KeysRight
<1>1. Init => KeysRight
  BY DEF Init, KeysRight
<1> QED
  BY <1>1, KeysRightStep, PTL DEF Spec

\* Whatever keys the chaincode has made, split_composite_key returns the parts of each
\* that holds no U+0000, for any alphabet, types and attributes.
THEOREM SplitsBackHolds == Spec => []SplitsBack
<1>1. KeysRight => SplitsBack
  BY SplitKey DEF KeysRight, SplitsBack
<1> QED
  BY <1>1, KeysRightHolds, PTL

\* A key in the range of a partial key that was put as it is begins with U+0000.
LEMMA PlainOutOfRange ==
  ASSUME NEW k \in Strings, NEW q \in Keyed, Clean(q), k \in KeysByPartialKey(q)
  PROVE  k # <<>> /\ k[1] = Min_Rune
<1> DEFINE s == Key(q)
<1>1. s \in Strings /\ s[1] = Min_Rune /\ Len(s) > 1
  BY KeyFacts
<1>2. ~Less(k, s) /\ Less(k, RangeEnd(s))
  BY DEF KeysByPartialKey, KeysByRange
<1> HIDE DEF s
<1>3. PICK r \in Strings : k = s \o r
  BY <1>1, <1>2, InRange
<1>4. /\ Len(k) = Len(s) + Len(r) /\ Len(r) \in Nat
      /\ \A i \in 1 .. Len(s) + Len(r) : k[i] = IF i <= Len(s) THEN s[i] ELSE r[i - Len(s)]
  BY <1>1, <1>3, ConcatStrings, StringFacts
<1>5. Len(s) \in Nat
  BY <1>1, StringFacts
<1>6. 1 \in 1 .. Len(s) + Len(r) /\ 1 <= Len(s) /\ Len(k) # 0
  BY <1>1, <1>4, <1>5
<1> QED
  BY <1>1, <1>4, <1>6

\* Among the keys made of parts without U+0000, the range of a partial key holds
\* those that extend it, but for the keys whose next attribute begins with the
\* greatest code point, and no others; a plain key is in it only if it begins with
\* U+0000.  This holds for any alphabet, types, attributes and ledger.
THEOREM PartialKeyExactHolds == Spec => []PartialKeyExact
<1>1. ASSUME KeysRight PROVE PartialKeyExact
  <2> SUFFICES ASSUME NEW t \in Types, NEW as \in Attrs, Clean(Parts(t, as))
               PROVE  LET q == Parts(t, as)
                          found == KeysByPartialKey(q)
                      IN /\ \A p \in made : Clean(p) =>
                              (Key(p) \in found
                                 <=> /\ p.type = q.type /\ IsPrefix(q.attrs, p.attrs)
                                     /\ ~Behind(p, q))
                         /\ \A k \in found \cap plain : k # <<>> /\ k[1] = Min_Rune
    BY DEF PartialKeyExact
  <2> DEFINE q == Parts(t, as)
             found == KeysByPartialKey(q)
  <2>1. q \in Keyed /\ Clean(q) /\ Key(q) \in Strings
    BY PartsKeyed, KeyFacts
  <2>2. made \subseteq Keyed /\ plain \subseteq Strings
        /\ ledger = {Key(p) : p \in made} \cup plain
    BY <1>1 DEF KeysRight
  <2> HIDE DEF q
  <2>3. found = {k \in ledger : ~Less(k, Key(q)) /\ Less(k, RangeEnd(Key(q)))}
    BY DEF KeysByPartialKey, KeysByRange
  <2>4. \A k \in found \cap plain : k # <<>> /\ k[1] = Min_Rune
    BY <2>1, <2>2, PlainOutOfRange
  <2> HIDE DEF found
  <2>5. ASSUME NEW p \in made, Clean(p), Key(p) \in found PROVE Extends(p, q)
    <3>1. p \in Keyed /\ Key(p) \in Strings
      BY <2>2, <2>5, KeyFacts
    <3>2. ~Less(Key(p), Key(q)) /\ Less(Key(p), RangeEnd(Key(q)))
      BY <2>3, <2>5
    <3>3. PICK r \in Strings : Key(p) = Key(q) \o r /\ (r # <<>> => r[1] # MaxRune)
      BY <2>1, <3>1, <3>2, InRange
    <3> QED
      BY <2>1, <2>5, <3>1, <3>3, RangeIsPrefix
  <2>6. ASSUME NEW p \in made, Clean(p), Extends(p, q) PROVE Key(p) \in found
    <3>1. p \in Keyed
      BY <2>2
    <3>2. PICK r \in Strings : Key(p) = Key(q) \o r /\ (r # <<>> => r[1] # MaxRune)
      BY <2>1, <2>6, <3>1, PrefixInRange
    <3>3. ~Less(Key(q) \o r, Key(q)) /\ Less(Key(q) \o r, RangeEnd(Key(q)))
      BY <2>1, <3>2, RangeHas
    <3>4. Key(p) \in ledger
      BY <2>2
    <3> QED
      BY <2>3, <3>2, <3>3, <3>4, Zenon
  <2> QED
    BY <2>4, <2>5, <2>6 DEF Extends, q, found
<1> QED
  BY <1>1, KeysRightHolds, PTL
=============================================================================
