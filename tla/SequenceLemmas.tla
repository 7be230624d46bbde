--------------------------- MODULE SequenceLemmas ---------------------------
(***************************************************************************)
(* Induction over the naturals with a set in the place of a predicate, and *)
(* what it shows of FlattenSeq, whose definition is a recursive function.  *)
(***************************************************************************)
EXTENDS SequencesExt, SequenceTheorems, WellFoundedInduction, TLAPS

\* A set that holds 0 and every successor of a member holds all the naturals:
\* the least number outside it, which the well-foundedness of < would give,
\* has a predecessor in it
LEMMA SetInduction ==
    ASSUME NEW S, 0 \in S, \A n \in Nat : n \in S => n + 1 \in S
    PROVE  Nat \subseteq S
<1> DEFINE R == OpToRel(<, Nat)
           T == {n \in Nat : n \notin S}
<1>1. SUFFICES ASSUME T # {}
               PROVE  FALSE
  OBVIOUS
<1>2. IsWellFoundedOn(R, Nat)
  BY NatLessThanWellFounded
<1>3. T \subseteq Nat
  OBVIOUS
<1>4. \A x, y \in Nat : y < x => <<y, x>> \in R
  BY DEF OpToRel
<1> HIDE DEF R, T
<1>5. PICK x \in T : \A y \in T : ~(<<y, x>> \in R)
  BY <1>1, <1>2, <1>3, WFMin
<1>6. x \in Nat /\ x \notin S
  BY <1>5 DEF T
<1>7. x # 0
  BY <1>6
<1>8. x - 1 \in Nat /\ x - 1 < x
  BY <1>6, <1>7
<1>9. x - 1 \notin T
  BY <1>4, <1>5, <1>6, <1>8
<1>10. x - 1 \in S
  BY <1>8, <1>9 DEF T
<1> QED
  BY <1>6, <1>8, <1>10

-----------------------------------------------------------------------------
(* Concatenation *)

\* ConcatAssociative as a rule that may be used among other facts
LEMMA Associative ==
    \A S : \A p, q, r \in Seq(S) : (p \o q) \o r = p \o (q \o r)
<1> SUFFICES ASSUME NEW S, NEW p \in Seq(S), NEW q \in Seq(S), NEW r \in Seq(S)
             PROVE  (p \o q) \o r = p \o (q \o r)
  OBVIOUS
<1> QED
  BY ConcatAssociative

-----------------------------------------------------------------------------
(* Sequences that agree *)

\* ConcatProperties likewise, as far as type and length go
LEMMA Concatenated ==
    \A S : \A p, q \in Seq(S) : /\ p \o q \in Seq(S)
                                /\ Len(p \o q) = Len(p) + Len(q)
                                /\ Len(p) \in Nat /\ Len(q) \in Nat
BY ConcatProperties, LenProperties

\* A sequence cut in two is the concatenation of its parts
LEMMA Cut ==
    \A S : \A s \in Seq(S) : \A k \in 0..Len(s) :
        /\ SubSeq(s, 1, k) \in Seq(S) /\ Len(SubSeq(s, 1, k)) = k
        /\ SubSeq(s, k + 1, Len(s)) \in Seq(S)
        /\ Len(SubSeq(s, k + 1, Len(s))) = Len(s) - k
        /\ s = SubSeq(s, 1, k) \o SubSeq(s, k + 1, Len(s))
<1> SUFFICES ASSUME NEW S, NEW s \in Seq(S), NEW k \in 0..Len(s)
             PROVE  /\ SubSeq(s, 1, k) \in Seq(S) /\ Len(SubSeq(s, 1, k)) = k
                    /\ SubSeq(s, k + 1, Len(s)) \in Seq(S)
                    /\ Len(SubSeq(s, k + 1, Len(s))) = Len(s) - k
                    /\ s = SubSeq(s, 1, k) \o SubSeq(s, k + 1, Len(s))
  OBVIOUS
<1>1. Len(s) \in Nat /\ \A i \in 1..Len(s) : s[i] \in S
  BY LenProperties, ElementOfSeq
<1>2. /\ SubSeq(s, 1, k) \in Seq(S) /\ Len(SubSeq(s, 1, k)) = k
      /\ SubSeq(s, k + 1, Len(s)) \in Seq(S)
      /\ Len(SubSeq(s, k + 1, Len(s))) = Len(s) - k
  BY <1>1, SubSeqProperties
<1>3. SubSeq(s, 1, k) \o SubSeq(s, k + 1, Len(s)) = SubSeq(s, 1, Len(s))
  <2>1. 1 \in 1..(Len(s) + 1) /\ k \in (1 - 1)..Len(s) /\ Len(s) \in k..Len(s)
    BY <1>1
  <2> QED
    BY <2>1, ConcatAdjacentSubSeq
<1> QED
  BY <1>2, <1>3, SubSeqFull

\* Two cuts of a sequence at the same place give the same parts
LEMMA SameCut ==
    ASSUME NEW S, NEW x \in Seq(S), NEW y \in Seq(S), NEW f \in Seq(S), NEW g \in Seq(S),
           x \o y = f \o g, Len(x) = Len(f)
    PROVE  x = f /\ y = g
<1>1. Len(x) \in Nat /\ Len(y) \in Nat /\ Len(g) \in Nat
  BY LenProperties
<1>2. \A i \in 1..Len(x) : (x \o y)[i] = x[i] /\ (f \o g)[i] = f[i]
  BY <1>1, ConcatProperties
<1>3. x = f
  BY <1>2, SeqEqual
<1>4. x \o y = x \o g
  BY <1>3
<1> QED
  BY <1>3, <1>4, ConcatSimplifications

\* Concatenation without its definition, for steps that only regroup
Cat(a, b) == a \o b

\* It is closed, associative, and <<>> is neutral
LEMMA CatRules ==
    \A S : /\ \A a, b \in Seq(S) : Cat(a, b) \in Seq(S)
           /\ \A a, b, c \in Seq(S) : Cat(Cat(a, b), c) = Cat(a, Cat(b, c))
           /\ \A a \in Seq(S) : Cat(a, <<>>) = a /\ Cat(<<>>, a) = a
<1> SUFFICES ASSUME NEW S
             PROVE  /\ \A a, b \in Seq(S) : Cat(a, b) \in Seq(S)
                    /\ \A a, b, c \in Seq(S) : Cat(Cat(a, b), c) = Cat(a, Cat(b, c))
                    /\ \A a \in Seq(S) : Cat(a, <<>>) = a /\ Cat(<<>>, a) = a
  OBVIOUS
<1>1. \A a, b \in Seq(S) : Cat(a, b) \in Seq(S)
  BY ConcatProperties DEF Cat
<1>2. ASSUME NEW a \in Seq(S), NEW b \in Seq(S), NEW c \in Seq(S)
      PROVE  Cat(Cat(a, b), c) = Cat(a, Cat(b, c))
  BY ConcatAssociative DEF Cat
<1>3. \A a \in Seq(S) : Cat(a, <<>>) = a /\ Cat(<<>>, a) = a
  BY ConcatEmptySeq DEF Cat
<1> QED
  BY <1>1, <1>2, <1>3

\* The rest of a sequence after i elements, cut at k
LEMMA CutRest ==
    \A S : \A s \in Seq(S) : \A i \in Nat : \A k \in i..Len(s) :
        /\ SubSeq(s, i + 1, k) \in Seq(S) /\ Len(SubSeq(s, i + 1, k)) = k - i
        /\ SubSeq(s, i + 1, k) \o SubSeq(s, k + 1, Len(s)) = SubSeq(s, i + 1, Len(s))
<1> SUFFICES ASSUME NEW S, NEW s \in Seq(S), NEW i \in Nat, NEW k \in i..Len(s)
             PROVE  /\ SubSeq(s, i + 1, k) \in Seq(S) /\ Len(SubSeq(s, i + 1, k)) = k - i
                    /\ SubSeq(s, i + 1, k) \o SubSeq(s, k + 1, Len(s)) = SubSeq(s, i + 1, Len(s))
  OBVIOUS
<1>1. Len(s) \in Nat /\ \A j \in 1..Len(s) : s[j] \in S
  BY LenProperties, ElementOfSeq
<1>2. SubSeq(s, i + 1, k) \in Seq(S) /\ Len(SubSeq(s, i + 1, k)) = k - i
  BY <1>1, SubSeqProperties
<1>3. /\ i + 1 \in 1..(Len(s) + 1)
      /\ k \in ((i + 1) - 1)..Len(s)
      /\ Len(s) \in k..Len(s)
  BY <1>1
<1> QED
  BY <1>2, <1>3, ConcatAdjacentSubSeq

\* The pieces of a stream in another grouping; u and q change places when one of
\* them is empty
LEMMA Regroup ==
    \A S : \A p, q, u, v, w, t \in Seq(S) : (u = <<>> \/ q = <<>>) =>
        Cat(Cat(Cat(p, q), Cat(u, Cat(v, w))), t) = Cat(Cat(Cat(p, u), Cat(q, v)), Cat(w, t))
<1> SUFFICES ASSUME NEW S, NEW p \in Seq(S), NEW q \in Seq(S), NEW u \in Seq(S),
                    NEW v \in Seq(S), NEW w \in Seq(S), NEW t \in Seq(S),
                    u = <<>> \/ q = <<>>
             PROVE  Cat(Cat(Cat(p, q), Cat(u, Cat(v, w))), t)
                        = Cat(Cat(Cat(p, u), Cat(q, v)), Cat(w, t))
  OBVIOUS
<1>1. /\ \A a, b \in Seq(S) : Cat(a, b) \in Seq(S)
      /\ \A a, b, c \in Seq(S) : Cat(Cat(a, b), c) = Cat(a, Cat(b, c))
      /\ \A a \in Seq(S) : Cat(a, <<>>) = a /\ Cat(<<>>, a) = a
  BY CatRules
<1>2. PICK x \in Seq(S) : x = Cat(v, Cat(w, t))
  BY <1>1
<1>3. Cat(Cat(Cat(p, q), Cat(u, Cat(v, w))), t) = Cat(p, Cat(q, Cat(u, x)))
  <2>1. Cat(Cat(u, Cat(v, w)), t) = Cat(u, x)
    BY <1>1, <1>2
  <2>2. PICK y \in Seq(S) : y = Cat(u, Cat(v, w))
    BY <1>1
  <2>3. Cat(Cat(Cat(p, q), y), t) = Cat(p, Cat(q, Cat(y, t)))
    <3>1. Cat(p, q) \in Seq(S) /\ Cat(y, t) \in Seq(S)
      BY <1>1
    <3>2. Cat(Cat(Cat(p, q), y), t) = Cat(Cat(p, q), Cat(y, t))
      BY <1>1, <3>1
    <3>3. Cat(Cat(p, q), Cat(y, t)) = Cat(p, Cat(q, Cat(y, t)))
      BY <1>1, <3>1
    <3> QED
      BY <3>2, <3>3
  <2> QED
    BY <2>1, <2>2, <2>3
<1>4. Cat(Cat(Cat(p, u), Cat(q, v)), Cat(w, t)) = Cat(p, Cat(u, Cat(q, x)))
  BY <1>1, <1>2
<1>5. CASE u = <<>>
  BY <1>1, <1>3, <1>4, <1>5
<1>6. CASE q = <<>>
  BY <1>1, <1>3, <1>4, <1>6
<1> QED
  BY <1>5, <1>6

\* The same for a piece that moves from the last part to the middle one
LEMMA Shift ==
    \A S : \A p, u, v, w \in Seq(S) :
        Cat(Cat(p, Cat(u, v)), w) = Cat(Cat(p, u), Cat(v, w))
<1> SUFFICES ASSUME NEW S, NEW p \in Seq(S), NEW u \in Seq(S), NEW v \in Seq(S),
                    NEW w \in Seq(S)
             PROVE  Cat(Cat(p, Cat(u, v)), w) = Cat(Cat(p, u), Cat(v, w))
  OBVIOUS
<1>1. /\ \A a, b \in Seq(S) : Cat(a, b) \in Seq(S)
      /\ \A a, b, c \in Seq(S) : Cat(Cat(a, b), c) = Cat(a, Cat(b, c))
  BY CatRules
<1>2. Cat(u, v) \in Seq(S) /\ Cat(v, w) \in Seq(S)
  BY <1>1
<1>3. Cat(Cat(p, Cat(u, v)), w) = Cat(p, Cat(u, Cat(v, w)))
  BY <1>1, <1>2
<1>4. Cat(Cat(p, u), Cat(v, w)) = Cat(p, Cat(u, Cat(v, w)))
  BY <1>1, <1>2
<1> QED
  BY <1>3, <1>4

-----------------------------------------------------------------------------
(* The beginning and the rest of a growing sequence *)

After(s, n) == SubSeq(s, n + 1, Len(s))

\* What is left of a sequence after n elements
LEMMA AfterProperties ==
    ASSUME NEW S, NEW s \in Seq(S), NEW n \in 0..Len(s)
    PROVE  /\ After(s, n) \in Seq(S)
           /\ Len(After(s, n)) = Len(s) - n
           /\ \A i \in 1..(Len(s) - n) : After(s, n)[i] = s[n + i]
<1>1. Len(s) \in Nat /\ \A i \in (n + 1)..Len(s) : s[i] \in S
  BY LenProperties, ElementOfSeq
<1>2. /\ After(s, n) \in Seq(S)
      /\ Len(After(s, n)) = IF n + 1 <= Len(s) THEN Len(s) - (n + 1) + 1 ELSE 0
      /\ \A i \in 1..(Len(s) - (n + 1) + 1) : After(s, n)[i] = s[(n + 1) + i - 1]
  BY <1>1, SubSeqProperties DEF After
<1>3. Len(After(s, n)) = Len(s) - n
  BY <1>1, <1>2
<1>4. ASSUME NEW i \in 1..(Len(s) - n)
      PROVE  After(s, n)[i] = s[n + i]
  <2>1. i \in 1..(Len(s) - (n + 1) + 1) /\ (n + 1) + i - 1 = n + i
    BY <1>1
  <2> QED
    BY <1>2, <2>1
<1> QED
  BY <1>2, <1>3, <1>4

\* It grows at the end with the sequence
LEMMA AfterAppend ==
    ASSUME NEW S, NEW s \in Seq(S), NEW n \in 0..Len(s), NEW e \in S
    PROVE  After(Append(s, e), n) = Append(After(s, n), e)
<1> DEFINE t == Append(s, e)
<1>1. /\ t \in Seq(S) /\ Len(t) = Len(s) + 1 /\ Len(s) \in Nat
      /\ \A i \in 1..Len(s) : t[i] = s[i]
      /\ t[Len(s) + 1] = e
  BY AppendProperties, LenProperties
<1> HIDE DEF t
<1>2. /\ After(s, n) \in Seq(S) /\ Len(After(s, n)) = Len(s) - n
      /\ \A i \in 1..(Len(s) - n) : After(s, n)[i] = s[n + i]
  BY AfterProperties
<1>3. n \in 0..Len(t)
  BY <1>1
<1>4. /\ After(t, n) \in Seq(S) /\ Len(After(t, n)) = Len(t) - n
      /\ \A i \in 1..(Len(t) - n) : After(t, n)[i] = t[n + i]
  BY <1>1, <1>3, AfterProperties
<1> DEFINE a == After(s, n)
<1> HIDE DEF a
<1>5. /\ Append(a, e) \in Seq(S) /\ Len(Append(a, e)) = Len(a) + 1
      /\ \A i \in 1..Len(a) : Append(a, e)[i] = a[i]
      /\ Append(a, e)[Len(a) + 1] = e
  BY <1>2, AppendProperties DEF a
<1>6. \A i \in 1..Len(After(t, n)) : After(t, n)[i] = Append(a, e)[i]
  <2> TAKE i \in 1..Len(After(t, n))
  <2>1. i \in 1..(Len(t) - n) /\ Len(a) = Len(s) - n
    BY <1>2, <1>4 DEF a
  <2>2. CASE i = Len(s) - n + 1
    BY <1>1, <1>4, <1>5, <2>1, <2>2
  <2>3. CASE i # Len(s) - n + 1
    <3>1. i \in 1..(Len(s) - n) /\ n + i \in 1..Len(s)
      BY <1>1, <2>1, <2>3
    <3>2. After(t, n)[i] = s[n + i]
      BY <1>1, <1>4, <2>1, <3>1
    <3>3. Append(a, e)[i] = s[n + i]
      BY <1>2, <1>5, <2>1, <3>1 DEF a
    <3> QED
      BY <3>2, <3>3
  <2> QED
    BY <2>2, <2>3
<1>7. Len(After(t, n)) = Len(Append(a, e))
  BY <1>1, <1>2, <1>4, <1>5 DEF a
<1>8. After(t, n) = Append(a, e)
  BY <1>4, <1>5, <1>6, <1>7, SeqEqual
<1> QED
  BY <1>8 DEF a, t

\* One element further, it loses its head
LEMMA AfterNext ==
    ASSUME NEW S, NEW s \in Seq(S), NEW n \in Nat, n < Len(s)
    PROVE  /\ After(s, n) # <<>>
           /\ Head(After(s, n)) = s[n + 1]
           /\ Tail(After(s, n)) = After(s, n + 1)
<1>1. n + 1 \in 1..Len(s) /\ Len(s) \in (n + 1)..Len(s) /\ n \in 0..Len(s)
  BY LenProperties
<1>2. Head(After(s, n)) = s[n + 1] /\ Tail(After(s, n)) = After(s, n + 1)
  BY <1>1, HeadTailOfSubSeq DEF After
<1>3. Len(After(s, n)) = Len(s) - n
  BY <1>1, AfterProperties
<1>4. After(s, n) # <<>>
  BY <1>1, <1>3, EmptySeq
<1> QED
  BY <1>2, <1>4

\* The beginning of a sequence stays when the sequence grows, and grows with
\* the element that follows it
LEMMA PrefixAppend ==
    ASSUME NEW S, NEW s \in Seq(S), NEW n \in 0..Len(s), NEW e \in S
    PROVE  SubSeq(Append(s, e), 1, n) = SubSeq(s, 1, n)
<1>1. Len(s) \in Nat /\ n \in Nat
  BY LenProperties
<1>2. /\ Append(s, e) \in Seq(S) /\ Len(Append(s, e)) = Len(s) + 1
      /\ \A i \in 1..Len(s) : Append(s, e)[i] = s[i]
  BY AppendProperties
<1> DEFINE t == Append(s, e)
<1> HIDE DEF t
<1>3. /\ SubSeq(s, 1, n) \in Seq(S) /\ Len(SubSeq(s, 1, n)) = n
      /\ \A i \in 1..n : SubSeq(s, 1, n)[i] = s[i]
  BY <1>1, SubSeqProperties, ElementOfSeq
<1>4. /\ SubSeq(t, 1, n) \in Seq(S) /\ Len(SubSeq(t, 1, n)) = n
      /\ \A i \in 1..n : SubSeq(t, 1, n)[i] = t[i]
  <2>1. \A i \in 1..n : t[i] \in S
    BY <1>1, <1>2, ElementOfSeq DEF t
  <2> QED
    BY <1>1, <2>1, SubSeqProperties
<1>5. SubSeq(t, 1, n) = SubSeq(s, 1, n)
  BY <1>1, <1>2, <1>3, <1>4, SeqEqual DEF t
<1> QED
  BY <1>5 DEF t

\* One element longer
LEMMA PrefixNext ==
    ASSUME NEW S, NEW s \in Seq(S), NEW n \in Nat, n < Len(s)
    PROVE  Append(SubSeq(s, 1, n), s[n + 1]) = SubSeq(s, 1, n + 1)
<1>1. Len(s) \in Nat /\ s[n + 1] \in S
  BY LenProperties, ElementOfSeq
<1>2. SubSeq(s, 1, n) \in Seq(S)
  BY <1>1, SubSeqProperties, ElementOfSeq
<1>3. Append(SubSeq(s, 1, n), s[n + 1]) = SubSeq(s, 1, n) \o <<s[n + 1]>>
  BY <1>1, <1>2, AppendIsConcat
<1>4. SubSeq(s, 1, n + 1) = SubSeq(s, 1, (n + 1) - 1) \o <<s[n + 1]>>
  <2>1. 1 \in 1..Len(s) /\ n + 1 \in 1..Len(s)
    BY <1>1
  <2> QED
    BY <2>1, SubSeqRecursiveSecond
<1>5. (n + 1) - 1 = n
  OBVIOUS
<1> QED
  BY <1>3, <1>4, <1>5

-----------------------------------------------------------------------------
(* FlattenSeq *)

\* f[i] is the concatenation of the first i elements of ss
IsFlatten(f, ss) ==
    f = [i \in 1..Len(ss) |-> IF i = 1 THEN ss[i] ELSE f[i - 1] \o ss[i]]

\* The recursion of FlattenSeq has a solution
LEMMA FlattenExists ==
    ASSUME NEW ss, Len(ss) \in Nat
    PROVE  \E f : IsFlatten(f, ss)
<1> DEFINE Upto(f, n) ==
               f = [i \in 1..n |-> IF i = 1 THEN ss[i] ELSE f[i - 1] \o ss[i]]
           S == {n \in Nat : \E f : Upto(f, n)}
<1>1. 0 \in S
  <2>1. Upto([i \in 1..0 |-> 0], 0)
    OBVIOUS
  <2> QED
    BY <2>1
<1>2. ASSUME NEW n \in Nat, n \in S
      PROVE  n + 1 \in S
  <2>1. PICK f : Upto(f, n)
    BY <1>2
  <2> DEFINE e == IF n + 1 = 1 THEN ss[n + 1] ELSE f[n] \o ss[n + 1]
             g == [i \in 1..(n + 1) |-> IF i = n + 1 THEN e ELSE f[i]]
  <2>2. ASSUME NEW i \in 1..(n + 1)
        PROVE  g[i] = IF i = 1 THEN ss[i] ELSE g[i - 1] \o ss[i]
    <3>1. CASE i = n + 1
      <4>1. g[i] = e
        BY <3>1
      <4>2. i # 1 => g[i - 1] = f[n]
        BY <3>1
      <4> QED
        BY <3>1, <4>1, <4>2
    <3>2. CASE i # n + 1
      <4>1. i \in 1..n /\ g[i] = f[i]
        BY <3>2
      <4>2. f[i] = IF i = 1 THEN ss[i] ELSE f[i - 1] \o ss[i]
        BY <2>1, <4>1
      <4>3. i # 1 => i - 1 \in 1..(n + 1) /\ i - 1 # n + 1
        BY <4>1
      <4>4. i # 1 => g[i - 1] = f[i - 1]
        BY <4>3
      <4> QED
        BY <4>1, <4>2, <4>4
    <3> QED
      BY <3>1, <3>2
  <2>3. g = [i \in 1..(n + 1) |-> g[i]]
    OBVIOUS
  <2> HIDE DEF g
  <2>4. Upto(g, n + 1)
    BY <2>2, <2>3
  <2> HIDE DEF Upto
  <2>5. \E h : Upto(h, n + 1)
    BY <2>4
  <2> QED
    BY <2>5
<1> HIDE DEF S
<1>3. Nat \subseteq S
  BY <1>1, <1>2, SetInduction
<1> QED
  BY <1>3 DEF S, IsFlatten

\* FlattenSeq is the last value of such a solution
LEMMA FlattenUnfold ==
    ASSUME NEW S, NEW ss \in Seq(S), ss # <<>>
    PROVE  \E f : IsFlatten(f, ss) /\ FlattenSeq(ss) = f[Len(ss)]
<1> DEFINE f == CHOOSE g : IsFlatten(g, ss)
<1>1. Len(ss) \in Nat /\ Len(ss) # 0
  BY LenProperties, EmptySeq
<1>2. IsFlatten(f, ss)
  BY <1>1, FlattenExists
<1>3. FlattenSeq(ss) = f[Len(ss)]
  BY <1>1 DEF FlattenSeq, IsFlatten
<1> QED
  BY <1>2, <1>3

\* The values of a solution are sequences over the same set
LEMMA FlattenType ==
    ASSUME NEW S, NEW ss \in Seq(Seq(S)), NEW f, IsFlatten(f, ss)
    PROVE  \A i \in 1..Len(ss) : f[i] \in Seq(S)
<1> DEFINE T == {n \in Nat : n \in 1..Len(ss) => f[n] \in Seq(S)}
<1>1. Len(ss) \in Nat /\ \A i \in 1..Len(ss) : ss[i] \in Seq(S)
  BY LenProperties, ElementOfSeq
<1>2. \A i \in 1..Len(ss) : f[i] = IF i = 1 THEN ss[i] ELSE f[i - 1] \o ss[i]
  BY DEF IsFlatten
<1>3. 0 \in T
  OBVIOUS
<1>4. ASSUME NEW n \in Nat, n \in T
      PROVE  n + 1 \in T
  <2> SUFFICES ASSUME n + 1 \in 1..Len(ss)
               PROVE  f[n + 1] \in Seq(S)
    OBVIOUS
  <2>1. CASE n = 0
    BY <1>1, <1>2, <2>1
  <2>2. CASE n # 0
    <3>1. n \in 1..Len(ss) /\ (n + 1) - 1 = n /\ n + 1 # 1
      BY <1>1, <2>2
    <3>2. f[n] \in Seq(S) /\ ss[n + 1] \in Seq(S)
      BY <1>1, <1>4, <3>1
    <3>3. f[n + 1] = f[n] \o ss[n + 1]
      BY <1>2, <3>1
    <3> QED
      BY <3>2, <3>3, ConcatProperties
  <2> QED
    BY <2>1, <2>2
<1> HIDE DEF T
<1>5. Nat \subseteq T
  BY <1>3, <1>4, SetInduction
<1> QED
  BY <1>1, <1>5 DEF T

\* Flattening nothing, and the type of what is flattened
LEMMA FlattenEmpty == FlattenSeq(<<>>) = <<>>
<1>1. Len(<<>>) = 0
  OBVIOUS
<1> QED
  BY <1>1 DEF FlattenSeq

\* What is flattened is a sequence over the same set
LEMMA FlattenIsSeq ==
    ASSUME NEW S, NEW ss \in Seq(Seq(S))
    PROVE  FlattenSeq(ss) \in Seq(S)
<1>1. CASE ss = <<>>
  BY <1>1, FlattenEmpty, EmptySeq
<1>2. CASE ss # <<>>
  <2>1. PICK f : IsFlatten(f, ss) /\ FlattenSeq(ss) = f[Len(ss)]
    BY <1>2, FlattenUnfold
  <2>2. Len(ss) \in 1..Len(ss)
    BY <1>2, EmptySeq, LenProperties
  <2> QED
    BY <2>1, <2>2, FlattenType
<1> QED
  BY <1>1, <1>2

\* Another element at the end is another piece at the end
LEMMA FlattenAppend ==
    ASSUME NEW S, NEW ss \in Seq(Seq(S)), NEW x \in Seq(S)
    PROVE  FlattenSeq(Append(ss, x)) = FlattenSeq(ss) \o x
<1> DEFINE tt == Append(ss, x)
           n == Len(ss)
<1>1. /\ tt \in Seq(Seq(S)) /\ tt # <<>> /\ n \in Nat
      /\ Len(tt) = n + 1
      /\ \A i \in 1..n : tt[i] = ss[i]
      /\ tt[n + 1] = x
  BY AppendProperties, LenProperties
<1> HIDE DEF tt
<1>2. PICK g : IsFlatten(g, tt) /\ FlattenSeq(tt) = g[n + 1]
  BY <1>1, FlattenUnfold
<1>3. \A i \in 1..(n + 1) : g[i] = IF i = 1 THEN tt[i] ELSE g[i - 1] \o tt[i]
  BY <1>1, <1>2 DEF IsFlatten
<1>4. CASE ss = <<>>
  <2>1. n = 0
    BY <1>4, EmptySeq
  <2>2. g[n + 1] = x
    BY <1>1, <1>3, <2>1
  <2>3. FlattenSeq(ss) = <<>>
    BY <1>4, FlattenEmpty
  <2> QED
    BY <1>2, <2>2, <2>3, ConcatEmptySeq DEF tt
<1>5. CASE ss # <<>>
  <2>1. PICK f : IsFlatten(f, ss) /\ FlattenSeq(ss) = f[n]
    BY <1>5, FlattenUnfold
  <2>2. \A i \in 1..n : f[i] = IF i = 1 THEN ss[i] ELSE f[i - 1] \o ss[i]
    BY <2>1 DEF IsFlatten
  <2> DEFINE T == {i \in Nat : i \in 1..n => g[i] = f[i]}
  <2>3. 0 \in T
    OBVIOUS
  <2>4. ASSUME NEW i \in Nat, i \in T
        PROVE  i + 1 \in T
    <3> SUFFICES ASSUME i + 1 \in 1..n
                 PROVE  g[i + 1] = f[i + 1]
      OBVIOUS
    <3>1. i + 1 \in 1..(n + 1) /\ tt[i + 1] = ss[i + 1] /\ (i + 1) - 1 = i
      BY <1>1
    <3>2. CASE i = 0
      BY <1>3, <2>2, <3>1, <3>2
    <3>3. CASE i # 0
      <4>1. i \in 1..n /\ i + 1 # 1
        BY <1>1, <3>3
      <4>2. g[i] = f[i]
        BY <2>4, <4>1
      <4>3. g[i + 1] = g[i] \o tt[i + 1]
        BY <1>3, <3>1, <4>1
      <4>4. f[i + 1] = f[i] \o ss[i + 1]
        BY <2>2, <3>1, <4>1
      <4> QED
        BY <3>1, <4>2, <4>3, <4>4
    <3> QED
      BY <3>2, <3>3
  <2> HIDE DEF T
  <2>5. Nat \subseteq T
    BY <2>3, <2>4, SetInduction
  <2>6. n # 0
    BY <1>5, EmptySeq
  <2>7. g[n] = f[n]
    BY <1>1, <2>5, <2>6 DEF T
  <2>8. g[n + 1] = g[n] \o x
    <3>1. n + 1 \in 1..(n + 1) /\ n + 1 # 1 /\ (n + 1) - 1 = n
      BY <1>1, <2>6
    <3>2. g[n + 1] = g[n] \o tt[n + 1]
      BY <1>3, <3>1
    <3> QED
      BY <1>1, <3>2
  <2> QED
    BY <1>2, <2>1, <2>7, <2>8 DEF tt
<1> QED
  BY <1>4, <1>5

\* The first element is the first piece
LEMMA FlattenHead ==
    ASSUME NEW S, NEW ss \in Seq(Seq(S)), ss # <<>>
    PROVE  FlattenSeq(ss) = Head(ss) \o FlattenSeq(Tail(ss))
<1> DEFINE tt == Tail(ss)
           x == Head(ss)
           n == Len(tt)
<1>1. /\ x \in Seq(S) /\ tt \in Seq(Seq(S))
      /\ n \in Nat /\ Len(ss) = n + 1
      /\ \A i \in 1..n : tt[i] = ss[i + 1]
      /\ ss[1] = x
  BY HeadTailProperties, LenProperties
<1>2. \A i \in 1..(n + 1) : ss[i] \in Seq(S)
  BY <1>1, ElementOfSeq
<1> HIDE DEF tt, x
<1>3. PICK g : IsFlatten(g, ss) /\ FlattenSeq(ss) = g[n + 1]
  BY <1>1, FlattenUnfold
<1>4. \A i \in 1..(n + 1) : g[i] = IF i = 1 THEN ss[i] ELSE g[i - 1] \o ss[i]
  BY <1>1, <1>3 DEF IsFlatten
<1>5. CASE tt = <<>>
  <2>1. n = 0
    BY <1>5, EmptySeq
  <2>2. g[n + 1] = x
    BY <1>1, <1>4, <2>1
  <2>3. FlattenSeq(tt) = <<>>
    BY <1>5, FlattenEmpty
  <2> QED
    BY <1>1, <1>3, <2>2, <2>3, ConcatEmptySeq DEF tt, x
<1>6. CASE tt # <<>>
  <2>1. PICK f : IsFlatten(f, tt) /\ FlattenSeq(tt) = f[n]
    BY <1>1, <1>6, FlattenUnfold
  <2>2. \A i \in 1..n : f[i] = IF i = 1 THEN tt[i] ELSE f[i - 1] \o tt[i]
    BY <2>1 DEF IsFlatten
  <2>3. \A i \in 1..n : f[i] \in Seq(S)
    BY <1>1, <2>1, FlattenType
  <2> DEFINE T == {i \in Nat : i \in 1..n => g[i + 1] = x \o f[i]}
  <2>4. 0 \in T
    OBVIOUS
  <2>5. ASSUME NEW i \in Nat, i \in T
        PROVE  i + 1 \in T
    <3> SUFFICES ASSUME i + 1 \in 1..n
                 PROVE  g[(i + 1) + 1] = x \o f[i + 1]
      OBVIOUS
    <3>1. /\ (i + 1) + 1 \in 1..(n + 1) /\ (i + 1) + 1 # 1
          /\ ((i + 1) + 1) - 1 = i + 1 /\ (i + 1) - 1 = i
          /\ tt[i + 1] = ss[(i + 1) + 1] /\ tt[i + 1] \in Seq(S)
      BY <1>1, <1>2
    <3>2. g[(i + 1) + 1] = g[i + 1] \o tt[i + 1]
      BY <1>4, <3>1
    <3>3. CASE i = 0
      <4>1. g[i + 1] = x /\ f[i + 1] = tt[i + 1]
        BY <1>1, <1>4, <2>2, <3>3
      <4> QED
        BY <3>2, <4>1
    <3>4. CASE i # 0
      <4>1. i \in 1..n /\ i + 1 # 1
        BY <1>1, <3>4
      <4>2. g[i + 1] = x \o f[i] /\ f[i] \in Seq(S)
        BY <2>3, <2>5, <4>1
      <4>3. f[i + 1] = f[i] \o tt[i + 1]
        BY <2>2, <3>1, <4>1
      <4>4. (x \o f[i]) \o tt[i + 1] = x \o (f[i] \o tt[i + 1])
        <5> DEFINE y == f[i]
                   z == tt[i + 1]
        <5>1. x \in Seq(S) /\ y \in Seq(S) /\ z \in Seq(S)
          BY <1>1, <3>1, <4>2
        <5> HIDE DEF y, z
        <5>2. (x \o y) \o z = x \o (y \o z)
          BY <5>1, Associative
        <5> QED
          BY <5>2 DEF y, z
      <4> QED
        BY <3>2, <4>2, <4>3, <4>4
    <3> QED
      BY <3>3, <3>4
  <2> HIDE DEF T
  <2>6. Nat \subseteq T
    BY <2>4, <2>5, SetInduction
  <2>7. n \in 1..n
    BY <1>1, <1>6, EmptySeq
  <2>8. g[n + 1] = x \o f[n]
    BY <1>1, <2>6, <2>7 DEF T
  <2> QED
    BY <1>3, <2>1, <2>8 DEF tt, x
<1> QED
  BY <1>5, <1>6

-----------------------------------------------------------------------------
(* Searches, and sequences whatever their elements are *)

\* A set of naturals that is not empty has a least element
LEMMA MinIsIn ==
    \A S : S \subseteq Nat /\ S # {} => Min(S) \in S
<1> SUFFICES ASSUME NEW S, S \subseteq Nat, S # {}
             PROVE  Min(S) \in S
  OBVIOUS
<1> DEFINE R == OpToRel(<, Nat)
<1>1. IsWellFoundedOn(R, Nat)
  BY NatLessThanWellFounded
<1>2. \A x, y \in Nat : y < x => <<y, x>> \in R
  BY DEF OpToRel
<1> HIDE DEF R
<1>3. PICK x \in S : \A y \in S : ~(<<y, x>> \in R)
  BY <1>1, WFMin
<1>4. \A y \in S : x =< y
  <2> SUFFICES ASSUME NEW y \in S
               PROVE  x =< y
    OBVIOUS
  <2>1. x \in Nat /\ y \in Nat
    OBVIOUS
  <2>2. ~(y < x)
    BY <1>2, <1>3, <2>1
  <2> QED
    BY <2>1, <2>2
<1>5. \E z \in S : \A y \in S : z =< y
  BY <1>4
<1> QED
  BY <1>5 DEF Min

\* The greatest of the first n numbers is n, if it is among those in question
LEMMA MaxIs ==
    \A n \in Nat : \A t : t \subseteq 1..n /\ n \in t => Max(t) = n
<1> SUFFICES ASSUME NEW n \in Nat, NEW t, t \subseteq 1..n, n \in t
             PROVE  Max(t) = n
  OBVIOUS
<1> DEFINE m == Max(t)
<1>1. n \in t /\ \A y \in t : n >= y
  OBVIOUS
<1>2. m \in t /\ \A y \in t : m >= y
  BY <1>1 DEF Max
<1> HIDE DEF m
<1>3. m = n
  BY <1>1, <1>2
<1> QED
  BY <1>3 DEF m

IsSeq(q) == q \in Seq(Range(q))

\* Every sequence is one of its elements
LEMMA SeqIsSeq == \A S : \A q \in Seq(S) : IsSeq(q)
<1> SUFFICES ASSUME NEW S, NEW q \in Seq(S)
             PROVE  q \in Seq(Range(q))
  BY DEF IsSeq
<1>1. Len(q) \in Nat /\ q \in [1..Len(q) -> S] /\ DOMAIN q = 1..Len(q)
  BY LenProperties
<1>2. q \in [1..Len(q) -> Range(q)]
  BY <1>1 DEF Range
<1> QED
  BY <1>1, <1>2, SeqDef, Zenon

\* Where its elements are
LEMMA SeqElements ==
    \A q : IsSeq(q) => /\ Len(q) \in Nat /\ DOMAIN q = 1..Len(q)
                       /\ \A i \in DOMAIN q : q[i] \in Range(q)
                       /\ \A e \in Range(q) : \E i \in DOMAIN q : q[i] = e
BY LenProperties DEF IsSeq, Range

\* The empty sequence is one
LEMMA EmptyIsSeq == IsSeq(<<>>) /\ Range(<<>>) = {}
<1>1. <<>> \in Seq({})
  BY EmptySeq
<1>2. DOMAIN <<>> = {}
  OBVIOUS
<1> QED
  BY <1>1, <1>2, SeqIsSeq DEF Range

\* One element more at the end
LEMMA SeqAppend ==
    \A q, e : IsSeq(q) =>
        /\ IsSeq(Append(q, e))
        /\ Len(Append(q, e)) = Len(q) + 1
        /\ \A i \in 1..Len(q) : Append(q, e)[i] = q[i]
        /\ Append(q, e)[Len(q) + 1] = e
        /\ \A f \in Range(Append(q, e)) : f = e \/ f \in Range(q)
<1> SUFFICES ASSUME NEW q, NEW e, IsSeq(q)
             PROVE  /\ IsSeq(Append(q, e))
                    /\ Len(Append(q, e)) = Len(q) + 1
                    /\ \A i \in 1..Len(q) : Append(q, e)[i] = q[i]
                    /\ Append(q, e)[Len(q) + 1] = e
                    /\ \A f \in Range(Append(q, e)) : f = e \/ f \in Range(q)
  OBVIOUS
<1> DEFINE S == Range(q) \cup {e}
<1>1. q \in Seq(S) /\ e \in S
  BY SeqMonotonic DEF IsSeq
<1> HIDE DEF S
<1>2. /\ Append(q, e) \in Seq(S)
      /\ Len(Append(q, e)) = Len(q) + 1
      /\ \A i \in 1..Len(q) : Append(q, e)[i] = q[i]
      /\ Append(q, e)[Len(q) + 1] = e
  BY <1>1, AppendProperties
<1>3. Len(q) \in Nat /\ \A i \in 1..Len(q) : q[i] \in Range(q)
  BY SeqElements
<1>4. DOMAIN Append(q, e) = 1..(Len(q) + 1)
  BY <1>2, LenProperties
<1>5. \A f \in Range(Append(q, e)) : f = e \/ f \in Range(q)
  <2> SUFFICES ASSUME NEW i \in 1..(Len(q) + 1)
               PROVE  Append(q, e)[i] = e \/ Append(q, e)[i] \in Range(q)
    BY <1>4 DEF Range
  <2>1. i \in 1..Len(q) \/ i = Len(q) + 1
    BY <1>3
  <2> QED
    BY <1>2, <1>3, <2>1
<1> QED
  BY <1>2, <1>5, SeqIsSeq

\* One less at the front
LEMMA SeqTail ==
    \A q : IsSeq(q) /\ q # <<>> =>
        /\ Head(q) = q[1] /\ 1 \in DOMAIN q
        /\ IsSeq(Tail(q))
        /\ Len(Tail(q)) = Len(q) - 1
        /\ \A i \in DOMAIN Tail(q) : i + 1 \in DOMAIN q /\ Tail(q)[i] = q[i + 1]
        /\ Range(Tail(q)) \subseteq Range(q)
<1> SUFFICES ASSUME NEW q, IsSeq(q), q # <<>>
             PROVE  /\ Head(q) = q[1] /\ 1 \in DOMAIN q
                    /\ IsSeq(Tail(q))
                    /\ Len(Tail(q)) = Len(q) - 1
                    /\ \A i \in DOMAIN Tail(q) :
                           i + 1 \in DOMAIN q /\ Tail(q)[i] = q[i + 1]
                    /\ Range(Tail(q)) \subseteq Range(q)
  OBVIOUS
<1>1. q \in Seq(Range(q))
  BY DEF IsSeq
<1>2. Len(q) \in Nat \ {0} /\ DOMAIN q = 1..Len(q)
  BY <1>1, EmptySeq, LenProperties
<1>3. /\ Tail(q) \in Seq(Range(q))
      /\ Len(Tail(q)) = Len(q) - 1
      /\ \A i \in 1..Len(Tail(q)) : Tail(q)[i] = q[i + 1]
  BY <1>1, HeadTailProperties
<1>4. DOMAIN Tail(q) = 1..Len(Tail(q))
  BY <1>3, LenProperties
<1>5. Head(q) = q[1]
  BY <1>1
<1>6. \A i \in DOMAIN Tail(q) : i + 1 \in DOMAIN q /\ Tail(q)[i] = q[i + 1]
  BY <1>2, <1>3, <1>4
<1>7. Range(Tail(q)) \subseteq Range(q)
  BY <1>6 DEF Range
<1>8. IsSeq(Tail(q))
  BY <1>3, SeqIsSeq
<1> QED
  BY <1>2, <1>3, <1>5, <1>6, <1>7, <1>8

\* One replaced
LEMMA SeqUpdate ==
    \A q : IsSeq(q) => \A k, e : IsSeq([q EXCEPT ![k] = e])
<1> SUFFICES ASSUME NEW q, IsSeq(q), NEW k, NEW e
             PROVE  IsSeq([q EXCEPT ![k] = e])
  OBVIOUS
<1> DEFINE S == Range(q) \cup {e}
           r == [q EXCEPT ![k] = e]
<1>1. Len(q) \in Nat /\ DOMAIN q = 1..Len(q) /\ \A i \in 1..Len(q) : q[i] \in S
  BY SeqElements
<1>2. r \in [1..Len(q) -> S]
  BY <1>1
<1> HIDE DEF r, S
<1>3. r \in Seq(S)
  <2>1. Len(q) \in Nat
    BY <1>1
  <2> QED
    BY <1>2, <2>1, SeqDef, Zenon
<1> QED
  BY <1>3, SeqIsSeq DEF r
=============================================================================
