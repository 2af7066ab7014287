---------------------------- MODULE BasicLemmas ----------------------------
(***************************************************************************)
(* Facts about sets of numbers and about sequences that the proofs of      *)
(* several components rest on.                                             *)
(***************************************************************************)
EXTENDS Integers, SequencesExt, SequenceTheorems, WellFoundedInduction, TLAPS

-----------------------------------------------------------------------------
(* Sets of numbers have a least element, bounded ones a greatest.          *)

\* A set of numbers has a least one.
LEMMA HasLeast ==
  ASSUME NEW S \in SUBSET Nat, S # {}
  PROVE  \E x \in S : \A y \in S : x <= y
<1> DEFINE R == {s \in Nat \X Nat : s[1] < s[2]}
<1>1. IsWellFoundedOn(R, Nat)
  BY NatLessThanWellFounded DEF OpToRel
<1>2. \E x \in S : \A y \in S : <<y, x>> \notin R
  <2> HIDE DEF R
  <2> QED
    BY <1>1, WFMin
<1>3. \A x, y \in S : <<y, x>> \notin R => x <= y
  <2> TAKE x, y \in S
  <2>1. x \in Nat /\ y \in Nat
    OBVIOUS
  <2> QED
    BY <2>1
<1> QED
  BY <1>2, <1>3

\* Min is that one.
LEMMA MinIsLeast ==
  ASSUME NEW S \in SUBSET Nat, S # {}
  PROVE  Min(S) \in S /\ \A y \in S : Min(S) <= y
BY HasLeast DEF Min

\* A bounded set of numbers has a greatest one, and Max is that one.
LEMMA MaxIsMember ==
  ASSUME NEW n \in Nat, NEW S \in SUBSET (1 .. n), S # {}
  PROVE  Max(S) \in S
<1> DEFINE Below == {n - x : x \in S}
<1>1. Below \in SUBSET Nat /\ Below # {}
  <2>1. \A x \in S : x \in Int /\ x <= n
    OBVIOUS
  <2>2. \A x \in S : n - x \in Nat
    BY <2>1
  <2> QED
    BY <2>2
<1>2. PICK b \in Below : \A c \in Below : b <= c
  BY <1>1, HasLeast
<1>3. PICK x \in S : b = n - x
  BY <1>2
<1>4. \A y \in S : x >= y
  <2> TAKE y \in S
  <2>1. n - x <= n - y
    BY <1>2, <1>3
  <2> QED
    BY <2>1
<1> QED
  BY <1>3, <1>4 DEF Max

\* A set that holds 0, and each number's successor, holds all.
LEMMA Induct ==
  ASSUME NEW S, 0 \in S, \A n \in Nat : n \in S => n + 1 \in S
  PROVE  \A n \in Nat : n \in S
<1> DEFINE wrong == {n \in Nat : n \notin S}
<1> SUFFICES ASSUME wrong # {} PROVE FALSE
  OBVIOUS
<1>1. PICK m \in wrong : \A k \in wrong : m <= k
  <2>1. wrong \in SUBSET Nat
    OBVIOUS
  <2> HIDE DEF wrong
  <2> QED
    BY <2>1, HasLeast
<1>2. m \in Nat /\ m \notin S
  BY <1>1
<1>3. m # 0
  BY <1>2
<1>4. m - 1 \in Nat /\ (m - 1) + 1 = m /\ ~(m <= m - 1)
  BY <1>2, <1>3
<1>5. m - 1 \in S
  BY <1>1, <1>4
<1> QED
  BY <1>2, <1>4, <1>5

-----------------------------------------------------------------------------
(* Sequences of whatever they are made of.                                 *)

Listed(s) == s \in Seq(Range(s))

\* A sequence of elements of a set is one of its own elements.
LEMMA ListedSeq ==
  ASSUME NEW S, NEW s \in Seq(S)
  PROVE  Listed(s)
BY RangeOfSeq, SeqOfRange DEF Listed

\* A sequence with an element put behind it.
LEMMA ListedAppend ==
  ASSUME NEW s, Listed(s), NEW x
  PROVE  /\ Listed(Append(s, x)) /\ Append(s, x) # <<>>
         /\ Len(s) \in Nat /\ Len(Append(s, x)) = Len(s) + 1
         /\ Last(Append(s, x)) = x
         /\ Append(s, x)[Len(s) + 1] = x
         /\ \A i \in 1 .. Len(s) : Append(s, x)[i] = s[i]
<1> DEFINE S == Range(s) \cup {x}
<1>1. s \in Seq(S) /\ x \in S
  BY DEF Listed
<1> HIDE DEF S
<1>2. Append(s, x) \in Seq(S)
  BY <1>1
<1>3. Listed(Append(s, x))
  BY <1>2, ListedSeq
<1> QED
  BY <1>1, <1>3 DEF Last

\* The first n elements of a sequence.
LEMMA ListedSubSeq ==
  ASSUME NEW s, Listed(s), NEW n \in 0 .. Len(s)
  PROVE  /\ Listed(SubSeq(s, 1, n)) /\ Len(SubSeq(s, 1, n)) = n
         /\ \A i \in 1 .. n : SubSeq(s, 1, n)[i] = s[i]
<1>1. SubSeq(s, 1, n) \in Seq(Range(s))
  BY DEF Listed
<1>2. Listed(SubSeq(s, 1, n))
  BY <1>1, ListedSeq
<1> QED
  BY <1>2 DEF Listed

\* The empty sequence.
LEMMA NothingListed == Listed(<<>>) /\ Len(<<>>) = 0
<1>1. <<>> \in Seq({})
  OBVIOUS
<1> QED
  BY <1>1, ListedSeq

\* All but the last element, and the last one.
LEMMA AppendOfFront ==
  ASSUME NEW s, Listed(s), Len(s) # 0
  PROVE  Listed(SubSeq(s, 1, Len(s) - 1)) /\ s = Append(SubSeq(s, 1, Len(s) - 1), Last(s))
<1>1. PICK n \in Nat : n = Len(s)
  BY ListedAppend
<1>2. n - 1 \in 0 .. Len(s)
  BY <1>1
<1>3. PICK f : f = SubSeq(s, 1, n - 1)
  OBVIOUS
<1>4. Listed(f) /\ Len(f) = n - 1 /\ \A i \in 1 .. n - 1 : f[i] = s[i]
  BY <1>2, <1>3, ListedSubSeq
<1>5. PICK l : l = Last(s)
  OBVIOUS
<1>6. PICK a : a = Append(f, l)
  OBVIOUS
<1>7. /\ Listed(a) /\ Len(a) = (n - 1) + 1 /\ a[(n - 1) + 1] = l
      /\ \A i \in 1 .. n - 1 : a[i] = f[i]
  BY ONLY <1>4, <1>6, ListedAppend
<1>8. (n - 1) + 1 = n /\ l = s[n]
  BY <1>1, <1>5 DEF Last
<1>9. ASSUME NEW i \in 1 .. n PROVE a[i] = s[i]
  <2>1. i = n \/ i \in 1 .. n - 1
    OBVIOUS
  <2> QED
    BY ONLY <1>4, <1>7, <1>8, <2>1
<1>10. a = s
  <2>1. a \in Seq(Range(a)) /\ s \in Seq(Range(s))
    BY <1>7 DEF Listed
  <2>2. a = [i \in 1 .. n |-> a[i]] /\ s = [i \in 1 .. n |-> s[i]]
    BY ONLY <1>1, <1>7, <1>8, <2>1
  <2> QED
    BY ONLY <1>9, <2>2
<1> QED
  BY ONLY <1>1, <1>3, <1>4, <1>5, <1>6, <1>10

\* One after the other, two sequences are one.
LEMMA ListedConcat ==
  ASSUME NEW s, Listed(s), NEW t, Listed(t)
  PROVE  /\ Listed(s \o t) /\ Len(s) \in Nat /\ Len(t) \in Nat
         /\ Len(s \o t) = Len(s) + Len(t)
         /\ \A i \in 1 .. Len(s) + Len(t) :
              (s \o t)[i] = IF i <= Len(s) THEN s[i] ELSE t[i - Len(s)]
         /\ s = <<>> => s \o t = t
         /\ t = <<>> => s \o t = s
         /\ s # <<>> => s \o t # <<>>
<1> DEFINE S == Range(s) \cup Range(t)
<1>1. s \in Seq(S) /\ t \in Seq(S)
  <2>1. s \in Seq(Range(s)) /\ t \in Seq(Range(t))
    BY DEF Listed
  <2>2. Range(s) \subseteq S /\ Range(t) \subseteq S
    OBVIOUS
  <2> HIDE DEF S
  <2> QED
    BY ONLY <2>1, <2>2, SeqMonotonic
<1> HIDE DEF S
<1>2. /\ s \o t \in Seq(S) /\ Len(s) \in Nat /\ Len(t) \in Nat
      /\ Len(s \o t) = Len(s) + Len(t)
      /\ \A i \in 1 .. Len(s) + Len(t) :
           (s \o t)[i] = IF i <= Len(s) THEN s[i] ELSE t[i - Len(s)]
  BY <1>1, ConcatProperties, LenProperties
<1>3. Listed(s \o t)
  BY <1>2, ListedSeq
<1>4. (s = <<>> => s \o t = t) /\ (t = <<>> => s \o t = s)
  BY <1>1, ConcatEmptySeq
<1>5. s # <<>> => s \o t # <<>>
  <2> SUFFICES ASSUME s # <<>>, s \o t = <<>> PROVE FALSE
    OBVIOUS
  <2>1. Len(s) # 0
    BY ONLY <1>1, s # <<>>, EmptySeq
  <2>2. Len(s) + Len(t) = 0
    BY <1>2, EmptySeq
  <2> QED
    BY ONLY <1>2, <2>1, <2>2
<1> QED
  BY <1>2, <1>3, <1>4, <1>5

\* It does not matter which two are put together first.
LEMMA ListedAssociative ==
  ASSUME NEW s, Listed(s), NEW t, Listed(t), NEW u, Listed(u)
  PROVE  (s \o t) \o u = s \o (t \o u)
<1> DEFINE S == Range(s) \cup Range(t) \cup Range(u)
<1>1. s \in Seq(S) /\ t \in Seq(S) /\ u \in Seq(S)
  <2>1. s \in Seq(Range(s)) /\ t \in Seq(Range(t)) /\ u \in Seq(Range(u))
    BY DEF Listed
  <2>2. Range(s) \subseteq S /\ Range(t) \subseteq S /\ Range(u) \subseteq S
    OBVIOUS
  <2> HIDE DEF S
  <2> QED
    BY ONLY <2>1, <2>2, SeqMonotonic
<1> HIDE DEF S
<1> QED
  BY ONLY <1>1, ConcatAssociative

\* A sequence of one element.
LEMMA ListedOne ==
  ASSUME NEW x
  PROVE  Listed(<<x>>) /\ Len(<<x>>) = 1 /\ <<x>>[1] = x /\ <<x>> # <<>> /\ Append(<<>>, x) = <<x>>
<1>1. <<x>> \in Seq({x})
  OBVIOUS
<1>2. Listed(<<x>>)
  BY ONLY <1>1, ListedSeq
<1> QED
  BY <1>1, <1>2

\* One element more.
LEMMA ListedAppended ==
  ASSUME NEW s, Listed(s), NEW x
  PROVE  Append(s, x) = s \o <<x>>
<1> DEFINE S == Range(s) \cup {x}
<1>1. s \in Seq(S) /\ x \in S
  <2>1. s \in Seq(Range(s)) /\ Range(s) \subseteq S
    BY DEF Listed
  <2> HIDE DEF S
  <2>2. s \in Seq(S)
    BY ONLY <2>1, SeqMonotonic
  <2> QED
    BY <2>2 DEF S
<1> HIDE DEF S
<1> QED
  BY ONLY <1>1, AppendIsConcat

\* The first element, and the others.
LEMMA ListedHead ==
  ASSUME NEW s, Listed(s), s # <<>>
  PROVE  /\ s = <<Head(s)>> \o Tail(s) /\ Listed(Tail(s))
         /\ Len(s) \in Nat /\ Len(s) >= 1 /\ Len(Tail(s)) = Len(s) - 1 /\ Head(s) = s[1]
         /\ \A i \in 1 .. Len(s) - 1 : Tail(s)[i] = s[i + 1]
<1>1. s \in Seq(Range(s))
  BY DEF Listed
<1>2. /\ Tail(s) \in Seq(Range(s)) /\ Len(Tail(s)) = Len(s) - 1
      /\ Len(s) \in Nat /\ Len(s) >= 1 /\ Head(s) = s[1] /\ Head(s) \in Range(s)
      /\ \A i \in 1 .. Len(s) - 1 : Tail(s)[i] = s[i + 1]
  <2>1. Tail(s) \in Seq(Range(s)) /\ Len(Tail(s)) = Len(s) - 1 /\ Head(s) = s[1] /\ Head(s) \in Range(s)
        /\ \A i \in 1 .. Len(Tail(s)) : Tail(s)[i] = s[i + 1]
    BY <1>1, HeadTailProperties
  <2>2. Len(s) \in Nat /\ Len(s) # 0
    BY <1>1, LenProperties, EmptySeq
  <2> QED
    BY ONLY <2>1, <2>2
<1>3. Listed(Tail(s))
  BY <1>2, ListedSeq
<1>4. s = <<Head(s)>> \o Tail(s)
  <2>1. PICK a : a = <<Head(s)>> \o Tail(s)
    OBVIOUS
  <2>2. PICK n \in Nat : n = Len(s) /\ n >= 1
    BY <1>2
  <2>3. Listed(<<Head(s)>>) /\ Len(<<Head(s)>>) = 1 /\ <<Head(s)>>[1] = Head(s)
    BY ONLY ListedOne
  <2>4. /\ Listed(a) /\ Len(a) = 1 + (n - 1)
        /\ \A i \in 1 .. 1 + (n - 1) : a[i] = IF i <= 1 THEN <<Head(s)>>[i] ELSE Tail(s)[i - 1]
    <3>1. Listed(<<Head(s)>>) /\ Len(<<Head(s)>>) = 1 /\ Len(Tail(s)) = n - 1
      BY <1>2, <2>2, <2>3
    <3>2. PICK h : h = <<Head(s)>>
      OBVIOUS
    <3>3. PICK u : u = Tail(s)
      OBVIOUS
    <3>4. Listed(h) /\ Len(h) = 1 /\ Listed(u) /\ Len(u) = n - 1 /\ a = h \o u
      BY ONLY <1>3, <2>1, <3>1, <3>2, <3>3
    <3>5. /\ Listed(h \o u) /\ Len(h \o u) = Len(h) + Len(u)
          /\ \A i \in 1 .. Len(h) + Len(u) :
               (h \o u)[i] = IF i <= Len(h) THEN h[i] ELSE u[i - Len(h)]
      BY ONLY <3>4, ListedConcat
    <3> QED
      BY ONLY <3>2, <3>3, <3>4, <3>5
  <2>5. ASSUME NEW i \in 1 .. n PROVE a[i] = s[i]
    <3>1. i \in 1 .. 1 + (n - 1)
      BY <2>2
    <3>2. CASE i = 1
      BY <1>2, <2>3, <2>4, <3>1, <3>2
    <3>3. CASE i # 1
      <4>1. ~(i <= 1) /\ i - 1 \in 1 .. Len(s) - 1 /\ (i - 1) + 1 = i
        BY <2>2, <3>3
      <4>2. a[i] = Tail(s)[i - 1]
        BY ONLY <2>4, <3>1, <4>1
      <4>3. Tail(s)[i - 1] = s[(i - 1) + 1]
        BY ONLY <1>2, <4>1
      <4> QED
        BY ONLY <4>1, <4>2, <4>3, Zenon
    <3> QED
      BY <3>2, <3>3
  <2>6. a \in Seq(Range(a))
    BY <2>4 DEF Listed
  <2>7. 1 + (n - 1) = n
    BY <2>2
  <2>8. a = [i \in 1 .. n |-> a[i]] /\ s = [i \in 1 .. n |-> s[i]]
    BY ONLY <1>1, <2>2, <2>4, <2>6, <2>7
  <2> QED
    BY ONLY <2>1, <2>5, <2>8
<1> QED
  BY <1>2, <1>3, <1>4

-----------------------------------------------------------------------------
(* Flattening.                                                             *)

\* f is the function that FlattenSeq defines, on the first n of the sequences.
IsFlat(f, s, n) == f = [i \in 1 .. n |-> IF i = 1 THEN s[i] ELSE f[i - 1] \o s[i]]

\* Its equation.
LEMMA FlatAt ==
  ASSUME NEW f, NEW s, NEW n \in Nat, IsFlat(f, s, n), NEW i \in 1 .. n
  PROVE  f[i] = IF i = 1 THEN s[i] ELSE f[i - 1] \o s[i]
BY DEF IsFlat

\* There is one.
LEMMA FlatExists ==
  ASSUME NEW s, NEW n \in Nat
  PROVE  \E f : IsFlat(f, s, n)
<1> DEFINE wrong == {m \in Nat : ~ \E f : IsFlat(f, s, m)}
<1> SUFFICES ASSUME wrong # {} PROVE FALSE
  OBVIOUS
<1>1. PICK m \in wrong : \A k \in wrong : m <= k
  <2>1. wrong \in SUBSET Nat
    OBVIOUS
  <2> HIDE DEF wrong
  <2> QED
    BY <2>1, HasLeast
<1>2. m \in Nat /\ ~ \E f : IsFlat(f, s, m)
  BY <1>1
<1>3. CASE m = 0
  <2> DEFINE h == [i \in 1 .. 0 |-> <<>>]
  <2>1. IsFlat(h, s, 0)
    BY DEF IsFlat
  <2> QED
    BY <1>2, <1>3, <2>1
<1>4. CASE m > 0
  <2>1. m - 1 \in Nat /\ m - 1 \notin wrong
    <3>1. m - 1 \in Nat /\ ~(m <= m - 1)
      BY <1>2, <1>4
    <3> HIDE DEF wrong
    <3> QED
      BY <1>1, <3>1
  <2>2. PICK f : IsFlat(f, s, m - 1)
    BY <2>1
  <2> DEFINE last == IF m = 1 THEN s[m] ELSE f[m - 1] \o s[m]
             h == [i \in 1 .. m |-> IF i < m THEN f[i] ELSE last]
  <2>3. \A i \in 1 .. m : h[i] = IF i = 1 THEN s[i] ELSE h[i - 1] \o s[i]
    <3> TAKE i \in 1 .. m
    <3>0. i # 1 => i - 1 \in 1 .. m /\ i - 1 < m
      BY <1>2
    <3>1. CASE i < m
      <4>1. i \in 1 .. m - 1
        BY <1>2, <3>1
      <4>2. f[i] = IF i = 1 THEN s[i] ELSE f[i - 1] \o s[i]
        BY <2>2, <4>1 DEF IsFlat
      <4> QED
        BY <3>0, <3>1, <4>1, <4>2
    <3>2. CASE ~(i < m)
      <4>1. i = m
        BY <1>2, <1>4, <3>2
      <4> QED
        BY <3>0, <4>1
    <3> QED
      BY <3>1, <3>2
  <2>4. IsFlat(h, s, m)
    <3>1. h = [i \in 1 .. m |-> h[i]]
      OBVIOUS
    <3> HIDE DEF h
    <3> QED
      BY <2>3, <3>1 DEF IsFlat
  <2> QED
    BY <1>2, <2>4
<1> QED
  BY <1>2, <1>3, <1>4

SameUpTo(s, t, n) == \A i \in 1 .. n : s[i] = t[i]

\* Two such functions agree where their sequences do.
LEMMA FlatAgrees ==
  ASSUME NEW n \in Nat, NEW m \in Nat, NEW s, NEW t, NEW f, NEW h,
         n <= m, SameUpTo(s, t, n), IsFlat(f, s, n), IsFlat(h, t, m)
  PROVE  \A i \in 1 .. n : f[i] = h[i]
<1> DEFINE wrong == {i \in 1 .. n : f[i] # h[i]}
<1> SUFFICES ASSUME wrong # {} PROVE FALSE
  OBVIOUS
<1>1. PICK x \in wrong : \A k \in wrong : x <= k
  <2>1. wrong \in SUBSET Nat
    OBVIOUS
  <2> HIDE DEF wrong
  <2> QED
    BY <2>1, HasLeast
<1>2. x \in 1 .. n /\ x \in 1 .. m /\ f[x] # h[x]
  BY <1>1
<1>3. /\ f[x] = IF x = 1 THEN s[x] ELSE f[x - 1] \o s[x]
      /\ h[x] = IF x = 1 THEN t[x] ELSE h[x - 1] \o t[x]
  BY <1>2, FlatAt
<1>4. CASE x = 1
  BY <1>2, <1>3, <1>4 DEF SameUpTo
<1>5. CASE x # 1
  <2>1. x - 1 \in 1 .. n /\ ~(x <= x - 1)
    BY <1>2, <1>5
  <2>2. f[x - 1] = h[x - 1]
    BY <1>1, <2>1
  <2> QED
    BY <1>2, <1>3, <1>5, <2>2 DEF SameUpTo
<1> QED
  BY <1>4, <1>5

\* FlattenSeq, with the function it defines.
LEMMA FlattenIs ==
  ASSUME NEW S, NEW n \in Nat, NEW s \in [1 .. n -> S]
  PROVE  /\ n = 0 => FlattenSeq(s) = <<>>
         /\ n > 0 => \E f : IsFlat(f, s, n) /\ FlattenSeq(s) = f[n]
<1>1. Len(s) = n
  OBVIOUS
<1>2. CASE n = 0
  <2>1. s = <<>>
    BY <1>2
  <2> QED
    BY <1>1, <1>2, <2>1 DEF FlattenSeq
<1>3. CASE n > 0
  <2> DEFINE f == CHOOSE h : IsFlat(h, s, n)
  <2>1. IsFlat(f, s, n)
    BY FlatExists, Zenon
  <2>2. FlattenSeq(s) = f[n]
    <3>0. Len(s) # 0
      BY <1>1, <1>3
    <3>1. FlattenSeq(s) = (CHOOSE h : IsFlat(h, s, Len(s)))[Len(s)]
      BY <3>0, Zenon DEF FlattenSeq, IsFlat
    <3> QED
      BY <1>1, <3>1, Zenon
  <2>3. ~(n = 0)
    BY <1>3
  <2> HIDE DEF f
  <2> QED
    BY <2>1, <2>2, <2>3, Zenon
<1> QED
  BY <1>2, <1>3

\* Flattening gives a sequence over the same elements.
LEMMA FlattenType ==
  ASSUME NEW S, NEW n \in Nat, NEW s \in [1 .. n -> Seq(S)]
  PROVE  FlattenSeq(s) \in Seq(S)
<1>1. CASE n = 0
  <2>1. FlattenSeq(s) = <<>>
    BY <1>1, FlattenIs
  <2> QED
    BY <2>1
<1>2. CASE n > 0
  <2>1. PICK f : IsFlat(f, s, n) /\ FlattenSeq(s) = f[n]
    BY <1>2, FlattenIs
  <2> DEFINE wrong == {i \in 1 .. n : f[i] \notin Seq(S)}
  <2>2. SUFFICES ASSUME wrong # {} PROVE FALSE
    BY <1>2, <2>1
  <2>3. PICK x \in wrong : \A k \in wrong : x <= k
    <3>1. wrong \in SUBSET Nat
      OBVIOUS
    <3> HIDE DEF wrong
    <3> QED
      BY <2>2, <3>1, HasLeast
  <2>4. x \in 1 .. n /\ f[x] \notin Seq(S)
    BY <2>3
  <2>5. f[x] = IF x = 1 THEN s[x] ELSE f[x - 1] \o s[x]
    BY <2>1, <2>4 DEF IsFlat
  <2>6. CASE x = 1
    BY <2>4, <2>5, <2>6
  <2>7. CASE x # 1
    <3>1. x - 1 \in 1 .. n /\ ~(x <= x - 1)
      BY <2>4, <2>7
    <3>2. f[x - 1] \in Seq(S)
      BY <2>3, <3>1
    <3>3. s[x] \in Seq(S)
      BY <2>4
    <3>4. f[x - 1] \o s[x] \in Seq(S)
      BY <3>2, <3>3, ConcatProperties
    <3> QED
      BY <2>4, <2>5, <2>7, <3>4
  <2> QED
    BY <2>6, <2>7
<1> QED
  BY <1>1, <1>2

\* One sequence more.
LEMMA FlattenStep ==
  ASSUME NEW S, NEW n \in Nat, NEW s \in [1 .. n -> Seq(S)],
         NEW t \in [1 .. n + 1 -> Seq(S)], \A i \in 1 .. n : s[i] = t[i]
  PROVE  FlattenSeq(t) = FlattenSeq(s) \o t[n + 1]
<1>1. PICK h : IsFlat(h, t, n + 1) /\ FlattenSeq(t) = h[n + 1]
  <2>1. n + 1 \in Nat /\ n + 1 > 0
    OBVIOUS
  <2> QED
    BY <2>1, FlattenIs
<1>2. h[n + 1] = IF n + 1 = 1 THEN t[n + 1] ELSE h[(n + 1) - 1] \o t[n + 1]
  <2>1. n + 1 \in Nat /\ n + 1 \in 1 .. n + 1
    OBVIOUS
  <2> QED
    BY ONLY <1>1, <2>1, FlatAt, Zenon
<1>3. CASE n = 0
  <2>1. FlattenSeq(s) = <<>>
    BY <1>3, FlattenIs
  <2>2. t[n + 1] \in Seq(S)
    OBVIOUS
  <2>3. <<>> \o t[n + 1] = t[n + 1]
    BY <2>2, ConcatEmptySeq
  <2> QED
    BY <1>1, <1>2, <1>3, <2>1, <2>3
<1>4. CASE n > 0
  <2>1. PICK f : IsFlat(f, s, n) /\ FlattenSeq(s) = f[n]
    BY <1>4, FlattenIs
  <2>2. \A i \in 1 .. n : f[i] = h[i]
    <3> DEFINE m == n + 1
    <3>1. m \in Nat /\ n <= m /\ SameUpTo(s, t, n)
      BY DEF SameUpTo
    <3>2. IsFlat(h, t, m)
      BY <1>1
    <3> HIDE DEF m
    <3> QED
      BY <2>1, <3>1, <3>2, FlatAgrees
  <2>3. f[n] = h[n] /\ (n + 1) - 1 = n /\ n + 1 # 1
    BY <1>4, <2>2
  <2> QED
    BY <1>1, <1>2, <2>1, <2>3
<1> QED
  BY <1>3, <1>4

\* Sequences of sequences.
ListOfLists(s) == Listed(s) /\ \A i \in 1 .. Len(s) : Listed(s[i])

\* Their elements are in some set.
LEMMA ListsInSet ==
  ASSUME NEW s, ListOfLists(s)
  PROVE  LET S == UNION {Range(s[i]) : i \in 1 .. Len(s)}
         IN  s \in [1 .. Len(s) -> Seq(S)] /\ Len(s) \in Nat
<1> DEFINE S == UNION {Range(s[i]) : i \in 1 .. Len(s)}
<1>1. s \in Seq(Range(s)) /\ Len(s) \in Nat
  BY LenProperties DEF ListOfLists, Listed
<1>2. s = [i \in 1 .. Len(s) |-> s[i]]
  BY ONLY <1>1
<1>3. ASSUME NEW i \in 1 .. Len(s) PROVE s[i] \in Seq(S)
  <2>1. Range(s[i]) \subseteq S
    OBVIOUS
  <2>2. s[i] \in Seq(Range(s[i]))
    BY DEF ListOfLists, Listed
  <2> HIDE DEF S
  <2> QED
    BY ONLY <2>1, <2>2, SeqMonotonic
<1> HIDE DEF S
<1>4. s \in [1 .. Len(s) -> Seq(S)]
  BY ONLY <1>2, <1>3
<1> QED
  BY <1>1, <1>4 DEF S

\* Flattened, they are a sequence.
LEMMA FlattenListed ==
  ASSUME NEW s, ListOfLists(s)
  PROVE  Listed(FlattenSeq(s))
<1>1. PICK S : s \in [1 .. Len(s) -> Seq(S)] /\ Len(s) \in Nat
  BY ListsInSet
<1>2. FlattenSeq(s) \in Seq(S)
  BY ONLY <1>1, FlattenType
<1> QED
  BY <1>2, ListedSeq

\* Nothing, and one sequence.
LEMMA FlattenFew ==
  /\ FlattenSeq(<<>>) = <<>>
  /\ \A s : Listed(s) => FlattenSeq(<<s>>) = s
<1>1. FlattenSeq(<<>>) = <<>>
  <2>1. <<>> \in [1 .. 0 -> {}]
    OBVIOUS
  <2> QED
    BY <2>1, FlattenIs
<1>2. ASSUME NEW s, Listed(s) PROVE FlattenSeq(<<s>>) = s
  <2>1. s \in Seq(Range(s))
    BY <1>2 DEF Listed
  <2>2. PICK e : e = <<>>
    OBVIOUS
  <2>3. PICK o : o = <<s>>
    OBVIOUS
  <2>4. e \in [1 .. 0 -> Seq(Range(s))] /\ o \in [1 .. 0 + 1 -> Seq(Range(s))]
        /\ o[0 + 1] = s /\ \A i \in 1 .. 0 : e[i] = o[i]
    <3>1. e \in [1 .. 0 -> Seq(Range(s))]
      BY <2>2
    <3>2. 0 + 1 = 1
      OBVIOUS
    <3>3. o \in [1 .. 1 -> Seq(Range(s))] /\ o[1] = s
      BY <2>1, <2>3
    <3> QED
      BY <3>1, <3>2, <3>3
  <2>5. FlattenSeq(o) = FlattenSeq(e) \o o[0 + 1]
    <3>1. 0 \in Nat
      OBVIOUS
    <3> QED
      BY ONLY <3>1, <2>4, FlattenStep
  <2>6. <<>> \o s = s
    BY ONLY <2>1, ConcatEmptySeq
  <2> QED
    BY ONLY <1>1, <2>2, <2>3, <2>4, <2>5, <2>6, Zenon
<1> QED
  BY <1>1, <1>2

\* One more.
LEMMA FlattenAppend ==
  ASSUME NEW s, ListOfLists(s), NEW x, Listed(x)
  PROVE  ListOfLists(Append(s, x)) /\ FlattenSeq(Append(s, x)) = FlattenSeq(s) \o x
<1>1. PICK l : l = Append(s, x)
  OBVIOUS
<1>2. PICK n \in Nat : n = Len(s)
  BY ListedAppend DEF ListOfLists
<1>3. /\ Listed(l) /\ Len(l) = n + 1 /\ l[n + 1] = x /\ \A i \in 1 .. n : l[i] = s[i]
  BY <1>1, <1>2, ListedAppend DEF ListOfLists
<1>4. ListOfLists(l)
  <2>1. ASSUME NEW i \in 1 .. n + 1 PROVE Listed(l[i])
    <3>1. i = n + 1 \/ i \in 1 .. n
      OBVIOUS
    <3>2. i \in 1 .. n => Listed(s[i])
      BY <1>2 DEF ListOfLists
    <3> QED
      BY ONLY <1>3, <3>1, <3>2, Listed(x), Zenon
  <2> QED
    BY <1>3, <2>1 DEF ListOfLists
<1>5. PICK S : l \in [1 .. n + 1 -> Seq(S)]
  BY <1>3, <1>4, ListsInSet
<1>6. s \in [1 .. n -> Seq(S)]
  <2>1. s = [i \in 1 .. n |-> s[i]]
    BY <1>2 DEF ListOfLists, Listed
  <2>2. ASSUME NEW i \in 1 .. n PROVE s[i] \in Seq(S)
    <3>1. i \in 1 .. n + 1
      OBVIOUS
    <3>2. l[i] \in Seq(S)
      BY ONLY <1>5, <3>1
    <3> QED
      BY <1>3, <3>2
  <2> QED
    BY ONLY <2>1, <2>2
<1>7. FlattenSeq(l) = FlattenSeq(s) \o l[n + 1]
  BY ONLY <1>2, <1>3, <1>5, <1>6, FlattenStep
<1> QED
  BY ONLY <1>1, <1>3, <1>4, <1>7, Zenon

\* Flattened, two lists after each other are what they are flattened.
LEMMA FlattenConcat ==
  ASSUME NEW s, ListOfLists(s), NEW t, ListOfLists(t)
  PROVE  ListOfLists(s \o t) /\ FlattenSeq(s \o t) = FlattenSeq(s) \o FlattenSeq(t)
<1> DEFINE right(u) == ListOfLists(s \o u) /\ FlattenSeq(s \o u) = FlattenSeq(s) \o FlattenSeq(u)
           S == {k \in Nat : \A u : ListOfLists(u) /\ Len(u) = k => right(u)}
<1>0. Listed(s) /\ Listed(FlattenSeq(s))
  BY FlattenListed DEF ListOfLists
<1>1. 0 \in S
  <2>1. ASSUME NEW u, ListOfLists(u), Len(u) = 0 PROVE right(u)
    <3>1. u = <<>>
      BY <2>1, EmptySeq DEF ListOfLists, Listed
    <3>2. s \o <<>> = s /\ FlattenSeq(s) \o <<>> = FlattenSeq(s)
      BY ONLY <1>0, NothingListed, ListedConcat
    <3> QED
      BY ONLY ListOfLists(s), <3>1, <3>2, FlattenFew, Zenon
  <2> QED
    BY <2>1
<1>2. ASSUME NEW k \in Nat, k \in S PROVE k + 1 \in S
  <2>1. ASSUME NEW u, ListOfLists(u), Len(u) = k + 1 PROVE right(u)
    <3>0. Listed(u) /\ Len(u) # 0
      BY <2>1 DEF ListOfLists
    <3>1. PICK f : f = SubSeq(u, 1, Len(u) - 1)
      OBVIOUS
    <3>2. PICK x : x = Last(u)
      OBVIOUS
    <3>3. Listed(f) /\ u = Append(f, x)
      BY ONLY <3>0, <3>1, <3>2, AppendOfFront
    <3>4. /\ Len(f) \in Nat /\ Len(u) = Len(f) + 1 /\ u[Len(f) + 1] = x
          /\ \A i \in 1 .. Len(f) : u[i] = f[i]
      BY ONLY <3>3, ListedAppend
    <3>5. ListOfLists(f) /\ Listed(x)
      <4>1. \A i \in 1 .. Len(f) + 1 : Listed(u[i])
        BY <2>1, <3>4 DEF ListOfLists
      <4>2. Len(f) + 1 \in 1 .. Len(f) + 1 /\ \A i \in 1 .. Len(f) : i \in 1 .. Len(f) + 1
        BY <3>4
      <4>3. \A i \in 1 .. Len(f) : Listed(f[i])
        BY ONLY <3>4, <4>1, <4>2
      <4> QED
        BY ONLY <3>3, <3>4, <4>1, <4>2, <4>3 DEF ListOfLists
    <3>6. right(f)
      <4>1. Len(f) = k
        BY <2>1, <3>4
      <4> QED
        BY <1>2, <3>5, <4>1
    <3>7. /\ FlattenSeq(u) = FlattenSeq(f) \o x
          /\ ListOfLists(Append(s \o f, x))
          /\ FlattenSeq(Append(s \o f, x)) = FlattenSeq(s \o f) \o x
      BY ONLY <3>3, <3>5, <3>6, FlattenAppend
    <3>8. s \o u = Append(s \o f, x)
      <4>1. Listed(<<x>>) /\ Listed(s \o f)
        BY ONLY <1>0, <3>3, ListedOne, ListedConcat
      <4>2. u = f \o <<x>> /\ Append(s \o f, x) = (s \o f) \o <<x>>
        BY ONLY <3>3, <4>1, ListedAppended
      <4>3. (s \o f) \o <<x>> = s \o (f \o <<x>>)
        BY ONLY <1>0, <3>3, <4>1, ListedAssociative
      <4> QED
        BY ONLY <4>2, <4>3, Zenon
    <3>9. (FlattenSeq(s) \o FlattenSeq(f)) \o x = FlattenSeq(s) \o (FlattenSeq(f) \o x)
      <4>1. Listed(FlattenSeq(f))
        BY ONLY <3>5, FlattenListed
      <4> QED
        BY ONLY <1>0, <3>5, <4>1, ListedAssociative
    <3> QED
      BY ONLY <3>6, <3>7, <3>8, <3>9, Zenon
  <2> HIDE DEF right
  <2> QED
    BY <2>1
<1>3. \A k \in Nat : k \in S
  <2> HIDE DEF S
  <2> QED
    BY ONLY <1>1, <1>2, Induct
<1>4. Len(t) \in Nat
  BY ListedAppend DEF ListOfLists
<1> QED
  BY <1>3, <1>4

=============================================================================
