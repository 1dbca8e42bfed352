-------------------------- MODULE JobVariablesProofs --------------------------
(***************************************************************************)
(* Proofs about JobVariables, for any names, any filters and any values.   *)
(* A text is a sequence that the code takes apart and puts together, so    *)
(* the proofs need induction: what holds for 0 and is passed on from n to  *)
(* n + 1 is stated as a set of numbers, and such a set is Nat since the    *)
(* order of the numbers is well-founded.                                   *)
(***************************************************************************)
EXTENDS JobVariables, SequenceTheorems, WellFoundedInduction, TLAPS

-----------------------------------------------------------------------------
(***************************************************************************)
(* Numbers, sequences and the texts that FlattenSeq puts together          *)
(***************************************************************************)
\* A set of numbers that has 0, and with each of them the next, has all of them.
LEMMA Induction ==
    ASSUME NEW S \in SUBSET Nat, 0 \in S, \A n \in S : n + 1 \in S PROVE S = Nat
  <1> SUFFICES ASSUME Nat \ S # {} PROVE FALSE
    OBVIOUS
  <1>1. PICK m \in Nat \ S : \A y \in Nat \ S : ~ <<y, m>> \in OpToRel(<, Nat)
    BY NatLessThanWellFounded, WFMin, Zenon
  <1>2. m - 1 \in Nat /\ (m - 1) + 1 = m /\ m - 1 < m
    <2>1. m \in Nat /\ m # 0
      BY <1>1
    <2> QED
      BY <2>1
  <1>3. <<m - 1, m>> \in OpToRel(<, Nat)
    BY <1>1, <1>2 DEF OpToRel
  <1>4. m - 1 \in S
    BY <1>1, <1>2, <1>3
  <1> QED
    BY <1>1, <1>2, <1>4

\* The first of a set of indexes, as strings.Index finds it.
LEMMA LeastIndex ==
    ASSUME NEW S \in SUBSET Nat, S # {}
    PROVE  Min(S) \in S /\ \A x \in S : Min(S) <= x
  <1>1. PICK m \in S : \A y \in S : ~ <<y, m>> \in OpToRel(<, Nat)
    BY NatLessThanWellFounded, WFMin, Zenon
  <1>2. \A y \in S : m <= y
    <2> SUFFICES ASSUME NEW y \in S, y < m PROVE FALSE
      OBVIOUS
    <2>1. <<y, m>> \in OpToRel(<, Nat)
      BY DEF OpToRel
    <2> QED
      BY <1>1, <2>1
  <1> QED
    BY <1>2 DEF Min

\* The last of a set of indexes of a text.
LEMMA GreatestIndex ==
    ASSUME NEW n \in Nat, NEW S \in SUBSET (1..n), S # {}
    PROVE  Max(S) \in S /\ \A x \in S : x <= Max(S)
  <1> DEFINE back == {n - x : x \in S}
  <1>0. \A x \in S : x \in Nat /\ n - x \in Nat
    OBVIOUS
  <1>1. back \in SUBSET Nat /\ back # {}
    BY <1>0
  <1>2. PICK y \in back : \A z \in back : y <= z
    BY <1>1, LeastIndex
  <1>3. PICK m \in S : y = n - m
    BY <1>2
  <1>4. \A x \in S : x <= m
    <2> TAKE x \in S
    <2>1. n - x \in back
      OBVIOUS
    <2> QED
      BY <1>0, <1>2, <1>3, <2>1
  <1>5. m \in S /\ \A x \in S : m >= x
    BY <1>0, <1>4
  <1>6. \A y2 \in S : (\A x \in S : y2 >= x) => y2 = m
    BY <1>0, <1>5
  <1> QED
    BY <1>0, <1>5, <1>6 DEF Max

\* A set of sequences that has the empty one, and with each of them those that are
\* one longer, has all of them.
LEMMA SeqInduction ==
    ASSUME NEW T, NEW P \in SUBSET Seq(T), <<>> \in P,
           \A s \in P : \A e \in T : Append(s, e) \in P
    PROVE  P = Seq(T)
  <1> DEFINE N == {n \in Nat : \A s \in Seq(T) : Len(s) = n => s \in P}
  <1>1. 0 \in N
    BY EmptySeq
  <1>2. ASSUME NEW n \in N PROVE n + 1 \in N
    <2> SUFFICES ASSUME NEW s \in Seq(T), Len(s) = n + 1 PROVE s \in P
      OBVIOUS
    <2>0. s # <<>>
      BY EmptySeq
    <2>1. PICK t \in Seq(T), e \in T : s = Append(t, e)
      BY <2>0, SequenceEmptyOrAppend
    <2>2. Len(t) = n
      BY <2>1, AppendProperties, LenProperties
    <2> QED
      BY <2>1, <2>2
  <1>3. N = Nat
    BY <1>1, <1>2, Induction
  <1> QED
    BY <1>3, LenProperties

\* f puts the texts of ss together, one after the other.
Joins(f, ss) ==
    \A i \in 1..Len(ss) : f[i] = IF i = 1 THEN ss[i] ELSE f[i - 1] \o ss[i]

\* There is such a function, and its values are texts.
LEMMA JoinExists ==
    ASSUME NEW T, NEW ss \in Seq(Seq(T))
    PROVE  \E f \in [1..Len(ss) -> Seq(T)] : Joins(f, ss)
  <1> DEFINE N == {n \in Nat : n <= Len(ss) =>
                       \E f \in [1..n -> Seq(T)] :
                           \A i \in 1..n : f[i] = IF i = 1 THEN ss[i] ELSE f[i - 1] \o ss[i]}
  <1>0. Len(ss) \in Nat /\ \A i \in 1..Len(ss) : ss[i] \in Seq(T)
    BY LenProperties, ElementOfSeq
  <1>1. 0 \in N
    <2> DEFINE nothing == [i \in 1..0 |-> <<>>]
    <2>1. nothing \in [1..0 -> Seq(T)] /\ \A i : i \notin 1..0
      OBVIOUS
    <2> HIDE DEF nothing
    <2> QED
      BY <2>1
  <1>2. ASSUME NEW n \in N PROVE n + 1 \in N
    <2>0. /\ n \in Nat
          /\ n <= Len(ss) => \E f \in [1..n -> Seq(T)] : \A i \in 1..n :
                                 f[i] = IF i = 1 THEN ss[i] ELSE f[i - 1] \o ss[i]
      OBVIOUS
    <2> HIDE DEF N
    <2> SUFFICES ASSUME n + 1 <= Len(ss)
                 PROVE  \E f \in [1..(n + 1) -> Seq(T)] : \A i \in 1..(n + 1) :
                            f[i] = IF i = 1 THEN ss[i] ELSE f[i - 1] \o ss[i]
      <3>1. n + 1 \in Nat
        BY <2>0
      <3> QED
        BY <3>1, Zenon DEF N
    <2>p. n <= Len(ss) /\ n \in Nat
      BY <1>0, <2>0
    <2>1. PICK f \in [1..n -> Seq(T)] :
              \A i \in 1..n : f[i] = IF i = 1 THEN ss[i] ELSE f[i - 1] \o ss[i]
      BY <2>0, <2>p, Zenon
    <2> DEFINE last == IF n = 0 THEN ss[1] ELSE f[n] \o ss[n + 1]
               g == [i \in 1..(n + 1) |-> IF i = n + 1 THEN last ELSE f[i]]
    <2>2. last \in Seq(T)
      <3>1. ss[n + 1] \in Seq(T)
        BY <1>0, <2>0
      <3>2. CASE n = 0
        BY <3>1, <3>2
      <3>3. CASE n # 0
        <4>1. f[n] \in Seq(T)
          BY <2>0, <2>1, <3>3
        <4> QED
          BY <3>1, <3>3, <4>1, ConcatProperties
      <3> QED
        BY <3>2, <3>3
    <2> HIDE DEF last
    <2>3. g \in [1..(n + 1) -> Seq(T)]
      BY <2>0, <2>2
    <2>4. \A i \in 1..(n + 1) : g[i] = IF i = 1 THEN ss[i] ELSE g[i - 1] \o ss[i]
      <3> TAKE i \in 1..(n + 1)
      <3>1. CASE i = n + 1
        <4>1. g[i] = last /\ (n # 0 => i # 1 /\ i - 1 = n /\ g[i - 1] = f[n])
          BY <2>0, <3>1
        <4>2. n = 0 => i = 1
          BY <3>1
        <4> QED
          BY <3>1, <4>1, <4>2 DEF last
      <3>2. CASE i # n + 1
        <4>1. i \in 1..n /\ (i # 1 => i - 1 \in 1..n)
          BY <2>0, <3>2
        <4>2. g[i] = f[i] /\ (i # 1 => g[i - 1] = f[i - 1])
          BY <2>0, <4>1
        <4> QED
          BY <2>1, <4>1, <4>2
      <3> QED
        BY <3>1, <3>2
    <2> QED
      BY <2>3, <2>4
  <1>3. Len(ss) \in N
    BY <1>0, <1>1, <1>2, Induction
  <1> QED
    BY <1>0, <1>3 DEF Joins

\* Two such functions are equal.
LEMMA JoinUnique ==
    ASSUME NEW T, NEW ss \in Seq(Seq(T)), NEW f, NEW g, Joins(f, ss), Joins(g, ss),
           NEW i \in 1..Len(ss)
    PROVE  f[i] = g[i]
  <1> DEFINE N == {n \in Nat : n \in 1..Len(ss) => f[n] = g[n]}
  <1>0. Len(ss) \in Nat
    BY LenProperties
  <1>1. 0 \in N
    OBVIOUS
  <1>2. ASSUME NEW n \in N PROVE n + 1 \in N
    <2> SUFFICES ASSUME n + 1 \in 1..Len(ss) PROVE f[n + 1] = g[n + 1]
      OBVIOUS
    <2>1. CASE n = 0
      BY <2>1 DEF Joins
    <2>2. CASE n # 0
      <3>1. n \in 1..Len(ss) /\ (n + 1) - 1 = n /\ n + 1 # 1
        BY <1>0, <2>2
      <3>2. f[n] = g[n]
        BY <3>1
      <3>3. f[n + 1] = f[n] \o ss[n + 1] /\ g[n + 1] = g[n] \o ss[n + 1]
        BY <3>1 DEF Joins
      <3> QED
        BY <3>2, <3>3
    <2> QED
      BY <2>1, <2>2
  <1> HIDE DEF N
  <1>3. N = Nat
    <2>1. N \in SUBSET Nat
      BY DEF N
    <2> QED
      BY <1>1, <1>2, <2>1, Induction
  <1>4. i \in N
    BY <1>0, <1>3
  <1> QED
    BY <1>4 DEF N

\* FlattenSeq is what such a function comes to.
LEMMA FlattenJoins ==
    ASSUME NEW T, NEW ss \in Seq(Seq(T)), Len(ss) # 0, NEW f, Joins(f, ss)
    PROVE  FlattenSeq(ss) = f[Len(ss)]
  <1> DEFINE Def(g) == [i \in 1..Len(ss) |-> IF i = 1 THEN ss[i] ELSE g[i - 1] \o ss[i]]
             flatten == CHOOSE g : g = Def(g)
  <1>0. Len(ss) \in Nat /\ Len(ss) \in 1..Len(ss)
    BY LenProperties
  <1>1. PICK h \in [1..Len(ss) -> Seq(T)] : Joins(h, ss)
    BY JoinExists
  <1>2. h = Def(h)
    BY <1>1 DEF Joins
  <1>3. flatten = Def(flatten)
    BY <1>2
  <1> HIDE DEF flatten
  <1>4. Joins(flatten, ss)
    BY <1>3 DEF Joins
  <1>5. flatten[Len(ss)] = f[Len(ss)]
    BY <1>0, <1>4, JoinUnique
  <1>6. FlattenSeq(ss) = flatten[Len(ss)]
    BY DEF FlattenSeq, flatten
  <1> QED
    BY <1>5, <1>6

\* A text that is put together is a text, the empty one of nothing; and what is put
\* at its end is concatenated.
LEMMA FlattenAppend ==
    ASSUME NEW T, NEW ss \in Seq(Seq(T)), NEW e \in Seq(T)
    PROVE  /\ FlattenSeq(ss) \in Seq(T)
           /\ FlattenSeq(<<>>) = <<>>
           /\ FlattenSeq(Append(ss, e)) = FlattenSeq(ss) \o e
  <1>0. /\ Append(ss, e) \in Seq(Seq(T)) /\ Len(Append(ss, e)) = Len(ss) + 1
        /\ Len(ss) \in Nat /\ \A i \in 1..Len(ss) : Append(ss, e)[i] = ss[i]
        /\ Append(ss, e)[Len(ss) + 1] = e
    BY AppendProperties, LenProperties
  <1>1. FlattenSeq(<<>>) = <<>>
    BY DEF FlattenSeq
  <1>2. PICK f \in [1..Len(ss) -> Seq(T)] : Joins(f, ss)
    BY JoinExists
  <1>3. CASE Len(ss) = 0
    <2>1. ss = <<>>
      BY <1>3, EmptySeq
    <2>2. FlattenSeq(Append(ss, e)) = e
      <3> DEFINE g == [i \in 1..1 |-> e]
      <3>1. Joins(g, Append(ss, e)) /\ g[1] = e
        BY <1>0, <1>3 DEF Joins
      <3> HIDE DEF g
      <3>2. Len(Append(ss, e)) = 1
        BY <1>0, <1>3
      <3>3. FlattenSeq(Append(ss, e)) = g[1]
        <4>1. FlattenSeq(Append(ss, e)) = g[Len(Append(ss, e))]
          <5>1. Joins(g, Append(ss, e)) /\ Len(Append(ss, e)) # 0
            BY <3>1, <3>2
          <5>2. Append(ss, e) \in Seq(Seq(T))
            BY <1>0
          <5> QED
            BY <5>1, <5>2, FlattenJoins
        <4> QED
          BY <3>2, <4>1
      <3> QED
        BY <3>1, <3>3
    <2> QED
      BY <1>1, <2>1, <2>2, EmptySeq, ConcatEmptySeq
  <1>4. CASE Len(ss) # 0
    <2> DEFINE n == Len(ss)
               g == [i \in 1..(n + 1) |-> IF i = n + 1 THEN f[n] \o e ELSE f[i]]
    <2>1. FlattenSeq(ss) = f[n] /\ f[n] \in Seq(T)
      <3>1. n \in 1..n
        BY <1>0, <1>4
      <3>2. f[n] \in Seq(T)
        BY <1>2, <3>1
      <3> QED
        BY <1>2, <1>4, <3>2, FlattenJoins
    <2>2. Joins(g, Append(ss, e))
      <3> SUFFICES ASSUME NEW i \in 1..(n + 1)
                   PROVE  g[i] = IF i = 1 THEN Append(ss, e)[i] ELSE g[i - 1] \o Append(ss, e)[i]
        BY <1>0 DEF Joins
      <3>1. CASE i = n + 1
        <4>1. g[i] = f[n] \o e /\ i # 1 /\ i - 1 = n /\ n # n + 1 /\ n \in 1..(n + 1)
          BY <1>0, <1>4, <3>1
        <4>2. g[n] = f[n]
          BY <4>1
        <4> QED
          BY <1>0, <3>1, <4>1, <4>2
      <3>2. CASE i # n + 1
        <4>1. i \in 1..n /\ g[i] = f[i] /\ (i # 1 => g[i - 1] = f[i - 1])
          BY <1>0, <3>2
        <4>2. f[i] = IF i = 1 THEN ss[i] ELSE f[i - 1] \o ss[i]
          BY <1>2, <4>1 DEF Joins
        <4> QED
          BY <1>0, <4>1, <4>2
      <3> QED
        BY <3>1, <3>2
    <2>3. g[n + 1] = f[n] \o e
      BY <1>0
    <2> HIDE DEF g
    <2>4. FlattenSeq(Append(ss, e)) = g[n + 1]
      <3>1. Len(Append(ss, e)) # 0
        BY <1>0
      <3> QED
        BY <1>0, <2>2, <3>1, FlattenJoins
    <2> QED
      BY <1>1, <2>1, <2>3, <2>4
  <1> QED
    BY <1>3, <1>4

\* The name is for the provers, which expand a \o at once.
Cat(text, more) == text \o more

\* Three texts may be joined in two ways.
LEMMA JoinedInTwoWays ==
    ASSUME NEW T, NEW a \in Seq(T), NEW b \in Seq(T), NEW c \in Seq(T)
    PROVE  Cat(Cat(a, b), c) = Cat(a, Cat(b, c))
  <1> DEFINE l == (a \o b) \o c
             r == a \o (b \o c)
  <1>1. /\ l \in Seq(T) /\ Len(l) = Len(a) + Len(b) + Len(c)
        /\ Len(a) \in Nat /\ Len(b) \in Nat /\ Len(c) \in Nat
    OBVIOUS
  <1>2. r \in Seq(T) /\ Len(r) = Len(a) + Len(b) + Len(c)
    OBVIOUS
  <1>3. \A i \in 1..Len(l) : l[i] = r[i]
    OBVIOUS
  <1> HIDE DEF l, r
  <1>4. l = r
    BY <1>1, <1>2, <1>3, SeqEqual
  <1> QED
    BY <1>4 DEF l, r, Cat

\* What is put before the parts is put before the text that they make.
LEMMA FlattenHead ==
    ASSUME NEW T, NEW ss \in Seq(Seq(T)), NEW e \in Seq(T)
    PROVE  FlattenSeq(<<e>> \o ss) = e \o FlattenSeq(ss)
  <1> DEFINE P == {s \in Seq(Seq(T)) : FlattenSeq(<<e>> \o s) = e \o FlattenSeq(s)}
  <1>0. \A s \in Seq(Seq(T)) : FlattenSeq(s) \in Seq(T)
    BY FlattenAppend
  <1>1. <<>> \in P
    <2>1. <<e>> \o <<>> = Append(<<>>, e) /\ <<>> \in Seq(Seq(T))
      OBVIOUS
    <2>2. FlattenSeq(<<>>) = <<>> /\ FlattenSeq(Append(<<>>, e)) = FlattenSeq(<<>>) \o e
      BY <2>1, FlattenAppend
    <2> QED
      BY <2>1, <2>2, ConcatEmptySeq
  <1>2. ASSUME NEW s \in P, NEW x \in Seq(T) PROVE Append(s, x) \in P
    <2>1. s \in Seq(Seq(T)) /\ <<e>> \o s \in Seq(Seq(T))
      OBVIOUS
    <2>2. <<e>> \o Append(s, x) = Append(<<e>> \o s, x) /\ Append(s, x) \in Seq(Seq(T))
      <3> DEFINE more == Append(s, x)
                 l == <<e>> \o more
                 r == Append(<<e>> \o s, x)
      <3>1. /\ more \in Seq(Seq(T)) /\ Len(more) = Len(s) + 1 /\ Len(s) \in Nat
            /\ more[Len(s) + 1] = x /\ \A i \in 1..Len(s) : more[i] = s[i]
        BY <2>1, AppendProperties
      <3>2. /\ r \in Seq(Seq(T)) /\ Len(r) = Len(s) + 2
            /\ r[1] = e /\ r[Len(s) + 2] = x /\ \A i \in 1..Len(s) : r[i + 1] = s[i]
        BY <2>1
      <3> HIDE DEF more, r
      <3>3. /\ l \in Seq(Seq(T)) /\ Len(l) = Len(s) + 2
            /\ l[1] = e /\ \A i \in 1..(Len(s) + 1) : l[i + 1] = more[i]
        <4>1. PICK m \in Seq(Seq(T)) : m = more
          BY <3>1
        <4>2. /\ <<e>> \o m \in Seq(Seq(T)) /\ Len(<<e>> \o m) = 1 + Len(m)
              /\ (<<e>> \o m)[1] = e /\ \A i \in 1..Len(m) : (<<e>> \o m)[i + 1] = m[i]
          OBVIOUS
        <4> QED
          BY <3>1, <4>1, <4>2
      <3> HIDE DEF l
      <3>4. ASSUME NEW i \in 1..(Len(s) + 2) PROVE l[i] = r[i]
        <4>1. CASE i = 1
          BY <3>2, <3>3, <4>1
        <4>2. CASE i # 1
          <5>1. PICK j \in 1..(Len(s) + 1) : i = j + 1
            <6>1. i - 1 \in 1..(Len(s) + 1) /\ i = (i - 1) + 1
              BY <3>1, <4>2
            <6> QED
              BY <6>1
          <5>2. l[i] = more[j]
            BY <3>3, <5>1
          <5>3. CASE j = Len(s) + 1
            BY <3>1, <3>2, <5>1, <5>2, <5>3
          <5>4. CASE j \in 1..Len(s)
            BY <3>1, <3>2, <5>1, <5>2, <5>4
          <5> QED
            BY <3>1, <5>3, <5>4
        <4> QED
          BY <4>1, <4>2
      <3>5. l = r
        BY <3>2, <3>3, <3>4, SeqEqual
      <3> QED
        BY <3>1, <3>5 DEF l, r, more
    <2>3. FlattenSeq(Append(<<e>> \o s, x)) = (e \o FlattenSeq(s)) \o x
      BY <2>1, FlattenAppend
    <2>4. FlattenSeq(Append(s, x)) = FlattenSeq(s) \o x
      BY <2>1, FlattenAppend
    <2>5. (e \o FlattenSeq(s)) \o x = e \o (FlattenSeq(s) \o x)
      <3>1. FlattenSeq(s) \in Seq(T)
        BY <1>0, <2>1
      <3>2. PICK m \in Seq(T) : m = FlattenSeq(s)
        BY <3>1
      <3>3. (e \o m) \o x = e \o (m \o x)
        <4>1. Cat(Cat(e, m), x) = Cat(e, Cat(m, x))
          BY JoinedInTwoWays
        <4> QED
          BY <4>1 DEF Cat
      <3> QED
        BY <3>2, <3>3
    <2> QED
      BY <2>2, <2>3, <2>4, <2>5
  <1>3. P = Seq(Seq(T))
    <2>1. P \in SUBSET Seq(Seq(T))
      OBVIOUS
    <2> HIDE DEF P
    <2> QED
      BY <1>1, <1>2, <2>1, SeqInduction
  <1> QED
    BY <1>3

-----------------------------------------------------------------------------
(***************************************************************************)
(* Types                                                                   *)
(***************************************************************************)
\* All that may stand in a text.
Chars == STRING \union Names \union {"$", "{", "}", "=", NewLine, TarHeader}
Text == Seq(Chars)

\* A text of the server or of the agent is one, and so are the lines of a file.
LEMMA CharsOfTexts ==
    /\ Seq(STRING) \subseteq Text /\ <<>> \in Text
    /\ Names \subseteq Chars /\ "=" \in Chars /\ NewLine \in Chars /\ TarHeader \in Chars
  <1>1. Seq(STRING) \subseteq Text
    <2> SUFFICES ASSUME NEW s \in Seq(STRING) PROVE s \in Seq(Chars)
      BY DEF Text
    <2>1. STRING \subseteq Chars
      BY DEF Chars
    <2> QED
      BY <2>1, SeqMonotonic
  <1>2. <<>> \in Text
    BY EmptySeq DEF Text
  <1> QED
    BY <1>1, <1>2 DEF Chars

\* The types of what Resolve and exportEnv work on.
Typed ==
    /\ given \in [Names -> Text] /\ system \in [Names -> Text] /\ v \in [Names -> Text]
    /\ docker \in BOOLEAN /\ pass \in {"system", "own"} /\ todo \subseteq Names
    /\ pc \in {"system", "own", "scan", "write", "read", "done", "panic"}
    /\ pc = "scan" => scan \in [key : Names, src : Text, i : Nat \ {0}]
    /\ file \in Text /\ order \in Seq(Names)

\* strings.Replace makes a text of texts.
LEMMA ReplaceTyped ==
    ASSUME NEW text \in Text, NEW part, NEW by \in Text
    PROVE  Replace(text, part, by) \in Text
  <1> DEFINE starts == {i \in DOMAIN text : Occurs(text, part, i)}
             ss == [i \in DOMAIN text |->
                       IF i \in starts THEN by
                       ELSE IF \E s \in starts : s < i /\ i < s + Len(part) THEN <<>>
                       ELSE <<text[i]>>]
  <1>1. ss \in Seq(Text)
    <2>1. \A i \in DOMAIN text : <<text[i]>> \in Text /\ <<>> \in Text
      BY CharsOfTexts DEF Text
    <2>2. \A i \in DOMAIN text : (IF i \in starts THEN by
                       ELSE IF \E s \in starts : s < i /\ i < s + Len(part) THEN <<>>
                       ELSE <<text[i]>>) \in Text
      BY <2>1
    <2> HIDE DEF starts
    <2>3. Len(text) \in Nat /\ DOMAIN text = 1..Len(text)
      BY DEF Text
    <2>4. ss \in [1..Len(text) -> Text]
      BY <2>2, <2>3
    <2> HIDE DEF ss
    <2> QED
      BY <2>3, <2>4
  <1>2. Replace(text, part, by) = FlattenSeq(ss)
    BY DEF Replace
  <1> HIDE DEF ss
  <1> QED
    BY <1>1, <1>2, FlattenAppend DEF Text

\* A value is a text.
LEMMA ValueTyped ==
    ASSUME Typed, pc = "scan" PROVE Val \in Text
  <1>1. <<>> \in Text
    BY CharsOfTexts
  <1>2. ASSUME NEW name PROVE GetVariable(name) \in Text
    BY <1>1 DEF GetVariable, Typed
  <1> QED
    BY <1>1, <1>2 DEF Val

\* A new job has the values that the server sends.
LEMMA TypedInit == Init => Typed
  <1>1. <<>> \in Text /\ <<>> \in Seq(Names)
    BY CharsOfTexts, EmptySeq
  <1>2. Givens \union Systems \subseteq [Names -> Text]
    <2> SUFFICES ASSUME NEW f \in [Names -> Seq(STRING)] PROVE f \in [Names -> Text]
      BY VariablesAssumption DEF VariablesAssumption
    <2> QED
      BY CharsOfTexts
  <1> QED
    BY <1>1, <1>2 DEF Init, Typed

\* Resolve and exportEnv keep the types.
LEMMA TypedNext == ASSUME Typed, [Next]_vars PROVE Typed'
  <1>1. CASE ResolveKey
    BY <1>1 DEF ResolveKey, Typed
  <1>2. CASE ResolveEnds
    BY <1>2 DEF ResolveEnds, Typed
  <1>3. CASE ScanNext
    <2>1. pc = "scan" /\ scan \in [key : Names, src : Text, i : Nat \ {0}]
      BY <1>3 DEF ScanNext, Scanning, Typed
    <2> DEFINE S == {Len(scan.src) + 1} \union {j \in IndexesOf(scan.src, "$") : j > scan.i}
    <2>2. S \in SUBSET Nat /\ S # {} /\ 0 \notin S
      BY <2>1 DEF IndexesOf, Text
    <2>3. Min(S) \in Nat \ {0}
      BY <2>2, LeastIndex
    <2>4. scan' = [scan EXCEPT !.i = Min(S)]
      BY <1>3 DEF ScanNext
    <2> QED
      BY <1>3, <2>1, <2>3, <2>4 DEF ScanNext, Typed
  <1>4. CASE ScanPanics
    BY <1>4 DEF ScanPanics, Typed
  <1>5. CASE ScanReplaces
    <2>1. pc = "scan" /\ scan \in [key : Names, src : Text, i : Nat \ {0}]
      BY <1>5 DEF ScanReplaces, Scanning, Typed
    <2>2. Val \in Text /\ Val # <<>> /\ RightBrackets # {}
      BY <1>5, <2>1, ValueTyped DEF ScanReplaces, Skips, Val
    <2>3. RIndex \in Nat
      <3>1. RightBrackets \in SUBSET Nat
        <4>1. DOMAIN scan.src \subseteq Nat
          BY <2>1 DEF Text
        <4> QED
          BY <4>1 DEF RightBrackets, IndexesOf
      <3> QED
        BY <2>2, <3>1, LeastIndex DEF RIndex
    <2>4. Replace(scan.src, Placeholder(Env), Val) \in Text
      BY <2>1, <2>2, ReplaceTyped
    <2>5. scan' = [scan EXCEPT !.src = Replace(scan.src, Placeholder(Env), Val), !.i = RIndex + 1]
      BY <1>5 DEF ScanReplaces
    <2>6. scan' \in [key : Names, src : Text, i : Nat \ {0}]
      <3>1. RIndex + 1 \in Nat \ {0}
        BY <2>3
      <3> QED
        BY <2>1, <2>4, <2>5, <3>1
    <2> QED
      BY <1>5, <2>1, <2>6 DEF ScanReplaces, Typed
  <1>6. CASE ScanEnds
    BY <1>6 DEF ScanEnds, Typed
  <1>7. CASE WriteEnv
    <2>1. PICK k \in todo : /\ file' = file \o <<k, "=">> \o v[k] \o <<NewLine>>
                            /\ order' = Append(order, k)
      BY <1>7 DEF WriteEnv
    <2>2. k \in Names /\ k \in Chars /\ v[k] \in Seq(Chars)
      BY <2>1, CharsOfTexts DEF Typed, Text
    <2>3. file' \in Seq(Chars) /\ order' \in Seq(Names)
      BY <2>1, <2>2, CharsOfTexts DEF Typed, Text
    <2> QED
      BY <1>7, <2>3 DEF WriteEnv, Typed, Text
  <1>8. CASE OpenFile
    <2>1. file' \in Seq(Chars)
      BY <1>8, CharsOfTexts DEF OpenFile, Typed, Text
    <2> QED
      BY <1>8, <2>1 DEF OpenFile, Typed, Text
  <1>9. CASE ReadEnv
    <2>1. file' \in Seq(Chars)
      <3>1. Len(Line) \in Nat
        <4>1. IndexesOf(file, NewLine) \in SUBSET Nat /\ IndexesOf(file, NewLine) # {}
          BY <1>9 DEF ReadEnv, IndexesOf, Typed, Text
        <4>2. Min(IndexesOf(file, NewLine)) \in IndexesOf(file, NewLine)
          BY <4>1, LeastIndex
        <4>3. Min(IndexesOf(file, NewLine)) \in 1..Len(file)
          BY <4>2 DEF IndexesOf, Typed, Text
        <4> QED
          BY <4>3 DEF Line, Typed, Text
      <3>2. file' = SubSeq(file, Len(Line) + 2, Len(file))
        BY <1>9 DEF ReadEnv
      <3> QED
        BY <3>1, <3>2 DEF Typed, Text
    <2> QED
      BY <1>9, <2>1 DEF ReadEnv, Typed, Text
  <1>10. CASE ReadEnds
    BY <1>10 DEF ReadEnds, Typed
  <1>11. CASE UNCHANGED vars
    BY <1>11 DEF vars, Typed
  <1> QED
    BY <1>1, <1>2, <1>3, <1>4, <1>5, <1>6, <1>7, <1>8, <1>9, <1>10, <1>11
       DEF Next, Resolve

\* The variables, the scan and the file keep their types.
THEOREM TypeCorrect == Spec => []Typed
  BY TypedInit, TypedNext, PTL DEF Spec

-----------------------------------------------------------------------------
(***************************************************************************)
(* A line of the file, and what exportEnv makes of it                      *)
(***************************************************************************)
\* What no two of are equal; a text is compared with them.
LEMMA Marks ==
    /\ NewLine # Space /\ NewLine # "=" /\ Space # "="
    /\ TarHeader \notin {NewLine, Space, "="}
    /\ \A k \in Names : k \notin {NewLine, Space, "=", TarHeader, "$"}
  BY VariablesAssumption DEF VariablesAssumption, NewLine, Space, TarHeader

\* What a line is before and after it is joined to what is around it.
Entry(key, val) == key \o <<"=">> \o val
Broken(line, rest) == line \o <<NewLine>> \o rest

\* What exportEnv reads first of a text, and what is then left of it.
FirstOf(text) == SubSeq(text, 1, Min(IndexesOf(text, NewLine)) - 1)
LeftOf(text, line) == SubSeq(text, Len(line) + 2, Len(text))

\* A line is read up to its line break, and the rest is left.
LEMMA FirstLine ==
    ASSUME NEW line \in Text, NEW rest \in Text, IndexesOf(line, NewLine) = {},
           NEW text, text = Broken(line, rest)
    PROVE  /\ IndexesOf(text, NewLine) # {}
           /\ FirstOf(text) = line
           /\ LeftOf(text, line) = rest
  <1> DEFINE n == Len(line)
             I == IndexesOf(text, NewLine)
  <1>1. /\ text \in Seq(Chars) /\ n \in Nat /\ Len(text) = n + 1 + Len(rest)
        /\ \A i \in 1..n : text[i] = line[i]
        /\ text[n + 1] = NewLine
        /\ \A i \in 1..Len(rest) : text[n + 1 + i] = rest[i]
        /\ line \in Seq(Chars) /\ rest \in Seq(Chars)
    BY CharsOfTexts DEF Text, Broken
  <1>2. I \in SUBSET Nat /\ n + 1 \in I /\ \A i \in I : i >= n + 1
    <2>1. DOMAIN text = 1..Len(text) /\ DOMAIN line = 1..n
      BY <1>1
    <2>2. \A i \in 1..n : line[i] # NewLine
      BY <2>1 DEF IndexesOf
    <2>3. I = {i \in 1..Len(text) : text[i] = NewLine}
      BY <2>1 DEF IndexesOf
    <2>4. Len(rest) \in Nat /\ Len(text) \in Nat
      BY <1>1
    <2>5. n + 1 \in 1..Len(text)
      BY <1>1, <2>4
    <2> HIDE DEF I, n
    <2>6. ASSUME NEW i \in I PROVE i \in Nat /\ i >= n + 1
      <3>1. i \in 1..Len(text) /\ text[i] = NewLine
        BY <2>3
      <3>2. i \notin 1..n
        BY <1>1, <2>2, <3>1
      <3> QED
        BY <1>1, <2>4, <3>1, <3>2
    <2> QED
      BY <1>1, <2>3, <2>5, <2>6
  <1>3. Min(I) = n + 1
    <2>1. Min(I) \in I /\ \A x \in I : Min(I) <= x
      BY <1>2, LeastIndex
    <2> HIDE DEF I, n
    <2>2. Min(I) \in Nat /\ Min(I) >= n + 1 /\ Min(I) <= n + 1 /\ n \in Nat
      BY <1>1, <1>2, <2>1
    <2> QED
      BY <2>2
  <1>4. SubSeq(text, 1, n) = line
    <2>1. SubSeq(text, 1, n) \in Seq(Chars) /\ Len(SubSeq(text, 1, n)) = n
      BY <1>1
    <2>2. \A i \in 1..n : SubSeq(text, 1, n)[i] = line[i]
      BY <1>1
    <2> QED
      BY <1>1, <2>1, <2>2, SeqEqual
  <1>5. SubSeq(text, n + 2, Len(text)) = rest
    <2> DEFINE tail == SubSeq(text, n + 2, Len(text))
    <2>1. tail \in Seq(Chars) /\ Len(tail) = Len(rest)
      BY <1>1
    <2>2. \A i \in 1..Len(rest) : tail[i] = rest[i]
      BY <1>1
    <2> HIDE DEF tail
    <2>3. tail = rest
      BY <1>1, <2>1, <2>2, SeqEqual
    <2> QED
      BY <2>3 DEF tail
  <1>6. (n + 1) - 1 = n
    BY <1>1
  <1> QED
    BY <1>2, <1>3, <1>4, <1>5, <1>6 DEF FirstOf, LeftOf

\* TrimSpace leaves a text that does not begin with a space its beginning, up to
\* its last character that is none.
LEMMA TrimmedAtEnd ==
    ASSUME NEW line \in Text, Len(line) # 0, line[1] # Space
    PROVE  \E m \in 1..Len(line) :
               /\ TrimSpace(line) = SubSeq(line, 1, m)
               /\ \A i \in 1..Len(line) : line[i] # Space => i <= m
               /\ line[m] # Space
  <1> DEFINE solid == {i \in DOMAIN line : line[i] # Space}
  <1>1. line \in Seq(Chars) /\ Len(line) \in Nat /\ DOMAIN line = 1..Len(line)
    BY DEF Text
  <1>2. solid \in SUBSET (1..Len(line)) /\ 1 \in solid
    BY <1>1
  <1>3. Max(solid) \in solid /\ \A i \in solid : i <= Max(solid)
    BY <1>1, <1>2, GreatestIndex
  <1>4. Min(solid) = 1
    <2> HIDE DEF solid
    <2>0. solid \in SUBSET Nat /\ solid # {}
      BY <1>2
    <2>1. Min(solid) \in solid /\ \A x \in solid : Min(solid) <= x
      BY <2>0, LeastIndex
    <2>2. Min(solid) \in 1..Len(line) /\ Min(solid) <= 1
      BY <1>2, <2>1
    <2> QED
      BY <1>1, <2>2
  <1>5. TrimSpace(line) = SubSeq(line, Min(solid), Max(solid))
    BY <1>2 DEF TrimSpace
  <1> QED
    BY <1>1, <1>3, <1>4, <1>5

\* The key and the value that exportEnv finds in a line.
Equals(line) == IndexesOf(line, "=")
KeyOf(line) == SubSeq(line, 1, Min(Equals(line)) - 1)
ValueOf(line) == SubSeq(line, Min(Equals(line)) + 1, Len(line))

\* They are what was put before the first = and after it, as long as the value does
\* not end in a space.
LEMMA KeyAndValue ==
    ASSUME NEW key \in Text, NEW val \in Text, Len(key) # 0, key[1] # Space,
           Equals(key) = {},
           NEW line, line = TrimSpace(Entry(key, val))
    PROVE  /\ Equals(line) # {}
           /\ KeyOf(line) = key
           /\ ~Ends(val, Space) => ValueOf(line) = val
  <1> DEFINE n == Len(key)
             whole == Entry(key, val)
  <1>1. /\ whole \in Text /\ whole \in Seq(Chars)
        /\ n \in Nat \ {0} /\ Len(val) \in Nat /\ Len(whole) = n + 1 + Len(val)
        /\ \A i \in 1..n : whole[i] = key[i]
        /\ whole[n + 1] = "="
        /\ \A i \in 1..Len(val) : whole[n + 1 + i] = val[i]
        /\ key \in Seq(Chars) /\ val \in Seq(Chars)
    BY CharsOfTexts DEF Text, Entry
  <1> HIDE DEF whole
  <1>2. whole[1] # Space
    BY <1>1
  <1>3. PICK m \in 1..Len(whole) :
            /\ TrimSpace(whole) = SubSeq(whole, 1, m)
            /\ \A i \in 1..Len(whole) : whole[i] # Space => i <= m
            /\ whole[m] # Space
    <2>1. Len(whole) # 0
      BY <1>1
    <2> QED
      BY <1>1, <1>2, <2>1, TrimmedAtEnd
  <1>4. n + 1 <= m /\ m <= Len(whole)
    BY <1>1, <1>3, Marks
  <1>5. /\ line = SubSeq(whole, 1, m) /\ line \in Seq(Chars) /\ Len(line) = m
        /\ \A i \in 1..m : line[i] = whole[i]
    <2>1. line = TrimSpace(whole)
      BY DEF whole
    <2>2. line = SubSeq(whole, 1, m)
      BY <1>3, <2>1
    <2>3. /\ SubSeq(whole, 1, m) \in Seq(Chars) /\ Len(SubSeq(whole, 1, m)) = m
          /\ \A i \in 1..m : SubSeq(whole, 1, m)[i] = whole[i]
      BY <1>1, <1>3
    <2> QED
      BY <2>2, <2>3
  <1>6. Equals(line) \in SUBSET Nat /\ n + 1 \in Equals(line)
        /\ \A i \in Equals(line) : i >= n + 1
    <2>1. DOMAIN line = 1..m /\ DOMAIN key = 1..n
      BY <1>1, <1>5
    <2>2. \A i \in 1..n : key[i] # "="
      BY <2>1 DEF Equals, IndexesOf
    <2>3. Equals(line) = {i \in 1..m : line[i] = "="}
      BY <2>1 DEF Equals, IndexesOf
    <2> HIDE DEF n
    <2>4. ASSUME NEW i \in Equals(line) PROVE i \in Nat /\ i >= n + 1
      <3>1. i \in 1..m /\ line[i] = "="
        BY <2>3
      <3>2. i \notin 1..n
        BY <1>1, <1>5, <2>2, <3>1
      <3> QED
        BY <1>1, <3>1, <3>2
    <2>5. n + 1 \in 1..m /\ line[n + 1] = "="
      BY <1>1, <1>3, <1>4, <1>5
    <2> QED
      BY <2>3, <2>4, <2>5
  <1>7. Min(Equals(line)) = n + 1
    <2>1. Min(Equals(line)) \in Equals(line) /\ \A x \in Equals(line) : Min(Equals(line)) <= x
      BY <1>6, LeastIndex
    <2> QED
      BY <1>1, <1>6, <2>1
  <1>8. KeyOf(line) = key
    <2>1. SubSeq(line, 1, n) \in Seq(Chars) /\ Len(SubSeq(line, 1, n)) = n
      BY <1>1, <1>4, <1>5
    <2>2. \A i \in 1..n : SubSeq(line, 1, n)[i] = key[i]
      BY <1>1, <1>4, <1>5
    <2>3. SubSeq(line, 1, n) = key
      BY <1>1, <2>1, <2>2, SeqEqual
    <2>4. (n + 1) - 1 = n
      BY <1>1
    <2> QED
      BY <1>7, <2>3, <2>4 DEF KeyOf
  <1>9. ASSUME ~Ends(val, Space) PROVE ValueOf(line) = val
    <2>1. m = Len(whole)
      <3>1. CASE Len(val) = 0
        BY <1>1, <1>4, <3>1
      <3>2. CASE Len(val) # 0
        <4>1. val # <<>> /\ val[Len(val)] # Space
          BY <1>1, <1>9, <3>2, EmptySeq DEF Ends, Last
        <4>2. whole[Len(whole)] = val[Len(val)]
          BY <1>1, <3>2
        <4>3. Len(whole) \in 1..Len(whole) /\ Len(whole) <= m
          BY <1>1, <1>3, <4>1, <4>2
        <4> QED
          BY <1>3, <4>3
      <3> QED
        BY <3>1, <3>2
    <2> DEFINE tail == SubSeq(line, n + 2, m)
    <2>2. tail \in Seq(Chars) /\ Len(tail) = Len(val)
      BY <1>1, <1>5, <2>1
    <2>3. \A i \in 1..Len(val) : tail[i] = val[i]
      BY <1>1, <1>5, <2>1
    <2> HIDE DEF tail
    <2>4. tail = val
      BY <1>1, <2>2, <2>3, SeqEqual
    <2>5. (n + 1) + 1 = n + 2
      BY <1>1
    <2> QED
      BY <1>5, <1>7, <2>4, <2>5 DEF ValueOf, tail
  <1> QED
    BY <1>6, <1>8, <1>9

-----------------------------------------------------------------------------
(***************************************************************************)
(* The file, as it is written and read                                     *)
(***************************************************************************)
LineOf(k) == <<k, "=">> \o v[k]
Lines(n) == [j \in 1..(Len(order) - n) |-> LineOf(order[j + n]) \o <<NewLine>>]
Header(n) == IF docker /\ n = 0 THEN <<TarHeader>> ELSE <<>>
Written(k) == \E j \in 1..Len(order) : order[j] = k
Came(j) ==
    order[j] \in Filters /\ ~Ends(v[order[j]], Space) /\ (docker => j # 1) =>
        <<order[j]>> \in DOMAIN output /\ output[<<order[j]>>] = v[order[j]]
NoBreaks == \A k \in Names : IndexesOf(v[k], NewLine) = {}

\* The file holds the lines of the variables in the order in which they were
\* written; when n of them have been read, it holds the others, and the result has
\* what the n lines say.
FileInv ==
    /\ pc \in {"system", "own", "scan"} => file = <<>> /\ order = <<>>
    /\ pc = "write" => /\ \A k \in Names \ todo : Written(k)
                       /\ file = FlattenSeq(Lines(0))
    /\ pc \in {"read", "done"} => \A k \in Names : Written(k)
    /\ pc \in {"read", "done"} /\ NoBreaks =>
           \E n \in 0..Len(order) :
               /\ file = Header(n) \o FlattenSeq(Lines(n))
               /\ pc = "done" => n = Len(order)
               /\ \A j \in 1..n : Came(j)

\* The lines are texts: what is left is one line and then the others.
LEMMA LinesTyped ==
    ASSUME Typed, NEW n \in Nat, n <= Len(order)
    PROVE  /\ Lines(n) \in Seq(Text) /\ Len(Lines(n)) = Len(order) - n
           /\ FlattenSeq(Lines(n)) \in Text
  <1>1. order \in Seq(Names) /\ Len(order) \in Nat /\ v \in [Names -> Text]
    BY DEF Typed
  <1>2. ASSUME NEW k \in Names PROVE LineOf(k) \o <<NewLine>> \in Text
    <2>1. v[k] \in Seq(Chars) /\ k \in Chars
      BY <1>1, CharsOfTexts DEF Text
    <2> QED
      BY <2>1, CharsOfTexts DEF LineOf, Text
  <1>3. ASSUME NEW j \in 1..(Len(order) - n) PROVE LineOf(order[j + n]) \o <<NewLine>> \in Text
    <2>1. j + n \in 1..Len(order)
      BY <1>1
    <2>2. order[j + n] \in Names
      BY <1>1, <2>1
    <2> QED
      BY <1>2, <2>2
  <1>4. Len(order) - n \in Nat
    BY <1>1
  <1>5. Lines(n) \in [1..(Len(order) - n) -> Text]
    BY <1>3 DEF Lines
  <1>6. Lines(n) \in Seq(Text) /\ Len(Lines(n)) = Len(order) - n
    BY <1>4, <1>5
  <1> QED
    BY <1>6, FlattenAppend DEF Text

\* The next line comes before those that are left after it.
LEMMA NextLine ==
    ASSUME Typed, NEW n \in Nat, n < Len(order)
    PROVE  FlattenSeq(Lines(n)) =
               LineOf(order[n + 1]) \o <<NewLine>> \o FlattenSeq(Lines(n + 1))
  <1> DEFINE e == LineOf(order[n + 1]) \o <<NewLine>>
  <1>1. Len(order) \in Nat /\ n + 1 <= Len(order) /\ n <= Len(order) /\ n + 1 \in Nat
    BY DEF Typed
  <1>2. /\ Lines(n) \in Seq(Text) /\ Len(Lines(n)) = Len(order) - n
        /\ Lines(n + 1) \in Seq(Text) /\ Len(Lines(n + 1)) = Len(order) - (n + 1)
    BY <1>1, LinesTyped
  <1>3. ASSUME NEW j \in 1..(Len(order) - n) PROVE Lines(n)[j] = LineOf(order[j + n]) \o <<NewLine>>
    BY DEF Lines
  <1>4. ASSUME NEW j \in 1..(Len(order) - (n + 1))
        PROVE  Lines(n + 1)[j] = LineOf(order[j + (n + 1)]) \o <<NewLine>>
    BY DEF Lines
  <1>5. Lines(n)[1] = e
    <2>1. 1 \in 1..(Len(order) - n) /\ 1 + n = n + 1
      BY <1>1
    <2> QED
      BY <1>3, <2>1
  <1>6. e \in Text
    <2>1. 1 \in 1..Len(Lines(n))
      BY <1>1, <1>2
    <2>2. Lines(n)[1] \in Text
      BY <1>2, <2>1, ElementOfSeq
    <2> HIDE DEF e
    <2> QED
      BY <1>5, <2>2
  <1> HIDE DEF e
  <1>7. Lines(n) = <<e>> \o Lines(n + 1)
    <2> DEFINE both == <<e>> \o Lines(n + 1)
    <2>1. /\ both \in Seq(Text) /\ Len(both) = Len(order) - n /\ both[1] = e
          /\ \A j \in 1..(Len(order) - (n + 1)) : both[j + 1] = Lines(n + 1)[j]
      BY <1>1, <1>2, <1>6
    <2> HIDE DEF both
    <2>2. ASSUME NEW j \in 1..(Len(order) - n) PROVE Lines(n)[j] = both[j]
      <3>1. CASE j = 1
        BY <1>5, <2>1, <3>1
      <3>2. CASE j # 1
        <4> DEFINE i == j - 1
        <4>1. i \in 1..(Len(order) - (n + 1)) /\ i + 1 = j /\ i + (n + 1) = j + n
          BY <1>1, <3>2
        <4> QED
          BY <1>3, <1>4, <2>1, <4>1
      <3> QED
        BY <3>1, <3>2
    <2>3. Lines(n) = both
      BY <1>2, <2>1, <2>2, SeqEqual
    <2> QED
      BY <2>3 DEF both
  <1>8. FlattenSeq(Lines(n)) = e \o FlattenSeq(Lines(n + 1))
    BY <1>2, <1>6, <1>7, FlattenHead DEF Text
  <1> QED
    BY <1>8 DEF e

\* The last line is followed by nothing.
LEMMA NoMoreLines ==
    ASSUME Typed PROVE FlattenSeq(Lines(Len(order))) = <<>>
  <1>1. Lines(Len(order)) \in Seq(Text) /\ Len(Lines(Len(order))) = 0
    BY LinesTyped DEF Typed
  <1>2. Lines(Len(order)) = <<>>
    BY <1>1, EmptySeq
  <1>3. FlattenSeq(<<>>) = <<>>
    BY DEF FlattenSeq
  <1> QED
    BY <1>2, <1>3

\* A line may be added to what is before it at once or in its parts.
LEMMA LineJoins ==
    ASSUME NEW before \in Seq(Chars), NEW k \in Chars, NEW val \in Seq(Chars)
    PROVE  before \o <<k, "=">> \o val \o <<NewLine>> = before \o (<<k, "=">> \o val \o <<NewLine>>)
  <1> DEFINE parts == before \o <<k, "=">> \o val \o <<NewLine>>
             line == <<k, "=">> \o val \o <<NewLine>>
             whole == before \o line
             n == Len(before)
             m == Len(val)
  <1>1. /\ parts \in Seq(Chars) /\ Len(parts) = n + m + 3 /\ n \in Nat /\ m \in Nat
        /\ \A i \in 1..n : parts[i] = before[i]
        /\ parts[n + 1] = k /\ parts[n + 2] = "=" /\ parts[n + m + 3] = NewLine
        /\ \A i \in 1..m : parts[n + 2 + i] = val[i]
    BY CharsOfTexts
  <1>2. /\ line \in Seq(Chars) /\ Len(line) = m + 3
        /\ line[1] = k /\ line[2] = "=" /\ line[m + 3] = NewLine
        /\ \A i \in 1..m : line[2 + i] = val[i]
    BY CharsOfTexts
  <1> HIDE DEF line
  <1>3. /\ whole \in Seq(Chars) /\ Len(whole) = n + m + 3
        /\ \A i \in 1..n : whole[i] = before[i]
        /\ \A i \in 1..(m + 3) : whole[n + i] = line[i]
    <2>1. PICK l \in Seq(Chars) : l = line
      BY <1>2
    <2>2. Len(l) = m + 3 /\ n \in Nat /\ m \in Nat
      BY <1>1, <1>2, <2>1
    <2>3. /\ before \o l \in Seq(Chars) /\ Len(before \o l) = n + (m + 3)
          /\ \A i \in 1..n : (before \o l)[i] = before[i]
          /\ \A i \in 1..(m + 3) : (before \o l)[n + i] = l[i]
      BY <2>2
    <2> QED
      BY <2>1, <2>2, <2>3
  <1> HIDE DEF parts, whole
  <1>4. ASSUME NEW i \in 1..(n + m + 3) PROVE parts[i] = whole[i]
    <2>1. CASE i \in 1..n
      BY <1>1, <1>3, <2>1
    <2>2. CASE i \in {n + 1, n + 2, n + m + 3}
      BY <1>1, <1>2, <1>3, <2>2
    <2>3. CASE i \in (n + 3)..(n + m + 2)
      <3> DEFINE j == i - (n + 2)
      <3>1. j \in 1..m /\ n + 2 + j = i /\ n + (2 + j) = i /\ 2 + j \in 1..(m + 3)
        BY <1>1, <2>3
      <3> QED
        BY <1>1, <1>2, <1>3, <3>1
    <2> HIDE DEF n, m
    <2>4. i \in 1..n \/ i \in {n + 1, n + 2, n + m + 3} \/ i \in (n + 3)..(n + m + 2)
      BY <1>1
    <2> QED
      BY <2>1, <2>2, <2>3, <2>4
  <1>5. parts = whole
    BY <1>1, <1>3, <1>4, SeqEqual
  <1> QED
    BY <1>5 DEF parts, whole, line

\* ToStringArray adds a line at the end of the file.
LEMMA LinesWritten ==
    ASSUME Typed, WriteEnv, file = FlattenSeq(Lines(0))
    PROVE  (file = FlattenSeq(Lines(0)))'
  <1>1. PICK k \in todo : /\ file' = file \o <<k, "=">> \o v[k] \o <<NewLine>>
                          /\ order' = Append(order, k)
    BY DEF WriteEnv
  <1> DEFINE e == LineOf(k) \o <<NewLine>>
  <1>2. /\ k \in Names /\ v' = v /\ order \in Seq(Names) /\ Len(order) \in Nat
        /\ v[k] \in Seq(Chars) /\ k \in Chars /\ file \in Seq(Chars)
    BY <1>1, CharsOfTexts DEF Typed, WriteEnv, Text
  <1>3. e \in Text
    BY <1>2, CharsOfTexts DEF LineOf, Text
  <1>4. file' = file \o e
    <2>1. <<k, "=">> \in Seq(Chars) /\ <<NewLine>> \in Seq(Chars)
      BY <1>2, CharsOfTexts
    <2>4. file \o <<k, "=">> \o v[k] \o <<NewLine>> = file \o (<<k, "=">> \o v[k] \o <<NewLine>>)
      BY <1>2, LineJoins
    <2> QED
      BY <1>1, <2>4 DEF LineOf
  <1>5. Lines(0) \in Seq(Text) /\ Len(Lines(0)) = Len(order)
    BY <1>2, LinesTyped
  <1>6. Lines(0)' = Append(Lines(0), e)
    <2> DEFINE more == [j \in 1..Len(order') |-> LineOf(order'[j]) \o <<NewLine>>]
    <2>1. /\ Len(order') = Len(order) + 1 /\ order'[Len(order) + 1] = k
          /\ \A j \in 1..Len(order) : order'[j] = order[j]
      BY <1>1, <1>2
    <2>2. Lines(0)' = more
      <3>1. \A i : LineOf(i)' = LineOf(i)
        BY <1>2 DEF LineOf
      <3>2. Len(order') \in Nat /\ Len(order') - 0 = Len(order')
        BY <1>2, <2>1
      <3>3. \A j \in 1..Len(order') : j + 0 = j
        BY <3>2
      <3> QED
        BY <1>2, <3>2, <3>3 DEF Lines, LineOf
    <2>3. ASSUME NEW j \in 1..Len(order) PROVE Lines(0)[j] = LineOf(order[j]) \o <<NewLine>>
      <3>1. j + 0 = j /\ Len(order) - 0 = Len(order)
        BY <1>2
      <3> QED
        BY <1>2, <3>1 DEF Lines
    <2> DEFINE both == Append(Lines(0), e)
    <2>4. /\ both \in Seq(Text) /\ Len(both) = Len(order) + 1 /\ both[Len(order) + 1] = e
          /\ \A j \in 1..Len(order) : both[j] = Lines(0)[j]
      BY <1>2, <1>3, <1>5
    <2> HIDE DEF both
    <2>5. more \in Seq(Text) /\ Len(more) = Len(order) + 1
      <3>1. ASSUME NEW j \in 1..Len(order') PROVE LineOf(order'[j]) \o <<NewLine>> \in Text
        <4>1. j \in 1..Len(order) \/ j = Len(order) + 1
          BY <1>2, <2>1
        <4>2. CASE j \in 1..Len(order)
          <5>1. Lines(0)[j] \in Text
            BY <1>5, <4>2
          <5> QED
            BY <2>1, <2>3, <4>2, <5>1
        <4>3. CASE j = Len(order) + 1
          BY <1>3, <2>1, <4>3
        <4> QED
          BY <4>1, <4>2, <4>3
      <3>2. more \in [1..Len(order') -> Text]
        BY <3>1
      <3> HIDE DEF more
      <3> QED
        BY <1>2, <2>1, <3>2
    <2>6. ASSUME NEW j \in 1..(Len(order) + 1) PROVE more[j] = both[j]
      <3>1. more[j] = LineOf(order'[j]) \o <<NewLine>>
        BY <2>1
      <3> HIDE DEF more
      <3>2. CASE j \in 1..Len(order)
        BY <2>1, <2>3, <2>4, <3>1, <3>2
      <3>3. CASE j = Len(order) + 1
        BY <2>1, <2>4, <3>1, <3>3
      <3> QED
        BY <1>2, <3>2, <3>3
    <2> HIDE DEF more, e
    <2>7. more = both
      BY <1>2, <2>4, <2>5, <2>6, SeqEqual
    <2> QED
      BY <2>2, <2>7 DEF both
  <1> HIDE DEF e
  <1>7. FlattenSeq(Append(Lines(0), e)) = FlattenSeq(Lines(0)) \o e
    BY <1>3, <1>5, FlattenAppend DEF Text
  <1>8. FlattenSeq(Lines(0))' = FlattenSeq(Lines(0)')
    OBVIOUS
  <1> QED
    BY <1>4, <1>6, <1>7, <1>8

\* What a docker daemon puts before the file is before its first line.
LEMMA HeaderJoins ==
    ASSUME NEW head \in Seq(Chars), NEW k \in Chars, NEW val \in Seq(Chars), NEW rest \in Seq(Chars)
    PROVE  Cat(head, Broken(Entry(<<k>>, val), rest)) = Broken(Entry(Cat(head, <<k>>), val), rest)
  <1> DEFINE n == Len(head)
             m == Len(val)
             r == Len(rest)
  <1> DEFINE line == <<k>> \o <<"=">> \o val \o <<NewLine>> \o rest
             right == (head \o <<k>> \o <<"=">> \o val) \o <<NewLine>> \o rest
  <1>2. /\ line \in Seq(Chars)
        /\ n \in Nat /\ m \in Nat /\ r \in Nat /\ Len(line) = 2 + m + 1 + r
        /\ line[1] = k /\ line[2] = "=" /\ line[m + 3] = NewLine
        /\ \A i \in 1..m : line[2 + i] = val[i]
        /\ \A i \in 1..r : line[m + 3 + i] = rest[i]
    BY CharsOfTexts
  <1>4. /\ right \in Seq(Chars) /\ Len(right) = n + 3 + m + r
        /\ \A i \in 1..n : right[i] = head[i]
        /\ right[n + 1] = k /\ right[n + 2] = "=" /\ right[n + m + 3] = NewLine
        /\ \A i \in 1..m : right[n + 2 + i] = val[i]
        /\ \A i \in 1..r : right[n + m + 3 + i] = rest[i]
    BY CharsOfTexts
  <1> DEFINE left == head \o line
  <1>6. /\ left \in Seq(Chars) /\ Len(left) = n + 3 + m + r
        /\ \A i \in 1..n : left[i] = head[i]
        /\ \A i \in 1..(m + 3 + r) : left[n + i] = line[i]
    <2> HIDE DEF line
    <2>1. PICK l \in Seq(Chars) : l = line
      BY <1>2
    <2>2. /\ head \o l \in Seq(Chars) /\ Len(head \o l) = n + Len(l)
          /\ \A i \in 1..n : (head \o l)[i] = head[i]
          /\ \A i \in 1..Len(l) : (head \o l)[n + i] = l[i]
      OBVIOUS
    <2>3. left = head \o l /\ Len(l) = m + 3 + r /\ n + (m + 3 + r) = n + 3 + m + r
      BY <1>2, <2>1
    <2> QED
      BY <2>1, <2>2, <2>3
  <1> HIDE DEF line, left, right
  <1>7. ASSUME NEW i \in 1..(n + 3 + m + r) PROVE left[i] = right[i]
    <2>1. CASE i \in 1..n
      BY <1>4, <1>6, <2>1
    <2>2. CASE i \in {n + 1, n + 2, n + m + 3}
      <3>1. 1 \in 1..(m + 3 + r) /\ 2 \in 1..(m + 3 + r) /\ m + 3 \in 1..(m + 3 + r)
            /\ n + (m + 3) = n + m + 3
        BY <1>2
      <3>2. left[n + 1] = k /\ left[n + 2] = "=" /\ left[n + m + 3] = NewLine
        <4>1. left[n + 1] = line[1] /\ left[n + 2] = line[2] /\ left[n + (m + 3)] = line[m + 3]
          BY <1>6, <3>1
        <4> QED
          BY <1>2, <3>1, <4>1
      <3> QED
        BY <1>4, <2>2, <3>2
    <2>3. CASE i \in (n + 3)..(n + m + 2)
      <3> DEFINE j == i - (n + 2)
      <3>1. j \in 1..m /\ n + 2 + j = i /\ n + (2 + j) = i /\ 2 + j \in 1..(m + 3 + r)
        BY <1>2, <2>3
      <3> QED
        BY <1>2, <1>4, <1>6, <3>1
    <2>4. CASE i \in (n + m + 4)..(n + 3 + m + r)
      <3> DEFINE j == i - (n + m + 3)
      <3>1. /\ j \in 1..r /\ n + m + 3 + j = i /\ n + (m + 3 + j) = i
            /\ m + 3 + j \in 1..(m + 3 + r)
        BY <1>2, <2>4
      <3> QED
        BY <1>2, <1>4, <1>6, <3>1
    <2> HIDE DEF n, m, r
    <2>5. \/ i \in 1..n \/ i \in {n + 1, n + 2, n + m + 3} \/ i \in (n + 3)..(n + m + 2)
          \/ i \in (n + m + 4)..(n + 3 + m + r)
      BY <1>2
    <2> QED
      BY <2>1, <2>2, <2>3, <2>4, <2>5
  <1>8. left = right
    BY <1>4, <1>6, <1>7, SeqEqual
  <1> QED
    BY <1>8 DEF left, line, right, Cat, Entry, Broken

\* The reader finds the next line, with its key and its value, and leaves the others.
LEMMA ReadsLine ==
    ASSUME Typed, NoBreaks, NEW n \in Nat, n < Len(order),
           file = Header(n) \o FlattenSeq(Lines(n)),
           NEW k, k = order[n + 1]
    PROVE  /\ IndexesOf(file, NewLine) # {}
           /\ LeftOf(file, Line) = FlattenSeq(Lines(n + 1))
           /\ Equals(TrimSpace(Line)) # {}
           /\ KeyOf(TrimSpace(Line)) = Cat(Header(n), <<k>>)
           /\ ~Ends(v[k], Space) => ValueOf(TrimSpace(Line)) = v[k]
  <1>1. /\ k \in Names /\ k \in Chars /\ v[k] \in Seq(Chars) /\ Len(order) \in Nat
        /\ n + 1 \in Nat /\ n + 1 <= Len(order)
    <2>1. order \in Seq(Names) /\ v \in [Names -> Text]
      BY DEF Typed
    <2>2. /\ Len(order) \in Nat /\ n + 1 \in Nat /\ n + 1 <= Len(order)
          /\ n + 1 \in 1..Len(order)
      BY <2>1
    <2>3. k \in Names
      BY <2>1, <2>2
    <2>4. k \in Chars /\ v[k] \in Seq(Chars)
      BY <2>1, <2>3, CharsOfTexts DEF Text
    <2> QED
      BY <2>2, <2>3, <2>4
  <1>2. PICK head \in Seq(Chars) : head = Header(n)
    <2>1. <<>> \in Seq(Chars) /\ <<TarHeader>> \in Seq(Chars)
      BY CharsOfTexts
    <2> QED
      BY <2>1 DEF Header
  <1>3. PICK val \in Seq(Chars) : val = v[k]
    BY <1>1
  <1>4. PICK rest \in Seq(Chars) : rest = FlattenSeq(Lines(n + 1))
    BY <1>1, LinesTyped DEF Text
  <1>5. PICK key \in Seq(Chars) : key = Cat(head, <<k>>)
    <2>1. Cat(head, <<k>>) \in Seq(Chars)
      BY <1>1 DEF Cat
    <2> QED
      BY <2>1
  <1>6. PICK line \in Seq(Chars) : line = Entry(key, val)
    <2>1. Entry(key, val) \in Seq(Chars)
      BY CharsOfTexts DEF Entry
    <2> QED
      BY <2>1
  <1>7. file = Broken(line, rest)
    <2>1. FlattenSeq(Lines(n)) = LineOf(k) \o <<NewLine>> \o rest
      BY <1>4, NextLine
    <2>2. LineOf(k) = Entry(<<k>>, val)
      <3> DEFINE one == <<k, "=">> \o val
                 two == <<k>> \o <<"=">> \o val
      <3>0. <<k, "=">> \in Seq(Chars) /\ <<k>> \in Seq(Chars) /\ <<"=">> \in Seq(Chars)
            /\ Len(val) \in Nat
        BY <1>1, CharsOfTexts
      <3>1. /\ one \in Seq(Chars) /\ Len(one) = 2 + Len(val)
            /\ one[1] = k /\ one[2] = "=" /\ \A i \in 1..Len(val) : one[2 + i] = val[i]
        <4>1. one \in Seq(Chars) /\ Len(one) = 2 + Len(val)
          BY <3>0
        <4>2. one[1] = k /\ one[2] = "="
          BY <3>0
        <4>3. \A i \in 1..Len(val) : one[2 + i] = val[i]
          BY <3>0
        <4> QED
          BY <4>1, <4>2, <4>3
      <3>2. /\ two \in Seq(Chars) /\ Len(two) = 2 + Len(val)
            /\ two[1] = k /\ two[2] = "=" /\ \A i \in 1..Len(val) : two[2 + i] = val[i]
        <4>1. two \in Seq(Chars) /\ Len(two) = 2 + Len(val)
          BY <3>0
        <4>2. two[1] = k /\ two[2] = "="
          BY <3>0
        <4>3. \A i \in 1..Len(val) : two[2 + i] = val[i]
          BY <3>0
        <4> QED
          BY <4>1, <4>2, <4>3
      <3> HIDE DEF one, two
      <3>3. ASSUME NEW i \in 1..(2 + Len(val)) PROVE one[i] = two[i]
        <4>1. i = 1 \/ i = 2 \/ (i - 2 \in 1..Len(val) /\ 2 + (i - 2) = i)
          BY <3>0
        <4> QED
          BY <3>1, <3>2, <4>1
      <3>4. one = two
        BY <3>1, <3>2, <3>3, SeqEqual
      <3> QED
        BY <1>3, <3>4 DEF LineOf, Entry, one, two
    <2>3. FlattenSeq(Lines(n)) = Broken(Entry(<<k>>, val), rest)
      BY <2>1, <2>2 DEF Broken
    <2>4. file = Cat(head, Broken(Entry(<<k>>, val), rest))
      BY <1>2, <2>3 DEF Cat
    <2>5. Cat(head, Broken(Entry(<<k>>, val), rest)) = Broken(Entry(Cat(head, <<k>>), val), rest)
      BY <1>1, HeaderJoins
    <2> QED
      BY <1>5, <1>6, <2>4, <2>5
  <1>8. /\ Len(key) \in Nat \ {0}
        /\ \A i \in 1..Len(key) : key[i] \notin {NewLine, "=", Space}
    <2>1. head = <<>> \/ head = <<TarHeader>>
      BY <1>2 DEF Header
    <2>2. /\ Len(key) = Len(head) + 1 /\ Len(head) \in Nat /\ key[Len(head) + 1] = k
          /\ \A i \in 1..Len(head) : key[i] = head[i]
      BY <1>1, <1>5 DEF Cat
    <2>3. \A i \in 1..Len(head) : head[i] = TarHeader
      BY <2>1
    <2>4. TarHeader \notin {NewLine, "=", Space} /\ k \notin {NewLine, "=", Space}
      BY <1>1, Marks
    <2>5. ASSUME NEW i \in 1..Len(key) PROVE key[i] \notin {NewLine, "=", Space}
      <3>1. i \in 1..Len(head) \/ i = Len(head) + 1
        BY <2>2
      <3>2. CASE i \in 1..Len(head)
        BY <2>2, <2>3, <2>4, <3>2
      <3>3. CASE i = Len(head) + 1
        BY <2>2, <2>4, <3>3
      <3> QED
        BY <3>1, <3>2, <3>3
    <2>6. Len(key) \in Nat \ {0}
      BY <2>2
    <2> QED
      BY <2>5, <2>6
  <1>9. IndexesOf(line, NewLine) = {}
    <2>1. IndexesOf(val, NewLine) = {}
      BY <1>1, <1>3 DEF NoBreaks
    <2>2. \A i \in 1..Len(val) : val[i] # NewLine
      BY <2>1 DEF IndexesOf
    <2>3. /\ Len(val) \in Nat /\ Len(line) = Len(key) + 1 + Len(val) /\ line[Len(key) + 1] = "="
          /\ \A i \in 1..Len(key) : line[i] = key[i]
          /\ \A i \in 1..Len(val) : line[Len(key) + 1 + i] = val[i]
      BY <1>6, <1>8, CharsOfTexts DEF Entry
    <2>4. ASSUME NEW i \in 1..Len(line) PROVE line[i] # NewLine
      <3>1. CASE i \in 1..Len(key)
        BY <1>8, <2>3, <3>1
      <3>2. CASE i = Len(key) + 1
        BY <2>3, <3>2, Marks
      <3>3. CASE i > Len(key) + 1
        <4> DEFINE j == i - (Len(key) + 1)
        <4>1. j \in 1..Len(val) /\ Len(key) + 1 + j = i
          BY <1>8, <2>3, <3>3
        <4> QED
          BY <2>2, <2>3, <4>1
      <3> QED
        BY <1>8, <2>3, <3>1, <3>2, <3>3
    <2> QED
      BY <2>4 DEF IndexesOf
  <1>10. /\ IndexesOf(file, NewLine) # {} /\ Line = line
         /\ LeftOf(file, line) = rest
    <2>1. line \in Text /\ rest \in Text
      BY DEF Text
    <2>2. /\ IndexesOf(file, NewLine) # {}
          /\ FirstOf(file) = line /\ LeftOf(file, line) = rest
      BY <1>7, <1>9, <2>1, FirstLine
    <2> QED
      BY <2>2 DEF Line, FirstOf
  <1>11. /\ Equals(TrimSpace(line)) # {} /\ KeyOf(TrimSpace(line)) = key
         /\ ~Ends(val, Space) => ValueOf(TrimSpace(line)) = val
    <2>1. Len(key) # 0 /\ key[1] # Space /\ Equals(key) = {}
      BY <1>8 DEF Equals, IndexesOf
    <2> QED
      BY <1>6, <2>1, KeyAndValue DEF Text
  <1> QED
    BY <1>2, <1>3, <1>4, <1>5, <1>10, <1>11

\* A new job has written nothing.
LEMMA FileInit == Init => FileInv
  BY DEF Init, FileInv

\* A line that a filter names comes into the result; what came before it stays.
LEMMA ReadsVariable ==
    ASSUME Typed, FileInv, ReadEnv, NoBreaks
    PROVE  \E n \in 0..Len(order) :
               /\ file' = FlattenSeq(Lines(n)) /\ n > 0
               /\ \A j \in 1..n : Came(j)'
  <1>1. PICK n \in 0..Len(order) : /\ file = Header(n) \o FlattenSeq(Lines(n))
                                   /\ \A j \in 1..n : Came(j)
    BY DEF FileInv, ReadEnv
  <1>2. Len(order) \in Nat /\ n \in Nat /\ order \in Seq(Names) /\ v \in [Names -> Text]
    BY <1>1 DEF Typed
  <1>3. n < Len(order)
    <2> SUFFICES ASSUME n = Len(order) PROVE FALSE
      BY <1>2
    <2>1. FlattenSeq(Lines(n)) = <<>>
      BY NoMoreLines
    <2>2. Header(n) = <<>> \/ Header(n) = <<TarHeader>>
      BY DEF Header
    <2>3. file = <<>> \/ file = <<TarHeader>>
      BY <1>1, <2>1, <2>2
    <2>4. IndexesOf(file, NewLine) = {}
      BY <2>3, Marks DEF IndexesOf
    <2> QED
      BY <2>4 DEF ReadEnv
  <1> DEFINE k == order[n + 1]
             line == TrimSpace(Line)
             key == KeyOf(line)
  <1>4. /\ LeftOf(file, Line) = FlattenSeq(Lines(n + 1))
        /\ Equals(line) # {} /\ key = Cat(Header(n), <<k>>)
        /\ ~Ends(v[k], Space) => ValueOf(line) = v[k]
    BY <1>1, <1>2, <1>3, ReadsLine
  <1>5. k \in Names
    BY <1>2, <1>3
  <1>6. /\ file' = FlattenSeq(Lines(n + 1))
        /\ output' = IF ~MatchEnvFilter(key) THEN output
                     ELSE [x \in DOMAIN output \union {key} |->
                              IF x = key THEN ValueOf(line) ELSE output[x]]
        /\ UNCHANGED <<v, docker, order>>
    BY <1>4 DEF ReadEnv, LeftOf, Equals, KeyOf, ValueOf
  <1> HIDE DEF line, key
  <1>7. ASSUME docker, n = 0 PROVE ~MatchEnvFilter(key)
    <2>1. key = Cat(<<TarHeader>>, <<k>>)
      BY <1>4, <1>7 DEF Header
    <2>2. key[1] = TarHeader
      BY <1>5, <2>1, CharsOfTexts DEF Cat
    <2>3. TarHeader \notin Filters
      BY Marks, VariablesAssumption DEF VariablesAssumption
    <2> QED
      BY <2>2, <2>3 DEF MatchEnvFilter
  <1>8. ASSUME ~(docker /\ n = 0) PROVE key = <<k>>
    <2>1. key = Cat(<<>>, <<k>>)
      BY <1>4, <1>8 DEF Header
    <2> QED
      BY <1>5, <2>1, CharsOfTexts DEF Cat
  <1>9. ASSUME NEW j \in 1..(n + 1) PROVE Came(j)'
    <2>1. order[j] \in Names /\ order' = order /\ v' = v /\ docker' = docker
      BY <1>2, <1>3, <1>6, <1>9
    <2> SUFFICES ASSUME order[j] \in Filters, ~Ends(v[order[j]], Space), docker => j # 1
                 PROVE  <<order[j]>> \in DOMAIN output' /\ output'[<<order[j]>>] = v[order[j]]
      BY <2>1 DEF Came
    <2>2. CASE ~MatchEnvFilter(key)
      <3>1. j \in 1..n
        <4> SUFFICES ASSUME j = n + 1 PROVE FALSE
          BY <1>2
        <4>1. key = <<k>> /\ k \in Filters
          BY <1>2, <1>8
        <4> QED
          BY <2>2, <4>1 DEF MatchEnvFilter
      <3>2. output' = output
        BY <1>6, <2>2
      <3> QED
        BY <1>1, <3>1, <3>2 DEF Came
    <2>3. CASE MatchEnvFilter(key)
      <3>1. key = <<k>>
        BY <1>7, <1>8, <2>3
      <3>2. output' = [x \in DOMAIN output \union {<<k>>} |->
                          IF x = <<k>> THEN ValueOf(line) ELSE output[x]]
        BY <1>6, <2>3, <3>1
      <3>3. CASE order[j] = k
        <4>1. ValueOf(line) = v[k]
          BY <1>4, <3>3
        <4> QED
          BY <3>2, <3>3, <4>1
      <3>4. CASE order[j] # k
        <4>1. j \in 1..n
          BY <1>2, <3>4
        <4>2. <<order[j]>> \in DOMAIN output /\ output[<<order[j]>>] = v[order[j]]
          BY <1>1, <4>1 DEF Came
        <4>3. <<order[j]>> # <<k>>
          BY <3>4
        <4> HIDE DEF k
        <4> QED
          BY <3>2, <4>2, <4>3
      <3> QED
        BY <3>3, <3>4
    <2> QED
      BY <2>2, <2>3
  <1> DEFINE m == n + 1
  <1>10. m \in 0..Len(order) /\ m > 0
    BY <1>2, <1>3
  <1> QED
    BY <1>6, <1>9, <1>10

\* What the lines are does not change unless the variables or the file do.
LEMMA FileStays ==
    ASSUME UNCHANGED <<v, docker, order, file, output>>, NEW n
    PROVE  /\ Header(n)' = Header(n) /\ FlattenSeq(Lines(n))' = FlattenSeq(Lines(n))
           /\ Came(n) => Came(n)'
  BY DEF Header, Lines, LineOf, Came

\* Every step keeps to the lines.
LEMMA FileNext == ASSUME Typed, FileInv, [Next]_vars PROVE FileInv'
  <1>1. CASE ResolveKey
    BY <1>1 DEF ResolveKey, FileInv
  <1>2. CASE ResolveEnds
    <2>1. file' = <<>> /\ order' = <<>>
      BY <1>2 DEF ResolveEnds, FileInv
    <2>2. Lines(0)' = <<>>
      BY <2>1 DEF Lines
    <2>3. FlattenSeq(Lines(0))' = <<>>
      BY <2>2 DEF FlattenSeq
    <2> QED
      BY <1>2, <2>1, <2>3 DEF ResolveEnds, FileInv
  <1>3. CASE ScanNext \/ ScanPanics \/ ScanReplaces \/ ScanEnds
    BY <1>3 DEF ScanNext, ScanPanics, ScanReplaces, ScanEnds, Scanning, Typed, FileInv
  <1>4. CASE WriteEnv
    <2>1. pc = "write" /\ pc' = "write" /\ todo' \subseteq todo
      BY <1>4 DEF WriteEnv
    <2>2. (file = FlattenSeq(Lines(0)))'
      BY <1>4, <2>1, LinesWritten DEF FileInv
    <2>3. ASSUME NEW k \in Names \ todo' PROVE Written(k)'
      <3>1. PICK x \in todo : order' = Append(order, x) /\ todo' = todo \ {x}
        BY <1>4 DEF WriteEnv
      <3>2. /\ Len(order') = Len(order) + 1 /\ order'[Len(order) + 1] = x /\ Len(order) \in Nat
            /\ \A j \in 1..Len(order) : order'[j] = order[j]
        BY <3>1 DEF Typed
      <3>3. CASE k = x
        BY <3>2, <3>3 DEF Written
      <3>4. CASE k # x
        <4>1. PICK j \in 1..Len(order) : order[j] = k
          BY <2>1, <3>1, <3>4 DEF FileInv, Written
        <4> QED
          BY <3>2, <4>1 DEF Written
      <3> QED
        BY <3>3, <3>4
    <2> QED
      BY <2>1, <2>2, <2>3 DEF FileInv
  <1>5. CASE OpenFile
    <2>1. /\ file = FlattenSeq(Lines(0)) /\ pc' = "read"
          /\ \A k \in Names : Written(k)
          /\ UNCHANGED <<v, docker, order>>
      BY <1>5 DEF OpenFile, FileInv
    <2>2. FlattenSeq(Lines(0)) \in Seq(Chars) /\ Len(order) \in Nat
      BY LinesTyped DEF Typed, Text
    <2>3. /\ \A k \in Names : Written(k)'
          /\ Header(0)' = (IF docker THEN <<TarHeader>> ELSE <<>>)
          /\ FlattenSeq(Lines(0))' = FlattenSeq(Lines(0))
      BY <2>1 DEF Written, Header, Lines, LineOf
    <2>4. file' = Header(0)' \o FlattenSeq(Lines(0))'
      <3>1. <<>> \o FlattenSeq(Lines(0)) = FlattenSeq(Lines(0))
        BY <2>2
      <3> QED
        BY <1>5, <2>1, <2>3, <3>1 DEF OpenFile
    <2>5. 0 \in 0..Len(order') /\ \A j \in 1..0 : Came(j)'
      BY <2>1, <2>2
    <2> QED
      BY <2>1, <2>3, <2>4, <2>5 DEF FileInv
  <1>6. CASE ReadEnv
    <2>1. pc' = "read" /\ UNCHANGED <<v, docker, order>> /\ pc = "read"
      BY <1>6 DEF ReadEnv
    <2>2. \A k \in Names : Written(k)'
      BY <2>1 DEF FileInv, Written
    <2>3. ASSUME NoBreaks' PROVE
            \E n \in 0..Len(order) : /\ file' = Header(n)' \o FlattenSeq(Lines(n))'
                                     /\ \A j \in 1..n : Came(j)'
      <3>1. NoBreaks
        BY <2>1, <2>3 DEF NoBreaks
      <3>2. PICK n \in 0..Len(order) : /\ file' = FlattenSeq(Lines(n)) /\ n > 0
                                       /\ \A j \in 1..n : Came(j)'
        BY <1>6, <3>1, ReadsVariable
      <3>3. Header(n)' = <<>> /\ FlattenSeq(Lines(n))' = FlattenSeq(Lines(n))
        BY <2>1, <3>2 DEF Header, Lines, LineOf
      <3>4. FlattenSeq(Lines(n)) \in Seq(Chars)
        BY LinesTyped DEF Typed, Text
      <3>5. <<>> \o FlattenSeq(Lines(n)) = FlattenSeq(Lines(n))
        BY <3>4
      <3> QED
        BY <3>2, <3>3, <3>5
    <2> QED
      BY <2>1, <2>2, <2>3 DEF FileInv
  <1>7. CASE ReadEnds
    <2>1. /\ pc = "read" /\ pc' = "done" /\ IndexesOf(file, NewLine) = {}
          /\ UNCHANGED <<v, docker, order, file, output>>
      BY <1>7 DEF ReadEnds
    <2>2. ASSUME NoBreaks PROVE
            \E n \in 0..Len(order) : /\ file = Header(n) \o FlattenSeq(Lines(n))
                                     /\ n = Len(order)
                                     /\ \A j \in 1..n : Came(j)
      <3>1. PICK n \in 0..Len(order) : /\ file = Header(n) \o FlattenSeq(Lines(n))
                                       /\ \A j \in 1..n : Came(j)
        BY <2>1, <2>2 DEF FileInv
      <3>2. n \in Nat /\ Len(order) \in Nat
        BY <3>1 DEF Typed
      <3>3. ~ n < Len(order)
        BY <2>1, <2>2, <3>1, <3>2, ReadsLine
      <3>4. n = Len(order)
        BY <3>2, <3>3
      <3> QED
        BY <3>1, <3>4
    <2>3. ASSUME NoBreaks' PROVE
            \E n \in 0..Len(order') : /\ file' = Header(n)' \o FlattenSeq(Lines(n))'
                                      /\ n = Len(order')
                                      /\ \A j \in 1..n : Came(j)'
      <3>1. NoBreaks /\ order' = order /\ file' = file
        BY <2>1, <2>3 DEF NoBreaks
      <3>2. PICK n \in 0..Len(order) : /\ file = Header(n) \o FlattenSeq(Lines(n))
                                       /\ n = Len(order)
                                       /\ \A j \in 1..n : Came(j)
        BY <2>2, <3>1
      <3> QED
        BY <2>1, <3>1, <3>2, FileStays
    <2> QED
      BY <2>1, <2>3 DEF FileInv, Written
  <1>8. CASE UNCHANGED vars
    <2>1. UNCHANGED <<pc, todo, v, docker, order, file, output>>
      BY <1>8 DEF vars
    <2>2. NoBreaks' => NoBreaks
      BY <2>1 DEF NoBreaks
    <2>3. \A k : Written(k) => Written(k)'
      BY <2>1 DEF Written
    <2>4. FlattenSeq(Lines(0))' = FlattenSeq(Lines(0))
      BY <2>1, FileStays
    <2>5. ASSUME pc \in {"read", "done"}, NoBreaks PROVE
            \E n \in 0..Len(order') : /\ file' = Header(n)' \o FlattenSeq(Lines(n))'
                                      /\ pc' = "done" => n = Len(order')
                                      /\ \A j \in 1..n : Came(j)'
      <3>1. PICK n \in 0..Len(order) : /\ file = Header(n) \o FlattenSeq(Lines(n))
                                       /\ pc = "done" => n = Len(order)
                                       /\ \A j \in 1..n : Came(j)
        BY <2>5 DEF FileInv
      <3> QED
        BY <2>1, <3>1, FileStays
    <2> QED
      BY <2>1, <2>2, <2>3, <2>4, <2>5 DEF FileInv
  <1> QED
    BY <1>1, <1>2, <1>3, <1>4, <1>5, <1>6, <1>7, <1>8 DEF Next, Resolve

\* A variable that a filter names comes back in the result with the value the
\* script had: exportEnv reads back what ToStringArray has written, whatever the
\* values are, unless one has a line break or its own ends in a space, and but for
\* the first one of the file of a container.
THEOREM ExportFaithful == Spec => []ExportIsFaithful
  <1>1. Typed /\ FileInv => ExportIsFaithful
    <2> SUFFICES ASSUME Typed, FileInv, pc = "done", NoBreaks, NEW k \in Filters,
                        ~Ends(v[k], Space), docker => order[1] # k
                 PROVE  <<k>> \in DOMAIN output /\ output[<<k>>] = v[k]
      BY DEF ExportIsFaithful, NoBreaks
    <2>1. k \in Names
      BY VariablesAssumption DEF VariablesAssumption
    <2>2. PICK j \in 1..Len(order) : order[j] = k
      BY <2>1 DEF FileInv, Written
    <2>3. Came(j)
      BY <2>2 DEF FileInv
    <2> QED
      BY <2>2, <2>3 DEF Came
  <1> QED
    BY <1>1, TypedInit, TypedNext, FileInit, FileNext, PTL DEF Spec

-----------------------------------------------------------------------------
(***************************************************************************)
(* The last character of a text, and the panic of parseVariablesFrom       *)
(***************************************************************************)
\* A joined text ends as the last of its parts that is not empty.
LEMMA FlattenEnd ==
    ASSUME NEW T, NEW ss \in Seq(Seq(T)), NEW j \in 1..Len(ss), ss[j] # <<>>,
           \A i \in (j + 1)..Len(ss) : ss[i] = <<>>
    PROVE  FlattenSeq(ss) # <<>> /\ Last(FlattenSeq(ss)) = Last(ss[j])
  <1>1. Len(ss) \in Nat /\ j \in Nat /\ \A i \in 1..Len(ss) : ss[i] \in Seq(T)
    BY LenProperties, ElementOfSeq
  <1>2. PICK f \in [1..Len(ss) -> Seq(T)] : Joins(f, ss)
    BY JoinExists
  <1>3. \A i \in 1..Len(ss) : f[i] = IF i = 1 THEN ss[i] ELSE f[i - 1] \o ss[i]
    BY <1>2 DEF Joins
  <1>4. f[j] # <<>> /\ Last(f[j]) = Last(ss[j])
    <2>1. PICK last \in Seq(T) : last = ss[j]
      BY <1>1
    <2>2. last # <<>> /\ Len(last) \in Nat \ {0}
      BY <2>1, EmptySeq
    <2>3. CASE j = 1
      BY <1>3, <2>3
    <2>4. CASE j # 1
      <3>1. j - 1 \in 1..Len(ss)
        BY <1>1, <2>4
      <3>2. PICK before \in Seq(T) : before = f[j - 1]
        BY <1>2, <3>1
      <3>3. f[j] = before \o last
        BY <1>3, <2>1, <2>4, <3>2
      <3>4. /\ Len(before \o last) = Len(before) + Len(last) /\ Len(before) \in Nat
            /\ (before \o last)[Len(before) + Len(last)] = last[Len(last)]
        BY <2>2
      <3>5. before \o last # <<>>
        BY <2>2, <3>4
      <3> QED
        BY <2>1, <3>3, <3>4, <3>5 DEF Last
    <2> QED
      BY <2>3, <2>4
  <1> DEFINE N == {i \in Nat : j + i <= Len(ss) => f[j + i] = f[j]}
  <1>5. 0 \in N
    BY <1>1
  <1>6. ASSUME NEW i \in N PROVE i + 1 \in N
    <2> SUFFICES ASSUME j + (i + 1) <= Len(ss) PROVE f[j + (i + 1)] = f[j]
      BY <1>6
    <2>1. /\ i \in Nat /\ j + i <= Len(ss) /\ j + (i + 1) \in 1..Len(ss) /\ j + (i + 1) # 1
          /\ j + (i + 1) - 1 = j + i /\ j + (i + 1) \in (j + 1)..Len(ss) /\ j + i \in 1..Len(ss)
      BY <1>1, <1>6
    <2>2. f[j + (i + 1)] = f[j + i] \o <<>>
      <3> DEFINE x == j + (i + 1)
      <3>1. x \in 1..Len(ss) /\ x # 1 /\ x - 1 = j + i /\ x \in (j + 1)..Len(ss)
        BY <2>1
      <3> HIDE DEF x
      <3>2. f[x] = f[x - 1] \o ss[x] /\ ss[x] = <<>>
        BY <1>3, <3>1
      <3> QED
        BY <3>1, <3>2 DEF x
    <2>3. f[j + i] \in Seq(T) /\ f[j + i] = f[j]
      BY <1>2, <1>6, <2>1
    <2>4. f[j + i] \o <<>> = f[j + i]
      BY <2>3
    <2> QED
      BY <2>2, <2>3, <2>4
  <1> HIDE DEF N
  <1>7. N = Nat
    BY <1>5, <1>6, Induction DEF N
  <1>8. f[Len(ss)] = f[j]
    <2>1. \A i \in Nat : j + i <= Len(ss) => f[j + i] = f[j]
      BY <1>7 DEF N
    <2>2. Len(ss) - j \in Nat /\ j + (Len(ss) - j) = Len(ss) /\ Len(ss) <= Len(ss)
      BY <1>1
    <2>3. PICK i \in Nat : i = Len(ss) - j
      BY <2>2
    <2>4. f[j + i] = f[j] /\ j + i = Len(ss)
      BY <2>1, <2>2, <2>3
    <2> QED
      BY <2>4
  <1>9. FlattenSeq(ss) = f[Len(ss)]
    BY <1>1, <1>2, FlattenJoins
  <1> QED
    BY <1>4, <1>8, <1>9

\* strings.Replace leaves a text that does not end in a character without it at its
\* end, if what it puts in does not end in it either.
LEMMA ReplaceEnd ==
    ASSUME NEW text \in Text, text # <<>>, NEW part, Len(part) = 4,
           NEW by \in Text, by # <<>>, NEW c, ~Ends(text, c), ~Ends(by, c)
    PROVE  ~Ends(Replace(text, part, by), c)
  <1> DEFINE starts == {i \in DOMAIN text : Occurs(text, part, i)}
             Part(i) == IF i \in starts THEN by
                        ELSE IF \E s \in starts : s < i /\ i < s + Len(part) THEN <<>>
                        ELSE <<text[i]>>
             ss == [i \in DOMAIN text |-> Part(i)]
             n == Len(text)
  <1>1. /\ n \in Nat \ {0} /\ DOMAIN text = 1..n
        /\ \A i \in 1..n : text[i] \in Chars
    BY EmptySeq DEF Text
  <1>2. Replace(text, part, by) = FlattenSeq(ss)
    BY DEF Replace
  <1>3. ss \in Seq(Text) /\ Len(ss) = n
    <2>1. \A i \in 1..n : <<text[i]>> \in Text /\ <<>> \in Text
      BY <1>1, CharsOfTexts DEF Text
    <2> HIDE DEF starts
    <2>2. \A i \in 1..n : Part(i) \in Text
      BY <2>1
    <2> HIDE DEF Part
    <2>3. ss \in [1..n -> Text]
      BY <1>1, <2>2
    <2> HIDE DEF ss
    <2> QED
      BY <1>1, <2>3
  <1>4. \A i \in 1..n : ss[i] = Part(i)
    BY <1>1
  <1>5. \A s \in starts : s \in 1..n /\ s + 3 <= n
    BY <1>1 DEF Occurs
  <1> HIDE DEF starts, ss
  <1>6. PICK j \in 1..n : /\ ss[j] # <<>> /\ ~Ends(ss[j], c)
                          /\ \A i \in (j + 1)..n : ss[i] = <<>>
    <2>1. CASE \E s \in starts : s < n /\ n < s + 4
      <3>1. PICK s \in starts : s < n /\ n < s + 4
        BY <2>1
      <3>2. s \in 1..n /\ s + 3 = n
        BY <1>1, <1>5, <3>1
      <3>3. ss[s] = by
        BY <1>4, <3>1, <3>2
      <3>4. ASSUME NEW i \in (s + 1)..n PROVE ss[i] = <<>>
        <4>1. i \in 1..n /\ s < i /\ i < s + 4 /\ i + 3 > n
          BY <1>1, <3>2
        <4>2. i \notin starts
          BY <1>1, <1>5, <4>1
        <4>3. Part(i) = <<>>
          BY <3>1, <4>1, <4>2
        <4> QED
          BY <1>4, <4>1, <4>3
      <3> QED
        BY <3>2, <3>3, <3>4
    <2>2. CASE ~ \E s \in starts : s < n /\ n < s + 4
      <3>1. n \in 1..n /\ n \notin starts
        BY <1>1, <1>5
      <3>2. ss[n] = <<text[n]>>
        BY <1>4, <2>2, <3>1
      <3>3. text[n] # c
        BY DEF Ends, Last
      <3>4. ss[n] # <<>> /\ ~Ends(ss[n], c)
        BY <3>2, <3>3 DEF Ends, Last
      <3>5. \A i \in (n + 1)..n : ss[i] = <<>>
        BY <1>1
      <3> QED
        BY <3>1, <3>4, <3>5
    <2> QED
      BY <2>1, <2>2
  <1>7. FlattenSeq(ss) # <<>> /\ Last(FlattenSeq(ss)) = Last(ss[j])
    BY <1>3, <1>6, FlattenEnd DEF Text
  <1> QED
    BY <1>2, <1>6, <1>7 DEF Ends

\* A text between two characters and one.
Wrapped(a, b, name, c) == <<a, b>> \o name \o <<c>>

\* It is longer by three.
LEMMA WrappedLength ==
    ASSUME NEW a \in Chars, NEW b \in Chars, NEW c \in Chars, NEW name \in Seq(Chars)
    PROVE  Len(Wrapped(a, b, name, c)) = 2 + Len(name) + 1
  <1>1. <<a, b>> \in Seq(Chars) /\ <<c>> \in Seq(Chars)
    OBVIOUS
  <1>2. Len(<<a, b>> \o name \o <<c>>) = 2 + Len(name) + 1
    BY <1>1
  <1> QED
    BY <1>2 DEF Wrapped

\* The placeholder of a name of one character has four.
LEMMA PlaceholderLength ==
    ASSUME NEW name \in Seq(Chars), Len(name) = 1 PROVE Len(Placeholder(name)) = 4
  <1>1. "$" \in Chars /\ "{" \in Chars /\ "}" \in Chars
    BY Zenon DEF Chars
  <1>2. Placeholder(name) = Wrapped("$", "{", name, "}")
    BY Zenon DEF Placeholder, Wrapped
  <1>3. Len(Wrapped("$", "{", name, "}")) = 2 + Len(name) + 1
    BY <1>1, WrappedLength, Zenon
  <1>4. Len(Placeholder(name)) = 2 + Len(name) + 1
    BY <1>2, <1>3, Zenon
  <1> QED
    BY <1>4

\* As long as no value of the server and of the agent ends in a $, none of the
\* variables does, whatever was resolved in them, and Resolve does not panic.
EndsInv ==
    (\A k \in Names : ~Ends(given[k], "$") /\ ~Ends(system[k], "$")) =>
        /\ \A k \in Names : ~Ends(v[k], "$")
        /\ pc = "scan" => ~Ends(scan.src, "$")
        /\ pc # "panic"

\* Every step keeps to that, the replacement in a text too.
LEMMA EndsNext == ASSUME Typed, EndsInv, [Next]_vars PROVE EndsInv'
  <1>1. CASE ResolveKey
    BY <1>1 DEF ResolveKey, Typed, EndsInv
  <1>2. CASE ScanNext
    BY <1>2 DEF ScanNext, Scanning, Typed, EndsInv
  <1>3. CASE ScanPanics
    <2>1. Ends(scan.src, "$")
      <3>1. scan.src \in Text /\ scan.i \in Nat \ {0} /\ scan.i = Len(scan.src)
        BY <1>3 DEF ScanPanics, Scanning, Typed
      <3>2. scan.src # <<>>
        BY <3>1, EmptySeq DEF Text
      <3> QED
        BY <1>3, <3>1, <3>2 DEF ScanPanics, Char, Ends, Last
    <2> QED
      BY <1>3, <2>1 DEF ScanPanics, Scanning, EndsInv
  <1>4. CASE ScanReplaces
    <2> SUFFICES ASSUME \A k \in Names : ~Ends(given[k], "$") /\ ~Ends(system[k], "$")
                 PROVE  /\ \A k \in Names : ~Ends(v'[k], "$")
                        /\ ~Ends(scan'.src, "$") /\ pc' # "panic"
      BY <1>4 DEF ScanReplaces, EndsInv
    <2>1. /\ pc = "scan" /\ scan \in [key : Names, src : Text, i : Nat \ {0}]
          /\ scan.i < Len(scan.src) /\ UNCHANGED <<v, pc>>
          /\ scan' = [scan EXCEPT !.src = Replace(scan.src, Placeholder(Env), Val), !.i = RIndex + 1]
      BY <1>4 DEF ScanReplaces, Scanning, Typed
    <2>2. Val # <<>> /\ Val = GetVariable(Env) /\ Val \in Text
      BY <1>4, <2>1, ValueTyped DEF ScanReplaces, Skips, Val
    <2>3. Len(Env) = 1 /\ Env[1] \in Names
      BY <2>2 DEF GetVariable
    <2>4. ~Ends(Val, "$")
      BY <2>1, <2>2, <2>3 DEF GetVariable, EndsInv
    <2>5. Len(Placeholder(Env)) = 4
      <3>1. RightBrackets \in SUBSET Nat
        <4>1. DOMAIN scan.src \subseteq Nat
          BY <2>1 DEF Text
        <4> QED
          BY <4>1 DEF RightBrackets, IndexesOf
      <3>2. RightBrackets # {}
        BY <2>2 DEF Val
      <3>3. RIndex \in Nat
        BY <3>1, <3>2, LeastIndex DEF RIndex
      <3>6. RIndex <= Len(scan.src)
        <4>1. RIndex \in RightBrackets
          BY <3>1, <3>2, LeastIndex DEF RIndex
        <4>2. RIndex \in DOMAIN scan.src
          BY <4>1 DEF RightBrackets, IndexesOf
        <4> QED
          BY <2>1, <4>2 DEF Text
      <3>4. SubSeq(scan.src, scan.i + 2, RIndex - 1) \in Seq(Chars)
        <4>1. PICK src \in Seq(Chars) : src = scan.src
          BY <2>1 DEF Text
        <4>2. PICK from \in Nat \ {0} : from = scan.i + 2
          BY <2>1
        <4>3. PICK to \in Int : to = RIndex - 1
          BY <3>3
        <4>4. to <= Len(src)
          BY <3>3, <3>6, <4>1, <4>3
        <4>5. SubSeq(src, from, to) \in Seq(Chars)
          BY <4>4
        <4> QED
          BY <4>1, <4>2, <4>3, <4>5
      <3>5. Env \in Seq(Chars)
        BY <3>4 DEF Env
      <3> QED
        BY <2>3, <3>5, PlaceholderLength
    <2>6. scan.src # <<>> /\ ~Ends(scan.src, "$")
      BY <2>1, EmptySeq DEF EndsInv, Text
    <2>7. ~Ends(Replace(scan.src, Placeholder(Env), Val), "$")
      BY <2>1, <2>2, <2>4, <2>5, <2>6, ReplaceEnd
    <2> QED
      BY <2>1, <2>7 DEF EndsInv
  <1>5. CASE ScanEnds
    BY <1>5 DEF ScanEnds, Typed, EndsInv
  <1>6. CASE ResolveEnds \/ WriteEnv \/ OpenFile \/ ReadEnv \/ ReadEnds
    BY <1>6 DEF ResolveEnds, WriteEnv, OpenFile, ReadEnv, ReadEnds, EndsInv
  <1>7. CASE UNCHANGED vars
    BY <1>7 DEF vars, EndsInv
  <1> QED
    BY <1>1, <1>2, <1>3, <1>4, <1>5, <1>6, <1>7 DEF Next, Resolve

\* Resolve panics only if a value of the server or of the agent ends in a $: the
\* replacements, of whatever length, never bring one to the end of a text.
THEOREM PanicsOnlyAtEnd == Spec => []PanicsAtEndOnly
  <1>1. Init => EndsInv
    BY DEF Init, EndsInv
  <1>2. EndsInv => PanicsAtEndOnly
    BY DEF EndsInv, PanicsAtEndOnly
  <1> QED
    BY <1>1, <1>2, TypedInit, TypedNext, EndsNext, PTL DEF Spec

-----------------------------------------------------------------------------
(***************************************************************************)
(* Texts and the placeholders in them, character by character              *)
(***************************************************************************)
\* The names are for the provers, which do not read a bracket in quotes.
Dollar == "$"
Open == "{"
Close == "}"
Put(c, text) == <<c>> \o text

\* No two of the marks are equal, and none is a name.
LEMMA Brackets ==
    /\ Dollar \in Chars /\ Open \in Chars /\ Close \in Chars
    /\ Dollar # Open /\ Dollar # Close /\ Open # Close
    /\ \A n \in Names : n # Dollar /\ n # Open /\ n # Close
  <1>1. Dollar \in Chars /\ Open \in Chars /\ Close \in Chars
    BY Zenon DEF Chars, Dollar, Open, Close
  <1>2. Dollar # Open /\ Dollar # Close /\ Open # Close
    BY DEF Dollar, Open, Close
  <1>3. \A n \in Names : n # Dollar /\ n # Open /\ n # Close
    BY VariablesAssumption, Zenon DEF VariablesAssumption, Dollar, Open, Close
  <1> QED
    BY <1>1, <1>2, <1>3

\* A character before a text.
LEMMA PutFacts ==
    ASSUME NEW c \in Chars, NEW r \in Text
    PROVE  /\ Put(c, r) \in Text /\ Len(Put(c, r)) = Len(r) + 1 /\ Put(c, r)[1] = c
           /\ \A i \in 1..Len(r) : Put(c, r)[i + 1] = r[i]
           /\ Len(r) \in Nat /\ Put(c, r) # <<>>
  <1>1. /\ <<c>> \o r \in Seq(Chars) /\ Len(<<c>> \o r) = Len(r) + 1 /\ (<<c>> \o r)[1] = c
        /\ \A i \in 1..Len(r) : (<<c>> \o r)[i + 1] = r[i]
        /\ Len(r) \in Nat
    BY DEF Text
  <1>2. <<c>> \o r # <<>>
    BY <1>1
  <1> QED
    BY <1>1, <1>2 DEF Put, Text

\* .. is any text that is not empty.
LEMMA PutHead ==
    ASSUME NEW t \in Text, t # <<>>
    PROVE  \E c \in Chars, r \in Text :
               /\ t = Put(c, r) /\ t[1] = c
               /\ Len(r) \in Nat /\ Len(t) = Len(r) + 1 /\ Len(r) < Len(t)
               /\ \A i \in 1..Len(r) : t[i + 1] = r[i]
  <1>1. t \in Seq(Chars) /\ Len(t) \in Nat /\ Len(t) # 0
    BY EmptySeq DEF Text
  <1>2. t[1] \in Chars
    BY <1>1
  <1> DEFINE tail == [i \in 1..(Len(t) - 1) |-> t[i + 1]]
  <1>3. tail \in Seq(Chars) /\ Len(tail) = Len(t) - 1 /\ \A i \in 1..(Len(t) - 1) : tail[i] = t[i + 1]
    <2>1. Len(t) - 1 \in Nat
      BY <1>1
    <2>2. \A i \in 1..(Len(t) - 1) : t[i + 1] \in Chars
      BY <1>1
    <2>3. tail \in [1..(Len(t) - 1) -> Chars]
      BY <2>2
    <2> HIDE DEF tail
    <2>4. tail \in Seq(Chars) /\ Len(tail) = Len(t) - 1
      BY <2>1, <2>3
    <2> QED
      BY <2>4 DEF tail
  <1> HIDE DEF tail
  <1>4. PICK r \in Text : r = tail
    BY <1>3 DEF Text
  <1>5. PICK c \in Chars : c = t[1]
    BY <1>2
  <1>6. Put(c, r) \in Seq(Chars) /\ Len(Put(c, r)) = Len(t)
    BY <1>1, <1>3, <1>4, PutFacts DEF Text
  <1>7. ASSUME NEW i \in 1..Len(t) PROVE Put(c, r)[i] = t[i]
    <2>1. CASE i = 1
      BY <1>5, <2>1, PutFacts
    <2>2. CASE i # 1
      <3>1. PICK j \in 1..(Len(t) - 1) : i = j + 1
        <4>1. i - 1 \in 1..(Len(t) - 1) /\ i = (i - 1) + 1
          BY <1>1, <2>2
        <4> QED
          BY <4>1
      <3>2. Put(c, r)[j + 1] = r[j] /\ r[j] = t[j + 1]
        <4>1. Len(r) = Len(t) - 1 /\ j \in 1..Len(r)
          BY <1>3, <1>4
        <4>2. Put(c, r)[j + 1] = r[j]
          BY <4>1, PutFacts
        <4> QED
          BY <1>3, <1>4, <4>2
      <3> QED
        BY <3>1, <3>2
    <2> QED
      BY <2>1, <2>2
  <1>8. Put(c, r) = t
    BY <1>1, <1>6, <1>7, SeqEqual
  <1>9. Len(r) \in Nat /\ Len(t) = Len(r) + 1 /\ Len(r) < Len(t)
    BY <1>1, <1>3, <1>4
  <1>10. \A i \in 1..Len(r) : Put(c, r)[i + 1] = r[i]
    BY PutFacts
  <1> QED
    BY <1>5, <1>8, <1>9, <1>10

\* What holds for a text if it holds for those that are shorter holds for all.
LEMMA TextInduction ==
    ASSUME NEW P, \A t \in Text : (\A s \in Text : Len(s) < Len(t) => s \in P) => t \in P
    PROVE  \A t \in Text : t \in P
  <1> DEFINE N == {n \in Nat : \A t \in Text : Len(t) < n => t \in P}
  <1>0. \A t \in Text : Len(t) \in Nat
    BY DEF Text
  <1>1. 0 \in N
    BY <1>0
  <1>2. ASSUME NEW n \in N PROVE n + 1 \in N
    <2>1. n \in Nat /\ \A t \in Text : Len(t) < n => t \in P
      OBVIOUS
    <2>2. ASSUME NEW t \in Text, Len(t) < n + 1 PROVE t \in P
      <3>1. \A s \in Text : Len(s) < Len(t) => Len(s) < n
        BY <1>0, <2>1, <2>2
      <3> QED
        BY <2>1, <3>1
    <2> QED
      BY <2>1, <2>2
  <1> HIDE DEF N
  <1>3. N = Nat
    BY <1>1, <1>2, Induction DEF N
  <1>4. ASSUME NEW t \in Text PROVE t \in P
    <2>1. PICK n \in Nat : n = Len(t) + 1
      BY <1>0
    <2>2. n \in N /\ Len(t) < n
      BY <1>0, <1>3, <2>1
    <2> QED
      BY <2>2 DEF N
  <1> QED
    BY <1>4

\* A text before parts comes first in what they make.
LEMMA FlattenPut ==
    ASSUME NEW T, NEW e \in Seq(T), NEW ss \in Seq(Seq(T))
    PROVE  /\ Put(e, ss) \in Seq(Seq(T)) /\ Len(Put(e, ss)) = Len(ss) + 1
           /\ Put(e, ss)[1] = e /\ \A i \in 1..Len(ss) : Put(e, ss)[i + 1] = ss[i]
           /\ Len(ss) \in Nat
           /\ FlattenSeq(Put(e, ss)) = Cat(e, FlattenSeq(ss))
  <1> DEFINE U == Seq(T)
  <1>1. e \in U /\ ss \in Seq(U)
    OBVIOUS
  <1> HIDE DEF U
  <1>2. /\ <<e>> \o ss \in Seq(U) /\ Len(<<e>> \o ss) = Len(ss) + 1 /\ (<<e>> \o ss)[1] = e
        /\ \A i \in 1..Len(ss) : (<<e>> \o ss)[i + 1] = ss[i]
        /\ Len(ss) \in Nat
    BY <1>1
  <1>3. FlattenSeq(<<e>> \o ss) = e \o FlattenSeq(ss)
    BY FlattenHead
  <1> QED
    BY <1>2, <1>3, Zenon DEF Put, Cat, U

\* Two texts, one after the other.
LEMMA CatFacts ==
    ASSUME NEW a \in Text, NEW b \in Text
    PROVE  /\ Cat(a, b) \in Text /\ Len(Cat(a, b)) = Len(a) + Len(b)
           /\ Len(a) \in Nat /\ Len(b) \in Nat
           /\ \A i \in 1..Len(a) : Cat(a, b)[i] = a[i]
           /\ \A i \in 1..Len(b) : Cat(a, b)[Len(a) + i] = b[i]
           /\ Cat(<<>>, b) = b
  <1>1. a \in Seq(Chars) /\ b \in Seq(Chars)
    BY DEF Text
  <1>2. /\ a \o b \in Seq(Chars) /\ Len(a \o b) = Len(a) + Len(b)
        /\ Len(a) \in Nat /\ Len(b) \in Nat
        /\ \A i \in 1..Len(a) : (a \o b)[i] = a[i]
        /\ \A i \in 1..Len(b) : (a \o b)[Len(a) + i] = b[i]
    BY <1>1
  <1>3. <<>> \o b = b
    BY <1>1, ConcatEmptySeq
  <1> QED
    BY <1>2, <1>3 DEF Cat, Text

\* What is joined to a text with a character before it.
LEMMA PutCat ==
    ASSUME NEW c \in Chars, NEW a \in Text, NEW b \in Text
    PROVE  Cat(Put(c, a), b) = Put(c, Cat(a, b))
  <1>1. <<c>> \in Seq(Chars) /\ a \in Seq(Chars) /\ b \in Seq(Chars)
    BY DEF Text
  <1>2. PICK h \in Seq(Chars) : h = <<c>>
    BY <1>1
  <1>3. Cat(Cat(h, a), b) = Cat(h, Cat(a, b))
    BY <1>1, JoinedInTwoWays
  <1>4. \A x : Cat(h, x) = Put(c, x)
    BY <1>2 DEF Cat, Put
  <1> QED
    BY <1>3, <1>4

-----------------------------------------------------------------------------
(***************************************************************************)
(* Where a placeholder stands in a text                                    *)
(***************************************************************************)
Starts(t, n, j) ==
    /\ j \in 1..Len(t) /\ j + 3 <= Len(t)
    /\ t[j] = Dollar /\ t[j + 1] = Open /\ t[j + 2] = n /\ t[j + 3] = Close
RefTo(n, r) == Put(Dollar, Put(Open, Put(n, Put(Close, r))))
Plain(t) == \A i \in 1..Len(t) : t[i] # Dollar /\ t[i] # Open /\ t[i] # Close
OnlyRefs(t) == \A i \in 1..Len(t) : t[i] = Dollar => \E n \in Names : Starts(t, n, i)

\* One that is not at the head of a text is in the rest of it.
LEMMA StartsPut ==
    ASSUME NEW c \in Chars, NEW r \in Text, NEW n, NEW i \in Nat \ {0}
    PROVE  Starts(Put(c, r), n, i + 1) <=> Starts(r, n, i)
  <1> DEFINE t == Put(c, r)
  <1>1. Len(t) = Len(r) + 1 /\ Len(r) \in Nat /\ \A j \in 1..Len(r) : t[j + 1] = r[j]
    BY PutFacts
  <1> HIDE DEF t
  <1>2. i + 1 \in 1..Len(t) /\ (i + 1) + 3 <= Len(t) <=> i \in 1..Len(r) /\ i + 3 <= Len(r)
    BY <1>1
  <1>3. ASSUME i \in 1..Len(r), i + 3 <= Len(r)
        PROVE  /\ t[i + 1] = r[i] /\ t[(i + 1) + 1] = r[i + 1]
               /\ t[(i + 1) + 2] = r[i + 2] /\ t[(i + 1) + 3] = r[i + 3]
    <2>1. /\ i + 1 \in 1..Len(r) /\ i + 2 \in 1..Len(r) /\ i + 3 \in 1..Len(r)
          /\ (i + 2) + 1 = (i + 1) + 2 /\ (i + 3) + 1 = (i + 1) + 3
      BY <1>1, <1>3
    <2> QED
      BY <1>1, <1>3, <2>1
  <1> QED
    BY <1>2, <1>3 DEF Starts, t

\* A text that begins with a placeholder, and what is after it.
LEMMA RefFacts ==
    ASSUME NEW n \in Names, NEW r \in Text
    PROVE  /\ Put(Close, r) \in Text /\ Put(n, Put(Close, r)) \in Text
           /\ Put(Open, Put(n, Put(Close, r))) \in Text
           /\ RefTo(n, r) \in Text /\ Len(RefTo(n, r)) = Len(r) + 4 /\ Len(r) \in Nat
           /\ Starts(RefTo(n, r), n, 1)
           /\ \A i \in 1..Len(r) : RefTo(n, r)[i + 4] = r[i]
           /\ \A m, i : Starts(RefTo(n, r), m, i) =>
                  (i = 1 /\ m = n) \/ (i > 4 /\ Starts(r, m, i - 4))
           /\ \A m : \A i \in Nat \ {0} : Starts(r, m, i) => Starts(RefTo(n, r), m, i + 4)
  <1> DEFINE a == Put(Close, r)
             b == Put(n, a)
             c == Put(Open, b)
             d == Put(Dollar, c)
  <1>0. Dollar \in Chars /\ Open \in Chars /\ Close \in Chars /\ n \in Chars
    BY Brackets, CharsOfTexts
  <1>1. /\ a \in Text /\ Len(a) = Len(r) + 1 /\ a[1] = Close /\ Len(r) \in Nat
        /\ \A i \in 1..Len(r) : a[i + 1] = r[i]
    BY <1>0, PutFacts
  <1> HIDE DEF a
  <1>2. /\ b \in Text /\ Len(b) = Len(r) + 2 /\ b[1] = n
        /\ \A i \in 1..Len(a) : b[i + 1] = a[i]
    <2>1. /\ b \in Text /\ Len(b) = Len(a) + 1 /\ b[1] = n
          /\ \A i \in 1..Len(a) : b[i + 1] = a[i]
      BY <1>0, <1>1, PutFacts
    <2> QED
      BY <1>1, <2>1
  <1> HIDE DEF b
  <1>3. /\ c \in Text /\ Len(c) = Len(r) + 3 /\ c[1] = Open
        /\ \A i \in 1..Len(b) : c[i + 1] = b[i]
    <2>1. /\ c \in Text /\ Len(c) = Len(b) + 1 /\ c[1] = Open
          /\ \A i \in 1..Len(b) : c[i + 1] = b[i]
      BY <1>0, <1>2, PutFacts
    <2> QED
      BY <1>1, <1>2, <2>1
  <1> HIDE DEF c
  <1>4. /\ d \in Text /\ Len(d) = Len(r) + 4 /\ d[1] = Dollar
        /\ \A i \in 1..Len(c) : d[i + 1] = c[i]
    <2>1. /\ d \in Text /\ Len(d) = Len(c) + 1 /\ d[1] = Dollar
          /\ \A i \in 1..Len(c) : d[i + 1] = c[i]
      BY <1>0, <1>3, PutFacts
    <2> QED
      BY <1>1, <1>3, <2>1
  <1> HIDE DEF d
  <1>5. d[2] = Open /\ d[3] = n /\ d[4] = Close
    <2>1. b[1 + 1] = a[1] /\ c[1 + 1] = b[1] /\ c[2 + 1] = b[2]
      BY <1>1, <1>2, <1>3
    <2>2. d[1 + 1] = c[1] /\ d[2 + 1] = c[2] /\ d[3 + 1] = c[3]
      BY <1>1, <1>3, <1>4
    <2> QED
      BY <1>1, <1>2, <1>3, <2>1, <2>2
  <1>6. Starts(d, n, 1)
    BY <1>1, <1>4, <1>5 DEF Starts
  <1>7. ASSUME NEW i \in 1..Len(r) PROVE d[i + 4] = r[i]
    <2>1. i + 1 \in 1..Len(a) /\ i + 2 \in 1..Len(b) /\ i + 3 \in 1..Len(c)
      BY <1>1, <1>2, <1>3
    <2>2. a[i + 1] = r[i] /\ b[(i + 1) + 1] = a[i + 1] /\ c[(i + 2) + 1] = b[i + 2]
          /\ d[(i + 3) + 1] = c[i + 3]
      BY <1>1, <1>2, <1>3, <1>4, <2>1
    <2>3. (i + 1) + 1 = i + 2 /\ (i + 2) + 1 = i + 3 /\ (i + 3) + 1 = i + 4
      BY <1>1
    <2> QED
      BY <2>2, <2>3
  <1>8. ASSUME NEW m, NEW i \in Nat \ {0} PROVE Starts(d, m, i + 4) <=> Starts(r, m, i)
    <2>1. /\ (i + 1) + 1 = i + 2 /\ (i + 2) + 1 = i + 3 /\ (i + 3) + 1 = i + 4
          /\ i + 1 \in Nat \ {0} /\ i + 2 \in Nat \ {0} /\ i + 3 \in Nat \ {0}
      OBVIOUS
    <2>2. Starts(a, m, i + 1) <=> Starts(r, m, i)
      BY <1>0, StartsPut DEF a
    <2>3. Starts(b, m, (i + 1) + 1) <=> Starts(a, m, i + 1)
      BY <1>0, <1>1, <2>1, StartsPut DEF b
    <2>4. Starts(c, m, (i + 2) + 1) <=> Starts(b, m, i + 2)
      BY <1>0, <1>2, <2>1, StartsPut DEF c
    <2>5. Starts(d, m, (i + 3) + 1) <=> Starts(c, m, i + 3)
      BY <1>0, <1>3, <2>1, StartsPut DEF d
    <2> QED
      BY <2>1, <2>2, <2>3, <2>4, <2>5
  <1>9. ASSUME NEW m, NEW i, Starts(d, m, i)
        PROVE  (i = 1 /\ m = n) \/ (i > 4 /\ Starts(r, m, i - 4))
    <2>1. i \in 1..Len(d) /\ d[i] = Dollar /\ d[i + 2] = m
      BY <1>9 DEF Starts
    <2>2. i \in Nat /\ i # 0
      BY <1>1, <1>4, <2>1
    <2>3. CASE i \in {2, 3, 4}
      BY <1>5, <2>1, <2>3, Brackets
    <2>4. CASE i = 1
      <3>1. i + 2 = 3
        BY <2>4
      <3> QED
        BY <1>5, <2>1, <2>4, <3>1
    <2>5. CASE i > 4
      <3>1. i - 4 \in Nat \ {0} /\ (i - 4) + 4 = i
        BY <2>2, <2>5
      <3> QED
        BY <1>8, <1>9, <2>5, <3>1
    <2> QED
      BY <2>2, <2>3, <2>4, <2>5
  <1>10. d = RefTo(n, r)
    BY Zenon DEF a, b, c, d, RefTo
  <1> QED
    BY <1>1, <1>2, <1>3, <1>4, <1>6, <1>7, <1>8, <1>9, <1>10 DEF a, b, c

\* A text that has a placeholder at its head is one.
LEMMA RefHead ==
    ASSUME NEW t \in Text, NEW n \in Names, Starts(t, n, 1)
    PROVE  \E r \in Text : t = RefTo(n, r) /\ Len(r) < Len(t)
  <1>0. Len(t) \in Nat /\ Len(t) >= 4 /\ t[1] = Dollar /\ t[2] = Open /\ t[3] = n /\ t[4] = Close
    <2>1. 1 + 3 <= Len(t) /\ 1 \in 1..Len(t) /\ t[1] = Dollar /\ t[1 + 1] = Open /\ t[1 + 2] = n
          /\ t[1 + 3] = Close
      BY Zenon DEF Starts
    <2>2. Len(t) \in Nat
      BY DEF Text
    <2> QED
      BY <2>1, <2>2
  <1>1. PICK c1 \in Chars, t1 \in Text :
            /\ t = Put(c1, t1) /\ t[1] = c1 /\ Len(t1) \in Nat /\ Len(t) = Len(t1) + 1
            /\ \A i \in 1..Len(t1) : t[i + 1] = t1[i]
    <2>1. t # <<>>
      BY <1>0, EmptySeq DEF Text
    <2> QED
      BY <2>1, PutHead
  <1>2. t1[1] = Open /\ t1[2] = n /\ t1[3] = Close /\ t1 # <<>>
    <2>1. t[1 + 1] = t1[1] /\ t[2 + 1] = t1[2] /\ t[3 + 1] = t1[3]
      BY <1>0, <1>1
    <2> QED
      BY <1>0, <1>1, <2>1, EmptySeq
  <1>3. PICK c2 \in Chars, t2 \in Text :
            /\ t1 = Put(c2, t2) /\ t1[1] = c2 /\ Len(t2) \in Nat /\ Len(t1) = Len(t2) + 1
            /\ \A i \in 1..Len(t2) : t1[i + 1] = t2[i]
    BY <1>2, PutHead
  <1>4. t2[1] = n /\ t2[2] = Close /\ t2 # <<>>
    <2>1. t1[1 + 1] = t2[1] /\ t1[2 + 1] = t2[2]
      BY <1>0, <1>1, <1>3
    <2> QED
      BY <1>0, <1>1, <1>2, <1>3, <2>1, EmptySeq
  <1>5. PICK c3 \in Chars, t3 \in Text :
            /\ t2 = Put(c3, t3) /\ t2[1] = c3 /\ Len(t3) \in Nat /\ Len(t2) = Len(t3) + 1
            /\ \A i \in 1..Len(t3) : t2[i + 1] = t3[i]
    BY <1>4, PutHead
  <1>6. t3[1] = Close /\ t3 # <<>>
    <2>1. t2[1 + 1] = t3[1]
      BY <1>0, <1>1, <1>3, <1>5
    <2> QED
      BY <1>0, <1>1, <1>3, <1>4, <1>5, <2>1, EmptySeq
  <1>7. PICK c4 \in Chars, r \in Text : t3 = Put(c4, r) /\ t3[1] = c4
    BY <1>6, PutHead
  <1>8. t = RefTo(n, r)
    BY <1>0, <1>1, <1>2, <1>3, <1>4, <1>5, <1>6, <1>7, Zenon DEF RefTo
  <1>9. Len(r) < Len(t)
    BY <1>8, RefFacts
  <1> QED
    BY <1>8, <1>9

\* Two placeholders do not overlap.
LEMMA StartsApart ==
    ASSUME NEW t \in Text, NEW n \in Names, NEW m \in Names, NEW s, NEW i,
           Starts(t, n, s), Starts(t, m, i), s < i
    PROVE  i >= s + 4
  <1>1. s \in 1..Len(t) /\ i \in 1..Len(t) /\ Len(t) \in Nat
    BY DEF Starts, Text
  <1>2. t[s + 1] = Open /\ t[s + 2] = n /\ t[s + 3] = Close /\ t[i] = Dollar
    BY DEF Starts
  <1>3. i # s + 1 /\ i # s + 2 /\ i # s + 3
    BY <1>2, Brackets
  <1> QED
    BY <1>1, <1>3

-----------------------------------------------------------------------------
(***************************************************************************)
(* Every placeholder of some names replaced at once, by the texts of f     *)
(***************************************************************************)
Part(t, A, f, i) ==
    IF \E n \in A : Starts(t, n, i) THEN f[CHOOSE n \in A : Starts(t, n, i)]
    ELSE IF \E s \in 1..Len(t), n \in A : Starts(t, n, s) /\ s < i /\ i < s + 4 THEN <<>>
    ELSE <<t[i]>>
Parts(t, A, f) == [i \in 1..Len(t) |-> Part(t, A, f, i)]
Sub(t, A, f) == FlattenSeq(Parts(t, A, f))
Texts == [Names -> Text]

\* The parts are texts, and so is what they make.
LEMMA SubTyped ==
    ASSUME NEW t \in Text, NEW A \in SUBSET Names, NEW f \in Texts
    PROVE  /\ Parts(t, A, f) \in Seq(Text) /\ Len(Parts(t, A, f)) = Len(t) /\ Len(t) \in Nat
           /\ \A i \in 1..Len(t) : Parts(t, A, f)[i] = Part(t, A, f, i)
           /\ Sub(t, A, f) \in Text
           /\ Sub(<<>>, A, f) = <<>>
  <1>1. Len(t) \in Nat /\ \A i \in 1..Len(t) : t[i] \in Chars
    BY DEF Text
  <1>2. ASSUME NEW i \in 1..Len(t) PROVE Part(t, A, f, i) \in Text
    <2>1. <<t[i]>> \in Text /\ <<>> \in Text
      BY <1>1, CharsOfTexts DEF Text
    <2>2. ASSUME NEW n \in A PROVE f[n] \in Text
      BY DEF Texts
    <2> QED
      BY <2>1, <2>2 DEF Part
  <1>3. Parts(t, A, f) \in [1..Len(t) -> Text]
    BY <1>2 DEF Parts
  <1>4. Parts(t, A, f) \in Seq(Text) /\ Len(Parts(t, A, f)) = Len(t)
    BY <1>1, <1>3
  <1>5. Sub(t, A, f) \in Text
    BY <1>4, FlattenAppend DEF Sub, Text
  <1>6. Parts(<<>>, A, f) = <<>>
    BY DEF Parts
  <1>7. Sub(<<>>, A, f) = <<>>
    BY <1>6 DEF Sub, FlattenSeq
  <1> QED
    BY <1>1, <1>4, <1>5, <1>7 DEF Parts

\* What is put for each character, with each quantifier in a case of its own.
LEMMA PartIs ==
    ASSUME NEW t \in Text, NEW A \in SUBSET Names, NEW f \in Texts, NEW i \in 1..Len(t)
    PROVE  /\ \A n \in A : Starts(t, n, i) => Part(t, A, f, i) = f[n]
           /\ \A n \in A : \A s : Starts(t, n, s) /\ s < i /\ i < s + 4 => Part(t, A, f, i) = <<>>
           /\ (\A n \in A : \A s : ~(Starts(t, n, s) /\ s <= i /\ i < s + 4)) => Part(t, A, f, i) = <<t[i]>>
  <1>0. \A n, s : Starts(t, n, s) => s \in 1..Len(t)
    BY DEF Starts
  <1>1. ASSUME NEW n \in A, Starts(t, n, i) PROVE Part(t, A, f, i) = f[n]
    <2>1. \A m \in A : Starts(t, m, i) => m = n
      BY <1>1 DEF Starts
    <2>2. (CHOOSE m \in A : Starts(t, m, i)) = n
      BY <1>1, <2>1
    <2> QED
      BY <1>1, <2>2, Zenon DEF Part
  <1>2. ASSUME NEW n \in A, NEW s, Starts(t, n, s), s < i, i < s + 4 PROVE Part(t, A, f, i) = <<>>
    <2>1. s \in 1..Len(t)
      BY <1>0, <1>2
    <2>2. ASSUME NEW m \in A, Starts(t, m, i) PROVE FALSE
      <3>1. i >= s + 4
        BY <1>2, <2>2, StartsApart
      <3>2. Len(t) \in Nat
        BY DEF Text
      <3> QED
        BY <1>2, <2>1, <3>1, <3>2
    <2> QED
      BY <1>2, <2>1, <2>2, Zenon DEF Part
  <1>3. ASSUME \A n \in A : \A s : ~(Starts(t, n, s) /\ s <= i /\ i < s + 4)
        PROVE  Part(t, A, f, i) = <<t[i]>>
    <2>1. Len(t) \in Nat /\ i \in Nat
      BY DEF Text
    <2>2. \A n \in A : ~Starts(t, n, i)
      <3>1. i <= i /\ i < i + 4
        BY <2>1
      <3> QED
        BY <1>3, <3>1
    <2>3. \A s \in 1..Len(t), n \in A : ~(Starts(t, n, s) /\ s < i /\ i < s + 4)
      <3>1. \A s \in 1..Len(t) : s < i => s <= i
        BY <2>1
      <3> QED
        BY <1>3, <3>1
    <2> QED
      BY <2>2, <2>3, Zenon DEF Part
  <1> QED
    BY <1>1, <1>2, <1>3

\* A character where no placeholder stands is left, and so is what comes of the rest.
LEMMA SubPut ==
    ASSUME NEW c \in Chars, NEW r \in Text, NEW A \in SUBSET Names, NEW f \in Texts,
           \A n \in A : ~Starts(Put(c, r), n, 1)
    PROVE  Sub(Put(c, r), A, f) = Put(c, Sub(r, A, f))
  <1> DEFINE t == Put(c, r)
             ss == Parts(r, A, f)
             e == <<c>>
  <1>0. /\ t \in Text /\ Len(t) = Len(r) + 1 /\ Len(r) \in Nat /\ t[1] = c
        /\ \A i \in 1..Len(r) : t[i + 1] = r[i]
    BY PutFacts
  <1>1. \A n : \A i \in Nat \ {0} : Starts(t, n, i + 1) <=> Starts(r, n, i)
    BY StartsPut
  <1> HIDE DEF t
  <1>2. /\ Parts(t, A, f) \in Seq(Text) /\ Len(Parts(t, A, f)) = Len(t)
        /\ \A i \in 1..Len(t) : Parts(t, A, f)[i] = Part(t, A, f, i)
    BY <1>0, SubTyped
  <1>3. /\ ss \in Seq(Text) /\ Len(ss) = Len(r)
        /\ \A i \in 1..Len(r) : ss[i] = Part(r, A, f, i)
    BY SubTyped
  <1>n. \A n, s : Starts(t, n, s) => s \in Nat \ {0}
    BY <1>0 DEF Starts
  <1>r. \A n, s : Starts(r, n, s) => s \in Nat \ {0}
    BY <1>0 DEF Starts
  <1>4. Part(t, A, f, 1) = e
    <2>1. 1 \in 1..Len(t)
      BY <1>0
    <2>2. ASSUME NEW n \in A, NEW s, Starts(t, n, s), s <= 1, 1 < s + 4 PROVE FALSE
      <3>1. s = 1
        BY <1>n, <2>2
      <3> QED
        BY <2>2, <3>1 DEF t
    <2> QED
      BY <1>0, <2>1, <2>2, PartIs, ZenonT(60)
  <1>5. ASSUME NEW i \in 1..Len(r) PROVE Part(t, A, f, i + 1) = Part(r, A, f, i)
    <2>1. i + 1 \in 1..Len(t) /\ i \in Nat \ {0}
      BY <1>0
    <2>2. CASE \E n \in A : Starts(r, n, i)
      <3>1. PICK n \in A : Starts(r, n, i)
        BY <2>2
      <3>2. Starts(t, n, i + 1)
        BY <1>1, <2>1, <3>1
      <3>3. Part(r, A, f, i) = f[n]
        BY <3>1, PartIs, ZenonT(60)
      <3>4. Part(t, A, f, i + 1) = f[n]
        BY <1>0, <2>1, <3>2, PartIs, ZenonT(60)
      <3> QED
        BY <3>3, <3>4
    <2>3. CASE \E n \in A : \E s : Starts(r, n, s) /\ s < i /\ i < s + 4
      <3>1. PICK n, s : n \in A /\ Starts(r, n, s) /\ s < i /\ i < s + 4
        BY <2>3
      <3>2. s \in Nat \ {0}
        BY <1>r, <3>1
      <3>3. Starts(t, n, s + 1) /\ s + 1 < i + 1 /\ i + 1 < (s + 1) + 4
        BY <1>1, <2>1, <3>1, <3>2
      <3>4. Part(r, A, f, i) = <<>>
        BY <3>1, PartIs, ZenonT(60)
      <3>5. Part(t, A, f, i + 1) = <<>>
        <4>1. \A o \in A : \A h :
                  Starts(t, o, h) /\ h < i + 1 /\ i + 1 < h + 4 => Part(t, A, f, i + 1) = <<>>
          BY <1>0, <2>1, PartIs, ZenonT(60)
        <4> QED
          BY <3>1, <3>3, <4>1, Zenon
      <3> QED
        BY <3>4, <3>5
    <2>4. CASE \A n \in A : \A s : ~(Starts(r, n, s) /\ s <= i /\ i < s + 4)
      <3>1. ASSUME NEW n \in A, NEW s, Starts(t, n, s), s <= i + 1, i + 1 < s + 4 PROVE FALSE
        <4>1. s \in Nat \ {0}
          BY <1>n, <3>1
        <4>2. s # 1
          BY <3>1 DEF t
        <4>3. s - 1 \in Nat \ {0} /\ (s - 1) + 1 = s /\ s - 1 <= i /\ i < (s - 1) + 4
          BY <2>1, <3>1, <4>1, <4>2
        <4>4. Starts(r, n, s - 1)
          BY <1>1, <3>1, <4>3
        <4> QED
          BY <2>4, <4>3, <4>4
      <3>2. Part(r, A, f, i) = <<r[i]>>
        BY <2>4, PartIs, ZenonT(60)
      <3>3. Part(t, A, f, i + 1) = <<t[i + 1]>>
        BY <1>0, <2>1, <3>1, PartIs, ZenonT(60)
      <3> QED
        BY <1>0, <3>2, <3>3
    <2>5. ASSUME NEW n \in A, NEW s, Starts(r, n, s), s <= i, i < s + 4
          PROVE  Starts(r, n, i) \/ (Starts(r, n, s) /\ s < i /\ i < s + 4)
      <3>1. s \in Nat
        BY <1>r, <2>5
      <3>2. s = i \/ s < i
        BY <2>1, <2>5, <3>1
      <3> QED
        BY <2>5, <3>2
    <2> QED
      BY <2>2, <2>3, <2>4, <2>5
  <1>6. e \in Text
    BY DEF Text
  <1>7. /\ Put(e, ss) \in Seq(Text) /\ Len(Put(e, ss)) = Len(r) + 1 /\ Put(e, ss)[1] = e
        /\ \A i \in 1..Len(r) : Put(e, ss)[i + 1] = ss[i]
        /\ FlattenSeq(Put(e, ss)) = Cat(e, FlattenSeq(ss))
    <2>1. e \in Seq(Chars) /\ ss \in Seq(Seq(Chars))
      BY <1>3, <1>6 DEF Text
    <2> HIDE DEF e, ss
    <2>2. /\ Put(e, ss) \in Seq(Seq(Chars)) /\ Len(Put(e, ss)) = Len(ss) + 1
          /\ Put(e, ss)[1] = e /\ \A i \in 1..Len(ss) : Put(e, ss)[i + 1] = ss[i]
          /\ FlattenSeq(Put(e, ss)) = Cat(e, FlattenSeq(ss))
      BY <2>1, FlattenPut
    <2> QED
      BY <1>3, <2>2 DEF Text
  <1> HIDE DEF e, ss
  <1>8. Parts(t, A, f) = Put(e, ss)
    <2>1. ASSUME NEW i \in 1..(Len(r) + 1) PROVE Parts(t, A, f)[i] = Put(e, ss)[i]
      <3>1. CASE i = 1
        BY <1>0, <1>2, <1>4, <1>7, <3>1
      <3>2. CASE i # 1
        <4>1. PICK j \in 1..Len(r) : i = j + 1
          <5>1. i - 1 \in 1..Len(r) /\ i = (i - 1) + 1
            BY <1>0, <3>2
          <5> QED
            BY <5>1
        <4>2. Parts(t, A, f)[i] = Part(t, A, f, j + 1)
          BY <1>0, <1>2, <4>1
        <4> QED
          BY <1>3, <1>5, <1>7, <4>1, <4>2
      <3> QED
        BY <3>1, <3>2
    <2> QED
      BY <1>0, <1>2, <1>7, <2>1, SeqEqual
  <1>9. Sub(t, A, f) = Cat(e, Sub(r, A, f))
    BY <1>7, <1>8, Zenon DEF Sub, ss
  <1> QED
    BY <1>9, Zenon DEF t, e, Cat, Put

\* A placeholder at the head is replaced, and so are those in the rest.
LEMMA SubRef ==
    ASSUME NEW n \in Names, NEW r \in Text, NEW A \in SUBSET Names, NEW f \in Texts, n \in A
    PROVE  Sub(RefTo(n, r), A, f) = Cat(f[n], Sub(r, A, f))
  <1> DEFINE t == RefTo(n, r)
             ss == Parts(r, A, f)
             e == f[n]
  <1>0. /\ t \in Text /\ Len(t) = Len(r) + 4 /\ Len(r) \in Nat /\ Starts(t, n, 1)
        /\ \A i \in 1..Len(r) : t[i + 4] = r[i]
        /\ \A m, i : Starts(t, m, i) => (i = 1 /\ m = n) \/ (i > 4 /\ Starts(r, m, i - 4))
        /\ \A m : \A i \in Nat \ {0} : Starts(r, m, i) => Starts(t, m, i + 4)
    BY RefFacts
  <1> HIDE DEF t
  <1>2. /\ Parts(t, A, f) \in Seq(Text) /\ Len(Parts(t, A, f)) = Len(t)
        /\ \A i \in 1..Len(t) : Parts(t, A, f)[i] = Part(t, A, f, i)
    BY <1>0, SubTyped
  <1>3. /\ ss \in Seq(Text) /\ Len(ss) = Len(r)
        /\ \A i \in 1..Len(r) : ss[i] = Part(r, A, f, i)
    BY SubTyped
  <1>n. \A m, s : Starts(t, m, s) => s \in Nat \ {0}
    BY <1>0 DEF Starts
  <1>r. \A m, s : Starts(r, m, s) => s \in Nat \ {0}
    BY <1>0 DEF Starts
  <1>4. Part(t, A, f, 1) = e
    <2>1. 1 \in 1..Len(t)
      BY <1>0
    <2> QED
      BY <1>0, <2>1, PartIs, ZenonT(60)
  <1>5. ASSUME NEW i \in {2, 3, 4} PROVE Part(t, A, f, i) = <<>>
    <2>1. i \in 1..Len(t) /\ 1 < i /\ i < 1 + 4
      BY <1>0
    <2> QED
      BY <1>0, <2>1, PartIs, ZenonT(60)
  <1>6. ASSUME NEW i \in 1..Len(r) PROVE Part(t, A, f, i + 4) = Part(r, A, f, i)
    <2>1. i + 4 \in 1..Len(t) /\ i \in Nat \ {0}
      BY <1>0
    <2>2. CASE \E m \in A : Starts(r, m, i)
      <3>1. PICK m \in A : Starts(r, m, i)
        BY <2>2
      <3>2. Starts(t, m, i + 4)
        BY <1>0, <2>1, <3>1
      <3>3. Part(r, A, f, i) = f[m]
        BY <3>1, PartIs, ZenonT(60)
      <3>4. Part(t, A, f, i + 4) = f[m]
        BY <1>0, <2>1, <3>2, PartIs, ZenonT(60)
      <3> QED
        BY <3>3, <3>4
    <2>3. CASE \E m \in A : \E s : Starts(r, m, s) /\ s < i /\ i < s + 4
      <3>1. PICK m, s : m \in A /\ Starts(r, m, s) /\ s < i /\ i < s + 4
        BY <2>3
      <3>2. s \in Nat \ {0}
        BY <1>r, <3>1
      <3>3. Starts(t, m, s + 4) /\ s + 4 < i + 4 /\ i + 4 < (s + 4) + 4
        BY <1>0, <2>1, <3>1, <3>2
      <3>4. Part(r, A, f, i) = <<>>
        BY <3>1, PartIs, ZenonT(60)
      <3>5. Part(t, A, f, i + 4) = <<>>
        <4>1. \A o \in A : \A h :
                  Starts(t, o, h) /\ h < i + 4 /\ i + 4 < h + 4 => Part(t, A, f, i + 4) = <<>>
          BY <1>0, <2>1, PartIs, ZenonT(60)
        <4> QED
          BY <3>1, <3>3, <4>1, Zenon
      <3> QED
        BY <3>4, <3>5
    <2>4. CASE \A m \in A : \A s : ~(Starts(r, m, s) /\ s <= i /\ i < s + 4)
      <3>1. ASSUME NEW m \in A, NEW s, Starts(t, m, s), s <= i + 4, i + 4 < s + 4 PROVE FALSE
        <4>1. s \in Nat \ {0}
          BY <1>n, <3>1
        <4>2. s # 1
          BY <2>1, <3>1, <4>1
        <4>3. Starts(r, m, s - 4) /\ s > 4
          BY <1>0, <3>1, <4>2
        <4>4. s - 4 <= i /\ i < (s - 4) + 4
          BY <2>1, <3>1, <4>1
        <4> QED
          BY <2>4, <4>3, <4>4
      <3>2. Part(r, A, f, i) = <<r[i]>>
        BY <2>4, PartIs, ZenonT(60)
      <3>3. Part(t, A, f, i + 4) = <<t[i + 4]>>
        BY <1>0, <2>1, <3>1, PartIs, ZenonT(60)
      <3> QED
        BY <1>0, <3>2, <3>3
    <2>5. ASSUME NEW m \in A, NEW s, Starts(r, m, s), s <= i, i < s + 4
          PROVE  Starts(r, m, i) \/ (Starts(r, m, s) /\ s < i /\ i < s + 4)
      <3>1. s \in Nat
        BY <1>r, <2>5
      <3>2. s = i \/ s < i
        BY <2>1, <2>5, <3>1
      <3> QED
        BY <2>5, <3>2
    <2> QED
      BY <2>2, <2>3, <2>4, <2>5
  <1> DEFINE s1 == Put(<<>>, ss)
             s2 == Put(<<>>, s1)
             s3 == Put(<<>>, s2)
             s4 == Put(e, s3)
  <1>7. <<>> \in Text /\ e \in Text
    BY CharsOfTexts DEF Texts
  <1>p. ASSUME NEW x \in Text, NEW xs \in Seq(Text)
        PROVE  /\ Put(x, xs) \in Seq(Text) /\ Len(Put(x, xs)) = Len(xs) + 1 /\ Put(x, xs)[1] = x
               /\ \A i \in 1..Len(xs) : Put(x, xs)[i + 1] = xs[i]
               /\ FlattenSeq(Put(x, xs)) = Cat(x, FlattenSeq(xs))
               /\ FlattenSeq(xs) \in Text
    <2>1. x \in Seq(Chars) /\ xs \in Seq(Seq(Chars))
      BY DEF Text
    <2> QED
      BY <2>1, FlattenPut, FlattenAppend DEF Text
  <1> HIDE DEF e, ss
  <1>8. /\ s1 \in Seq(Text) /\ Len(s1) = Len(r) + 1 /\ s1[1] = <<>>
        /\ \A i \in 1..Len(r) : s1[i + 1] = ss[i]
        /\ FlattenSeq(s1) = Cat(<<>>, FlattenSeq(ss)) /\ FlattenSeq(ss) \in Text
    <2>1. /\ s1 \in Seq(Text) /\ Len(s1) = Len(ss) + 1 /\ s1[1] = <<>>
          /\ \A i \in 1..Len(ss) : s1[i + 1] = ss[i]
          /\ FlattenSeq(s1) = Cat(<<>>, FlattenSeq(ss)) /\ FlattenSeq(ss) \in Text
      BY <1>3, <1>7, <1>p, Zenon
    <2> QED
      BY <1>3, <2>1
  <1> HIDE DEF s1
  <1>9. /\ s2 \in Seq(Text) /\ Len(s2) = Len(r) + 2 /\ s2[1] = <<>>
        /\ \A i \in 1..(Len(r) + 1) : s2[i + 1] = s1[i]
        /\ FlattenSeq(s2) = Cat(<<>>, FlattenSeq(s1)) /\ FlattenSeq(s1) \in Text
    <2>1. /\ s2 \in Seq(Text) /\ Len(s2) = Len(s1) + 1 /\ s2[1] = <<>>
          /\ \A i \in 1..Len(s1) : s2[i + 1] = s1[i]
          /\ FlattenSeq(s2) = Cat(<<>>, FlattenSeq(s1)) /\ FlattenSeq(s1) \in Text
      BY <1>7, <1>8, <1>p, Zenon
    <2>2. (Len(r) + 1) + 1 = Len(r) + 2
      BY <1>0
    <2> QED
      BY <1>8, <2>1, <2>2
  <1> HIDE DEF s2
  <1>10. /\ s3 \in Seq(Text) /\ Len(s3) = Len(r) + 3 /\ s3[1] = <<>>
         /\ \A i \in 1..(Len(r) + 2) : s3[i + 1] = s2[i]
         /\ FlattenSeq(s3) = Cat(<<>>, FlattenSeq(s2)) /\ FlattenSeq(s2) \in Text
    <2>1. /\ s3 \in Seq(Text) /\ Len(s3) = Len(s2) + 1 /\ s3[1] = <<>>
          /\ \A i \in 1..Len(s2) : s3[i + 1] = s2[i]
          /\ FlattenSeq(s3) = Cat(<<>>, FlattenSeq(s2)) /\ FlattenSeq(s2) \in Text
      BY <1>7, <1>9, <1>p, Zenon
    <2>2. (Len(r) + 2) + 1 = Len(r) + 3
      BY <1>0
    <2> QED
      BY <1>9, <2>1, <2>2
  <1> HIDE DEF s3
  <1>11. /\ s4 \in Seq(Text) /\ Len(s4) = Len(r) + 4 /\ s4[1] = e
         /\ \A i \in 1..(Len(r) + 3) : s4[i + 1] = s3[i]
         /\ FlattenSeq(s4) = Cat(e, FlattenSeq(s3)) /\ FlattenSeq(s3) \in Text
    <2>1. /\ s4 \in Seq(Text) /\ Len(s4) = Len(s3) + 1 /\ s4[1] = e
          /\ \A i \in 1..Len(s3) : s4[i + 1] = s3[i]
          /\ FlattenSeq(s4) = Cat(e, FlattenSeq(s3)) /\ FlattenSeq(s3) \in Text
      BY <1>7, <1>10, <1>p, Zenon
    <2>2. (Len(r) + 3) + 1 = Len(r) + 4
      BY <1>0
    <2> QED
      BY <1>10, <2>1, <2>2
  <1> HIDE DEF s4
  <1>12. FlattenSeq(s4) = Cat(e, FlattenSeq(ss))
    <2>1. \A x \in Text : Cat(<<>>, x) = x
      BY CatFacts
    <2> QED
      BY <1>8, <1>9, <1>10, <1>11, <2>1
  <1>13. s4[2] = <<>> /\ s4[3] = <<>> /\ s4[4] = <<>> /\ \A i \in 1..Len(r) : s4[i + 4] = ss[i]
    <2>1. s4[1 + 1] = s3[1] /\ s4[2 + 1] = s3[2] /\ s4[3 + 1] = s3[3]
      BY <1>0, <1>11
    <2>2. s3[1 + 1] = s2[1] /\ s3[2 + 1] = s2[2] /\ s2[1 + 1] = s1[1]
      BY <1>0, <1>9, <1>10
    <2>3. ASSUME NEW i \in 1..Len(r) PROVE s4[i + 4] = ss[i]
      <3>1. /\ i + 1 \in 1..(Len(r) + 1) /\ i + 2 \in 1..(Len(r) + 2) /\ i + 3 \in 1..(Len(r) + 3)
            /\ (i + 1) + 1 = i + 2 /\ (i + 2) + 1 = i + 3 /\ (i + 3) + 1 = i + 4
        BY <1>0
      <3>2. s1[i + 1] = ss[i] /\ s2[(i + 1) + 1] = s1[i + 1] /\ s3[(i + 2) + 1] = s2[i + 2]
            /\ s4[(i + 3) + 1] = s3[i + 3]
        BY <1>8, <1>9, <1>10, <1>11, <3>1
      <3> QED
        BY <3>1, <3>2
    <2> QED
      BY <1>8, <1>9, <1>10, <2>1, <2>2, <2>3
  <1>14. Parts(t, A, f) = s4
    <2>1. ASSUME NEW i \in 1..(Len(r) + 4) PROVE Parts(t, A, f)[i] = s4[i]
      <3>0. Parts(t, A, f)[i] = Part(t, A, f, i)
        BY <1>0, <1>2
      <3>1. CASE i = 1
        BY <1>4, <1>11, <3>0, <3>1
      <3>2. CASE i \in {2, 3, 4}
        BY <1>5, <1>13, <3>0, <3>2
      <3>3. CASE i > 4
        <4>1. PICK j \in 1..Len(r) : i = j + 4
          <5>1. i - 4 \in 1..Len(r) /\ i = (i - 4) + 4
            BY <1>0, <3>3
          <5> QED
            BY <5>1
        <4> QED
          BY <1>3, <1>6, <1>13, <3>0, <4>1
      <3>4. i = 1 \/ i \in {2, 3, 4} \/ i > 4
        BY <1>0
      <3> QED
        BY <3>1, <3>2, <3>3, <3>4
    <2> QED
      BY <1>0, <1>2, <1>11, <2>1, SeqEqual
  <1> QED
    BY <1>12, <1>14, Zenon DEF Sub, ss, t, e

\* A text without placeholders to replace is left as it is.
LEMMA SubNone ==
    ASSUME NEW A \in SUBSET Names, NEW f \in Texts, NEW t \in Text,
           \A n \in A : \A i : ~Starts(t, n, i)
    PROVE  Sub(t, A, f) = t
  <1> DEFINE P == {s \in Text : (\A n \in A : \A i : ~Starts(s, n, i)) => Sub(s, A, f) = s}
  <1>1. ASSUME NEW s \in Text, \A r \in Text : Len(r) < Len(s) => r \in P,
               \A n \in A : \A i : ~Starts(s, n, i)
        PROVE  Sub(s, A, f) = s
    <2>1. CASE s = <<>>
      BY <2>1, SubTyped
    <2>2. CASE s # <<>>
      <3>1. PICK c \in Chars, r \in Text : s = Put(c, r) /\ Len(r) < Len(s)
        BY <2>2, PutHead
      <3>2. ASSUME NEW n \in A, NEW i, Starts(r, n, i) PROVE FALSE
        <4>1. i \in Nat \ {0}
          BY <3>2 DEF Starts, Text
        <4>2. Starts(s, n, i + 1)
          BY <3>1, <3>2, <4>1, StartsPut
        <4> QED
          BY <1>1, <4>2
      <3>3. Sub(r, A, f) = r
        BY <1>1, <3>1, <3>2
      <3>4. Sub(s, A, f) = Put(c, Sub(r, A, f))
        BY <1>1, <3>1, SubPut
      <3> QED
        BY <3>1, <3>3, <3>4
    <2> QED
      BY <2>1, <2>2
  <1>2. \A s \in Text : (\A r \in Text : Len(r) < Len(s) => r \in P) => s \in P
    BY <1>1
  <1> HIDE DEF P
  <1>3. t \in P
    BY <1>2, TextInduction
  <1> QED
    BY <1>3 DEF P

\* Nor is one without a $ changed when it comes before another.
LEMMA SubPlain ==
    ASSUME NEW A \in SUBSET Names, NEW f \in Texts, NEW t \in Text, NEW p \in Text, Plain(p)
    PROVE  Sub(Cat(p, t), A, f) = Cat(p, Sub(t, A, f))
  <1> DEFINE P == {s \in Text : Plain(s) => Sub(Cat(s, t), A, f) = Cat(s, Sub(t, A, f))}
  <1>0. Sub(t, A, f) \in Text
    BY SubTyped
  <1>1. ASSUME NEW s \in Text, \A r \in Text : Len(r) < Len(s) => r \in P, Plain(s)
        PROVE  Sub(Cat(s, t), A, f) = Cat(s, Sub(t, A, f))
    <2>1. CASE s = <<>>
      <3>1. Cat(<<>>, t) = t /\ Cat(<<>>, Sub(t, A, f)) = Sub(t, A, f)
        BY <1>0, CatFacts
      <3> QED
        BY <2>1, <3>1
    <2>2. CASE s # <<>>
      <3>1. PICK c \in Chars, r \in Text :
                /\ s = Put(c, r) /\ s[1] = c /\ Len(r) \in Nat /\ Len(s) = Len(r) + 1 /\ Len(r) < Len(s)
                /\ \A i \in 1..Len(r) : s[i + 1] = r[i]
        BY <2>2, PutHead
      <3>2. Plain(r) /\ c # Dollar
        <4>1. 1 \in 1..Len(s) /\ \A i \in 1..Len(r) : i + 1 \in 1..Len(s)
          BY <3>1
        <4> QED
          BY <1>1, <3>1, <4>1 DEF Plain
      <3>3. Sub(Cat(r, t), A, f) = Cat(r, Sub(t, A, f))
        BY <1>1, <3>1, <3>2
      <3>4. Cat(r, t) \in Text /\ Cat(s, t) = Put(c, Cat(r, t))
            /\ Cat(s, Sub(t, A, f)) = Put(c, Cat(r, Sub(t, A, f)))
        BY <1>0, <3>1, CatFacts, PutCat
      <3>5. \A n \in A : ~Starts(Put(c, Cat(r, t)), n, 1)
        BY <3>2, <3>4, PutFacts DEF Starts
      <3>6. Sub(Put(c, Cat(r, t)), A, f) = Put(c, Sub(Cat(r, t), A, f))
        BY <3>4, <3>5, SubPut
      <3> QED
        BY <3>3, <3>4, <3>6
    <2> QED
      BY <2>1, <2>2
  <1>2. \A s \in Text : (\A r \in Text : Len(r) < Len(s) => r \in P) => s \in P
    BY <1>1
  <1> HIDE DEF P
  <1>3. p \in P
    BY <1>2, TextInduction
  <1> QED
    BY <1>3 DEF P

\* A placeholder in a text that follows one without a $ is in the text itself.
LEMMA StartsPlain ==
    ASSUME NEW p \in Text, NEW t \in Text, Plain(p), NEW n, NEW i, Starts(Cat(p, t), n, i)
    PROVE  i > Len(p) /\ Starts(t, n, i - Len(p))
  <1>1. /\ Len(Cat(p, t)) = Len(p) + Len(t) /\ Len(p) \in Nat /\ Len(t) \in Nat
        /\ \A j \in 1..Len(p) : Cat(p, t)[j] = p[j]
        /\ \A j \in 1..Len(t) : Cat(p, t)[Len(p) + j] = t[j]
    BY CatFacts
  <1>2. /\ i \in 1..Len(Cat(p, t)) /\ i + 3 <= Len(Cat(p, t))
        /\ Cat(p, t)[i] = Dollar /\ Cat(p, t)[i + 1] = Open /\ Cat(p, t)[i + 2] = n
        /\ Cat(p, t)[i + 3] = Close
    BY DEF Starts
  <1>3. i \notin 1..Len(p)
    BY <1>1, <1>2 DEF Plain
  <1> DEFINE j == i - Len(p)
  <1>4. /\ j \in 1..Len(t) /\ j + 3 <= Len(t) /\ Len(p) + j = i /\ i > Len(p)
        /\ j + 1 \in 1..Len(t) /\ j + 2 \in 1..Len(t) /\ j + 3 \in 1..Len(t)
        /\ Len(p) + (j + 1) = i + 1 /\ Len(p) + (j + 2) = i + 2 /\ Len(p) + (j + 3) = i + 3
    BY <1>1, <1>2, <1>3
  <1> HIDE DEF j
  <1>5. t[j] = Dollar /\ t[j + 1] = Open /\ t[j + 2] = n /\ t[j + 3] = Close
    <2>1. Cat(p, t)[Len(p) + j] = t[j] /\ Cat(p, t)[Len(p) + (j + 1)] = t[j + 1]
          /\ Cat(p, t)[Len(p) + (j + 2)] = t[j + 2] /\ Cat(p, t)[Len(p) + (j + 3)] = t[j + 3]
      BY <1>1, <1>4
    <2> QED
      BY <1>2, <1>4, <2>1
  <1> QED
    BY <1>4, <1>5 DEF Starts, j

\* The text that is left after the first character of a text.
LEMMA OnlyRefsPut ==
    ASSUME NEW c \in Chars, NEW r \in Text, OnlyRefs(Put(c, r))
    PROVE  OnlyRefs(r) /\ (c = Dollar => \E n \in Names : Starts(Put(c, r), n, 1))
  <1>1. /\ Len(Put(c, r)) = Len(r) + 1 /\ Len(r) \in Nat /\ Put(c, r)[1] = c
        /\ \A i \in 1..Len(r) : Put(c, r)[i + 1] = r[i]
    BY PutFacts
  <1>2. ASSUME NEW i \in 1..Len(r), r[i] = Dollar PROVE \E n \in Names : Starts(r, n, i)
    <2>1. i + 1 \in 1..Len(Put(c, r)) /\ i \in Nat \ {0} /\ Put(c, r)[i + 1] = Dollar
      BY <1>1, <1>2
    <2>2. PICK n \in Names : Starts(Put(c, r), n, i + 1)
      BY <2>1 DEF OnlyRefs
    <2> QED
      BY <2>1, <2>2, StartsPut
  <1>3. 1 \in 1..Len(Put(c, r))
    BY <1>1
  <1> QED
    BY <1>1, <1>2, <1>3 DEF OnlyRefs

\* A text begins with one placeholder at most.
LEMMA RefFirst ==
    ASSUME NEW n \in Names, NEW r \in Text, NEW m, Starts(RefTo(n, r), m, 1)
    PROVE  m = n
  <1>1. Starts(RefTo(n, r), n, 1)
    BY RefFacts
  <1> QED
    BY <1>1, Zenon DEF Starts

\* A placeholder of another name is left.
LEMMA SubOther ==
    ASSUME NEW n \in Names, NEW r \in Text, NEW A \in SUBSET Names, NEW f \in Texts, n \notin A
    PROVE  Sub(RefTo(n, r), A, f) = RefTo(n, Sub(r, A, f))
  <1>0. Dollar \in Chars /\ Open \in Chars /\ Close \in Chars /\ n \in Chars
    BY Brackets, CharsOfTexts
  <1>1. ASSUME NEW c \in Chars, NEW s \in Text, c # Dollar
        PROVE  Sub(Put(c, s), A, f) = Put(c, Sub(s, A, f))
    <2>1. \A m \in A : ~Starts(Put(c, s), m, 1)
      BY <1>1, PutFacts DEF Starts
    <2> QED
      BY <2>1, SubPut
  <1>2. /\ Put(Close, r) \in Text /\ Put(n, Put(Close, r)) \in Text
        /\ Put(Open, Put(n, Put(Close, r))) \in Text
    BY RefFacts
  <1>3. Sub(Put(Close, r), A, f) = Put(Close, Sub(r, A, f))
    BY <1>0, <1>1, Brackets
  <1>4. Sub(Put(n, Put(Close, r)), A, f) = Put(n, Sub(Put(Close, r), A, f))
    BY <1>0, <1>1, <1>2, Brackets
  <1>5. Sub(Put(Open, Put(n, Put(Close, r))), A, f) = Put(Open, Sub(Put(n, Put(Close, r)), A, f))
    BY <1>0, <1>1, <1>2, Brackets
  <1>6. Sub(RefTo(n, r), A, f) = Put(Dollar, Sub(Put(Open, Put(n, Put(Close, r))), A, f))
    <2>1. \A m \in A : ~Starts(RefTo(n, r), m, 1)
      BY RefFirst
    <2> QED
      BY <1>0, <1>2, <2>1, SubPut DEF RefTo
  <1> QED
    BY <1>3, <1>4, <1>5, <1>6 DEF RefTo

\* A text is empty, or begins with a placeholder to be replaced, or with a character
\* that is left.
LEMMA SubHead ==
    ASSUME NEW n \in Names, NEW f \in Texts, NEW t \in Text
    PROVE  \/ t = <<>> /\ Sub(t, {n}, f) = <<>>
           \/ \E r \in Text : /\ t = RefTo(n, r) /\ Len(r) < Len(t)
                              /\ Sub(t, {n}, f) = Cat(f[n], Sub(r, {n}, f))
           \/ \E c \in Chars, r \in Text :
                  /\ t = Put(c, r) /\ Len(r) < Len(t) /\ ~Starts(t, n, 1)
                  /\ Sub(t, {n}, f) = Put(c, Sub(r, {n}, f))
  <1>1. CASE t = <<>>
    BY <1>1, SubTyped
  <1>2. CASE Starts(t, n, 1)
    BY <1>2, RefHead, SubRef
  <1>3. CASE t # <<>> /\ ~Starts(t, n, 1)
    <2>1. PICK c \in Chars, r \in Text : t = Put(c, r) /\ Len(r) < Len(t)
      BY <1>3, PutHead
    <2>2. Sub(t, {n}, f) = Put(c, Sub(r, {n}, f))
      BY <1>3, <2>1, SubPut
    <2> QED
      BY <1>3, <2>1, <2>2
  <1> QED
    BY <1>1, <1>2, <1>3

\* A value that is put for a placeholder without leaving or making part of another:
\* it has no marks, and is long enough or stands only where a placeholder has stood.
Fits(t, n, f) ==
    Plain(f[n]) /\ f[n] # <<>> /\ (Len(f[n]) >= 2 \/ OnlyRefs(t))

\* What follows is no part of a placeholder that begins before it.
LEMMA FitsRest ==
    ASSUME NEW n \in Names, NEW f \in Texts
    PROVE  /\ \A c \in Chars, r \in Text : Fits(Put(c, r), n, f) => Fits(r, n, f)
           /\ \A m \in Names, r \in Text : Fits(RefTo(m, r), n, f) => Fits(r, n, f)
  <1>1. ASSUME NEW c \in Chars, NEW r \in Text, Fits(Put(c, r), n, f) PROVE Fits(r, n, f)
    BY <1>1, OnlyRefsPut DEF Fits
  <1>2. ASSUME NEW m \in Names, NEW r \in Text, Fits(RefTo(m, r), n, f) PROVE Fits(r, n, f)
    <2>1. Dollar \in Chars /\ Open \in Chars /\ Close \in Chars /\ m \in Chars
      BY Brackets, CharsOfTexts
    <2>2. /\ Put(Close, r) \in Text /\ Put(m, Put(Close, r)) \in Text
          /\ Put(Open, Put(m, Put(Close, r))) \in Text
      BY RefFacts
    <2>3. Fits(Put(Open, Put(m, Put(Close, r))), n, f)
      BY <1>1, <1>2, <2>1, <2>2 DEF RefTo
    <2>4. Fits(Put(m, Put(Close, r)), n, f)
      BY <1>1, <2>1, <2>2, <2>3
    <2>5. Fits(Put(Close, r), n, f)
      BY <1>1, <2>1, <2>2, <2>4
    <2> QED
      BY <1>1, <2>1, <2>5
  <1> QED
    BY <1>1, <1>2

\* A replacement makes no placeholder out of a character and what follows it.
LEMMA StartsAtHead ==
    ASSUME NEW n \in Names, NEW f \in Texts, NEW c \in Chars, NEW r \in Text,
           ~Starts(Put(c, r), n, 1), Fits(Put(c, r), n, f),
           NEW m \in Names, Starts(Put(c, Sub(r, {n}, f)), m, 1)
    PROVE  Starts(Put(c, r), m, 1)
  <1> DEFINE x == Sub(r, {n}, f)
  <1>0. f[n] \in Text /\ \A s \in Text : Sub(s, {n}, f) \in Text
    BY SubTyped DEF Texts
  <1>1. /\ x \in Text /\ Len(x) \in Nat /\ Len(x) >= 3
        /\ c = Dollar /\ x[1] = Open /\ x[2] = m /\ x[3] = Close
    <2>1. x \in Text
      BY <1>0
    <2> HIDE DEF x
    <2>2. /\ Len(Put(c, x)) = Len(x) + 1 /\ Len(x) \in Nat /\ Put(c, x)[1] = c
          /\ \A i \in 1..Len(x) : Put(c, x)[i + 1] = x[i]
      BY <2>1, PutFacts
    <2>3. /\ 1 + 3 <= Len(Put(c, x)) /\ Put(c, x)[1] = Dollar /\ Put(c, x)[1 + 1] = Open
          /\ Put(c, x)[1 + 2] = m /\ Put(c, x)[1 + 3] = Close
      BY Zenon DEF Starts, x
    <2>4. Len(x) >= 3 /\ Put(c, x)[1 + 1] = x[1] /\ Put(c, x)[2 + 1] = x[2] /\ Put(c, x)[3 + 1] = x[3]
      BY <2>2, <2>3
    <2> QED
      BY <2>1, <2>2, <2>3, <2>4
  <1> HIDE DEF x
  <1>2. CASE OnlyRefs(Put(c, r))
    <2>1. PICK o \in Names : Starts(Put(c, r), o, 1)
      BY <1>1, <1>2, OnlyRefsPut
    <2>2. o # n
      BY <2>1
    <2>3. PICK s \in Text : Put(c, r) = RefTo(o, s)
      BY <2>1, PutFacts, RefHead
    <2>4. Sub(Put(c, r), {n}, f) = RefTo(o, Sub(s, {n}, f))
      BY <2>2, <2>3, SubOther
    <2>5. Sub(Put(c, r), {n}, f) = Put(c, Sub(r, {n}, f))
      BY SubPut
    <2>6. m = o
      <3>1. Starts(RefTo(o, Sub(s, {n}, f)), m, 1)
        BY <2>4, <2>5
      <3> QED
        BY <1>0, <3>1, RefFirst
    <2> QED
      BY <2>1, <2>6
  <1>3. CASE Len(f[n]) >= 2
    <2>0. ASSUME NEW y \in Text
          PROVE  /\ Cat(f[n], y)[1] # Open /\ Cat(f[n], y)[1] # Close /\ Cat(f[n], y)[2] # Close
      <3>0. PICK val \in Text : val = f[n]
        BY <1>0
      <3>1. 1 \in 1..Len(val) /\ 2 \in 1..Len(val)
        BY <1>3, <3>0 DEF Text
      <3>2. Cat(val, y)[1] = val[1] /\ Cat(val, y)[2] = val[2]
        BY <3>1, CatFacts
      <3>3. Plain(val)
        BY <3>0 DEF Fits
      <3>4. val[1] # Open /\ val[1] # Close /\ val[2] # Close
        BY <3>1, <3>3 DEF Plain
      <3> QED
        BY <3>0, <3>2, <3>4
    <2>h. ASSUME NEW t \in Text, Sub(t, {n}, f) # <<>>,
                 Sub(t, {n}, f)[1] # Open => Sub(t, {n}, f)[1] = Close \/ Sub(t, {n}, f)[2] = Close
          PROVE  \E d \in Chars, s \in Text : t = Put(d, s) /\ Sub(t, {n}, f) = Put(d, Sub(s, {n}, f))
      <3>1. ASSUME NEW s \in Text, Sub(t, {n}, f) = Cat(f[n], Sub(s, {n}, f)) PROVE FALSE
        <4>1. PICK y \in Text : y = Sub(s, {n}, f)
          BY <1>0
        <4>2. /\ Cat(f[n], y)[1] # Open /\ Cat(f[n], y)[1] # Close /\ Cat(f[n], y)[2] # Close
          BY <2>0
        <4> QED
          BY <2>h, <3>1, <4>1, <4>2, Zenon
      <3>2. CASE \E d \in Chars, s \in Text :
                     /\ t = Put(d, s) /\ Len(s) < Len(t) /\ ~Starts(t, n, 1)
                     /\ Sub(t, {n}, f) = Put(d, Sub(s, {n}, f))
        BY <3>2, Zenon
      <3>3. CASE \E s \in Text : /\ t = RefTo(n, s) /\ Len(s) < Len(t)
                                  /\ Sub(t, {n}, f) = Cat(f[n], Sub(s, {n}, f))
        BY <3>1, <3>3, Zenon
      <3>4. CASE t = <<>> /\ Sub(t, {n}, f) = <<>>
        BY <2>h, <3>4
      <3> QED
        BY <3>2, <3>3, <3>4, SubHead, Zenon
    <2>p. ASSUME NEW d \in Chars, NEW y \in Text
          PROVE  /\ Len(Put(d, y)) = Len(y) + 1 /\ Len(y) \in Nat /\ Put(d, y)[1] = d
                 /\ \A i \in 1..Len(y) : Put(d, y)[i + 1] = y[i]
      BY PutFacts
    <2>1. PICK d1 \in Chars, r1 \in Text : r = Put(d1, r1) /\ x = Put(d1, Sub(r1, {n}, f))
      <3>1. x # <<>>
        BY <1>1, EmptySeq DEF Text
      <3> QED
        BY <1>1, <2>h, <3>1 DEF x
    <2>2. PICK x1 \in Text : x1 = Sub(r1, {n}, f)
      BY <1>0
    <2>3. d1 = Open /\ Len(x1) \in Nat /\ Len(x1) >= 2 /\ x1[1] = m /\ x1[2] = Close
      <3>1. /\ Len(x) = Len(x1) + 1 /\ Len(x1) \in Nat /\ x[1] = d1
            /\ \A i \in 1..Len(x1) : x[i + 1] = x1[i]
        <4>1. x = Put(d1, x1)
          BY <2>1, <2>2
        <4> QED
          BY <2>p, <4>1
      <3>2. x[1 + 1] = x1[1] /\ x[2 + 1] = x1[2]
        BY <1>1, <3>1
      <3> QED
        BY <1>1, <3>1, <3>2
    <2>4. PICK d2 \in Chars, r2 \in Text : r1 = Put(d2, r2) /\ x1 = Put(d2, Sub(r2, {n}, f))
      <3>1. x1 # <<>>
        BY <2>3, EmptySeq DEF Text
      <3> QED
        BY <2>2, <2>3, <2>h, <3>1
    <2>5. PICK x2 \in Text : x2 = Sub(r2, {n}, f)
      BY <1>0
    <2>6. d2 = m /\ Len(x2) \in Nat /\ Len(x2) >= 1 /\ x2[1] = Close
      <3>1. /\ Len(x1) = Len(x2) + 1 /\ Len(x2) \in Nat /\ x1[1] = d2
            /\ \A i \in 1..Len(x2) : x1[i + 1] = x2[i]
        <4>1. x1 = Put(d2, x2)
          BY <2>4, <2>5
        <4> QED
          BY <2>p, <4>1
      <3>2. x1[1 + 1] = x2[1]
        BY <2>3, <3>1
      <3> QED
        BY <2>3, <3>1, <3>2
    <2>7. PICK d3 \in Chars, r3 \in Text : r2 = Put(d3, r3) /\ x2 = Put(d3, Sub(r3, {n}, f))
      <3>1. x2 # <<>>
        BY <2>6, EmptySeq DEF Text
      <3> QED
        BY <2>5, <2>6, <2>h, <3>1
    <2>8. d3 = Close
      <3>1. x2[1] = d3
        BY <1>0, <2>7, PutFacts
      <3> QED
        BY <2>6, <3>1
    <2>9. Put(c, r) = RefTo(m, r3)
      BY <1>1, <2>1, <2>3, <2>4, <2>6, <2>7, <2>8, Zenon DEF RefTo
    <2> QED
      BY <2>9, RefFacts
  <1> QED
    BY <1>2, <1>3 DEF Fits

\* After a replacement no placeholder of that name is left, and none is new.
LEMMA StartsKept ==
    ASSUME NEW n \in Names, NEW f \in Texts, NEW t \in Text, Fits(t, n, f),
           NEW m \in Names, NEW i, Starts(Sub(t, {n}, f), m, i)
    PROVE  m # n /\ \E j : Starts(t, m, j)
  <1> DEFINE S(s) == Sub(s, {n}, f)
             P == {s \in Text : Fits(s, n, f) =>
                      \A j : Starts(S(s), m, j) => m # n /\ \E h : Starts(s, m, h)}
  <1>0. f[n] \in Text /\ \A s \in Text : S(s) \in Text
    BY SubTyped DEF Texts
  <1>1. ASSUME NEW s \in Text, \A r \in Text : Len(r) < Len(s) => r \in P,
               Fits(s, n, f), NEW j, Starts(S(s), m, j)
        PROVE  m # n /\ \E h : Starts(s, m, h)
    <2>i. ASSUME NEW r \in Text, Len(r) < Len(s), Fits(r, n, f), NEW k, Starts(S(r), m, k)
          PROVE  m # n /\ \E h \in Nat \ {0} : Starts(r, m, h)
      <3>1. m # n /\ \E h : Starts(r, m, h)
        BY <1>1, <2>i
      <3>2. \A h : Starts(r, m, h) => h \in Nat \ {0}
        BY DEF Starts, Text
      <3> QED
        BY <3>1, <3>2
    <2>1. CASE s = <<>> /\ S(s) = <<>>
      BY <1>1, <2>1 DEF Starts
    <2>2. ASSUME NEW r \in Text, s = RefTo(n, r), Len(r) < Len(s), S(s) = Cat(f[n], S(r))
          PROVE  m # n /\ \E h : Starts(s, m, h)
      <3>1. Fits(r, n, f) /\ Plain(f[n])
        BY <1>1, <2>2, FitsRest DEF Fits
      <3>2. PICK y \in Text : y = S(r)
        BY <1>0
      <3>3. PICK val \in Text : val = f[n]
        BY <1>0
      <3>4. Starts(Cat(val, y), m, j)
        BY <1>1, <2>2, <3>2, <3>3
      <3>5. Starts(y, m, j - Len(val))
        BY <3>1, <3>3, <3>4, StartsPlain
      <3>6. m # n /\ \E h \in Nat \ {0} : Starts(r, m, h)
        BY <2>2, <2>i, <3>1, <3>2, <3>5
      <3> QED
        BY <2>2, <3>6, RefFacts
    <2>3. ASSUME NEW c \in Chars, NEW r \in Text, s = Put(c, r), Len(r) < Len(s),
                 ~Starts(s, n, 1), S(s) = Put(c, S(r))
          PROVE  m # n /\ \E h : Starts(s, m, h)
      <3>1. Fits(r, n, f)
        BY <1>1, <2>3, FitsRest
      <3>2. S(s) \in Text /\ S(r) \in Text /\ j \in Nat /\ j # 0
        <4>1. S(s) \in Text /\ S(r) \in Text
          BY <1>0
        <4> HIDE DEF S
        <4>2. j \in Nat /\ j # 0
          BY <1>1, <4>1 DEF Starts, Text
        <4> QED
          BY <4>1, <4>2
      <3>3. CASE j = 1
        <4>1. Starts(Put(c, Sub(r, {n}, f)), m, 1)
          BY <1>1, <2>3, <3>3
        <4>2. Starts(s, m, 1)
          BY <1>1, <2>3, <4>1, StartsAtHead
        <4> QED
          BY <2>3, <4>2
      <3>4. CASE j # 1
        <4>1. j - 1 \in Nat \ {0} /\ (j - 1) + 1 = j
          BY <3>2, <3>4
        <4>2. Starts(S(r), m, j - 1)
          BY <1>1, <2>3, <3>2, <4>1, StartsPut
        <4>3. m # n /\ \E h \in Nat \ {0} : Starts(r, m, h)
          BY <2>3, <2>i, <3>1, <4>2
        <4> QED
          BY <2>3, <4>3, StartsPut
      <3> QED
        BY <3>3, <3>4
    <2>4. \/ s = <<>> /\ S(s) = <<>>
          \/ \E r \in Text : s = RefTo(n, r) /\ Len(r) < Len(s) /\ S(s) = Cat(f[n], S(r))
          \/ \E c \in Chars, r \in Text : /\ s = Put(c, r) /\ Len(r) < Len(s)
                                         /\ ~Starts(s, n, 1) /\ S(s) = Put(c, S(r))
      BY SubHead
    <2> HIDE DEF P, S
    <2> QED
      BY <2>1, <2>2, <2>3, <2>4, Zenon
  <1>2. \A s \in Text : (\A r \in Text : Len(r) < Len(s) => r \in P) => s \in P
    BY <1>1
  <1> HIDE DEF P
  <1>3. t \in P
    BY <1>2, TextInduction
  <1> QED
    BY <1>3 DEF P

\* To replace one name, and then all of them, is to replace all of them at once.
LEMMA SubTwice ==
    ASSUME NEW A \in SUBSET Names, NEW n \in A, NEW f \in Texts, NEW t \in Text, Fits(t, n, f)
    PROVE  Sub(Sub(t, {n}, f), A, f) = Sub(t, A, f)
  <1> DEFINE S(s) == Sub(s, {n}, f)
             P == {s \in Text : Fits(s, n, f) => Sub(S(s), A, f) = Sub(s, A, f)}
  <1>0. f[n] \in Text /\ \A s \in Text : S(s) \in Text
    BY SubTyped DEF Texts
  <1>1. ASSUME NEW s \in Text, \A r \in Text : Len(r) < Len(s) => r \in P, Fits(s, n, f)
        PROVE  Sub(S(s), A, f) = Sub(s, A, f)
    <2>1. CASE s = <<>> /\ S(s) = <<>>
      BY <2>1
    <2>2. ASSUME NEW r \in Text, s = RefTo(n, r), Len(r) < Len(s), S(s) = Cat(f[n], S(r))
          PROVE  Sub(S(s), A, f) = Sub(s, A, f)
      <3>1. Fits(r, n, f) /\ Plain(f[n])
        BY <1>1, <2>2, FitsRest DEF Fits
      <3>2. Sub(S(r), A, f) = Sub(r, A, f)
        BY <1>1, <2>2, <3>1
      <3>3. PICK y \in Text : y = S(r)
        BY <1>0
      <3>4. PICK val \in Text : val = f[n]
        BY <1>0
      <3>5. Sub(Cat(val, y), A, f) = Cat(val, Sub(y, A, f))
        BY <3>1, <3>4, SubPlain
      <3>6. Sub(s, A, f) = Cat(f[n], Sub(r, A, f))
        BY <2>2, SubRef
      <3> QED
        BY <2>2, <3>2, <3>3, <3>4, <3>5, <3>6
    <2>3. ASSUME NEW c \in Chars, NEW r \in Text, s = Put(c, r), Len(r) < Len(s),
                 ~Starts(s, n, 1), S(s) = Put(c, S(r))
          PROVE  Sub(S(s), A, f) = Sub(s, A, f)
      <3>1. CASE \E m \in A : Starts(s, m, 1)
        <4>1. PICK m \in A : Starts(s, m, 1)
          BY <3>1
        <4>2. PICK q \in Text : s = RefTo(m, q) /\ Len(q) < Len(s)
          BY <4>1, RefHead
        <4>3. S(s) = RefTo(m, S(q)) /\ S(q) \in Text
          <5>1. m # n
            BY <2>3, <4>1
          <5>2. Sub(RefTo(m, q), {n}, f) = RefTo(m, Sub(q, {n}, f))
            BY <5>1, SubOther
          <5> QED
            BY <1>0, <4>2, <5>2
        <4>4. Sub(S(q), A, f) = Sub(q, A, f)
          <5>1. Fits(q, n, f)
            BY <1>1, <4>2, FitsRest
          <5> QED
            BY <1>1, <4>2, <5>1
        <4>5. Sub(s, A, f) = Cat(f[m], Sub(q, A, f))
          BY <4>2, SubRef
        <4>6. Sub(S(s), A, f) = Cat(f[m], Sub(S(q), A, f))
          <5>1. PICK y \in Text : y = S(q)
            BY <4>3
          <5>2. Sub(RefTo(m, y), A, f) = Cat(f[m], Sub(y, A, f))
            BY SubRef
          <5> QED
            BY <4>3, <5>1, <5>2
        <4> QED
          BY <4>4, <4>5, <4>6
      <3>2. CASE \A m \in A : ~Starts(s, m, 1)
        <4>1. PICK y \in Text : y = S(r)
          BY <1>0
        <4>2. ASSUME NEW m \in A, Starts(Put(c, y), m, 1) PROVE FALSE
          <5>1. Starts(Put(c, Sub(r, {n}, f)), m, 1)
            BY <4>1, <4>2
          <5>2. Starts(s, m, 1)
            BY <1>1, <2>3, <5>1, StartsAtHead
          <5> QED
            BY <3>2, <5>2
        <4>3. Sub(Put(c, y), A, f) = Put(c, Sub(y, A, f))
          BY <4>2, SubPut
        <4>4. Sub(s, A, f) = Put(c, Sub(r, A, f))
          BY <2>3, <3>2, SubPut
        <4>5. Sub(y, A, f) = Sub(r, A, f)
          <5>1. Fits(r, n, f)
            BY <1>1, <2>3, FitsRest
          <5> QED
            BY <1>1, <2>3, <4>1, <5>1
        <4> QED
          BY <2>3, <4>1, <4>3, <4>4, <4>5
      <3> QED
        BY <3>1, <3>2
    <2>4. \/ s = <<>> /\ S(s) = <<>>
          \/ \E r \in Text : s = RefTo(n, r) /\ Len(r) < Len(s) /\ S(s) = Cat(f[n], S(r))
          \/ \E c \in Chars, r \in Text : /\ s = Put(c, r) /\ Len(r) < Len(s)
                                         /\ ~Starts(s, n, 1) /\ S(s) = Put(c, S(r))
      BY SubHead
    <2> HIDE DEF P, S
    <2> QED
      BY <2>1, <2>2, <2>3, <2>4, Zenon
  <1>2. \A s \in Text : (\A r \in Text : Len(r) < Len(s) => r \in P) => s \in P
    BY <1>1
  <1> HIDE DEF P
  <1>3. t \in P
    BY <1>2, TextInduction
  <1> QED
    BY <1>3 DEF P

\* When the first placeholder of a text has been replaced by a value that is no
\* shorter, the next one is not before the end of what it was.
LEMMA StartsBehind ==
    ASSUME NEW A \in SUBSET Names, NEW n \in A, NEW f \in Texts, NEW t \in Text,
           Plain(f[n]), Len(f[n]) >= 4,
           NEW i, Starts(t, n, i), \A m \in A : \A j : j < i => ~Starts(t, m, j),
           NEW o \in A, NEW k, k < i + 4, Starts(Sub(t, {n}, f), o, k)
    PROVE  FALSE
  <1> DEFINE S(s) == Sub(s, {n}, f)
             First(s, h) == Starts(s, n, h) /\ \A m \in A : \A j : j < h => ~Starts(s, m, j)
             P == {s \in Text : \A h : First(s, h) =>
                      \A j : j < h + 4 => ~Starts(S(s), o, j)}
  <1>0. /\ f[n] \in Text /\ Len(f[n]) \in Nat /\ f[n] # <<>>
        /\ \A s \in Text : S(s) \in Text
        /\ \A s \in Text : Fits(s, n, f)
    <2>1. f[n] \in Text /\ \A s \in Text : S(s) \in Text
      BY SubTyped DEF Texts
    <2>2. PICK val \in Text : val = f[n]
      BY <2>1
    <2>3. Len(val) \in Nat /\ val # <<>> /\ Len(val) >= 2
      BY <2>2, EmptySeq DEF Text
    <2> QED
      BY <2>1, <2>2, <2>3 DEF Fits
  <1>s. ASSUME NEW s \in Text, NEW m, NEW h, Starts(s, m, h) PROVE h \in Nat /\ h # 0
    BY <1>s DEF Starts, Text
  <1>1. ASSUME NEW s \in Text, \A r \in Text : Len(r) < Len(s) => r \in P,
               NEW h, First(s, h), NEW j, j < h + 4, Starts(S(s), o, j)
        PROVE  FALSE
    <2>0. h \in Nat /\ h # 0 /\ j \in Nat /\ j # 0 /\ Starts(s, n, h)
      BY <1>0, <1>1, <1>s
    <2>1. CASE s = <<>> /\ S(s) = <<>>
      BY <1>1, <2>1 DEF Starts
    <2>2. ASSUME NEW r \in Text, s = RefTo(n, r), Len(r) < Len(s), S(s) = Cat(f[n], S(r))
          PROVE  FALSE
      <3>1. Starts(s, n, 1)
        BY <2>2, RefFacts
      <3>2. h = 1
        <4>1. ~(1 < h)
          BY <1>1, <3>1
        <4> QED
          BY <2>0, <4>1
      <3>3. PICK y \in Text : y = S(r)
        BY <1>0
      <3>4. PICK val \in Text : val = f[n]
        BY <1>0
      <3>5. Starts(Cat(val, y), o, j)
        BY <1>1, <2>2, <3>3, <3>4
      <3>6. j > Len(val) /\ Starts(y, o, j - Len(val))
        BY <3>4, <3>5, StartsPlain
      <3>7. Len(val) >= 4 /\ Len(val) \in Nat
        BY <1>0, <3>4
      <3> QED
        BY <1>0, <1>1, <1>s, <2>0, <3>2, <3>6, <3>7
    <2>3. ASSUME NEW c \in Chars, NEW r \in Text, s = Put(c, r), Len(r) < Len(s),
                 ~Starts(s, n, 1), S(s) = Put(c, S(r))
          PROVE  FALSE
      <3>1. h # 1 /\ h - 1 \in Nat \ {0} /\ (h - 1) + 1 = h
        <4>1. h # 1
          BY <2>0, <2>3
        <4> QED
          BY <2>0, <4>1
      <3>2. First(r, h - 1)
        <4>1. Starts(r, n, h - 1)
          BY <2>0, <2>3, <3>1, StartsPut
        <4>2. ASSUME NEW m \in A, NEW g, g < h - 1, Starts(r, m, g) PROVE FALSE
          <5>1. g \in Nat \ {0}
            BY <1>s, <4>2
          <5>2. Starts(s, m, g + 1) /\ g + 1 < h
            BY <2>0, <2>3, <4>2, <5>1, StartsPut
          <5> QED
            BY <1>1, <5>2
        <4> QED
          BY <4>1, <4>2
      <3>3. PICK y \in Text : y = S(r)
        BY <1>0
      <3>4. CASE j = 1
        <4>1. Starts(Put(c, Sub(r, {n}, f)), o, 1)
          BY <1>1, <2>3, <3>4
        <4>2. Starts(s, o, 1)
          BY <1>0, <2>3, <4>1, StartsAtHead
        <4>3. 1 < h
          BY <2>0, <3>1
        <4> QED
          BY <1>1, <4>2, <4>3
      <3>5. CASE j # 1
        <4>1. j - 1 \in Nat \ {0} /\ (j - 1) + 1 = j /\ j - 1 < (h - 1) + 4
          BY <1>1, <2>0, <3>5
        <4>2. Starts(y, o, j - 1)
          BY <1>1, <2>3, <3>3, <4>1, StartsPut
        <4> QED
          BY <1>1, <2>3, <3>2, <3>3, <4>1, <4>2
      <3> QED
        BY <3>4, <3>5
    <2>4. \/ s = <<>> /\ S(s) = <<>>
          \/ \E r \in Text : s = RefTo(n, r) /\ Len(r) < Len(s) /\ S(s) = Cat(f[n], S(r))
          \/ \E c \in Chars, r \in Text : /\ s = Put(c, r) /\ Len(r) < Len(s)
                                         /\ ~Starts(s, n, 1) /\ S(s) = Put(c, S(r))
      BY SubHead
    <2> HIDE DEF P, S, First
    <2> QED
      BY <2>1, <2>2, <2>3, <2>4, Zenon
  <1>2. \A s \in Text : (\A r \in Text : Len(r) < Len(s) => r \in P) => s \in P
    BY <1>1
  <1>3. First(t, i)
    OBVIOUS
  <1> HIDE DEF P
  <1>4. t \in P
    BY <1>2, TextInduction
  <1> QED
    BY <1>3, <1>4 DEF P

-----------------------------------------------------------------------------
(***************************************************************************)
(* What JobVariables says of placeholders, in these terms                  *)
(***************************************************************************)
\* A placeholder has four characters, and a sequence of text is one when each of its
\* characters is.
LEMMA OccursStarts ==
    ASSUME NEW t \in Text, NEW n \in Names, NEW i \in Nat \ {0}
    PROVE  /\ Len(Placeholder(<<n>>)) = 4
           /\ Occurs(t, Placeholder(<<n>>), i) <=> Starts(t, n, i)
  <1> DEFINE part == Placeholder(<<n>>)
             s == SubSeq(t, i, i + 3)
  <1>0. /\ Dollar \in Chars /\ Open \in Chars /\ Close \in Chars /\ n \in Chars
        /\ t \in Seq(Chars) /\ Len(t) \in Nat
    BY Brackets, CharsOfTexts DEF Text
  <1>1. part = Wrapped(Dollar, Open, <<n>>, Close)
    BY Zenon DEF Placeholder, Wrapped, Dollar, Open, Close
  <1>2. /\ part \in Seq(Chars) /\ Len(part) = 4
        /\ part[1] = Dollar /\ part[2] = Open /\ part[3] = n /\ part[4] = Close
    <2> DEFINE w == Wrapped(Dollar, Open, <<n>>, Close)
    <2>1. PICK a \in Chars, b \in Chars, c \in Chars : a = Dollar /\ b = Open /\ c = Close
      BY <1>0
    <2>2. /\ <<a, b>> \o <<n>> \o <<c>> \in Seq(Chars)
          /\ Len(<<a, b>> \o <<n>> \o <<c>>) = 4
          /\ (<<a, b>> \o <<n>> \o <<c>>)[1] = a /\ (<<a, b>> \o <<n>> \o <<c>>)[2] = b
          /\ (<<a, b>> \o <<n>> \o <<c>>)[3] = n /\ (<<a, b>> \o <<n>> \o <<c>>)[4] = c
      BY <1>0
    <2>4. w = <<a, b>> \o <<n>> \o <<c>>
      BY <2>1 DEF Wrapped
    <2>3. part = w
      BY <1>1
    <2> HIDE DEF w, part
    <2> QED
      BY <2>1, <2>2, <2>3, <2>4
  <1> HIDE DEF part
  <1>3. Occurs(t, part, i) <=> i + 3 <= Len(t) /\ s = part
    BY <1>2 DEF Occurs
  <1>4. ASSUME i + 3 <= Len(t)
        PROVE  /\ s \in Seq(Chars) /\ Len(s) = 4
               /\ s[1] = t[i] /\ s[2] = t[i + 1] /\ s[3] = t[i + 2] /\ s[4] = t[i + 3]
    BY <1>0, <1>4
  <1> HIDE DEF s
  <1>5. ASSUME i + 3 <= Len(t), \A j \in 1..4 : s[j] = part[j] PROVE s = part
    BY <1>2, <1>4, <1>5, SeqEqual
  <1>6. i + 3 <= Len(t) => i \in 1..Len(t)
    BY <1>0
  <1>7. \A j \in 1..4 : j = 1 \/ j = 2 \/ j = 3 \/ j = 4
    OBVIOUS
  <1>8. ASSUME Starts(t, n, i) PROVE Occurs(t, part, i)
    <2>1. i + 3 <= Len(t) /\ t[i] = Dollar /\ t[i + 1] = Open /\ t[i + 2] = n /\ t[i + 3] = Close
      BY <1>8 DEF Starts
    <2>2. s[1] = part[1] /\ s[2] = part[2] /\ s[3] = part[3] /\ s[4] = part[4]
      BY <1>2, <1>4, <2>1
    <2> QED
      BY <1>3, <1>5, <1>7, <2>1, <2>2
  <1>9. ASSUME Occurs(t, part, i) PROVE Starts(t, n, i)
    <2>1. i + 3 <= Len(t) /\ s = part
      BY <1>3, <1>9
    <2>2. t[i] = Dollar /\ t[i + 1] = Open /\ t[i + 2] = n /\ t[i + 3] = Close
      BY <1>2, <1>4, <2>1
    <2> QED
      BY <1>6, <2>1, <2>2 DEF Starts
  <1> QED
    BY <1>2, <1>8, <1>9 DEF part

\* The indexes where a placeholder begins have a $.
LEMMA RefersStarts ==
    ASSUME NEW t \in Text
    PROVE  /\ \A n \in Names : n \in Refers(t) <=> \E i : Starts(t, n, i)
           /\ OnlyPlaceholders(t) <=> OnlyRefs(t)
           /\ \A n \in Names : \A i : i \in IndexesOf(t, "$") /\ Occurs(t, Placeholder(<<n>>), i)
                                      <=> Starts(t, n, i)
  <1>0. DOMAIN t = 1..Len(t) /\ Len(t) \in Nat
    BY DEF Text
  <1>1. \A i : i \in IndexesOf(t, "$") <=> i \in 1..Len(t) /\ t[i] = Dollar
    BY <1>0 DEF IndexesOf, Dollar
  <1>2. \A i \in 1..Len(t) : i \in Nat \ {0}
    BY <1>0
  <1>3. ASSUME NEW n \in Names, NEW i
        PROVE  i \in IndexesOf(t, "$") /\ Occurs(t, Placeholder(<<n>>), i) <=> Starts(t, n, i)
    <2>1. CASE i \in 1..Len(t)
      <3>1. Occurs(t, Placeholder(<<n>>), i) <=> Starts(t, n, i)
        BY <1>2, <2>1, OccursStarts
      <3>2. Starts(t, n, i) => t[i] = Dollar
        BY DEF Starts
      <3> QED
        BY <1>1, <2>1, <3>1, <3>2
    <2>2. CASE i \notin 1..Len(t)
      BY <1>1, <2>2 DEF Starts
    <2> QED
      BY <2>1, <2>2
  <1>4. \A n \in Names : n \in Refers(t) <=> \E i : Starts(t, n, i)
    BY <1>3, Zenon DEF Refers
  <1>5. OnlyPlaceholders(t) <=> OnlyRefs(t)
    <2>1. OnlyPlaceholders(t) <=>
              \A i \in IndexesOf(t, "$") : \E n \in Names : Occurs(t, Placeholder(<<n>>), i)
      BY Zenon DEF OnlyPlaceholders
    <2>2. OnlyRefs(t) <=>
              \A i \in IndexesOf(t, "$") : \E n \in Names : Starts(t, n, i)
      BY <1>1, Zenon DEF OnlyRefs
    <2> QED
      BY <1>3, <2>1, <2>2, Zenon
  <1> QED
    BY <1>3, <1>4, <1>5

\* strings.Replace replaces the placeholders of one name.
LEMMA ReplaceIsSub ==
    ASSUME NEW t \in Text, NEW n \in Names, NEW f \in Texts
    PROVE  Replace(t, Placeholder(<<n>>), f[n]) = Sub(t, {n}, f)
  <1> DEFINE part == Placeholder(<<n>>)
             starts == {i \in DOMAIN t : Occurs(t, part, i)}
             by == f[n]
             ss == [i \in DOMAIN t |->
                       IF i \in starts THEN by
                       ELSE IF \E s \in starts : s < i /\ i < s + Len(part) THEN <<>>
                       ELSE <<t[i]>>]
  <1>0. DOMAIN t = 1..Len(t) /\ Len(t) \in Nat
    BY DEF Text
  <1>1. Len(part) = 4 /\ \A i : i \in starts <=> Starts(t, n, i)
    <2>1. \A i \in 1..Len(t) : i \in Nat \ {0}
      BY <1>0
    <2>2. \A i \in Nat \ {0} : Occurs(t, part, i) <=> Starts(t, n, i)
      BY OccursStarts
    <2>3. \A i : Starts(t, n, i) => i \in 1..Len(t)
      BY DEF Starts
    <2>4. 1 \in Nat \ {0}
      OBVIOUS
    <2>5. Len(part) = 4
      BY <2>4, OccursStarts
    <2> QED
      BY <1>0, <2>1, <2>2, <2>3, <2>5
  <1> HIDE DEF starts, part, by
  <1>2. ASSUME NEW i \in 1..Len(t) PROVE ss[i] = Part(t, {n}, f, i)
    <2>0. ss[i] = IF i \in starts THEN by
                  ELSE IF \E s \in starts : s < i /\ i < s + Len(part) THEN <<>>
                  ELSE <<t[i]>>
      BY <1>0
    <2>1. CASE Starts(t, n, i)
      <3>1. Part(t, {n}, f, i) = f[n]
        BY <2>1, PartIs, ZenonT(60)
      <3> QED
        BY <1>1, <2>0, <2>1, <3>1 DEF by
    <2>2. CASE ~Starts(t, n, i) /\ \E s : Starts(t, n, s) /\ s < i /\ i < s + 4
      <3>1. Part(t, {n}, f, i) = <<>>
        BY <2>2, PartIs, ZenonT(60)
      <3> QED
        BY <1>1, <2>0, <2>2, <3>1
    <2>3. CASE ~Starts(t, n, i) /\ \A s : ~(Starts(t, n, s) /\ s < i /\ i < s + 4)
      <3>1. \A s : ~(Starts(t, n, s) /\ s <= i /\ i < s + 4)
        <4>1. \A s : Starts(t, n, s) => s \in Nat
          BY <1>0 DEF Starts
        <4>2. \A s \in Nat : s <= i => s < i \/ s = i
          BY <1>0
        <4> QED
          BY <2>3, <4>1, <4>2
      <3>2. Part(t, {n}, f, i) = <<t[i]>>
        BY <3>1, PartIs, ZenonT(60)
      <3> QED
        BY <1>1, <2>0, <2>3, <3>2
    <2> QED
      BY <2>1, <2>2, <2>3
  <1>3. ss = Parts(t, {n}, f)
    <2>1. ss = [i \in 1..Len(t) |-> ss[i]]
      BY <1>0
    <2> HIDE DEF ss
    <2> QED
      BY <1>2, <2>1 DEF Parts
  <1>4. Replace(t, part, by) = FlattenSeq(ss)
    BY Zenon DEF Replace, ss, starts
  <1> HIDE DEF ss
  <1> QED
    BY <1>3, <1>4 DEF Sub, part, by

\* Expand replaces those of the names that have a value.
LEMMA ExpandIsSub ==
    ASSUME NEW t \in Text, NEW f \in Texts, NEW A \in SUBSET Names,
           \A n \in Names : \A i : Starts(t, n, i) => (n \in A <=> f[n] # <<>>)
    PROVE  Expand(t, f) = Sub(t, A, f)
  <1> DEFINE starts == [n \in Names |-> IF f[n] = <<>> THEN {}
                                   ELSE {i \in IndexesOf(t, "$") : Occurs(t, Placeholder(<<n>>), i)}]
             all == UNION {starts[n] : n \in Names}
             inside == UNION {(i + 1)..(i + 3) : i \in all}
             At(i) == {n \in Names : i \in starts[n]}
             ss == [i \in DOMAIN t |->
                      IF At(i) # {} THEN f[CHOOSE n \in At(i) : TRUE]
                      ELSE IF i \in inside THEN <<>> ELSE <<t[i]>>]
  <1>0. DOMAIN t = 1..Len(t) /\ Len(t) \in Nat
    BY DEF Text
  <1>1. ASSUME NEW n \in Names, NEW i PROVE i \in starts[n] <=> n \in A /\ Starts(t, n, i)
    <2>1. starts[n] = IF f[n] = <<>> THEN {}
                      ELSE {j \in IndexesOf(t, "$") : Occurs(t, Placeholder(<<n>>), j)}
      OBVIOUS
    <2>2. i \in IndexesOf(t, "$") /\ Occurs(t, Placeholder(<<n>>), i) <=> Starts(t, n, i)
      BY RefersStarts
    <2> HIDE DEF starts
    <2> QED
      BY <2>1, <2>2, Zenon
  <1> HIDE DEF starts
  <1>2. \A i : i \in all <=> \E n \in A : Starts(t, n, i)
    BY <1>1
  <1>3. \A n, i : n \in At(i) <=> n \in A /\ Starts(t, n, i)
    BY <1>1
  <1> HIDE DEF all, At
  <1>4. \A i : i \in inside <=> \E s \in all : i \in (s + 1)..(s + 3)
    OBVIOUS
  <1> HIDE DEF inside
  <1>s. \A n, s : Starts(t, n, s) => s \in Nat
    BY <1>0 DEF Starts
  <1>5. ASSUME NEW i \in 1..Len(t) PROVE ss[i] = Part(t, A, f, i)
    <2>0. ss[i] = IF At(i) # {} THEN f[CHOOSE n \in At(i) : TRUE]
                  ELSE IF i \in inside THEN <<>> ELSE <<t[i]>>
      BY <1>0
    <2> HIDE DEF ss
    <2>1. CASE At(i) # {}
      <3>1. PICK n \in At(i) : n = CHOOSE m \in At(i) : TRUE
        BY <2>1
      <3>2. n \in A /\ Starts(t, n, i)
        BY <1>3
      <3>3. Part(t, A, f, i) = f[n]
        BY <3>2, PartIs, ZenonT(60)
      <3> QED
        BY <2>0, <2>1, <3>1, <3>3
    <2>2. CASE At(i) = {} /\ i \in inside
      <3>1. PICK n, s : n \in A /\ Starts(t, n, s) /\ i \in (s + 1)..(s + 3)
        BY <1>2, <1>4, <2>2
      <3>2. s < i /\ i < s + 4
        BY <1>s, <3>1
      <3>3. Part(t, A, f, i) = <<>>
        BY <3>1, <3>2, PartIs, ZenonT(60)
      <3> QED
        BY <2>0, <2>2, <3>3
    <2>3. CASE At(i) = {} /\ i \notin inside
      <3>1. ASSUME NEW n \in A, NEW s, Starts(t, n, s), s <= i, i < s + 4 PROVE FALSE
        <4>1. s # i
          BY <1>3, <2>3, <3>1
        <4>2. i \in (s + 1)..(s + 3)
          BY <1>0, <1>s, <3>1, <4>1
        <4> QED
          BY <1>2, <1>4, <2>3, <3>1, <4>2
      <3>2. Part(t, A, f, i) = <<t[i]>>
        BY <3>1, PartIs, ZenonT(60)
      <3> QED
        BY <2>0, <2>3, <3>2
    <2> QED
      BY <2>1, <2>2, <2>3
  <1>6. ss = Parts(t, A, f)
    <2>1. ss = [i \in 1..Len(t) |-> ss[i]]
      BY <1>0
    <2> HIDE DEF ss
    <2> QED
      BY <1>5, <2>1 DEF Parts
  <1>7. Expand(t, f) = FlattenSeq(ss)
    BY Zenon DEF Expand, ss, At, inside, all, starts
  <1> HIDE DEF ss
  <1> QED
    BY <1>6, <1>7 DEF Sub

\* The placeholders of a text that have a value.
UsedIn(t, f) == {n \in Names : f[n] # <<>> /\ \E i : Starts(t, n, i)}

\* What Exact says of a text and its values.
LEMMA ExactMeans ==
    ASSUME NEW t \in Text, NEW f \in Texts
    PROVE  /\ Exact(t, f) => /\ \A n \in UsedIn(t, f) : Plain(f[n])
                             /\ \/ \A n \in UsedIn(t, f) : Len(f[n]) >= 4
                                \/ OnlyRefs(t) /\ \E n \in Names : UsedIn(t, f) = {n}
           /\ UsedIn(t, f) = {} => Exact(t, f)
  <1> DEFINE used == {n \in Refers(t) : f[n] # <<>>}
  <1>1. used = UsedIn(t, f)
    <2>1. \A n \in Refers(t) : n \in Names
      BY DEF Refers
    <2> QED
      BY <2>1, RefersStarts, Zenon DEF UsedIn
  <1>2. \A n \in used : \A c : IndexesOf(f[n], c) = {} <=> \A i \in 1..Len(f[n]) : f[n][i] # c
    <2> SUFFICES ASSUME NEW n \in used, NEW c
                 PROVE  IndexesOf(f[n], c) = {} <=> \A i \in 1..Len(f[n]) : f[n][i] # c
      BY Zenon
    <2>1. n \in Names
      BY <1>1 DEF UsedIn
    <2>2. DOMAIN f[n] = 1..Len(f[n])
      BY <2>1 DEF Texts, Text
    <2> QED
      BY <2>2, Zenon DEF IndexesOf
  <1> HIDE DEF used
  <1>3. Exact(t, f) <=>
            /\ \A n \in used : \A c \in {Dollar, Open, Close} : IndexesOf(f[n], c) = {}
            /\ \/ \A n \in used : Len(f[n]) >= 4
               \/ OnlyPlaceholders(t) /\ \E n \in used : used = {n}
    BY Zenon DEF Exact, used, Dollar, Open, Close
  <1>4. (\A n \in used : \A c \in {Dollar, Open, Close} : IndexesOf(f[n], c) = {})
            <=> \A n \in used : Plain(f[n])
    BY <1>2 DEF Plain
  <1>5. \A n \in used : n \in Names
    BY <1>1 DEF UsedIn
  <1>6. OnlyPlaceholders(t) <=> OnlyRefs(t)
    BY RefersStarts
  <1> QED
    BY <1>1, <1>3, <1>4, <1>5, <1>6

\* Expand replaces the placeholders that are used.
LEMMA ExpandUsed ==
    ASSUME NEW t \in Text, NEW f \in Texts
    PROVE  Expand(t, f) = Sub(t, UsedIn(t, f), f) /\ Expand(t, f) \in Text
  <1>1. UsedIn(t, f) \in SUBSET Names
    BY DEF UsedIn
  <1>2. \A n \in Names : \A i : Starts(t, n, i) => (n \in UsedIn(t, f) <=> f[n] # <<>>)
    BY Zenon DEF UsedIn
  <1>3. Expand(t, f) = Sub(t, UsedIn(t, f), f)
    BY <1>1, <1>2, ExpandIsSub
  <1> QED
    BY <1>1, <1>3, SubTyped

\* A text without a mark refers to nothing and is its own expansion.
LEMMA PlainExpands ==
    ASSUME NEW t \in Text, Plain(t), NEW f \in Texts
    PROVE  Exact(t, f) /\ Expand(t, f) = t /\ \A n, i : ~Starts(t, n, i)
  <1>1. \A n, i : ~Starts(t, n, i)
    BY DEF Plain, Starts
  <1>2. UsedIn(t, f) = {}
    BY <1>1 DEF UsedIn
  <1>3. Sub(t, UsedIn(t, f), f) = t
    BY <1>1, <1>2, SubNone
  <1> QED
    BY <1>1, <1>2, <1>3, ExactMeans, ExpandUsed

-----------------------------------------------------------------------------
(***************************************************************************)
(* The scan                                                                *)
(***************************************************************************)
\* The scan of t has come to i in what is now src: no other placeholder is used in
\* it, and the same is still to come of it; no used one is behind i; and values are
\* long, or none has been put, or there is nothing left to replace.
Scanned(src, i, t, f) ==
    /\ UsedIn(src, f) \subseteq UsedIn(t, f)
    /\ Sub(src, UsedIn(t, f), f) = Sub(t, UsedIn(t, f), f)
    /\ \A n \in UsedIn(t, f) : \A j : j < i => ~Starts(src, n, j)
    /\ (\A n \in UsedIn(t, f) : Len(f[n]) >= 4) \/ src = t \/ UsedIn(src, f) = {}

\* It begins at the first character.
LEMMA ScanBegins ==
    ASSUME NEW t \in Text, NEW f PROVE Scanned(t, 1, t, f)
  <1>1. \A n, j : Starts(t, n, j) => ~(j < 1)
    BY DEF Starts, Text
  <1> QED
    BY <1>1 DEF Scanned

\* It may go on to where the next placeholder may be.
LEMMA ScanGoesOn ==
    ASSUME NEW t \in Text, NEW f, NEW src \in Text, NEW i \in Nat, NEW k \in Nat,
           Scanned(src, i, t, f),
           \A n \in UsedIn(t, f), j \in Nat : i <= j /\ j < k => ~Starts(src, n, j)
    PROVE  Scanned(src, k, t, f)
  <1>1. ASSUME NEW n \in UsedIn(t, f), NEW j, j < k, Starts(src, n, j) PROVE FALSE
    <2>1. j \in Nat
      BY <1>1 DEF Starts, Text
    <2>2. j < i \/ i <= j
      BY <2>1
    <2> QED
      BY <1>1, <2>1, <2>2 DEF Scanned
  <1> QED
    BY <1>1 DEF Scanned

\* At its end the text is what Expand makes of it.
LEMMA ScanIsExact ==
    ASSUME NEW t \in Text, NEW f \in Texts, NEW src \in Text, NEW i \in Nat,
           Scanned(src, i, t, f), i > Len(src)
    PROVE  src = Expand(t, f)
  <1>1. UsedIn(t, f) \in SUBSET Names
    BY DEF UsedIn
  <1>2. ASSUME NEW n \in UsedIn(t, f), NEW j, Starts(src, n, j) PROVE FALSE
    <2>1. j < i
      BY <1>2 DEF Starts, Text
    <2> QED
      BY <1>2, <2>1 DEF Scanned
  <1>3. Sub(src, UsedIn(t, f), f) = src
    BY <1>1, <1>2, SubNone
  <1> QED
    BY <1>3, ExpandUsed DEF Scanned

\* A replacement takes it to the end of the placeholder that was there.
LEMMA ScanGoesBehind ==
    ASSUME NEW t \in Text, NEW f \in Texts, NEW src \in Text, NEW i \in Nat,
           Scanned(src, i, t, f), Exact(t, f),
           NEW n \in Names, f[n] # <<>>, Starts(src, n, i)
    PROVE  Scanned(Sub(src, {n}, f), i + 4, t, f)
  <1> DEFINE U == UsedIn(t, f)
             more == Sub(src, {n}, f)
  <1>1. n \in UsedIn(src, f) /\ n \in U /\ U \in SUBSET Names
    BY DEF UsedIn, Scanned
  <1>2. Plain(f[n]) /\ f[n] \in Text
    BY <1>1, ExactMeans DEF Texts
  <1>3. \/ \A m \in U : Len(f[m]) >= 4
        \/ src = t /\ OnlyRefs(src) /\ U = {n}
    <2>1. CASE \A m \in U : Len(f[m]) >= 4
      BY <2>1
    <2>2. CASE ~\A m \in U : Len(f[m]) >= 4
      <3>1. src = t
        BY <1>1, <2>2 DEF Scanned
      <3>2. OnlyRefs(t) /\ \E m \in Names : U = {m}
        BY <2>2, ExactMeans
      <3> QED
        BY <1>1, <3>1, <3>2
    <2> QED
      BY <2>1, <2>2
  <1>4. Fits(src, n, f)
    <2>1. CASE \A m \in U : Len(f[m]) >= 4
      <3>1. PICK val \in Text : val = f[n]
        BY <1>2
      <3>2. Len(val) \in Nat /\ Len(val) >= 4
        BY <1>1, <2>1, <3>1 DEF Text
      <3>3. Len(f[n]) >= 2
        BY <3>1, <3>2
      <3> QED
        BY <1>2, <3>3 DEF Fits
    <2>2. CASE OnlyRefs(src)
      BY <1>2, <2>2 DEF Fits
    <2> QED
      BY <1>3, <2>1, <2>2
  <1>5. \A m \in Names : \A j : Starts(more, m, j) => m # n /\ \E h : Starts(src, m, h)
    BY <1>4, StartsKept
  <1>6. Sub(more, U, f) = Sub(t, U, f)
    <2>1. Sub(more, U, f) = Sub(src, U, f)
      BY <1>1, <1>4, SubTwice
    <2> QED
      BY <2>1 DEF Scanned
  <1>7. UsedIn(more, f) \subseteq U
    <2>1. UsedIn(more, f) \subseteq UsedIn(src, f)
      BY <1>5 DEF UsedIn
    <2> QED
      BY <2>1 DEF Scanned
  <1>8. CASE \A m \in U : Len(f[m]) >= 4
    <2>1. ASSUME NEW o \in U, NEW j, j < i + 4, Starts(more, o, j) PROVE FALSE
      <3>1. \A m \in U : \A k : k < i => ~Starts(src, m, k)
        BY DEF Scanned
      <3>2. Len(f[n]) >= 4
        BY <1>1, <1>8
      <3> QED
        BY <1>1, <1>2, <2>1, <3>1, <3>2, StartsBehind
    <2> QED
      BY <1>6, <1>7, <1>8, <2>1 DEF Scanned
  <1>9. CASE U = {n}
    <2>1. UsedIn(more, f) = {}
      BY <1>5, <1>7, <1>9 DEF UsedIn
    <2>2. ASSUME NEW o \in U, NEW j, Starts(more, o, j) PROVE FALSE
      BY <1>1, <1>5, <1>9, <2>2
    <2> QED
      BY <1>6, <2>1, <2>2 DEF Scanned
  <1> QED
    BY <1>3, <1>8, <1>9

-----------------------------------------------------------------------------
(***************************************************************************)
(* Resolve                                                                 *)
(***************************************************************************)
First == [k \in Names |-> Expand(given[k], system)]
Resolved(k) == Exact(First[k], First) => v[k] = Expand(First[k], First)

\* The loop that Resolve is in, where a scan takes its text and its values from, and
\* the variables that it has not replaced yet.
Loop == IF pc = "scan" THEN pass ELSE pc
Source(k) == IF pass = "system" THEN given[k] ELSE First[k]
Values == IF pass = "system" THEN system ELSE First
Waits(k) == k \in todo \/ (pc = "scan" /\ k = scan.key)

\* The first loop takes the values of the server to First, and the second those of
\* First to what they expand to. Its values are the variables as they are by now: those
\* that an exact scan uses are plain, and have been and will be those of First.
ResolveInv ==
    (\A k \in Names : Exact(given[k], system)) =>
        /\ Loop = "system" =>
               \A k \in Names : v[k] = IF Waits(k) THEN given[k] ELSE First[k]
        /\ Loop = "own" =>
               \A k \in Names : IF Waits(k) THEN v[k] = First[k] ELSE Resolved(k)
        /\ pc = "scan" =>
               /\ scan.key \notin todo
               /\ Exact(Source(scan.key), Values) =>
                      Scanned(scan.src, scan.i, Source(scan.key), Values)
        /\ pc = "write" => \A k \in Names : Resolved(k)

\* What the loops start from.
LEMMA FirstTyped ==
    ASSUME Typed PROVE First \in Texts /\ system \in Texts /\ given \in Texts
  <1>1. system \in Texts /\ given \in Texts
    BY DEF Typed, Texts
  <1>2. \A k \in Names : Expand(given[k], system) \in Text
    BY <1>1, ExpandUsed DEF Texts
  <1> QED
    BY <1>1, <1>2 DEF First, Texts

\* One character of a text.
LEMMA OneOfText ==
    ASSUME NEW t \in Seq(Chars), NEW k \in 1..Len(t) PROVE SubSeq(t, k, k) = <<t[k]>>
  <1>1. k \in Nat /\ Len(t) \in Nat
    BY LenProperties
  <1>2. t[k] \in Chars
    BY ElementOfSeq
  <1>3. SubSeq(t, k, k) \in Seq(Chars) /\ Len(SubSeq(t, k, k)) = 1 /\ SubSeq(t, k, k)[1] = t[k]
    BY <1>1, <1>2
  <1>4. <<t[k]>> \in Seq(Chars) /\ Len(<<t[k]>>) = 1 /\ <<t[k]>>[1] = t[k]
    BY <1>2
  <1>5. \A i \in 1..1 : i = 1
    OBVIOUS
  <1> DEFINE l == SubSeq(t, k, k)
             r == <<t[k]>>
  <1>6. /\ l \in Seq(Chars) /\ r \in Seq(Chars) /\ Len(l) = 1 /\ Len(r) = 1
        /\ \A i \in 1..1 : l[i] = r[i]
    BY <1>3, <1>4, <1>5
  <1> HIDE DEF l, r
  <1>7. l = r
    BY <1>6, SeqEqual
  <1> QED
    BY <1>7 DEF l, r

\* The scanner finds the name of a placeholder.
LEMMA FindsName ==
    ASSUME Typed, pc = "scan", NEW n \in Names, Starts(scan.src, n, scan.i)
    PROVE  /\ scan.i < Len(scan.src) /\ Char(scan.i) = Dollar /\ Char(scan.i + 1) = Open
           /\ Val = GetVariable(<<n>>) /\ Env = <<n>> /\ RIndex = scan.i + 3
  <1> DEFINE t == scan.src
             i == scan.i
  <1>0. t \in Seq(Chars) /\ Len(t) \in Nat /\ DOMAIN t = 1..Len(t) /\ i \in Nat \ {0}
    BY DEF Typed, Text
  <1>1. i + 3 <= Len(t) /\ t[i] = Dollar /\ t[i + 1] = Open /\ t[i + 2] = n /\ t[i + 3] = Close
    BY DEF Starts
  <1>2. \A r : r \in RightBrackets <=> r \in 1..Len(t) /\ t[r] = Close /\ r > i + 1
    <2>1. RightBrackets = {r \in IndexesOf(t, Close) : r > i + 1}
      BY Zenon DEF RightBrackets, Close
    <2> QED
      BY <1>0, <2>1 DEF IndexesOf
  <1> HIDE DEF t, i
  <1>3. RightBrackets \in SUBSET Nat /\ i + 3 \in RightBrackets
    BY <1>0, <1>1, <1>2
  <1>4. RIndex \in RightBrackets /\ RIndex <= i + 3
    <2>1. RightBrackets # {}
      BY <1>3
    <2>2. Min(RightBrackets) \in RightBrackets /\ \A x \in RightBrackets : Min(RightBrackets) <= x
      BY <1>3, <2>1, LeastIndex
    <2> QED
      BY <1>3, <2>2 DEF RIndex
  <1>5. RIndex = i + 3
    <2>1. RIndex # i + 2
      BY <1>1, <1>2, <1>4, Brackets
    <2>2. RIndex \in Nat /\ RIndex > i + 1
      BY <1>2, <1>3, <1>4
    <2> QED
      BY <1>0, <1>4, <2>1, <2>2
  <1>6. Env = <<n>>
    <2>1. (i + 3) - 1 = i + 2
      BY <1>0
    <2>2. Env = SubSeq(t, i + 2, i + 2)
      BY <1>5, <2>1 DEF Env, t, i
    <2>3. SubSeq(t, i + 2, i + 2) = <<t[i + 2]>>
      <3>1. i + 2 \in 1..Len(t)
        BY <1>0, <1>1
      <3> QED
        BY <1>0, <3>1, OneOfText
    <2> QED
      BY <1>1, <2>2, <2>3
  <1>7. Val = GetVariable(<<n>>)
    BY <1>3, <1>6 DEF Val
  <1>8. i < Len(t)
    BY <1>0, <1>1
  <1> QED
    BY <1>1, <1>5, <1>6, <1>7, <1>8 DEF Char, t, i

\* And it replaces nothing else.
LEMMA ReplacesName ==
    ASSUME Typed, ScanReplaces
    PROVE  \E n \in Names :
               /\ Starts(scan.src, n, scan.i) /\ GetVariable(<<n>>) # <<>>
               /\ scan'.key = scan.key /\ scan'.i = scan.i + 4
               /\ scan'.src = Replace(scan.src, Placeholder(<<n>>), GetVariable(<<n>>))
  <1> DEFINE t == scan.src
             i == scan.i
  <1>0. /\ t \in Seq(Chars) /\ Len(t) \in Nat /\ DOMAIN t = 1..Len(t) /\ i \in Nat \ {0}
        /\ scan \in [key : Names, src : Text, i : Nat \ {0}] /\ pc = "scan"
    BY DEF Typed, Text, ScanReplaces, Scanning
  <1>1. t[i] = Dollar /\ i < Len(t) /\ t[i + 1] = Open /\ Val # <<>>
    <2>1. i < Len(t) /\ ~Skips
      BY Zenon DEF ScanReplaces, t, i
    <2>2. Skips <=> \/ Char(i) # Dollar
                    \/ i < Len(t) /\ (Char(i + 1) # Open \/ Val = <<>>)
      BY Zenon DEF Skips, Dollar, Open, t, i
    <2> QED
      BY <2>1, <2>2 DEF Char
  <1>2. \A r : r \in RightBrackets <=> r \in 1..Len(t) /\ t[r] = Close /\ r > i + 1
    <2>1. RightBrackets = {r \in IndexesOf(t, Close) : r > i + 1}
      BY Zenon DEF RightBrackets, Close
    <2> QED
      BY <1>0, <2>1 DEF IndexesOf
  <1>3. Val = GetVariable(Env) /\ RightBrackets # {}
    BY <1>1 DEF Val
  <1>4. Len(Env) = 1 /\ Env[1] \in Names
    BY <1>1, <1>3 DEF GetVariable
  <1>5. RIndex \in RightBrackets
    <2>1. RightBrackets \in SUBSET Nat
      BY <1>0, <1>2
    <2> QED
      BY <1>3, <2>1, LeastIndex DEF RIndex
  <1> HIDE DEF t, i
  <1>6. RIndex = i + 3 /\ Env = <<t[i + 2]>>
    <2>1. RIndex \in 1..Len(t) /\ RIndex > i + 1
      BY <1>2, <1>5
    <2>2. Env = SubSeq(t, i + 2, RIndex - 1)
      BY DEF Env, t, i
    <2>3. PICK r \in Nat : r = RIndex
      BY <1>0, <2>1
    <2>4. Len(SubSeq(t, i + 2, r - 1)) = r - (i + 2)
      BY <1>0, <2>1, <2>3
    <2>5. r = i + 3
      BY <1>0, <1>4, <2>2, <2>3, <2>4
    <2>6. r - 1 = i + 2
      BY <1>0, <2>5
    <2>7. SubSeq(t, i + 2, i + 2) = <<t[i + 2]>>
      <3>1. i + 2 \in 1..Len(t)
        BY <1>0, <2>1, <2>3, <2>5
      <3> QED
        BY <1>0, <3>1, OneOfText
    <2> QED
      BY <2>2, <2>3, <2>5, <2>6, <2>7
  <1>7. PICK n \in Names : n = t[i + 2] /\ Env = <<n>>
    <2>1. Env[1] = t[i + 2]
      BY <1>6
    <2> QED
      BY <1>4, <1>6, <2>1
  <1>8. t[i + 3] = Close /\ i + 3 <= Len(t) /\ i \in 1..Len(t)
    BY <1>0, <1>1, <1>2, <1>5, <1>6
  <1>9. Starts(t, n, i)
    BY <1>1, <1>7, <1>8 DEF Starts
  <1>10. scan' = [scan EXCEPT !.src = Replace(scan.src, Placeholder(Env), Val), !.i = RIndex + 1]
    BY DEF ScanReplaces
  <1>11. RIndex + 1 = i + 4
    BY <1>0, <1>6
  <1>12. /\ scan'.key = scan.key /\ scan'.i = i + 4
         /\ scan'.src = Replace(scan.src, Placeholder(Env), Val)
    BY <1>0, <1>10, <1>11
  <1> QED
    BY <1>1, <1>3, <1>7, <1>9, <1>12 DEF t, i

\* As long as the scan is exact, the values it gets are those of Values.
LEMMA GetsValue ==
    ASSUME Typed, ResolveInv, \A k \in Names : Exact(given[k], system), pc = "scan",
           Exact(Source(scan.key), Values),
           NEW n \in Names, NEW j, Starts(scan.src, n, j)
    PROVE  GetVariable(<<n>>) = Values[n]
  <1>1. Len(<<n>>) = 1 /\ <<n>>[1] = n
    OBVIOUS
  <1>2. GetVariable(<<n>>) = IF pass = "system" THEN system[n] ELSE v[n]
    BY <1>1 DEF GetVariable
  <1>3. CASE pass = "system"
    BY <1>2, <1>3 DEF Values
  <1>4. CASE pass # "system"
    <2>1. pass = "own" /\ Loop = "own" /\ Values = First /\ Source(scan.key) = First[scan.key]
      BY <1>4 DEF Typed, Loop, Values, Source
    <2>2. First \in Texts /\ First[n] \in Text /\ scan.key \in Names /\ First[scan.key] \in Text
      BY FirstTyped DEF Typed, Texts
    <2>3. CASE Waits(n)
      BY <1>2, <1>4, <2>1, <2>3 DEF ResolveInv
    <2>4. CASE ~Waits(n)
      <3>1. Resolved(n)
        BY <2>1, <2>4 DEF ResolveInv
      <3>2. Plain(First[n])
        <4>1. CASE First[n] = <<>>
          BY <4>1 DEF Plain
        <4>2. CASE First[n] # <<>>
          <5>1. n \in UsedIn(scan.src, First)
            BY <4>2 DEF UsedIn
          <5>2. n \in UsedIn(First[scan.key], First)
            BY <2>1, <5>1 DEF ResolveInv, Scanned
          <5> QED
            BY <2>1, <2>2, <5>2, ExactMeans
        <4> QED
          BY <4>1, <4>2
      <3>3. v[n] = First[n]
        BY <2>2, <3>1, <3>2, PlainExpands DEF Resolved
      <3> QED
        BY <1>2, <1>4, <2>1, <3>3
    <2> QED
      BY <2>3, <2>4
  <1> QED
    BY <1>3, <1>4

\* A new job has resolved nothing yet.
LEMMA ResolveInit == Init => ResolveInv
  BY DEF Init, ResolveInv, Loop, Waits

\* A scan goes on in the text and behind what it has put there.
LEMMA ScanKept ==
    ASSUME Typed, ResolveInv, \A k \in Names : Exact(given[k], system),
           ScanNext \/ ScanReplaces,
           Exact(Source(scan.key), Values)
    PROVE  Scanned(scan'.src, scan'.i, Source(scan.key), Values)
  <1> DEFINE t == Source(scan.key)
             f == Values
             src == scan.src
             i == scan.i
  <1>0. /\ pc = "scan" /\ scan \in [key : Names, src : Text, i : Nat \ {0}]
        /\ src \in Text /\ i \in Nat /\ i # 0 /\ f \in Texts /\ t \in Text
        /\ Scanned(src, i, t, f) /\ Exact(t, f)
    <2>1. pc = "scan" /\ scan \in [key : Names, src : Text, i : Nat \ {0}]
      BY DEF Typed, ScanNext, ScanReplaces, Scanning
    <2>2. f \in Texts /\ t \in Text
      BY <2>1, FirstTyped DEF Values, Source, Texts
    <2>3. Scanned(src, i, t, f)
      BY <2>1 DEF ResolveInv
    <2> QED
      BY <2>1, <2>2, <2>3
  <1>v. \A n \in Names : \A j : Starts(src, n, j) => GetVariable(<<n>>) = f[n]
    BY <1>0, GetsValue
  <1>1. CASE ScanNext
    <2> DEFINE S == {Len(src) + 1} \union {j \in IndexesOf(src, "$") : j > i}
    <2>1. scan' = [scan EXCEPT !.i = Min(S)]
      BY <1>1 DEF ScanNext
    <2>2. scan'.src = src /\ scan'.i = Min(S)
      BY <1>0, <2>1
    <2>3. DOMAIN src = 1..Len(src) /\ Len(src) \in Nat
      BY <1>0 DEF Text
    <2>4. S \in SUBSET Nat /\ S # {}
      BY <2>3 DEF IndexesOf
    <2>5. Min(S) \in Nat /\ \A x \in S : Min(S) <= x
      BY <2>4, LeastIndex
    <2>6. ASSUME NEW n \in UsedIn(t, f), NEW j \in Nat, i <= j, j < Min(S), Starts(src, n, j)
          PROVE  FALSE
      <3>1. n \in Names /\ f[n] # <<>>
        BY DEF UsedIn
      <3>2. CASE j = i
        <4>1. /\ i < Len(src) /\ Char(i) = Dollar /\ Char(i + 1) = Open
              /\ Val = GetVariable(<<n>>)
          BY <1>0, <2>6, <3>1, <3>2, FindsName
        <4>2. Val # <<>>
          BY <1>v, <2>6, <3>1, <4>1
        <4>3. Skips <=> \/ Char(i) # Dollar
                        \/ i < Len(src) /\ (Char(i + 1) # Open \/ Val = <<>>)
          BY Zenon DEF Skips, Dollar, Open
        <4>4. Skips
          BY <1>1 DEF ScanNext
        <4> QED
          BY <4>1, <4>2, <4>3, <4>4
      <3>3. CASE j # i
        <4>1. j \in 1..Len(src) /\ src[j] = Dollar
          BY <2>6 DEF Starts
        <4>2. j \in IndexesOf(src, "$")
          BY <2>3, <4>1 DEF IndexesOf, Dollar
        <4>3. j > i
          BY <1>0, <2>6, <3>3
        <4>4. j \in S
          BY <4>2, <4>3
        <4> HIDE DEF S
        <4> QED
          BY <2>5, <2>6, <4>4
      <3> QED
        BY <3>2, <3>3
    <2> HIDE DEF S, t, f
    <2>7. Scanned(src, Min(S), t, f)
      BY <1>0, <2>5, <2>6, ScanGoesOn
    <2> QED
      BY <2>2, <2>7 DEF t, f
  <1>2. CASE ScanReplaces
    <2>1. PICK n \in Names :
              /\ Starts(src, n, i) /\ GetVariable(<<n>>) # <<>>
              /\ scan'.i = i + 4
              /\ scan'.src = Replace(src, Placeholder(<<n>>), GetVariable(<<n>>))
      BY <1>2, ReplacesName
    <2>2. GetVariable(<<n>>) = f[n]
      BY <1>v, <2>1
    <2>3. scan'.src = Sub(src, {n}, f)
      <3>1. Replace(src, Placeholder(<<n>>), f[n]) = Sub(src, {n}, f)
        BY <1>0, ReplaceIsSub
      <3> QED
        BY <2>1, <2>2, <3>1
    <2>4. f[n] # <<>>
      BY <2>1, <2>2
    <2> HIDE DEF t, f
    <2>5. Scanned(Sub(src, {n}, f), i + 4, t, f)
      BY <1>0, <2>1, <2>4, ScanGoesBehind
    <2> QED
      BY <2>1, <2>3, <2>5 DEF t, f
  <1> QED
    BY <1>1, <1>2

\* Each step of the loops keeps what is known of them.
LEMMA ResolveNext == ASSUME Typed, ResolveInv, [Next]_vars PROVE ResolveInv'
  <1> USE DEF Loop, Waits
  <1>0. given' = given /\ system' = system
    BY DEF Next, Resolve, ResolveKey, ResolveEnds, ScanNext, ScanPanics, ScanReplaces, ScanEnds,
           WriteEnv, OpenFile, ReadEnv, ReadEnds, vars
  <1> SUFFICES ASSUME \A k \in Names : Exact(given[k], system)
               PROVE  ResolveInv'
    BY <1>0 DEF ResolveInv
  <1>f. First' = First
    BY <1>0 DEF First
  <1>r. v' = v => \A k : Resolved(k)' <=> Resolved(k)
    BY <1>f DEF Resolved
  <1>s. pass' = pass => Values' = Values /\ \A k : Source(k)' = Source(k)
    BY <1>0, <1>f DEF Values, Source
  <1>1. CASE ResolveKey
    <2>1. PICK k \in todo : /\ scan' = [key |-> k, src |-> v[k], i |-> 1]
                            /\ todo' = todo \ {k}
      BY <1>1 DEF ResolveKey
    <2>2. /\ pc \in {"system", "own"} /\ pass' = pc /\ pc' = "scan" /\ v' = v
          /\ k \in Names /\ scan'.key = k /\ scan'.src = v[k] /\ scan'.i = 1
      BY <1>1, <2>1 DEF ResolveKey, Typed
    <2>3. Source(k)' = v[k]
      BY <1>0, <1>f, <2>1, <2>2 DEF Source, ResolveInv
    <2>4. v[k] \in Text
      BY <2>2 DEF Typed
    <2>5. Scanned(v[k], 1, v[k], Values')
      BY <2>4, ScanBegins
    <2>6. \A n \in Names : Waits(n)' <=> Waits(n)
      BY <2>1, <2>2
    <2> QED
      BY <1>0, <1>f, <1>r, <2>1, <2>2, <2>3, <2>5, <2>6 DEF ResolveInv
  <1>2. CASE ResolveEnds
    <2>1. /\ pc \in {"system", "own"} /\ todo = {} /\ todo' = Names /\ v' = v
          /\ pc' = IF pc = "system" THEN "own" ELSE "write"
      BY <1>2 DEF ResolveEnds
    <2> QED
      BY <1>0, <1>f, <1>r, <2>1 DEF ResolveInv
  <1>3. CASE ScanNext \/ ScanReplaces
    <2>1. pc = "scan" /\ pc' = "scan" /\ pass' = pass /\ todo' = todo /\ v' = v
      BY <1>3 DEF ScanNext, ScanReplaces, Scanning
    <2>2. scan'.key = scan.key
      <3>1. scan \in [key : Names, src : Text, i : Nat \ {0}]
        BY <2>1 DEF Typed
      <3> QED
        BY <1>3, <3>1 DEF ScanNext, ScanReplaces
    <2>3. Exact(Source(scan.key), Values) =>
              Scanned(scan'.src, scan'.i, Source(scan.key), Values)
      BY <1>3, ScanKept
    <2> QED
      BY <1>0, <1>f, <1>r, <1>s, <2>1, <2>2, <2>3 DEF ResolveInv
  <1>4. CASE ScanPanics
    BY <1>4 DEF ScanPanics, ResolveInv
  <1>5. CASE ScanEnds
    <2>1. /\ pc = "scan" /\ pc' = pass /\ pass' = pass /\ todo' = todo
          /\ v' = [v EXCEPT ![scan.key] = scan.src] /\ scan.i > Len(scan.src)
          /\ pass \in {"system", "own"}
      BY <1>5 DEF ScanEnds, Typed
    <2>2. /\ scan.key \in Names /\ scan.src \in Text /\ scan.i \in Nat
          /\ v' \in [Names -> Text] /\ v'[scan.key] = scan.src
          /\ \A n \in Names : n # scan.key => v'[n] = v[n]
      BY <2>1 DEF Typed
    <2>3. /\ Values \in Texts /\ Source(scan.key) \in Text
      BY <2>2, FirstTyped DEF Values, Source, Texts
    <2>4. Exact(Source(scan.key), Values) => scan.src = Expand(Source(scan.key), Values)
      BY <2>1, <2>2, <2>3, ScanIsExact DEF ResolveInv
    <2>5. scan.key \notin todo
      BY <2>1 DEF ResolveInv
    <2>6. CASE pass = "system"
      <3>1. scan.src = First[scan.key]
        BY <2>2, <2>4, <2>6 DEF Source, Values, First
      <3>2. ASSUME NEW n \in Names PROVE v'[n] = IF n \in todo THEN given[n] ELSE First[n]
        BY <2>1, <2>2, <2>5, <2>6, <3>1 DEF ResolveInv
      <3> QED
        BY <1>0, <1>f, <2>1, <2>6, <3>2 DEF ResolveInv
    <2>7. CASE pass = "own"
      <3>k. PICK k \in Names : k = scan.key
        BY <2>2
      <3>1. Resolved(k)'
        <4>1. Source(k) = First[k] /\ Values = First
          BY <2>7 DEF Source, Values
        <4>2. /\ v'[k] = scan.src
              /\ Exact(First[k], First) => scan.src = Expand(First[k], First)
          BY <2>2, <2>4, <3>k, <4>1
        <4> QED
          BY <1>f, <4>2 DEF Resolved
      <3>2. ASSUME NEW n \in Names, n # k
            PROVE  IF n \in todo THEN v'[n] = First[n] ELSE Resolved(n)'
        <4>1. IF n \in todo THEN v[n] = First[n] ELSE Resolved(n)
          BY <2>1, <2>7, <3>k, <3>2 DEF ResolveInv
        <4>2. v'[n] = v[n]
          BY <2>2, <3>k, <3>2
        <4> QED
          BY <1>f, <4>1, <4>2 DEF Resolved
      <3>3. ASSUME NEW n \in Names
            PROVE  IF n \in todo' THEN v'[n] = First'[n] ELSE Resolved(n)'
        <4>1. CASE n = k
          BY <2>1, <2>5, <3>k, <3>1, <4>1
        <4>2. CASE n # k
          BY <1>f, <2>1, <3>2, <4>2
        <4> QED
          BY <4>1, <4>2
      <3> QED
        BY <2>1, <2>7, <3>3 DEF ResolveInv
    <2> QED
      BY <2>1, <2>6, <2>7
  <1>6. CASE WriteEnv
    BY <1>6, <1>r DEF WriteEnv, ResolveInv
  <1>7. CASE OpenFile \/ ReadEnv \/ ReadEnds
    <2>1. pc' \in {"read", "done"}
      BY <1>7 DEF OpenFile, ReadEnv, ReadEnds
    <2> QED
      BY <2>1 DEF ResolveInv
  <1>8. CASE UNCHANGED vars
    BY <1>8, <1>f, <1>r, <1>s DEF vars, ResolveInv
  <1> QED
    BY <1>1, <1>2, <1>3, <1>4, <1>5, <1>6, <1>7, <1>8 DEF Next, Resolve

\* Resolve is exact, for any names, any values of the server and of the agent, and any
\* order in which the loops take them.
THEOREM ResolvesExactly == Spec => []ResolveIsExact
  <1>1. ResolveInv => ResolveIsExact
    BY DEF ResolveInv, ResolveIsExact, Resolved, First
  <1> QED
    BY <1>1, TypedInit, TypedNext, ResolveInit, ResolveNext, PTL DEF Spec
=============================================================================
