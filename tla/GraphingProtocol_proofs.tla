----------------------- MODULE GraphingProtocol_proofs -----------------------
(***************************************************************************)
(* Theorems about the codec, for texts of any length:                      *)
(*   ReadersAgree        splitter and decoder agree on what is escaped;    *)
(*   SplitAppend         SplitEscaped computes what the loop of splitEscaped *)
(*                       does, symbol by symbol;                           *)
(*   DecodesEncoded, DecodesEncodedList, ParsesSerialized                  *)
(*                       texts, lists and messages are read as they were   *)
(*                       before they were written;                         *)
(*   LineEndsTrimmed     a CR or LF at the end of a line changes nothing.  *)
(*                                                                         *)
(* The model says what splitting, escaping and decoding give by positions and *)
(* folds; the lemmas turn each of them into a step from a text to one that is *)
(* longer by a symbol, and TextInduction does the rest.  Induction is stated *)
(* over a set in the place of a predicate, and rests on the least element of *)
(* a set of numbers.                                                       *)
(***************************************************************************)
EXTENDS GraphingProtocol, WellFoundedInduction, FunctionTheorems, FiniteSetTheorems,
        SequenceTheorems, TLAPS

\* A set of numbers that is not empty has a least element.
LEMMA LeastElement ==
    ASSUME NEW T \in SUBSET Nat, T # {}
    PROVE  \E x \in T : \A y \in T : x <= y
<1> DEFINE Less == {ss \in Nat \X Nat : ss[1] < ss[2]}
<1>1. IsWellFoundedOn(Less, Nat)
  BY NatLessThanWellFounded DEF OpToRel
<1> HIDE DEF Less
<1>2. PICK x \in T : \A y \in T : ~(<<y, x>> \in Less)
  BY <1>1, WFMin
<1>3. \A y \in T : ~(y < x)
  BY <1>2 DEF Less
<1>4. \A y \in T : x <= y
  BY <1>3
<1> QED
  BY <1>4

\* Before every position there is some number of backslashes.
LEMMA SlashCountExists ==
    ASSUME NEW S, NEW v \in Seq(S), NEW p \in 1..(Len(v) + 1)
    PROVE  \E k \in 0..(p - 1) : SlashCount(v, p, k)
<1> DEFINE T == {k \in 0..(p - 1) : k = p - 1 \/ v[p - k - 1] # Backslash}
<1>1. T \in SUBSET Nat /\ T # {}
  <2>1. p - 1 \in T
    OBVIOUS
  <2>2. T \subseteq 0..(p - 1) /\ 0..(p - 1) \subseteq Nat
    OBVIOUS
  <2> HIDE DEF T
  <2> QED
    BY <2>1, <2>2
<1>2. PICK k \in T : \A j \in T : k <= j
  BY <1>1, LeastElement
<1>3. ASSUME NEW m \in (p - k)..(p - 1) PROVE v[m] = Backslash
  <2>1. p - 1 - m \in 0..(p - 1) /\ p - 1 - m < k /\ p - (p - 1 - m) - 1 = m
    BY <1>2, <1>3
  <2>2. p - 1 - m \notin T
    BY <1>2, <2>1
  <2> QED
    BY <2>1, <2>2
<1>4. SlashCount(v, p, k)
  BY <1>2, <1>3 DEF SlashCount
<1> QED
  BY <1>2, <1>4

\* The number of backslashes before a position is unique.
LEMMA SlashCountUnique ==
    ASSUME NEW S, NEW v \in Seq(S), NEW p \in 1..(Len(v) + 1),
           NEW j \in 0..(p - 1), NEW k \in 0..(p - 1),
           SlashCount(v, p, j), SlashCount(v, p, k)
    PROVE  j = k
<1>1. \A a, b \in 0..(p - 1) :
        SlashCount(v, p, a) /\ SlashCount(v, p, b) => ~(a < b)
  <2> SUFFICES ASSUME NEW a \in 0..(p - 1), NEW b \in 0..(p - 1),
                      SlashCount(v, p, a), SlashCount(v, p, b), a < b
               PROVE  FALSE
    OBVIOUS
  <2>1. a # p - 1 /\ p - a - 1 \in (p - b)..(p - 1)
    OBVIOUS
  <2>2. v[p - a - 1] # Backslash
    BY <2>1 DEF SlashCount
  <2>3. v[p - a - 1] = Backslash
    BY <2>1 DEF SlashCount
  <2> QED
    BY <2>2, <2>3
<1>2. ~(j < k) /\ ~(k < j)
  BY <1>1
<1> QED
  BY <1>2

\* One position further there is one backslash more, or none.
LEMMA SlashCountStep ==
    ASSUME NEW S, NEW v \in Seq(S), NEW p \in 1..Len(v), NEW k \in 0..(p - 1),
           SlashCount(v, p, k)
    PROVE  IF v[p] = Backslash THEN SlashCount(v, p + 1, k + 1)
                               ELSE SlashCount(v, p + 1, 0)
<1>1. CASE v[p] = Backslash
  <2>1. \A m \in (p - k)..p : v[m] = Backslash
    BY <1>1 DEF SlashCount
  <2>2. k + 1 = p \/ v[p - k - 1] # Backslash
    BY DEF SlashCount
  <2> QED
    BY <1>1, <2>1, <2>2 DEF SlashCount
<1>2. CASE v[p] # Backslash
  BY <1>2 DEF SlashCount
<1> QED
  BY <1>1, <1>2

\* Nothing is escaped at the start of a text; after that, a character is escaped
\* exactly if a backslash precedes it that is not escaped itself.  This is how
\* decodeEscapes tells escapes from data, so a delimiter splits a text exactly
\* where the decoder would read it as data.
THEOREM ReadersAgree ==
    ASSUME NEW S, NEW v \in Seq(S)
    PROVE  /\ ~IsEscaped(v, 1)
           /\ \A p \in 1..Len(v) :
                IsEscaped(v, p + 1) <=> v[p] = Backslash /\ ~IsEscaped(v, p)
<1>1. ~IsEscaped(v, 1)
  BY DEF IsEscaped
<1>2. ASSUME NEW p \in 1..Len(v), \E k \in 0..(p - 1) : SlashCount(v, p, k)
      PROVE  IsEscaped(v, p + 1) <=> v[p] = Backslash /\ ~IsEscaped(v, p)
  <2>1. PICK k \in 0..(p - 1) : SlashCount(v, p, k)
    BY <1>2
  <2>2. IsEscaped(v, p) <=> k % 2 = 1
    BY <2>1, SlashCountUnique DEF IsEscaped
  <2>3. CASE v[p] = Backslash
    <3>1. SlashCount(v, p + 1, k + 1) /\ k + 1 \in 0..p
      BY <2>1, <2>3, SlashCountStep
    <3>2. IsEscaped(v, p + 1) <=> (k + 1) % 2 = 1
      BY <3>1, SlashCountUnique DEF IsEscaped
    <3> QED
      BY <2>2, <2>3, <3>2
  <2>4. CASE v[p] # Backslash
    <3>1. SlashCount(v, p + 1, 0)
      BY <2>1, <2>4, SlashCountStep
    <3>2. ~IsEscaped(v, p + 1)
      BY <3>1, SlashCountUnique DEF IsEscaped
    <3> QED
      BY <2>4, <3>2
  <2> QED
    BY <2>3, <2>4
<1>3. \A p \in 1..Len(v) : \E k \in 0..(p - 1) : SlashCount(v, p, k)
  BY SlashCountExists
<1> QED
  BY <1>1, <1>2, <1>3

-----------------------------------------------------------------------------
(* Parts of sequences *)

\* Two parts of the same length are equal if their elements are.
Alike(s, a, b, t, c, d) ==
    /\ b - a = d - c
    /\ 1 <= a /\ b <= Len(s) /\ 1 <= c /\ d <= Len(t)
    /\ \A k \in 0..(b - a) : s[a + k] = t[c + k]

LEMMA SameSlice ==
    ASSUME NEW S, NEW s \in Seq(S), NEW t \in Seq(S),
           NEW a \in Int, NEW b \in Int, NEW c \in Int, NEW d \in Int,
           Alike(s, a, b, t, c, d)
    PROVE  SubSeq(s, a, b) = SubSeq(t, c, d)
<1> USE DEF Alike
<1>1. /\ SubSeq(s, a, b) \in Seq(S)
      /\ Len(SubSeq(s, a, b)) = IF a <= b THEN b - a + 1 ELSE 0
      /\ \A i \in 1..(b - a + 1) : SubSeq(s, a, b)[i] = s[a + i - 1]
  BY SubSeqProperties
<1>2. /\ SubSeq(t, c, d) \in Seq(S)
      /\ Len(SubSeq(t, c, d)) = IF c <= d THEN d - c + 1 ELSE 0
      /\ \A i \in 1..(d - c + 1) : SubSeq(t, c, d)[i] = t[c + i - 1]
  BY SubSeqProperties
<1>3. ASSUME NEW i \in 1..(b - a + 1) PROVE SubSeq(s, a, b)[i] = SubSeq(t, c, d)[i]
  <2>1. i - 1 \in 0..(b - a) /\ a + (i - 1) = a + i - 1 /\ c + (i - 1) = c + i - 1
    OBVIOUS
  <2> QED
    BY <1>1, <1>2, <2>1
<1>4. Len(SubSeq(s, a, b)) = Len(SubSeq(t, c, d))
      /\ 1..Len(SubSeq(s, a, b)) \subseteq 1..(b - a + 1)
  BY <1>1, <1>2
<1> QED
  BY <1>1, <1>2, <1>3, <1>4, SeqEqual

\* A part of a text that begins at a and ends at b.
LEMMA Slice ==
    ASSUME NEW S, NEW v \in Seq(S), NEW a \in Nat, NEW b \in Nat,
           1 <= a, a <= b + 1, b <= Len(v)
    PROVE  /\ SubSeq(v, a, b) \in Seq(S) /\ Len(SubSeq(v, a, b)) = b - a + 1
           /\ \A k \in 1..(b - a + 1) : SubSeq(v, a, b)[k] = v[a + k - 1]
BY SubSeqProperties

\* l consists of a and b.
Consists(l, a, b) ==
    /\ Len(l) = Len(a) + Len(b)
    /\ \A p \in 1..Len(a) : l[p] = a[p]
    /\ \A p \in 1..Len(b) : l[Len(a) + p] = b[p]

LEMMA ConcatConsists ==
    ASSUME NEW S, NEW a \in Seq(S), NEW b \in Seq(S)
    PROVE  a \o b \in Seq(S) /\ Consists(a \o b, a, b)
BY DEF Consists

-----------------------------------------------------------------------------
(* Cutting a text at given positions *)

\* An increasing enumeration of a set of numbers is the one Ascending gives.
LEMMA AscendingIs ==
    ASSUME NEW n \in Nat, NEW e \in [1..n -> Int],
           \A j, k \in 1..n : j < k => e[j] < e[k],
           NEW T, T = {e[k] : k \in 1..n}
    PROVE  Cardinality(T) = n /\ Ascending(T) = e
<1> DEFINE First(k) == {e[j] : j \in 1..k}
<1>1. ASSUME NEW k \in 0..n PROVE Cardinality(First(k)) = k
  <2> DEFINE f == [j \in 1..k |-> e[j]]
             E == {e[j] : j \in 1..k}
  <2>1. \A i, j \in 1..n : e[i] = e[j] => i = j
    <3>1. ASSUME NEW i \in 1..n, NEW j \in 1..n, i # j PROVE e[i] # e[j]
      <4>1. i < j \/ j < i
        BY <3>1
      <4>2. e[i] \in Int /\ e[j] \in Int
        OBVIOUS
      <4> QED
        BY <4>1, <4>2
    <3> QED
      BY <3>1
  <2>2. f \in [1..k -> E] /\ \A j \in 1..k : f[j] = e[j] /\ j \in 1..n
    OBVIOUS
  <2>3. \A t \in E : \E j \in 1..k : f[j] = t
    OBVIOUS
  <2> HIDE DEF f, E
  <2>4. f \in Bijection(1..k, E)
    BY <2>1, <2>2, <2>3 DEF Bijection, Injection, Surjection, IsInjective
  <2>5. ExistsBijection(1..k, E)
    BY <2>4 DEF ExistsBijection
  <2>6. Cardinality(E) = k
    BY <2>5, FS_CountingElements
  <2> QED
    BY <2>6 DEF E
<1>2. Cardinality(T) = n
  <2>1. n \in 0..n /\ T = First(n)
    OBVIOUS
  <2> HIDE DEF First
  <2> QED
    BY <1>1, <2>1
<1>3. ASSUME NEW k \in 1..n PROVE Cardinality({q \in T : q <= e[k]}) = k
  <2>1. {q \in T : q <= e[k]} = First(k)
    <3>1. ASSUME NEW j \in 1..n PROVE e[j] <= e[k] <=> j \in 1..k
      <4>1. e[j] \in Int /\ e[k] \in Int
        OBVIOUS
      <4>2. j = k \/ j < k \/ k < j
        OBVIOUS
      <4>3. j < k => e[j] < e[k]
        OBVIOUS
      <4>4. k < j => e[k] < e[j]
        OBVIOUS
      <4> QED
        BY <4>1, <4>2, <4>3, <4>4
    <3> QED
      BY <3>1
  <2>2. k \in 0..n
    OBVIOUS
  <2> HIDE DEF First
  <2>3. Cardinality({q \in T : q <= e[k]}) = Cardinality(First(k))
    BY <2>1
  <2> QED
    BY <1>1, <2>2, <2>3
<1>4. ASSUME NEW k \in 1..n
      PROVE  (CHOOSE p \in T : Cardinality({q \in T : q <= p}) = k) = e[k]
  <2>1. e[k] \in T
    OBVIOUS
  <2>2. ASSUME NEW p \in T, Cardinality({q \in T : q <= p}) = k PROVE p = e[k]
    <3>1. PICK j \in 1..n : p = e[j]
      OBVIOUS
    <3>2. j = k
      BY <1>3, <2>2, <3>1
    <3> QED
      BY <3>1, <3>2
  <2> QED
    BY <1>3, <2>1, <2>2
<1> QED
  BY <1>2, <1>4 DEF Ascending

\* The parts of v between the positions e[1], ..., e[m].
Parts(v, e, m) == [k \in 1..(m + 1) |-> SubSeq(v, e[k - 1] + 1, e[k] - 1)]

LEMMA PartsLen ==
    ASSUME NEW v, NEW m \in Nat, NEW e
    PROVE  Len(Parts(v, e, m)) = m + 1
<1> DEFINE n == m + 1
<1>1. n \in Nat
  OBVIOUS
<1>2. Parts(v, e, m) = [k \in 1..n |-> SubSeq(v, e[k - 1] + 1, e[k] - 1)]
  BY DEF Parts
<1> HIDE DEF n
<1>3. Len(Parts(v, e, m)) = n
  BY <1>1, <1>2
<1> QED
  BY <1>3 DEF n

\* Parts are what Cut gives.
LEMMA CutAt ==
    ASSUME NEW v, NEW m \in Nat, NEW e \in [0..(m + 1) -> Nat],
           e[0] = 0, e[m + 1] = Len(v) + 1,
           \A j, k \in 0..(m + 1) : j < k => e[j] < e[k],
           NEW cuts, cuts = {e[k] : k \in 1..m}
    PROVE  Cut(v, cuts) = Parts(v, e, m)
<1> DEFINE ends == [k \in 1..(m + 2) |-> e[k - 1]]
           T == cuts \cup {0, Len(v) + 1}
<1>1. Cardinality(cuts) = m
  <2> DEFINE f == [k \in 1..m |-> e[k]]
  <2>1. f \in [1..m -> Int] /\ \A k \in 1..m : f[k] = e[k] /\ k \in 0..(m + 1)
    OBVIOUS
  <2>2. \A j, k \in 1..m : j < k => f[j] < f[k]
    BY <2>1
  <2>3. cuts = {f[k] : k \in 1..m}
    OBVIOUS
  <2> HIDE DEF f
  <2> QED
    BY <2>1, <2>2, <2>3, AscendingIs
<1>2. T = {ends[k] : k \in 1..(m + 2)}
  <2>1. ASSUME NEW k \in 1..(m + 2) PROVE ends[k] \in T
    <3>1. k = 1 \/ k = m + 2 \/ k - 1 \in 1..m
      OBVIOUS
    <3> QED
      BY <3>1
  <2>2. ASSUME NEW t \in T PROVE \E k \in 1..(m + 2) : ends[k] = t
    <3>1. CASE t \in cuts
      <4>1. PICK k \in 1..m : t = e[k]
        BY <3>1
      <4>2. k + 1 \in 1..(m + 2) /\ ends[k + 1] = t
        BY <4>1
      <4> QED
        BY <4>2
    <3>2. CASE t = 0
      <4>1. 1 \in 1..(m + 2) /\ ends[1] = 0
        OBVIOUS
      <4> QED
        BY <3>2, <4>1
    <3>3. CASE t = Len(v) + 1
      <4>1. m + 2 \in 1..(m + 2) /\ ends[m + 2] = Len(v) + 1
        OBVIOUS
      <4> QED
        BY <3>3, <4>1
    <3> QED
      BY <3>1, <3>2, <3>3
  <2> HIDE DEF T, ends
  <2> QED
    BY <2>1, <2>2
<1>3. Ascending(T) = ends
  <2>1. ends \in [1..(m + 2) -> Int]
    <3>1. ASSUME NEW k \in 1..(m + 2) PROVE ends[k] \in Int
      <4>1. k - 1 \in 0..(m + 1)
        OBVIOUS
      <4> QED
        BY <4>1
    <3> QED
      BY <3>1
  <2>2. \A j, k \in 1..(m + 2) : j < k => ends[j] < ends[k]
    <3>1. ASSUME NEW j \in 1..(m + 2), NEW k \in 1..(m + 2), j < k PROVE ends[j] < ends[k]
      <4>1. j - 1 \in 0..(m + 1) /\ k - 1 \in 0..(m + 1) /\ j - 1 < k - 1
        BY <3>1
      <4> QED
        BY <4>1
    <3> QED
      BY <3>1
  <2>3. m + 2 \in Nat
    OBVIOUS
  <2> HIDE DEF ends, T
  <2> QED
    BY <1>2, <2>1, <2>2, <2>3, AscendingIs
<1>4. Cut(v, cuts) = [k \in 1..(m + 1) |-> SubSeq(v, ends[k] + 1, ends[k + 1] - 1)]
  <2> HIDE DEF ends
  <2> QED
    BY <1>1, <1>3 DEF Cut
<1>5. ASSUME NEW k \in 1..(m + 1) PROVE ends[k] = e[k - 1] /\ ends[k + 1] = e[k]
  BY <1>5
<1> HIDE DEF ends
<1> QED
  BY <1>4, <1>5 DEF Parts

-----------------------------------------------------------------------------
(* Induction, over sets in the place of predicates *)

LEMMA Induction ==
    ASSUME NEW G, 0 \in G, \A n \in Nat : n \in G => n + 1 \in G
    PROVE  \A n \in Nat : n \in G
<1> SUFFICES ASSUME NEW n \in Nat, n \notin G PROVE FALSE
  OBVIOUS
<1> DEFINE T == Nat \ G
<1>1. T \in SUBSET Nat /\ T # {}
  OBVIOUS
<1> HIDE DEF T
<1>2. PICK x \in T : \A y \in T : x <= y
  BY <1>1, LeastElement
<1>3. x \in Nat /\ x \notin G
  BY DEF T
<1>4. x - 1 \in Nat /\ ~(x <= x - 1)
  BY <1>3
<1>5. x - 1 \in G
  BY <1>2, <1>4 DEF T
<1>6. (x - 1) + 1 \in G
  BY <1>4, <1>5
<1> QED
  BY <1>3, <1>4, <1>6

LEMMA NoSymbols ==
    ASSUME NEW S
    PROVE  <<>> \in Seq(S)
OBVIOUS

LEMMA EmptyText ==
    ASSUME NEW S, NEW v \in Seq(S), Len(v) = 0
    PROVE  v = <<>>
OBVIOUS

\* A text that is not empty has a last symbol.
LEMMA LastSymbol ==
    ASSUME NEW S, NEW v \in Seq(S), NEW n \in Nat, Len(v) = n + 1
    PROVE  \E w \in Seq(S), c \in S : v = Append(w, c) /\ Len(w) = n
<1> DEFINE w == [k \in 1..n |-> v[k]]
           c == v[n + 1]
<1>1. c \in S /\ \A k \in 1..n : v[k] \in S
  OBVIOUS
<1>2. w \in Seq(S) /\ Len(w) = n /\ \A k \in 1..n : w[k] = v[k]
  BY <1>1
<1> HIDE DEF w
<1>3. /\ Append(w, c) \in Seq(S) /\ Len(Append(w, c)) = n + 1
      /\ \A k \in 1..n : Append(w, c)[k] = w[k]
      /\ Append(w, c)[n + 1] = c
  BY <1>1, <1>2, AppendProperties
<1>4. \A k \in 1..(n + 1) : k \in 1..n \/ k = n + 1
  OBVIOUS
<1>5. \A k \in 1..(n + 1) : Append(w, c)[k] = v[k]
  BY <1>2, <1>3, <1>4
<1>6. v = Append(w, c)
  BY <1>3, <1>5, SeqEqual
<1> QED
  BY <1>1, <1>2, <1>6

\* What holds of the empty text and goes on from a text to any longer by one symbol
\* holds of all texts.
LEMMA TextInduction ==
    ASSUME NEW S, NEW G, <<>> \in G,
           \A w \in Seq(S), c \in S : w \in G => Append(w, c) \in G
    PROVE  \A v \in Seq(S) : v \in G
<1> DEFINE H == {n \in Nat : \A v \in Seq(S) : Len(v) = n => v \in G}
<1>1. 0 \in H
  <2>1. ASSUME NEW v \in Seq(S), Len(v) = 0 PROVE v \in G
    <3>1. v = <<>>
      BY <2>1
    <3> QED
      BY <3>1
  <2> QED
    BY <2>1
<1>2. ASSUME NEW n \in Nat, n \in H PROVE n + 1 \in H
  <2>1. ASSUME NEW v \in Seq(S), Len(v) = n + 1 PROVE v \in G
    <3>1. PICK w \in Seq(S), c \in S : v = Append(w, c) /\ Len(w) = n
      BY <2>1, LastSymbol
    <3>2. w \in G
      BY <1>2, <3>1
    <3> QED
      BY <3>1, <3>2
  <2> QED
    BY <2>1
<1> HIDE DEF H
<1>3. \A n \in Nat : n \in H
  BY <1>1, <1>2, Induction
<1> QED
  BY <1>3 DEF H

-----------------------------------------------------------------------------
(* What the recursive functions of the model compute, step by step *)

\* The first n parts in a row.
Flattened(f, seqs, n) ==
    f = [i \in 1..n |-> IF i = 1 THEN seqs[i] ELSE f[i - 1] \o seqs[i]]

LEMMA FlattenedExists ==
    ASSUME NEW seqs
    PROVE  \A n \in Nat : \E f : Flattened(f, seqs, n)
<1> DEFINE G == {n \in Nat : \E f : Flattened(f, seqs, n)}
<1>1. 0 \in G
  <2> DEFINE f == [i \in 1..0 |-> seqs[i]]
  <2>1. Flattened(f, seqs, 0)
    BY DEF Flattened
  <2> QED
    BY <2>1
<1>2. ASSUME NEW n \in Nat, n \in G PROVE n + 1 \in G
  <2>1. PICK f : Flattened(f, seqs, n)
    BY <1>2
  <2> DEFINE x == IF n + 1 = 1 THEN seqs[n + 1] ELSE f[n] \o seqs[n + 1]
             g == [i \in 1..(n + 1) |-> IF i = n + 1 THEN x ELSE f[i]]
  <2>2. \A i \in 1..n : g[i] = f[i]
    OBVIOUS
  <2>3. g[n + 1] = x
    OBVIOUS
  <2>4. ASSUME NEW i \in 1..(n + 1)
        PROVE  g[i] = IF i = 1 THEN seqs[i] ELSE g[i - 1] \o seqs[i]
    <3>1. CASE i = n + 1
      <4>1. i # 1 => n \in 1..n /\ i - 1 = n
        BY <3>1
      <4>2. i # 1 => g[i - 1] = f[n]
        BY <2>2, <4>1
      <4> HIDE DEF g
      <4> QED
        BY <2>3, <3>1, <4>2
    <3>2. CASE i \in 1..n
      <4>1. i # 1 => i - 1 \in 1..n
        BY <3>2
      <4>2. f[i] = IF i = 1 THEN seqs[i] ELSE f[i - 1] \o seqs[i]
        BY <2>1, <3>2 DEF Flattened
      <4> HIDE DEF g
      <4> QED
        BY <2>2, <3>2, <4>1, <4>2
    <3> QED
      BY <3>1, <3>2
  <2>5. Flattened(g, seqs, n + 1)
    <3>1. g = [i \in 1..(n + 1) |-> g[i]]
      OBVIOUS
    <3> HIDE DEF g
    <3> QED
      BY <2>4, <3>1 DEF Flattened
  <2> QED
    BY <2>5
<1> HIDE DEF G
<1>3. \A n \in Nat : n \in G
  BY <1>1, <1>2, Induction
<1> QED
  BY <1>3 DEF G

LEMMA FlattenIs ==
    ASSUME NEW S, NEW seqs \in Seq(S), NEW n \in Nat, Len(seqs) = n, n # 0
    PROVE  \E f : Flattened(f, seqs, n) /\ FlattenSeq(seqs) = f[n]
<1> DEFINE f == CHOOSE f : Flattened(f, seqs, n)
<1>1. Flattened(f, seqs, n)
  <2>1. \E g : Flattened(g, seqs, n)
    BY FlattenedExists
  <2> QED
    BY <2>1
<1>2. FlattenSeq(seqs) = f[n]
  BY DEF FlattenSeq, Flattened
<1> HIDE DEF f
<1> QED
  BY <1>1, <1>2

LEMMA FlattenEmpty == FlattenSeq(<<>>) = <<>>
BY DEF FlattenSeq

\* Flattening a row of parts that is longer by one.
LEMMA FlattenAppend ==
    ASSUME NEW S, NEW seqs \in Seq(Seq(S)), NEW x \in Seq(S)
    PROVE  FlattenSeq(Append(seqs, x)) = FlattenSeq(seqs) \o x
<1>1. PICK n \in Nat : n = Len(seqs)
  OBVIOUS
<1>2. PICK s2 : s2 = Append(seqs, x)
  OBVIOUS
<1>3. /\ s2 \in Seq(Seq(S)) /\ Len(s2) = n + 1 /\ s2[n + 1] = x
      /\ \A k \in 1..n : s2[k] = seqs[k]
  BY <1>1, <1>2, AppendProperties
<1>4. PICK g : Flattened(g, s2, n + 1) /\ FlattenSeq(s2) = g[n + 1]
  <2>1. n + 1 \in Nat /\ n + 1 # 0
    OBVIOUS
  <2> QED
    BY <1>3, <2>1, FlattenIs
<1>5. n + 1 \in 1..(n + 1) /\ (n # 0 => (n + 1) - 1 = n /\ n + 1 # 1)
  OBVIOUS
<1>6. CASE n = 0
  <2>0. seqs = <<>>
    BY <1>1, <1>6, EmptyText
  <2>1. FlattenSeq(seqs) = <<>>
    BY <2>0, FlattenEmpty
  <2>2. g[n + 1] = x
    BY <1>3, <1>4, <1>5, <1>6 DEF Flattened
  <2>3. <<>> \o x = x
    OBVIOUS
  <2> QED
    BY <1>2, <1>4, <2>1, <2>2, <2>3
<1>7. CASE n # 0
  <2>1. PICK f : Flattened(f, seqs, n) /\ FlattenSeq(seqs) = f[n]
    BY <1>1, <1>7, FlattenIs
  <2> DEFINE G == {k \in Nat : k + 1 \in 1..n => f[k + 1] = g[k + 1]}
  <2>2. 0 \in G
    <3>1. ASSUME 1 \in 1..n PROVE f[1] = g[1]
      <4>1. 1 \in 1..(n + 1)
        BY <3>1
      <4> QED
        BY <1>3, <1>4, <2>1, <3>1, <4>1 DEF Flattened
    <3> QED
      BY <3>1
  <2>3. ASSUME NEW k \in Nat, k \in G PROVE k + 1 \in G
    <3>1. ASSUME NEW j \in Nat, j = (k + 1) + 1, j \in 1..n PROVE f[j] = g[j]
      <4>1. j # 1 /\ j - 1 = k + 1 /\ k + 1 \in 1..n /\ j \in 1..(n + 1)
        BY <3>1
      <4>2. f[k + 1] = g[k + 1]
        BY <2>3, <4>1
      <4>3. f[j] = f[j - 1] \o seqs[j] /\ g[j] = g[j - 1] \o s2[j]
        BY <1>4, <2>1, <3>1, <4>1 DEF Flattened
      <4> QED
        BY <1>3, <3>1, <4>1, <4>2, <4>3
    <3> QED
      BY <3>1
  <2> HIDE DEF G
  <2>4. \A k \in Nat : k \in G
    BY <2>2, <2>3, Induction
  <2>5. f[n] = g[n]
    <3>1. n - 1 \in Nat /\ (n - 1) + 1 = n /\ n \in 1..n
      BY <1>7
    <3> QED
      BY <2>4, <3>1 DEF G
  <2>6. g[n + 1] = g[n] \o x
    BY <1>3, <1>4, <1>5, <1>7 DEF Flattened
  <2> QED
    BY <1>2, <1>4, <2>1, <2>5, <2>6
<1> QED
  BY <1>6, <1>7

LEMMA FlattenTyped ==
    ASSUME NEW S
    PROVE  \A seqs \in Seq(Seq(S)) : FlattenSeq(seqs) \in Seq(S)
<1> DEFINE G == {seqs \in Seq(Seq(S)) : FlattenSeq(seqs) \in Seq(S)}
<1>1. <<>> \in G
  <2>1. <<>> \in Seq(Seq(S)) /\ <<>> \in Seq(S)
    OBVIOUS
  <2> QED
    BY <2>1, FlattenEmpty
<1>2. ASSUME NEW s \in Seq(Seq(S)), NEW x \in Seq(S), s \in G PROVE Append(s, x) \in G
  <2>1. FlattenSeq(Append(s, x)) = FlattenSeq(s) \o x
    BY FlattenAppend
  <2>2. FlattenSeq(s) \o x \in Seq(S)
    BY <1>2
  <2>3. Append(s, x) \in Seq(Seq(S))
    BY AppendProperties
  <2> QED
    BY <2>1, <2>2, <2>3
<1> HIDE DEF G
<1>3. \A s \in Seq(Seq(S)) : s \in G
  BY <1>1, <1>2, TextInduction
<1> QED
  BY <1>3 DEF G

\* The states of the decoder after the positions in a set.
Start == [text |-> <<>>, escaped |-> FALSE, legal |-> TRUE]
Folded(f, v, n) ==
    f = [s \in SUBSET (1..n) |->
            IF s = {} THEN Start ELSE Decode(f[s \ {Max(s)}], v[Max(s)])]

LEMMA MaxIs ==
    ASSUME NEW s \in SUBSET Int, NEW k \in s, \A y \in s : k >= y
    PROVE  Max(s) = k
<1>1. ASSUME NEW j \in s, \A y \in s : j >= y PROVE j = k
  BY <1>1
<1> QED
  BY <1>1 DEF Max

LEMMA DecodedIs ==
    ASSUME NEW S, NEW v \in Seq(S), NEW n \in Nat, Len(v) = n,
           \E f : Folded(f, v, n)
    PROVE  \E f : Folded(f, v, n) /\ Decoded(v) = f[1..n]
<1> DEFINE f == CHOOSE f : Folded(f, v, n)
<1>1. Folded(f, v, n)
  OBVIOUS
<1>2. DOMAIN v = 1..n
  OBVIOUS
<1>3. Decoded(v) = f[1..n]
  BY <1>2 DEF Decoded, FoldLeft, MapThenFoldSet, Folded, Start
<1> HIDE DEF f
<1> QED
  BY <1>1, <1>3
LEMMA FoldedExists ==
    ASSUME NEW v
    PROVE  \A n \in Nat : \E f : Folded(f, v, n)
<1> DEFINE G == {n \in Nat : \E f : Folded(f, v, n)}
<1>1. 0 \in G
  <2> DEFINE f == [s \in SUBSET (1..0) |-> Start]
  <2>1. \A s \in SUBSET (1..0) : s = {}
    OBVIOUS
  <2>2. Folded(f, v, 0)
    BY <2>1 DEF Folded
  <2> QED
    BY <2>2
<1>2. ASSUME NEW n \in Nat, n \in G PROVE n + 1 \in G
  <2>1. PICK f : Folded(f, v, n)
    BY <1>2
  <2>2. PICK m \in Nat : m = n + 1
    OBVIOUS
  <2> DEFINE g == [s \in SUBSET (1..m) |->
                      IF m \in s THEN Decode(f[s \ {m}], v[m]) ELSE f[s]]
  <2>3. ASSUME NEW s \in SUBSET (1..m)
        PROVE  g[s] = IF s = {} THEN Start ELSE Decode(g[s \ {Max(s)}], v[Max(s)])
    <3>0. s \ {m} \in SUBSET (1..n) /\ s \ {m} \in SUBSET (1..m) /\ s \in SUBSET Int
      BY <2>2
    <3>1. CASE m \in s
      <4>1. Max(s) = m
        <5>1. \A y \in s : m >= y
          BY <2>2
        <5> QED
          BY <3>0, <3>1, <5>1, MaxIs
      <4>2. g[s \ {m}] = f[s \ {m}]
        BY <3>0
      <4>3. g[s] = Decode(f[s \ {m}], v[m])
        BY <3>1
      <4> HIDE DEF g
      <4> QED
        BY <3>1, <4>1, <4>2, <4>3
    <3>2. CASE m \notin s
      <4>1. s \in SUBSET (1..n) /\ s \ {Max(s)} \in SUBSET (1..m)
            /\ m \notin s \ {Max(s)}
        BY <3>0, <3>2
      <4>2. g[s] = f[s] /\ g[s \ {Max(s)}] = f[s \ {Max(s)}]
        BY <3>2, <4>1
      <4>3. f[s] = IF s = {} THEN Start ELSE Decode(f[s \ {Max(s)}], v[Max(s)])
        BY <2>1, <4>1 DEF Folded
      <4> HIDE DEF g
      <4> QED
        BY <4>2, <4>3
    <3> QED
      BY <3>1, <3>2
  <2>4. g = [s \in SUBSET (1..m) |-> g[s]]
    OBVIOUS
  <2> HIDE DEF g
  <2>5. Folded(g, v, m)
    BY <2>3, <2>4 DEF Folded
  <2> QED
    BY <2>2, <2>5
<1> HIDE DEF G
<1>3. \A n \in Nat : n \in G
  BY <1>1, <1>2, Induction
<1> QED
  BY <1>3 DEF G

LEMMA DecodedEmpty == Decoded(<<>>) = Start
<1>1. PICK f : Folded(f, <<>>, 0) /\ Decoded(<<>>) = f[1..0]
  <2>1. <<>> \in Seq(Nat) /\ Len(<<>>) = 0 /\ 0 \in Nat
    OBVIOUS
  <2> QED
    BY <2>1, DecodedIs, FoldedExists
<1>2. 1..0 = {} /\ {} \in SUBSET (1..0)
  OBVIOUS
<1> QED
  BY <1>1, <1>2 DEF Folded

\* The decoder reads a text that is longer by one symbol.
LEMMA DecodedAppend ==
    ASSUME NEW S, NEW v \in Seq(S), NEW c \in S
    PROVE  Decoded(Append(v, c)) = Decode(Decoded(v), c)
<1>1. PICK n \in Nat : n = Len(v)
  OBVIOUS
<1>2. PICK m \in Nat : m = n + 1
  OBVIOUS
<1>3. PICK w \in Seq(S) : w = Append(v, c)
  BY AppendProperties
<1>4. Len(w) = m /\ w[m] = c /\ \A k \in 1..n : w[k] = v[k]
  BY <1>1, <1>2, <1>3, AppendProperties
<1>5. PICK f : Folded(f, v, n) /\ Decoded(v) = f[1..n]
  BY <1>1, FoldedExists, DecodedIs
<1>6. PICK g : Folded(g, w, m) /\ Decoded(w) = g[1..m]
  BY <1>4, FoldedExists, DecodedIs
<1>7. ASSUME NEW k \in Nat, NEW j \in Nat, j = k + 1
      PROVE  /\ 1..j \in SUBSET Int /\ 1..j # {} /\ Max(1..j) = j
             /\ (1..j) \ {j} = 1..k
  <2>1. 1..j \in SUBSET Int /\ j \in 1..j /\ (1..j) \ {j} = 1..k /\ \A y \in 1..j : j >= y
    BY <1>7
  <2> QED
    BY <2>1, MaxIs
<1> DEFINE G == {k \in Nat : k <= n => f[1..k] = g[1..k]}
<1>8. 0 \in G
  <2>1. 1..0 = {} /\ {} \in SUBSET (1..n) /\ {} \in SUBSET (1..m)
    OBVIOUS
  <2>2. f[1..0] = g[1..0]
    BY <2>1, <1>5, <1>6 DEF Folded
  <2> QED
    BY <2>2
<1>9. ASSUME NEW k \in Nat, k \in G PROVE k + 1 \in G
  <2>1. PICK j \in Nat : j = k + 1
    OBVIOUS
  <2>2. ASSUME j <= n PROVE f[1..j] = g[1..j]
    <3>1. 1..j \in SUBSET (1..n) /\ 1..j \in SUBSET (1..m) /\ j \in 1..n /\ k <= n
      BY <1>2, <2>1, <2>2
    <3>2. f[1..k] = g[1..k]
      BY <1>9, <3>1
    <3>3. 1..j # {} /\ Max(1..j) = j /\ (1..j) \ {j} = 1..k
      BY <1>7, <2>1
    <3>4. f[1..j] = Decode(f[1..k], v[j])
      BY <1>5, <3>1, <3>3 DEF Folded
    <3>5. g[1..j] = Decode(g[1..k], w[j])
      BY <1>6, <3>1, <3>3 DEF Folded
    <3> QED
      BY <1>4, <3>1, <3>2, <3>4, <3>5
  <2> QED
    BY <2>1, <2>2
<1> HIDE DEF G
<1>10. \A k \in Nat : k \in G
  BY <1>8, <1>9, Induction
<1>11. f[1..n] = g[1..n]
  <2>1. n <= n
    OBVIOUS
  <2> QED
    BY <1>10, <2>1 DEF G
<1>12. g[1..m] = Decode(g[1..n], c)
  <2>1. 1..m # {} /\ Max(1..m) = m /\ (1..m) \ {m} = 1..n
    BY <1>2, <1>7
  <2>2. 1..m \in SUBSET (1..m)
    OBVIOUS
  <2> QED
    BY <1>4, <1>6, <2>1, <2>2, ZenonT(40) DEF Folded
<1> QED
  BY <1>3, <1>5, <1>6, <1>11, <1>12


-----------------------------------------------------------------------------
(* The decoder reads what the encoder wrote *)

Code(c) == IF c \in Special THEN <<Backslash, EscapeOf[c]>> ELSE <<c>>

LEMMA EncodeEmpty == EncodeEscapes(<<>>) = <<>>
<1>1. [k \in DOMAIN <<>> |-> IF <<>>[k] \in Special
                             THEN <<Backslash, EscapeOf[<<>>[k]]>> ELSE <<<<>>[k]>>] = <<>>
  OBVIOUS
<1> QED
  BY <1>1, FlattenEmpty DEF EncodeEscapes

LEMMA CodeTyped ==
    ASSUME NEW c \in Symbols
    PROVE  Code(c) \in Seq(Symbols)
<1>1. c \in Special => EscapeOf[c] \in Symbols /\ Backslash \in Symbols
  BY DEF EscapeOf, Symbols, Special, LineFeed, Return, Backslash, Space, Bar
<1>2. \A a, b \in Symbols : <<a, b>> \in Seq(Symbols) /\ <<a>> \in Seq(Symbols)
  OBVIOUS
<1> QED
  BY <1>1, <1>2 DEF Code

\* encodeEscapes writes one symbol after the other.
LEMMA EncodeAppend ==
    ASSUME NEW v \in Seq(Symbols), NEW c \in Symbols
    PROVE  EncodeEscapes(Append(v, c)) = EncodeEscapes(v) \o Code(c)
<1> DEFINE Codes(t) == [k \in DOMAIN t |-> Code(t[k])]
<1>1. \A t \in Seq(Symbols) : EncodeEscapes(t) = FlattenSeq(Codes(t))
  BY DEF EncodeEscapes, Code
<1>2. PICK w \in Seq(Symbols) : w = Append(v, c)
  BY AppendProperties
<1>3. PICK n \in Nat : n = Len(v)
  OBVIOUS
<1>4. Len(w) = n + 1 /\ w[n + 1] = c /\ \A k \in 1..n : w[k] = v[k]
  BY <1>2, <1>3, AppendProperties
<1>5. ASSUME NEW t \in Seq(Symbols)
      PROVE  /\ Codes(t) \in Seq(Seq(Symbols)) /\ Len(Codes(t)) = Len(t)
             /\ \A k \in 1..Len(t) : Codes(t)[k] = Code(t[k])
  <2>1. \A k \in 1..Len(t) : Code(t[k]) \in Seq(Symbols)
    BY CodeTyped
  <2> QED
    BY <2>1, SMTT(40)
<1> HIDE DEF Codes
<1>6. PICK s \in Seq(Seq(Symbols)) : s = Append(Codes(v), Code(c))
  BY <1>5, CodeTyped, AppendProperties
<1>7. Len(s) = n + 1 /\ s[n + 1] = Code(c) /\ \A k \in 1..n : s[k] = Code(v[k])
  BY <1>3, <1>5, <1>6, CodeTyped, AppendProperties
<1>8. Codes(w) = s
  <2>1. ASSUME NEW k \in 1..(n + 1) PROVE Codes(w)[k] = s[k]
    <3>1. Codes(w)[k] = Code(w[k])
      BY <1>4, <1>5
    <3>2. k \in 1..n \/ k = n + 1
      OBVIOUS
    <3> QED
      BY <1>4, <1>7, <3>1, <3>2
  <2>2. Codes(w) \in Seq(Seq(Symbols)) /\ Len(Codes(w)) = n + 1
    BY <1>4, <1>5
  <2> QED
    BY <1>7, <2>1, <2>2, SeqEqual
<1>9. FlattenSeq(Append(Codes(v), Code(c))) = FlattenSeq(Codes(v)) \o Code(c)
  BY <1>5, CodeTyped, FlattenAppend
<1> QED
  BY <1>1, <1>2, <1>6, <1>8, <1>9

LEMMA EncodeTyped ==
    \A v \in Seq(Symbols) : EncodeEscapes(v) \in Seq(Symbols)
<1> DEFINE G == {v \in Seq(Symbols) : EncodeEscapes(v) \in Seq(Symbols)}
<1>1. <<>> \in G
  <2>1. <<>> \in Seq(Symbols)
    OBVIOUS
  <2> QED
    BY <2>1, EncodeEmpty
<1>2. ASSUME NEW v \in Seq(Symbols), NEW c \in Symbols, v \in G PROVE Append(v, c) \in G
  <2>1. EncodeEscapes(v) \o Code(c) \in Seq(Symbols)
    BY <1>2, CodeTyped
  <2>2. Append(v, c) \in Seq(Symbols)
    BY AppendProperties
  <2> QED
    BY <2>1, <2>2, EncodeAppend
<1> HIDE DEF G
<1>3. \A v \in Seq(Symbols) : v \in G
  BY <1>1, <1>2, TextInduction
<1> QED
  BY <1>3 DEF G

\* The special characters have different escapes.
LEMMA UnescapeIs ==
    ASSUME NEW c \in Special
    PROVE  EscapeOf[c] \in Escapable /\ Unescape(EscapeOf[c]) = c
<1>1. EscapeOf[c] \in Escapable
  BY DEF Escapable
<1>2. \A a \in Special : EscapeOf[a] = EscapeOf[c] => a = c
  BY DEF EscapeOf, Special, LineFeed, Return, Backslash, Space, Bar
<1> QED
  BY <1>1, <1>2 DEF Unescape

\* The decoder after it has read a text, and nothing is left open.
Read(v) == [text |-> v, escaped |-> FALSE, legal |-> TRUE]
\* The decoder after a backslash.
Escaping(v) == [text |-> v, escaped |-> TRUE, legal |-> TRUE]

LEMMA DecodeCode ==
    ASSUME NEW v, NEW c \in Symbols, NEW E \in Seq(Symbols), Decoded(E) = Read(v)
    PROVE  Decoded(E \o Code(c)) = Read(Append(v, c))
<1>1. CASE c \notin Special
  <2>1. E \o Code(c) = Append(E, c)
    BY <1>1 DEF Code
  <2>2. Decoded(Append(E, c)) = Decode(Read(v), c)
    BY DecodedAppend
  <2>3. c # Backslash
    BY <1>1 DEF Special
  <2>4. Decode(Read(v), c) = Read(Append(v, c))
    BY <2>3 DEF Decode, Read
  <2> QED
    BY <2>1, <2>2, <2>4
<1>2. CASE c \in Special
  <2>0. Backslash \in Symbols /\ EscapeOf[c] \in Symbols
    BY <1>2 DEF EscapeOf, Symbols, Special, LineFeed, Return, Backslash, Space, Bar
  <2>1. E \o Code(c) = Append(Append(E, Backslash), EscapeOf[c])
    BY <1>2, <2>0 DEF Code
  <2>3. Append(E, Backslash) \in Seq(Symbols) /\ Decoded(Append(E, Backslash)) = Escaping(v)
    <3>1. Decoded(Append(E, Backslash)) = Decode(Read(v), Backslash)
      BY <2>0, DecodedAppend
    <3>2. Decode(Read(v), Backslash) = Escaping(v)
      BY DEF Decode, Read, Escaping
    <3> QED
      BY <2>0, <3>1, <3>2, AppendProperties
  <2>4. Decoded(Append(Append(E, Backslash), EscapeOf[c])) = Decode(Escaping(v), EscapeOf[c])
    BY <2>0, <2>3, DecodedAppend
  <2>5. Decode(Escaping(v), EscapeOf[c]) = Read(Append(v, c))
    BY <1>2, UnescapeIs DEF Decode, Read, Escaping
  <2> QED
    BY <2>1, <2>4, <2>5
<1> QED
  BY <1>1, <1>2

\* What encodeEscapes writes, decodeEscapes accepts and reads as it was: every text,
\* whatever line ends, spaces, bars and backslashes stand in it.
THEOREM DecodesEncoded ==
    \A v \in Seq(Symbols) :
        Decodable(EncodeEscapes(v)) /\ DecodeEscapes(EncodeEscapes(v)) = v
<1> DEFINE G == {v \in Seq(Symbols) : Decoded(EncodeEscapes(v)) = Read(v)}
<1>1. <<>> \in G
  <2>1. <<>> \in Seq(Symbols)
    OBVIOUS
  <2> QED
    BY <2>1, EncodeEmpty, DecodedEmpty DEF Read, Start
<1>2. ASSUME NEW v \in Seq(Symbols), NEW c \in Symbols, v \in G PROVE Append(v, c) \in G
  <2>1. Decoded(EncodeEscapes(v) \o Code(c)) = Read(Append(v, c))
    BY <1>2, EncodeTyped, DecodeCode
  <2>2. Append(v, c) \in Seq(Symbols)
    BY AppendProperties
  <2> QED
    BY <2>1, <2>2, EncodeAppend
<1> HIDE DEF G
<1>3. \A v \in Seq(Symbols) : v \in G
  BY <1>1, <1>2, TextInduction
<1> QED
  BY <1>3 DEF G, Decodable, DecodeEscapes, Read

-----------------------------------------------------------------------------
(* The splitter as a reader: what one symbol more does to the parts *)

\* The next symbol would be escaped.
Open(v) == IsEscaped(v, Len(v) + 1)

\* Whether a position is escaped depends on what stands before it.
LEMMA EscapedByPrefix ==
    ASSUME NEW S, NEW v \in Seq(S), NEW w \in Seq(S), NEW p \in Nat, p >= 1,
           \A i \in 1..(p - 1) : v[i] = w[i]
    PROVE  IsEscaped(v, p) <=> IsEscaped(w, p)
<1>1. ASSUME NEW k \in 0..(p - 1) PROVE SlashCount(v, p, k) <=> SlashCount(w, p, k)
  <2>1. \A i \in (p - k)..(p - 1) : i \in 1..(p - 1)
    OBVIOUS
  <2>2. k # p - 1 => p - k - 1 \in 1..(p - 1)
    OBVIOUS
  <2> QED
    BY <2>1, <2>2 DEF SlashCount
<1> QED
  BY <1>1 DEF IsEscaped

LEMMA OpenEmpty == ~Open(<<>>)
<1>1. <<>> \in Seq(Nat) /\ Len(<<>>) + 1 = 1
  OBVIOUS
<1> QED
  BY <1>1, ReadersAgree DEF Open

LEMMA OpenAppend ==
    ASSUME NEW S, NEW v \in Seq(S), NEW c \in S
    PROVE  Open(Append(v, c)) <=> c = Backslash /\ ~Open(v)
<1>1. PICK n \in Nat : n = Len(v)
  OBVIOUS
<1>2. PICK w \in Seq(S) : w = Append(v, c)
  BY AppendProperties
<1>3. Len(w) = n + 1 /\ w[n + 1] = c /\ \A k \in 1..n : w[k] = v[k]
  BY <1>1, <1>2, AppendProperties
<1>4. n + 1 \in 1..Len(w)
  BY <1>3
<1>5. IsEscaped(w, n + 1 + 1) <=> w[n + 1] = Backslash /\ ~IsEscaped(w, n + 1)
  BY <1>4, ReadersAgree
<1>6. IsEscaped(w, n + 1) <=> IsEscaped(v, n + 1)
  <2>1. n + 1 \in Nat /\ n + 1 >= 1 /\ \A i \in 1..((n + 1) - 1) : w[i] = v[i]
    BY <1>3
  <2> QED
    BY <2>1, EscapedByPrefix
<1> QED
  BY <1>1, <1>2, <1>3, <1>5, <1>6 DEF Open

\* Where splitEscaped cuts.
Cuts(v, d) == {p \in DOMAIN v : v[p] = d /\ ~IsEscaped(v, p)}

LEMMA CutsAppend ==
    ASSUME NEW S, NEW v \in Seq(S), NEW c \in S, NEW d
    PROVE  /\ c = d /\ ~Open(v) => Cuts(Append(v, c), d) = Cuts(v, d) \cup {Len(v) + 1}
           /\ ~(c = d /\ ~Open(v)) => Cuts(Append(v, c), d) = Cuts(v, d)
<1>1. PICK n \in Nat : n = Len(v)
  OBVIOUS
<1>2. PICK w \in Seq(S) : w = Append(v, c)
  BY AppendProperties
<1>3. Len(w) = n + 1 /\ w[n + 1] = c /\ \A k \in 1..n : w[k] = v[k]
  BY <1>1, <1>2, AppendProperties
<1>4. ASSUME NEW p \in 1..(n + 1) PROVE IsEscaped(w, p) <=> IsEscaped(v, p)
  <2>1. p \in Nat /\ p >= 1 /\ \A i \in 1..(p - 1) : w[i] = v[i]
    BY <1>3
  <2> QED
    BY <2>1, EscapedByPrefix
<1>5. DOMAIN v = 1..n /\ DOMAIN w = 1..(n + 1)
  BY <1>1, <1>3
<1>6. 1..(n + 1) = (1..n) \cup {n + 1} /\ n + 1 \notin 1..n
  OBVIOUS
<1>7. Cuts(w, d) = {p \in 1..n : w[p] = d /\ ~IsEscaped(w, p)}
                     \cup {p \in {n + 1} : w[p] = d /\ ~IsEscaped(w, p)}
  BY <1>5, <1>6 DEF Cuts
<1>8. {p \in 1..n : w[p] = d /\ ~IsEscaped(w, p)} = Cuts(v, d)
  BY <1>3, <1>4, <1>5, <1>6 DEF Cuts
<1>9. {p \in {n + 1} : w[p] = d /\ ~IsEscaped(w, p)}
        = IF c = d /\ ~Open(v) THEN {n + 1} ELSE {}
  BY <1>1, <1>3, <1>4, <1>6 DEF Open
<1> QED
  BY <1>1, <1>2, <1>7, <1>8, <1>9

\* e counts through the places where v is cut, and its two ends.
Counted(e, m, v, cuts) ==
    /\ e \in [0..(m + 1) -> Nat]
    /\ e[0] = 0 /\ e[m + 1] = Len(v) + 1
    /\ \A j, k \in 0..(m + 1) : j < k => e[j] < e[k]
    /\ cuts = {e[k] : k \in 1..m}

LEMMA PartBounds ==
    ASSUME NEW e, NEW m \in Nat, NEW v, Len(v) \in Nat, NEW cuts, Counted(e, m, v, cuts),
           NEW k \in 1..(m + 1)
    PROVE  \E a, b \in Nat : /\ a = e[k - 1] /\ b = e[k]
                             /\ a < b /\ b <= Len(v) + 1
                             /\ k \in 1..m => b <= Len(v)
<1>1. k - 1 \in 0..(m + 1) /\ k \in 0..(m + 1) /\ m + 1 \in 0..(m + 1) /\ k - 1 < k
  OBVIOUS
<1>2. PICK a \in Nat : a = e[k - 1]
  BY <1>1 DEF Counted
<1>3. PICK b \in Nat : b = e[k]
  BY <1>1 DEF Counted
<1>4. a < b
  BY <1>1, <1>2, <1>3 DEF Counted
<1>5. PICK z \in Nat : z = e[m + 1] /\ z = Len(v) + 1
  BY <1>1 DEF Counted
<1>6. k \in 1..m => b < z
  <2>1. k \in 1..m => k < m + 1
    OBVIOUS
  <2> QED
    BY <1>1, <1>3, <1>5, <2>1 DEF Counted
<1>7. k \notin 1..m => b = z
  <2>1. k \notin 1..m => k = m + 1
    OBVIOUS
  <2> QED
    BY <1>3, <1>5, <2>1
<1> QED
  BY <1>2, <1>3, <1>4, <1>5, <1>6, <1>7

LEMMA PartIs ==
    ASSUME NEW v, NEW e, NEW m \in Nat, NEW k \in 1..(m + 1)
    PROVE  Parts(v, e, m)[k] = SubSeq(v, e[k - 1] + 1, e[k] - 1)
BY DEF Parts

LEMMA LastPartIs ==
    ASSUME NEW v, NEW e, NEW m \in Nat
    PROVE  Parts(v, e, m)[m + 1] = SubSeq(v, e[m] + 1, e[m + 1] - 1)
<1>1. PICK k \in 1..(m + 1) : k = m + 1 /\ k - 1 = m
  OBVIOUS
<1>2. Parts(v, e, m)[k] = SubSeq(v, e[k - 1] + 1, e[k] - 1)
  BY PartIs
<1> QED
  BY <1>1, <1>2, Zenon

LEMMA PartsTyped ==
    ASSUME NEW S, NEW v \in Seq(S), NEW e, NEW m \in Nat, NEW cuts, Counted(e, m, v, cuts)
    PROVE  Parts(v, e, m) \in Seq(Seq(S)) /\ Len(Parts(v, e, m)) = m + 1
<1>1. ASSUME NEW k \in 1..(m + 1)
      PROVE  SubSeq(v, e[k - 1] + 1, e[k] - 1) \in Seq(S)
  <2>0. Len(v) \in Nat
    OBVIOUS
  <2>1. PICK a, b \in Nat : a = e[k - 1] /\ b = e[k] /\ a < b /\ b <= Len(v) + 1
    BY <2>0, PartBounds
  <2>2. SubSeq(v, a + 1, b - 1) \in Seq(S)
    <3>1. a + 1 \in Nat /\ b - 1 \in Nat /\ 1 <= a + 1 /\ a + 1 <= (b - 1) + 1 /\ b - 1 <= Len(v)
      BY <2>1, SMTT(40)
    <3> QED
      BY <3>1, Slice
  <2> QED
    BY <2>1, <2>2
<1>2. PICK n \in Nat : n = m + 1
  OBVIOUS
<1>3. Parts(v, e, m) = [k \in 1..n |-> SubSeq(v, e[k - 1] + 1, e[k] - 1)]
  BY <1>2 DEF Parts
<1>4. \A k \in 1..n : SubSeq(v, e[k - 1] + 1, e[k] - 1) \in Seq(S)
  BY <1>1, <1>2
<1>5. [k \in 1..n |-> SubSeq(v, e[k - 1] + 1, e[k] - 1)] \in [1..n -> Seq(S)]
  BY <1>4
<1>6. Parts(v, e, m) \in Seq(Seq(S))
  BY <1>3, <1>5
<1> QED
  BY <1>6, PartsLen

\* The last of the parts goes on with t.
LastExtended(parts, t) ==
    [k \in 1..Len(parts) |-> IF k = Len(parts) THEN parts[k] \o t ELSE parts[k]]

\* A symbol that does not cut extends the last part.
LEMMA KeepsPart ==
    ASSUME NEW S, NEW v \in Seq(S), NEW c \in S, NEW e, NEW m \in Nat, NEW cuts,
           Counted(e, m, v, cuts)
    PROVE  \E g : /\ Counted(g, m, Append(v, c), cuts)
                  /\ Parts(Append(v, c), g, m) = LastExtended(Parts(v, e, m), <<c>>)
<1>1. PICK n \in Nat : n = Len(v)
  OBVIOUS
<1>2. PICK w \in Seq(S) : w = Append(v, c)
  BY AppendProperties
<1>3. Len(w) = n + 1 /\ w[n + 1] = c /\ \A k \in 1..n : w[k] = v[k]
  BY <1>1, <1>2, AppendProperties
<1> DEFINE g == [k \in 0..(m + 1) |-> IF k = m + 1 THEN n + 2 ELSE e[k]]
<1>4. /\ \A k \in 0..m : g[k] = e[k]
      /\ g[m + 1] = n + 2
  OBVIOUS
<1>5. g \in [0..(m + 1) -> Nat]
  BY DEF Counted
<1> HIDE DEF g
<1>6. ASSUME NEW j \in 0..(m + 1), NEW k \in 0..(m + 1), j < k PROVE g[j] < g[k]
  <2>1. j \in 0..m /\ j + 1 \in 1..(m + 1) /\ (j + 1) - 1 = j
    BY <1>6
  <2>2. PICK a, b \in Nat : a = e[j] /\ b = e[j + 1] /\ a < b /\ b <= n + 1
    BY <1>1, <2>1, PartBounds
  <2>3. CASE k = m + 1
    BY <1>4, <2>1, <2>2, <2>3
  <2>4. CASE k \in 0..m
    <3>1. e[j] < e[k]
      BY <1>6 DEF Counted
    <3> QED
      BY <1>4, <2>1, <2>4, <3>1
  <2> QED
    BY <2>3, <2>4
<1>7. Counted(g, m, w, cuts)
  <2>1. g[0] = 0
    <3>1. 0 \in 0..m
      OBVIOUS
    <3> QED
      BY <1>4, <3>1 DEF Counted
  <2>2. g[m + 1] = Len(w) + 1
    BY <1>3, <1>4
  <2>3. cuts = {g[k] : k \in 1..m}
    <3>1. \A k \in 1..m : g[k] = e[k]
      BY <1>4
    <3> QED
      BY <3>1 DEF Counted
  <2> QED
    BY <1>5, <1>6, <2>1, <2>2, <2>3 DEF Counted
<1>8. ASSUME NEW k \in 1..m PROVE Parts(w, g, m)[k] = Parts(v, e, m)[k]
  <2>1. k \in 1..(m + 1) /\ k - 1 \in 0..m /\ k \in 0..m
    OBVIOUS
  <2>2. PICK a, b \in Nat : a = e[k - 1] /\ b = e[k] /\ a < b /\ b <= n
    BY <1>1, <2>1, PartBounds
  <2>3. SubSeq(w, a + 1, b - 1) = SubSeq(v, a + 1, b - 1)
    <3>1. PICK x, y \in Int : x = a + 1 /\ y = b - 1
      OBVIOUS
    <3>2. 1 <= x /\ y <= Len(v) /\ y <= Len(w)
      BY <1>1, <1>3, <2>2, <3>1, SMTT(40)
    <3>3. \A i \in 0..(y - x) : w[x + i] = v[x + i]
      <4>1. \A i \in 0..(y - x) : x + i \in 1..n
        BY <1>1, <3>2
      <4> QED
        BY <1>3, <4>1
    <3>4. Alike(w, x, y, v, x, y)
      BY <3>2, <3>3 DEF Alike
    <3>5. SubSeq(w, x, y) = SubSeq(v, x, y)
      BY <3>4, SameSlice
    <3> QED
      BY <3>1, <3>5
  <2>4. Parts(w, g, m)[k] = SubSeq(w, a + 1, b - 1)
    <3>1. g[k - 1] = a /\ g[k] = b
      BY <1>4, <2>1, <2>2
    <3>2. Parts(w, g, m)[k] = SubSeq(w, g[k - 1] + 1, g[k] - 1)
      BY <2>1, PartIs
    <3> QED
      BY <3>1, <3>2, Zenon
  <2>5. Parts(v, e, m)[k] = SubSeq(v, a + 1, b - 1)
    <3>1. e[k - 1] = a /\ e[k] = b
      BY <2>2
    <3>2. Parts(v, e, m)[k] = SubSeq(v, e[k - 1] + 1, e[k] - 1)
      BY <2>1, PartIs
    <3> QED
      BY <3>1, <3>2, Zenon
  <2> QED
    BY <2>3, <2>4, <2>5
<1>9. Parts(w, g, m)[m + 1] = Parts(v, e, m)[m + 1] \o <<c>>
  <2>1. m + 1 \in 1..(m + 1) /\ (m + 1) - 1 = m /\ m \in 0..m
    OBVIOUS
  <2>2. PICK a, b \in Nat : a = e[m] /\ b = e[m + 1] /\ a < b /\ b <= n + 1
    BY <1>1, <2>1, PartBounds, SMTT(40)
  <2>3. b = n + 1
    BY <1>1, <2>2 DEF Counted
  <2>4. Parts(w, g, m)[m + 1] = SubSeq(w, a + 1, n + 1)
    <3>1. PICK z \in Nat : z = n + 2 /\ z - 1 = n + 1
      OBVIOUS
    <3>2. g[m] = a /\ g[m + 1] = z
      BY <1>4, <2>1, <2>2, <3>1
    <3>3. Parts(w, g, m)[m + 1] = SubSeq(w, a + 1, z - 1)
      <4>1. Parts(w, g, m)[m + 1] = SubSeq(w, g[m] + 1, g[m + 1] - 1)
        BY LastPartIs
      <4> QED
        BY <3>2, <4>1, Zenon
    <3> QED
      BY <3>1, <3>3
  <2>5. Parts(v, e, m)[m + 1] = SubSeq(v, a + 1, n)
    <3>1. b - 1 = n
      BY <2>3
    <3>2. e[m] = a /\ e[m + 1] = b
      BY <2>1, <2>2
    <3>3. Parts(v, e, m)[m + 1] = SubSeq(v, a + 1, b - 1)
      <4>1. Parts(v, e, m)[m + 1] = SubSeq(v, e[m] + 1, e[m + 1] - 1)
        BY LastPartIs
      <4> QED
        BY <3>2, <4>1, Zenon
    <3> QED
      BY <3>1, <3>3
  <2>6. PICK x \in Nat : x = a + 1 /\ x >= 1 /\ x <= n + 1
    BY <2>2, <2>3
  <2>7. PICK s \in Seq(S) : /\ s = SubSeq(w, x, n + 1) /\ Len(s) = (n + 1) - x + 1
                            /\ \A i \in 1..((n + 1) - x + 1) : s[i] = w[x + i - 1]
    <3>1. PICK y \in Nat : y = n + 1 /\ x <= y + 1 /\ y <= Len(w)
      BY <1>3, <2>6
    <3>2. /\ SubSeq(w, x, y) \in Seq(S) /\ Len(SubSeq(w, x, y)) = y - x + 1
          /\ \A i \in 1..(y - x + 1) : SubSeq(w, x, y)[i] = w[x + i - 1]
      BY <2>6, <3>1, Slice
    <3> QED
      BY <3>1, <3>2, Zenon
  <2>8. PICK t \in Seq(S) : /\ t = SubSeq(v, x, n) /\ Len(t) = n - x + 1
                            /\ \A i \in 1..(n - x + 1) : t[i] = v[x + i - 1]
    <3>1. n <= Len(v)
      BY <1>1
    <3>2. /\ SubSeq(v, x, n) \in Seq(S) /\ Len(SubSeq(v, x, n)) = n - x + 1
          /\ \A i \in 1..(n - x + 1) : SubSeq(v, x, n)[i] = v[x + i - 1]
      BY <2>6, <3>1, Slice
    <3> QED
      BY <3>2, Zenon
  <2>9. s = Append(t, c)
    <3>1. PICK r \in Seq(S) : r = Append(t, c)
      BY AppendProperties
    <3>2. PICK l \in Nat : l = n - x + 1
      BY <2>6
    <3>3. Len(r) = l + 1 /\ r[l + 1] = c /\ \A i \in 1..l : r[i] = t[i]
      BY <2>8, <3>1, <3>2, AppendProperties
    <3>4. Len(s) = l + 1 /\ x + (l + 1) - 1 = n + 1
      BY <2>6, <2>7, <3>2
    <3>5. ASSUME NEW i \in 1..(l + 1) PROVE s[i] = r[i]
      <4>1. s[i] = w[x + i - 1]
        BY <2>7, <3>2
      <4>2. CASE i = l + 1
        BY <1>3, <3>3, <3>4, <4>1, <4>2
      <4>3. CASE i \in 1..l
        <5>1. x + i - 1 \in 1..n
          BY <2>6, <3>2, <4>3
        <5>2. t[i] = v[x + i - 1]
          BY <2>8, <3>2, <4>3
        <5> QED
          BY <1>3, <3>3, <4>1, <4>3, <5>1, <5>2
      <4> QED
        BY <4>2, <4>3
    <3> QED
      BY <3>1, <3>3, <3>4, <3>5, SeqEqual
  <2>10. t \o <<c>> = Append(t, c)
    OBVIOUS
  <2> QED
    BY <2>4, <2>5, <2>6, <2>7, <2>8, <2>9, <2>10
<1>10. Parts(w, g, m) = LastExtended(Parts(v, e, m), <<c>>)
  <2>1. Parts(v, e, m) \in Seq(Seq(S)) /\ Len(Parts(v, e, m)) = m + 1
    BY PartsTyped
  <2>2. Parts(w, g, m) \in Seq(Seq(S)) /\ Len(Parts(w, g, m)) = m + 1
    BY <1>7, PartsTyped
  <2>3. PICK l \in Nat : l = m + 1
    OBVIOUS
  <2>4. \A k \in 1..l : k \in 1..m \/ k = l
    BY <2>3
  <2>5. m + 1 \notin 1..m
    OBVIOUS
  <2>6. LastExtended(Parts(v, e, m), <<c>>)
          = [k \in 1..l |-> IF k = l THEN Parts(v, e, m)[k] \o <<c>> ELSE Parts(v, e, m)[k]]
    BY <2>1, <2>3 DEF LastExtended
  <2>7. \A k \in 1..l : Parts(w, g, m)[k]
          = IF k = l THEN Parts(v, e, m)[k] \o <<c>> ELSE Parts(v, e, m)[k]
    BY <1>8, <1>9, <2>3, <2>4, <2>5
  <2>8. Parts(w, g, m) = [k \in 1..l |-> Parts(w, g, m)[k]]
    BY <2>3 DEF Parts
  <2> QED
    BY <2>6, <2>7, <2>8
<1> QED
  BY <1>2, <1>7, <1>10

\* A delimiter that is not escaped begins a new part.
LEMMA BeginsPart ==
    ASSUME NEW S, NEW v \in Seq(S), NEW c \in S, NEW e, NEW m \in Nat, NEW cuts,
           Counted(e, m, v, cuts)
    PROVE  \E g : /\ Counted(g, m + 1, Append(v, c), cuts \cup {Len(v) + 1})
                  /\ Parts(Append(v, c), g, m + 1) = Append(Parts(v, e, m), <<>>)
<1>1. PICK n \in Nat : n = Len(v)
  OBVIOUS
<1>2. PICK w \in Seq(S) : w = Append(v, c)
  BY AppendProperties
<1>3. Len(w) = n + 1 /\ w[n + 1] = c /\ \A k \in 1..n : w[k] = v[k]
  BY <1>1, <1>2, AppendProperties
<1>0. PICK l \in Nat : l = m + 1
  OBVIOUS
<1> DEFINE g == [k \in 0..(l + 1) |-> IF k = l + 1 THEN n + 2 ELSE e[k]]
<1>4. /\ \A k \in 0..l : g[k] = e[k]
      /\ g[l + 1] = n + 2
  OBVIOUS
<1>5. g \in [0..(l + 1) -> Nat]
  <2>1. \A k \in 0..(l + 1) : k # l + 1 => k \in 0..(m + 1)
    BY <1>0
  <2> QED
    BY <2>1, SMTT(40) DEF Counted
<1> HIDE DEF g
<1>6. ASSUME NEW j \in 0..(l + 1), NEW k \in 0..(l + 1), j < k PROVE g[j] < g[k]
  <2>1. j \in 0..l /\ j \in 0..(m + 1)
    BY <1>0, <1>6
  <2>2. PICK a \in Nat : a = e[j] /\ a <= n + 1
    <3>1. CASE j = m + 1
      BY <1>1, <3>1 DEF Counted
    <3>2. CASE j # m + 1
      <4>1. j + 1 \in 1..(m + 1) /\ (j + 1) - 1 = j
        BY <2>1, <3>2
      <4>2. PICK a, b \in Nat : a = e[j] /\ b = e[j + 1] /\ a < b /\ b <= n + 1
        BY <1>1, <4>1, PartBounds
      <4>3. a <= n + 1
        BY <4>2
      <4> QED
        BY <4>2, <4>3
    <3> QED
      BY <3>1, <3>2
  <2>3. CASE k = l + 1
    BY <1>4, <2>1, <2>2, <2>3
  <2>4. CASE k \in 0..l
    <3>1. e[j] < e[k]
      BY <1>0, <1>6, <2>1, <2>4 DEF Counted
    <3> QED
      BY <1>4, <2>1, <2>4, <3>1
  <2> QED
    BY <2>3, <2>4
<1>7. Counted(g, l, w, cuts \cup {n + 1})
  <2>1. g[0] = 0
    <3>1. 0 \in 0..l
      OBVIOUS
    <3> QED
      BY <1>4, <3>1 DEF Counted
  <2>2. g[l + 1] = Len(w) + 1
    BY <1>3, <1>4
  <2>3. cuts \cup {n + 1} = {g[k] : k \in 1..l}
    <3>1. \A k \in 1..m : g[k] = e[k] /\ k \in 1..l
      BY <1>0, <1>4
    <3>2. g[l] = n + 1 /\ l \in 1..l
      <4>1. l \in 0..l /\ l \in 1..l
        BY <1>0
      <4>2. e[l] = n + 1
        BY <1>0, <1>1 DEF Counted
      <4> QED
        BY <1>4, <4>1, <4>2
    <3>3. cuts = {g[k] : k \in 1..m}
      BY <3>1 DEF Counted
    <3>4. 1..l = (1..m) \cup {l}
      BY <1>0
    <3> QED
      BY <3>2, <3>3, <3>4
  <2> QED
    BY <1>5, <1>6, <2>1, <2>2, <2>3 DEF Counted
<1>8. ASSUME NEW k \in 1..l PROVE Parts(w, g, l)[k] = Parts(v, e, m)[k]
  <2>1. k \in 1..(l + 1) /\ k \in 1..(m + 1) /\ k - 1 \in 0..l /\ k \in 0..l
    BY <1>0
  <2>2. PICK a, b \in Nat : a = e[k - 1] /\ b = e[k] /\ a < b /\ b <= n + 1
    BY <1>1, <2>1, PartBounds
  <2>3. SubSeq(w, a + 1, b - 1) = SubSeq(v, a + 1, b - 1)
    <3>1. PICK x, y \in Int : x = a + 1 /\ y = b - 1
      OBVIOUS
    <3>2. 1 <= x /\ y <= Len(v) /\ y <= Len(w)
      BY <1>1, <1>3, <2>2, <3>1, SMTT(40)
    <3>3. \A i \in 0..(y - x) : w[x + i] = v[x + i]
      <4>1. \A i \in 0..(y - x) : x + i \in 1..n
        BY <1>1, <3>2
      <4> QED
        BY <1>3, <4>1
    <3>4. Alike(w, x, y, v, x, y)
      BY <3>2, <3>3 DEF Alike
    <3>5. SubSeq(w, x, y) = SubSeq(v, x, y)
      BY <3>4, SameSlice
    <3> QED
      BY <3>1, <3>5
  <2>4. Parts(w, g, l)[k] = SubSeq(w, a + 1, b - 1)
    <3>1. g[k - 1] = a /\ g[k] = b
      BY <1>4, <2>1, <2>2
    <3>2. Parts(w, g, l)[k] = SubSeq(w, g[k - 1] + 1, g[k] - 1)
      BY <2>1, PartIs
    <3> QED
      BY <3>1, <3>2, Zenon
  <2>5. Parts(v, e, m)[k] = SubSeq(v, a + 1, b - 1)
    <3>1. e[k - 1] = a /\ e[k] = b
      BY <2>2
    <3>2. Parts(v, e, m)[k] = SubSeq(v, e[k - 1] + 1, e[k] - 1)
      BY <2>1, PartIs
    <3> QED
      BY <3>1, <3>2, Zenon
  <2> QED
    BY <2>3, <2>4, <2>5
<1>9. Parts(w, g, l)[l + 1] = <<>>
  <2>1. PICK a, z \in Nat : /\ g[l] = a /\ g[l + 1] = z
                            /\ a + 1 \in Nat /\ z - 1 \in Nat /\ 1 <= a + 1
                            /\ a + 1 = (z - 1) + 1 /\ z - 1 <= Len(w)
    <3>1. l \in 0..l /\ e[l] = n + 1
      BY <1>0, <1>1 DEF Counted
    <3>2. g[l] = n + 1
      BY <1>4, <3>1
    <3> QED
      BY <1>3, <1>4, <3>2
  <2>2. Parts(w, g, l)[l + 1] = SubSeq(w, a + 1, z - 1)
    <3>1. Parts(w, g, l)[l + 1] = SubSeq(w, g[l] + 1, g[l + 1] - 1)
      BY LastPartIs
    <3>2. g[l] = a /\ g[l + 1] = z
      BY <2>1
    <3> QED
      BY <3>1, <3>2, Zenon
  <2>3. SubSeq(w, a + 1, z - 1) \in Seq(S) /\ Len(SubSeq(w, a + 1, z - 1)) = 0
    <3>1. PICK x, y \in Nat : x = a + 1 /\ y = z - 1 /\ 1 <= x /\ x = y + 1 /\ y <= Len(w)
      BY <2>1
    <3>2. SubSeq(w, x, y) \in Seq(S) /\ Len(SubSeq(w, x, y)) = y - x + 1
      BY <3>1, Slice
    <3>3. y - x + 1 = 0
      BY <3>1
    <3> QED
      BY <3>1, <3>2, <3>3
  <2> QED
    BY <2>2, <2>3, EmptyText
<1>10. Parts(w, g, l) = Append(Parts(v, e, m), <<>>)
  <2>1. Parts(v, e, m) \in Seq(Seq(S)) /\ Len(Parts(v, e, m)) = l
    BY <1>0, PartsTyped
  <2>2. Parts(w, g, l) \in Seq(Seq(S)) /\ Len(Parts(w, g, l)) = l + 1
    BY <1>7, PartsTyped
  <2>3. PICK p \in Seq(Seq(S)) : p = Parts(v, e, m)
    BY <2>1
  <2>4. PICK q \in Seq(Seq(S)) : q = Parts(w, g, l)
    BY <2>2
  <2>5. PICK r \in Seq(S) : r = <<>>
    BY NoSymbols
  <2>6. PICK s \in Seq(Seq(S)) : s = Append(p, r)
    BY AppendProperties
  <2>7. Len(s) = l + 1 /\ s[l + 1] = r /\ \A k \in 1..l : s[k] = p[k]
    <3>1. Len(p) = l
      BY <2>1, <2>3
    <3>2. /\ Len(Append(p, r)) = Len(p) + 1
          /\ \A k \in 1..Len(p) : Append(p, r)[k] = p[k]
          /\ Append(p, r)[Len(p) + 1] = r
      BY AppendProperties
    <3> QED
      BY <2>6, <3>1, <3>2
  <2>8. ASSUME NEW k \in 1..(l + 1) PROVE q[k] = s[k]
    <3>1. CASE k = l + 1
      BY <1>9, <2>4, <2>5, <2>7, <3>1
    <3>2. CASE k \in 1..l
      BY <1>8, <2>3, <2>4, <2>7, <3>2
    <3> QED
      BY <3>1, <3>2
  <2>9. q = s
    BY <2>2, <2>4, <2>7, <2>8, SeqEqual
  <2> QED
    BY <2>3, <2>4, <2>5, <2>6, <2>9
<1> QED
  BY <1>0, <1>1, <1>2, <1>7, <1>10

LEMMA CountedEmpty ==
    ASSUME NEW d
    PROVE  \E e : /\ Counted(e, 0, <<>>, Cuts(<<>>, d))
                  /\ Parts(<<>>, e, 0) = <<<<>>>>
<1> DEFINE e == [k \in 0..1 |-> k]
<1>0. Len(<<>>) = 0 /\ DOMAIN <<>> = {}
  OBVIOUS
<1>1. Counted(e, 0, <<>>, Cuts(<<>>, d))
  <2>1. Cuts(<<>>, d) = {}
    BY <1>0 DEF Cuts
  <2>2. /\ e \in [0..1 -> Nat] /\ e[0] = 0 /\ e[1] = 1
        /\ \A j, k \in 0..1 : j < k => e[j] < e[k]
    OBVIOUS
  <2>3. {e[k] : k \in 1..0} = {} /\ 0 + 1 = 1
    OBVIOUS
  <2> HIDE DEF e
  <2> QED
    BY <1>0, <2>1, <2>2, <2>3 DEF Counted
<1>2. e[0] = 0 /\ e[1] = 1
  OBVIOUS
<1> HIDE DEF e
<1>3. SubSeq(<<>>, e[0] + 1, e[1] - 1) = <<>>
  <2>1. e[0] + 1 = 1 /\ e[1] - 1 = 0
    BY <1>2
  <2>2. SubSeq(<<>>, 1, 0) = <<>>
    OBVIOUS
  <2> QED
    BY <2>1, <2>2
<1>4. Parts(<<>>, e, 0) = <<<<>>>>
  <2>1. Parts(<<>>, e, 0) \in Seq(Seq(Nat)) /\ Len(Parts(<<>>, e, 0)) = 0 + 1
    BY <1>1, NoSymbols, PartsTyped
  <2>2. Parts(<<>>, e, 0)[1] = <<>>
    <3>1. Parts(<<>>, e, 0)[0 + 1] = SubSeq(<<>>, e[0] + 1, e[0 + 1] - 1)
      BY LastPartIs
    <3>2. 0 + 1 = 1
      OBVIOUS
    <3> QED
      BY <1>3, <3>1, <3>2
  <2>3. PICK p \in Seq(Seq(Nat)) : p = Parts(<<>>, e, 0)
    BY <2>1
  <2>4. Len(p) = 1 /\ p[1] = <<>>
    BY <2>1, <2>2, <2>3
  <2>5. p = <<<<>>>>
    BY <2>4
  <2> QED
    BY <2>3, <2>5
<1> QED
  BY <1>1, <1>4

\* Every text can be cut.
LEMMA CountedExists ==
    ASSUME NEW S, NEW d
    PROVE  \A v \in Seq(S) : \E m \in Nat : \E e : Counted(e, m, v, Cuts(v, d))
<1> DEFINE G == {v \in Seq(S) : \E m \in Nat : \E e : Counted(e, m, v, Cuts(v, d))}
<1>1. <<>> \in G
  <2>1. \E m \in Nat : \E e : Counted(e, m, <<>>, Cuts(<<>>, d))
    BY CountedEmpty
  <2> QED
    BY <2>1, NoSymbols
<1>2. ASSUME NEW v \in Seq(S), NEW c \in S, v \in G PROVE Append(v, c) \in G
  <2>0. PICK m \in Nat : \E e : Counted(e, m, v, Cuts(v, d))
    BY <1>2
  <2>1. PICK e : Counted(e, m, v, Cuts(v, d))
    BY <2>0
  <2>2. CASE c = d /\ ~Open(v)
    <3>1. Cuts(Append(v, c), d) = Cuts(v, d) \cup {Len(v) + 1}
      BY <2>2, CutsAppend
    <3>2. PICK l \in Nat : l = m + 1
      OBVIOUS
    <3>3. \E g : Counted(g, m + 1, Append(v, c), Cuts(v, d) \cup {Len(v) + 1})
      BY <2>1, BeginsPart
    <3> QED
      BY <3>1, <3>2, <3>3, AppendProperties
  <2>3. CASE ~(c = d /\ ~Open(v))
    <3>1. Cuts(Append(v, c), d) = Cuts(v, d)
      BY <2>3, CutsAppend
    <3>2. \E g : Counted(g, m, Append(v, c), Cuts(v, d))
      BY <2>1, KeepsPart
    <3> QED
      BY <3>1, <3>2, AppendProperties
  <2> QED
    BY <2>2, <2>3
<1> HIDE DEF G
<1>3. \A v \in Seq(S) : v \in G
  BY <1>1, <1>2, TextInduction
<1> QED
  BY <1>3 DEF G

LEMMA SplitIs ==
    ASSUME NEW v, NEW d, NEW e, NEW m \in Nat, Counted(e, m, v, Cuts(v, d))
    PROVE  SplitEscaped(v, d) = Parts(v, e, m)
<1>1. SplitEscaped(v, d) = Cut(v, Cuts(v, d))
  BY DEF SplitEscaped, Cuts
<1>2. /\ e \in [0..(m + 1) -> Nat] /\ e[0] = 0 /\ e[m + 1] = Len(v) + 1
      /\ \A j, k \in 0..(m + 1) : j < k => e[j] < e[k]
      /\ Cuts(v, d) = {e[k] : k \in 1..m}
  BY DEF Counted
<1>3. PICK cuts : cuts = Cuts(v, d)
  OBVIOUS
<1> QED
  BY <1>1, <1>2, <1>3, CutAt

LEMMA SplitEmpty ==
    ASSUME NEW d
    PROVE  SplitEscaped(<<>>, d) = <<<<>>>>
<1>1. PICK e : Counted(e, 0, <<>>, Cuts(<<>>, d)) /\ Parts(<<>>, e, 0) = <<<<>>>>
  BY CountedEmpty
<1>2. 0 \in Nat
  OBVIOUS
<1> QED
  BY <1>1, <1>2, SplitIs

LEMMA SplitTyped ==
    ASSUME NEW S, NEW v \in Seq(S), NEW d
    PROVE  SplitEscaped(v, d) \in Seq(Seq(S)) /\ Len(SplitEscaped(v, d)) >= 1
<1>0. PICK m \in Nat : \E e : Counted(e, m, v, Cuts(v, d))
  BY CountedExists
<1>1. PICK e : Counted(e, m, v, Cuts(v, d))
  BY <1>0
<1>2. SplitEscaped(v, d) = Parts(v, e, m)
  BY <1>1, SplitIs
<1>3. Parts(v, e, m) \in Seq(Seq(S)) /\ Len(Parts(v, e, m)) = m + 1 /\ m + 1 >= 1
  BY <1>1, PartsTyped
<1> QED
  BY <1>2, <1>3

\* SplitEscaped as the loop of splitEscaped: a delimiter that is not escaped begins a
\* part (parts.push_back), every other symbol goes to the last one (current.push_back).
THEOREM SplitAppend ==
    ASSUME NEW S, NEW v \in Seq(S), NEW c \in S, NEW d
    PROVE  SplitEscaped(Append(v, c), d) =
              IF c = d /\ ~Open(v) THEN Append(SplitEscaped(v, d), <<>>)
              ELSE LastExtended(SplitEscaped(v, d), <<c>>)
<1>0. PICK m \in Nat : \E e : Counted(e, m, v, Cuts(v, d))
  BY CountedExists
<1>1. PICK e : Counted(e, m, v, Cuts(v, d))
  BY <1>0
<1>2. SplitEscaped(v, d) = Parts(v, e, m)
  BY <1>1, SplitIs
<1>3. CASE c = d /\ ~Open(v)
  <2>1. Cuts(Append(v, c), d) = Cuts(v, d) \cup {Len(v) + 1}
    BY <1>3, CutsAppend
  <2>2. PICK g : /\ Counted(g, m + 1, Append(v, c), Cuts(v, d) \cup {Len(v) + 1})
                 /\ Parts(Append(v, c), g, m + 1) = Append(Parts(v, e, m), <<>>)
    BY <1>1, BeginsPart, ZenonT(40)
  <2>3. m + 1 \in Nat /\ Counted(g, m + 1, Append(v, c), Cuts(Append(v, c), d))
    BY <1>1, <2>1, <2>2
  <2>4. SplitEscaped(Append(v, c), d) = Parts(Append(v, c), g, m + 1)
    BY <2>3, SplitIs
  <2> QED
    BY <1>2, <1>3, <2>2, <2>4
<1>4. CASE ~(c = d /\ ~Open(v))
  <2>1. Cuts(Append(v, c), d) = Cuts(v, d)
    BY <1>4, CutsAppend
  <2>2. PICK g : /\ Counted(g, m, Append(v, c), Cuts(v, d))
                 /\ Parts(Append(v, c), g, m) = LastExtended(Parts(v, e, m), <<c>>)
    BY <1>1, KeepsPart
  <2>3. SplitEscaped(Append(v, c), d) = Parts(Append(v, c), g, m)
    BY <1>1, <2>1, <2>2, SplitIs
  <2> QED
    BY <1>2, <1>4, <2>2, <2>3
<1> QED
  BY <1>3, <1>4

-----------------------------------------------------------------------------
(* Texts that do not disturb the splitter *)

Associates(x, y, z) == (x \o y) \o z = x \o (y \o z)

LEMMA Associative ==
    ASSUME NEW S, NEW x \in Seq(S), NEW y \in Seq(S), NEW z \in Seq(S)
    PROVE  Associates(x, y, z)
BY ConcatAssociative DEF Associates

LEMMA NothingAfter ==
    ASSUME NEW S, NEW x \in Seq(S)
    PROVE  x \o <<>> = x
OBVIOUS

LEMMA AppendOne ==
    ASSUME NEW S, NEW a \in S, NEW b \in S
    PROVE  Append(<<a>>, b) = <<a, b>>
<1>0. \A x0 \in S : <<x0>> \in Seq(S)
  OBVIOUS
<1>1. PICK s \in Seq(S) : s = <<a>>
  BY <1>0
<1>2. Len(s) = 1 /\ s[1] = a
  BY <1>1
<1>3. PICK t \in Seq(S) : t = Append(s, b)
  BY AppendProperties
<1>4. Len(t) = 2 /\ t[1] = a /\ t[2] = b
  <2>1. /\ Len(t) = Len(s) + 1 /\ t[Len(s) + 1] = b
        /\ \A k \in 1..Len(s) : t[k] = s[k]
    BY <1>3, AppendProperties
  <2>2. Len(s) + 1 = 2 /\ 1 \in 1..Len(s)
    BY <1>2
  <2> QED
    BY <1>2, <2>1, <2>2
<1>5. t = <<a, b>>
  BY <1>4
<1> QED
  BY <1>1, <1>3, <1>5

LEMMA AppendTwo ==
    ASSUME NEW S, NEW a \in S, NEW b \in S, NEW c \in S
    PROVE  Append(<<a, b>>, c) = <<a, b, c>>
<1>0. \A x0, x1 \in S : <<x0, x1>> \in Seq(S)
  OBVIOUS
<1>1. PICK s \in Seq(S) : s = <<a, b>>
  BY <1>0
<1>2. Len(s) = 2 /\ s[1] = a /\ s[2] = b
  BY <1>1
<1>3. PICK t \in Seq(S) : t = Append(s, c)
  BY AppendProperties
<1>4. Len(t) = 3 /\ t[1] = a /\ t[2] = b /\ t[3] = c
  <2>1. /\ Len(t) = Len(s) + 1 /\ t[Len(s) + 1] = c
        /\ \A k \in 1..Len(s) : t[k] = s[k]
    BY <1>3, AppendProperties
  <2>2. Len(s) + 1 = 3 /\ 1 \in 1..Len(s) /\ 2 \in 1..Len(s)
    BY <1>2
  <2> QED
    BY <1>2, <2>1, <2>2
<1>5. t = <<a, b, c>>
  BY <1>4
<1> QED
  BY <1>1, <1>3, <1>5

LEMMA AppendThree ==
    ASSUME NEW S, NEW a \in S, NEW b \in S, NEW c \in S, NEW d \in S
    PROVE  Append(<<a, b, c>>, d) = <<a, b, c, d>>
<1>0. \A x0, x1, x2 \in S : <<x0, x1, x2>> \in Seq(S)
  OBVIOUS
<1>1. PICK s \in Seq(S) : s = <<a, b, c>>
  BY <1>0
<1>2. Len(s) = 3 /\ s[1] = a /\ s[2] = b /\ s[3] = c
  BY <1>1
<1>3. PICK t \in Seq(S) : t = Append(s, d)
  BY AppendProperties
<1>4. Len(t) = 4 /\ t[1] = a /\ t[2] = b /\ t[3] = c /\ t[4] = d
  <2>1. /\ Len(t) = Len(s) + 1 /\ t[Len(s) + 1] = d
        /\ \A k \in 1..Len(s) : t[k] = s[k]
    BY <1>3, AppendProperties
  <2>2. Len(s) + 1 = 4 /\ 1 \in 1..Len(s) /\ 2 \in 1..Len(s) /\ 3 \in 1..Len(s)
    BY <1>2
  <2> QED
    BY <1>2, <2>1, <2>2
<1>5. t = <<a, b, c, d>>
  BY <1>4
<1> QED
  BY <1>1, <1>3, <1>5

LEMMA AppendFour ==
    ASSUME NEW S, NEW a \in S, NEW b \in S, NEW c \in S, NEW d \in S, NEW e \in S
    PROVE  Append(<<a, b, c, d>>, e) = <<a, b, c, d, e>>
<1>0. \A x0, x1, x2, x3 \in S : <<x0, x1, x2, x3>> \in Seq(S)
  OBVIOUS
<1>1. PICK s \in Seq(S) : s = <<a, b, c, d>>
  BY <1>0
<1>2. Len(s) = 4 /\ s[1] = a /\ s[2] = b /\ s[3] = c /\ s[4] = d
  BY <1>1
<1>3. PICK t \in Seq(S) : t = Append(s, e)
  BY AppendProperties
<1>4. Len(t) = 5 /\ t[1] = a /\ t[2] = b /\ t[3] = c /\ t[4] = d /\ t[5] = e
  <2>1. /\ Len(t) = Len(s) + 1 /\ t[Len(s) + 1] = e
        /\ \A k \in 1..Len(s) : t[k] = s[k]
    BY <1>3, AppendProperties
  <2>2. Len(s) + 1 = 5 /\ 1 \in 1..Len(s) /\ 2 \in 1..Len(s) /\ 3 \in 1..Len(s) /\ 4 \in 1..Len(s)
    BY <1>2
  <2> QED
    BY <1>2, <2>1, <2>2
<1>5. t = <<a, b, c, d, e>>
  BY <1>4
<1> QED
  BY <1>1, <1>3, <1>5

LEMMA AppendFive ==
    ASSUME NEW S, NEW a \in S, NEW b \in S, NEW c \in S, NEW d \in S, NEW e \in S, NEW f \in S
    PROVE  Append(<<a, b, c, d, e>>, f) = <<a, b, c, d, e, f>>
<1>0. \A x0, x1, x2, x3, x4 \in S : <<x0, x1, x2, x3, x4>> \in Seq(S)
  OBVIOUS
<1>1. PICK s \in Seq(S) : s = <<a, b, c, d, e>>
  BY <1>0
<1>2. Len(s) = 5 /\ s[1] = a /\ s[2] = b /\ s[3] = c /\ s[4] = d /\ s[5] = e
  BY <1>1
<1>3. PICK t \in Seq(S) : t = Append(s, f)
  BY AppendProperties
<1>4. Len(t) = 6 /\ t[1] = a /\ t[2] = b /\ t[3] = c /\ t[4] = d /\ t[5] = e /\ t[6] = f
  <2>1. /\ Len(t) = Len(s) + 1 /\ t[Len(s) + 1] = f
        /\ \A k \in 1..Len(s) : t[k] = s[k]
    BY <1>3, AppendProperties
  <2>2. Len(s) + 1 = 6 /\ 1 \in 1..Len(s) /\ 2 \in 1..Len(s) /\ 3 \in 1..Len(s) /\ 4 \in 1..Len(s) /\ 5 \in 1..Len(s)
    BY <1>2
  <2> QED
    BY <1>2, <2>1, <2>2
<1>5. t = <<a, b, c, d, e, f>>
  BY <1>4
<1> QED
  BY <1>1, <1>3, <1>5

LEMMA TwoSymbols ==
    ASSUME NEW S, NEW a \in S, NEW b \in S
    PROVE  <<a>> \in Seq(S) /\ <<b>> \in Seq(S) /\ <<a>> \o <<b>> = <<a, b>>
<1>1. \A x \in S : <<x>> \in Seq(S)
  OBVIOUS
<1>2. \A x \in Seq(S), y \in S : x \o <<y>> = Append(x, y)
  OBVIOUS
<1> QED
  BY <1>1, <1>2, AppendOne

LEMMA LastTyped ==
    ASSUME NEW S, NEW parts \in Seq(Seq(S)), NEW t \in Seq(S)
    PROVE  /\ LastExtended(parts, t) \in Seq(Seq(S))
           /\ Len(LastExtended(parts, t)) = Len(parts)
           /\ \A k \in 1..Len(parts) : LastExtended(parts, t)[k]
                = IF k = Len(parts) THEN parts[k] \o t ELSE parts[k]
<1>1. PICK n \in Nat : n = Len(parts)
  OBVIOUS
<1>2. \A k \in 1..n : parts[k] \in Seq(S) /\ parts[k] \o t \in Seq(S)
  <2>1. \A k \in 1..n : parts[k] \in Seq(S)
    BY <1>1
  <2>2. \A x \in Seq(S) : x \o t \in Seq(S)
    BY ConcatConsists
  <2> QED
    BY <2>1, <2>2
<1>3. LastExtended(parts, t) = [k \in 1..n |-> IF k = n THEN parts[k] \o t ELSE parts[k]]
  BY <1>1 DEF LastExtended
<1>4. [k \in 1..n |-> IF k = n THEN parts[k] \o t ELSE parts[k]] \in [1..n -> Seq(S)]
  BY <1>2
<1>5. LastExtended(parts, t) \in Seq(Seq(S)) /\ Len(LastExtended(parts, t)) = n
  BY <1>3, <1>4
<1>6. \A k \in 1..n : LastExtended(parts, t)[k] = IF k = n THEN parts[k] \o t ELSE parts[k]
  BY <1>3
<1> QED
  BY <1>1, <1>5, <1>6

LEMMA LastTwice ==
    ASSUME NEW S, NEW parts \in Seq(Seq(S)), NEW a \in Seq(S), NEW b \in Seq(S)
    PROVE  LastExtended(LastExtended(parts, a), b) = LastExtended(parts, a \o b)
<1>1. PICK n \in Nat : n = Len(parts)
  OBVIOUS
<1>2. PICK p \in Seq(Seq(S)) : p = LastExtended(parts, a)
  BY LastTyped
<1>3. Len(p) = n /\ \A k \in 1..n : p[k] = IF k = n THEN parts[k] \o a ELSE parts[k]
  BY <1>1, <1>2, LastTyped
<1>4. PICK q \in Seq(Seq(S)) : q = LastExtended(p, b)
  BY LastTyped
<1>5. Len(q) = n /\ \A k \in 1..n : q[k] = IF k = n THEN p[k] \o b ELSE p[k]
  BY <1>3, <1>4, LastTyped
<1>6. PICK ab \in Seq(S) : ab = a \o b
  BY ConcatConsists
<1>7. PICK r \in Seq(Seq(S)) : r = LastExtended(parts, ab)
  BY LastTyped
<1>8. Len(r) = n /\ \A k \in 1..n : r[k] = IF k = n THEN parts[k] \o ab ELSE parts[k]
  BY <1>1, <1>7, LastTyped
<1>9. ASSUME NEW k \in 1..n PROVE q[k] = r[k]
  <2>1. CASE k = n
    <3>1. PICK x \in Seq(S) : x = parts[k]
      BY <1>1
    <3>2. q[k] = (x \o a) \o b
      BY <1>3, <1>5, <2>1, <3>1
    <3>3. (x \o a) \o b = x \o (a \o b)
      <4>1. Associates(x, a, b)
        BY Associative
      <4> QED
        BY <4>1 DEF Associates
    <3>4. r[k] = x \o ab
      BY <1>8, <2>1, <3>1
    <3> QED
      BY <1>6, <3>2, <3>3, <3>4
  <2>2. CASE k # n
    BY <1>3, <1>5, <1>8, <2>2
  <2> QED
    BY <2>1, <2>2
<1>10. q = r
  BY <1>5, <1>8, <1>9, SeqEqual
<1> QED
  BY <1>2, <1>4, <1>6, <1>7, <1>10

LEMMA LastNothing ==
    ASSUME NEW S, NEW parts \in Seq(Seq(S))
    PROVE  LastExtended(parts, <<>>) = parts
<1>1. PICK n \in Nat : n = Len(parts)
  OBVIOUS
<1>2. PICK t \in Seq(S) : t = <<>>
  BY NoSymbols
<1>3. PICK p \in Seq(Seq(S)) : p = LastExtended(parts, t)
  BY LastTyped
<1>4. Len(p) = n /\ \A k \in 1..n : p[k] = IF k = n THEN parts[k] \o t ELSE parts[k]
  BY <1>1, <1>3, LastTyped
<1>5. \A k \in 1..n : parts[k] \in Seq(S)
  BY <1>1
<1>6. ASSUME NEW k \in 1..n PROVE p[k] = parts[k]
  <2>1. parts[k] \o t = parts[k]
    BY <1>2, <1>5, NothingAfter
  <2> QED
    BY <1>4, <2>1
<1>7. p = parts
  BY <1>1, <1>4, <1>6, SeqEqual
<1> QED
  BY <1>2, <1>3, <1>7

LEMMA LastOfNew ==
    ASSUME NEW S, NEW parts \in Seq(Seq(S)), NEW t \in Seq(S)
    PROVE  LastExtended(Append(parts, <<>>), t) = Append(parts, t)
<1>1. PICK n \in Nat : n = Len(parts)
  OBVIOUS
<1>2. PICK o \in Seq(S) : o = <<>>
  BY NoSymbols
<1>3. PICK p \in Seq(Seq(S)) : p = Append(parts, o)
  BY AppendProperties
<1>4. Len(p) = n + 1 /\ p[n + 1] = o /\ \A k \in 1..n : p[k] = parts[k]
  BY <1>1, <1>3, AppendProperties
<1>5. PICK q \in Seq(Seq(S)) : q = LastExtended(p, t)
  BY LastTyped
<1>6. Len(q) = n + 1 /\ \A k \in 1..(n + 1) : q[k] = IF k = n + 1 THEN p[k] \o t ELSE p[k]
  <2>0. PICK l \in Nat : l = Len(p)
    OBVIOUS
  <2>1. l = n + 1
    BY <1>4, <2>0
  <2>2. Len(q) = l /\ \A k \in 1..l : q[k] = IF k = l THEN p[k] \o t ELSE p[k]
    BY <1>5, <2>0, LastTyped
  <2> QED
    BY <2>1, <2>2
<1>7. PICK r \in Seq(Seq(S)) : r = Append(parts, t)
  BY AppendProperties
<1>8. Len(r) = n + 1 /\ r[n + 1] = t /\ \A k \in 1..n : r[k] = parts[k]
  BY <1>1, <1>7, AppendProperties
<1>9. <<>> \o t = t
  OBVIOUS
<1>10. ASSUME NEW k \in 1..(n + 1) PROVE q[k] = r[k]
  <2>1. CASE k = n + 1
    BY <1>2, <1>4, <1>6, <1>8, <1>9, <2>1
  <2>2. CASE k \in 1..n
    BY <1>4, <1>6, <1>8, <2>2
  <2> QED
    BY <2>1, <2>2
<1>11. q = r
  BY <1>6, <1>8, <1>10, SeqEqual
<1> QED
  BY <1>2, <1>3, <1>5, <1>7, <1>11

\* Read where nothing is escaped, t only extends the last part, and leaves nothing open.
Inert(t, d) ==
    \A j \in Seq(Symbols) :
        ~Open(j) => /\ ~Open(j \o t)
                    /\ SplitEscaped(j \o t, d) = LastExtended(SplitEscaped(j, d), t)

LEMMA InertNothing ==
    ASSUME NEW d
    PROVE  Inert(<<>>, d)
<1> SUFFICES ASSUME NEW j \in Seq(Symbols), ~Open(j)
             PROVE  /\ ~Open(j \o <<>>)
                    /\ SplitEscaped(j \o <<>>, d) = LastExtended(SplitEscaped(j, d), <<>>)
  BY DEF Inert
<1>1. j \o <<>> = j
  OBVIOUS
<1>2. LastExtended(SplitEscaped(j, d), <<>>) = SplitEscaped(j, d)
  BY SplitTyped, LastNothing
<1> QED
  BY <1>1, <1>2

LEMMA InertConcat ==
    ASSUME NEW d, NEW a \in Seq(Symbols), NEW b \in Seq(Symbols), Inert(a, d), Inert(b, d)
    PROVE  Inert(a \o b, d)
<1> SUFFICES ASSUME NEW j \in Seq(Symbols), ~Open(j)
             PROVE  /\ ~Open(j \o (a \o b))
                    /\ SplitEscaped(j \o (a \o b), d) = LastExtended(SplitEscaped(j, d), a \o b)
  BY DEF Inert
<1>1. (j \o a) \o b = j \o (a \o b)
  BY ConcatAssociative
<1>2. PICK ja \in Seq(Symbols) : ja = j \o a
  BY ConcatConsists
<1>3. ~Open(ja) /\ SplitEscaped(ja, d) = LastExtended(SplitEscaped(j, d), a)
  BY <1>2 DEF Inert
<1>4. ~Open(ja \o b) /\ SplitEscaped(ja \o b, d) = LastExtended(SplitEscaped(ja, d), b)
  BY <1>3 DEF Inert
<1>5. LastExtended(LastExtended(SplitEscaped(j, d), a), b) = LastExtended(SplitEscaped(j, d), a \o b)
  BY SplitTyped, LastTwice
<1> QED
  BY <1>1, <1>2, <1>3, <1>4, <1>5

\* Every symbol but the delimiter and the backslash is inert.
LEMMA InertSymbol ==
    ASSUME NEW d, NEW c \in Symbols, c # d, c # Backslash
    PROVE  Inert(<<c>>, d)
<1> SUFFICES ASSUME NEW j \in Seq(Symbols), ~Open(j)
             PROVE  /\ ~Open(j \o <<c>>)
                    /\ SplitEscaped(j \o <<c>>, d) = LastExtended(SplitEscaped(j, d), <<c>>)
  BY DEF Inert
<1>1. j \o <<c>> = Append(j, c)
  OBVIOUS
<1>2. ~Open(Append(j, c))
  BY OpenAppend
<1>3. SplitEscaped(Append(j, c), d) = LastExtended(SplitEscaped(j, d), <<c>>)
  BY SplitAppend
<1> QED
  BY <1>1, <1>2, <1>3

\* So is every escape.
LEMMA InertEscape ==
    ASSUME NEW d, NEW c \in Symbols, Backslash # d
    PROVE  Inert(<<Backslash, c>>, d)
<1> SUFFICES ASSUME NEW j \in Seq(Symbols), ~Open(j)
             PROVE  /\ ~Open(j \o <<Backslash, c>>)
                    /\ SplitEscaped(j \o <<Backslash, c>>, d)
                         = LastExtended(SplitEscaped(j, d), <<Backslash, c>>)
  BY DEF Inert
<1>0. Backslash \in Symbols
  BY DEF Symbols, Special
<1>1. PICK k \in Seq(Symbols) : k = Append(j, Backslash)
  BY <1>0, AppendProperties
<1>2. j \o <<Backslash, c>> = Append(k, c)
  BY <1>0, <1>1
<1>3. Open(k)
  BY <1>0, <1>1, OpenAppend
<1>4. SplitEscaped(k, d) = LastExtended(SplitEscaped(j, d), <<Backslash>>)
  BY <1>0, <1>1, SplitAppend
<1>5. ~Open(Append(k, c))
  BY <1>3, OpenAppend
<1>6. SplitEscaped(Append(k, c), d) = LastExtended(SplitEscaped(k, d), <<c>>)
  BY <1>3, SplitAppend
<1>7. LastExtended(LastExtended(SplitEscaped(j, d), <<Backslash>>), <<c>>)
        = LastExtended(SplitEscaped(j, d), <<Backslash, c>>)
  <2>1. <<Backslash>> \in Seq(Symbols) /\ <<c>> \in Seq(Symbols)
        /\ <<Backslash>> \o <<c>> = <<Backslash, c>>
    BY <1>0, TwoSymbols
  <2>2. PICK parts \in Seq(Seq(Symbols)) : parts = SplitEscaped(j, d)
    BY SplitTyped
  <2>3. LastExtended(LastExtended(parts, <<Backslash>>), <<c>>)
          = LastExtended(parts, <<Backslash>> \o <<c>>)
    <3>1. PICK x \in Seq(Symbols), y \in Seq(Symbols) : x = <<Backslash>> /\ y = <<c>>
      BY <2>1
    <3>2. LastExtended(LastExtended(parts, x), y) = LastExtended(parts, x \o y)
      BY LastTwice
    <3> QED
      BY <3>1, <3>2
  <2> QED
    BY <2>1, <2>2, <2>3
<1> QED
  BY <1>2, <1>4, <1>5, <1>6, <1>7

\* The characters at which the protocol splits.
Delimiters == {Space, Bar}

LEMMA DelimiterFacts ==
    ASSUME NEW d \in Delimiters
    PROVE  d \in Special /\ d \in Symbols /\ d # Backslash /\ Backslash # d
BY DEF Delimiters, Special, Symbols, Space, Bar, Backslash

LEMMA InertCode ==
    ASSUME NEW d \in Delimiters, NEW c \in Symbols
    PROVE  Inert(Code(c), d)
<1>1. CASE c \in Special
  <2>1. EscapeOf[c] \in Symbols
    BY <1>1 DEF EscapeOf, Symbols, Special, LineFeed, Return, Backslash, Space, Bar
  <2>2. Inert(<<Backslash, EscapeOf[c]>>, d)
    BY <2>1, DelimiterFacts, InertEscape
  <2> QED
    BY <1>1, <2>2 DEF Code
<1>2. CASE c \notin Special
  <2>1. c # d /\ c # Backslash
    <3>1. Backslash \in Special
      BY DEF Special
    <3> QED
      BY <1>2, <3>1, DelimiterFacts
  <2>2. Inert(<<c>>, d)
    BY <2>1, InertSymbol
  <2> QED
    BY <1>2, <2>2 DEF Code
<1> QED
  BY <1>1, <1>2

\* No symbol of an escaped text is read as a delimiter.
LEMMA InertEncoded ==
    ASSUME NEW d \in Delimiters
    PROVE  \A v \in Seq(Symbols) : Inert(EncodeEscapes(v), d)
<1> DEFINE G == {v \in Seq(Symbols) : Inert(EncodeEscapes(v), d)}
<1>1. <<>> \in G
  BY NoSymbols, EncodeEmpty, InertNothing
<1>2. ASSUME NEW v \in Seq(Symbols), NEW c \in Symbols, v \in G PROVE Append(v, c) \in G
  <2>1. Inert(EncodeEscapes(v), d)
    BY <1>2
  <2>2. Inert(EncodeEscapes(v) \o Code(c), d)
    BY <2>1, EncodeTyped, CodeTyped, InertCode, InertConcat
  <2>3. Inert(EncodeEscapes(Append(v, c)), d)
    BY <2>2, EncodeAppend
  <2> QED
    BY <2>3, AppendProperties
<1> HIDE DEF G
<1>3. \A v \in Seq(Symbols) : v \in G
  BY <1>1, <1>2, TextInduction
<1> QED
  BY <1>3 DEF G

LEMMA SplitOne ==
    ASSUME NEW d, NEW t \in Seq(Symbols), Inert(t, d)
    PROVE  ~Open(t) /\ SplitEscaped(t, d) = <<t>>
<1>1. PICK o \in Seq(Symbols) : o = <<>>
  BY NoSymbols
<1>2. ~Open(o \o t) /\ SplitEscaped(o \o t, d) = LastExtended(SplitEscaped(o, d), t)
  BY <1>1, OpenEmpty DEF Inert
<1>3. o \o t = t
  BY <1>1
<1>4. SplitEscaped(o, d) = <<<<>>>>
  BY <1>1, SplitEmpty
<1>5. LastExtended(<<<<>>>>, t) = <<t>>
  <2>1. PICK n \in Seq(Seq(Symbols)) : n = <<>>
    BY NoSymbols
  <2>2. LastExtended(Append(n, <<>>), t) = Append(n, t)
    BY LastOfNew
  <2>3. Append(<<>>, t) = <<t>> /\ Append(<<>>, <<>>) = <<<<>>>>
    OBVIOUS
  <2> QED
    BY <2>1, <2>2, <2>3
<1> QED
  BY <1>2, <1>3, <1>4, <1>5

\* After a delimiter, an inert text is a part of its own.
LEMMA SplitMore ==
    ASSUME NEW d \in Delimiters, NEW j \in Seq(Symbols), ~Open(j),
           NEW t \in Seq(Symbols), Inert(t, d)
    PROVE  /\ Append(j, d) \o t \in Seq(Symbols) /\ ~Open(Append(j, d) \o t)
           /\ SplitEscaped(Append(j, d) \o t, d) = Append(SplitEscaped(j, d), t)
<1>1. PICK k \in Seq(Symbols) : k = Append(j, d)
  BY DelimiterFacts, AppendProperties
<1>2. ~Open(k)
  BY <1>1, DelimiterFacts, OpenAppend
<1>3. SplitEscaped(k, d) = Append(SplitEscaped(j, d), <<>>)
  BY <1>1, DelimiterFacts, SplitAppend
<1>4. ~Open(k \o t) /\ SplitEscaped(k \o t, d) = LastExtended(SplitEscaped(k, d), t)
  BY <1>2 DEF Inert
<1>5. LastExtended(Append(SplitEscaped(j, d), <<>>), t) = Append(SplitEscaped(j, d), t)
  BY SplitTyped, LastOfNew
<1>6. k \o t \in Seq(Symbols)
  BY ConcatConsists
<1> QED
  BY <1>1, <1>3, <1>4, <1>5, <1>6

-----------------------------------------------------------------------------
(* Lists *)

Encodes(list) == [k \in DOMAIN list |-> EncodeEscapes(list[k])]
Item(k, x) == (IF k > 1 THEN <<Bar>> ELSE <<>>) \o EncodeEscapes(x)

LEMMA ItemTyped ==
    ASSUME NEW k \in Nat, NEW x \in Seq(Symbols)
    PROVE  Item(k, x) \in Seq(Symbols)
<1>1. \A c \in Symbols : <<c>> \in Seq(Symbols)
  OBVIOUS
<1>2. <<Bar>> \in Seq(Symbols) /\ <<>> \in Seq(Symbols)
  BY <1>1, NoSymbols DEF Symbols, Special
<1>3. EncodeEscapes(x) \in Seq(Symbols)
  BY EncodeTyped
<1> QED
  BY <1>2, <1>3, ConcatConsists DEF Item

LEMMA EncodesIs ==
    ASSUME NEW list \in Seq(Seq(Symbols))
    PROVE  /\ Encodes(list) \in Seq(Seq(Symbols)) /\ Len(Encodes(list)) = Len(list)
           /\ \A k \in 1..Len(list) : Encodes(list)[k] = EncodeEscapes(list[k])
<1>1. \A k \in 1..Len(list) : EncodeEscapes(list[k]) \in Seq(Symbols)
  BY EncodeTyped
<1>2. PICK n \in Nat : n = Len(list)
  OBVIOUS
<1>3. Encodes(list) = [k \in 1..n |-> EncodeEscapes(list[k])]
  BY <1>2 DEF Encodes
<1>4. [k \in 1..n |-> EncodeEscapes(list[k])] \in [1..n -> Seq(Symbols)]
  BY <1>1, <1>2
<1>5. Encodes(list) \in Seq(Seq(Symbols)) /\ Len(Encodes(list)) = n
  BY <1>3, <1>4
<1>6. \A k \in 1..n : Encodes(list)[k] = EncodeEscapes(list[k])
  BY <1>3
<1> QED
  BY <1>2, <1>5, <1>6

LEMMA EncodesAppend ==
    ASSUME NEW list \in Seq(Seq(Symbols)), NEW x \in Seq(Symbols)
    PROVE  Encodes(Append(list, x)) = Append(Encodes(list), EncodeEscapes(x))
<1>1. PICK n \in Nat : n = Len(list)
  OBVIOUS
<1>2. PICK w \in Seq(Seq(Symbols)) : w = Append(list, x)
  BY AppendProperties
<1>3. Len(w) = n + 1 /\ w[n + 1] = x /\ \A k \in 1..n : w[k] = list[k]
  BY <1>1, <1>2, AppendProperties
<1>4. PICK p \in Seq(Seq(Symbols)) : p = Encodes(list)
  BY EncodesIs
<1>5. Len(p) = n /\ \A k \in 1..n : p[k] = EncodeEscapes(list[k])
  BY <1>1, <1>4, EncodesIs
<1>6. PICK y \in Seq(Symbols) : y = EncodeEscapes(x)
  BY EncodeTyped
<1>7. PICK q \in Seq(Seq(Symbols)) : q = Append(p, y)
  BY AppendProperties
<1>8. Len(q) = n + 1 /\ q[n + 1] = y /\ \A k \in 1..n : q[k] = p[k]
  BY <1>5, <1>7, AppendProperties
<1>9. PICK r \in Seq(Seq(Symbols)) : r = Encodes(w)
  BY EncodesIs
<1>10. Len(r) = n + 1 /\ \A k \in 1..(n + 1) : r[k] = EncodeEscapes(w[k])
  <2>1. Len(r) = Len(w) /\ \A k \in 1..Len(w) : r[k] = EncodeEscapes(w[k])
    BY <1>9, EncodesIs
  <2> QED
    BY <1>3, <2>1
<1>11. ASSUME NEW k \in 1..(n + 1) PROVE r[k] = q[k]
  <2>1. CASE k = n + 1
    BY <1>3, <1>6, <1>8, <1>10, <2>1
  <2>2. CASE k \in 1..n
    BY <1>3, <1>5, <1>8, <1>10, <2>2
  <2> QED
    BY <2>1, <2>2
<1>12. r = q
  BY <1>8, <1>10, <1>11, SeqEqual
<1> QED
  BY <1>2, <1>4, <1>6, <1>7, <1>9, <1>12

\* encodeList writes one item after the other.
LEMMA EncodeListAppend ==
    ASSUME NEW list \in Seq(Seq(Symbols)), NEW x \in Seq(Symbols)
    PROVE  EncodeList(Append(list, x)) = EncodeList(list) \o Item(Len(list) + 1, x)
<1> DEFINE Items(l) == [k \in DOMAIN l |-> Item(k, l[k])]
<1>1. \A l \in Seq(Seq(Symbols)) : EncodeList(l) = FlattenSeq(Items(l))
  BY DEF EncodeList, Item
<1>2. PICK w \in Seq(Seq(Symbols)) : w = Append(list, x)
  BY AppendProperties
<1>3. PICK n \in Nat : n = Len(list)
  OBVIOUS
<1>4. Len(w) = n + 1 /\ w[n + 1] = x /\ \A k \in 1..n : w[k] = list[k]
  BY <1>2, <1>3, AppendProperties
<1>5. ASSUME NEW l \in Seq(Seq(Symbols))
      PROVE  /\ Items(l) \in Seq(Seq(Symbols)) /\ Len(Items(l)) = Len(l)
             /\ \A k \in 1..Len(l) : Items(l)[k] = Item(k, l[k])
  <2>1. \A k \in 1..Len(l) : Item(k, l[k]) \in Seq(Symbols)
    <3>1. \A k \in 1..Len(l) : k \in Nat /\ l[k] \in Seq(Symbols)
      OBVIOUS
    <3> QED
      BY <3>1, ItemTyped
  <2>2. PICK m \in Nat : m = Len(l)
    OBVIOUS
  <2>3. Items(l) = [k \in 1..m |-> Item(k, l[k])]
    BY <2>2
  <2> HIDE DEF Items
  <2>4. [k \in 1..m |-> Item(k, l[k])] \in [1..m -> Seq(Symbols)]
    BY <2>1, <2>2
  <2>5. Items(l) \in Seq(Seq(Symbols)) /\ Len(Items(l)) = m
    BY <2>3, <2>4
  <2>6. \A k \in 1..m : Items(l)[k] = Item(k, l[k])
    BY <2>3
  <2> QED
    BY <2>2, <2>5, <2>6
<1> HIDE DEF Items
<1>6. PICK y \in Seq(Symbols) : y = Item(n + 1, x)
  <2>1. n + 1 \in Nat
    OBVIOUS
  <2> QED
    BY <2>1, ItemTyped
<1>7. PICK p \in Seq(Seq(Symbols)) : p = Items(list)
  BY <1>5
<1>8. Len(p) = n /\ \A k \in 1..n : p[k] = Item(k, list[k])
  BY <1>3, <1>5, <1>7
<1>9. PICK q \in Seq(Seq(Symbols)) : q = Append(p, y)
  BY AppendProperties
<1>10. Len(q) = n + 1 /\ q[n + 1] = y /\ \A k \in 1..n : q[k] = p[k]
  BY <1>8, <1>9, AppendProperties
<1>11. PICK r \in Seq(Seq(Symbols)) : r = Items(w)
  BY <1>5
<1>12. Len(r) = n + 1 /\ \A k \in 1..(n + 1) : r[k] = Item(k, w[k])
  <2>1. Len(r) = Len(w) /\ \A k \in 1..Len(w) : r[k] = Item(k, w[k])
    BY <1>5, <1>11
  <2> QED
    BY <1>4, <2>1
<1>13. ASSUME NEW k \in 1..(n + 1) PROVE r[k] = q[k]
  <2>1. CASE k = n + 1
    BY <1>4, <1>6, <1>10, <1>12, <2>1
  <2>2. CASE k \in 1..n
    BY <1>4, <1>8, <1>10, <1>12, <2>2
  <2> QED
    BY <2>1, <2>2
<1>14. r = q
  BY <1>10, <1>12, <1>13, SeqEqual
<1>15. FlattenSeq(Append(p, y)) = FlattenSeq(p) \o y
  BY FlattenAppend
<1> QED
  BY <1>1, <1>2, <1>3, <1>6, <1>7, <1>9, <1>11, <1>14, <1>15

LEMMA EncodeListEmpty == EncodeList(<<>>) = <<>>
<1>1. [k \in DOMAIN <<>> |-> (IF k > 1 THEN <<Bar>> ELSE <<>>) \o EncodeEscapes(<<>>[k])] = <<>>
  OBVIOUS
<1> QED
  BY <1>1, FlattenEmpty DEF EncodeList

LEMMA EncodeListTyped ==
    \A list \in Seq(Seq(Symbols)) : EncodeList(list) \in Seq(Symbols)
<1> DEFINE G == {list \in Seq(Seq(Symbols)) : EncodeList(list) \in Seq(Symbols)}
<1>1. <<>> \in G
  BY NoSymbols, EncodeListEmpty
<1>2. ASSUME NEW list \in Seq(Seq(Symbols)), NEW x \in Seq(Symbols), list \in G
      PROVE  Append(list, x) \in G
  <2>1. PICK k \in Nat : k = Len(list) + 1
    OBVIOUS
  <2>2. EncodeList(list) \o Item(k, x) \in Seq(Symbols)
    BY <1>2, ItemTyped, ConcatConsists
  <2>3. EncodeList(Append(list, x)) \in Seq(Symbols)
    BY <2>1, <2>2, EncodeListAppend
  <2> QED
    BY <2>3, AppendProperties
<1> HIDE DEF G
<1>3. \A list \in Seq(Seq(Symbols)) : list \in G
  BY <1>1, <1>2, TextInduction
<1> QED
  BY <1>3 DEF G

\* A list is one field of a line: no symbol of it is read as a space.
LEMMA InertList ==
    \A list \in Seq(Seq(Symbols)) : Inert(EncodeList(list), Space)
<1> DEFINE G == {list \in Seq(Seq(Symbols)) : Inert(EncodeList(list), Space)}
<1>0. Space \in Delimiters /\ Bar \in Symbols /\ Bar # Space /\ Bar # Backslash
  BY DEF Delimiters, Symbols, Special, Space, Bar, Backslash
<1>1. <<>> \in G
  BY NoSymbols, EncodeListEmpty, InertNothing
<1>2. ASSUME NEW list \in Seq(Seq(Symbols)), NEW x \in Seq(Symbols), list \in G
      PROVE  Append(list, x) \in G
  <2>1. PICK k \in Nat : k = Len(list) + 1
    OBVIOUS
  <2>2. Inert(Item(k, x), Space)
    <3>1. PICK bar \in Seq(Symbols) : bar = IF k > 1 THEN <<Bar>> ELSE <<>>
      <4>1. \A c \in Symbols : <<c>> \in Seq(Symbols)
        OBVIOUS
      <4> QED
        BY <1>0, <4>1, NoSymbols
    <3>2. Inert(bar, Space)
      BY <1>0, <3>1, InertSymbol, InertNothing
    <3>3. Inert(EncodeEscapes(x), Space) /\ EncodeEscapes(x) \in Seq(Symbols)
      BY <1>0, InertEncoded, EncodeTyped
    <3>4. Inert(bar \o EncodeEscapes(x), Space)
      BY <3>2, <3>3, InertConcat
    <3> QED
      BY <3>1, <3>4 DEF Item
  <2>3. Inert(EncodeList(list) \o Item(k, x), Space)
    BY <1>2, <2>2, EncodeListTyped, ItemTyped, InertConcat
  <2>4. Inert(EncodeList(Append(list, x)), Space)
    BY <2>1, <2>3, EncodeListAppend
  <2> QED
    BY <2>4, AppendProperties
<1> HIDE DEF G
<1>3. \A list \in Seq(Seq(Symbols)) : list \in G
  BY <1>1, <1>2, TextInduction
<1> QED
  BY <1>3 DEF G

\* The items of a list are read one by one.
LEMMA ListSplits ==
    \A list \in Seq(Seq(Symbols)) :
        list # <<>> => /\ ~Open(EncodeList(list))
                       /\ SplitEscaped(EncodeList(list), Bar) = Encodes(list)
<1> DEFINE Splits(list) == /\ ~Open(EncodeList(list))
                           /\ SplitEscaped(EncodeList(list), Bar) = Encodes(list)
           G == {list \in Seq(Seq(Symbols)) : list # <<>> => Splits(list)}
<1>0. Bar \in Delimiters
  BY DEF Delimiters
<1>1. <<>> \in G
  BY NoSymbols
<1>2. ASSUME NEW list \in Seq(Seq(Symbols)), NEW x \in Seq(Symbols), list \in G
      PROVE  Splits(Append(list, x))
  <2>1. PICK n \in Nat : n = Len(list)
    OBVIOUS
  <2>2. PICK t \in Seq(Symbols) : t = EncodeEscapes(x) /\ Inert(t, Bar)
    BY <1>0, EncodeTyped, InertEncoded
  <2>3. EncodeList(Append(list, x)) = EncodeList(list) \o Item(n + 1, x)
    BY <2>1, EncodeListAppend
  <2>4. Encodes(Append(list, x)) = Append(Encodes(list), t)
    BY <2>2, EncodesAppend
  <2>5. CASE list = <<>>
    <3>1. n + 1 = 1
      BY <2>1, <2>5
    <3>2. Item(1, x) = <<>> \o t
      BY <2>2 DEF Item
    <3>3. <<>> \o (<<>> \o t) = t
      OBVIOUS
    <3>4. EncodeList(Append(list, x)) = t
      BY <2>3, <2>5, <3>1, <3>2, <3>3, EncodeListEmpty
    <3>5. ~Open(t) /\ SplitEscaped(t, Bar) = <<t>>
      BY <2>2, SplitOne
    <3>6. Encodes(list) = <<>>
      <4>1. Encodes(list) \in Seq(Seq(Symbols)) /\ Len(Encodes(list)) = 0
        BY <2>5, EncodesIs
      <4> QED
        BY <4>1, EmptyText
    <3>7. Append(<<>>, t) = <<t>>
      OBVIOUS
    <3> QED
      BY <2>4, <3>4, <3>5, <3>6, <3>7
  <2>6. CASE list # <<>>
    <3>1. n + 1 > 1
      <4>1. n # 0
        BY <2>1, <2>6, EmptyText
      <4> QED
        BY <4>1
    <3>2. PICK j \in Seq(Symbols) : j = EncodeList(list)
      BY EncodeListTyped
    <3>3. ~Open(j) /\ SplitEscaped(j, Bar) = Encodes(list)
      BY <1>2, <2>6, <3>2
    <3>4. Item(n + 1, x) = <<Bar>> \o t
      BY <2>2, <3>1 DEF Item
    <3>5. j \o (<<Bar>> \o t) = Append(j, Bar) \o t
      <4>1. PICK b \in Seq(Symbols) : b = <<Bar>>
        <5>1. \A c \in Symbols : <<c>> \in Seq(Symbols)
          OBVIOUS
        <5> QED
          BY <1>0, <5>1, DelimiterFacts
      <4>2. Associates(j, b, t)
        BY Associative
      <4>3. (j \o b) \o t = j \o (b \o t)
        BY <4>2 DEF Associates
      <4>4. j \o b = Append(j, Bar)
        BY <4>1
      <4> QED
        BY <4>1, <4>3, <4>4
    <3>6. /\ ~Open(Append(j, Bar) \o t)
          /\ SplitEscaped(Append(j, Bar) \o t, Bar) = Append(SplitEscaped(j, Bar), t)
      BY <1>0, <2>2, <3>3, SplitMore
    <3>7. EncodeList(Append(list, x)) = Append(j, Bar) \o t
      BY <2>3, <3>2, <3>4, <3>5
    <3> QED
      BY <2>4, <3>3, <3>6, <3>7
  <2> QED
    BY <2>5, <2>6
<1>3. ASSUME NEW list \in Seq(Seq(Symbols)), NEW x \in Seq(Symbols), list \in G
      PROVE  Append(list, x) \in G
  <2>1. Splits(Append(list, x)) /\ Append(list, x) \in Seq(Seq(Symbols))
    BY <1>2, <1>3, AppendProperties
  <2> HIDE DEF Splits
  <2> QED
    BY <2>1
<1> HIDE DEF G
<1>4. \A list \in Seq(Seq(Symbols)) : list \in G
  BY <1>1, <1>3, TextInduction
<1> QED
  BY <1>4 DEF G

\* What encodeList writes of a list that is not empty, decodeList reads as it was:
\* empty items, bars within items and all.
THEOREM DecodesEncodedList ==
    ASSUME NEW list \in Seq(Seq(Symbols)), list # <<>>
    PROVE  ListDecodable(EncodeList(list)) /\ DecodeList(EncodeList(list)) = list
<1>1. PICK n \in Nat : n = Len(list)
  OBVIOUS
<1>2. PICK p \in Seq(Seq(Symbols)) : p = SplitEscaped(EncodeList(list), Bar) /\ p = Encodes(list)
  BY ListSplits, EncodesIs
<1>3. Len(p) = n /\ DOMAIN p = 1..n /\ \A k \in 1..n : p[k] = EncodeEscapes(list[k])
  BY <1>1, <1>2, EncodesIs
<1>4. \A k \in 1..n : Decodable(p[k]) /\ DecodeEscapes(p[k]) = list[k]
  BY <1>1, <1>3, DecodesEncoded
<1>5. ListDecodable(EncodeList(list))
  BY <1>2, <1>3, <1>4 DEF ListDecodable
<1>6. DecodeList(EncodeList(list)) = [k \in 1..n |-> DecodeEscapes(p[k])]
  BY <1>2, <1>3 DEF DecodeList
<1>7. list = [k \in 1..n |-> list[k]]
  BY <1>1
<1> QED
  BY <1>4, <1>5, <1>6, <1>7

-----------------------------------------------------------------------------
(* Lines *)

\* The symbols that a line holds before it ends.
Plain == Symbols \ {LineFeed, Return}

LEMMA CodePlain ==
    ASSUME NEW c \in Symbols
    PROVE  Code(c) \in Seq(Plain)
<1>1. c \in Special => EscapeOf[c] \in Plain /\ Backslash \in Plain
  BY DEF EscapeOf, Plain, Symbols, Special, LineFeed, Return, Backslash, Space, Bar
<1>2. c \notin Special => c \in Plain
  BY DEF Plain, Special
<1>3. \A a, b \in Plain : <<a, b>> \in Seq(Plain) /\ <<a>> \in Seq(Plain)
  OBVIOUS
<1> QED
  BY <1>1, <1>2, <1>3 DEF Code

LEMMA EncodePlain ==
    \A v \in Seq(Symbols) : EncodeEscapes(v) \in Seq(Plain)
<1> DEFINE G == {v \in Seq(Symbols) : EncodeEscapes(v) \in Seq(Plain)}
<1>1. <<>> \in G
  BY NoSymbols, EncodeEmpty
<1>2. ASSUME NEW v \in Seq(Symbols), NEW c \in Symbols, v \in G PROVE Append(v, c) \in G
  <2>1. EncodeEscapes(v) \o Code(c) \in Seq(Plain)
    BY <1>2, CodePlain, ConcatConsists
  <2> QED
    BY <2>1, EncodeAppend, AppendProperties
<1> HIDE DEF G
<1>3. \A v \in Seq(Symbols) : v \in G
  BY <1>1, <1>2, TextInduction
<1> QED
  BY <1>3 DEF G

LEMMA EncodeListPlain ==
    \A list \in Seq(Seq(Symbols)) : EncodeList(list) \in Seq(Plain)
<1> DEFINE G == {list \in Seq(Seq(Symbols)) : EncodeList(list) \in Seq(Plain)}
<1>1. <<>> \in G
  BY NoSymbols, EncodeListEmpty
<1>2. ASSUME NEW list \in Seq(Seq(Symbols)), NEW x \in Seq(Symbols), list \in G
      PROVE  Append(list, x) \in G
  <2>1. PICK k \in Nat : k = Len(list) + 1
    OBVIOUS
  <2>2. Item(k, x) \in Seq(Plain)
    <3>1. Bar \in Plain
      BY DEF Plain, Symbols, Special, LineFeed, Return, Bar
    <3>2. \A c \in Plain : <<c>> \in Seq(Plain)
      OBVIOUS
    <3>3. (IF k > 1 THEN <<Bar>> ELSE <<>>) \in Seq(Plain)
      BY <3>1, <3>2, NoSymbols
    <3> QED
      BY <3>3, EncodePlain, ConcatConsists DEF Item
  <2>3. EncodeList(list) \o Item(k, x) \in Seq(Plain)
    BY <1>2, <2>2, ConcatConsists
  <2>4. EncodeList(Append(list, x)) \in Seq(Plain)
    BY <2>1, <2>3, EncodeListAppend
  <2> QED
    BY <2>4, AppendProperties
<1> HIDE DEF G
<1>3. \A list \in Seq(Seq(Symbols)) : list \in G
  BY <1>1, <1>2, TextInduction
<1> QED
  BY <1>3 DEF G

\* Nothing is trimmed from a line without line ends.
LEMMA TrimPlain ==
    ASSUME NEW v \in Seq(Plain)
    PROVE  TrimLineEndings(v) = v
<1> DEFINE kept == {k \in DOMAIN v : v[k] \notin {LineFeed, Return}}
<1>1. PICK n \in Nat : n = Len(v)
  OBVIOUS
<1>2. \A k \in 1..n : v[k] \in Plain
  BY <1>1
<1>3. kept = 1..n
  BY <1>1, <1>2 DEF Plain
<1>4. TrimLineEndings(v) = IF kept = {} THEN <<>> ELSE SubSeq(v, 1, Max(kept))
  BY DEF TrimLineEndings
<1> HIDE DEF kept
<1>5. CASE n = 0
  <2>1. v = <<>>
    BY <1>1, <1>5, EmptyText
  <2>2. kept = {}
    BY <1>3, <1>5
  <2> QED
    BY <1>4, <2>1, <2>2
<1>6. CASE n # 0
  <2>1. kept # {} /\ Max(kept) = n
    <3>1. 1..n \in SUBSET Int /\ n \in 1..n /\ \A y \in 1..n : n >= y
      BY <1>6
    <3> QED
      BY <1>3, <3>1, MaxIs
  <2>2. SubSeq(v, 1, n) = v
    <3>1. PICK one \in Nat : one = 1
      OBVIOUS
    <3>2. 1 <= one /\ one <= n + 1 /\ n <= Len(v)
      BY <1>1, <1>6, <3>1
    <3>3. PICK s \in Seq(Plain) : /\ s = SubSeq(v, one, n) /\ Len(s) = n - one + 1
                                  /\ \A k \in 1..(n - one + 1) : s[k] = v[one + k - 1]
      <4>1. /\ SubSeq(v, one, n) \in Seq(Plain) /\ Len(SubSeq(v, one, n)) = n - one + 1
            /\ \A k \in 1..(n - one + 1) : SubSeq(v, one, n)[k] = v[one + k - 1]
        BY <3>2, Slice
      <4> QED
        BY <4>1, Zenon
    <3>4. n - one + 1 = n /\ \A k \in 1..n : one + k - 1 = k
      BY <3>1
    <3>5. s = v
      BY <1>1, <3>3, <3>4, SeqEqual
    <3> QED
      BY <3>1, <3>3, <3>5
  <2> QED
    BY <1>4, <2>1, <2>2
<1> QED
  BY <1>5, <1>6

\* A line begins with a word, a number and a field.
LEMMA LineHead ==
    ASSUME NEW a \in Symbols \ Special, NEW id \in Numbers,
           NEW t \in Seq(Plain), Inert(t, Space)
    PROVE  /\ <<a, Space, id, Space>> \o t \in Seq(Plain)
           /\ ~Open(<<a, Space, id, Space>> \o t)
           /\ SplitEscaped(<<a, Space, id, Space>> \o t, Space) = <<<<a>>, <<id>>, t>>
<1>1. /\ Space \in Delimiters /\ Space \in Plain
      /\ a \in Plain /\ a # Space /\ a # Backslash
  BY DEF Delimiters, Plain, Symbols, Special, LineFeed, Return, Backslash, Space, Bar
<1>2. id \in Symbols /\ id \in Plain /\ id # Space /\ id # Backslash
  <2>1. id \in Symbols /\ id \notin Special
    BY SymbolsAssumption DEF Symbols
  <2> QED
    BY <2>1 DEF Plain, Special
<1>3. \A s \in Seq(Plain) : s \in Seq(Symbols)
  BY DEF Plain
<1>4. \A c \in Plain : <<c>> \in Seq(Plain)
  OBVIOUS
<1>5. Inert(<<a>>, Space) /\ Inert(<<id>>, Space)
  BY <1>1, <1>2, InertSymbol
<1>6. PICK w \in Seq(Symbols) : w = <<a>>
  BY <1>1, <1>3, <1>4
<1>7. ~Open(w) /\ SplitEscaped(w, Space) = <<<<a>>>>
  BY <1>5, <1>6, SplitOne
<1>8. PICK i \in Seq(Symbols) : i = <<id>>
  BY <1>2, <1>3, <1>4
<1>9. PICK x \in Seq(Symbols) : x = Append(w, Space) \o i /\ ~Open(x)
                                /\ SplitEscaped(x, Space) = Append(SplitEscaped(w, Space), i)
  <2>1. Inert(i, Space)
    BY <1>5, <1>8
  <2> QED
    BY <1>1, <1>7, <2>1, SplitMore
<1>10. t \in Seq(Symbols)
  BY <1>3
<1>11. /\ ~Open(Append(x, Space) \o t)
       /\ SplitEscaped(Append(x, Space) \o t, Space) = Append(SplitEscaped(x, Space), t)
  BY <1>1, <1>9, <1>10, SplitMore
<1>12. Append(Append(<<<<a>>>>, <<id>>), t) = <<<<a>>, <<id>>, t>>
  <2>1. <<a>> \in Seq(Symbols) /\ <<id>> \in Seq(Symbols)
    BY <1>6, <1>8
  <2>2. Append(<<<<a>>>>, <<id>>) = <<<<a>>, <<id>>>>
    BY <2>1, AppendOne
  <2>3. Append(<<<<a>>, <<id>>>>, t) = <<<<a>>, <<id>>, t>>
    BY <1>10, <2>1, AppendTwo
  <2> QED
    BY <2>2, <2>3
<1>13. Append(x, Space) = <<a, Space, id, Space>>
  <2>1. Append(<<a>>, Space) = <<a, Space>>
    BY <1>1, AppendOne
  <2>2. Append(<<a, Space>>, id) = <<a, Space, id>>
    BY <1>1, <1>2, AppendTwo
  <2>3. Append(<<a, Space, id>>, Space) = <<a, Space, id, Space>>
    BY <1>1, <1>2, AppendThree
  <2>4. PICK y \in Seq(Symbols) : y = Append(w, Space)
    BY <1>1, DelimiterFacts, AppendProperties
  <2>5. y \o <<id>> = Append(y, id)
    BY <1>2
  <2> QED
    BY <1>6, <1>8, <1>9, <2>1, <2>2, <2>3, <2>4, <2>5
<1>14. <<a, Space, id, Space>> \in Seq(Plain)
  BY <1>1, <1>2
<1>15. SplitEscaped(Append(x, Space) \o t, Space) = <<<<a>>, <<id>>, t>>
  BY <1>7, <1>8, <1>9, <1>11, <1>12
<1> QED
  BY <1>11, <1>13, <1>14, <1>15, ConcatConsists

\* It may go on with a list.
LEMMA LineTail ==
    ASSUME NEW w \in Seq(Plain), ~Open(w), NEW list \in Seq(Seq(Symbols))
    PROVE  /\ w \o (<<Space>> \o EncodeList(list)) \in Seq(Plain)
           /\ SplitEscaped(w \o (<<Space>> \o EncodeList(list)), Space)
                = Append(SplitEscaped(w, Space), EncodeList(list))
<1>1. Space \in Delimiters /\ Space \in Plain
  BY DEF Delimiters, Plain, Symbols, Special, LineFeed, Return, Space
<1>2. \A s \in Seq(Plain) : s \in Seq(Symbols)
  BY DEF Plain
<1>3. PICK t \in Seq(Plain) : t = EncodeList(list) /\ Inert(t, Space)
  BY EncodeListPlain, InertList
<1>4. PICK b \in Seq(Plain) : b = <<Space>>
  <2>1. \A c \in Plain : <<c>> \in Seq(Plain)
    OBVIOUS
  <2> QED
    BY <1>1, <2>1
<1>5. w \o (b \o t) = Append(w, Space) \o t
  <2>1. Associates(w, b, t)
    BY Associative
  <2>2. (w \o b) \o t = w \o (b \o t)
    BY <2>1 DEF Associates
  <2>3. w \o b = Append(w, Space)
    BY <1>4
  <2> QED
    BY <2>2, <2>3
<1>6. w \in Seq(Symbols) /\ t \in Seq(Symbols)
  BY <1>2
<1>7. SplitEscaped(Append(w, Space) \o t, Space) = Append(SplitEscaped(w, Space), t)
  BY <1>1, <1>3, <1>6, SplitMore
<1>8. w \o (b \o t) \in Seq(Plain)
  <2>1. b \o t \in Seq(Plain)
    BY ConcatConsists
  <2> QED
    BY <2>1, ConcatConsists
<1> QED
  BY <1>3, <1>4, <1>5, <1>7, <1>8

-----------------------------------------------------------------------------
(* Messages *)

\* The fields of a line, and how the last one is written.
Fields(a, id, t, list) ==
    IF list = <<>> THEN <<<<a>>, <<id>>, t>> ELSE <<<<a>>, <<id>>, t, EncodeList(list)>>
LastField(list) == IF list = <<>> THEN <<>> ELSE <<Space>> \o EncodeList(list)
Line(a, id, t, list) == (<<a, Space, id, Space>> \o t) \o LastField(list)

\* A line is split into its fields.
LEMMA LineFields ==
    ASSUME NEW a \in Symbols \ Special, NEW id \in Numbers,
           NEW t \in Seq(Plain), Inert(t, Space), NEW list \in Seq(Seq(Symbols))
    PROVE  /\ Line(a, id, t, list) \in Seq(Plain)
           /\ SplitEscaped(TrimLineEndings(Line(a, id, t, list)), Space)
                = Fields(a, id, t, list)
<1>1. PICK w \in Seq(Plain) : /\ w = <<a, Space, id, Space>> \o t /\ ~Open(w)
                              /\ SplitEscaped(w, Space) = <<<<a>>, <<id>>, t>>
  BY LineHead
<1>2. Line(a, id, t, list) = w \o LastField(list)
  BY <1>1 DEF Line
<1>3. CASE list = <<>>
  <2>1. Line(a, id, t, list) = w
    BY <1>2, <1>3 DEF LastField
  <2>2. TrimLineEndings(w) = w
    BY TrimPlain
  <2> QED
    BY <1>1, <1>3, <2>1, <2>2 DEF Fields
<1>4. CASE list # <<>>
  <2>1. PICK x \in Seq(Plain) : /\ x = w \o (<<Space>> \o EncodeList(list))
                                /\ SplitEscaped(x, Space)
                                     = Append(SplitEscaped(w, Space), EncodeList(list))
    BY <1>1, LineTail
  <2>2. Line(a, id, t, list) = x
    BY <1>2, <1>4, <2>1 DEF LastField
  <2>3. TrimLineEndings(x) = x
    BY TrimPlain
  <2>4. Append(<<<<a>>, <<id>>, t>>, EncodeList(list)) = <<<<a>>, <<id>>, t, EncodeList(list)>>
    <3>1. \A c \in Symbols : <<c>> \in Seq(Symbols)
      OBVIOUS
    <3>2. <<a>> \in Seq(Symbols) /\ <<id>> \in Seq(Symbols)
      BY <3>1 DEF Symbols
    <3>3. t \in Seq(Symbols)
      BY DEF Plain
    <3>4. EncodeList(list) \in Seq(Symbols)
      BY EncodeListTyped
    <3>5. PICK p, q, y \in Seq(Symbols) : p = <<a>> /\ q = <<id>> /\ y = EncodeList(list)
      BY <3>2, <3>4
    <3>6. Append(<<p, q, t>>, y) = <<p, q, t, y>>
      BY <3>3, AppendThree
    <3> QED
      BY <3>5, <3>6
  <2> QED
    BY <1>1, <1>4, <2>1, <2>2, <2>3, <2>4 DEF Fields
<1> QED
  BY <1>3, <1>4

LEMMA FieldsAre ==
    ASSUME NEW a, NEW id, NEW t, NEW list
    PROVE  /\ Fields(a, id, t, list)[1] = <<a>>
           /\ Fields(a, id, t, list)[2] = <<id>>
           /\ Fields(a, id, t, list)[3] = t
           /\ list = <<>> => Len(Fields(a, id, t, list)) = 3
           /\ list # <<>> => /\ Len(Fields(a, id, t, list)) = 4
                             /\ Fields(a, id, t, list)[4] = EncodeList(list)
<1>1. CASE list = <<>>
  BY <1>1 DEF Fields
<1>2. CASE list # <<>>
  BY <1>2 DEF Fields
<1> QED
  BY <1>1, <1>2

\* The last field gives the parameters back.
LEMMA ParametersRead ==
    ASSUME NEW a, NEW id, NEW t, NEW list \in Seq(Seq(Symbols)),
           NEW parts, parts = Fields(a, id, t, list)
    PROVE  ParametersDecodable(parts) /\ ParametersOf(parts) = list /\ Len(parts) >= 3
<1>1. CASE list = <<>>
  <2>1. Len(parts) = 3
    BY <1>1, FieldsAre
  <2> QED
    BY <1>1, <2>1 DEF ParametersDecodable, ParametersOf
<1>2. CASE list # <<>>
  <2>1. Len(parts) = 4 /\ parts[4] = EncodeList(list)
    BY <1>2, FieldsAre
  <2>2. ListDecodable(EncodeList(list)) /\ DecodeList(EncodeList(list)) = list
    BY <1>2, DecodesEncodedList
  <2> QED
    BY <2>1, <2>2 DEF ParametersDecodable, ParametersOf
<1> QED
  BY <1>1, <1>2

LEMMA NumberIs ==
    ASSUME NEW id \in Numbers
    PROVE  IsNumber(<<id>>) /\ <<id>>[1] = id
BY DEF IsNumber

\* The messages that the two sides send each other.
Messages ==
    {Request(id, type, parameters) :
        id \in Numbers, type \in Seq(Symbols) \ {<<>>}, parameters \in Seq(Seq(Symbols))}
    \cup {ResponseSuccess(id, parameters) :
        id \in Numbers, parameters \in Seq(Seq(Symbols))}
    \cup {ResponseError(id, code, text) :
        id \in Numbers, code \in Numbers, text \in Seq(Symbols)}

LEMMA WordFacts ==
    /\ {"request", "response", "ok", "error"} \subseteq Symbols \ Special
    /\ \A a \in Symbols \ Special : <<a>> \in Seq(Plain) /\ Inert(<<a>>, Space)
<1>1. {"request", "response", "ok", "error"} \subseteq Symbols \ Special
  BY DEF Symbols, Special, LineFeed, Return, Backslash, Space, Bar
<1>2. \A c \in Plain : <<c>> \in Seq(Plain)
  OBVIOUS
<1>3. ASSUME NEW a \in Symbols \ Special PROVE a \in Plain /\ a # Space /\ a # Backslash
  BY DEF Plain, Special
<1>4. \A a \in Symbols \ Special : Inert(<<a>>, Space)
  BY <1>3, InertSymbol
<1> QED
  BY <1>1, <1>2, <1>3, <1>4

LEMMA RequestRead ==
    ASSUME NEW id \in Numbers, NEW type \in Seq(Symbols), type # <<>>,
           NEW parameters \in Seq(Seq(Symbols))
    PROVE  /\ Serialize(Request(id, type, parameters)) \in Seq(Plain)
           /\ Parse(Serialize(Request(id, type, parameters))) = Request(id, type, parameters)
<1>1. PICK t \in Seq(Plain) : t = EncodeEscapes(type) /\ Inert(t, Space)
  <2>1. Space \in Delimiters
    BY DEF Delimiters
  <2> QED
    BY <2>1, EncodePlain, InertEncoded
<1>2. PICK m : m = Request(id, type, parameters)
  OBVIOUS
<1>3. m.kind = "request" /\ m.id = id /\ m.type = type /\ m.parameters = parameters
  BY <1>2 DEF Request
<1>4. Serialize(m) = Line("request", id, t, parameters)
  BY <1>1, <1>3 DEF Serialize, Line, LastField
<1>5. PICK v \in Seq(Plain) : v = Serialize(m)
                              /\ SplitEscaped(TrimLineEndings(v), Space)
                                   = Fields("request", id, t, parameters)
  BY <1>1, <1>4, WordFacts, LineFields
<1>6. PICK parts : parts = Fields("request", id, t, parameters)
  OBVIOUS
<1>7. parts[1] = <<"request">> /\ parts[2] = <<id>> /\ parts[3] = t
  BY <1>6, FieldsAre
<1>8. ParametersDecodable(parts) /\ ParametersOf(parts) = parameters /\ Len(parts) >= 3
  BY <1>6, ParametersRead
<1>9. Decodable(t) /\ DecodeEscapes(t) = type
  BY <1>1, DecodesEncoded
<1>10. IsRequest(parts)
  BY <1>7, <1>8, <1>9, NumberIs DEF IsRequest
<1>11. ~IsSuccess(parts) /\ ~IsError(parts)
  <2>1. <<"request">> # <<"response">>
    OBVIOUS
  <2> QED
    BY <1>7, <2>1 DEF IsSuccess, IsError
<1>12. Parse(v) = Request(parts[2][1], DecodeEscapes(parts[3]), ParametersOf(parts))
  BY <1>5, <1>6, <1>8, <1>10, <1>11 DEF Parse
<1>13. Parse(v) = Request(id, type, parameters)
  BY <1>7, <1>8, <1>9, <1>12, NumberIs
<1> QED
  BY <1>2, <1>5, <1>13

LEMMA SuccessRead ==
    ASSUME NEW id \in Numbers, NEW parameters \in Seq(Seq(Symbols))
    PROVE  /\ Serialize(ResponseSuccess(id, parameters)) \in Seq(Plain)
           /\ Parse(Serialize(ResponseSuccess(id, parameters))) = ResponseSuccess(id, parameters)
<1>1. PICK t \in Seq(Plain) : t = <<"ok">> /\ Inert(t, Space)
  BY WordFacts
<1>2. PICK m : m = ResponseSuccess(id, parameters)
  OBVIOUS
<1>3. m.kind = "success" /\ m.id = id /\ m.parameters = parameters
  BY <1>2 DEF ResponseSuccess
<1>4. Serialize(m) = Line("response", id, t, parameters)
  <2>1. Serialize(m) = <<"response", Space, id, Space, "ok">> \o LastField(parameters)
    BY <1>3 DEF Serialize, LastField
  <2>2. <<"response", Space, id, Space>> \o <<"ok">> = <<"response", Space, id, Space, "ok">>
    <3>1. {"response", Space, id, "ok"} \subseteq Symbols
      BY DEF Symbols, Special
    <3>2. PICK s \in Seq(Symbols) : s = <<"response", Space, id, Space>>
      <4>1. \A x, y, z, u \in Symbols : <<x, y, z, u>> \in Seq(Symbols)
        OBVIOUS
      <4> QED
        BY <3>1, <4>1
    <3>3. s \o <<"ok">> = Append(s, "ok")
      BY <3>1
    <3>4. Append(<<"response", Space, id, Space>>, "ok") = <<"response", Space, id, Space, "ok">>
      BY <3>1, AppendFour
    <3> QED
      BY <3>2, <3>3, <3>4
  <2> QED
    BY <1>1, <2>1, <2>2 DEF Line
<1>5. PICK v \in Seq(Plain) : v = Serialize(m)
                              /\ SplitEscaped(TrimLineEndings(v), Space)
                                   = Fields("response", id, t, parameters)
  BY <1>1, <1>4, WordFacts, LineFields, ZenonT(40)
<1>6. PICK parts : parts = Fields("response", id, t, parameters)
  OBVIOUS
<1>7. parts[1] = <<"response">> /\ parts[2] = <<id>> /\ parts[3] = <<"ok">>
  BY <1>1, <1>6, FieldsAre
<1>8. ParametersDecodable(parts) /\ ParametersOf(parts) = parameters /\ Len(parts) >= 3
  BY <1>6, ParametersRead
<1>9. IsSuccess(parts)
  BY <1>7, <1>8, NumberIs DEF IsSuccess
<1>10. ~IsRequest(parts) /\ ~IsError(parts)
  <2>1. <<"request">> # <<"response">> /\ <<"ok">> # <<"error">>
    OBVIOUS
  <2> QED
    BY <1>7, <2>1 DEF IsRequest, IsError
<1>11. Parse(v) = ResponseSuccess(parts[2][1], ParametersOf(parts))
  BY <1>5, <1>6, <1>8, <1>9, <1>10 DEF Parse
<1>12. Parse(v) = ResponseSuccess(id, parameters)
  BY <1>7, <1>8, <1>11, NumberIs
<1> QED
  BY <1>2, <1>5, <1>12

LEMMA ErrorRead ==
    ASSUME NEW id \in Numbers, NEW code \in Numbers, NEW text \in Seq(Symbols)
    PROVE  /\ Serialize(ResponseError(id, code, text)) \in Seq(Plain)
           /\ Parse(Serialize(ResponseError(id, code, text))) = ResponseError(id, code, text)
<1>1. PICK t \in Seq(Plain) : t = <<"error">> /\ Inert(t, Space)
  BY WordFacts
<1>2. PICK m : m = ResponseError(id, code, text)
  OBVIOUS
<1>3. m.kind = "error" /\ m.id = id /\ m.code = code /\ m.text = text
  BY <1>2 DEF ResponseError
<1>4. PICK payload \in Seq(Seq(Symbols)) : payload = <<<<code>>, text>>
  <2>1. \A c \in Symbols : <<c>> \in Seq(Symbols)
    OBVIOUS
  <2>2. <<code>> \in Seq(Symbols)
    BY <2>1 DEF Symbols
  <2>3. \A x, y \in Seq(Symbols) : <<x, y>> \in Seq(Seq(Symbols))
    OBVIOUS
  <2> QED
    BY <2>2, <2>3
<1>5. payload # <<>> /\ Len(payload) = 2 /\ payload[1] = <<code>> /\ payload[2] = text
  BY <1>4
<1>6. Serialize(m) = Line("response", id, t, payload)
  <2>1. Serialize(m) = <<"response", Space, id, Space, "error", Space>> \o EncodeList(payload)
    BY <1>3, <1>4 DEF Serialize
  <2>2. {"response", Space, id, "error"} \subseteq Symbols
    BY DEF Symbols, Special
  <2>3. PICK s \in Seq(Symbols) : s = <<"response", Space, id, Space>>
    <3>1. \A x, y, z, u \in Symbols : <<x, y, z, u>> \in Seq(Symbols)
      OBVIOUS
    <3> QED
      BY <2>2, <3>1
  <2>4. PICK u \in Seq(Symbols) : u = s \o t /\ u = <<"response", Space, id, Space, "error">>
    <3>1. s \o <<"error">> = Append(s, "error") /\ Append(s, "error") \in Seq(Symbols)
      BY <2>2, AppendProperties
    <3>2. Append(<<"response", Space, id, Space>>, "error")
            = <<"response", Space, id, Space, "error">>
      BY <2>2, AppendFour
    <3> QED
      BY <1>1, <2>3, <3>1, <3>2
  <2>5. PICK b \in Seq(Symbols) : b = <<Space>>
    <3>1. \A c \in Symbols : <<c>> \in Seq(Symbols)
      OBVIOUS
    <3> QED
      BY <2>2, <3>1
  <2>6. u \o b = <<"response", Space, id, Space, "error", Space>>
    <3>1. u \o b = Append(u, Space)
      BY <2>5
    <3>2. Append(<<"response", Space, id, Space, "error">>, Space)
            = <<"response", Space, id, Space, "error", Space>>
      BY <2>2, AppendFive
    <3> QED
      BY <2>4, <3>1, <3>2
  <2>7. (u \o b) \o EncodeList(payload) = u \o (b \o EncodeList(payload))
    <3>1. PICK l \in Seq(Symbols) : l = EncodeList(payload)
      BY EncodeListTyped
    <3>2. Associates(u, b, l)
      BY Associative
    <3> QED
      BY <3>1, <3>2 DEF Associates
  <2>8. LastField(payload) = b \o EncodeList(payload)
    BY <1>5, <2>5 DEF LastField
  <2> QED
    BY <2>1, <2>3, <2>4, <2>6, <2>7, <2>8 DEF Line
<1>7. PICK v \in Seq(Plain) : v = Serialize(m)
                              /\ SplitEscaped(TrimLineEndings(v), Space)
                                   = Fields("response", id, t, payload)
  BY <1>1, <1>6, WordFacts, LineFields, ZenonT(40)
<1>8. PICK parts : parts = Fields("response", id, t, payload)
  OBVIOUS
<1>9. /\ parts[1] = <<"response">> /\ parts[2] = <<id>> /\ parts[3] = <<"error">>
      /\ Len(parts) = 4 /\ parts[4] = EncodeList(payload)
  BY <1>1, <1>5, <1>8, FieldsAre
<1>10. ListDecodable(parts[4]) /\ DecodeList(parts[4]) = payload
  BY <1>5, <1>9, DecodesEncodedList
<1>11. IsError(parts)
  BY <1>5, <1>9, <1>10, NumberIs DEF IsError
<1>12. ~IsRequest(parts) /\ ~IsSuccess(parts)
  <2>1. <<"request">> # <<"response">> /\ <<"ok">> # <<"error">>
    OBVIOUS
  <2> QED
    BY <1>9, <2>1 DEF IsRequest, IsSuccess
<1>13. Parse(v) = ResponseError(parts[2][1], payload[1][1], payload[2])
  <2>1. Len(parts) >= 3
    BY <1>9
  <2> QED
    BY <1>7, <1>8, <1>10, <1>11, <1>12, <2>1 DEF Parse
<1>14. Parse(v) = ResponseError(id, code, text)
  BY <1>5, <1>9, <1>13, NumberIs
<1> QED
  BY <1>2, <1>7, <1>14

\* The peer reads what was sent: parse gives every message back that serialize wrote,
\* whatever stands in its texts, and no line end stands within the line.
THEOREM ParsesSerialized ==
    \A m \in Messages : Serialize(m) \in Seq(Plain) /\ Parse(Serialize(m)) = m
BY RequestRead, SuccessRead, ErrorRead DEF Messages

LEMMA MaxWithin ==
    ASSUME NEW n \in Nat, NEW T \in SUBSET (1..n), T # {}
    PROVE  Max(T) \in T
<1> DEFINE D == {n - k : k \in T}
<1>1. D \in SUBSET Nat /\ D # {}
  <2>1. \A k \in T : n - k \in Nat
    OBVIOUS
  <2>2. \A x \in D : x \in Nat
    BY <2>1
  <2> QED
    BY <2>2
<1> HIDE DEF D
<1>2. PICK x \in D : \A y \in D : x <= y
  BY <1>1, LeastElement
<1>3. PICK k \in T : x = n - k
  BY <1>2 DEF D
<1>4. T \in SUBSET Int
  OBVIOUS
<1>5. ASSUME NEW y \in T PROVE k >= y
  <2>1. n - y \in D
    BY DEF D
  <2>2. n - k <= n - y
    BY <1>2, <1>3, <2>1
  <2>3. k \in Int /\ y \in Int
    OBVIOUS
  <2> QED
    BY <2>2, <2>3
<1> QED
  BY <1>4, <1>5, MaxIs

LEMMA TrimAppend ==
    ASSUME NEW v \in Seq(Symbols), NEW c \in {LineFeed, Return}
    PROVE  TrimLineEndings(Append(v, c)) = TrimLineEndings(v)
<1> DEFINE Kept(s) == {k \in DOMAIN s : s[k] \notin {LineFeed, Return}}
<1>1. PICK n \in Nat : n = Len(v)
  OBVIOUS
<1>2. PICK w \in Seq(Symbols) : w = Append(v, c)
  BY AppendProperties DEF Symbols, Special
<1>3. Len(w) = n + 1 /\ w[n + 1] = c /\ \A k \in 1..n : w[k] = v[k]
  <2>1. c \in Symbols
    BY DEF Symbols, Special
  <2> QED
    BY <1>1, <1>2, <2>1, AppendProperties
<1>4. DOMAIN v = 1..n /\ DOMAIN w = 1..(n + 1) /\ \A k \in 1..(n + 1) : k \in 1..n \/ k = n + 1
  BY <1>1, <1>3
<1>5. Kept(w) = Kept(v) /\ Kept(v) \in SUBSET (1..n)
  BY <1>3, <1>4
<1>6. \A s : TrimLineEndings(s) = IF Kept(s) = {} THEN <<>> ELSE SubSeq(s, 1, Max(Kept(s)))
  BY DEF TrimLineEndings
<1> HIDE DEF Kept
<1>7. CASE Kept(v) = {}
  BY <1>2, <1>5, <1>6, <1>7
<1>8. CASE Kept(v) # {}
  <2>1. PICK m \in 1..n : m = Max(Kept(v))
    BY <1>5, <1>8, MaxWithin
  <2>2. SubSeq(w, 1, m) = SubSeq(v, 1, m)
    <3>1. PICK x, y \in Int : x = 1 /\ y = m
      OBVIOUS
    <3>2. 1 <= x /\ y <= Len(v) /\ y <= Len(w)
      BY <1>1, <1>3, <3>1
    <3>3. \A k \in 0..(y - x) : w[x + k] = v[x + k]
      <4>1. \A k \in 0..(y - x) : x + k \in 1..n
        BY <1>1, <3>2
      <4> QED
        BY <1>3, <4>1
    <3>4. SubSeq(w, x, y) = SubSeq(v, x, y)
      <4>1. Alike(w, x, y, v, x, y)
        BY <3>2, <3>3 DEF Alike
      <4> QED
        BY <4>1, SameSlice
    <3> QED
      BY <3>1, <3>4
  <2> QED
    BY <1>2, <1>5, <1>6, <1>8, <2>1, <2>2
<1> QED
  BY <1>7, <1>8

\* A line that ends with CR LF, as terminals send it, means what it means without the
\* CR: parse and tryParseCorrelationId trim it first.
THEOREM LineEndsTrimmed ==
    ASSUME NEW v \in Seq(Symbols), NEW c \in {LineFeed, Return}
    PROVE  Parse(Append(v, c)) = Parse(v)
<1>1. TrimLineEndings(Append(v, c)) = TrimLineEndings(v)
  BY TrimAppend
<1>2. TryParseCorrelationId(Append(v, c)) = TryParseCorrelationId(v)
  BY <1>1 DEF TryParseCorrelationId
<1>3. PICK w : w = Append(v, c)
  OBVIOUS
<1>4. TrimLineEndings(w) = TrimLineEndings(v) /\ TryParseCorrelationId(w) = TryParseCorrelationId(v)
  BY <1>1, <1>2, <1>3
<1>5. Parse(w) = Parse(v)
  BY <1>4, Zenon DEF Parse
<1> QED
  BY <1>3, <1>5

=============================================================================
