-------------------------- MODULE LineChannel_proofs --------------------------
(***************************************************************************)
(* Theorems about LineChannel, for any lines and any cuts into chunks.     *)
(*                                                                         *)
(* What is in the buffer and on the wire is one text; the invariant says   *)
(* that it consists of the lines that were written and not yet taken, each *)
(* ended by its line feed.  A chunk moves the border between buffer and    *)
(* wire over some of these ends, and Pieces cuts exactly there.            *)
(***************************************************************************)
EXTENDS LineChannel, GraphingProtocol_proofs

-----------------------------------------------------------------------------
(* Texts that consist of lines *)

\* The first K line feeds of v stand at e[1], ..., e[K]; there is no other one, and
\* the last one ends v.
Framed(v, e, K) ==
    /\ e \in [0..K -> Nat] /\ e[0] = 0 /\ e[K] = Len(v)
    /\ \A j, k \in 0..K : j < k => e[j] < e[k]
    /\ \A p \in 1..Len(v) : v[p] = LineFeed <=> \E k \in 1..K : e[k] = p

\* The k-th line of v, without its end.
LineOf(v, e, k) == SubSeq(v, e[k - 1] + 1, e[k] - 1)

LEMMA EndsBounded ==
    ASSUME NEW S, NEW v \in Seq(S), NEW K \in Nat, NEW e, Framed(v, e, K), NEW k \in 0..K
    PROVE  e[k] \in 0..Len(v) /\ (k > 0 => e[k - 1] \in 0..(e[k] - 1))
<1>1. e[k] \in Nat /\ e[K] = Len(v) /\ (k = K \/ e[k] < e[K])
  BY DEF Framed
<1>2. k > 0 => k - 1 \in 0..K /\ e[k - 1] \in Nat /\ e[k - 1] < e[k]
  <2>1. SUFFICES ASSUME k > 0 PROVE k - 1 \in 0..K /\ e[k - 1] \in Nat /\ e[k - 1] < e[k]
    OBVIOUS
  <2>2. k - 1 \in 0..K /\ k - 1 < k
    BY <2>1
  <2> QED
    BY <2>2 DEF Framed
<1> QED
  BY <1>1, <1>2

\* Some m of the lines end within the first L symbols.
LEMMA LinesWithin ==
    ASSUME NEW S, NEW v \in Seq(S), NEW K \in Nat, NEW e, Framed(v, e, K), NEW L \in 0..Len(v)
    PROVE  \E m \in 0..K : e[m] <= L /\ (m < K => L < e[m + 1])
<1> DEFINE T == {k \in Nat : k > 0 /\ (k > K \/ L < e[k])}
<1>1. T \in SUBSET Nat /\ K + 1 \in T
  OBVIOUS
<1>2. PICK x \in T : \A y \in T : x <= y
  <2> HIDE DEF T
  <2> QED
    BY <1>1, LeastElement
<1>3. x \in Nat /\ x > 0 /\ x <= K + 1
  BY <1>1, <1>2
<1>4. x - 1 \in 0..K
  BY <1>3
<1>5. e[x - 1] <= L
  <2>1. CASE x = 1
    BY <2>1 DEF Framed
  <2>2. CASE x > 1
    <3>1. x - 1 \notin T
      BY <1>2, <1>3
    <3>2. ~(L < e[x - 1])
      BY <1>4, <2>2, <3>1
    <3>3. e[x - 1] \in Nat
      BY <1>4 DEF Framed
    <3> QED
      BY <3>2, <3>3
  <2> QED
    BY <1>3, <2>1, <2>2
<1>6. x - 1 < K => L < e[(x - 1) + 1]
  BY <1>2, <1>3
<1> QED
  BY <1>4, <1>5, <1>6

\* The pieces of b are the m lines of v that end within L symbols, and the rest.
PiecesAre(b, v, e, m, L) ==
    /\ Len(Pieces(b)) = m + 1
    /\ \A k \in 1..m : Pieces(b)[k] = LineOf(v, e, k)
    /\ Pieces(b)[m + 1] = SubSeq(v, e[m] + 1, L)

FirstOf(v, n) == SubSeq(v, 1, n)
WithLine(v, t) == v \o t \o <<LineFeed>>

\* Pieces of the first L symbols.
LEMMA PiecesOfFramed ==
    ASSUME NEW S, NEW v \in Seq(S), NEW K \in Nat, NEW e, Framed(v, e, K),
           NEW L \in 0..Len(v), NEW m \in 0..K, e[m] <= L, m < K => L < e[m + 1],
           NEW b, b = FirstOf(v, L)
    PROVE  PiecesAre(b, v, e, m, L)
<1>1. b \in Seq(S) /\ Len(b) = L /\ \A k \in 1..L : b[k] = v[k]
  <2>1. L \in Int /\ 1 \in Int /\ L - 1 + 1 = L /\ L <= Len(v) /\ 0 <= L
    OBVIOUS
  <2>2. /\ SubSeq(v, 1, L) \in Seq(S)
        /\ Len(SubSeq(v, 1, L)) = IF 1 <= L THEN L - 1 + 1 ELSE 0
        /\ \A k \in 1..(L - 1 + 1) : SubSeq(v, 1, L)[k] = v[1 + k - 1]
    BY <2>1, SubSeqProperties
  <2>3. \A k \in 1..L : 1 + k - 1 = k
    OBVIOUS
  <2>4. (IF 1 <= L THEN L - 1 + 1 ELSE 0) = L
    BY <2>1
  <2> QED
    BY <2>1, <2>2, <2>3, <2>4 DEF FirstOf
<1> DEFINE f == [k \in 0..(m + 1) |-> IF k <= m THEN e[k] ELSE L + 1]
<1>2. \A k \in 0..m : f[k] = e[k] /\ e[k] \in Nat /\ e[k] <= L
  <2>1. ASSUME NEW k \in 0..m PROVE e[k] \in Nat /\ e[k] <= L
    <3>1. k \in 0..K /\ m \in 0..K /\ (k = m \/ k < m)
      OBVIOUS
    <3>2. e[k] \in Nat /\ e[m] \in Nat /\ (k < m => e[k] < e[m])
      BY <3>1 DEF Framed
    <3> QED
      BY <3>1, <3>2
  <2> QED
    BY <2>1
<1>3. f[m + 1] = L + 1
  OBVIOUS
<1>4. f \in [0..(m + 1) -> Nat]
  <2>1. ASSUME NEW k \in 0..(m + 1) PROVE f[k] \in Nat
    <3>1. k \in 0..m \/ k = m + 1
      OBVIOUS
    <3>2. L + 1 \in Nat
      OBVIOUS
    <3> HIDE DEF f
    <3> QED
      BY <1>2, <1>3, <3>1, <3>2
  <2> QED
    BY <2>1
<1>5. f[0] = 0
  BY <1>2 DEF Framed
<1>6. \A j, k \in 0..(m + 1) : j < k => f[j] < f[k]
  <2>1. ASSUME NEW j \in 0..(m + 1), NEW k \in 0..(m + 1), j < k PROVE f[j] < f[k]
    <3>1. j \in 0..m /\ j \in 0..K /\ (k = m + 1 \/ (k \in 0..m /\ k \in 0..K))
      BY <2>1
    <3>2. CASE k = m + 1
      <4>1. f[j] <= L /\ f[j] \in Nat
        BY <1>2, <3>1
      <4> QED
        BY <1>3, <3>2, <4>1
    <3>3. CASE k \in 0..m /\ k \in 0..K
      BY <1>2, <2>1, <3>1, <3>3 DEF Framed
    <3> QED
      BY <3>1, <3>2, <3>3
  <2> QED
    BY <2>1
<1>7. {p \in DOMAIN b : b[p] = LineFeed} = {f[k] : k \in 1..m}
  <2>1. ASSUME NEW p \in 1..L, v[p] = LineFeed PROVE \E k \in 1..m : f[k] = p
    <3>1. PICK k \in 1..K : e[k] = p
      BY <2>1 DEF Framed
    <3>2. k \in 0..K /\ (m < K => m + 1 \in 0..K)
      OBVIOUS
    <3>3. ~(m + 1 < k)
      <4> SUFFICES ASSUME m + 1 < k PROVE FALSE
        OBVIOUS
      <4>1. e[m + 1] < e[k] /\ e[m + 1] \in Nat
        BY <3>2 DEF Framed
      <4> QED
        BY <3>1, <4>1
    <3>4. k # m + 1
      BY <3>1
    <3>5. k \in 1..m
      BY <3>3, <3>4
    <3> QED
      BY <1>2, <3>1, <3>5
  <2>2. ASSUME NEW k \in 1..m PROVE f[k] \in 1..L /\ v[f[k]] = LineFeed
    <3>1. k \in 0..m /\ k \in 1..K /\ k \in 0..K /\ 0 \in 0..K
      OBVIOUS
    <3>2. f[k] = e[k] /\ e[k] \in Nat /\ e[k] <= L /\ 0 < e[k]
      BY <1>2, <3>1 DEF Framed
    <3>3. e[k] \in 1..Len(v)
      BY <3>2
    <3>4. v[e[k]] = LineFeed
      BY <3>1, <3>3 DEF Framed
    <3> QED
      BY <3>2, <3>4
  <2>3. DOMAIN b = 1..L
    BY <1>1
  <2> HIDE DEF f
  <2>4. ASSUME NEW p \in DOMAIN b, b[p] = LineFeed PROVE p \in {f[k] : k \in 1..m}
    <3>1. p \in 1..L /\ v[p] = LineFeed
      BY <1>1, <2>3, <2>4
    <3>2. \E k \in 1..m : f[k] = p
      BY <2>1, <3>1
    <3> QED
      BY <3>2
  <2>5. ASSUME NEW k \in 1..m PROVE f[k] \in DOMAIN b /\ b[f[k]] = LineFeed
    BY <1>1, <2>2, <2>3
  <2> QED
    BY <2>4, <2>5
<1> HIDE DEF f
<1>8. /\ Len(Pieces(b)) = m + 1
      /\ \A k \in 1..(m + 1) : Pieces(b)[k] = SubSeq(b, f[k - 1] + 1, f[k] - 1)
  <2>1. m \in Nat /\ f[m + 1] = Len(b) + 1
    BY <1>1, <1>3
  <2>2. PICK cuts : cuts = {p \in DOMAIN b : b[p] = LineFeed}
    OBVIOUS
  <2>3. cuts = {f[k] : k \in 1..m}
    BY <1>7, <2>2
  <2>4. Cut(b, cuts) = Parts(b, f, m)
    BY <1>4, <1>5, <1>6, <2>1, <2>3, CutAt
  <2>5. Pieces(b) = Parts(b, f, m)
    BY <2>2, <2>4 DEF Pieces
  <2>6. Len(Parts(b, f, m)) = m + 1
    BY <2>1, PartsLen
  <2>7. \A k \in 1..(m + 1) : Parts(b, f, m)[k] = SubSeq(b, f[k - 1] + 1, f[k] - 1)
    BY DEF Parts
  <2> QED
    BY <2>5, <2>6, <2>7
<1>9. ASSUME NEW x \in Nat, NEW y \in Nat, y <= L
      PROVE  SubSeq(b, x + 1, y) = SubSeq(v, x + 1, y)
  <2>1. \A k \in 0..(y - (x + 1)) : b[(x + 1) + k] = v[(x + 1) + k]
    BY <1>1, <1>9
  <2>2. PICK z \in Int : z = x + 1
    OBVIOUS
  <2>3. Alike(b, z, y, v, z, y)
    BY <1>1, <1>9, <2>1, <2>2 DEF Alike
  <2>4. b \in Seq(S) /\ v \in Seq(S) /\ y \in Int
    BY <1>1
  <2>5. SubSeq(b, z, y) = SubSeq(v, z, y)
    BY <2>3, <2>4, SameSlice
  <2> QED
    BY <2>2, <2>5
<1>10. ASSUME NEW k \in 1..m PROVE Pieces(b)[k] = LineOf(v, e, k)
  <2>1. k - 1 \in 0..m /\ k \in 0..m /\ k \in 1..(m + 1)
    OBVIOUS
  <2>2. f[k - 1] = e[k - 1] /\ f[k] = e[k] /\ e[k] <= L /\ e[k - 1] \in Nat /\ e[k] \in Nat
    BY <1>2, <2>1
  <2>3. 0 < e[k]
    <3>1. k \in 0..K /\ 0 \in 0..K /\ 0 < k
      OBVIOUS
    <3> QED
      BY <3>1 DEF Framed
  <2>4. e[k - 1] + 1 \in Nat /\ e[k] - 1 \in Nat /\ e[k] - 1 <= L
    BY <2>2, <2>3
  <2>5. Pieces(b)[k] = SubSeq(b, e[k - 1] + 1, e[k] - 1)
    BY <1>8, <2>1, <2>2
  <2>6. SubSeq(b, e[k - 1] + 1, e[k] - 1) = SubSeq(v, e[k - 1] + 1, e[k] - 1)
    BY <1>9, <2>2, <2>4
  <2> QED
    BY <2>5, <2>6 DEF LineOf
<1>11. Pieces(b)[m + 1] = SubSeq(v, e[m] + 1, L)
  <2>1. m + 1 \in 1..(m + 1) /\ (m + 1) - 1 = m /\ m \in 0..m /\ L + 1 - 1 = L
    OBVIOUS
  <2>2. f[m] = e[m] /\ e[m] + 1 \in Nat /\ L \in Nat
    BY <1>2, <2>1
  <2>3. SubSeq(b, e[m] + 1, L) = SubSeq(v, e[m] + 1, L)
    <3>1. e[m] \in Nat /\ L <= L
      BY <1>2, <2>1
    <3> QED
      BY <1>9, <2>2, <3>1
  <2>4. Pieces(b)[m + 1] = SubSeq(b, f[(m + 1) - 1] + 1, f[m + 1] - 1)
    BY <1>8, <2>1
  <2>5. f[(m + 1) - 1] = e[m] /\ f[m + 1] - 1 = L
    BY <1>3, <2>1, <2>2
  <2> QED
    BY <2>3, <2>4, <2>5
<1> QED
  BY <1>8, <1>10, <1>11 DEF PiecesAre

\* The rest of v after its first x symbols.
Rest(v, x) == SubSeq(v, x + 1, Len(v))

LEMMA RestIs ==
    ASSUME NEW S, NEW v \in Seq(S), NEW x \in 0..Len(v)
    PROVE  /\ Rest(v, x) \in Seq(S) /\ Len(Rest(v, x)) = Len(v) - x
           /\ \A p \in 1..(Len(v) - x) : Rest(v, x)[p] = v[x + p]
<1>1. PICK b \in Nat : b = Len(v)
  OBVIOUS
<1>2. PICK a \in Nat : a = x + 1
  OBVIOUS
<1>3. 1 <= a /\ a <= b + 1 /\ b <= Len(v)
  BY <1>1, <1>2
<1>4. /\ SubSeq(v, a, b) \in Seq(S) /\ Len(SubSeq(v, a, b)) = b - a + 1
      /\ \A k \in 1..(b - a + 1) : SubSeq(v, a, b)[k] = v[a + k - 1]
  BY <1>3, Slice
<1>5. b - a + 1 = Len(v) - x /\ \A p \in Int : a + p - 1 = x + p
  BY <1>1, <1>2
<1>6. Rest(v, x) = SubSeq(v, a, b)
  BY <1>1, <1>2 DEF Rest
<1>7. ASSUME NEW p \in 1..(Len(v) - x) PROVE Rest(v, x)[p] = v[x + p]
  <2>1. p \in 1..(b - a + 1) /\ a + p - 1 = x + p
    BY <1>5
  <2> QED
    BY <1>4, <1>6, <2>1
<1> QED
  BY <1>4, <1>5, <1>6, <1>7

\* The ends of the lines after the first m, which end at x, counted from x.
ShiftedEnds(e, K, m, x) == [k \in 0..(K - m) |-> e[m + k] - x]

\* What is left of a text when m lines are taken from it.
LEMMA FramedRest ==
    ASSUME NEW S, NEW v \in Seq(S), NEW K \in Nat, NEW e \in [0..K -> Nat], Framed(v, e, K),
           NEW m \in 0..K
    PROVE  /\ Framed(Rest(v, e[m]), ShiftedEnds(e, K, m, e[m]), K - m)
           /\ \A k \in 1..(K - m) :
                LineOf(Rest(v, e[m]), ShiftedEnds(e, K, m, e[m]), k) = LineOf(v, e, m + k)
<1>x. PICK x \in Nat : x = e[m]
  OBVIOUS
<1>w. PICK w : w = Rest(v, x)
  OBVIOUS
<1>g. PICK g : g = ShiftedEnds(e, K, m, x)
  OBVIOUS
<1>1. x \in 0..Len(v)
  BY <1>x, EndsBounded
<1>2. w \in Seq(S) /\ Len(w) = Len(v) - x /\ \A p \in 1..Len(w) : w[p] = v[x + p]
  <2>1. /\ Rest(v, x) \in Seq(S) /\ Len(Rest(v, x)) = Len(v) - x
        /\ \A p \in 1..(Len(v) - x) : Rest(v, x)[p] = v[x + p]
    BY <1>1, RestIs
  <2> QED
    BY <1>w, <2>1
<1>3. \A k \in 0..(K - m) : m + k \in 0..K /\ e[m + k] \in Nat /\ g[k] = e[m + k] - x
  <2>1. ASSUME NEW k \in 0..(K - m) PROVE m + k \in 0..K
    OBVIOUS
  <2>2. \A k \in 0..(K - m) : g[k] = e[m + k] - x
    BY <1>g DEF ShiftedEnds
  <2> QED
    BY <2>1, <2>2
<1>4. ASSUME NEW j \in 0..(K - m), NEW k \in 0..(K - m), j < k PROVE g[j] < g[k]
  <2>1. m + j < m + k /\ m + j \in 0..K /\ m + k \in 0..K
    BY <1>4
  <2>2. e[m + j] < e[m + k]
    BY <2>1 DEF Framed
  <2> QED
    BY <1>1, <1>3, <2>2
<1>5. g[0] = 0 /\ g[K - m] = Len(w)
  <2>1. m + 0 = m /\ m + (K - m) = K /\ 0 \in 0..(K - m) /\ K - m \in 0..(K - m)
    OBVIOUS
  <2>2. e[K] = Len(v)
    BY DEF Framed
  <2> QED
    BY <1>x, <1>1, <1>2, <1>3, <2>1, <2>2
<1>6. g \in [0..(K - m) -> Nat]
  <2>1. g = [k \in 0..(K - m) |-> g[k]]
    BY <1>g DEF ShiftedEnds
  <2>2. ASSUME NEW k \in 0..(K - m) PROVE g[k] \in Nat
    <3>1. k = 0 \/ 0 < k
      OBVIOUS
    <3>2. 0 \in 0..(K - m)
      OBVIOUS
    <3>3. g[k] \in Int
      BY <1>3
    <3>4. 0 < k => g[0] < g[k]
      BY <1>4, <3>2
    <3> QED
      BY <1>5, <3>1, <3>3, <3>4
  <2> QED
    BY <2>1, <2>2
<1>7. ASSUME NEW p \in 1..Len(w)
      PROVE  w[p] = LineFeed <=> \E k \in 1..(K - m) : g[k] = p
  <2>1. x + p \in 1..Len(v) /\ w[p] = v[x + p]
    BY <1>1, <1>2
  <2>2. v[x + p] = LineFeed <=> \E k \in 1..K : e[k] = x + p
    BY <2>1 DEF Framed
  <2>3. ASSUME NEW k \in 1..K, e[k] = x + p PROVE \E j \in 1..(K - m) : g[j] = p
    <3>1. ~(k < m) /\ k # m
      <4>1. k \in 0..K /\ m \in 0..K
        OBVIOUS
      <4>2. k < m => e[k] < x
        BY <1>x, <4>1 DEF Framed
      <4> QED
        BY <1>x, <1>1, <2>3, <4>2
    <3>2. k - m \in 1..(K - m) /\ k - m \in 0..(K - m) /\ m + (k - m) = k
      BY <3>1
    <3>3. g[k - m] = p
      BY <1>1, <1>3, <2>3, <3>2
    <3> QED
      BY <3>2, <3>3
  <2>4. ASSUME NEW j \in 1..(K - m), g[j] = p PROVE \E k \in 1..K : e[k] = x + p
    <3>1. j \in 0..(K - m) /\ m + j \in 1..K
      OBVIOUS
    <3>2. PICK y \in Nat : y = e[m + j] /\ g[j] = y - x
      BY <1>3, <3>1
    <3>3. y = x + p
      BY <2>4, <3>2
    <3> QED
      BY <3>1, <3>2, <3>3
  <2> QED
    BY <2>1, <2>2, <2>3, <2>4
<1>8. ASSUME NEW k \in 1..(K - m) PROVE LineOf(w, g, k) = LineOf(v, e, m + k)
  <2>1. k - 1 \in 0..(K - m) /\ k \in 0..(K - m) /\ m + (k - 1) = (m + k) - 1
        /\ m + k \in 0..K /\ m + k > 0
    OBVIOUS
  <2>2. PICK i \in Nat, j \in Nat : i = e[(m + k) - 1] /\ j = e[m + k]
    BY <1>3, <2>1
  <2>3. g[k - 1] = i - x /\ g[k] = j - x
    BY <1>3, <2>1, <2>2
  <2>4. j \in 0..Len(v) /\ x <= i
    <3>1. g[k - 1] \in Nat
      BY <1>6, <2>1
    <3>2. j \in 0..Len(v)
      BY <2>1, <2>2, EndsBounded
    <3> QED
      BY <2>3, <3>1, <3>2
  <2>5a. PICK a \in Int : a = i - x + 1
    OBVIOUS
  <2>5b. PICK b \in Int : b = j - x - 1
    OBVIOUS
  <2>5c. PICK c \in Int : c = i + 1
    OBVIOUS
  <2>5d. PICK d \in Int : d = j - 1
    OBVIOUS
  <2>5e. PICK V \in Nat : V = Len(v)
    OBVIOUS
  <2>5f. PICK W \in Nat : W = Len(w) /\ W = V - x
    <3>1. V - x \in Nat
      BY <1>1, <2>5e
    <3>2. V - x = Len(w)
      BY <1>2, <2>5e
    <3> QED
      BY <3>1, <3>2
  <2>6. b - a = d - c /\ 1 <= a /\ b <= W /\ 1 <= c /\ d <= V
    BY <1>1, <2>4, <2>5a, <2>5b, <2>5c, <2>5d, <2>5e, <2>5f
  <2>7. ASSUME NEW n \in 0..(b - a) PROVE w[a + n] = v[c + n]
    <3>1. a + n \in 1..W /\ x + (a + n) = c + n
      BY <1>1, <2>4, <2>5a, <2>5c, <2>6
    <3> QED
      BY <1>2, <2>5f, <3>1
  <2>8. SubSeq(w, a, b) = SubSeq(v, c, d)
    <3>1. w \in Seq(S) /\ b <= Len(w) /\ d <= Len(v)
      BY <1>2, <2>5e, <2>5f, <2>6
    <3>2. Alike(w, a, b, v, c, d)
      BY <2>6, <2>7, <3>1 DEF Alike
    <3>3. w \in Seq(S) /\ v \in Seq(S) /\ a \in Int /\ b \in Int
      BY <3>1
    <3> QED
      BY <3>2, <3>3, SameSlice
  <2>9. LineOf(w, g, k) = SubSeq(w, a, b)
    BY <2>3, <2>5a, <2>5b DEF LineOf
  <2>10. LineOf(v, e, m + k) = SubSeq(v, c, d)
    BY <2>2, <2>5c, <2>5d DEF LineOf
  <2> QED
    BY <2>8, <2>9, <2>10
<1>9. Framed(w, g, K - m)
  BY <1>4, <1>5, <1>6, <1>7 DEF Framed
<1> QED
  BY <1>x, <1>w, <1>g, <1>8, <1>9

\* The ends of the lines of a text that has grown by a line and its end, to l symbols.
ExtendedEnds(e, K, l) == [k \in 0..(K + 1) |-> IF k = K + 1 THEN l ELSE e[k]]

\* The lines of w, which end at g, are the K of v and t.
Extended(w, g, v, e, K, t) ==
    /\ Framed(w, g, K + 1)
    /\ \A k \in 1..K : LineOf(w, g, k) = LineOf(v, e, k)
    /\ LineOf(w, g, K + 1) = t

\* A line without a line feed and its end are appended to a text.
LEMMA FramedAppend ==
    ASSUME NEW S, NEW v \in Seq(S), NEW K \in Nat, NEW e \in [0..K -> Nat], Framed(v, e, K),
           NEW t \in Seq(S), LineFeed \in S, \A p \in 1..Len(t) : t[p] # LineFeed,
           NEW w, w = WithLine(v, t)
    PROVE  w \in Seq(S) /\ Extended(w, ExtendedEnds(e, K, Len(w)), v, e, K, t)
<1>1. PICK V \in Nat : V = Len(v)
  OBVIOUS
<1>2. PICK T \in Nat : T = Len(t)
  OBVIOUS
<1>3. PICK W \in Nat : W = V + T + 1
  OBVIOUS
<1>4. /\ w \in Seq(S) /\ Len(w) = W
      /\ \A p \in 1..V : w[p] = v[p]
      /\ \A p \in 1..T : w[V + p] = t[p]
      /\ w[W] = LineFeed
  BY <1>1, <1>2, <1>3 DEF WithLine
<1>5. PICK g : g = ExtendedEnds(e, K, W)
  OBVIOUS
<1>6. \A k \in 0..K : g[k] = e[k] /\ e[k] \in 0..V
  <2>1. ASSUME NEW k \in 0..K PROVE g[k] = e[k]
    <3>1. k \in 0..(K + 1) /\ k # K + 1
      OBVIOUS
    <3> QED
      BY <1>5, <3>1 DEF ExtendedEnds
  <2>2. ASSUME NEW k \in 0..K PROVE e[k] \in 0..V
    BY <1>1, EndsBounded
  <2> QED
    BY <2>1, <2>2
<1>7. g[K + 1] = W
  <2>1. K + 1 \in 0..(K + 1)
    OBVIOUS
  <2> QED
    BY <1>5, <2>1 DEF ExtendedEnds
<1>8. g \in [0..(K + 1) -> Nat]
  <2>1. g = [k \in 0..(K + 1) |-> g[k]]
    BY <1>5 DEF ExtendedEnds
  <2>2. ASSUME NEW k \in 0..(K + 1) PROVE g[k] \in Nat
    <3>1. k \in 0..K \/ k = K + 1
      OBVIOUS
    <3> QED
      BY <1>6, <1>7, <3>1
  <2> QED
    BY <2>1, <2>2
<1>9. ASSUME NEW j \in 0..(K + 1), NEW k \in 0..(K + 1), j < k PROVE g[j] < g[k]
  <2>1. j \in 0..K /\ (k = K + 1 \/ k \in 0..K)
    BY <1>9
  <2>2. g[j] < W
    BY <1>3, <1>6, <2>1
  <2>3. ASSUME k \in 0..K PROVE g[j] < g[k]
    <3>1. e[j] < e[k]
      BY <1>9, <2>1, <2>3 DEF Framed
    <3> QED
      BY <1>6, <2>1, <2>3, <3>1
  <2> QED
    BY <1>7, <2>1, <2>2, <2>3
<1>10. ASSUME NEW p \in 1..Len(w)
       PROVE  w[p] = LineFeed <=> \E k \in 1..(K + 1) : g[k] = p
  <2>0. p \in 1..W
    BY <1>4
  <2>1. CASE p \in 1..V
    <3>1. w[p] = LineFeed <=> \E k \in 1..K : e[k] = p
      BY <1>1, <1>4, <2>1 DEF Framed
    <3>2. \A k \in 1..K : k \in 0..K /\ k \in 1..(K + 1)
      OBVIOUS
    <3>3. \A k \in 1..(K + 1) : k \in 1..K \/ k = K + 1
      OBVIOUS
    <3>4. p # W
      BY <1>3, <2>1
    <3> QED
      BY <1>6, <1>7, <3>1, <3>2, <3>3, <3>4
  <2>2. CASE p \in (V + 1)..(V + T)
    <3>1. p - V \in 1..T /\ V + (p - V) = p
      BY <2>2
    <3>2. w[p] = t[p - V]
      BY <1>4, <3>1
    <3>3. w[p] # LineFeed
      BY <1>2, <3>1, <3>2
    <3>4. ASSUME NEW k \in 1..(K + 1) PROVE g[k] # p
      <4>1. k \in 0..K \/ k = K + 1
        OBVIOUS
      <4>2. p # W /\ p \notin 0..V
        BY <1>3, <2>2
      <4> QED
        BY <1>6, <1>7, <4>1, <4>2
    <3> QED
      BY <3>3, <3>4
  <2>3. CASE p = W
    <3>1. K + 1 \in 1..(K + 1)
      OBVIOUS
    <3> QED
      BY <1>4, <1>7, <2>3, <3>1
  <2> QED
    BY <1>3, <2>0, <2>1, <2>2, <2>3
<1>11. Framed(w, g, K + 1)
  <2>1. g[0] = 0
    <3>1. 0 \in 0..K /\ e[0] = 0
      BY DEF Framed
    <3> QED
      BY <1>6, <3>1
  <2> QED
    BY <1>4, <1>7, <1>8, <1>9, <1>10, <2>1 DEF Framed
<1>12. ASSUME NEW k \in 1..K PROVE LineOf(w, g, k) = LineOf(v, e, k)
  <2>1. k - 1 \in 0..K /\ k \in 0..K
    OBVIOUS
  <2>2. PICK i \in Nat : i = e[k - 1] /\ i = g[k - 1]
    BY <1>6, <2>1
  <2>3. PICK j \in Nat : j = e[k] /\ j = g[k] /\ j <= V
    <3>1. g[k] = e[k] /\ e[k] \in 0..V
      BY <1>6, <2>1
    <3> QED
      BY <3>1
  <2>4. PICK a \in Int : a = i + 1
    OBVIOUS
  <2>5. PICK b \in Int : b = j - 1
    OBVIOUS
  <2>6. 1 <= a /\ b <= V /\ b <= W
    BY <1>3, <2>3, <2>4, <2>5
  <2>7. \A n \in 0..(b - a) : w[a + n] = v[a + n]
    <3>1. ASSUME NEW n \in 0..(b - a) PROVE w[a + n] = v[a + n]
      <4>1. a + n \in 1..V
        BY <2>6
      <4> QED
        BY <1>4, <4>1
    <3> QED
      BY <3>1
  <2>8. SubSeq(w, a, b) = SubSeq(v, a, b)
    <3>1. w \in Seq(S) /\ b <= Len(w) /\ b <= Len(v)
      BY <1>1, <1>4, <2>6
    <3>2. Alike(w, a, b, v, a, b)
      BY <2>6, <2>7, <3>1 DEF Alike
    <3>3. w \in Seq(S) /\ v \in Seq(S) /\ a \in Int /\ b \in Int
      BY <3>1
    <3> QED
      BY <3>2, <3>3, SameSlice
  <2>9. LineOf(w, g, k) = SubSeq(w, a, b)
    BY <2>2, <2>3, <2>4, <2>5 DEF LineOf
  <2>10. LineOf(v, e, k) = SubSeq(v, a, b)
    BY <2>2, <2>3, <2>4, <2>5 DEF LineOf
  <2> QED
    BY <2>8, <2>9, <2>10
<1>13. LineOf(w, g, K + 1) = t
  <2>1. g[(K + 1) - 1] = V /\ g[K + 1] = W
    <3>1. (K + 1) - 1 = K /\ K \in 0..K /\ e[K] = Len(v)
      BY DEF Framed
    <3> QED
      BY <1>1, <1>6, <1>7, <3>1
  <2>2. PICK a \in Int : a = V + 1
    OBVIOUS
  <2>3. PICK b \in Int : b = W - 1
    OBVIOUS
  <2>4. LineOf(w, g, K + 1) = SubSeq(w, a, b)
    BY <2>1, <2>2, <2>3 DEF LineOf
  <2>5. /\ SubSeq(w, a, b) \in Seq(S) /\ Len(SubSeq(w, a, b)) = T
        /\ \A k \in 1..T : SubSeq(w, a, b)[k] = t[k]
    <3>1. a \in Nat /\ b \in Nat /\ 1 <= a /\ a <= b + 1 /\ b <= W /\ b - a + 1 = T
      BY <1>3, <2>2, <2>3
    <3>2. /\ SubSeq(w, a, b) \in Seq(S) /\ Len(SubSeq(w, a, b)) = b - a + 1
          /\ \A k \in 1..(b - a + 1) : SubSeq(w, a, b)[k] = w[a + k - 1]
      BY <1>4, <3>1, Slice
    <3>3. ASSUME NEW k \in 1..T PROVE SubSeq(w, a, b)[k] = t[k]
      <4>1. a + k - 1 = V + k /\ k \in 1..(b - a + 1)
        BY <2>2, <3>1
      <4> QED
        BY <1>4, <3>2, <4>1
    <3> QED
      BY <3>1, <3>2, <3>3
  <2> QED
    BY <1>2, <2>4, <2>5, SeqEqual
<1>14. Extended(w, g, v, e, K, t)
  BY <1>11, <1>12, <1>13 DEF Extended
<1> QED
  BY <1>4, <1>5, <1>14

-----------------------------------------------------------------------------
(* The invariant *)

Types ==
    /\ sent \in Seq({i.means : i \in Inputs}) /\ Len(sent) <= MaxInputs
    /\ wire \in Seq(Symbols)
    /\ buffer \in Seq(Symbols)
    /\ posted \in Seq({Parse(i.text) : i \in Inputs})
    /\ Len(posted) <= Len(sent)

\* The buffer holds the beginning of one line.
NoEndInBuffer == \A p \in 1..Len(buffer) : buffer[p] # LineFeed

\* What was parsed are the first lines that were written.
Taken == \A k \in 1..Len(posted) :
            \E i \in Inputs : posted[k] = Parse(i.text) /\ sent[k] = i.means

\* The K lines of the text v, which end at e, are those written after the first n.
Holds(v, e, K, n) ==
    /\ Framed(v, e, K)
    /\ \A k \in 1..K : \E i \in Inputs : LineOf(v, e, k) = i.text /\ sent[n + k] = i.means

\* Buffer and wire hold the other lines, whole and in order.
UnderWay ==
    \E e \in [0..(Len(sent) - Len(posted)) -> Nat] :
        Holds(buffer \o wire, e, Len(sent) - Len(posted), Len(posted))

IInv == Types /\ NoEndInBuffer /\ Taken /\ UnderWay

LEMMA SymbolsFacts ==
    /\ LineFeed \in Symbols
    /\ \A i \in Inputs : /\ i.text \in Seq(Symbols)
                         /\ \A p \in 1..Len(i.text) : i.text[p] # LineFeed
<1>1. LineFeed \in Symbols
  BY DEF Symbols, Special
<1>2. ASSUME NEW i \in Inputs
      PROVE  i.text \in Seq(Symbols) /\ \A p \in 1..Len(i.text) : i.text[p] # LineFeed
  <2>1. PICK t \in Seq(Symbols \ {LineFeed}) : t = i.text
    BY InputsAssumption DEF LineTexts
  <2>2. \A p \in 1..Len(t) : t[p] \in Symbols \ {LineFeed}
    OBVIOUS
  <2>3. t \in Seq(Symbols)
    OBVIOUS
  <2> QED
    BY <2>1, <2>2, <2>3
<1> QED
  BY <1>1, <1>2

\* With every byte and every line read there is nothing left.
LEMMA FramedNothing ==
    ASSUME NEW S, NEW v \in Seq(S), NEW e, Framed(v, e, 0)
    PROVE  v = <<>>
<1>1. Len(v) = 0
  BY DEF Framed
<1> QED
  BY <1>1

\* A buffer before a wire to which a line and its end are written.
Joined(a, b, c, d) == a \o b \o c \o d
Grown(a, b, c, d) == a \o (b \o c \o d)

LEMMA JoinTyped ==
    ASSUME NEW S, NEW a \in Seq(S), NEW b \in Seq(S)
    PROVE  a \o b \in Seq(S)
OBVIOUS

LEMMA JoinedIsGrown ==
    ASSUME NEW S, NEW a \in Seq(S), NEW b \in Seq(S), NEW c \in Seq(S), NEW d \in Seq(S)
    PROVE  Joined(a, b, c, d) = Grown(a, b, c, d)
<1>1. PICK x \in Seq(S) : x = b \o c
  BY JoinTyped
<1>2. Associates(a, b, c)
  BY Associative
<1>3. Associates(a, x, d)
  BY Associative
<1> QED
  BY <1>1, <1>2, <1>3 DEF Associates, Joined, Grown

LEMMA InitInv == Init => IInv
<1> SUFFICES ASSUME Init PROVE IInv
  OBVIOUS
<1> USE DEF Init
<1>1. Types
  BY MaxInputsAssumption DEF Types
<1>2. NoEndInBuffer /\ Taken
  BY DEF NoEndInBuffer, Taken
<1>3. UnderWay
  <2> DEFINE e == [k \in 0..0 |-> 0]
  <2>1. Len(sent) - Len(posted) = 0 /\ buffer \o wire = <<>> /\ Len(posted) = 0
    OBVIOUS
  <2>2. e \in [0..0 -> Nat] /\ e[0] = 0 /\ \A k \in 0..0 : k = 0
    OBVIOUS
  <2> HIDE DEF e
  <2>3. Framed(<<>>, e, 0)
    BY <2>2 DEF Framed
  <2>4. Holds(<<>>, e, 0, 0)
    BY <2>3 DEF Holds
  <2> QED
    BY <2>1, <2>2, <2>4 DEF UnderWay
<1> QED
  BY <1>1, <1>2, <1>3 DEF IInv

\* The client writes a line.
LEMMA WriteInv ==
    ASSUME IInv, NEW input \in Inputs, Write(input)
    PROVE  IInv'
<1> DEFINE v == buffer \o wire
           t == input.text
           w == v \o t \o <<LineFeed>>
<1>1. PICK K \in Nat : K = Len(sent) - Len(posted)
  BY DEF IInv, Types
<1>2. PICK n \in Nat : n = Len(posted)
  BY DEF IInv, Types
<1>3. PICK e \in [0..K -> Nat] : Holds(v, e, K, n)
  BY <1>1, <1>2 DEF IInv, UnderWay
<1>4. v \in Seq(Symbols) /\ t \in Seq(Symbols) /\ \A p \in 1..Len(t) : t[p] # LineFeed
  BY SymbolsFacts DEF IInv, Types
<1>5. buffer' = buffer /\ posted' = posted /\ sent' = Append(sent, input.means)
      /\ wire' = wire \o t \o <<LineFeed>> /\ Len(sent) < MaxInputs
  BY DEF Write
<1>6. sent \in Seq({i.means : i \in Inputs}) /\ wire \in Seq(Symbols) /\ buffer \in Seq(Symbols)
      /\ posted \in Seq({Parse(i.text) : i \in Inputs})
  BY DEF IInv, Types
<1>7. buffer' \o wire' = w
  <2>1. <<LineFeed>> \in Seq(Symbols)
    BY SymbolsFacts
  <2>2. Joined(buffer, wire, t, <<LineFeed>>) = Grown(buffer, wire, t, <<LineFeed>>)
    <3>1. buffer \in Seq(Symbols) /\ wire \in Seq(Symbols) /\ t \in Seq(Symbols)
      BY <1>4, <1>6
    <3> HIDE DEF t
    <3> QED
      BY <2>1, <3>1, JoinedIsGrown, ZenonT(40)
  <2> QED
    BY <1>5, <2>2 DEF Joined, Grown
<1>8. /\ sent' \in Seq({i.means : i \in Inputs}) /\ Len(sent') = Len(sent) + 1
      /\ \A k \in 1..Len(sent) : sent'[k] = sent[k]
      /\ sent'[Len(sent) + 1] = input.means
  <2>1. PICK M : M = {i.means : i \in Inputs}
    OBVIOUS
  <2>2. input.means \in M /\ sent \in Seq(M)
    BY <1>6, <2>1
  <2>3. /\ Append(sent, input.means) \in Seq(M)
        /\ Len(Append(sent, input.means)) = Len(sent) + 1
        /\ \A k \in 1..Len(sent) : Append(sent, input.means)[k] = sent[k]
        /\ Append(sent, input.means)[Len(sent) + 1] = input.means
    BY <2>2, AppendProperties
  <2> QED
    BY <1>5, <2>1, <2>3
<1>9. Types'
  <2>1. wire' \in Seq(Symbols)
    BY <1>4, <1>5, <1>6, SymbolsFacts
  <2>2. Len(sent) \in Nat /\ Len(posted) \in Nat /\ Len(posted) <= Len(sent)
    BY <1>6 DEF IInv, Types
  <2>3. Len(sent') <= MaxInputs /\ Len(posted') <= Len(sent')
    BY <1>5, <1>8, <2>2, MaxInputsAssumption
  <2> QED
    BY <1>5, <1>6, <1>8, <2>1, <2>3 DEF Types
<1>10. NoEndInBuffer'
  BY <1>5 DEF IInv, NoEndInBuffer
<1>11. Taken'
  <2>1. Len(sent) \in Nat /\ Len(posted) \in Nat /\ Len(posted) <= Len(sent)
    BY <1>6 DEF IInv, Types
  <2>2. \A k \in 1..Len(posted) : k \in 1..Len(sent)
    BY <2>1
  <2>3. \A k \in 1..Len(posted) : \E i \in Inputs : posted[k] = Parse(i.text) /\ sent[k] = i.means
    BY DEF IInv, Taken
  <2>4. \A k \in 1..Len(posted) : sent'[k] = sent[k]
    BY <1>8, <2>2
  <2> QED
    BY <1>5, <2>3, <2>4 DEF Taken
<1>12. UnderWay'
  <2> HIDE DEF v, w, t
  <2>1. Framed(v, e, K)
    BY <1>3 DEF Holds
  <2>2. PICK g : g = ExtendedEnds(e, K, Len(w))
    OBVIOUS
  <2>3. /\ Framed(w, g, K + 1)
        /\ \A k \in 1..K : LineOf(w, g, k) = LineOf(v, e, k)
        /\ LineOf(w, g, K + 1) = t
    <3>1. w = WithLine(v, t)
      BY DEF w, WithLine
    <3>2. LineFeed \in Symbols
      BY SymbolsFacts
    <3>3. Extended(w, ExtendedEnds(e, K, Len(w)), v, e, K, t)
      BY <1>4, <2>1, <3>1, <3>2, FramedAppend
    <3> QED
      BY <2>2, <3>3 DEF Extended
  <2>4. g \in [0..(K + 1) -> Nat]
    BY <2>3 DEF Framed
  <2>5. Len(sent') - Len(posted') = K + 1 /\ Len(posted') = n /\ n + (K + 1) = Len(sent) + 1
        /\ n + K = Len(sent) /\ Len(sent) \in Nat
    BY <1>1, <1>2, <1>5, <1>6, <1>8
  <2>6. ASSUME NEW k \in 1..(K + 1)
        PROVE  \E i \in Inputs : LineOf(w, g, k) = i.text /\ sent'[n + k] = i.means
    <3>1. CASE k \in 1..K
      <4>1. PICK i \in Inputs : LineOf(v, e, k) = i.text /\ sent[n + k] = i.means
        BY <1>3, <3>1 DEF Holds
      <4>2. n + k \in 1..Len(sent)
        BY <2>5, <3>1
      <4> QED
        BY <1>8, <2>3, <3>1, <4>1, <4>2
    <3>2. CASE k = K + 1
      <4>1. sent'[n + k] = input.means
        BY <1>8, <2>5, <3>2
      <4> QED
        BY <2>3, <3>2, <4>1 DEF t
    <3> QED
      BY <3>1, <3>2
  <2>7. Holds(buffer \o wire, g, K + 1, n)'
    <3>1. buffer' \o wire' = w
      BY <1>7 DEF w, v, t
    <3> QED
      BY <2>3, <2>6, <3>1 DEF Holds
  <2> QED
    BY <2>4, <2>5, <2>7 DEF UnderWay
<1> QED
  BY <1>9, <1>10, <1>11, <1>12 DEF IInv

-----------------------------------------------------------------------------
(* A chunk of n symbols goes from the wire w to the buffer a *)

Taking(a, w, n) == a \o SubSeq(w, 1, n)
TakenFrom(a, w, n) == SubSeq(a \o w, 1, Len(a) + n)

LEMMA ChunkIsPrefix ==
    ASSUME NEW S, NEW a \in Seq(S), NEW w \in Seq(S), NEW n \in 0..Len(w)
    PROVE  Taking(a, w, n) = TakenFrom(a, w, n)
<1>1. PICK A \in Nat : A = Len(a)
  OBVIOUS
<1>2. PICK W \in Nat : W = Len(w)
  OBVIOUS
<1>3. PICK v : v = a \o w
  OBVIOUS
<1>4. /\ v \in Seq(S) /\ Len(v) = A + W
      /\ \A p \in 1..A : v[p] = a[p]
      /\ \A p \in 1..W : v[A + p] = w[p]
  BY <1>1, <1>2, <1>3
<1>5. PICK c : c = SubSeq(w, 1, n)
  OBVIOUS
<1>6. c \in Seq(S) /\ Len(c) = n /\ \A p \in 1..n : c[p] = w[p]
  <2>1. PICK one \in Nat : one = 1
    OBVIOUS
  <2>2. n \in Nat /\ 1 <= one /\ one <= n + 1 /\ n <= Len(w) /\ n - one + 1 = n
    BY <2>1
  <2>3. /\ SubSeq(w, one, n) \in Seq(S) /\ Len(SubSeq(w, one, n)) = n - one + 1
        /\ \A k \in 1..(n - one + 1) : SubSeq(w, one, n)[k] = w[one + k - 1]
    BY <2>2, Slice
  <2>4. \A k \in 1..n : one + k - 1 = k
    BY <2>1
  <2> QED
    BY <1>5, <2>1, <2>2, <2>3, <2>4
<1>7. PICK l : l = a \o c
  OBVIOUS
<1>8. /\ l \in Seq(S) /\ Len(l) = A + n
      /\ \A p \in 1..A : l[p] = a[p]
      /\ \A p \in 1..n : l[A + p] = c[p]
  <2>1. PICK d \in Seq(S) : d = c
    BY <1>6
  <2>2. Len(d) = n /\ l = a \o d
    BY <1>6, <1>7, <2>1
  <2>3. PICK k \in Nat : k = n
    OBVIOUS
  <2>4. /\ l \in Seq(S) /\ Len(l) = A + k
        /\ \A p \in 1..A : l[p] = a[p]
        /\ \A p \in 1..k : l[A + p] = d[p]
    <3>1. l \in Seq(S) /\ Consists(l, a, d)
      BY <2>2, ConcatConsists
    <3> QED
      BY <1>1, <2>2, <2>3, <3>1 DEF Consists
  <2> QED
    BY <2>1, <2>3, <2>4
<1>9. PICK r : r = SubSeq(v, 1, A + n)
  OBVIOUS
<1>10. r \in Seq(S) /\ Len(r) = A + n /\ \A p \in 1..(A + n) : r[p] = v[p]
  <2>1. PICK one \in Nat : one = 1
    OBVIOUS
  <2>2. PICK b \in Nat : b = A + n
    OBVIOUS
  <2>3. 1 <= one /\ one <= b + 1 /\ b <= Len(v) /\ b - one + 1 = b
    BY <1>2, <1>4, <2>1, <2>2
  <2>4. /\ SubSeq(v, one, b) \in Seq(S) /\ Len(SubSeq(v, one, b)) = b - one + 1
        /\ \A k \in 1..(b - one + 1) : SubSeq(v, one, b)[k] = v[one + k - 1]
    BY <1>4, <2>3, Slice
  <2>5. \A k \in 1..b : one + k - 1 = k
    BY <2>1
  <2> QED
    BY <1>9, <2>1, <2>2, <2>3, <2>4, <2>5
<1>11. ASSUME NEW p \in 1..(A + n) PROVE l[p] = r[p]
  <2>1. CASE p \in 1..A
    BY <1>4, <1>8, <1>10, <2>1
  <2>2. CASE p \notin 1..A
    <3>1. p - A \in 1..n /\ p - A \in 1..W /\ A + (p - A) = p
      BY <1>2, <2>2
    <3>2. l[p] = c[p - A] /\ v[p] = w[p - A]
      BY <1>4, <1>8, <3>1
    <3> QED
      BY <1>6, <1>10, <3>1, <3>2
  <2> QED
    BY <2>1, <2>2
<1>12. l = r
  BY <1>8, <1>10, <1>11, SeqEqual
<1> QED
  BY <1>1, <1>3, <1>5, <1>7, <1>9, <1>12 DEF Taking, TakenFrom

\* The rest of the chunk after the first x symbols, and the rest of the wire.
Left(a, w, n, x) == SubSeq(a \o w, x + 1, Len(a) + n) \o SubSeq(w, n + 1, Len(w))

LEMMA LeftIsRest ==
    ASSUME NEW S, NEW a \in Seq(S), NEW w \in Seq(S), NEW n \in 0..Len(w),
           NEW x \in 0..(Len(a) + n)
    PROVE  Left(a, w, n, x) = Rest(a \o w, x)
<1>1. PICK A \in Nat : A = Len(a)
  OBVIOUS
<1>2. PICK W \in Nat : W = Len(w)
  OBVIOUS
<1>3. PICK v : v = a \o w
  OBVIOUS
<1>4. /\ v \in Seq(S) /\ Len(v) = A + W
      /\ \A p \in 1..A : v[p] = a[p]
      /\ \A p \in 1..W : v[A + p] = w[p]
  BY <1>1, <1>2, <1>3
<1>5. n \in 0..W /\ x \in 0..(A + n) /\ x \in 0..Len(v)
  BY <1>1, <1>2, <1>4
<1>6. PICK y : y = SubSeq(v, x + 1, A + n)
  OBVIOUS
<1>7. y \in Seq(S) /\ Len(y) = A + n - x /\ \A p \in 1..(A + n - x) : y[p] = v[x + p]
  <2>1. PICK c \in Nat : c = x + 1
    OBVIOUS
  <2>2. PICK b \in Nat : b = A + n
    OBVIOUS
  <2>3. 1 <= c /\ c <= b + 1 /\ b <= Len(v) /\ b - c + 1 = A + n - x
    BY <1>2, <1>4, <1>5, <2>1, <2>2
  <2>4. /\ SubSeq(v, c, b) \in Seq(S) /\ Len(SubSeq(v, c, b)) = b - c + 1
        /\ \A k \in 1..(b - c + 1) : SubSeq(v, c, b)[k] = v[c + k - 1]
    BY <1>4, <2>3, Slice
  <2>5. \A k \in 1..(A + n - x) : c + k - 1 = x + k
    BY <2>1
  <2> QED
    BY <1>6, <2>1, <2>2, <2>3, <2>4, <2>5
<1>8. PICK z : z = Rest(w, n)
  OBVIOUS
<1>9. z \in Seq(S) /\ Len(z) = W - n /\ \A p \in 1..(W - n) : z[p] = w[n + p]
  BY <1>2, <1>8, RestIs
<1>10. PICK l : l = y \o z
  OBVIOUS
<1>11. PICK Y \in Nat : Y = A + n - x
  BY <1>5
<1>12. /\ l \in Seq(S) /\ Len(l) = Y + (W - n)
       /\ \A p \in 1..Y : l[p] = y[p]
       /\ \A p \in 1..(W - n) : l[Y + p] = z[p]
  <2>1. PICK d \in Seq(S) : d = z
    BY <1>9
  <2>2. PICK f \in Seq(S) : f = y
    BY <1>7
  <2>3. PICK k \in Nat : k = W - n
    BY <1>5
  <2>4. Len(f) = Y /\ Len(d) = k /\ l = f \o d
    BY <1>7, <1>9, <1>10, <1>11, <2>1, <2>2, <2>3
  <2>5. /\ l \in Seq(S) /\ Len(l) = Y + k
        /\ \A p \in 1..Y : l[p] = f[p]
        /\ \A p \in 1..k : l[Y + p] = d[p]
    <3>1. l \in Seq(S) /\ Consists(l, f, d)
      BY <2>4, ConcatConsists
    <3> QED
      BY <2>4, <3>1 DEF Consists
  <2> QED
    BY <2>1, <2>2, <2>3, <2>5
<1>13. PICK r : r = Rest(v, x)
  OBVIOUS
<1>14. r \in Seq(S) /\ Len(r) = A + W - x /\ \A p \in 1..(A + W - x) : r[p] = v[x + p]
  <2>1. /\ Rest(v, x) \in Seq(S) /\ Len(Rest(v, x)) = Len(v) - x
        /\ \A p \in 1..(Len(v) - x) : Rest(v, x)[p] = v[x + p]
    BY <1>4, <1>5, RestIs
  <2> QED
    BY <1>4, <1>13, <2>1
<1>15. ASSUME NEW p \in 1..(A + W - x) PROVE l[p] = r[p]
  <2>1. CASE p \in 1..Y
    BY <1>7, <1>11, <1>12, <1>14, <2>1
  <2>2. CASE p \notin 1..Y
    <3>1. p - Y \in 1..(W - n) /\ Y + (p - Y) = p
      BY <1>5, <1>11, <2>2
    <3>2. n + (p - Y) \in 1..W /\ A + (n + (p - Y)) = x + p
      BY <1>5, <1>11, <3>1
    <3>3. l[p] = z[p - Y] /\ z[p - Y] = w[n + (p - Y)]
      BY <1>9, <1>12, <3>1
    <3>4. v[x + p] = w[n + (p - Y)]
      BY <1>4, <3>2
    <3> QED
      BY <1>14, <3>3, <3>4
  <2> QED
    BY <2>1, <2>2
<1>16. l = r
  <2>1. Len(l) = A + W - x /\ Len(r) = A + W - x
    BY <1>5, <1>11, <1>12, <1>14
  <2> QED
    BY <1>12, <1>14, <1>15, <2>1, SeqEqual
<1> QED
  BY <1>1, <1>2, <1>3, <1>6, <1>8, <1>10, <1>13, <1>16 DEF Left, Rest

\* The server reads a chunk, in which m lines end.
LEMMA ChunkInv ==
    ASSUME IInv, NEW n \in 1..Len(wire), OnRemoteDataChunk(n)
    PROVE  IInv' /\ Len(posted) <= Len(posted')
<1>1. /\ sent \in Seq({i.means : i \in Inputs}) /\ wire \in Seq(Symbols)
      /\ buffer \in Seq(Symbols) /\ posted \in Seq({Parse(i.text) : i \in Inputs})
      /\ Len(posted) <= Len(sent) /\ Len(sent) <= MaxInputs
  BY DEF IInv, Types
<1>2. PICK K \in Nat : K = Len(sent) - Len(posted)
  <2>1. Len(sent) \in Nat /\ Len(posted) \in Nat
    BY <1>1
  <2>2. Len(sent) - Len(posted) \in Nat
    BY <1>1, <2>1
  <2> QED
    BY <2>2
<1>3. PICK P \in Nat : P = Len(posted)
  BY <1>1
<1>4. PICK v \in Seq(Symbols) : v = buffer \o wire
  <2>1. buffer \o wire \in Seq(Symbols)
    BY <1>1
  <2> QED
    BY <2>1
<1>5. PICK e \in [0..K -> Nat] : Holds(v, e, K, P)
  BY <1>2, <1>3, <1>4 DEF IInv, UnderWay
<1>6. Framed(v, e, K)
  BY <1>5 DEF Holds
<1>7. PICK L \in Nat : L = Len(buffer) + n
  BY <1>1
<1>8. Len(v) = Len(buffer) + Len(wire) /\ L \in 0..Len(v) /\ n \in 0..Len(wire)
  <2>1. Len(v) = Len(buffer) + Len(wire)
    BY <1>1, <1>4
  <2>2. Len(buffer) \in Nat /\ Len(wire) \in Nat
    BY <1>1
  <2> QED
    BY <1>7, <2>1, <2>2
<1>9. PICK m \in 0..K : e[m] <= L /\ (m < K => L < e[m + 1])
  BY <1>6, <1>8, LinesWithin
<1>10. PICK x \in Nat : x = e[m]
  BY <1>9
<1>11. PICK b : b = SubSeq(v, 1, L)
  OBVIOUS
<1>12. buffer \o SubSeq(wire, 1, n) = b
  <2>1. Taking(buffer, wire, n) = TakenFrom(buffer, wire, n)
    BY <1>1, <1>8, ChunkIsPrefix
  <2> QED
    BY <1>4, <1>7, <1>11, <2>1 DEF Taking, TakenFrom
<1>13. PICK pieces : pieces = Pieces(b)
  OBVIOUS
<1>14. /\ Len(pieces) = m + 1
       /\ \A k \in 1..m : pieces[k] = LineOf(v, e, k)
       /\ pieces[m + 1] = SubSeq(v, x + 1, L)
  <2>1. b = FirstOf(v, L)
    BY <1>11 DEF FirstOf
  <2>2. PiecesAre(b, v, e, m, L)
    BY <1>6, <1>8, <1>9, <2>1, PiecesOfFramed
  <2> QED
    BY <1>10, <1>13, <2>2 DEF PiecesAre
<1>15. PICK q : q = [k \in 1..m |-> Parse(pieces[k])]
  OBVIOUS
<1>16. /\ wire' = SubSeq(wire, n + 1, Len(wire))
       /\ buffer' = SubSeq(v, x + 1, L)
       /\ posted' = posted \o q
       /\ sent' = sent
  <2>1. m \in Nat /\ Len(pieces) - 1 = m
    BY <1>14
  <2>2. Last(pieces) = pieces[m + 1]
    BY <1>14 DEF Last
  <2> QED
    BY <1>12, <1>13, <1>14, <1>15, <2>1, <2>2 DEF OnRemoteDataChunk
<1>17. x <= L /\ x \in 0..Len(v)
  <2>1. e[m] \in 0..Len(v)
    BY <1>6, EndsBounded
  <2> QED
    BY <1>9, <1>10, <2>1
<1>18. /\ buffer' \in Seq(Symbols) /\ Len(buffer') = L - x
       /\ \A p \in 1..(L - x) : buffer'[p] = v[x + p]
  <2>1. PICK a \in Nat : a = x + 1
    OBVIOUS
  <2>2. 1 <= a /\ a <= L + 1 /\ L <= Len(v) /\ L - a + 1 = L - x
    BY <1>8, <1>17, <2>1
  <2>3. /\ SubSeq(v, a, L) \in Seq(Symbols) /\ Len(SubSeq(v, a, L)) = L - a + 1
        /\ \A k \in 1..(L - a + 1) : SubSeq(v, a, L)[k] = v[a + k - 1]
    BY <2>2, Slice
  <2>4. \A k \in 1..(L - x) : a + k - 1 = x + k
    BY <2>1
  <2> QED
    BY <1>16, <2>1, <2>2, <2>3, <2>4
<1>19. NoEndInBuffer'
  <2>1. ASSUME NEW p \in 1..(L - x), v[x + p] = LineFeed PROVE FALSE
    <3>1. x + p \in 1..Len(v) /\ x < x + p /\ x + p <= L
      BY <1>8, <1>17
    <3>2. PICK k \in 1..K : e[k] = x + p
      BY <1>6, <2>1, <3>1 DEF Framed
    <3>3. k \in 0..K /\ m \in 0..K /\ (m < K => m + 1 \in 0..K)
      OBVIOUS
    <3>4. PICK y \in Nat : y = e[k]
      BY <3>3
    <3>5. m < k
      <4>1. k < m => y < x
        BY <1>6, <1>10, <3>3, <3>4 DEF Framed
      <4>2. k = m => y = x
        BY <1>10, <3>4
      <4> QED
        BY <3>1, <3>2, <3>4, <4>1, <4>2
    <3>6. m < K /\ (k = m + 1 \/ m + 1 < k)
      BY <3>5
    <3>7. PICK z \in Nat : z = e[m + 1] /\ L < z
      BY <1>9, <3>3, <3>6
    <3>8. m + 1 < k => z < y
      BY <1>6, <3>3, <3>4, <3>6, <3>7 DEF Framed
    <3>9. k = m + 1 => z = y
      BY <3>4, <3>7
    <3> QED
      BY <3>1, <3>2, <3>4, <3>6, <3>7, <3>8, <3>9
  <2> QED
    BY <1>18, <2>1 DEF NoEndInBuffer
<1>20. wire' \in Seq(Symbols)
  <2>1. Rest(wire, n) \in Seq(Symbols)
    BY <1>1, <1>8, RestIs
  <2> QED
    BY <1>16, <2>1 DEF Rest
<1>21. PICK w : w = Rest(v, x)
  OBVIOUS
<1>22. buffer' \o wire' = w
  <2>1. x \in 0..(Len(buffer) + n)
    BY <1>7, <1>17
  <2>2. Left(buffer, wire, n, x) = Rest(buffer \o wire, x)
    BY <1>1, <1>8, <2>1, LeftIsRest
  <2> QED
    BY <1>4, <1>7, <1>16, <1>21, <2>2 DEF Left
<1>23. PICK g : g = ShiftedEnds(e, K, m, x)
  OBVIOUS
<1>24. Framed(w, g, K - m) /\ \A k \in 1..(K - m) : LineOf(w, g, k) = LineOf(v, e, m + k)
  BY <1>6, <1>9, <1>10, <1>21, <1>23, FramedRest
<1>25. ASSUME NEW k \in 1..m
       PROVE  \E i \in Inputs : q[k] = Parse(i.text) /\ sent[P + k] = i.means
  <2>1. k \in 1..K
    OBVIOUS
  <2>2. PICK i \in Inputs : LineOf(v, e, k) = i.text /\ sent[P + k] = i.means
    BY <1>5, <2>1 DEF Holds
  <2>3. q[k] = Parse(LineOf(v, e, k))
    BY <1>14, <1>15
  <2> QED
    BY <2>2, <2>3
<1>26. PICK M : M = {Parse(i.text) : i \in Inputs}
  OBVIOUS
<1>27. q \in Seq(M) /\ Len(q) = m
  <2>1. \A k \in 1..m : q[k] \in M
    BY <1>25, <1>26
  <2>2. q = [k \in 1..m |-> q[k]]
    BY <1>15
  <2>3. q \in [1..m -> M]
    BY <2>1, <2>2
  <2>4. PICK j \in Nat : j = m
    OBVIOUS
  <2>5. q \in [1..j -> M]
    BY <2>3, <2>4
  <2>6. q \in Seq(M) /\ Len(q) = j
    BY <2>5
  <2> QED
    BY <2>4, <2>6
<1>28. /\ posted' \in Seq(M) /\ Len(posted') = P + m
       /\ \A k \in 1..P : posted'[k] = posted[k]
       /\ \A k \in 1..m : posted'[P + k] = q[k]
  <2>1. posted \in Seq(M)
    BY <1>1, <1>26
  <2>2. posted \o q \in Seq(M) /\ Consists(posted \o q, posted, q)
    BY <1>27, <2>1, ConcatConsists
  <2> QED
    BY <1>3, <1>16, <1>27, <2>2 DEF Consists
<1>29. Len(sent) = P + K /\ Len(sent) \in Nat
  BY <1>1, <1>2, <1>3
<1>30. Types'
  <2>1. Len(posted') <= Len(sent')
    BY <1>16, <1>28, <1>29
  <2> QED
    BY <1>1, <1>16, <1>18, <1>20, <1>26, <1>28, <2>1 DEF Types
<1>31. Taken'
  <2>1. ASSUME NEW k \in 1..(P + m)
        PROVE  \E i \in Inputs : posted'[k] = Parse(i.text) /\ sent'[k] = i.means
    <3>1. CASE k \in 1..P
      <4>1. PICK i \in Inputs : posted[k] = Parse(i.text) /\ sent[k] = i.means
        BY <1>3, <3>1 DEF IInv, Taken
      <4> QED
        BY <1>16, <1>28, <3>1, <4>1
    <3>2. CASE k \notin 1..P
      <4>1. k - P \in 1..m /\ P + (k - P) = k
        BY <3>2
      <4>2. PICK i \in Inputs : q[k - P] = Parse(i.text) /\ sent[P + (k - P)] = i.means
        BY <1>25, <4>1
      <4>3. posted'[P + (k - P)] = q[k - P]
        BY <1>28, <4>1
      <4> QED
        BY <1>16, <4>1, <4>2, <4>3
    <3> QED
      BY <3>1, <3>2
  <2> QED
    BY <1>28, <2>1 DEF Taken
<1>32. UnderWay'
  <2>1. PICK J \in Nat : J = K - m
    OBVIOUS
  <2>2. PICK Q \in Nat : Q = P + m
    OBVIOUS
  <2>3. Len(sent') - Len(posted') = J /\ Len(posted') = Q
    BY <1>16, <1>28, <1>29, <2>1, <2>2
  <2>4. g \in [0..J -> Nat] /\ Framed(w, g, J)
    <3>1. Framed(w, g, J)
      BY <1>24, <2>1
    <3> QED
      BY <3>1 DEF Framed
  <2>5. ASSUME NEW k \in 1..J
        PROVE  \E i \in Inputs : LineOf(w, g, k) = i.text /\ sent'[Q + k] = i.means
    <3>1. m + k \in 1..K /\ P + (m + k) = Q + k /\ k \in 1..(K - m)
      BY <2>1, <2>2
    <3>2. PICK i \in Inputs : LineOf(v, e, m + k) = i.text /\ sent[P + (m + k)] = i.means
      BY <1>5, <3>1 DEF Holds
    <3> QED
      BY <1>16, <1>24, <3>1, <3>2
  <2>6. Holds(buffer \o wire, g, J, Q)'
    BY <1>22, <2>4, <2>5 DEF Holds
  <2> QED
    BY <2>3, <2>4, <2>6 DEF UnderWay
<1> QED
  BY <1>3, <1>19, <1>28, <1>30, <1>31, <1>32 DEF IInv

-----------------------------------------------------------------------------
(* The theorems *)

LEMMA Invariance == Spec => []IInv
<1>1. IInv /\ [Next]_vars => IInv'
  <2> SUFFICES ASSUME IInv, [Next]_vars PROVE IInv'
    OBVIOUS
  <2>1. CASE \E input \in Inputs : Write(input)
    BY <2>1, WriteInv
  <2>2. CASE \E n \in 1..Len(wire) : OnRemoteDataChunk(n)
    BY <2>2, ChunkInv
  <2>3. CASE UNCHANGED vars
    <3>1. Types'
      BY <2>3 DEF IInv, Types, vars
    <3>2. NoEndInBuffer' /\ Taken'
      BY <2>3 DEF IInv, NoEndInBuffer, Taken, vars
    <3>3. UnderWay'
      BY <2>3 DEF IInv, UnderWay, Holds, vars
    <3> QED
      BY <3>1, <3>2, <3>3 DEF IInv
  <2> QED
    BY <2>1, <2>2, <2>3 DEF Next
<1> QED
  BY <1>1, InitInv, PTL DEF Spec

\* The variables have their types: above all, a line feed never gets into the
\* buffer of a session, so what waits there is the beginning of a single line, and
\* the server never makes more lines out of the bytes than were written.
THEOREM TypeCorrect == Spec => []TypeOK
<1>1. IInv => TypeOK
  <2> SUFFICES ASSUME IInv PROVE TypeOK
    OBVIOUS
  <2>1. buffer \in Seq(Symbols) /\ \A p \in 1..Len(buffer) : buffer[p] # LineFeed
    BY DEF IInv, Types, NoEndInBuffer
  <2>2. buffer \in Seq(Symbols \ {LineFeed})
    BY <2>1
  <2>3. \A k \in DOMAIN sent : \E i \in Inputs : sent[k] = i.means
    <3>1. PICK M : M = {i.means : i \in Inputs}
      OBVIOUS
    <3>2. sent \in Seq(M)
      BY <3>1 DEF IInv, Types
    <3>3. \A k \in DOMAIN sent : sent[k] \in M
      BY <3>2
    <3> QED
      BY <3>1, <3>3
  <2> QED
    BY <2>2, <2>3 DEF IInv, Types, TypeOK, LineTexts
<1> QED
  BY <1>1, Invariance, PTL

\* Once every byte was read, every line that was written has been parsed, whatever
\* the chunks were, and the buffer is empty: onRemoteDataChunk takes all complete
\* lines of a chunk, not just the first, so no client waits for a later one.
THEOREM NothingIsHeldBack == Spec => []NothingHeldBack
<1>1. IInv => NothingHeldBack
  <2> SUFFICES ASSUME IInv, wire = <<>> PROVE Len(posted) = Len(sent) /\ buffer = <<>>
    BY DEF NothingHeldBack
  <2>1. Len(sent) \in Nat /\ Len(posted) \in Nat /\ Len(posted) <= Len(sent)
        /\ buffer \in Seq(Symbols)
    BY DEF IInv, Types
  <2>2. PICK K \in Nat : K = Len(sent) - Len(posted)
    <3>1. Len(sent) - Len(posted) \in Nat
      BY <2>1
    <3> QED
      BY <3>1
  <2>3. PICK v \in Seq(Symbols) : v = buffer /\ v = buffer \o wire
    BY <2>1
  <2>4. PICK e \in [0..K -> Nat] : Framed(v, e, K)
    BY <2>2, <2>3 DEF IInv, UnderWay, Holds
  <2>5. K = 0
    <3> SUFFICES ASSUME 0 < K PROVE FALSE
      OBVIOUS
    <3>1. K \in 0..K /\ K \in 1..K /\ 0 \in 0..K
      OBVIOUS
    <3>2. e[K] = Len(v) /\ e[0] = 0 /\ e[0] < e[K] /\ e[K] \in Nat
      BY <2>4, <3>1 DEF Framed
    <3>3. e[K] \in 1..Len(v)
      BY <3>2
    <3>4. v[e[K]] = LineFeed
      BY <2>4, <3>1, <3>3 DEF Framed
    <3> QED
      BY <2>3, <3>3, <3>4 DEF IInv, NoEndInBuffer
  <2>6. v = <<>>
    BY <2>4, <2>5, FramedNothing
  <2> QED
    BY <2>1, <2>2, <2>3, <2>5, <2>6
<1> QED
  BY <1>1, Invariance, PTL

\* Every line parses as what its writer meant.
ReadAsMeant == \A i \in Inputs : Parse(i.text) = i.means

\* What was posted is the beginning of what was sent.
PostedFirst == posted = SubSeq(sent, 1, Len(posted))

LEMMA PostedIsPrefix ==
    ASSUME ReadAsMeant, IInv
    PROVE  PostedFirst
<1>1. \A k \in 1..Len(posted) : posted[k] = sent[k]
  BY DEF IInv, Taken, ReadAsMeant
<1>2. PICK M : M = {i.means : i \in Inputs} \cup {Parse(i.text) : i \in Inputs}
  OBVIOUS
<1>3. sent \in Seq(M) /\ posted \in Seq(M) /\ Len(posted) <= Len(sent)
  <2>1. PICK A : A = {i.means : i \in Inputs}
    OBVIOUS
  <2>2. PICK B : B = {Parse(i.text) : i \in Inputs}
    OBVIOUS
  <2>3. sent \in Seq(A) /\ posted \in Seq(B) /\ Len(posted) <= Len(sent)
    BY <2>1, <2>2 DEF IInv, Types
  <2>4. A \subseteq M /\ B \subseteq M
    BY <1>2, <2>1, <2>2
  <2> QED
    BY <2>3, <2>4
<1>4. PICK b \in Nat : b = Len(posted)
  BY <1>3
<1>5. PICK one \in Nat : one = 1
  OBVIOUS
<1>6. 1 <= one /\ one <= b + 1 /\ b <= Len(sent) /\ b - one + 1 = b
  BY <1>3, <1>4, <1>5
<1>7. /\ SubSeq(sent, one, b) \in Seq(M) /\ Len(SubSeq(sent, one, b)) = b - one + 1
      /\ \A k \in 1..(b - one + 1) : SubSeq(sent, one, b)[k] = sent[one + k - 1]
  BY <1>3, <1>6, Slice
<1>8. \A k \in 1..b : one + k - 1 = k
  BY <1>5
<1>9. posted = SubSeq(sent, one, b)
  BY <1>1, <1>3, <1>4, <1>6, <1>7, <1>8, SeqEqual
<1> QED
  BY <1>4, <1>5, <1>9 DEF PostedFirst

\* The server sees the messages that were written, whole, once and in order: line
\* and chunk borders are independent, and onRemoteDataChunk neither loses, joins
\* nor reorders lines.
THEOREM ImplementsChannel == ReadAsMeant => (Spec => KeepsFifo)
<1> SUFFICES ASSUME ReadAsMeant PROVE Spec => KeepsFifo
  OBVIOUS
<1>1. Init => Channel!Init
  BY DEF Init, Channel!Init
<1>2. IInv => PostedFirst
  BY PostedIsPrefix
<1>3. /\ IInv /\ IInv' /\ PostedFirst /\ PostedFirst' /\ [Next]_vars
      => [Channel!Next]_Channel!vars
  <2> SUFFICES ASSUME IInv, IInv', PostedFirst, PostedFirst', [Next]_vars
               PROVE  [Channel!Next]_Channel!vars
    OBVIOUS
  <2> USE DEF Channel!vars
  <2>1. CASE \E input \in Inputs : Write(input)
    <3>1. PICK input \in Inputs : Write(input)
      BY <2>1
    <3>2. PICK M : M = {i.means : i \in Inputs}
      OBVIOUS
    <3>3. sent \in Seq(M) /\ input.means \in M
      BY <3>2 DEF IInv, Types
    <3>4. sent' = Append(sent, input.means) /\ posted' = posted
      BY <3>1 DEF Write
    <3>5. PICK s \in Seq(M) : s = sent
      BY <3>3
    <3>6. PICK c \in M : c = input.means
      BY <3>3
    <3>7. Len(Append(s, c)) = Len(s) + 1 /\ SubSeq(Append(s, c), 1, Len(s)) = s
      BY AppendProperties
    <3>8. Channel!Send
      BY <3>4, <3>5, <3>6, <3>7 DEF Channel!Send
    <3> QED
      BY <3>8 DEF Channel!Next
  <2>2. CASE \E n \in 1..Len(wire) : OnRemoteDataChunk(n)
    <3>1. PICK n \in 1..Len(wire) : OnRemoteDataChunk(n)
      BY <2>2
    <3>2. Len(posted) <= Len(posted')
      BY <3>1, ChunkInv
    <3>3. sent' = sent
      BY <3>1 DEF OnRemoteDataChunk
    <3>4. posted = SubSeq(sent, 1, Len(posted))
      BY DEF PostedFirst
    <3>5. posted' = SubSeq(sent', 1, Len(posted'))
      BY DEF PostedFirst
    <3>6. Len(posted) \in Nat /\ Len(posted') \in Nat /\ Len(posted') <= Len(sent)
      BY <3>3 DEF IInv, Types
    <3>7. CASE Len(posted') = Len(posted)
      BY <3>3, <3>4, <3>5, <3>7
    <3>8. CASE Len(posted') # Len(posted)
      <4>1. Len(posted') \in (Len(posted) + 1)..Len(sent)
        BY <3>2, <3>6, <3>8
      <4>2. Channel!Receive(Len(posted'))
        BY <3>3, <3>5 DEF Channel!Receive
      <4> QED
        BY <4>1, <4>2 DEF Channel!Next
    <3> QED
      BY <3>7, <3>8
  <2>3. CASE UNCHANGED vars
    BY <2>3 DEF vars
  <2> QED
    BY <2>1, <2>2, <2>3 DEF Next
<1> QED
  BY <1>1, <1>2, <1>3, Invariance, PTL DEF Spec, KeepsFifo, Channel!Spec

\* With what serialize writes, ended by LF or by CR LF, nothing is left to assume: the
\* peer's messages arrive as they are, whatever their texts hold and however TCP cuts
\* the lines.
THEOREM MessagesArrive ==
    ASSUME \A i \in Inputs : /\ i.means \in Messages
                             /\ \/ i.text = Serialize(i.means)
                                \/ i.text = Append(Serialize(i.means), Return)
    PROVE  Spec => KeepsFifo
<1>1. ASSUME NEW i \in Inputs PROVE Parse(i.text) = i.means
  <2>1. PICK s \in Seq(Symbols) : s = Serialize(i.means)
    <3>1. Serialize(i.means) \in Seq(Plain)
      BY ParsesSerialized
    <3> QED
      BY <3>1 DEF Plain
  <2>2. Parse(s) = i.means
    BY <2>1, ParsesSerialized
  <2>3. Parse(Append(s, Return)) = Parse(s)
    BY LineEndsTrimmed
  <2> QED
    BY <2>1, <2>2, <2>3
<1>2. ReadAsMeant
  BY <1>1 DEF ReadAsMeant
<1> QED
  BY <1>2, ImplementsChannel

=============================================================================
