------------------------ MODULE CalculatePoints_proofs ------------------------
(***************************************************************************)
(* What calculate_points writes, for every number of points.               *)
(*                                                                         *)
(* How many entries: the loop writes one sample per iteration; the         *)
(* argument bounds the markers by what the last sample allows to have      *)
(* happened: none while x is left of a discontinuity, and at most so many  *)
(* once it is past it.                                                     *)
(*                                                                         *)
(* In which order, and with which gaps: the last sample tells how far to   *)
(* the right the entries go, and on which side of 0 and of 1 it lies tells *)
(* which branches are closed, that is, have a gap after their last value.  *)
(***************************************************************************)
EXTENDS CalculatePoints, SequenceTheorems, TLAPS

Entry == [x : Regions, gap : BOOLEAN]

\* How many markers the code writes at 0, and at 1, before the k-th sample.
MarksAtZero(k) ==
    IF SideOfZero(k - 1) = -1 /\ SideOfZero(k) = 1 THEN 2
    ELSE IF SideOfZero(k - 1) = -1 /\ NearZero(k) THEN 1 ELSE 0
MarksAtOne(k) ==
    IF SideOfOne(k - 1) = -1 /\ SideOfOne(k) = 1 THEN 1 ELSE 0

\* How many may have been written when the k-th sample was the last one.
BoundAtZero(k) ==
    IF NearZero(k) THEN IF atZero = 1 THEN 2 ELSE 1
    ELSE IF 20 * k < 10 * (points - 1) THEN 0
    ELSE IF atZero = -1 THEN 3 ELSE 2
BoundAtOne(k) == IF SideOfOne(k) = -1 THEN 0 ELSE 1

LengthInv ==
    IF i = 0 THEN Len(arr) = 0
             ELSE Len(arr) <= i + BoundAtZero(i - 1) + BoundAtOne(i - 1)

IInv == TypeOK /\ LengthInv

-----------------------------------------------------------------------------

LEMMA Concatenation ==
    ASSUME NEW S, NEW s \in Seq(S), NEW t \in Seq(S)
    PROVE  s \o t \in Seq(S) /\ Len(s \o t) = Len(s) + Len(t)
OBVIOUS

LEMMA EntriesAreTyped ==
    ASSUME NEW k \in Int
    PROVE  /\ Sample(k) \subseteq Entry
           /\ Markers(k) \in Seq(Entry)
           /\ Len(Markers(k)) = MarksAtZero(k) + MarksAtOne(k)
<1> DEFINE zero == IF SideOfZero(k - 1) = -1 /\ SideOfZero(k) = 1
                   THEN <<Gap("zero"), Value("zero")>>
                   ELSE IF SideOfZero(k - 1) = -1 /\ NearZero(k)
                        THEN <<Gap("zero")>> ELSE <<>>
           one == IF SideOfOne(k - 1) = -1 /\ SideOfOne(k) = 1
                  THEN <<Gap("one")>> ELSE <<>>
<1>1. \A x \in Regions : Gap(x) \in Entry /\ Value(x) \in Entry
  BY DEF Gap, Value, Entry
<1>2. Gap("zero") \in Entry /\ Value("zero") \in Entry /\ Gap("one") \in Entry
  BY <1>1 DEF Regions
<1>3. zero \in Seq(Entry) /\ Len(zero) = MarksAtZero(k)
  <2> HIDE DEF Entry
  <2> QED
    BY <1>2 DEF MarksAtZero
<1>4. one \in Seq(Entry) /\ Len(one) = MarksAtOne(k)
  BY <1>2 DEF MarksAtOne
<1>5. Sample(k) \subseteq Entry
  BY <1>1 DEF Sample, Regions
<1>6. Markers(k) = zero \o one
  BY DEF Markers
<1> HIDE DEF zero, one
<1>7. Markers(k) \in Seq(Entry) /\ Len(Markers(k)) = Len(zero) + Len(one)
  BY <1>3, <1>4, <1>6, Concatenation
<1> QED
  BY <1>3, <1>4, <1>5, <1>7

\* An iteration takes the bound of one sample to the bound of the next.
LEMMA MarksKeepBound ==
    ASSUME TypeOK, NEW k \in Nat, k > 0
    PROVE  /\ BoundAtZero(k - 1) + MarksAtZero(k) <= BoundAtZero(k)
           /\ BoundAtOne(k - 1) + MarksAtOne(k) <= BoundAtOne(k)
<1>1. atZero \in {-1, 0, 1} /\ atOne \in {-1, 0, 1} /\ points \in Int /\ points >= 2
  BY SidesAssumption DEF TypeOK, Sides, MinimumPoints
<1>2. BoundAtZero(k - 1) + MarksAtZero(k) <= BoundAtZero(k)
  BY <1>1 DEF BoundAtZero, MarksAtZero, SideOfZero, NearZero
<1>3. BoundAtOne(k - 1) + MarksAtOne(k) <= BoundAtOne(k)
  BY <1>1 DEF BoundAtOne, MarksAtOne, SideOfOne, NearOne
<1> QED
  BY <1>2, <1>3

LEMMA BoundsAreNumbers ==
    ASSUME NEW k \in Int
    PROVE  /\ BoundAtZero(k) \in 0..3 /\ BoundAtOne(k) \in 0..1
           /\ MarksAtZero(k) \in 0..2 /\ MarksAtOne(k) \in 0..1
BY DEF BoundAtZero, BoundAtOne, MarksAtZero, MarksAtOne

\* The loop has written its samples and no more markers than their bounds.
LEMMA Invariance == Spec => []IInv
<1>1. Init => IInv
  BY DefaultAssumption, SettingsAssumption
     DEF Init, IInv, TypeOK, LengthInv, ResolvePoints, MinimumPoints
<1>2. IInv /\ [Iterate]_vars => IInv'
  <2> SUFFICES ASSUME IInv, [Iterate]_vars PROVE IInv'
    OBVIOUS
  <2>1. CASE Iterate
    <3> DEFINE markers == IF i > 0 THEN Markers(i) ELSE <<>>
    <3>1. /\ i \in Nat /\ i < points /\ points \in Int /\ arr \in Seq(Entry)
          /\ i' = i + 1
          /\ points' = points /\ atZero' = atZero /\ atOne' = atOne
      BY <2>1 DEF IInv, TypeOK, Iterate, Entry
    <3>2. PICK sample \in Sample(i) : arr' = Append(arr \o markers, sample)
      BY <2>1 DEF Iterate
    <3>3. sample \in Entry /\ markers \in Seq(Entry)
      BY <3>1, <3>2, EntriesAreTyped
    <3>4. Len(markers) = IF i > 0 THEN MarksAtZero(i) + MarksAtOne(i) ELSE 0
      BY <3>1, EntriesAreTyped
    <3> HIDE DEF markers
    <3>5. arr' \in Seq(Entry) /\ Len(arr') = Len(arr) + Len(markers) + 1
      BY <3>1, <3>2, <3>3
    <3>6. TypeOK'
      BY <3>1, <3>5 DEF IInv, TypeOK, Entry
    <3>7. Len(arr') <= i + 1 + BoundAtZero(i) + BoundAtOne(i)
      <4>1. CASE i = 0
        <5>1. Len(markers) = 0 /\ Len(arr) = 0
          BY <3>4, <4>1 DEF IInv, LengthInv
        <5> QED
          BY <3>1, <3>5, <5>1, BoundsAreNumbers
      <4>2. CASE i > 0
        <5>1. Len(arr) <= i + BoundAtZero(i - 1) + BoundAtOne(i - 1)
          BY <3>1, <4>2 DEF IInv, LengthInv
        <5>2. Len(markers) = MarksAtZero(i) + MarksAtOne(i)
          BY <3>4, <4>2
        <5>3. /\ BoundAtZero(i - 1) + MarksAtZero(i) <= BoundAtZero(i)
              /\ BoundAtOne(i - 1) + MarksAtOne(i) <= BoundAtOne(i)
          BY <3>1, <4>2, MarksKeepBound DEF IInv
        <5>4. /\ BoundAtZero(i - 1) \in Int /\ BoundAtOne(i - 1) \in Int
              /\ BoundAtZero(i) \in Int /\ BoundAtOne(i) \in Int
              /\ MarksAtZero(i) \in Int /\ MarksAtOne(i) \in Int
          BY <3>1, BoundsAreNumbers
        <5>5. Len(arr) \in Int /\ Len(arr') = Len(arr) + Len(markers) + 1
          BY <3>1, <3>5
        <5>6. i \in Int
          BY <3>1
        <5>7. Len(arr') = Len(arr) + (MarksAtZero(i) + MarksAtOne(i)) + 1
          BY <5>2, <5>5
        <5>8. Len(arr) + MarksAtZero(i) <= i + BoundAtZero(i) + BoundAtOne(i - 1)
          BY <5>1, <5>3, <5>4, <5>5, <5>6, SMTT(40)
        <5>9. Len(arr) + (MarksAtZero(i) + MarksAtOne(i))
                <= i + BoundAtZero(i) + BoundAtOne(i)
          BY <5>3, <5>4, <5>5, <5>6, <5>8, SMTT(40)
        <5> QED
          BY <5>4, <5>5, <5>6, <5>7, <5>9, SMTT(40)
      <4> QED
        BY <3>1, <4>1, <4>2
    <3>8. LengthInv'
      BY <3>1, <3>7 DEF LengthInv, BoundAtZero, BoundAtOne, NearZero, SideOfOne, NearOne
    <3> QED
      BY <3>6, <3>8 DEF IInv
  <2>2. CASE UNCHANGED vars
    BY <2>2 DEF vars, IInv, TypeOK, LengthInv, BoundAtZero, BoundAtOne, NearZero,
                SideOfOne, NearOne
  <2> QED
    BY <2>1, <2>2
<1> QED
  BY <1>1, <1>2, PTL DEF Spec

-----------------------------------------------------------------------------

\* The loop's variables keep their types for every number of points, and the
\* entries it writes are those the client can read.
THEOREM TypeCorrect == Spec => []TypeOK
<1>1. IInv => TypeOK
  BY DEF IInv
<1> QED
  BY <1>1, Invariance, PTL

\* calculate_points keeps within its buffer of points + 3 entries for every
\* number of points, if the sample at 0 is never rounded to below 0.  (If it
\* is, MCCalculatePointsRounded.cfg shows that the buffer is one too short.)
THEOREM CapacitySuffices ==
    ASSUME -1 \notin AtZero
    PROVE  Spec => []WithinCapacity
<1>1. IInv => WithinCapacity
  <2> SUFFICES ASSUME IInv PROVE WithinCapacity
    OBVIOUS
  <2>1. /\ points \in Int /\ points >= 2 /\ i \in 0..points
        /\ atZero \in {0, 1} /\ Len(arr) \in Nat
    BY SidesAssumption DEF IInv, TypeOK, Sides, MinimumPoints
  <2>2. i > 0 => BoundAtZero(i - 1) \in 0..2 /\ BoundAtOne(i - 1) \in 0..1
    BY <2>1 DEF BoundAtZero, BoundAtOne
  <2>3. i > 0 => Len(arr) <= i + BoundAtZero(i - 1) + BoundAtOne(i - 1)
    BY <2>1 DEF IInv, LengthInv
  <2>4. i = 0 => Len(arr) = 0
    BY DEF IInv, LengthInv
  <2>5. Len(arr) <= points + 3
    BY <2>1, <2>2, <2>3, <2>4
  <2> QED
    BY <2>5 DEF WithinCapacity, Capacity
<1> QED
  BY <1>1, Invariance, PTL

\* However x is rounded, one entry more than libfn.c:24 allocates is enough.
THEOREM OneMoreSuffices == Spec => [](Len(arr) <= Capacity + 1)
<1>1. IInv => Len(arr) <= Capacity + 1
  <2> SUFFICES ASSUME IInv PROVE Len(arr) <= Capacity + 1
    OBVIOUS
  <2>1. /\ points \in Int /\ points >= 2 /\ i \in 0..points
        /\ Len(arr) \in Nat
    BY DEF IInv, TypeOK, MinimumPoints
  <2>2. i > 0 => BoundAtZero(i - 1) \in 0..3 /\ BoundAtOne(i - 1) \in 0..1
    BY <2>1, BoundsAreNumbers
  <2>3. i > 0 => Len(arr) <= i + BoundAtZero(i - 1) + BoundAtOne(i - 1)
    BY <2>1 DEF IInv, LengthInv
  <2>4. i = 0 => Len(arr) = 0
    BY DEF IInv, LengthInv
  <2>5. Len(arr) <= points + 3 + 1
    BY <2>1, <2>2, <2>3, <2>4
  <2> QED
    BY <2>5 DEF Capacity
<1> QED
  BY <1>1, Invariance, PTL

-----------------------------------------------------------------------------
(* Order and gaps *)

\* The order that holds however x is rounded: where the x at 0 may be rounded to
\* below 0, the marker at 0 before it is not told from the values left of 0.
AtMarker == IF -1 \in AtZero THEN 1 ELSE 2
Place == [x \in Regions |-> IF x = "zero" THEN AtMarker ELSE Rank[x]]

Sorted(s) == \A k \in 1..(Len(s) - 1) : Place[s[k].x] <= Place[s[k + 1].x]

Negative == {"negative"}
LeftOfOne == {"negative", "zero", "unit"}

\* Every value of s in one of the regions has a gap after it.
Closed(s, from) ==
    \A k \in DOMAIN s :
        s[k].x \in from /\ ~s[k].gap => \E m \in (k + 1)..Len(s) : s[m].gap

\* Between a value in from and a later one in to there is a gap.
Apart(s, from, to) ==
    \A k, l \in DOMAIN s :
        k < l /\ s[k].x \in from /\ ~s[k].gap /\ s[l].x \in to /\ ~s[l].gap
        => \E m \in (k + 1)..(l - 1) : s[m].gap

\* s is in order up to rank r, no branches are joined in it, and those left of 0
\* (neg), and of 1 (left), are closed if the parameter says so.
Fine(s, r, neg, left) ==
    /\ s \in Seq(Entry)
    /\ Sorted(s)
    /\ \A k \in DOMAIN s : Place[s[k].x] <= r
    /\ Apart(s, Negative, {"zero", "unit", "one", "right"})
    /\ Apart(s, LeftOfOne, {"right"})
    /\ neg => Closed(s, Negative)
    /\ left => Closed(s, LeftOfOne)

LEMMA AppendFacts ==
    ASSUME NEW s \in Seq(Entry), NEW e \in Entry
    PROVE  /\ Append(s, e) \in Seq(Entry)
           /\ Len(Append(s, e)) = Len(s) + 1 /\ Len(s) \in Nat
           /\ DOMAIN Append(s, e) = 1..(Len(s) + 1) /\ DOMAIN s = 1..Len(s)
           /\ Append(s, e)[Len(s) + 1] = e
           /\ \A k \in 1..Len(s) : Append(s, e)[k] = s[k]
OBVIOUS

LEMMA AppendSorted ==
    ASSUME NEW s \in Seq(Entry), NEW e \in Entry, Sorted(s),
           \A k \in DOMAIN s : Place[s[k].x] <= Place[e.x], Place[e.x] \in Nat
    PROVE  /\ Sorted(Append(s, e))
           /\ \A k \in DOMAIN Append(s, e) : Place[Append(s, e)[k].x] <= Place[e.x]
<1> DEFINE t == Append(s, e)
<1>1. /\ Len(t) = Len(s) + 1 /\ Len(s) \in Nat
      /\ DOMAIN t = 1..(Len(s) + 1) /\ DOMAIN s = 1..Len(s)
      /\ t[Len(s) + 1] = e
      /\ \A k \in 1..Len(s) : t[k] = s[k]
  BY AppendFacts
<1> HIDE DEF t
<1>2. ASSUME NEW k \in 1..(Len(t) - 1) PROVE Place[t[k].x] <= Place[t[k + 1].x]
  <2>1. CASE k = Len(s)
    BY <1>1, <2>1
  <2>2. CASE k # Len(s)
    <3>0. k \in Int /\ 1 <= k /\ k <= Len(s) /\ Len(s) \in Nat
      BY <1>1
    <3>1. k \in 1..(Len(s) - 1) /\ k \in 1..Len(s) /\ k + 1 \in 1..Len(s)
      BY <2>2, <3>0
    <3>2. t[k] = s[k] /\ t[k + 1] = s[k + 1]
      BY <1>1, <3>1
    <3> QED
      BY <3>1, <3>2 DEF Sorted
  <2> QED
    BY <2>1, <2>2
<1>3. \A k \in DOMAIN t : Place[t[k].x] <= Place[e.x]
  BY <1>1
<1> QED
  BY <1>2, <1>3 DEF Sorted, t

LEMMA AppendApart ==
    ASSUME NEW s \in Seq(Entry), NEW e \in Entry, NEW from, NEW to, Apart(s, from, to),
           e.gap \/ e.x \notin to \/ Closed(s, from)
    PROVE  Apart(Append(s, e), from, to)
<1> DEFINE t == Append(s, e)
<1>1. /\ Len(s) \in Nat /\ DOMAIN t = 1..(Len(s) + 1) /\ DOMAIN s = 1..Len(s)
      /\ t[Len(s) + 1] = e
      /\ \A k \in 1..Len(s) : t[k] = s[k]
  BY AppendFacts
<1> HIDE DEF t
<1>2. ASSUME NEW k \in DOMAIN t, NEW l \in DOMAIN t, k < l,
             t[k].x \in from, ~t[k].gap, t[l].x \in to, ~t[l].gap
      PROVE  \E m \in (k + 1)..(l - 1) : t[m].gap
  <2>0. k \in DOMAIN s /\ t[k] = s[k]
    BY <1>1, <1>2
  <2>1. CASE l \in DOMAIN s
    <3>1. PICK m \in (k + 1)..(l - 1) : s[m].gap
      BY <1>1, <1>2, <2>0, <2>1 DEF Apart
    <3>2. t[m] = s[m]
      BY <1>1, <2>0, <2>1
    <3> QED
      BY <3>1, <3>2
  <2>2. CASE l \notin DOMAIN s
    <3>1. l = Len(s) + 1 /\ t[l] = e
      BY <1>1, <2>2
    <3>2. PICK m \in (k + 1)..Len(s) : s[m].gap
      BY <1>2, <2>0, <3>1 DEF Closed
    <3>3. m \in (k + 1)..(l - 1) /\ t[m] = s[m]
      BY <1>1, <2>0, <3>1
    <3> QED
      BY <3>2, <3>3
  <2> QED
    BY <2>1, <2>2
<1> QED
  BY <1>2 DEF Apart, t

LEMMA AppendClosed ==
    ASSUME NEW s \in Seq(Entry), NEW e \in Entry, NEW from,
           e.gap \/ (e.x \notin from /\ Closed(s, from))
    PROVE  Closed(Append(s, e), from)
<1> DEFINE t == Append(s, e)
<1>1. /\ Len(s) \in Nat /\ Len(t) = Len(s) + 1
      /\ DOMAIN t = 1..(Len(s) + 1) /\ DOMAIN s = 1..Len(s)
      /\ t[Len(s) + 1] = e
      /\ \A k \in 1..Len(s) : t[k] = s[k]
  BY AppendFacts
<1> HIDE DEF t
<1>2. ASSUME NEW k \in DOMAIN t, t[k].x \in from, ~t[k].gap
      PROVE  \E m \in (k + 1)..Len(t) : t[m].gap
  <2>1. k \in DOMAIN s /\ t[k] = s[k]
    BY <1>1, <1>2
  <2>2. CASE e.gap
    <3>1. Len(t) \in (k + 1)..Len(t) /\ t[Len(t)] = e
      BY <1>1, <2>1
    <3> QED
      BY <2>2, <3>1
  <2>3. CASE e.x \notin from /\ Closed(s, from)
    <3>1. PICK m \in (k + 1)..Len(s) : s[m].gap
      BY <1>2, <2>1, <2>3 DEF Closed
    <3>2. m \in (k + 1)..Len(t) /\ t[m] = s[m]
      BY <1>1, <2>1
    <3> QED
      BY <3>1, <3>2
  <2> QED
    BY <2>2, <2>3
<1> QED
  BY <1>2 DEF Closed, t

LEMMA PlaceFacts ==
    /\ DOMAIN Place = Regions
    /\ \A x \in Regions : Place[x] \in 1..5
    /\ Place["negative"] = 1 /\ Place["zero"] = AtMarker /\ Place["unit"] = 3
    /\ Place["one"] = 4 /\ Place["right"] = 5
BY DEF Place, AtMarker, Rank, Regions

\* A gap closes every branch.
LEMMA FineGap ==
    ASSUME NEW s, NEW r \in Nat, NEW neg \in BOOLEAN, NEW left \in BOOLEAN,
           Fine(s, r, neg, left), NEW x \in Regions, r <= Place[x], NEW q, q = Place[x],
           NEW n \in BOOLEAN, NEW l \in BOOLEAN
    PROVE  Fine(Append(s, Gap(x)), q, n, l)
<1> DEFINE e == Gap(x)
<1>1. e \in Entry /\ e.gap /\ e.x = x
  BY DEF Gap, Entry
<1> HIDE DEF e
<1>2. /\ s \in Seq(Entry) /\ Sorted(s)
      /\ Apart(s, Negative, {"zero", "unit", "one", "right"})
      /\ Apart(s, LeftOfOne, {"right"})
  BY DEF Fine
<1>3. \A k \in DOMAIN s : Place[s[k].x] <= Place[e.x]
  <2>1. ASSUME NEW k \in DOMAIN s PROVE Place[s[k].x] <= Place[e.x]
    <3>0. s[k] \in Entry
      BY <1>2
    <3>1. s[k].x \in Regions
      BY <3>0 DEF Entry
    <3>2. Place[s[k].x] <= r /\ Place[s[k].x] \in Nat /\ Place[x] \in Nat
      BY <3>1, PlaceFacts DEF Fine
    <3> QED
      BY <1>1, <3>2
  <2> QED
    BY <2>1
<1>4. Place[e.x] \in Nat
  BY <1>1, PlaceFacts
<1>5. /\ Sorted(Append(s, e))
      /\ \A k \in DOMAIN Append(s, e) : Place[Append(s, e)[k].x] <= Place[e.x]
  BY <1>1, <1>2, <1>3, <1>4, AppendSorted
<1>6. /\ Apart(Append(s, e), Negative, {"zero", "unit", "one", "right"})
      /\ Apart(Append(s, e), LeftOfOne, {"right"})
  BY <1>1, <1>2, AppendApart
<1>7. Closed(Append(s, e), Negative) /\ Closed(Append(s, e), LeftOfOne)
  BY <1>1, <1>2, AppendClosed
<1>8. Append(s, e) \in Seq(Entry)
  BY <1>1, <1>2
<1> QED
  BY <1>1, <1>5, <1>6, <1>7, <1>8 DEF Fine, e

\* A value needs the branches left of its own closed, and opens its own.
LEMMA FineValue ==
    ASSUME NEW s, NEW r \in Nat, NEW neg \in BOOLEAN, NEW left \in BOOLEAN,
           Fine(s, r, neg, left), NEW x \in Regions, r <= Place[x],
           x = "negative" \/ neg, x # "right" \/ left, NEW q, q = Place[x],
           NEW n \in BOOLEAN, n => x # "negative",
           NEW l \in BOOLEAN, l => x = "right" \/ (x = "one" /\ left)
    PROVE  Fine(Append(s, Value(x)), q, n, l)
<1> DEFINE e == Value(x)
<1>1. e \in Entry /\ e.x = x
  BY DEF Value, Entry
<1> HIDE DEF e
<1>2. /\ s \in Seq(Entry) /\ Sorted(s)
      /\ Apart(s, Negative, {"zero", "unit", "one", "right"})
      /\ Apart(s, LeftOfOne, {"right"})
      /\ neg => Closed(s, Negative)
      /\ left => Closed(s, LeftOfOne)
  BY DEF Fine
<1>3. \A k \in DOMAIN s : Place[s[k].x] <= Place[e.x]
  <2>1. ASSUME NEW k \in DOMAIN s PROVE Place[s[k].x] <= Place[e.x]
    <3>0. s[k] \in Entry
      BY <1>2
    <3>1. s[k].x \in Regions
      BY <3>0 DEF Entry
    <3>2. Place[s[k].x] <= r /\ Place[s[k].x] \in Nat /\ Place[x] \in Nat
      BY <3>1, PlaceFacts DEF Fine
    <3> QED
      BY <1>1, <3>2
  <2> QED
    BY <2>1
<1>4. Place[e.x] \in Nat
  BY <1>1, PlaceFacts
<1>5. /\ Sorted(Append(s, e))
      /\ \A k \in DOMAIN Append(s, e) : Place[Append(s, e)[k].x] <= Place[e.x]
  BY <1>1, <1>2, <1>3, <1>4, AppendSorted
<1>6. Apart(Append(s, e), Negative, {"zero", "unit", "one", "right"})
  <2>1. e.x \notin {"zero", "unit", "one", "right"} \/ Closed(s, Negative)
    BY <1>1, <1>2
  <2> QED
    BY <1>1, <1>2, <2>1, AppendApart
<1>7. Apart(Append(s, e), LeftOfOne, {"right"})
  <2>1. e.x \notin {"right"} \/ Closed(s, LeftOfOne)
    BY <1>1, <1>2
  <2> QED
    BY <1>1, <1>2, <2>1, AppendApart
<1>8. x # "negative" => Closed(Append(s, e), Negative)
  BY <1>1, <1>2, AppendClosed DEF Negative
<1>9. x = "right" \/ (x = "one" /\ left) => Closed(Append(s, e), LeftOfOne)
  <2>1. SUFFICES ASSUME x = "right" \/ (x = "one" /\ left) PROVE Closed(Append(s, e), LeftOfOne)
    OBVIOUS
  <2>2. e.x \notin LeftOfOne /\ Closed(s, LeftOfOne)
    BY <1>1, <1>2, <2>1 DEF LeftOfOne
  <2> QED
    BY <1>1, <1>2, <2>2, AppendClosed
<1>10. Append(s, e) \in Seq(Entry)
  BY <1>1, <1>2
<1> QED
  BY <1>1, <1>5, <1>6, <1>7, <1>8, <1>9, <1>10 DEF Fine, e

\* Every branch counts as open if it is said to be.
LEMMA FineWeaker ==
    ASSUME NEW s, NEW r \in Nat, NEW neg \in BOOLEAN, NEW left \in BOOLEAN,
           Fine(s, r, neg, left),
           NEW q \in Nat, r <= q, NEW n \in BOOLEAN, NEW l \in BOOLEAN, n => neg, l => left
    PROVE  Fine(s, q, n, l)
<1>1. ASSUME NEW k \in DOMAIN s PROVE Place[s[k].x] <= q
  <2>1. s[k] \in Entry
    BY DEF Fine
  <2>2. Place[s[k].x] \in 1..5
    BY <2>1, PlaceFacts DEF Entry
  <2> QED
    BY <2>2 DEF Fine
<1> QED
  BY <1>1 DEF Fine

-----------------------------------------------------------------------------
(* The loop keeps order and gaps *)

\* The place of the k-th sample, and whether after it no branch left of 0, or of
\* 1, is open.
PlaceAt(k) ==
    IF NearOne(k) THEN 4
    ELSE IF SideOfZero(k) = -1 THEN 1
    ELSE IF SideOfOne(k) = -1 THEN IF NearZero(k) THEN AtMarker ELSE 3
    ELSE 5
ClosedNeg(k) == SideOfZero(k) # -1
ClosedLeft(k) == SideOfOne(k) # -1

\* The markers at 0 and at 1 before the k-th sample, and when there are some.
Crosses0(k) == SideOfZero(k - 1) = -1 /\ SideOfZero(k) = 1
Touches0(k) == ~Crosses0(k) /\ SideOfZero(k - 1) = -1 /\ NearZero(k)
Crosses1(k) == SideOfOne(k - 1) = -1 /\ SideOfOne(k) = 1
Markers0(k) == IF Crosses0(k) THEN <<Gap("zero"), Value("zero")>>
               ELSE IF Touches0(k) THEN <<Gap("zero")>> ELSE <<>>
Markers1(k) == IF Crosses1(k) THEN <<Gap("one")>> ELSE <<>>

Place0(k) == IF Crosses0(k) \/ Touches0(k) THEN AtMarker ELSE PlaceAt(k - 1)
Place1(k) == IF Crosses1(k) THEN 4 ELSE Place0(k)
Closed1(k) == Crosses1(k) \/ ClosedLeft(k - 1)

OrderInv ==
    IF i = 0 THEN arr = <<>>
             ELSE Fine(arr, PlaceAt(i - 1), ClosedNeg(i - 1), ClosedLeft(i - 1))

LEMMA StepFacts ==
    ASSUME TypeOK, NEW k \in Nat, k > 0
    PROVE  /\ PlaceAt(k - 1) \in Nat /\ Place0(k) \in Nat /\ Place1(k) \in Nat /\ PlaceAt(k) \in Nat
           /\ Place1(k) <= PlaceAt(k)
           /\ Crosses0(k) \/ Touches0(k) => PlaceAt(k - 1) <= AtMarker
           /\ Crosses1(k) => Place0(k) <= 4
           /\ ~Crosses0(k) /\ ~Touches0(k) /\ ClosedNeg(k) => ClosedNeg(k - 1)
           /\ Crosses0(k) \/ Touches0(k) => ~ClosedLeft(k - 1)
           /\ ~NearOne(k) /\ ClosedLeft(k) => Closed1(k)
<1>1. /\ atZero \in {-1, 0, 1} /\ atOne \in {-1, 0, 1} /\ points \in Int /\ points >= 2
      /\ AtMarker \in {1, 2} /\ (atZero = -1 => AtMarker = 1)
  BY SidesAssumption DEF TypeOK, Sides, MinimumPoints, AtMarker
<1> USE DEF PlaceAt, Place0, Place1, Crosses0, Touches0, Crosses1, ClosedNeg, ClosedLeft, Closed1,
            SideOfZero, SideOfOne, NearZero, NearOne
<1>2. /\ PlaceAt(k - 1) \in Nat /\ Place0(k) \in Nat /\ Place1(k) \in Nat /\ PlaceAt(k) \in Nat
  BY <1>1
<1>3. Place1(k) <= PlaceAt(k)
  BY <1>1
<1>4. Crosses0(k) \/ Touches0(k) => PlaceAt(k - 1) <= AtMarker
  BY <1>1
<1>5. Crosses1(k) => Place0(k) <= 4
  BY <1>1
<1>6. ~Crosses0(k) /\ ~Touches0(k) /\ ClosedNeg(k) => ClosedNeg(k - 1)
  BY <1>1
<1>7. Crosses0(k) \/ Touches0(k) => ~ClosedLeft(k - 1)
  BY <1>1
<1>8. ~NearOne(k) /\ ClosedLeft(k) => Closed1(k)
  BY <1>1
<1> QED
  BY <1>2, <1>3, <1>4, <1>5, <1>6, <1>7, <1>8

LEMMA TruthValues ==
    ASSUME NEW k
    PROVE  ClosedNeg(k) \in BOOLEAN /\ ClosedLeft(k) \in BOOLEAN /\ Closed1(k) \in BOOLEAN
BY DEF ClosedNeg, ClosedLeft, Closed1, Crosses1

\* The markers at 0 keep the entries in order and close the branch left of 0.
LEMMA Markers0Fine ==
    ASSUME TypeOK, NEW k \in Nat, k > 0, NEW s,
           Fine(s, PlaceAt(k - 1), ClosedNeg(k - 1), ClosedLeft(k - 1))
    PROVE  Fine(s \o Markers0(k), Place0(k), ClosedNeg(k), ClosedLeft(k - 1))
<1>1. s \in Seq(Entry) /\ Gap("zero") \in Entry /\ Value("zero") \in Entry
  BY DEF Fine, Gap, Value, Entry, Regions
<1>2. "zero" \in Regions /\ Place["zero"] = AtMarker /\ AtMarker \in Nat
  BY PlaceFacts DEF Regions, AtMarker
<1>3. ASSUME Crosses0(k) \/ Touches0(k), NEW n \in BOOLEAN, NEW l \in BOOLEAN
      PROVE  Fine(Append(s, Gap("zero")), Place0(k), n, l)
  <2>1. PlaceAt(k - 1) \in Nat /\ PlaceAt(k - 1) <= AtMarker
    BY <1>3, StepFacts
  <2>2. Place0(k) = Place["zero"]
    BY <1>2, <1>3 DEF Place0
  <2> QED
    BY <1>2, <2>1, <2>2, TruthValues, FineGap
<1>4. CASE Crosses0(k)
  <2> DEFINE t == Append(s, Gap("zero"))
  <2>1. Fine(t, Place0(k), TRUE, TRUE)
    BY <1>3, <1>4
  <2>2. s \o Markers0(k) = Append(t, Value("zero"))
    BY <1>1, <1>4 DEF Markers0
  <2> HIDE DEF t
  <2>3. Place0(k) = Place["zero"] /\ Place0(k) \in Nat /\ Place0(k) <= Place["zero"]
    BY <1>2, <1>4 DEF Place0
  <2>4. ~ClosedLeft(k - 1)
    BY <1>4, StepFacts
  <2> QED
    BY <1>2, <2>1, <2>2, <2>3, <2>4, TruthValues, FineValue
<1>5. CASE Touches0(k)
  <2>1. s \o Markers0(k) = Append(s, Gap("zero"))
    BY <1>1, <1>5 DEF Markers0, Touches0
  <2> QED
    BY <1>3, <1>5, <2>1, TruthValues
<1>6. CASE ~Crosses0(k) /\ ~Touches0(k)
  <2>1. s \o Markers0(k) = s
    BY <1>1, <1>6 DEF Markers0
  <2>2. Place0(k) = PlaceAt(k - 1) /\ PlaceAt(k - 1) \in Nat
    BY <1>6, StepFacts DEF Place0
  <2>3. ClosedNeg(k) => ClosedNeg(k - 1)
    BY <1>6, StepFacts
  <2>4. PlaceAt(k - 1) <= PlaceAt(k - 1)
    BY <2>2
  <2> QED
    BY <2>1, <2>2, <2>3, <2>4, TruthValues, FineWeaker
<1> QED
  BY <1>4, <1>5, <1>6

\* The marker at 1 keeps the order and closes every branch left of 1.
LEMMA Markers1Fine ==
    ASSUME TypeOK, NEW k \in Nat, k > 0, NEW s,
           Fine(s, Place0(k), ClosedNeg(k), ClosedLeft(k - 1))
    PROVE  Fine(s \o Markers1(k), Place1(k), ClosedNeg(k), Closed1(k))
<1>1. s \in Seq(Entry) /\ Gap("one") \in Entry
  BY DEF Fine, Gap, Entry, Regions
<1>2. "one" \in Regions /\ Place["one"] = 4
  BY PlaceFacts DEF Regions
<1>3. Place0(k) \in Nat
  BY StepFacts
<1>4. CASE Crosses1(k)
  <2>1. Place0(k) <= 4
    BY <1>4, StepFacts
  <2>2. s \o Markers1(k) = Append(s, Gap("one"))
    BY <1>1, <1>4 DEF Markers1
  <2>3. Place1(k) = Place["one"]
    BY <1>2, <1>4 DEF Place1
  <2> QED
    BY <1>2, <1>3, <2>1, <2>2, <2>3, TruthValues, FineGap
<1>5. CASE ~Crosses1(k)
  <2>1. s \o Markers1(k) = s
    BY <1>1, <1>5 DEF Markers1
  <2>2. Place1(k) = Place0(k) /\ (Closed1(k) <=> ClosedLeft(k - 1))
    BY <1>5 DEF Place1, Closed1
  <2>3. Place0(k) <= Place0(k)
    BY <1>3
  <2> QED
    BY <1>3, <2>1, <2>2, <2>3, TruthValues, FineWeaker
<1> QED
  BY <1>4, <1>5

\* The sample goes on in order; its branch, if it begins one, may do so.
LEMMA SampleFine ==
    ASSUME TypeOK, NEW k \in Nat, k > 0, NEW s,
           Fine(s, Place1(k), ClosedNeg(k), Closed1(k)), NEW e \in Sample(k)
    PROVE  Fine(Append(s, e), PlaceAt(k), ClosedNeg(k), ClosedLeft(k))
<1>1. Place1(k) \in Nat /\ PlaceAt(k) \in Nat /\ Place1(k) <= PlaceAt(k)
  BY StepFacts
<1>2. points \in Int /\ points >= 2 /\ atZero \in {-1, 0, 1} /\ atOne \in {-1, 0, 1}
  BY SidesAssumption DEF TypeOK, Sides, MinimumPoints
<1>3. \/ \E x \in Regions : e = Gap(x) /\ Place[x] = PlaceAt(k)
      \/ \E x \in Regions :
            /\ e = Value(x) /\ Place[x] = PlaceAt(k)
            /\ x = "negative" <=> ~ClosedNeg(k)
            /\ x = "right" <=> ClosedLeft(k)
            /\ x # "one" /\ ~NearOne(k)
  <2>1. \A x \in Regions : Place[x] \in 1..5
    BY PlaceFacts
  <2>2. CASE NearOne(k)
    <3>1. e = Gap("one") /\ PlaceAt(k) = 4
      BY <2>2 DEF Sample, PlaceAt
    <3> QED
      BY <3>1, PlaceFacts DEF Regions
  <2>3. CASE ~NearOne(k) /\ SideOfZero(k) = -1
    <3>1. e = Value("negative") /\ PlaceAt(k) = 1
      BY <2>3 DEF Sample, PlaceAt
    <3>2. ~ClosedNeg(k) /\ ~ClosedLeft(k)
      BY <1>2, <2>3 DEF ClosedNeg, ClosedLeft, SideOfOne, SideOfZero, NearOne, NearZero
    <3> QED
      BY <2>3, <3>1, <3>2, PlaceFacts DEF Regions
  <2>4. CASE ~NearOne(k) /\ SideOfZero(k) # -1 /\ SideOfOne(k) = -1 /\ NearZero(k)
    <3>1. e = Value("zero") /\ PlaceAt(k) = AtMarker
      BY <2>4 DEF Sample, PlaceAt
    <3>2. ClosedNeg(k) /\ ~ClosedLeft(k)
      BY <1>2, <2>4 DEF ClosedNeg, ClosedLeft, NearZero
    <3> QED
      BY <2>4, <3>1, <3>2, PlaceFacts DEF Regions
  <2>5. CASE ~NearOne(k) /\ SideOfZero(k) # -1 /\ SideOfOne(k) = -1 /\ ~NearZero(k)
    <3>1. (e = Value("unit") \/ e = Gap("unit")) /\ PlaceAt(k) = 3
      BY <2>5 DEF Sample, PlaceAt
    <3>2. ClosedNeg(k) /\ ~ClosedLeft(k)
      BY <1>2, <2>5 DEF ClosedNeg, ClosedLeft, SideOfZero
    <3> QED
      BY <2>5, <3>1, <3>2, PlaceFacts DEF Regions
  <2>6. CASE ~NearOne(k) /\ SideOfZero(k) # -1 /\ SideOfOne(k) # -1
    <3>1. e = Value("right") /\ PlaceAt(k) = 5
      BY <2>6 DEF Sample, PlaceAt
    <3>2. ClosedNeg(k) /\ ClosedLeft(k)
      BY <1>2, <2>6 DEF ClosedNeg, ClosedLeft, SideOfOne, SideOfZero
    <3> QED
      BY <2>6, <3>1, <3>2, PlaceFacts DEF Regions
  <2> QED
    BY <2>2, <2>3, <2>4, <2>5, <2>6
<1>4. CASE \E x \in Regions : e = Gap(x) /\ Place[x] = PlaceAt(k)
  <2>1. PICK x \in Regions : e = Gap(x) /\ Place[x] = PlaceAt(k)
    BY <1>4
  <2> QED
    BY <1>1, <2>1, TruthValues, FineGap
<1>5. CASE \E x \in Regions :
              /\ e = Value(x) /\ Place[x] = PlaceAt(k)
              /\ x = "negative" <=> ~ClosedNeg(k)
              /\ x = "right" <=> ClosedLeft(k)
              /\ x # "one" /\ ~NearOne(k)
  <2>1. PICK x \in Regions :
              /\ e = Value(x) /\ Place[x] = PlaceAt(k)
              /\ x = "negative" <=> ~ClosedNeg(k)
              /\ x = "right" <=> ClosedLeft(k)
              /\ x # "one" /\ ~NearOne(k)
    BY <1>5
  <2>2. (x = "negative" \/ ClosedNeg(k)) /\ (x # "right" \/ Closed1(k))
    BY <2>1, StepFacts
  <2> QED
    BY <1>1, <2>1, <2>2, TruthValues, FineValue
<1> QED
  BY <1>3, <1>4, <1>5

\* Before the loop there is nothing; its first sample is left of 0.
LEMMA FirstFine ==
    ASSUME TypeOK, NEW e \in Sample(0)
    PROVE  Fine(Append(<<>>, e), PlaceAt(0), ClosedNeg(0), ClosedLeft(0))
<1>1. points \in Int /\ points >= 2
  BY DEF TypeOK, MinimumPoints
<1>2. e = Value("negative") /\ PlaceAt(0) = 1 /\ ~ClosedNeg(0) /\ ~ClosedLeft(0)
  BY <1>1 DEF Sample, PlaceAt, ClosedNeg, ClosedLeft, SideOfZero, SideOfOne, NearZero, NearOne
<1>3. Fine(<<>>, 1, FALSE, FALSE)
  BY DEF Fine, Sorted, Apart
<1>4. "negative" \in Regions /\ Place["negative"] = 1
  BY PlaceFacts DEF Regions
<1>5. PlaceAt(0) = Place["negative"] /\ 1 <= Place["negative"]
  BY <1>2, <1>4
<1> QED
  BY <1>2, <1>3, <1>4, <1>5, TruthValues, FineValue

\* However x is rounded, the entries keep their places and branches stay apart.
LEMMA OrderInvariance == Spec => []OrderInv
<1>1. Init => OrderInv
  BY DEF Init, OrderInv
<1>2. TypeOK /\ OrderInv /\ [Iterate]_vars => OrderInv'
  <2> SUFFICES ASSUME TypeOK, OrderInv, [Iterate]_vars PROVE OrderInv'
    OBVIOUS
  <2>1. CASE Iterate
    <3>1. /\ i \in Nat /\ i' = i + 1
          /\ points' = points /\ atZero' = atZero /\ atOne' = atOne
      BY <2>1 DEF TypeOK, Iterate
    <3>2. PICK e \in Sample(i) :
            arr' = Append(arr \o (IF i > 0 THEN Markers(i) ELSE <<>>), e)
      BY <2>1 DEF Iterate
    <3>3. Fine(arr', PlaceAt(i), ClosedNeg(i), ClosedLeft(i))
      <4>1. CASE i = 0
        <5>1. arr' = Append(<<>>, e)
          BY <3>2, <4>1 DEF OrderInv
        <5> QED
          BY <3>2, <4>1, <5>1, FirstFine
      <4>2. CASE i > 0
        <5>1. Fine(arr, PlaceAt(i - 1), ClosedNeg(i - 1), ClosedLeft(i - 1))
          BY <4>2 DEF OrderInv
        <5>2. Fine((arr \o Markers0(i)) \o Markers1(i), Place1(i), ClosedNeg(i), Closed1(i))
          BY <3>1, <4>2, <5>1, Markers0Fine, Markers1Fine
        <5>3. Fine(Append((arr \o Markers0(i)) \o Markers1(i), e),
                   PlaceAt(i), ClosedNeg(i), ClosedLeft(i))
          BY <3>1, <3>2, <4>2, <5>2, SampleFine
        <5>4. Markers(i) = Markers0(i) \o Markers1(i)
          BY DEF Markers, Markers0, Markers1, Crosses0, Touches0, Crosses1
        <5>5. Gap("zero") \in Entry /\ Value("zero") \in Entry /\ Gap("one") \in Entry
          BY DEF Gap, Value, Entry, Regions
        <5>6. Markers0(i) \in Seq(Entry) /\ Markers1(i) \in Seq(Entry) /\ arr \in Seq(Entry)
          <6>1. Markers0(i) \in Seq(Entry)
            <7> HIDE DEF Entry
            <7> QED
              BY <5>5 DEF Markers0
          <6> QED
            BY <5>1, <5>5, <6>1 DEF Markers1, Fine
        <5>7. (arr \o Markers0(i)) \o Markers1(i) = arr \o Markers(i)
          BY <5>4, <5>6, ConcatAssociative
        <5> QED
          BY <3>2, <4>2, <5>3, <5>7
      <4> QED
        BY <3>1, <4>1, <4>2
    <3>4. i' # 0 /\ i' - 1 = i
      BY <3>1
    <3> QED
      BY <3>1, <3>3, <3>4
      DEF OrderInv, PlaceAt, ClosedNeg, ClosedLeft, SideOfZero, SideOfOne, NearZero, NearOne
  <2>2. CASE UNCHANGED vars
    BY <2>2 DEF vars, OrderInv, PlaceAt, ClosedNeg, ClosedLeft,
                SideOfZero, SideOfOne, NearZero, NearOne
  <2> QED
    BY <2>1, <2>2
<1> QED
  BY <1>1, <1>2, TypeCorrect, PTL DEF Spec

\* For every number of points, and however x is rounded at 0 and 1, no line of
\* the plot joins two branches: the markers are where they are needed.
THEOREM GapsBetweenBranches == Spec => []NoBlueWall
<1>1. OrderInv => NoBlueWall
  <2> SUFFICES ASSUME OrderInv PROVE NoBlueWall
    OBVIOUS
  <2>1. /\ Apart(arr, Negative, {"zero", "unit", "one", "right"})
        /\ Apart(arr, LeftOfOne, {"right"})
    <3>1. CASE i = 0
      BY <3>1 DEF OrderInv, Apart
    <3>2. CASE i # 0
      BY <3>2 DEF OrderInv, Fine
    <3> QED
      BY <3>1, <3>2
  <2> QED
    BY <2>1 DEF NoBlueWall, Separated, Apart, Negative, LeftOfOne
<1> QED
  BY <1>1, OrderInvariance, PTL

\* For every number of points the entries go from left to right, if the sample
\* at 0 is never rounded to below 0.  (For 155 points it is: libfn.c:51 writes
\* the marker at 0.0, and libfn.c:78 an x of -1.8e-15 behind it.)
THEOREM InOrder ==
    ASSUME -1 \notin AtZero
    PROVE  Spec => []LeftToRight
<1>1. OrderInv => LeftToRight
  <2> SUFFICES ASSUME OrderInv PROVE LeftToRight
    OBVIOUS
  <2>1. Place = Rank
    BY DEF Place, AtMarker, Rank, Regions
  <2>2. CASE i = 0
    BY <2>2 DEF OrderInv, LeftToRight
  <2>3. CASE i # 0
    BY <2>1, <2>3 DEF OrderInv, Fine, Sorted, LeftToRight
  <2> QED
    BY <2>2, <2>3
<1> QED
  BY <1>1, OrderInvariance, PTL

=============================================================================
