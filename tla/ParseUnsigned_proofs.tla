------------------------- MODULE ParseUnsigned_proofs -------------------------
(***************************************************************************)
(* parseUnsigned is exact for every width of the integer type and every    *)
(* length of the input.                                                    *)
(***************************************************************************)
EXTENDS ParseUnsigned, TLAPS

IInv ==
    /\ result \in 0..Max
    /\ exact \in Nat
    /\ status \in {"reading", "too large", "not unsigned"}
    /\ Exact

\* The test of the loop refuses exactly the digits that do not fit.
LEMMA TestIsExact ==
    ASSUME NEW r \in 0..Max, NEW d \in Digits
    PROVE  r > (Max - d) \div 10 <=> r * 10 + d > Max
BY MaxAssumption DEF Digits

\* A sum that fits is not changed by the reduction to the type's width.
LEMMA NoReduction ==
    ASSUME NEW s \in 0..Max
    PROVE  s % (Max + 1) = s
BY MaxAssumption

\* What parseUnsigned has read is always exactly what was written.
THEOREM Exactness == Spec => []Exact
<1>1. Init => IInv
  BY MaxAssumption DEF Init, IInv, Exact
<1>2. IInv /\ [Next]_vars => IInv'
  <2> SUFFICES ASSUME IInv, [Next]_vars PROVE IInv'
    OBVIOUS
  <2>1. ASSUME NEW digit \in Digits, ReadDigit(digit) PROVE IInv'
    <3>1. status = "reading" /\ exact' = exact * 10 + digit
      BY <2>1, Zenon DEF ReadDigit
    <3>2. result = exact /\ result \in 0..Max /\ exact \in Nat /\ digit \in Nat
      BY <3>1 DEF IInv, Exact, Digits
    <3>3. TooLarge(digit) <=> exact * 10 + digit > Max
      BY <3>2, TestIsExact DEF TooLarge
    <3>4. CASE TooLarge(digit)
      <4>1. status' = "too large" /\ result' = result
        BY <2>1, <3>4, Zenon DEF ReadDigit
      <4>2. exact' \in Nat /\ exact' > Max
        BY <3>1, <3>2, <3>3, <3>4, MaxAssumption
      <4> QED
        BY <3>2, <4>1, <4>2 DEF IInv, Exact
    <3>5. CASE ~TooLarge(digit)
      <4>1. exact' \in 0..Max
        BY <3>1, <3>2, <3>3, <3>5, MaxAssumption
      <4>2. result' = (result * 10 + digit) % (Max + 1) /\ status' = status
        BY <2>1, <3>5, Zenon DEF ReadDigit
      <4>3. result' = exact'
        BY <3>1, <3>2, <4>1, <4>2, NoReduction
      <4> QED
        BY <3>1, <4>1, <4>2, <4>3, MaxAssumption DEF IInv, Exact
    <3> QED
      BY <3>4, <3>5
  <2>2. CASE ReadOther
    BY <2>2 DEF ReadOther, IInv, Exact
  <2>3. CASE UNCHANGED vars
    BY <2>3 DEF vars, IInv, Exact
  <2> QED
    BY <2>1, <2>2, <2>3 DEF Next
<1>3. IInv => Exact
  BY DEF IInv
<1> QED
  BY <1>1, <1>2, <1>3, PTL DEF Spec
=============================================================================
