---------------------------- MODULE ParseUnsigned ----------------------------
(***************************************************************************)
(* The loop of parseUnsigned, which reads a correlation id from its        *)
(* digits: fixed-width arithmetic that must refuse a number before it      *)
(* overflows, and no other.  One iteration is one action; the characters   *)
(* come from outside.  parse and tryParseCorrelationId take the result of  *)
(* this function for the id of a request, so a number that wrapped around  *)
(* would name another request.                                             *)
(***************************************************************************)
EXTENDS Naturals

CONSTANTS Max,          \* UINT64_MAX
          MaxLength     \* bound: characters read

\* 2^64 - 1 is far above 9; with less, (UINT64_MAX - digit) would wrap itself.
ASSUME MaxAssumption == Max \in Nat /\ Max >= 9
ASSUME LengthAssumption == MaxLength \in Nat

Digits == 0..9

VARIABLES
    i,         \* characters read
    result,    \* std::uint64_t result
    status,    \* "reading", or which exception was thrown
    exact      \* history: the number the digits so far denote

vars == <<i, result, status, exact>>

Init ==
    /\ i = 0
    /\ result = 0
    /\ status = "reading"
    /\ exact = 0

\* Faulty variant: the test leaves the digit out.
TooLargeBefore(digit) == result > Max \div 10

\* result * 10 + digit would not fit.
TooLarge(digit) == result > (Max - digit) \div 10

\* A digit; arithmetic is modulo Max + 1.
ReadDigit(digit) ==
    /\ status = "reading" /\ i < MaxLength
    /\ i' = i + 1
    /\ exact' = exact * 10 + digit
    /\ IF TooLarge(digit)
       THEN status' = "too large" /\ UNCHANGED result
       ELSE /\ result' = (result * 10 + digit) % (Max + 1)
            /\ UNCHANGED status

\* Any other character.
ReadOther ==
    /\ status = "reading" /\ i < MaxLength
    /\ i' = i + 1
    /\ status' = "not unsigned"
    /\ UNCHANGED <<result, exact>>

Next == ReadOther \/ \E digit \in Digits : ReadDigit(digit)

Spec == Init /\ [][Next]_vars

-----------------------------------------------------------------------------
(* Properties *)

\* The loop is exact at every length: what it has accumulated is the number the
\* digits denote, and a number is refused as too large exactly if it exceeds
\* 2^64 - 1 (rejectsOverflowingCorrelationId of tst_protocol.cpp tries one).
Exact ==
    /\ status = "reading" => result = exact /\ exact <= Max
    /\ status = "too large" => exact > Max

=============================================================================
