--------------------------- MODULE CalculatePoints ---------------------------
(***************************************************************************)
(* calculate_points of libfn: the function is sampled at `points' equally  *)
(* spaced x from -10 to 10 into a buffer of points + 3 entries, and gap    *)
(* markers (an x with y = NaN) are put between branches that must not be   *)
(* joined by a line: at 0 from cosh to log, at 1 from log to the hyperbola.*)
(* One iteration of the loop is one action.                                *)
(*                                                                         *)
(* x = -10 + i * step is computed in floating point.  Away from 0 and 1 it *)
(* falls on the side of the exact value; where the exact value is 0 or 1,  *)
(* the rounded one lies below (-1), on (0) or above it (1), by less than   *)
(* eps.  Which, depends on `points' and is the same whenever the same i is *)
(* computed.  On IEEE doubles it is 0 at 0 for all `points' to 800 but     *)
(* -1 for 155, 309, 607, 617, 639 and 1 for 295, 563, 589.                 *)
(*                                                                         *)
(* Abstracted: the values of y, but for whether there is one.  (A cosh or  *)
(* a quotient too large for a double is printed as a gap as well, and that *)
(* only adds gaps.)                                                        *)
(***************************************************************************)
EXTENDS Integers, Sequences

CONSTANTS Settings,        \* values of GRAPHING_CALCULATION_POINTS that are numbers
          DefaultPoints,   \* kDefaultPoints (1000)
          AtZero, AtOne    \* how x may be rounded at 0 and at 1

MinimumPoints == 2         \* kMinimumPoints
Sides == {-1, 0, 1}

ASSUME SettingsAssumption == Settings \subseteq Int
ASSUME DefaultAssumption == DefaultPoints \in Int /\ DefaultPoints >= MinimumPoints
ASSUME SidesAssumption == AtZero \subseteq Sides /\ AtOne \subseteq Sides

VARIABLES
    points,       \* the number of sample points
    atZero,       \* how x is rounded where it should be 0
    atOne,        \* how x is rounded where it should be 1
    i,            \* the loop counter
    arr           \* the entries written: [x, gap]; its length is n

vars == <<points, atZero, atOne, i, arr>>

Regions == {"negative", "zero", "unit", "one", "right"}

TypeOK ==
    /\ points \in Int /\ points >= MinimumPoints
    /\ atZero \in AtZero /\ atOne \in AtOne
    /\ i \in 0..points
    /\ arr \in Seq([x : Regions, gap : BOOLEAN])

\* resolvePoints: a setting that is missing or too small gives the default.
ResolvePoints == {p \in Settings : p >= MinimumPoints} \cup {DefaultPoints}

Init ==
    /\ points \in ResolvePoints
    /\ atZero \in AtZero
    /\ atOne \in AtOne
    /\ i = 0
    /\ arr = <<>>

\* capacity: the entries the buffer holds
Capacity == points + 3

\* The k-th x should be 0, or 1: 20k = 10(points - 1), 20k = 11(points - 1).
\* These are the x with fabs(x) < eps and with fabs(x - 1.0) < eps.
NearZero(k) == 20 * k = 10 * (points - 1)
NearOne(k) == 20 * k = 11 * (points - 1)

\* On which side of 0, or of 1, the k-th x is computed to lie.
SideOfZero(k) == IF NearZero(k) THEN atZero
                 ELSE IF 20 * k < 10 * (points - 1) THEN -1 ELSE 1
SideOfOne(k) == IF NearOne(k) THEN atOne
                ELSE IF 20 * k < 11 * (points - 1) THEN -1 ELSE 1

Gap(x) == [x |-> x, gap |-> TRUE]
Value(x) == [x |-> x, gap |-> FALSE]

\* Faulty variant: no marker for a sample that falls on 0.
MarkersWithoutTouch(k) ==
    (IF SideOfZero(k - 1) = -1 /\ SideOfZero(k) = 1
     THEN <<Gap("zero"), Value("zero")>> ELSE <<>>)
    \o (IF SideOfOne(k - 1) = -1 /\ SideOfOne(k) = 1 THEN <<Gap("one")>> ELSE <<>>)

\* Faulty variant: touching 0 is not an alternative to crossing it.
MarkersBoth(k) ==
    (IF SideOfZero(k - 1) = -1 /\ SideOfZero(k) = 1
     THEN <<Gap("zero"), Value("zero")>> ELSE <<>>)
    \o (IF SideOfZero(k - 1) = -1 /\ NearZero(k) THEN <<Gap("zero")>> ELSE <<>>)
    \o (IF SideOfOne(k - 1) = -1 /\ SideOfOne(k) = 1 THEN <<Gap("one")>> ELSE <<>>)

\* Faulty variant: the marker at 1 comes before those at 0.
MarkersReversed(k) ==
    (IF SideOfOne(k - 1) = -1 /\ SideOfOne(k) = 1 THEN <<Gap("one")>> ELSE <<>>)
    \o (IF SideOfZero(k - 1) = -1 /\ SideOfZero(k) = 1
        THEN <<Gap("zero"), Value("zero")>>
        ELSE IF SideOfZero(k - 1) = -1 /\ NearZero(k) THEN <<Gap("zero")>> ELSE <<>>)

\* The markers written before the k-th sample, k > 0.
Markers(k) ==
    (IF SideOfZero(k - 1) = -1 /\ SideOfZero(k) = 1
     THEN <<Gap("zero"), Value("zero")>>
     ELSE IF SideOfZero(k - 1) = -1 /\ NearZero(k) THEN <<Gap("zero")>> ELSE <<>>)
    \o (IF SideOfOne(k - 1) = -1 /\ SideOfOne(k) = 1 THEN <<Gap("one")>> ELSE <<>>)

\* The k-th sample.  In [0, 1) the logarithm may be undefined, but not at 0.
Sample(k) ==
    IF NearOne(k) THEN {Gap("one")}
    ELSE IF SideOfZero(k) = -1 THEN {Value("negative")}
    ELSE IF SideOfOne(k) = -1
         THEN IF NearZero(k) THEN {Value("zero")} ELSE {Value("unit"), Gap("unit")}
    ELSE {Value("right")}

\* Faulty variant: the loop runs to i <= points.
IterateToEnd ==
    /\ i <= points
    /\ \E sample \in Sample(i) :
        arr' = Append(arr \o (IF i > 0 THEN Markers(i) ELSE <<>>), sample)
    /\ i' = i + 1
    /\ UNCHANGED <<points, atZero, atOne>>

\* One iteration of the loop.
Iterate ==
    /\ i < points
    /\ \E sample \in Sample(i) :
        arr' = Append(arr \o (IF i > 0 THEN Markers(i) ELSE <<>>), sample)
    /\ i' = i + 1
    /\ UNCHANGED <<points, atZero, atOne>>

Spec == Init /\ [][Iterate]_vars

-----------------------------------------------------------------------------
(* Properties *)

\* Nothing is written behind the end of the buffer (libfn.c:24): the markers of
\* both discontinuities never need more than the three extra entries.
WithinCapacity == Len(arr) <= Capacity

\* A line never joins two branches ("blue wall", TC-30 of tst_libfn.cpp): between
\* values on both sides of 0, and of 1, there is a gap.
Left(x) == x \in {"negative", "zero", "unit"}
Separated(from, to) ==
    \A k, l \in DOMAIN arr :
        /\ k < l
        /\ arr[k].x \in from /\ ~arr[k].gap
        /\ arr[l].x \in to /\ ~arr[l].gap
        => \E m \in (k + 1)..(l - 1) : arr[m].gap
NoBlueWall ==
    /\ Separated({"negative"}, {"zero", "unit", "one", "right"})
    /\ Separated({"negative", "zero", "unit"}, {"right"})

\* x never goes back, markers included, so the client draws from left to right:
\* if x is not rounded to below 0 at 0.  (If it is, the marker at 0.0 of line 50
\* is written before that x.)
Rank == [negative |-> 1, zero |-> 2, unit |-> 3, one |-> 4, right |-> 5]
LeftToRight ==
    \A k \in 1..(Len(arr) - 1) : Rank[arr[k].x] <= Rank[arr[k + 1].x]

=============================================================================
