----------------------------- MODULE ObjectStore -----------------------------
(***************************************************************************)
(* What PgDatabase is promised by persist, update, find and query of ODB:  *)
(* a table that holds the objects it was given, and objects that equal the *)
(* rows they were loaded from.                                             *)
(***************************************************************************)
EXTENDS Naturals, Sequences

CONSTANT Objects    \* the persistent objects

VARIABLES rows,     \* the table in id order
          call      \* the last call, if it succeeded: its name, its argument, an object

Init ==
    /\ rows = <<>>
    /\ call = <<>>

Persist(o) ==
    /\ rows' = Append(rows, o)
    /\ call' = <<"persist", Len(rows'), o>>

Update(i, o) ==
    /\ rows' = [rows EXCEPT ![i] = o]
    /\ call' = <<"update", i, o>>

Load(i) ==
    /\ UNCHANGED rows
    /\ call' = <<"load", i, rows[i]>>

\* A row that the server computes.
Evaluate(o) ==
    /\ UNCHANGED rows
    /\ call' = <<"value", o, o>>

\* The statement failed or found no row.
Fail ==
    /\ UNCHANGED rows
    /\ call' = <<>>

Next ==
    \/ \E o \in Objects :
        \/ Persist(o)
        \/ Evaluate(o)
        \/ \E i \in DOMAIN rows : Update(i, o)
    \/ \E i \in DOMAIN rows : Load(i)
    \/ Fail

Spec == Init /\ [][Next]_<<rows, call>>
=============================================================================
