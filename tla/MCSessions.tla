----------------------------- MODULE MCSessions -----------------------------
(***************************************************************************)
(* Small instances of Sessions: the lines clients may send.                *)
(***************************************************************************)
EXTENDS Sessions

Request(i, t) == [kind |-> "request", id |-> i, type |-> t, valid |-> TRUE]

\* Every type, bad parameters, and the lines that are not requests, under ids
\* that can collide.
FullAlphabet ==
    {Request(i, t) : i \in RequestIds, t \in Types}
    \cup {[kind |-> "request", id |-> 1, type |-> "login", valid |-> FALSE],
          [kind |-> "malformed", id |-> 1, type |-> None, valid |-> FALSE],
          [kind |-> "response", id |-> 1, type |-> None, valid |-> FALSE]}

\* Enough to pipeline, to collide, to authenticate and to wait for the mail.
CoreAlphabet ==
    {Request(1, "login"), Request(1, "calculate"),
     Request(1, "request_password_reset")}
=============================================================================
