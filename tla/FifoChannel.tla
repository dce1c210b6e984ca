----------------------------- MODULE FifoChannel -----------------------------
(***************************************************************************)
(* What a connection promises: the messages that were sent are received    *)
(* whole, once and in order, possibly several at a time.  Module           *)
(* LineChannel implements it with lines, chunks and a buffer.              *)
(***************************************************************************)
EXTENDS Naturals, Sequences

VARIABLES sent,       \* all messages sent so far
          received    \* all messages received so far

vars == <<sent, received>>

Init == sent = <<>> /\ received = <<>>

\* One more message is sent.
Send ==
    /\ Len(sent') = Len(sent) + 1
    /\ SubSeq(sent', 1, Len(sent)) = sent
    /\ UNCHANGED received

\* The next messages arrive, up to the k-th.
Receive(k) ==
    /\ received' = SubSeq(sent, 1, k)
    /\ UNCHANGED sent

Next == Send \/ \E k \in (Len(received) + 1)..Len(sent) : Receive(k)

Spec == Init /\ [][Next]_vars

=============================================================================
