----------------------------- MODULE LineChannel -----------------------------
(***************************************************************************)
(* The way of a line from a client into the server: the client writes      *)
(* lines to its socket, TCP hands the bytes over in chunks of any size,    *)
(* and onRemoteDataChunk collects them in the session's buffer, takes the  *)
(* complete lines out and parses them.                                     *)
(*                                                                         *)
(* Abstracted: the client (external; it writes what serialize makes of a   *)
(* message, or whatever a person types), the decoding of UTF-8, and the    *)
(* answers to lines that are no requests, which are built from what parse  *)
(* returned and is recorded here.                                          *)
(***************************************************************************)
EXTENDS GraphingProtocol

CONSTANTS Inputs,      \* what a client may write: [text, means]
          MaxInputs    \* bound: lines a client writes

\* Texts of one line, without its end.
LineTexts == Seq(Symbols \ {LineFeed})

ASSUME InputsAssumption == \A i \in Inputs : i.text \in LineTexts
ASSUME MaxInputsAssumption == MaxInputs \in Nat

VARIABLES
    sent,      \* history: what the lines mean that the client wrote
    wire,      \* written by the client, not yet read by the server
    buffer,    \* ClientSession::buffer
    posted     \* what parse made of the lines the server took from the buffer

vars == <<sent, wire, buffer, posted>>

TypeOK ==
    /\ Len(sent) <= MaxInputs
    /\ \A k \in DOMAIN sent : \E i \in Inputs : sent[k] = i.means
    /\ wire \in Seq(Symbols)
    /\ buffer \in LineTexts
    /\ Len(posted) <= Len(sent)

Init ==
    /\ sent = <<>>
    /\ wire = <<>>
    /\ buffer = <<>>
    /\ posted = <<>>

\* The client writes a line.
Write(input) ==
    /\ Len(sent) < MaxInputs
    /\ sent' = Append(sent, input.means)
    /\ wire' = wire \o input.text \o <<LineFeed>>
    /\ UNCHANGED <<buffer, posted>>

\* The pieces of a buffer between its line feeds; the last is the rest.
Pieces(bytes) == Cut(bytes, {p \in DOMAIN bytes : bytes[p] = LineFeed})

\* Faulty variant: one line is taken per chunk, the others wait for the next.
OneLinePerChunk(n) ==
    LET bytes == buffer \o SubSeq(wire, 1, n)
        end == SelectInSeq(bytes, LAMBDA c : c = LineFeed)
    IN /\ wire' = SubSeq(wire, n + 1, Len(wire))
       /\ IF end = 0
          THEN buffer' = bytes /\ UNCHANGED posted
          ELSE /\ buffer' = SubSeq(bytes, end + 1, Len(bytes))
               /\ posted' = Append(posted, Parse(SubSeq(bytes, 1, end - 1)))
       /\ UNCHANGED sent

\* onRemoteDataChunk with a chunk of n symbols.
OnRemoteDataChunk(n) ==
    LET pieces == Pieces(buffer \o SubSeq(wire, 1, n))
    IN /\ wire' = SubSeq(wire, n + 1, Len(wire))
       /\ buffer' = Last(pieces)
       /\ posted' = posted \o [k \in 1..(Len(pieces) - 1) |-> Parse(pieces[k])]
       /\ UNCHANGED sent

Next ==
    \/ \E input \in Inputs : Write(input)
    \/ \E n \in 1..Len(wire) : OnRemoteDataChunk(n)

Spec == Init /\ [][Next]_vars

-----------------------------------------------------------------------------
(* Properties *)

\* However the bytes are cut into chunks, and whatever the data holds - line
\* ends, spaces, bars, backslashes at the end of a parameter, nothing at all -
\* the server sees the messages that were written, whole and in order, and a
\* malformed line costs no other line and is answered under its own id.
Channel == INSTANCE FifoChannel WITH received <- posted
KeepsFifo == Channel!Spec

\* No complete line waits in the buffer: once every byte was read, every line
\* was taken.  A client that waits for its answer never waits for a later chunk.
NothingHeldBack == wire = <<>> => Len(posted) = Len(sent) /\ buffer = <<>>

\* What README lines 65-66 expect of the commands of lines 58-60: neither of
\* them is refused as malformed.  The first one has spaces in its third
\* parameter, which the protocol wants escaped.
ExampleAccepted == \A k \in DOMAIN posted : posted[k].kind # "malformed"

=============================================================================
