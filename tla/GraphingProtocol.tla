--------------------------- MODULE GraphingProtocol ---------------------------
(***************************************************************************)
(* The text protocol of GraphingProtocol.h: one message is one line,       *)
(*   request <id> <type> [p1|p2|...]                                       *)
(*   response <id> ok [p1|p2|...]                                          *)
(*   response <id> error <code>|<message>                                  *)
(* in which line ends, spaces, bars and backslashes of the data are        *)
(* escaped by a backslash.                                                 *)
(*                                                                         *)
(* A text is a sequence of symbols: the five special characters, the       *)
(* letters n and r, and words, which stand for runs of other characters.   *)
(* Numbers are words; ParseUnsigned models how they are read.              *)
(***************************************************************************)
EXTENDS Naturals, Sequences, FiniteSets, SequencesExt

CONSTANTS Words,      \* runs of characters that mean nothing to the protocol
          Numbers     \* the words that parseUnsigned and parseInt accept

LineFeed == "LF"
Return == "CR"
Backslash == "BACKSLASH"
Space == "SPACE"
Bar == "BAR"

Special == {LineFeed, Return, Backslash, Space, Bar}
Symbols == Special \cup {"n", "r", "request", "response", "ok", "error"}
                   \cup Words \cup Numbers

\* Data and numbers are told from the special characters.
ASSUME SymbolsAssumption == Special \cap (Words \cup Numbers) = {}

\* What follows the backslash that escapes a special character.
EscapeOf == [c \in Special |-> CASE c = LineFeed -> "n"
                                 [] c = Return -> "r"
                                 [] OTHER -> c]
Escapable == {EscapeOf[c] : c \in Special}
Unescape(e) == CHOOSE c \in Special : EscapeOf[c] = e

-----------------------------------------------------------------------------
(* Splitting and escaping *)

\* trimLineEndings
TrimLineEndings(v) ==
    LET kept == {k \in DOMAIN v : v[k] \notin {LineFeed, Return}}
    IN IF kept = {} THEN <<>> ELSE SubSeq(v, 1, Max(kept))

\* Exactly k backslashes stand before position p.
SlashCount(v, p, k) ==
    /\ \A m \in (p - k)..(p - 1) : v[m] = Backslash
    /\ k = p - 1 \/ v[p - k - 1] # Backslash

\* Faulty variant: one look back, so that an escaped backslash escapes as well.
EscapedByPrevious(v, p) == p > 1 /\ v[p - 1] = Backslash

\* isEscaped counts the backslashes before a position: an odd number escapes it.
IsEscaped(v, p) == \E k \in 0..(p - 1) : k % 2 = 1 /\ SlashCount(v, p, k)

\* The elements of a set of numbers in ascending order.  (A prover cannot look
\* into SortSeq, hence not SetToSortSeq.)
Ascending(S) ==
    [k \in 1..Cardinality(S) |->
        CHOOSE p \in S : Cardinality({q \in S : q <= p}) = k]

\* The parts of v between the positions in cuts.
Cut(v, cuts) ==
    LET ends == Ascending(cuts \cup {0, Len(v) + 1})
    IN [k \in 1..(Cardinality(cuts) + 1) |-> SubSeq(v, ends[k] + 1, ends[k + 1] - 1)]

\* splitEscaped; splitSpaceTokens is the same with a space.
SplitEscaped(v, delimiter) ==
    Cut(v, {p \in DOMAIN v : v[p] = delimiter /\ ~IsEscaped(v, p)})

\* One step of the loop of decodeEscapes; `legal' is false once it has thrown.
Decode(d, c) ==
    IF d.escaped
    THEN IF c \in Escapable
         THEN [d EXCEPT !.text = Append(@, Unescape(c)), !.escaped = FALSE]
         ELSE [d EXCEPT !.legal = FALSE, !.escaped = FALSE]
    ELSE IF c = Backslash
         THEN [d EXCEPT !.escaped = TRUE]
         ELSE [d EXCEPT !.text = Append(@, c)]
Decoded(v) == FoldLeft(Decode, [text |-> <<>>, escaped |-> FALSE, legal |-> TRUE], v)
Decodable(v) == Decoded(v).legal /\ ~Decoded(v).escaped
DecodeEscapes(v) == Decoded(v).text

\* encodeEscapes
EncodeEscapes(v) ==
    FlattenSeq([k \in DOMAIN v |->
        IF v[k] \in Special THEN <<Backslash, EscapeOf[v[k]]>> ELSE <<v[k]>>])

\* decodeList
ListDecodable(v) == \A k \in DOMAIN SplitEscaped(v, Bar) :
                        Decodable(SplitEscaped(v, Bar)[k])
DecodeList(v) == [k \in DOMAIN SplitEscaped(v, Bar) |->
                    DecodeEscapes(SplitEscaped(v, Bar)[k])]

\* encodeList
EncodeList(list) ==
    FlattenSeq([k \in DOMAIN list |->
        (IF k > 1 THEN <<Bar>> ELSE <<>>) \o EncodeEscapes(list[k])])

-----------------------------------------------------------------------------
(* Messages *)

Request(id, type, parameters) ==
    [kind |-> "request", id |-> id, type |-> type, parameters |-> parameters]
ResponseSuccess(id, parameters) ==
    [kind |-> "success", id |-> id, parameters |-> parameters]
ResponseError(id, code, text) ==
    [kind |-> "error", id |-> id, code |-> code, text |-> text]
\* parse() threw; id is what tryParseCorrelationId found, or "0"
Malformed(id) == [kind |-> "malformed", id |-> id]

IsNumber(token) == Len(token) = 1 /\ token[1] \in Numbers

\* tryParseCorrelationId, with 0 where it returns false.
TryParseCorrelationId(line) ==
    LET parts == SplitEscaped(TrimLineEndings(line), Space)
    IN IF /\ Len(parts) >= 2
          /\ parts[1] \in {<<"request">>, <<"response">>}
          /\ IsNumber(parts[2])
       THEN parts[2][1] ELSE "0"

\* The optional last field of requests and successes.
ParametersDecodable(parts) ==
    \/ Len(parts) = 3
    \/ Len(parts) = 4 /\ ListDecodable(parts[4])
ParametersOf(parts) == IF Len(parts) = 4 THEN DecodeList(parts[4]) ELSE <<>>

IsRequest(parts) ==
    /\ parts[1] = <<"request">>
    /\ IsNumber(parts[2])
    /\ Decodable(parts[3]) /\ DecodeEscapes(parts[3]) # <<>>
    /\ ParametersDecodable(parts)
IsSuccess(parts) ==
    /\ parts[1] = <<"response">>
    /\ IsNumber(parts[2])
    /\ parts[3] = <<"ok">>
    /\ ParametersDecodable(parts)
IsError(parts) ==
    /\ parts[1] = <<"response">>
    /\ IsNumber(parts[2])
    /\ parts[3] = <<"error">>
    /\ Len(parts) = 4 /\ ListDecodable(parts[4])
    /\ Len(DecodeList(parts[4])) = 2 /\ IsNumber(DecodeList(parts[4])[1])

\* parse
Parse(line) ==
    LET parts == SplitEscaped(TrimLineEndings(line), Space)
    IN CASE Len(parts) >= 3 /\ IsRequest(parts) ->
                Request(parts[2][1], DecodeEscapes(parts[3]), ParametersOf(parts))
         [] Len(parts) >= 3 /\ IsSuccess(parts) ->
                ResponseSuccess(parts[2][1], ParametersOf(parts))
         [] Len(parts) >= 3 /\ IsError(parts) ->
                LET payload == DecodeList(parts[4])
                IN ResponseError(parts[2][1], payload[1][1], payload[2])
         [] OTHER -> Malformed(TryParseCorrelationId(line))

\* serialize
Serialize(m) ==
    LET list(parameters) ==
            IF parameters = <<>> THEN <<>> ELSE <<Space>> \o EncodeList(parameters)
    IN CASE m.kind = "request" ->
                <<"request", Space, m.id, Space>> \o EncodeEscapes(m.type)
                    \o list(m.parameters)
         [] m.kind = "success" ->
                <<"response", Space, m.id, Space, "ok">> \o list(m.parameters)
         [] m.kind = "error" ->
                <<"response", Space, m.id, Space, "error", Space>>
                    \o EncodeList(<<<<m.code>>, m.text>>)

=============================================================================
