------------------------------ MODULE Sessions ------------------------------
(***************************************************************************)
(* The request router: TCPGraphingServerManager with the handlers main()   *)
(* connects to it.  One thread runs Qt's event loop.  Every signal between *)
(* the router, the handlers and the mail client is a QueuedConnection to   *)
(* the same receiver, so what one handler emits is appended to one FIFO    *)
(* queue of posted events and taken from its head later.  Between any two  *)
(* posted events the loop may serve a socket (a connection, a chunk, a     *)
(* disconnection) or a finished HTTP reply of the mail service, in any     *)
(* order.                                                                  *)
(*                                                                         *)
(* Abstracted: what a line says beyond its kind, id, type and whether its  *)
(* parameters pass the router's checks; what the database and the          *)
(* calculation answer beyond success or failure (any outcome is possible). *)
(***************************************************************************)
EXTENDS Naturals, Sequences, FiniteSets

CONSTANTS MaxClients,   \* bound: connections accepted during a behaviour
          MaxLines,     \* bound: lines one connection sends
          RequestIds,   \* correlation ids (quint64 in the code)
          Lines         \* the lines a client may send

\* request types with a handler, and those that need no authentication
HandledTypes == {"login", "register", "request_password_reset",
                 "verify_password_reset", "reset_password", "calculate"}
OpenTypes == {"login", "register", "request_password_reset",
              "verify_password_reset", "reset_password"}
Types == HandledTypes \cup {"other"}
None == "none"          \* no entry in pendingTypes

ClientIds == 1..MaxClients

\* What parsing makes of one '\n'-terminated line; for a malformed one, id is
\* what tryParseCorrelationId makes of it.
LineSet ==
    [kind : {"request"}, id : RequestIds, type : Types, valid : BOOLEAN]
    \cup [kind : {"response", "malformed"}, id : RequestIds, type : {None},
          valid : {FALSE}]

ASSUME BoundsAssumption == MaxClients \in Nat /\ MaxLines \in Nat
ASSUME LinesAssumption == Lines \subseteq LineSet

\* A request as it travels through the queue: `line' is a history field, the
\* number of the client's line it came from; the code never looks at it.
Requests == [client : ClientIds, line : 1..MaxLines,
             id : RequestIds, type : Types \cup {None}, valid : BOOLEAN]

\* The signal of TCPGraphingServerManager that hands a type to its handler.
Signal == [login |-> "loginRequested",
           register |-> "registrationRequested",
           request_password_reset |-> "passwordResetRequested",
           verify_password_reset |-> "passwordResetVerificationRequested",
           reset_password |-> "passwordResetUpdateRequested",
           calculate |-> "calculationRequested"]
HandlerSignals == {Signal[t] : t \in HandledTypes}
MailSignals == {"passwordResetMailSent", "passwordResetMailFailed"}
Signals == {"requestReceived", "responseReady"} \cup HandlerSignals \cup MailSignals

\* "Failed" stands for the error code a handler reports, whichever it is.
Codes == {"ok", "BadRequest", "NotImplemented", "Forbidden", "Conflict", "Failed"}

Events ==
    [signal : Signals \ {"responseReady"}, req : Requests, code : {None}]
    \cup [signal : {"responseReady"}, req : Requests, code : Codes]
Event(s, r) == [signal |-> s, req |-> r, code |-> None]
Response(r, code) == [signal |-> "responseReady", req |-> r, code |-> code]

VARIABLES
    nextClientId,   \* the id the next connection gets
    clients,        \* ids with an entry in the `clients' hash
    authenticated,  \* authenticated[c]: ClientSession::authenticated
    pendingTypes,   \* pendingTypes[c][i]: type pending under id i, or None
    queue,          \* posted events not yet delivered
    mail,           \* requests whose HTTP post has not finished
    received,       \* history: received[c] counts the lines of c
    written,        \* history: written[c] lists the responses sent to c
    accepted,       \* history: connections whose login or registration the
                    \* database accepted
    ran             \* history: ran[c] is the last line of c a handler ran

vars == <<nextClientId, clients, authenticated, pendingTypes, queue, mail,
          received, written, accepted, ran>>

NoPending == [i \in RequestIds |-> None]

TypeOK ==
    /\ nextClientId \in 1..(MaxClients + 1)
    /\ clients \subseteq 1..(nextClientId - 1)
    /\ authenticated \in [ClientIds -> BOOLEAN]
    /\ pendingTypes \in [ClientIds -> [RequestIds -> Types \cup {None}]]
    /\ queue \in Seq(Events)
    /\ mail \subseteq Requests
    /\ received \in [ClientIds -> 0..MaxLines]
    /\ written \in [ClientIds -> Seq([req : Requests, code : Codes])]
    /\ accepted \subseteq ClientIds
    /\ ran \in [ClientIds -> 0..MaxLines]

Init ==
    /\ nextClientId = 1
    /\ clients = {}
    /\ authenticated = [c \in ClientIds |-> FALSE]
    /\ pendingTypes = [c \in ClientIds |-> NoPending]
    /\ queue = <<>>
    /\ mail = {}
    /\ received = [c \in ClientIds |-> 0]
    /\ written = [c \in ClientIds |-> <<>>]
    /\ accepted = {}
    /\ ran = [c \in ClientIds |-> 0]

-----------------------------------------------------------------------------
(* Sockets *)

\* Faulty variant: the id is incremented before it is handed out.
PreIncrement ==
    /\ nextClientId <= MaxClients
    /\ nextClientId' = nextClientId + 1
    /\ clients' = clients \cup {nextClientId + 1}
    /\ UNCHANGED <<authenticated, pendingTypes, queue, mail, received, written,
                   accepted, ran>>

\* onRemoteConnection, registerClient: a connection gets the next id and an
\* empty, unauthenticated session.
OnRemoteConnection ==
    /\ nextClientId <= MaxClients
    /\ nextClientId' = nextClientId + 1
    /\ clients' = clients \cup {nextClientId}
    /\ UNCHANGED <<authenticated, pendingTypes, queue, mail, received, written,
                   accepted, ran>>

\* onRemoteDisconnected, unregisterClient: the session goes with its pending
\* table.  Events and mail posts on its behalf stay in flight.
OnRemoteDisconnected(c) ==
    /\ c \in clients
    /\ clients' = clients \ {c}
    /\ authenticated' = [authenticated EXCEPT ![c] = FALSE]
    /\ pendingTypes' = [pendingTypes EXCEPT ![c] = NoPending]
    /\ UNCHANGED <<nextClientId, queue, mail, received, written, accepted, ran>>

\* What the loop of onRemoteDataChunk posts for one complete line: a request
\* goes to the router, anything else is answered at once.
Posted(r, kind) ==
    IF kind = "request" THEN Event("requestReceived", r) ELSE Response(r, "BadRequest")

\* Faulty variant: the buffer is split at its last '\n', later lines first.
LastLineFirst(c, l) ==
    /\ c \in clients
    /\ received[c] < MaxLines
    /\ received' = [received EXCEPT ![c] = @ + 1]
    /\ queue' = <<Posted([client |-> c, line |-> received[c] + 1,
                          id |-> l.id, type |-> l.type, valid |-> l.valid],
                         l.kind)>> \o queue
    /\ UNCHANGED <<nextClientId, clients, authenticated, pendingTypes, mail,
                   written, accepted, ran>>

\* onRemoteDataChunk, one complete line at a time.  A chunk with several lines
\* posts their events in a row, which is this action taken repeatedly.
OnRemoteDataChunk(c, l) ==
    /\ c \in clients
    /\ received[c] < MaxLines
    /\ received' = [received EXCEPT ![c] = @ + 1]
    /\ queue' = Append(queue,
                       Posted([client |-> c, line |-> received[c] + 1,
                               id |-> l.id, type |-> l.type, valid |-> l.valid],
                              l.kind))
    /\ UNCHANGED <<nextClientId, clients, authenticated, pendingTypes, mail,
                   written, accepted, ran>>

-----------------------------------------------------------------------------
(* Posted events *)

\* The event loop delivers the oldest posted event, which is `signal' for r.
Delivers(signal, r) ==
    /\ queue # <<>>
    /\ Head(queue).signal = signal
    /\ r = Head(queue).req

IsPending(r) == r.client \in clients /\ pendingTypes[r.client][r.id] # None

\* Faulty variant: no look at pendingTypes before the entry is inserted.
VerdictNoConflict(r) ==
    IF r.type \notin OpenTypes /\ ~authenticated[r.client] THEN "Forbidden"
    ELSE IF authenticated[r.client] /\ r.type \in {"login", "register"}
        THEN "Forbidden"
    ELSE IF r.type \notin HandledTypes THEN "NotImplemented"
    ELSE IF ~r.valid THEN "BadRequest"
    ELSE "ok"

\* Faulty variant: calculations are open to everybody.
VerdictNoLogin(r) ==
    IF pendingTypes[r.client][r.id] # None THEN "Conflict"
    ELSE IF authenticated[r.client] /\ r.type \in {"login", "register"}
        THEN "Forbidden"
    ELSE IF r.type \notin HandledTypes THEN "NotImplemented"
    ELSE IF ~r.valid THEN "BadRequest"
    ELSE "ok"

\* The checks of onRequestReceived, in their order; "ok" lets the request pass.
Verdict(r) ==
    IF pendingTypes[r.client][r.id] # None
        THEN "Conflict"
    ELSE IF r.type \notin OpenTypes /\ ~authenticated[r.client]
        THEN "Forbidden"
    ELSE IF authenticated[r.client] /\ r.type \in {"login", "register"}
        THEN "Forbidden"
    ELSE IF r.type \notin HandledTypes
        THEN "NotImplemented"
    ELSE IF ~r.valid
        THEN "BadRequest"
    ELSE "ok"

\* onRequestReceived for a client that has gone.
DropRequest(r) ==
    /\ Delivers("requestReceived", r)
    /\ r.client \notin clients
    /\ queue' = Tail(queue)
    /\ UNCHANGED <<nextClientId, clients, authenticated, pendingTypes, mail,
                   received, written, accepted, ran>>

\* Faulty variant: the parameter checks leave their pending entry behind.
RejectKeepsEntry(r) ==
    /\ Delivers("requestReceived", r)
    /\ r.client \in clients
    /\ Verdict(r) # "ok"
    /\ pendingTypes' = IF Verdict(r) = "BadRequest"
                       THEN [pendingTypes EXCEPT ![r.client][r.id] = r.type]
                       ELSE pendingTypes
    /\ queue' = Append(Tail(queue), Response(r, Verdict(r)))
    /\ UNCHANGED <<nextClientId, clients, authenticated, mail, received, written,
                   accepted, ran>>

\* onRequestReceived where a check fails.  The branches that insert into
\* pendingTypes before they check the parameters take the entry out again.
RejectRequest(r) ==
    /\ Delivers("requestReceived", r)
    /\ r.client \in clients
    /\ Verdict(r) # "ok"
    /\ queue' = Append(Tail(queue), Response(r, Verdict(r)))
    /\ UNCHANGED <<nextClientId, clients, authenticated, pendingTypes, mail,
                   received, written, accepted, ran>>

\* onRequestReceived where all checks pass.
AcceptRequest(r) ==
    /\ Delivers("requestReceived", r)
    /\ r.client \in clients
    /\ Verdict(r) = "ok"
    /\ pendingTypes' = [pendingTypes EXCEPT ![r.client][r.id] = r.type]
    /\ queue' = Append(Tail(queue), Event(Signal[r.type], r))
    /\ UNCHANGED <<nextClientId, clients, authenticated, mail, received, written,
                   accepted, ran>>

\* completeLogin, called while the event at the head is handled.
CompleteLogin(r) ==
    IF IsPending(r) /\ pendingTypes[r.client][r.id] = "login"
    THEN /\ pendingTypes' = [pendingTypes EXCEPT ![r.client][r.id] = None]
         /\ authenticated' = [authenticated EXCEPT ![r.client] = TRUE]
         /\ queue' = Append(Tail(queue), Response(r, "ok"))
    ELSE /\ queue' = Tail(queue)
         /\ UNCHANGED <<pendingTypes, authenticated>>

\* Faulty variant: a registration does not authenticate.
CompleteWithoutLogin(r) ==
    /\ IF IsPending(r)
       THEN /\ pendingTypes' = [pendingTypes EXCEPT ![r.client][r.id] = None]
            /\ queue' = Append(Tail(queue), Response(r, "ok"))
       ELSE /\ queue' = Tail(queue)
            /\ UNCHANGED pendingTypes
    /\ UNCHANGED authenticated

\* completeRequest: a pending registration authenticates its session.
CompleteRequest(r) ==
    IF IsPending(r)
    THEN /\ pendingTypes' = [pendingTypes EXCEPT ![r.client][r.id] = None]
         /\ authenticated' = [authenticated EXCEPT ![r.client] =
                                @ \/ pendingTypes[r.client][r.id] = "register"]
         /\ queue' = Append(Tail(queue), Response(r, "ok"))
    ELSE /\ queue' = Tail(queue)
         /\ UNCHANGED <<pendingTypes, authenticated>>

\* failRequest.
FailRequest(r) ==
    /\ IF IsPending(r)
       THEN /\ pendingTypes' = [pendingTypes EXCEPT ![r.client][r.id] = None]
            /\ queue' = Append(Tail(queue), Response(r, "Failed"))
       ELSE /\ queue' = Tail(queue)
            /\ UNCHANGED pendingTypes
    /\ UNCHANGED authenticated

\* history: a handler ran r; `ok' says whether it let a connection in
Run(r, ok) ==
    /\ ran' = [ran EXCEPT ![r.client] = r.line]
    /\ accepted' = IF ok THEN accepted \cup {r.client} ELSE accepted

\* The handler of loginRequested: PgDatabase::login accepts or refuses.
LoginRequested(r) ==
    /\ Delivers("loginRequested", r)
    /\ \/ CompleteLogin(r) /\ Run(r, TRUE)
       \/ FailRequest(r) /\ Run(r, FALSE)
    /\ UNCHANGED <<nextClientId, clients, mail, received, written>>

\* The handler of registrationRequested: PgDatabase::registerUser.
RegistrationRequested(r) ==
    /\ Delivers("registrationRequested", r)
    /\ \/ CompleteRequest(r) /\ Run(r, TRUE)
       \/ FailRequest(r) /\ Run(r, FALSE)
    /\ UNCHANGED <<nextClientId, clients, mail, received, written>>

\* The handlers that answer at once and let nobody in: the calculation, the
\* verification of a code and the password update.
AnswerAtOnce(signal, r) ==
    /\ Delivers(signal, r)
    /\ Run(r, FALSE)
    /\ CompleteRequest(r) \/ FailRequest(r)
    /\ UNCHANGED <<nextClientId, clients, mail, received, written>>

CalculationRequested(r) == AnswerAtOnce("calculationRequested", r)
PasswordResetVerificationRequested(r) ==
    AnswerAtOnce("passwordResetVerificationRequested", r)
PasswordResetUpdateRequested(r) == AnswerAtOnce("passwordResetUpdateRequested", r)

\* The handler of passwordResetRequested: a token is made and the mail service
\* called, or the request fails.
PasswordResetRequested(r) ==
    /\ Delivers("passwordResetRequested", r)
    /\ Run(r, FALSE)
    /\ \/ /\ mail' = mail \cup {r}
          /\ queue' = Tail(queue)
          /\ UNCHANGED <<pendingTypes, authenticated>>
       \/ /\ FailRequest(r)
          /\ UNCHANGED mail
    /\ UNCHANGED <<nextClientId, clients, received, written>>

\* Faulty variant: a branch of the lambda returns without a signal.
MailReplyIgnored(r) ==
    /\ r \in mail
    /\ mail' = mail \ {r}
    /\ \/ \E s \in MailSignals : queue' = Append(queue, Event(s, r))
       \/ UNCHANGED queue
    /\ UNCHANGED <<nextClientId, clients, authenticated, pendingTypes, received,
                   written, accepted, ran>>

\* The lambda on QNetworkReply::finished: whatever the reply, one of the two
\* signals is emitted.
MailReplyFinished(r) ==
    /\ r \in mail
    /\ mail' = mail \ {r}
    /\ \E s \in MailSignals : queue' = Append(queue, Event(s, r))
    /\ UNCHANGED <<nextClientId, clients, authenticated, pendingTypes, received,
                   written, accepted, ran>>

PasswordResetMailSent(r) ==
    /\ Delivers("passwordResetMailSent", r)
    /\ CompleteRequest(r)
    /\ UNCHANGED <<nextClientId, clients, mail, received, written, accepted, ran>>

PasswordResetMailFailed(r) ==
    /\ Delivers("passwordResetMailFailed", r)
    /\ FailRequest(r)
    /\ UNCHANGED <<nextClientId, clients, mail, received, written, accepted, ran>>

\* Faulty variant: the payload is written whether or not the session exists.
WriteToAnySocket(r) ==
    /\ Delivers("responseReady", r)
    /\ queue' = Tail(queue)
    /\ written' = [written EXCEPT ![r.client] =
                        Append(@, [req |-> r, code |-> Head(queue).code])]
    /\ UNCHANGED <<nextClientId, clients, authenticated, pendingTypes, mail,
                   received, accepted, ran>>

\* onResponseReady: the payload is written to the session's socket; without a
\* session it is dropped.
OnResponseReady(r) ==
    /\ Delivers("responseReady", r)
    /\ queue' = Tail(queue)
    /\ written' = IF r.client \in clients
                  THEN [written EXCEPT ![r.client] =
                            Append(@, [req |-> r, code |-> Head(queue).code])]
                  ELSE written
    /\ UNCHANGED <<nextClientId, clients, authenticated, pendingTypes, mail,
                   received, accepted, ran>>

-----------------------------------------------------------------------------
Deliver(r) ==
    \/ DropRequest(r)
    \/ RejectRequest(r)
    \/ AcceptRequest(r)
    \/ LoginRequested(r)
    \/ RegistrationRequested(r)
    \/ CalculationRequested(r)
    \/ PasswordResetRequested(r)
    \/ PasswordResetVerificationRequested(r)
    \/ PasswordResetUpdateRequested(r)
    \/ PasswordResetMailSent(r)
    \/ PasswordResetMailFailed(r)
    \/ OnResponseReady(r)

\* One turn of the event loop: the event at the head is delivered.
EventLoop == queue # <<>> /\ Deliver(Head(queue).req)

Next ==
    \/ OnRemoteConnection
    \/ \E c \in clients : OnRemoteDisconnected(c)
    \/ \E c \in clients, l \in Lines : OnRemoteDataChunk(c, l)
    \/ \E r \in mail : MailReplyFinished(r)
    \/ EventLoop

Spec == Init /\ [][Next]_vars

\* The loop never stops delivering posted events.  Nothing is assumed of the
\* clients or of the mail service: the HTTP post has no transfer timeout.
FairSpec == Spec /\ WF_vars(EventLoop)

-----------------------------------------------------------------------------
(* Properties *)

IsLine(r, c, n) == r.client = c /\ r.line = n

\* Everywhere line n of connection c can be: in a posted event, with the mail
\* service, or answered.
Places(c, n) ==
    {<<"queue", i>> : i \in {k \in DOMAIN queue : IsLine(queue[k].req, c, n)}}
    \cup {<<"mail", r>> : r \in {s \in mail : IsLine(s, c, n)}}
    \cup {<<"written", i>> : i \in {k \in DOMAIN written[c] :
                                        IsLine(written[c][k].req, c, n)}}

\* No line is lost and none is answered twice: while its connection is up, a
\* line that was received is in exactly one place.  A handler that ran for a
\* request whose id was taken over by another one would find no pending entry,
\* and its line would vanish.
ExactlyOnce ==
    \A c \in clients : \A n \in 1..received[c] :
        \E p \in Places(c, n) : Places(c, n) = {p}

\* The requests some handler or the mail service still has to answer.
OwnersIn(q) ==
    {q[k].req : k \in {j \in DOMAIN q :
                        q[j].signal \in HandlerSignals \cup MailSignals}}
Owners == OwnersIn(queue) \cup mail
OwnersOf(c, i) == {r \in Owners : r.client = c /\ r.id = i}

\* The pending table of a session tells exactly what is under way: an entry has
\* one request behind it, of the type recorded, and a free id has none.  So a
\* completion never answers, or authenticates by, another request's entry, and
\* no id is blocked by Conflict once its request was answered.
PendingOwned ==
    \A c \in clients, i \in RequestIds :
        IF pendingTypes[c][i] = None
        THEN OwnersOf(c, i) = {}
        ELSE \E r \in OwnersOf(c, i) :
                /\ r.type = pendingTypes[c][i]
                /\ OwnersOf(c, i) = {r}

\* A session counts as authenticated exactly if the database accepted a login
\* or a registration made on that very connection.
AuthenticatedIffAccepted ==
    \A c \in clients : authenticated[c] <=> c \in accepted

\* A client that reads a success for a login, a registration or a calculation
\* is one the database accepted on this connection before.
SuccessMeansAccepted ==
    \A c \in ClientIds : \A k \in DOMAIN written[c] :
        /\ written[c][k].code = "ok"
        /\ written[c][k].req.type \in {"login", "register", "calculate"}
        => c \in accepted

\* Handlers run the requests of one connection in the order the lines came, so
\* a pipelined verification takes effect before the update that relies on it.
\* (Replies may still overtake each other.)
RunInOrder == [][\A c \in ClientIds : ran'[c] >= ran[c]]_ran

\* Every line is in the end answered for good, unless its client leaves or the
\* mail service sits on it: no other outcome is lost inside the server.
Answered(c, n) == \E k \in DOMAIN written[c] : IsLine(written[c][k].req, c, n)
WithMail(c, n) == \E r \in mail : IsLine(r, c, n)
EventuallySettled ==
    \A c \in ClientIds, n \in 1..MaxLines :
        <>[](c \in clients /\ n <= received[c] => Answered(c, n) \/ WithMail(c, n))

\* What the comment on TC-35 says of the server (tst_protocol.cpp:88): a request
\* of an unknown type is answered "not implemented" (unless its id is taken).
\* The code asks for authentication first.
UnknownTypeNotImplemented ==
    \A c \in ClientIds : \A k \in DOMAIN written[c] :
        written[c][k].req.type = "other"
            => written[c][k].code \in {"NotImplemented", "Conflict"}

\* The router keeps the promise of RequestReply.
Promise == INSTANCE RequestReply WITH
    Clients <- ClientIds,
    known <- 1..(nextClientId - 1),
    open <- clients,
    sent <- received,
    waiting <- [c \in ClientIds |-> {n \in 1..received[c] : ~Answered(c, n)}],
    replies <- [c \in ClientIds |-> Len(written[c])]
KeepsPromise == Promise!Spec

=============================================================================
