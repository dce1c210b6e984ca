--------------------------- MODULE Sessions_proofs ---------------------------
(***************************************************************************)
(* Theorems about Sessions, for any number of connections, lines and ids.  *)
(***************************************************************************)
EXTENDS Sessions, TLAPS

-----------------------------------------------------------------------------
(* Type correctness *)

LEMMA EventsLemma ==
    ASSUME NEW r \in Requests
    PROVE  /\ \A s \in Signals \ {"responseReady"} : Event(s, r) \in Events
           /\ \A code \in Codes : Response(r, code) \in Events
BY DEF Event, Response, Events, Signals, Codes

LEMMA SignalLemma ==
    /\ \A t \in HandledTypes : Signal[t] \in HandlerSignals
    /\ HandlerSignals \subseteq Signals
    /\ MailSignals \subseteq Signals
    /\ HandlerSignals \cap MailSignals = {}
    /\ "requestReceived" \notin HandlerSignals \cup MailSignals
    /\ "responseReady" \notin HandlerSignals \cup MailSignals
BY DEF Signal, HandlerSignals, MailSignals, Signals, HandledTypes

\* A queue of events stays one when its head is taken and an event appended.
LEMMA QueueLemma ==
    ASSUME NEW q \in Seq(Events), q # <<>>
    PROVE  /\ Head(q) \in Events
           /\ Tail(q) \in Seq(Events)
           /\ \A e \in Events : Append(Tail(q), e) \in Seq(Events)
OBVIOUS

LEMMA AppendLemma ==
    ASSUME NEW S, NEW s \in Seq(S), NEW e \in S
    PROVE  Append(s, e) \in Seq(S)
OBVIOUS

LEMMA VerdictLemma ==
    ASSUME NEW r
    PROVE  /\ Verdict(r) \in Codes
           /\ Verdict(r) = "ok" => r.type \in HandledTypes
BY DEF Verdict, Codes

\* Writing one entry of the pending table keeps its type.
LEMMA PendingLemma ==
    ASSUME NEW f \in [ClientIds -> [RequestIds -> Types \cup {None}]],
           NEW c \in ClientIds, NEW i \in RequestIds, NEW t \in Types \cup {None}
    PROVE  [f EXCEPT ![c][i] = t] \in [ClientIds -> [RequestIds -> Types \cup {None}]]
OBVIOUS

LEMMA TypeInit == Init => TypeOK
BY BoundsAssumption DEF Init, TypeOK, ClientIds, NoPending, Events

LEMMA TypeNext == TypeOK /\ [Next]_vars => TypeOK'
<1> SUFFICES ASSUME TypeOK, [Next]_vars PROVE TypeOK'
    OBVIOUS
<1> USE BoundsAssumption
<1>1. CASE OnRemoteConnection
  <2>1. /\ nextClientId' \in 1..(MaxClients + 1)
        /\ clients' \subseteq 1..(nextClientId' - 1)
    BY <1>1 DEF OnRemoteConnection, TypeOK
  <2> QED
    BY <1>1, <2>1 DEF OnRemoteConnection, TypeOK
<1>2. ASSUME NEW c \in clients, OnRemoteDisconnected(c) PROVE TypeOK'
  <2>1. c \in ClientIds
    BY DEF TypeOK, ClientIds
  <2> QED
    BY <1>2, <2>1 DEF OnRemoteDisconnected, TypeOK, NoPending
<1>3. ASSUME NEW c \in clients, NEW l \in Lines, OnRemoteDataChunk(c, l) PROVE TypeOK'
  <2>1. c \in ClientIds
    BY DEF TypeOK, ClientIds
  <2> DEFINE r == [client |-> c, line |-> received[c] + 1,
                   id |-> l.id, type |-> l.type, valid |-> l.valid]
  <2>2. /\ r \in Requests
        /\ received[c] + 1 \in 0..MaxLines
    <3>1. received[c] + 1 \in 1..MaxLines
      BY <1>3, <2>1 DEF OnRemoteDataChunk, TypeOK
    <3>2. l.id \in RequestIds /\ l.type \in Types \cup {None} /\ l.valid \in BOOLEAN
      BY LinesAssumption DEF LineSet
    <3> QED
      BY <2>1, <3>1, <3>2 DEF Requests
  <2>3. Posted(r, l.kind) \in Events
    BY <2>2, EventsLemma DEF Posted, Signals, Codes
  <2>4. queue' \in Seq(Events)
    BY <1>3, <2>3 DEF OnRemoteDataChunk, TypeOK
  <2>5. received' \in [ClientIds -> 0..MaxLines]
    BY <1>3, <2>1, <2>2 DEF OnRemoteDataChunk, TypeOK
  <2> QED
    BY <1>3, <2>4, <2>5 DEF OnRemoteDataChunk, TypeOK
<1>4. ASSUME NEW r \in mail, MailReplyFinished(r) PROVE TypeOK'
  <2>1. r \in Requests
    BY DEF TypeOK
  <2>2. queue' \in Seq(Events)
    BY <1>4, <2>1, EventsLemma, SignalLemma DEF MailReplyFinished, TypeOK
  <2> QED
    BY <1>4, <2>2 DEF MailReplyFinished, TypeOK
<1>5. CASE EventLoop
  <2> DEFINE r == Head(queue).req
  <2>1. queue # <<>> /\ Deliver(r)
    BY <1>5 DEF EventLoop
  <2>2. /\ Head(queue) \in Events
        /\ Tail(queue) \in Seq(Events)
        /\ \A e \in Events : Append(Tail(queue), e) \in Seq(Events)
    BY <2>1, QueueLemma DEF TypeOK
  <2>3. /\ r \in Requests
        /\ r.client \in ClientIds
        /\ r.line \in 1..MaxLines
        /\ r.id \in RequestIds
    BY <2>2 DEF Events, Requests
  <2>4. \A code \in Codes : Append(Tail(queue), Response(r, code)) \in Seq(Events)
    BY <2>2, <2>3, EventsLemma
  <2> HIDE DEF r
  <2> DEFINE Good == /\ queue' \in Seq(Events)
                     /\ pendingTypes' \in [ClientIds -> [RequestIds -> Types \cup {None}]]
                     /\ authenticated' \in [ClientIds -> BOOLEAN]
  <2>5. ASSUME CompleteLogin(r) PROVE Good
    <3>1. [pendingTypes EXCEPT ![r.client][r.id] = None]
            \in [ClientIds -> [RequestIds -> Types \cup {None}]]
      BY <2>3, PendingLemma DEF TypeOK
    <3>2. queue' \in Seq(Events)
      BY <2>2, <2>4, <2>5 DEF CompleteLogin, Codes
    <3>3. authenticated' \in [ClientIds -> BOOLEAN]
      BY <2>3, <2>5 DEF CompleteLogin, TypeOK
    <3> QED
      BY <2>5, <3>1, <3>2, <3>3 DEF CompleteLogin, TypeOK
  <2>6. ASSUME CompleteRequest(r) PROVE Good
    <3>1. [pendingTypes EXCEPT ![r.client][r.id] = None]
            \in [ClientIds -> [RequestIds -> Types \cup {None}]]
      BY <2>3, PendingLemma DEF TypeOK
    <3>2. queue' \in Seq(Events)
      BY <2>2, <2>4, <2>6 DEF CompleteRequest, Codes
    <3>3. authenticated' \in [ClientIds -> BOOLEAN]
      BY <2>3, <2>6 DEF CompleteRequest, TypeOK
    <3> QED
      BY <2>6, <3>1, <3>2, <3>3 DEF CompleteRequest, TypeOK
  <2>7. ASSUME FailRequest(r) PROVE Good
    <3>1. [pendingTypes EXCEPT ![r.client][r.id] = None]
            \in [ClientIds -> [RequestIds -> Types \cup {None}]]
      BY <2>3, PendingLemma DEF TypeOK
    <3>2. queue' \in Seq(Events)
      BY <2>2, <2>4, <2>7 DEF FailRequest, Codes
    <3> QED
      BY <2>7, <3>1, <3>2 DEF FailRequest, TypeOK
  <2>8. ASSUME NEW ok, Run(r, ok)
        PROVE  /\ ran' \in [ClientIds -> 0..MaxLines]
               /\ accepted' \subseteq ClientIds
    BY <2>3, <2>8 DEF Run, TypeOK
  <2>9. CASE DropRequest(r)
    BY <2>2, <2>9 DEF DropRequest, TypeOK
  <2>10. CASE RejectRequest(r)
    BY <2>4, <2>10, VerdictLemma DEF RejectRequest, TypeOK
  <2>11. CASE AcceptRequest(r)
    <3>1. /\ r.type \in HandledTypes
          /\ r.type \in Types \cup {None}
      BY <2>11, VerdictLemma DEF AcceptRequest, Types
    <3>2. queue' \in Seq(Events)
      BY <2>2, <2>3, <2>11, <3>1, EventsLemma, SignalLemma DEF AcceptRequest
    <3>3. pendingTypes' \in [ClientIds -> [RequestIds -> Types \cup {None}]]
      BY <2>3, <2>11, <3>1 DEF AcceptRequest, TypeOK
    <3> QED
      BY <2>11, <3>2, <3>3 DEF AcceptRequest, TypeOK
  <2>12. CASE LoginRequested(r)
    BY <2>5, <2>7, <2>8, <2>12 DEF LoginRequested, TypeOK
  <2>13. CASE RegistrationRequested(r)
    BY <2>6, <2>7, <2>8, <2>13 DEF RegistrationRequested, TypeOK
  <2>14. ASSUME NEW s, AnswerAtOnce(s, r) PROVE TypeOK'
    BY <2>6, <2>7, <2>8, <2>14 DEF AnswerAtOnce, TypeOK
  <2>15. CASE PasswordResetRequested(r)
    <3>1. Good
      BY <2>2, <2>7, <2>15 DEF PasswordResetRequested, TypeOK
    <3> QED
      BY <2>3, <2>8, <2>15, <3>1 DEF PasswordResetRequested, TypeOK
  <2>16. CASE PasswordResetMailSent(r)
    BY <2>6, <2>16 DEF PasswordResetMailSent, TypeOK
  <2>17. CASE PasswordResetMailFailed(r)
    BY <2>7, <2>17 DEF PasswordResetMailFailed, TypeOK
  <2>18. CASE OnResponseReady(r)
    <3>1. Head(queue).code \in Codes
      BY <2>2, <2>18 DEF OnResponseReady, Delivers, Events
    <3> DEFINE entry == [req |-> r, code |-> Head(queue).code]
    <3>2. entry \in [req : Requests, code : Codes]
      BY <2>3, <3>1
    <3> HIDE DEF entry
    <3>3. Append(written[r.client], entry) \in Seq([req : Requests, code : Codes])
      <4>1. written[r.client] \in Seq([req : Requests, code : Codes])
        BY <2>3 DEF TypeOK
      <4> QED
        BY <3>2, <4>1, AppendLemma
    <3>4. [written EXCEPT ![r.client] = Append(@, entry)]
            \in [ClientIds -> Seq([req : Requests, code : Codes])]
      BY <2>3, <3>3 DEF TypeOK
    <3>5. written' \in [ClientIds -> Seq([req : Requests, code : Codes])]
      BY <2>18, <3>4 DEF OnResponseReady, TypeOK, entry
    <3> QED
      BY <2>2, <2>18, <3>5 DEF OnResponseReady, TypeOK
  <2> QED
    BY <2>1, <2>9, <2>10, <2>11, <2>12, <2>13, <2>14, <2>15, <2>16, <2>17, <2>18
    DEF Deliver, CalculationRequested, PasswordResetVerificationRequested,
        PasswordResetUpdateRequested
<1>6. CASE UNCHANGED vars
    BY <1>6 DEF vars, TypeOK
<1> QED
    BY <1>1, <1>2, <1>3, <1>4, <1>5, <1>6 DEF Next

\* The variables keep their types in every reachable state.
THEOREM TypeCorrect == Spec => []TypeOK
BY TypeInit, TypeNext, PTL DEF Spec

-----------------------------------------------------------------------------
(* What taking the head of a sequence and appending to it does to the      *)
(* lines it holds and to the requests under way in it.  Both the queue and *)
(* written[c] are such sequences: their elements have a field `req'.       *)

Key(r) == <<r.client, r.line>>
KeysIn(s) == {Key(s[k].req) : k \in DOMAIN s}
NoDup(s) == \A i, j \in DOMAIN s : Key(s[i].req) = Key(s[j].req) => i = j

LEMMA KeysAppend ==
    ASSUME NEW S, NEW s \in Seq(S), NEW e \in S
    PROVE  /\ KeysIn(Append(s, e)) = KeysIn(s) \cup {Key(e.req)}
           /\ NoDup(s) /\ Key(e.req) \notin KeysIn(s) => NoDup(Append(s, e))
<1> DEFINE t == Append(s, e)
<1>1. /\ DOMAIN s = 1..Len(s)
      /\ DOMAIN t = 1..(Len(s) + 1)
      /\ Len(s) \in Nat
      /\ \A k \in 1..Len(s) : t[k] = s[k]
      /\ t[Len(s) + 1] = e
    OBVIOUS
<1> HIDE DEF t
<1>2. KeysIn(t) = KeysIn(s) \cup {Key(e.req)}
    BY <1>1 DEF KeysIn
<1>3. ASSUME NoDup(s), Key(e.req) \notin KeysIn(s) PROVE NoDup(t)
    BY <1>1, <1>3 DEF KeysIn, NoDup
<1> QED
    BY <1>2, <1>3 DEF t

LEMMA KeysTail ==
    ASSUME NEW S, NEW s \in Seq(S), s # <<>>
    PROVE  /\ KeysIn(s) = {Key(Head(s).req)} \cup KeysIn(Tail(s))
           /\ NoDup(s) => NoDup(Tail(s)) /\ Key(Head(s).req) \notin KeysIn(Tail(s))
<1> DEFINE t == Tail(s)
           h == Head(s)
<1>1. /\ DOMAIN s = 1..Len(s)
      /\ DOMAIN t = 1..(Len(s) - 1)
      /\ Len(s) \in Nat \ {0}
      /\ \A k \in 1..(Len(s) - 1) : t[k] = s[k + 1]
      /\ h = s[1]
    OBVIOUS
<1>2. \A k \in 2..Len(s) : k - 1 \in 1..(Len(s) - 1) /\ s[k] = t[k - 1]
    BY <1>1
<1> HIDE DEF t, h
<1>3. KeysIn(s) = {Key(h.req)} \cup KeysIn(t)
  <2>1. KeysIn(s) \subseteq {Key(h.req)} \cup KeysIn(t)
    BY <1>1, <1>2 DEF KeysIn
  <2>2. {Key(h.req)} \cup KeysIn(t) \subseteq KeysIn(s)
    BY <1>1 DEF KeysIn
  <2> QED
    BY <2>1, <2>2
<1>4. ASSUME NoDup(s) PROVE NoDup(t) /\ Key(h.req) \notin KeysIn(t)
    BY <1>1, <1>4 DEF KeysIn, NoDup
<1> QED
    BY <1>3, <1>4 DEF t, h

OwnerSignals == HandlerSignals \cup MailSignals

LEMMA OwnersAppend ==
    ASSUME NEW S, NEW s \in Seq(S), NEW e \in S
    PROVE  OwnersIn(Append(s, e)) =
             OwnersIn(s) \cup {r \in {e.req} : e.signal \in OwnerSignals}
<1> DEFINE t == Append(s, e)
<1>1. /\ DOMAIN s = 1..Len(s)
      /\ DOMAIN t = 1..(Len(s) + 1)
      /\ Len(s) \in Nat
      /\ \A k \in 1..Len(s) : t[k] = s[k]
      /\ t[Len(s) + 1] = e
    OBVIOUS
<1> HIDE DEF t
<1>2. OwnersIn(t) = OwnersIn(s) \cup {r \in {e.req} : e.signal \in OwnerSignals}
    BY <1>1 DEF OwnersIn, OwnerSignals
<1> QED
    BY <1>2 DEF t

LEMMA OwnersTail ==
    ASSUME NEW S, NEW s \in Seq(S), s # <<>>
    PROVE  OwnersIn(s) = {r \in {Head(s).req} : Head(s).signal \in OwnerSignals}
                            \cup OwnersIn(Tail(s))
<1> DEFINE t == Tail(s)
           h == Head(s)
<1>1. /\ DOMAIN s = 1..Len(s)
      /\ DOMAIN t = 1..(Len(s) - 1)
      /\ Len(s) \in Nat \ {0}
      /\ \A k \in 1..(Len(s) - 1) : t[k] = s[k + 1]
      /\ h = s[1]
    OBVIOUS
<1>2. \A k \in 2..Len(s) : k - 1 \in 1..(Len(s) - 1) /\ s[k] = t[k - 1]
    BY <1>1
<1> HIDE DEF t, h
<1>3. OwnersIn(s) \subseteq {r \in {h.req} : h.signal \in OwnerSignals} \cup OwnersIn(t)
  <2> SUFFICES ASSUME NEW r \in OwnersIn(s), r \notin OwnersIn(t)
               PROVE  r = h.req /\ h.signal \in OwnerSignals
    OBVIOUS
  <2>1. PICK k \in 1..Len(s) : s[k].req = r /\ s[k].signal \in OwnerSignals
    BY <1>1 DEF OwnersIn, OwnerSignals
  <2>2. k = 1
    BY <1>1, <1>2, <2>1, SMTT(40) DEF OwnersIn, OwnerSignals
  <2> QED
    BY <1>1, <2>1, <2>2
<1>4. {r \in {h.req} : h.signal \in OwnerSignals} \cup OwnersIn(t) \subseteq OwnersIn(s)
    BY <1>1 DEF OwnersIn, OwnerSignals
<1> QED
    BY <1>3, <1>4 DEF t, h

LEMMA OwnersHaveKeys ==
    ASSUME NEW s, NEW r \in OwnersIn(s)
    PROVE  Key(r) \in KeysIn(s)
BY DEF OwnersIn, KeysIn

-----------------------------------------------------------------------------
(* The inductive invariant *)

MailKeys == {Key(r) : r \in mail}
InFlight == KeysIn(queue) \cup MailKeys

\* Where the lines are: every line known is numbered within what its connection
\* sent, is in one place, and is somewhere while the connection is up.
LineInv ==
    /\ NoDup(queue)
    /\ \A r, s \in mail : Key(r) = Key(s) => r = s
    /\ KeysIn(queue) \cap MailKeys = {}
    /\ \A c \in ClientIds :
          /\ NoDup(written[c])
          /\ KeysIn(written[c]) \cap InFlight = {}
          /\ \A d \in ClientIds, n \in 1..MaxLines :
                <<d, n>> \in KeysIn(written[c]) => d = c /\ n <= received[c]
          /\ nextClientId <= c => received[c] = 0
    /\ \A c \in ClientIds, n \in 1..MaxLines :
          <<c, n>> \in InFlight => c < nextClientId /\ n <= received[c]
    /\ \A c \in clients : \A n \in 1..received[c] :
          <<c, n>> \in InFlight \cup KeysIn(written[c])

\* A signal and the type of the request it carries belong together.
SignalOK(e) ==
    /\ e.signal \in HandlerSignals => /\ e.req.type \in HandledTypes
                                      /\ e.signal = Signal[e.req.type]
    /\ e.signal \in MailSignals => e.req.type = "request_password_reset"
SignalInv ==
    /\ \A k \in DOMAIN queue : SignalOK(queue[k])
    /\ \A r \in mail : r.type = "request_password_reset"

\* The pending table and the requests under way are in step.
OwnerInv ==
    /\ \A r \in Owners : r.client \in clients =>
          pendingTypes[r.client][r.id] = r.type
    /\ \A r, s \in Owners :
          r.client \in clients /\ r.client = s.client /\ r.id = s.id => r = s
    /\ \A c \in clients, i \in RequestIds : pendingTypes[c][i] # None =>
          \E r \in Owners : r.client = c /\ r.id = i
    /\ \A c \in ClientIds \ clients : pendingTypes[c] = NoPending

\* Authentication and the database's answers are in step.
AuthInv ==
    /\ \A c \in clients : authenticated[c] <=> c \in accepted
    /\ \A c \in ClientIds \ clients : ~authenticated[c]
    /\ \A c \in accepted : c < nextClientId

IInv == TypeOK /\ LineInv /\ SignalInv /\ OwnerInv /\ AuthInv

-----------------------------------------------------------------------------
(* How lines move.  Each lemma is about one kind of move; every action of  *)
(* Next is one of them.                                                    *)

LEMMA ClientsLemma ==
    TypeOK => /\ clients \subseteq ClientIds
              /\ \A c \in clients : c < nextClientId
              /\ nextClientId \in Nat
<1> SUFFICES ASSUME TypeOK
             PROVE  /\ clients \subseteq ClientIds
                    /\ \A c \in clients : c < nextClientId
                    /\ nextClientId \in Nat
    OBVIOUS
<1>1. nextClientId \in Nat /\ nextClientId - 1 <= MaxClients
    BY BoundsAssumption DEF TypeOK
<1>2. \A c \in clients : c \in 1..(nextClientId - 1)
    BY DEF TypeOK
<1> QED
    BY <1>1, <1>2, BoundsAssumption DEF ClientIds

\* Nothing moves; connections may come and go.
LEMMA LineStill ==
    ASSUME TypeOK, LineInv, UNCHANGED <<queue, mail, written, received>>,
           nextClientId <= nextClientId', nextClientId' \in Nat,
           \A c \in clients' : c \in ClientIds /\ (c \in clients \/ nextClientId <= c)
    PROVE  LineInv'
<1>1. /\ KeysIn(queue)' = KeysIn(queue)
      /\ MailKeys' = MailKeys
      /\ NoDup(queue)' = NoDup(queue)
      /\ \A c \in ClientIds : /\ KeysIn(written[c])' = KeysIn(written[c])
                              /\ NoDup(written[c])' = NoDup(written[c])
    BY DEF KeysIn, NoDup, MailKeys
<1>2. InFlight' = InFlight
    BY <1>1 DEF InFlight
<1>3. \A c \in clients' : \A n \in 1..received'[c] :
        <<c, n>> \in InFlight' \cup KeysIn(written'[c])
  <2> SUFFICES ASSUME NEW c \in clients', NEW n \in 1..received[c]
               PROVE  <<c, n>> \in InFlight \cup KeysIn(written[c])
    BY <1>2
  <2>1. c \in clients
    BY DEF LineInv, TypeOK, ClientIds
  <2> QED
    BY <2>1 DEF LineInv
<1>4. \A c \in ClientIds : c \in Nat /\ (nextClientId' <= c => nextClientId <= c)
    BY DEF ClientIds, TypeOK
<1>5. \A c \in ClientIds : c < nextClientId => c < nextClientId'
    BY DEF ClientIds, TypeOK
<1> QED
    BY <1>1, <1>2, <1>3, <1>4, <1>5 DEF LineInv

\* An event about the line at the head replaces the head.
LEMMA LineRequeue ==
    ASSUME TypeOK, LineInv, queue # <<>>,
           NEW e \in Events, e.req = Head(queue).req,
           queue' = Append(Tail(queue), e),
           UNCHANGED <<nextClientId, clients, mail, written, received>>
    PROVE  LineInv'
<1> DEFINE t == Tail(queue)
<1>1. t \in Seq(Events)
    BY QueueLemma DEF TypeOK
<1>2. /\ KeysIn(queue) = {Key(e.req)} \cup KeysIn(t)
      /\ NoDup(t) /\ Key(e.req) \notin KeysIn(t)
    BY KeysTail DEF LineInv, TypeOK
<1> HIDE DEF t
<1>3. /\ KeysIn(Append(t, e)) = KeysIn(queue)
      /\ NoDup(Append(t, e))
    BY <1>1, <1>2, KeysAppend
<1>4. queue' = Append(t, e)
    BY DEF t
<1>5. InFlight' = InFlight /\ MailKeys' = MailKeys
    BY <1>3, <1>4 DEF InFlight, MailKeys
<1> QED
    BY <1>3, <1>4, <1>5 DEF LineInv

\* The line at the head is dropped: its connection has gone.
LEMMA LineDrop ==
    ASSUME TypeOK, LineInv, queue # <<>>,
           Head(queue).req.client \notin clients,
           queue' = Tail(queue),
           UNCHANGED <<nextClientId, clients, mail, written, received>>
    PROVE  LineInv'
<1> DEFINE h == Head(queue).req
<1>1. /\ KeysIn(queue) = {Key(h)} \cup KeysIn(queue')
      /\ NoDup(queue')
    BY KeysTail DEF LineInv, TypeOK
<1> HIDE DEF h
<1>2. MailKeys' = MailKeys
    BY DEF MailKeys
<1>3. InFlight' \subseteq InFlight /\ InFlight \subseteq InFlight' \cup {Key(h)}
    BY <1>1, <1>2 DEF InFlight
<1>4. \A c \in clients : \A n \in 1..received[c] : <<c, n>> # Key(h)
    BY DEF Key, h
<1> QED
    BY <1>1, <1>2, <1>3, <1>4 DEF LineInv

\* The line at the head goes to the mail service.
LEMMA LineToMail ==
    ASSUME TypeOK, LineInv, queue # <<>>,
           queue' = Tail(queue), mail' = mail \cup {Head(queue).req},
           UNCHANGED <<nextClientId, clients, written, received>>
    PROVE  LineInv'
<1> DEFINE h == Head(queue).req
<1>1. /\ KeysIn(queue) = {Key(h)} \cup KeysIn(queue')
      /\ NoDup(queue') /\ Key(h) \notin KeysIn(queue')
    BY KeysTail DEF LineInv, TypeOK
<1> HIDE DEF h
<1>2. MailKeys' = MailKeys \cup {Key(h)} /\ Key(h) \notin MailKeys
    BY <1>1 DEF MailKeys, h, LineInv
<1>3. InFlight' = InFlight
    BY <1>1, <1>2 DEF InFlight
<1>4. \A r, s \in mail' : Key(r) = Key(s) => r = s
    BY <1>2 DEF LineInv, MailKeys, h
<1> QED
    BY <1>1, <1>2, <1>3, <1>4 DEF LineInv

\* A line comes back from the mail service.
LEMMA LineFromMail ==
    ASSUME TypeOK, LineInv, NEW e \in Events, e.req \in mail,
           queue' = Append(queue, e), mail' = mail \ {e.req},
           UNCHANGED <<nextClientId, clients, written, received>>
    PROVE  LineInv'
<1>1. MailKeys' = MailKeys \ {Key(e.req)} /\ Key(e.req) \in MailKeys
    BY DEF MailKeys, LineInv
<1>2. Key(e.req) \notin KeysIn(queue)
    BY <1>1 DEF LineInv
<1>3. KeysIn(queue)' = KeysIn(queue) \cup {Key(e.req)} /\ NoDup(queue)'
    BY <1>2, KeysAppend DEF LineInv, TypeOK
<1>4. InFlight' = InFlight
    BY <1>1, <1>3 DEF InFlight
<1> QED
    BY <1>1, <1>3, <1>4 DEF LineInv

\* The line at the head is answered.
LEMMA LineAnswer ==
    ASSUME TypeOK, LineInv, queue # <<>>,
           NEW e \in [req : Requests, code : Codes], e.req = Head(queue).req,
           queue' = Tail(queue),
           written' = [written EXCEPT ![e.req.client] = Append(@, e)],
           UNCHANGED <<nextClientId, clients, mail, received>>
    PROVE  LineInv'
<1> DEFINE h == e.req
           d == h.client
<1>1. /\ KeysIn(queue) = {Key(h)} \cup KeysIn(queue')
      /\ NoDup(queue') /\ Key(h) \notin KeysIn(queue')
    BY KeysTail DEF LineInv, TypeOK
<1>2. d \in ClientIds /\ h.line \in 1..MaxLines /\ Key(h) = <<d, h.line>>
    BY DEF Requests, Key
<1>3. /\ written[d] \in Seq([req : Requests, code : Codes])
      /\ written'[d] = Append(written[d], e)
      /\ \A c \in ClientIds \ {d} : written'[c] = written[c]
    BY <1>2 DEF TypeOK
<1>4. Key(h) \notin KeysIn(written[d]) /\ NoDup(written[d])
    BY <1>1, <1>2 DEF LineInv, InFlight
<1>5. KeysIn(written'[d]) = KeysIn(written[d]) \cup {Key(h)} /\ NoDup(written'[d])
  <2> DEFINE Written == [req : Requests, code : Codes]
             w == written[d]
  <2>1. /\ w \in Seq(Written) /\ e \in Written
        /\ NoDup(w) /\ Key(e.req) \notin KeysIn(w)
    BY <1>3, <1>4
  <2> HIDE DEF Written, w
  <2>2. KeysIn(Append(w, e)) = KeysIn(w) \cup {Key(e.req)} /\ NoDup(Append(w, e))
    BY <2>1, KeysAppend
  <2> QED
    BY <1>3, <2>2 DEF w
<1> HIDE DEF h, d
<1>6. MailKeys' = MailKeys /\ Key(h) \notin MailKeys
    BY <1>1 DEF MailKeys, LineInv
<1>7. InFlight' = InFlight \ {Key(h)} /\ Key(h) \in InFlight
    BY <1>1, <1>6 DEF InFlight
<1>8. h.line <= received[d]
    BY <1>2, <1>7 DEF LineInv
<1>9. ASSUME NEW c \in ClientIds
      PROVE  /\ NoDup(written'[c])
             /\ KeysIn(written'[c]) \cap InFlight' = {}
             /\ \A b \in ClientIds, n \in 1..MaxLines :
                   <<b, n>> \in KeysIn(written'[c]) => b = c /\ n <= received[c]
  <2>1. CASE c = d
      BY <1>2, <1>5, <1>7, <1>8, <2>1 DEF LineInv
  <2>2. CASE c # d
      BY <1>3, <1>7, <2>2 DEF LineInv
  <2> QED
      BY <2>1, <2>2
<1>10. ASSUME NEW c \in clients, NEW n \in 1..received[c]
       PROVE  <<c, n>> \in InFlight' \cup KeysIn(written'[c])
  <2>1. <<c, n>> \in InFlight \cup KeysIn(written[c]) /\ c \in ClientIds
      BY ClientsLemma DEF LineInv
  <2>2. CASE c = d
    <3>1. <<c, n>> \in InFlight \cup KeysIn(written[d])
      BY <2>1, <2>2
    <3> QED
      BY <1>5, <1>7, <2>2, <3>1
  <2>3. CASE c # d
      BY <1>2, <1>3, <1>7, <2>1, <2>3
  <2> QED
      BY <2>2, <2>3
<1> QED
    BY <1>1, <1>6, <1>7, <1>9, <1>10 DEF LineInv

\* A new line arrives.
LEMMA LineReceive ==
    ASSUME TypeOK, LineInv, NEW c \in clients, NEW e \in Events,
           e.req.client = c, e.req.line = received[c] + 1,
           queue' = Append(queue, e),
           received' = [received EXCEPT ![c] = @ + 1],
           UNCHANGED <<nextClientId, clients, mail, written>>
    PROVE  LineInv'
<1> DEFINE k == Key(e.req)
<1>1. /\ c \in ClientIds /\ c < nextClientId
      /\ received[c] \in Nat
      /\ received[c] + 1 \in 1..MaxLines
      /\ received'[c] = received[c] + 1
      /\ \A b \in ClientIds \ {c} : received'[b] = received[b]
      /\ k = <<c, received[c] + 1>>
    BY DEF TypeOK, ClientIds, Events, Requests, Key
<1> HIDE DEF k
<1>2. k \notin InFlight /\ \A b \in ClientIds : k \notin KeysIn(written[b])
    BY <1>1 DEF LineInv
<1>3. KeysIn(queue)' = KeysIn(queue) \cup {k} /\ NoDup(queue)'
    BY <1>2, KeysAppend DEF LineInv, TypeOK, k, InFlight
<1>4. MailKeys' = MailKeys /\ k \notin MailKeys
    BY <1>2 DEF MailKeys, InFlight
<1>5. InFlight' = InFlight \cup {k}
    BY <1>3, <1>4 DEF InFlight
<1>6. \A b \in ClientIds : received[b] \in Nat /\ received'[b] \in Nat
                          /\ received[b] <= received'[b]
    BY <1>1 DEF TypeOK
<1>7. ASSUME NEW b \in clients, NEW n \in 1..received'[b]
      PROVE  <<b, n>> \in InFlight' \cup KeysIn(written[b])
  <2>1. b \in ClientIds
      BY ClientsLemma
  <2>2. CASE <<b, n>> = k
      BY <1>5, <2>2
  <2>3. CASE n \in 1..received[b]
      BY <1>5, <2>3 DEF LineInv
  <2> QED
      BY <1>1, <2>1, <2>2, <2>3
<1>8. ASSUME NEW b \in ClientIds, NEW n \in 1..MaxLines, <<b, n>> \in InFlight'
      PROVE  b < nextClientId /\ n <= received'[b]
  <2>1. CASE <<b, n>> = k
      BY <1>1, <2>1
  <2>2. CASE <<b, n>> \in InFlight
      BY <1>6, <2>2 DEF LineInv
  <2> QED
      BY <1>5, <1>8, <2>1, <2>2
<1>9. ASSUME NEW b \in ClientIds
      PROVE  /\ KeysIn(written[b]) \cap InFlight' = {}
             /\ nextClientId <= b => received'[b] = 0
             /\ \A d \in ClientIds, n \in 1..MaxLines :
                   <<d, n>> \in KeysIn(written[b]) => d = b /\ n <= received'[b]
  <2>1. KeysIn(written[b]) \cap InFlight' = {}
      BY <1>2, <1>5 DEF LineInv
  <2>2. nextClientId <= b => received'[b] = 0
      BY <1>1 DEF LineInv, TypeOK, ClientIds
  <2>3. \A d \in ClientIds, n \in 1..MaxLines :
          <<d, n>> \in KeysIn(written[b]) => d = b /\ n <= received'[b]
      BY <1>6 DEF LineInv
  <2> QED
      BY <2>1, <2>2, <2>3
<1> QED
    BY <1>3, <1>4, <1>7, <1>8, <1>9 DEF LineInv

-----------------------------------------------------------------------------
(* How requests under way move.                                            *)

LEMMA TailOwners ==
    ASSUME TypeOK, LineInv, queue # <<>>
    PROVE  /\ OwnersIn(Tail(queue)) =
                {r \in OwnersIn(queue) :
                    Head(queue).signal \in OwnerSignals => r # Head(queue).req}
           /\ Head(queue).req \notin OwnersIn(Tail(queue))
           /\ Head(queue).req \notin mail
           /\ Head(queue).signal \in OwnerSignals => Head(queue).req \in OwnersIn(queue)
<1> DEFINE h == Head(queue)
           t == Tail(queue)
<1>1. OwnersIn(queue) = {r \in {h.req} : h.signal \in OwnerSignals} \cup OwnersIn(t)
    BY OwnersTail DEF TypeOK
<1>2. Key(h.req) \notin KeysIn(t) /\ Key(h.req) \in KeysIn(queue)
    BY KeysTail DEF TypeOK, LineInv
<1>3. h.req \notin OwnersIn(t)
    BY <1>2, OwnersHaveKeys
<1>4. h.req \notin mail
    BY <1>2 DEF LineInv, MailKeys
<1> HIDE DEF h, t
<1> QED
    BY <1>1, <1>3, <1>4 DEF h, t

LEMMA OwnersTyped ==
    ASSUME TypeOK, NEW r \in Owners
    PROVE  r \in Requests
BY DEF TypeOK, Owners, OwnersIn, Events

LEMMA OwnersHandled ==
    ASSUME SignalInv, NEW r \in Owners
    PROVE  r.type \in HandledTypes /\ r.type # None
BY DEF SignalInv, SignalOK, Owners, OwnersIn, HandledTypes, None

LEMMA OwnersInFlight ==
    ASSUME NEW r \in Owners
    PROVE  Key(r) \in InFlight
BY OwnersHaveKeys DEF Owners, InFlight, MailKeys

\* No request starts or ends; a connection may leave and take its table along.
LEMMA OwnersStay ==
    ASSUME OwnerInv, Owners' = Owners, clients' \subseteq clients,
           \A c \in clients' : pendingTypes'[c] = pendingTypes[c],
           \A c \in ClientIds \ clients' : pendingTypes'[c] = NoPending
    PROVE  OwnerInv'
BY DEF OwnerInv

\* A request starts under a free id.
LEMMA OwnerStarts ==
    ASSUME TypeOK, SignalInv, OwnerInv, NEW r \in Requests, r.client \in clients,
           pendingTypes[r.client][r.id] = None,
           Owners' = Owners \cup {r}, clients' = clients,
           pendingTypes' = [pendingTypes EXCEPT ![r.client][r.id] = r.type]
    PROVE  OwnerInv'
<1>1. \A s \in Owners : s \in Requests
    BY OwnersTyped
<1>2. r.client \in ClientIds /\ r.id \in RequestIds
    BY DEF Requests
<1>3. \A c \in ClientIds, i \in RequestIds :
        pendingTypes'[c][i] = IF c = r.client /\ i = r.id THEN r.type
                              ELSE pendingTypes[c][i]
    BY <1>2 DEF TypeOK
<1>4. \A s \in Owners : s.client = r.client => s.id # r.id
    BY OwnersHandled DEF OwnerInv
<1>5. ASSUME NEW s \in Owners', s.client \in clients
      PROVE  pendingTypes'[s.client][s.id] = s.type
  <2>1. CASE s = r
      BY <1>2, <1>3, <2>1
  <2>2. CASE s \in Owners
      BY <1>1, <1>3, <1>4, <1>5, <2>2 DEF OwnerInv, Requests
  <2> QED
      BY <2>1, <2>2
<1>6. ASSUME NEW c \in clients, NEW i \in RequestIds, pendingTypes'[c][i] # None,
             c \in ClientIds
      PROVE  \E s \in Owners' : s.client = c /\ s.id = i
    BY <1>3, <1>6 DEF OwnerInv
<1>7. \A c \in ClientIds \ clients : pendingTypes'[c] = NoPending
    BY DEF OwnerInv, TypeOK
<1>8. \A s, u \in Owners' :
        s.client \in clients /\ s.client = u.client /\ s.id = u.id => s = u
    BY <1>4 DEF OwnerInv
<1> QED
    BY <1>5, <1>6, <1>7, <1>8, ClientsLemma DEF OwnerInv

\* A request under way ends and frees its id.
LEMMA OwnerEnds ==
    ASSUME TypeOK, SignalInv, OwnerInv, NEW r \in Owners, r.client \in clients,
           Owners' = Owners \ {r}, clients' = clients,
           pendingTypes' = [pendingTypes EXCEPT ![r.client][r.id] = None]
    PROVE  OwnerInv'
<1>1. \A s \in Owners : s \in Requests
    BY OwnersTyped
<1>2. r.client \in ClientIds /\ r.id \in RequestIds
    BY <1>1 DEF Requests
<1>3. \A c \in ClientIds, i \in RequestIds :
        pendingTypes'[c][i] = IF c = r.client /\ i = r.id THEN None
                              ELSE pendingTypes[c][i]
    BY <1>2 DEF TypeOK
<1>4. ASSUME NEW s \in Owners', s.client \in clients
      PROVE  pendingTypes'[s.client][s.id] = s.type
  <2>1. ~(s.client = r.client /\ s.id = r.id)
    BY DEF OwnerInv
  <2> QED
    BY <1>1, <1>3, <1>4, <2>1 DEF OwnerInv, Requests
<1>5. ASSUME NEW c \in clients, NEW i \in RequestIds, pendingTypes'[c][i] # None,
             c \in ClientIds
      PROVE  \E s \in Owners' : s.client = c /\ s.id = i
    BY <1>3, <1>5 DEF OwnerInv
<1>6. \A c \in ClientIds \ clients : pendingTypes'[c] = NoPending
    BY DEF OwnerInv, TypeOK
<1>7. \A s, u \in Owners' :
        s.client \in clients /\ s.client = u.client /\ s.id = u.id => s = u
    BY DEF OwnerInv
<1> QED
    BY <1>4, <1>5, <1>6, <1>7, ClientsLemma DEF OwnerInv

\* A request of a connection that has gone ends.
LEMMA OwnerGone ==
    ASSUME OwnerInv, NEW r, r.client \notin clients, Owners' = Owners \ {r},
           UNCHANGED <<clients, pendingTypes>>
    PROVE  OwnerInv'
<1>1. ASSUME NEW c \in clients, NEW i \in RequestIds, pendingTypes[c][i] # None
      PROVE  \E s \in Owners' : s.client = c /\ s.id = i
  <2>1. PICK s \in Owners : s.client = c /\ s.id = i
      BY <1>1 DEF OwnerInv
  <2> QED
      BY <2>1
<1> QED
    BY <1>1 DEF OwnerInv

\* Signals stay paired with types along the queue.
LEMMA SignalsTail ==
    ASSUME TypeOK, SignalInv, queue # <<>>
    PROVE  /\ SignalOK(Head(queue))
           /\ \A k \in DOMAIN Tail(queue) : SignalOK(Tail(queue)[k])
<1> DEFINE t == Tail(queue)
<1>1. /\ DOMAIN queue = 1..Len(queue)
      /\ DOMAIN t = 1..(Len(queue) - 1)
      /\ Len(queue) \in Nat \ {0}
      /\ \A k \in 1..(Len(queue) - 1) : t[k] = queue[k + 1]
      /\ Head(queue) = queue[1]
    BY DEF TypeOK
<1> HIDE DEF t
<1>2. SignalOK(Head(queue))
    BY <1>1 DEF SignalInv
<1>3. \A k \in DOMAIN t : SignalOK(t[k])
    BY <1>1 DEF SignalInv
<1> QED
    BY <1>2, <1>3 DEF t

LEMMA SignalsAppend ==
    ASSUME NEW s \in Seq(Events), \A k \in DOMAIN s : SignalOK(s[k]),
           NEW e \in Events, SignalOK(e)
    PROVE  \A k \in DOMAIN Append(s, e) : SignalOK(Append(s, e)[k])
<1> DEFINE t == Append(s, e)
<1>1. /\ DOMAIN s = 1..Len(s)
      /\ DOMAIN t = 1..(Len(s) + 1)
      /\ Len(s) \in Nat
      /\ \A k \in 1..Len(s) : t[k] = s[k]
      /\ t[Len(s) + 1] = e
    OBVIOUS
<1> HIDE DEF t
<1>2. \A k \in DOMAIN t : SignalOK(t[k])
    BY <1>1
<1> QED
    BY <1>2 DEF t

\* Responses and requests are not under way in a handler or with the mail
\* service.
LEMMA OtherSignals ==
    ASSUME NEW r, NEW code
    PROVE  /\ SignalOK(Response(r, code)) /\ Response(r, code).req = r
           /\ Response(r, code).signal \notin OwnerSignals
           /\ SignalOK(Event("requestReceived", r))
           /\ "requestReceived" \notin OwnerSignals
BY SignalLemma DEF SignalOK, Response, Event, OwnerSignals

LEMMA QueueTyped ==
    ASSUME TypeOK, queue # <<>>
    PROVE  /\ Head(queue) \in Events
           /\ Head(queue).req \in Requests
           /\ Tail(queue) \in Seq(Events)
<1>1. Head(queue) \in Events /\ Tail(queue) \in Seq(Events)
    BY QueueLemma DEF TypeOK
<1> QED
    BY <1>1 DEF Events

-----------------------------------------------------------------------------
(* A request under way comes to its end.                                   *)

LEMMA Completion ==
    ASSUME TypeOK, LineInv, SignalInv, OwnerInv, queue # <<>>,
           NEW r, r = Head(queue).req, Head(queue).signal \in OwnerSignals,
           \/ CompleteLogin(r) /\ r.type = "login"
           \/ CompleteRequest(r)
           \/ FailRequest(r),
           UNCHANGED <<nextClientId, clients, mail, received, written>>
    PROVE  /\ LineInv' /\ SignalInv' /\ OwnerInv'
           /\ r.client \notin clients => UNCHANGED authenticated
           /\ r.client \in clients => pendingTypes[r.client][r.id] = r.type
           /\ r.client \in clients => IsPending(r)
<1> DEFINE t == Tail(queue)
<1>1. r \in Requests /\ t \in Seq(Events)
    BY QueueTyped
<1>2. r \in Owners
    BY TailOwners DEF Owners
<1>3. OwnersIn(t) \cup mail = Owners \ {r}
    BY TailOwners DEF Owners
<1>4. r.client \in clients => pendingTypes[r.client][r.id] = r.type /\ r.type # None
    BY <1>2, OwnersHandled DEF OwnerInv
<1>5. (\A k \in DOMAIN t : SignalOK(t[k])) /\ mail' = mail
    BY SignalsTail
<1>6. CASE r.client \in clients
  <2>1. IsPending(r) /\ r.client \in clients
    BY <1>4, <1>6 DEF IsPending
  <2>2. /\ pendingTypes' = [pendingTypes EXCEPT ![r.client][r.id] = None]
        /\ queue' = Append(t, Response(r, "ok")) \/ queue' = Append(t, Response(r, "Failed"))
    BY <1>4, <2>1 DEF CompleteLogin, CompleteRequest, FailRequest
  <2>3. PICK e \in Events : queue' = Append(t, e) /\ (e = Response(r, "ok") \/ e = Response(r, "Failed"))
    BY <1>1, <2>2, EventsLemma DEF Codes
  <2>4. e.req = r /\ SignalOK(e) /\ e.signal \notin OwnerSignals
    BY <2>3, OtherSignals
  <2> HIDE DEF t
  <2>5. Owners' = Owners \ {r}
    BY <1>1, <1>3, <2>3, <2>4, OwnersAppend DEF Owners
  <2>6. OwnerInv'
    BY <1>2, <1>6, <2>2, <2>5, OwnerEnds
  <2>7. SignalInv'
    BY <1>1, <1>5, <2>3, <2>4, SignalsAppend DEF SignalInv
  <2>8. LineInv'
    BY <2>3, <2>4, LineRequeue DEF t
  <2> QED
    BY <1>4, <1>6, <2>1, <2>6, <2>7, <2>8
<1>7. CASE r.client \notin clients
  <2>1. ~IsPending(r)
    BY <1>7 DEF IsPending
  <2>2. queue' = t /\ UNCHANGED <<pendingTypes, authenticated>>
    BY <2>1 DEF CompleteLogin, CompleteRequest, FailRequest
  <2> HIDE DEF t
  <2>3. OwnerInv'
    BY <1>3, <1>7, <2>2, OwnerGone DEF Owners
  <2>4. SignalInv'
    BY <1>5, <2>2 DEF SignalInv
  <2>5. LineInv'
    BY <1>7, <2>2, LineDrop DEF t
  <2> QED
    BY <1>7, <2>2, <2>3, <2>4, <2>5
<1> QED
    BY <1>6, <1>7

-----------------------------------------------------------------------------
(* The invariant is inductive                                              *)

LEMMA IInvInit == Init => IInv
<1> SUFFICES ASSUME Init PROVE IInv
    OBVIOUS
<1>1. TypeOK
    BY TypeInit
<1>2. queue = <<>> /\ mail = {} /\ DOMAIN queue = {}
    BY DEF Init
<1>3. InFlight = {} /\ Owners = {} /\ KeysIn(queue) = {} /\ MailKeys = {}
    BY <1>2 DEF InFlight, Owners, OwnersIn, KeysIn, MailKeys
<1>4. \A c \in ClientIds : KeysIn(written[c]) = {} /\ NoDup(written[c])
    BY DEF Init, KeysIn, NoDup
<1>5. LineInv
    BY <1>2, <1>3, <1>4 DEF LineInv, Init, NoDup
<1>6. SignalInv
    BY <1>2 DEF SignalInv
<1>7. OwnerInv
    BY <1>3 DEF OwnerInv, Init
<1>8. AuthInv
    BY DEF AuthInv, Init
<1> QED
    BY <1>1, <1>5, <1>6, <1>7, <1>8 DEF IInv

\* A step that accepts nobody and changes no session's flag.
LEMMA AuthStays ==
    ASSUME AuthInv, UNCHANGED <<authenticated, accepted, clients, nextClientId>>
    PROVE  AuthInv'
BY DEF AuthInv

\* The database accepts a login or registration of r's connection.
LEMMA AuthGranted ==
    ASSUME TypeOK, LineInv, AuthInv, queue # <<>>, NEW r, r = Head(queue).req,
           accepted' = accepted \cup {r.client},
           r.client \in clients =>
              authenticated' = [authenticated EXCEPT ![r.client] = TRUE],
           r.client \notin clients => UNCHANGED authenticated,
           UNCHANGED <<clients, nextClientId>>
    PROVE  AuthInv'
<1>1. r \in Requests
    BY QueueTyped
<1>2. r.client \in ClientIds /\ r.line \in 1..MaxLines /\ Key(r) = <<r.client, r.line>>
    BY <1>1 DEF Requests, Key
<1>3. Key(r) \in InFlight
    BY KeysTail DEF InFlight, TypeOK
<1>4. r.client < nextClientId
    BY <1>2, <1>3 DEF LineInv
<1>5. CASE r.client \in clients
    BY <1>2, <1>4, <1>5, ClientsLemma DEF AuthInv, TypeOK
<1>6. CASE r.client \notin clients
    BY <1>4, <1>6 DEF AuthInv
<1> QED
    BY <1>5, <1>6

LEMMA IInvSockets ==
    ASSUME IInv, TypeOK',
           \/ OnRemoteConnection
           \/ \E c \in clients : OnRemoteDisconnected(c)
           \/ \E c \in clients, l \in Lines : OnRemoteDataChunk(c, l)
           \/ \E r \in mail : MailReplyFinished(r)
    PROVE  IInv'
<1> USE DEF IInv
<1>1. CASE OnRemoteConnection
  <2>1. nextClientId \in ClientIds \ clients /\ nextClientId \in Nat
    BY <1>1, ClientsLemma, BoundsAssumption DEF OnRemoteConnection, TypeOK, ClientIds
  <2>2. LineInv'
    <3>1. nextClientId <= nextClientId'  /\ nextClientId' \in Nat
      BY <1>1, <2>1 DEF OnRemoteConnection
    <3>2. \A c \in clients' : c \in ClientIds /\ (c \in clients \/ nextClientId <= c)
      BY <1>1, <2>1, ClientsLemma DEF OnRemoteConnection
    <3> QED
      BY <1>1, <3>1, <3>2, LineStill DEF OnRemoteConnection
  <2>3. Owners' = Owners /\ SignalInv'
    BY <1>1 DEF OnRemoteConnection, Owners, SignalInv
  <2>4. \A r \in Owners : r.client # nextClientId
    <3> SUFFICES ASSUME NEW r \in Owners PROVE r.client # nextClientId
      OBVIOUS
    <3>1. r \in Requests /\ Key(r) \in InFlight
      BY OwnersTyped, OwnersInFlight
    <3>2. r.client < nextClientId
      BY <3>1 DEF Key, Requests, LineInv
    <3> QED
      BY <2>1, <3>2 DEF ClientIds
  <2>5. pendingTypes[nextClientId] = NoPending
    BY <2>1 DEF OwnerInv
  <2>6. OwnerInv'
    BY <1>1, <2>1, <2>3, <2>4, <2>5 DEF OwnerInv, OnRemoteConnection, NoPending
  <2>7. AuthInv'
    <3>1. nextClientId \notin accepted /\ \A c \in accepted : c < nextClientId'
      BY <1>1, <2>1 DEF AuthInv, OnRemoteConnection, TypeOK, ClientIds
    <3> QED
      BY <1>1, <2>1, <3>1 DEF AuthInv, OnRemoteConnection
  <2> QED
    BY <2>2, <2>3, <2>6, <2>7
<1>2. ASSUME NEW c \in clients, OnRemoteDisconnected(c) PROVE IInv'
  <2>1. c \in ClientIds /\ clients \subseteq ClientIds /\ nextClientId \in Nat
    BY ClientsLemma
  <2>2. LineInv'
    BY <1>2, <2>1, LineStill DEF OnRemoteDisconnected
  <2>3. Owners' = Owners /\ SignalInv'
    BY <1>2 DEF OnRemoteDisconnected, Owners, SignalInv
  <2>4. OwnerInv'
    <3>1. /\ \A b \in clients' : pendingTypes'[b] = pendingTypes[b]
          /\ \A b \in ClientIds \ clients' : pendingTypes'[b] = NoPending
      BY <1>2, <2>1 DEF OnRemoteDisconnected, OwnerInv, TypeOK
    <3> QED
      BY <1>2, <2>3, <3>1, OwnersStay DEF OnRemoteDisconnected
  <2>5. AuthInv'
    BY <1>2, <2>1 DEF OnRemoteDisconnected, AuthInv, TypeOK
  <2> QED
    BY <2>2, <2>3, <2>4, <2>5
<1>3. ASSUME NEW c \in clients, NEW l \in Lines, OnRemoteDataChunk(c, l) PROVE IInv'
  <2> DEFINE r == [client |-> c, line |-> received[c] + 1,
                   id |-> l.id, type |-> l.type, valid |-> l.valid]
             e == Posted(r, l.kind)
  <2>1. r \in Requests
    <3>1. c \in ClientIds /\ received[c] + 1 \in 1..MaxLines
      BY <1>3, ClientsLemma DEF OnRemoteDataChunk, TypeOK
    <3>2. l.id \in RequestIds /\ l.type \in Types \cup {None} /\ l.valid \in BOOLEAN
      BY LinesAssumption DEF LineSet
    <3> QED
      BY <3>1, <3>2 DEF Requests
  <2>2. e \in Events /\ e.req = r /\ SignalOK(e) /\ e.signal \notin OwnerSignals
    BY <2>1, EventsLemma, OtherSignals DEF Posted, Signals, Codes, Event
  <2>3. e.req.client = c /\ e.req.line = received[c] + 1
    BY <2>2
  <2>4. queue' = Append(queue, e) /\ mail' = mail /\ queue \in Seq(Events)
    BY <1>3 DEF OnRemoteDataChunk, TypeOK
  <2> HIDE DEF e, r
  <2>5. LineInv'
    BY <1>3, <2>2, <2>3, <2>4, LineReceive DEF OnRemoteDataChunk
  <2>6. SignalInv'
    BY <2>2, <2>4, SignalsAppend DEF SignalInv
  <2>7. Owners' = Owners
    BY <2>2, <2>4, OwnersAppend DEF Owners
  <2>8. OwnerInv'
    BY <1>3, <2>7 DEF OnRemoteDataChunk, OwnerInv
  <2>9. AuthInv'
    BY <1>3, AuthStays DEF OnRemoteDataChunk
  <2> QED
    BY <2>5, <2>6, <2>8, <2>9
<1>4. ASSUME NEW r \in mail, MailReplyFinished(r) PROVE IInv'
  <2>1. PICK s \in MailSignals : queue' = Append(queue, Event(s, r))
    BY <1>4 DEF MailReplyFinished
  <2> DEFINE e == Event(s, r)
  <2>2. e \in Events /\ e.req = r /\ e.signal \in OwnerSignals /\ SignalOK(e)
    <3>1. r \in Requests /\ r.type = "request_password_reset"
      BY DEF TypeOK, SignalInv
    <3>2. s \in Signals /\ s # "responseReady" /\ s \notin HandlerSignals /\ s \in OwnerSignals
      BY SignalLemma DEF OwnerSignals
    <3>3. e \in Events
      BY <3>1, <3>2, EventsLemma
    <3> QED
      BY <3>1, <3>2, <3>3 DEF Event, SignalOK
  <2>3. queue' = Append(queue, e) /\ mail' = mail \ {r} /\ queue \in Seq(Events)
    BY <1>4, <2>1 DEF MailReplyFinished, TypeOK
  <2> HIDE DEF e
  <2>4. LineInv'
    BY <1>4, <2>2, <2>3, LineFromMail DEF MailReplyFinished
  <2>5. SignalInv'
    BY <2>2, <2>3, SignalsAppend DEF SignalInv
  <2>6. Owners' = Owners
    BY <2>2, <2>3, OwnersAppend DEF Owners
  <2>7. OwnerInv'
    BY <1>4, <2>6 DEF MailReplyFinished, OwnerInv
  <2>8. AuthInv'
    BY <1>4, AuthStays DEF MailReplyFinished
  <2> QED
    BY <2>4, <2>5, <2>7, <2>8
<1> QED
    BY <1>1, <1>2, <1>3, <1>4

LEMMA IInvEventLoop ==
    ASSUME IInv, TypeOK', EventLoop
    PROVE  IInv'
<1> USE DEF IInv
<1> DEFINE r == Head(queue).req
           t == Tail(queue)
<1>1. queue # <<>> /\ Deliver(r)
    BY DEF EventLoop
<1>2. r \in Requests /\ t \in Seq(Events) /\ r = Head(queue).req
    BY <1>1, QueueTyped
<1>3. /\ SignalOK(Head(queue))
      /\ \A k \in DOMAIN t : SignalOK(t[k])
    BY <1>1, SignalsTail
<1>4. /\ OwnersIn(t) = {s \in OwnersIn(queue) :
                         Head(queue).signal \in OwnerSignals => s # r}
      /\ r \notin OwnersIn(t)
      /\ r \notin mail
      /\ Head(queue).signal \in OwnerSignals => r \in OwnersIn(queue)
    BY <1>1, TailOwners
<1>5. HandlerSignals \cup MailSignals = OwnerSignals
    BY DEF OwnerSignals
<1> HIDE DEF r
\* the handler of a type other than login and register leaves authentication alone
<1>6. ASSUME Head(queue).signal \in OwnerSignals,
             CompleteRequest(r) \/ FailRequest(r),
             UNCHANGED <<nextClientId, clients, mail, received, written, accepted>>,
             r.type \notin {"login", "register"}
      PROVE  IInv'
  <2>1. /\ LineInv' /\ SignalInv' /\ OwnerInv'
        /\ r.client \notin clients => UNCHANGED authenticated
        /\ r.client \in clients => pendingTypes[r.client][r.id] = r.type
    BY <1>1, <1>2, <1>6, Completion
  <2>2. UNCHANGED authenticated
    <3>1. CASE FailRequest(r) \/ r.client \notin clients
      BY <2>1, <3>1 DEF FailRequest
    <3>2. CASE CompleteRequest(r) /\ r.client \in clients
      <4>1. PICK c : c = r.client
        OBVIOUS
      <4>2. PICK b : b = (pendingTypes[r.client][r.id] = "register")
        OBVIOUS
      <4>3. b = FALSE
        BY <1>6, <2>1, <3>2, <4>2
      <4>4. authenticated' = [authenticated EXCEPT ![c] = @ \/ b] \/ UNCHANGED authenticated
        BY <3>2, <4>1, <4>2 DEF CompleteRequest
      <4>5. authenticated \in [ClientIds -> BOOLEAN]
        BY DEF TypeOK
      <4>6. (authenticated[c] \/ FALSE) = authenticated[c] \/ c \notin ClientIds
        BY <4>5
      <4>7. [authenticated EXCEPT ![c] = @ \/ FALSE] = authenticated
        BY <4>5, <4>6
      <4> QED
        BY <4>3, <4>4, <4>7
    <3> QED
      BY <1>6, <3>1, <3>2
  <2> QED
    BY <1>6, <2>1, <2>2, AuthStays
<1>7. ASSUME NEW e \in Events, e.req = r, e.signal \notin OwnerSignals, SignalOK(e),
             Head(queue).signal \notin OwnerSignals, queue' = Append(t, e),
             UNCHANGED <<nextClientId, clients, authenticated, pendingTypes, mail,
                         received, written, accepted>>
      PROVE  IInv'
  <2>1. LineInv'
    BY <1>1, <1>2, <1>7, LineRequeue
  <2> HIDE DEF t
  <2>2. SignalInv'
    BY <1>2, <1>3, <1>7, SignalsAppend DEF SignalInv
  <2>3. Owners' = Owners
    BY <1>2, <1>4, <1>7, OwnersAppend DEF Owners
  <2>4. OwnerInv'
    BY <1>7, <2>3 DEF OwnerInv
  <2>5. AuthInv'
    BY <1>7, AuthStays
  <2> QED
    BY <2>1, <2>2, <2>4, <2>5
<1>8. CASE DropRequest(r)
  <2>1. Head(queue).signal \notin OwnerSignals /\ r.client \notin clients /\ queue' = t
    BY <1>8, OtherSignals DEF DropRequest, Delivers
  <2>2. LineInv'
    BY <1>1, <1>2, <1>8, <2>1, LineDrop DEF DropRequest
  <2> HIDE DEF t
  <2>3. SignalInv'
    BY <1>3, <1>8, <2>1 DEF SignalInv, DropRequest
  <2>4. Owners' = Owners
    BY <1>4, <1>8, <2>1 DEF Owners, DropRequest
  <2>5. OwnerInv'
    BY <1>8, <2>4 DEF OwnerInv, DropRequest
  <2>6. AuthInv'
    BY <1>8, AuthStays DEF DropRequest
  <2> QED
    BY <2>2, <2>3, <2>5, <2>6
<1>9. CASE RejectRequest(r)
  <2> DEFINE e == Response(r, Verdict(r))
  <2>1. /\ e \in Events /\ e.req = r /\ e.signal \notin OwnerSignals /\ SignalOK(e)
    BY <1>2, EventsLemma, VerdictLemma, OtherSignals
  <2>2. Head(queue).signal \notin OwnerSignals /\ queue' = Append(t, e)
    BY <1>9, OtherSignals DEF RejectRequest, Delivers
  <2> HIDE DEF e
  <2> QED
    BY <1>7, <1>9, <2>1, <2>2 DEF RejectRequest
<1>10. CASE AcceptRequest(r)
  <2> DEFINE e == Event(Signal[r.type], r)
  <2>1. r.type \in HandledTypes /\ r.client \in clients
        /\ pendingTypes[r.client][r.id] = None
    BY <1>10, VerdictLemma DEF AcceptRequest, Verdict
  <2>2. e \in Events /\ e.req = r /\ e.signal \in OwnerSignals /\ SignalOK(e)
    BY <1>2, <2>1, EventsLemma, SignalLemma DEF Event, SignalOK, OwnerSignals
  <2>3. Head(queue).signal \notin OwnerSignals /\ queue' = Append(t, e)
    BY <1>10, OtherSignals DEF AcceptRequest, Delivers
  <2> HIDE DEF e
  <2>4. LineInv'
    BY <1>1, <1>2, <1>10, <2>2, <2>3, LineRequeue DEF AcceptRequest
  <2> HIDE DEF t
  <2>5. SignalInv'
    BY <1>2, <1>3, <1>10, <2>2, <2>3, SignalsAppend DEF SignalInv, AcceptRequest
  <2>6. Owners' = Owners \cup {r}
    <3>1. OwnersIn(Append(t, e)) = OwnersIn(t) \cup {r}
      BY <1>2, <2>2, OwnersAppend
    <3>2. OwnersIn(t) = OwnersIn(queue)
      BY <1>4, <2>3
    <3> QED
      BY <1>10, <2>3, <3>1, <3>2 DEF Owners, AcceptRequest
  <2>7. OwnerInv'
    BY <1>2, <1>10, <2>1, <2>6, OwnerStarts DEF AcceptRequest
  <2>8. AuthInv'
    BY <1>10, AuthStays DEF AcceptRequest
  <2> QED
    BY <2>4, <2>5, <2>7, <2>8
<1>11. CASE LoginRequested(r)
  <2>1. Head(queue).signal = "loginRequested" /\ r.type = "login"
        /\ Head(queue).signal \in OwnerSignals
    BY <1>2, <1>3, <1>11, SignalLemma
       DEF LoginRequested, Delivers, SignalOK, Signal, HandledTypes, OwnerSignals,
           HandlerSignals
  <2>2. CompleteLogin(r) \/ FailRequest(r)
    BY <1>11 DEF LoginRequested
  <2>3. /\ LineInv' /\ SignalInv' /\ OwnerInv'
        /\ r.client \notin clients => UNCHANGED authenticated
        /\ r.client \in clients => IsPending(r) /\ pendingTypes[r.client][r.id] = r.type
    BY <1>1, <1>2, <1>11, <2>1, <2>2, Completion DEF LoginRequested
  <2>4. CASE CompleteLogin(r) /\ Run(r, TRUE)
    <3>1. r.client \in clients =>
            authenticated' = [authenticated EXCEPT ![r.client] = TRUE]
      BY <2>1, <2>3, <2>4 DEF CompleteLogin
    <3> QED
      BY <1>1, <1>2, <1>11, <2>3, <2>4, <3>1, AuthGranted DEF LoginRequested, Run
  <2>5. CASE FailRequest(r) /\ Run(r, FALSE)
      BY <1>11, <2>3, <2>5, AuthStays DEF LoginRequested, Run, FailRequest
  <2> QED
      BY <1>11, <2>4, <2>5 DEF LoginRequested
<1>12. CASE RegistrationRequested(r)
  <2>1. Head(queue).signal = "registrationRequested" /\ r.type = "register"
        /\ Head(queue).signal \in OwnerSignals
    BY <1>2, <1>3, <1>12, SignalLemma
       DEF RegistrationRequested, Delivers, SignalOK, Signal, HandledTypes,
           OwnerSignals, HandlerSignals
  <2>2. CompleteRequest(r) \/ FailRequest(r)
    BY <1>12 DEF RegistrationRequested
  <2>3. /\ LineInv' /\ SignalInv' /\ OwnerInv'
        /\ r.client \notin clients => UNCHANGED authenticated
        /\ r.client \in clients => IsPending(r) /\ pendingTypes[r.client][r.id] = r.type
    BY <1>1, <1>2, <1>12, <2>1, <2>2, Completion DEF RegistrationRequested
  <2>4. CASE CompleteRequest(r) /\ Run(r, TRUE)
    <3>1. r.client \in clients =>
            authenticated' = [authenticated EXCEPT ![r.client] = TRUE]
      BY <1>2, <2>1, <2>3, <2>4, ClientsLemma DEF CompleteRequest, TypeOK
    <3> QED
      BY <1>1, <1>2, <1>12, <2>3, <2>4, <3>1, AuthGranted
      DEF RegistrationRequested, Run
  <2>5. CASE FailRequest(r) /\ Run(r, FALSE)
      BY <1>12, <2>3, <2>5, AuthStays DEF RegistrationRequested, Run, FailRequest
  <2> QED
      BY <1>12, <2>4, <2>5 DEF RegistrationRequested
<1>13. ASSUME NEW s \in {Signal["calculate"], Signal["verify_password_reset"],
                        Signal["reset_password"]},
              AnswerAtOnce(s, r)
       PROVE  IInv'
  <2>1. Head(queue).signal = s /\ r.type \notin {"login", "register"}
        /\ Head(queue).signal \in OwnerSignals
    BY <1>2, <1>3, <1>13, SignalLemma
       DEF AnswerAtOnce, Delivers, SignalOK, Signal, HandledTypes, OwnerSignals,
           HandlerSignals
  <2> QED
    BY <1>6, <1>13, <2>1 DEF AnswerAtOnce, Run
<1>14. CASE PasswordResetRequested(r)
  <2>1. Head(queue).signal \in OwnerSignals /\ r.type = "request_password_reset"
    BY <1>2, <1>3, <1>14, SignalLemma
       DEF PasswordResetRequested, Delivers, SignalOK, Signal, HandledTypes,
           OwnerSignals, HandlerSignals
  <2>2. CASE FailRequest(r) /\ UNCHANGED mail
    <3>1. UNCHANGED accepted
      BY <1>14 DEF PasswordResetRequested, Run
    <3> QED
      BY <1>6, <1>14, <2>1, <2>2, <3>1 DEF PasswordResetRequested
  <2>3. CASE /\ mail' = mail \cup {r}
             /\ queue' = t
             /\ UNCHANGED <<pendingTypes, authenticated>>
    <3>1. LineInv'
      BY <1>1, <1>2, <1>14, <2>3, LineToMail DEF PasswordResetRequested
    <3> HIDE DEF t
    <3>2. SignalInv'
      BY <1>3, <2>1, <2>3 DEF SignalInv
    <3>3. Owners' = Owners
      BY <1>4, <2>1, <2>3 DEF Owners
    <3>4. OwnerInv'
      BY <1>14, <2>3, <3>3 DEF OwnerInv, PasswordResetRequested
    <3>5. AuthInv'
      BY <1>14, <2>3, AuthStays DEF PasswordResetRequested, Run
    <3> QED
      BY <3>1, <3>2, <3>4, <3>5
  <2> QED
    BY <1>14, <2>2, <2>3 DEF PasswordResetRequested
<1>15. CASE PasswordResetMailSent(r) \/ PasswordResetMailFailed(r)
  <2>1. Head(queue).signal \in OwnerSignals /\ r.type = "request_password_reset"
    BY <1>2, <1>3, <1>15
       DEF PasswordResetMailSent, PasswordResetMailFailed, Delivers, SignalOK,
           MailSignals, OwnerSignals
  <2> QED
    BY <1>6, <1>15, <2>1 DEF PasswordResetMailSent, PasswordResetMailFailed
<1>16. CASE OnResponseReady(r)
  <2> DEFINE e == [req |-> r, code |-> Head(queue).code]
  <2>1. Head(queue).signal \notin OwnerSignals /\ queue' = t
        /\ Head(queue).signal = "responseReady"
    BY <1>16, SignalLemma DEF OnResponseReady, Delivers, OwnerSignals
  <2>2. e \in [req : Requests, code : Codes] /\ e.req = r
    BY <1>1, <1>2, <2>1, QueueTyped DEF Events
  <2>3. ASSUME r.client \in clients PROVE LineInv'
    <3>1. written' = [written EXCEPT ![e.req.client] = Append(@, e)]
      BY <1>16, <2>3 DEF OnResponseReady
    <3>2. e.req = Head(queue).req /\ queue' = Tail(queue)
      BY <1>2, <2>1, <2>2
    <3>3. UNCHANGED <<nextClientId, clients, mail, received>>
      BY <1>16 DEF OnResponseReady
    <3> HIDE DEF e
    <3> QED
      BY <1>1, <2>2, <3>1, <3>2, <3>3, LineAnswer
  <2>4. ASSUME r.client \notin clients PROVE LineInv'
    <3>1. UNCHANGED <<nextClientId, clients, mail, received, written>>
      BY <1>16, <2>4 DEF OnResponseReady
    <3>2. Head(queue).req.client \notin clients /\ queue' = Tail(queue)
      BY <1>2, <2>1, <2>4
    <3> QED
      BY <1>1, <3>1, <3>2, LineDrop
  <2>5. LineInv'
      BY <2>3, <2>4
  <2> HIDE DEF t, e
  <2>6. SignalInv'
    BY <1>3, <1>16, <2>1 DEF SignalInv, OnResponseReady
  <2>7. Owners' = Owners
    BY <1>4, <1>16, <2>1 DEF Owners, OnResponseReady
  <2>8. OwnerInv'
    BY <1>16, <2>7 DEF OwnerInv, OnResponseReady
  <2>9. AuthInv'
    BY <1>16, AuthStays DEF OnResponseReady
  <2> QED
    BY <2>5, <2>6, <2>8, <2>9
<1> QED
  <2>1. ASSUME CalculationRequested(r) \/ PasswordResetVerificationRequested(r)
                \/ PasswordResetUpdateRequested(r)
        PROVE  IInv'
    BY <1>13, <2>1 DEF CalculationRequested, PasswordResetVerificationRequested,
                 PasswordResetUpdateRequested, Signal
  <2> QED
    BY <1>1, <1>8, <1>9, <1>10, <1>11, <1>12, <1>14, <1>15, <1>16, <2>1 DEF Deliver

LEMMA IInvNext == IInv /\ [Next]_vars => IInv'
<1> SUFFICES ASSUME IInv, [Next]_vars PROVE IInv'
    OBVIOUS
<1>1. TypeOK'
    BY TypeNext DEF IInv
<1>2. CASE EventLoop
    BY <1>1, <1>2, IInvEventLoop
<1>3. CASE Next /\ ~EventLoop
    BY <1>1, <1>3, IInvSockets DEF Next
<1>4. CASE UNCHANGED vars
  <2>1. Owners' = Owners /\ SignalInv'
    BY <1>4 DEF vars, Owners, SignalInv, IInv
  <2>2. OwnerInv' /\ AuthInv'
    BY <1>4, <2>1 DEF vars, OwnerInv, AuthInv, IInv
  <2>3. LineInv'
    <3>1. TypeOK /\ LineInv
      BY DEF IInv
    <3>2. /\ nextClientId <= nextClientId' /\ nextClientId' \in Nat
          /\ \A c \in clients' : c \in ClientIds /\ c \in clients
      BY <1>4, <3>1, ClientsLemma DEF vars
    <3> QED
      BY <1>4, <3>1, <3>2, LineStill DEF vars
  <2> QED
    BY <1>1, <2>1, <2>2, <2>3 DEF IInv
<1> QED
    BY <1>2, <1>3, <1>4

THEOREM Invariance == Spec => []IInv
BY IInvInit, IInvNext, PTL DEF Spec

-----------------------------------------------------------------------------
(* What follows from the inductive invariant: the properties the runs check *)

-----------------------------------------------------------------------------
(* Exactly one place per line                                              *)

LEMMA KeyIsLine ==
    ASSUME NEW r, NEW c, NEW n
    PROVE  IsLine(r, c, n) <=> Key(r) = <<c, n>>
BY DEF IsLine, Key

LEMMA ExactlyOnceFromInv == IInv => ExactlyOnce
<1> SUFFICES ASSUME IInv, NEW c \in clients, NEW n \in 1..received[c]
             PROVE  \E p \in Places(c, n) : Places(c, n) = {p}
    BY DEF ExactlyOnce
<1> DEFINE Q == {k \in DOMAIN queue : IsLine(queue[k].req, c, n)}
           M == {s \in mail : IsLine(s, c, n)}
           W == {k \in DOMAIN written[c] : IsLine(written[c][k].req, c, n)}
<1>1. Places(c, n) = {<<"queue", i>> : i \in Q} \cup {<<"mail", r>> : r \in M}
                        \cup {<<"written", i>> : i \in W}
    BY DEF Places
<1>2. c \in ClientIds
    BY ClientsLemma DEF IInv
<1>3. /\ Q # {} <=> <<c, n>> \in KeysIn(queue)
      /\ M # {} <=> <<c, n>> \in MailKeys
      /\ W # {} <=> <<c, n>> \in KeysIn(written[c])
    BY KeyIsLine DEF KeysIn, MailKeys
<1>4. /\ \A i, j \in Q : i = j
      /\ \A r, s \in M : r = s
      /\ \A i, j \in W : i = j
    BY <1>2, KeyIsLine DEF IInv, LineInv, NoDup
<1>5. <<c, n>> \in KeysIn(queue) \cup MailKeys \cup KeysIn(written[c])
    BY DEF IInv, LineInv, InFlight
<1>6. /\ <<c, n>> \in KeysIn(queue) => <<c, n>> \notin MailKeys \cup KeysIn(written[c])
      /\ <<c, n>> \in MailKeys => <<c, n>> \notin KeysIn(written[c])
    BY <1>2 DEF IInv, LineInv, InFlight
<1> HIDE DEF Q, M, W
<1>7. CASE <<c, n>> \in KeysIn(queue)
  <2>1. PICK i \in Q : Q = {i}
    BY <1>3, <1>4, <1>7
  <2>2. M = {} /\ W = {}
    BY <1>3, <1>6, <1>7
  <2>3. Places(c, n) = {<<"queue", i>>}
    BY <1>1, <2>1, <2>2
  <2> QED
    BY <2>3
<1>8. CASE <<c, n>> \in MailKeys
  <2>1. PICK r \in M : M = {r}
    BY <1>3, <1>4, <1>8
  <2>2. Q = {} /\ W = {}
    BY <1>3, <1>6, <1>8
  <2>3. Places(c, n) = {<<"mail", r>>}
    BY <1>1, <2>1, <2>2
  <2> QED
    BY <2>3
<1>9. CASE <<c, n>> \in KeysIn(written[c])
  <2>1. PICK i \in W : W = {i}
    BY <1>3, <1>4, <1>9
  <2>2. Q = {} /\ M = {}
    BY <1>3, <1>6, <1>9
  <2>3. Places(c, n) = {<<"written", i>>}
    BY <1>1, <2>1, <2>2
  <2> QED
    BY <2>3
<1> QED
    BY <1>5, <1>7, <1>8, <1>9

\* No line of a connected client is lost or answered twice.
THEOREM NoLineLost == Spec => []ExactlyOnce
BY Invariance, ExactlyOnceFromInv, PTL

-----------------------------------------------------------------------------
(* The pending table                                                       *)

LEMMA PendingOwnedFromInv == IInv => PendingOwned
<1> SUFFICES ASSUME IInv, NEW c \in clients, NEW i \in RequestIds
             PROVE  IF pendingTypes[c][i] = None
                    THEN OwnersOf(c, i) = {}
                    ELSE \E r \in OwnersOf(c, i) :
                            /\ r.type = pendingTypes[c][i]
                            /\ OwnersOf(c, i) = {r}
    BY DEF PendingOwned
<1>1. CASE pendingTypes[c][i] = None
  <2>1. \A r \in Owners : r.type # None
    BY OwnersHandled DEF IInv
  <2> QED
    BY <1>1, <2>1 DEF IInv, OwnerInv, OwnersOf
<1>2. CASE pendingTypes[c][i] # None
  <2>1. PICK r \in Owners : r.client = c /\ r.id = i
    BY <1>2 DEF IInv, OwnerInv
  <2>2. OwnersOf(c, i) = {r} /\ r.type = pendingTypes[c][i]
    BY <2>1 DEF IInv, OwnerInv, OwnersOf
  <2> QED
    BY <1>2, <2>2
<1> QED
    BY <1>1, <1>2

\* Each pending entry has exactly one request under way behind it.
THEOREM PendingInStep == Spec => []PendingOwned
BY Invariance, PendingOwnedFromInv, PTL

\* A session is authenticated exactly if the database accepted its connection.
THEOREM Authentication == Spec => []AuthenticatedIffAccepted
<1>1. IInv => AuthenticatedIffAccepted
    BY DEF IInv, AuthInv, AuthenticatedIffAccepted
<1> QED
    BY <1>1, Invariance, PTL

-----------------------------------------------------------------------------
(* Successes and acceptance                                                *)

Restricted == {"login", "register", "calculate"}

EventsIn(s) == {s[k] : k \in DOMAIN s}

LEMMA EventsInAppend ==
    ASSUME NEW S, NEW s \in Seq(S), NEW e \in S
    PROVE  EventsIn(Append(s, e)) = EventsIn(s) \cup {e}
<1> DEFINE t == Append(s, e)
<1>1. /\ DOMAIN s = 1..Len(s)
      /\ DOMAIN t = 1..(Len(s) + 1)
      /\ Len(s) \in Nat
      /\ \A k \in 1..Len(s) : t[k] = s[k]
      /\ t[Len(s) + 1] = e
    OBVIOUS
<1> HIDE DEF t
<1>2. EventsIn(t) = EventsIn(s) \cup {e}
    BY <1>1 DEF EventsIn
<1> QED
    BY <1>2 DEF t

LEMMA EventsInTail ==
    ASSUME NEW S, NEW s \in Seq(S), s # <<>>
    PROVE  Head(s) \in EventsIn(s) /\ EventsIn(Tail(s)) \subseteq EventsIn(s)
<1> DEFINE t == Tail(s)
<1>1. /\ DOMAIN s = 1..Len(s)
      /\ DOMAIN t = 1..(Len(s) - 1)
      /\ Len(s) \in Nat \ {0}
      /\ \A k \in 1..(Len(s) - 1) : t[k] = s[k + 1] /\ k + 1 \in 1..Len(s)
      /\ Head(s) = s[1] /\ 1 \in 1..Len(s)
    OBVIOUS
<1> HIDE DEF t
<1>2. Head(s) \in EventsIn(s) /\ EventsIn(t) \subseteq EventsIn(s)
    BY <1>1 DEF EventsIn
<1> QED
    BY <1>2 DEF t

\* A success on its way to a client and a calculation on its way to the handler
\* belong to an accepted connection.
EventAccepted(e, A) ==
    /\ e.code = "ok" /\ e.req.type \in Restricted => e.req.client \in A
    /\ e.signal = "calculationRequested" => e.req.client \in A

AcceptedInv ==
    /\ \A e \in EventsIn(queue) : EventAccepted(e, accepted)
    /\ SuccessMeansAccepted

\* What any step adds to the queue, at most one event, respects AcceptedInv.
LEMMA AcceptedGrows ==
    ASSUME TypeOK, AcceptedInv, accepted \subseteq accepted', written' = written,
           EventsIn(queue') \subseteq EventsIn(queue)
           \/ \E e : /\ EventsIn(queue') \subseteq EventsIn(queue) \cup {e}
                    /\ EventAccepted(e, accepted')
    PROVE  AcceptedInv'
<1>1. SuccessMeansAccepted'
    BY DEF AcceptedInv, SuccessMeansAccepted
<1>2. \A e \in EventsIn(queue) : EventAccepted(e, accepted')
    BY DEF AcceptedInv, EventAccepted
<1>3. \A e \in EventsIn(queue') : EventAccepted(e, accepted')
    BY <1>2
<1> QED
    BY <1>1, <1>3 DEF AcceptedInv

LEMMA QueueGrows ==
    ASSUME TypeOK, NEW e \in Events
    PROVE  /\ EventsIn(Append(queue, e)) = EventsIn(queue) \cup {e}
           /\ queue # <<>> => EventsIn(Tail(queue)) \subseteq EventsIn(queue)
           /\ queue # <<>> => EventsIn(Append(Tail(queue), e)) \subseteq EventsIn(queue) \cup {e}
<1>1. EventsIn(Append(queue, e)) = EventsIn(queue) \cup {e}
    BY EventsInAppend DEF TypeOK
<1>2. ASSUME queue # <<>>
      PROVE  /\ EventsIn(Tail(queue)) \subseteq EventsIn(queue)
             /\ EventsIn(Append(Tail(queue), e)) \subseteq EventsIn(queue) \cup {e}
  <2>1. EventsIn(Tail(queue)) \subseteq EventsIn(queue)
    BY <1>2, EventsInTail DEF TypeOK
  <2> DEFINE t == Tail(queue)
  <2>2. t \in Seq(Events)
    BY <1>2, QueueTyped
  <2> HIDE DEF t
  <2>3. EventsIn(Append(t, e)) = EventsIn(t) \cup {e}
    BY <2>2, EventsInAppend
  <2> QED
    BY <2>1, <2>3 DEF t
<1> QED
    BY <1>1, <1>2

LEMMA AcceptedNext == IInv /\ AcceptedInv /\ [Next]_vars => AcceptedInv'
<1> SUFFICES ASSUME IInv, AcceptedInv, [Next]_vars PROVE AcceptedInv'
    OBVIOUS
<1>0. TypeOK
    BY DEF IInv
<1>1. CASE OnRemoteConnection
    BY <1>0, <1>1, AcceptedGrows DEF OnRemoteConnection
<1>2. ASSUME NEW c \in clients, OnRemoteDisconnected(c) PROVE AcceptedInv'
    BY <1>0, <1>2, AcceptedGrows DEF OnRemoteDisconnected
<1>3. ASSUME NEW c \in clients, NEW l \in Lines, OnRemoteDataChunk(c, l)
      PROVE  AcceptedInv'
  <2> DEFINE r == [client |-> c, line |-> received[c] + 1,
                   id |-> l.id, type |-> l.type, valid |-> l.valid]
             e == Posted(r, l.kind)
  <2>1. r \in Requests
    <3>1. c \in ClientIds /\ received[c] + 1 \in 1..MaxLines
      <4>1. c \in ClientIds
        BY <1>0, ClientsLemma
      <4>2. received[c] \in 0..MaxLines /\ received[c] < MaxLines
        BY <1>0, <1>3, <4>1 DEF OnRemoteDataChunk, TypeOK
      <4> QED
        BY <4>1, <4>2, BoundsAssumption
    <3>2. l.id \in RequestIds /\ l.type \in Types \cup {None} /\ l.valid \in BOOLEAN
      BY LinesAssumption DEF LineSet
    <3> QED
      BY <3>1, <3>2 DEF Requests
  <2>2. e \in Events /\ e.code # "ok" /\ e.signal # "calculationRequested"
    BY <2>1, EventsLemma DEF Posted, Signals, Codes, Event, Response, None
  <2>3. EventAccepted(e, accepted')
    BY <2>2 DEF EventAccepted
  <2>4. queue' = Append(queue, e) /\ UNCHANGED <<written, accepted>>
    BY <1>3 DEF OnRemoteDataChunk
  <2> HIDE DEF e
  <2>5. EventsIn(queue') \subseteq EventsIn(queue) \cup {e}
    BY <1>0, <2>2, <2>4, QueueGrows
  <2> QED
    BY <1>0, <2>3, <2>4, <2>5, AcceptedGrows
<1>4. ASSUME NEW r \in mail, MailReplyFinished(r) PROVE AcceptedInv'
  <2>1. PICK s \in MailSignals : queue' = Append(queue, Event(s, r))
    BY <1>4 DEF MailReplyFinished
  <2> DEFINE e == Event(s, r)
  <2>2. e \in Events
    BY <1>0, EventsLemma, SignalLemma DEF TypeOK
  <2>3. EventAccepted(e, accepted')
    BY DEF EventAccepted, Event, None, MailSignals
  <2> HIDE DEF e
  <2>4. EventsIn(queue') \subseteq EventsIn(queue) \cup {e}
    BY <1>0, <2>1, <2>2, QueueGrows DEF e
  <2> QED
    BY <1>0, <1>4, <2>3, <2>4, AcceptedGrows DEF MailReplyFinished
<1>5. CASE EventLoop
  <2> DEFINE r == Head(queue).req
  <2>1. queue # <<>> /\ Deliver(r)
    BY <1>5 DEF EventLoop
  <2>2. r \in Requests /\ Head(queue) \in Events
    BY <1>0, <2>1, QueueTyped
  <2>3. Head(queue) \in EventsIn(queue)
    BY <1>0, <2>1, EventsInTail DEF TypeOK
  <2>4. EventAccepted(Head(queue), accepted)
    BY <2>3 DEF AcceptedInv
  <2> HIDE DEF r
  <2>5. ASSUME queue' = Tail(queue), written' = written, accepted \subseteq accepted'
        PROVE  AcceptedInv'
    <3>1. EventsIn(queue') \subseteq EventsIn(queue)
      BY <1>0, <2>1, <2>5, EventsInTail DEF TypeOK
    <3> QED
      BY <1>0, <2>5, <3>1, AcceptedGrows
  <2>6. ASSUME NEW e \in Events, queue' = Append(Tail(queue), e), EventAccepted(e, accepted'),
               written' = written, accepted \subseteq accepted'
        PROVE  AcceptedInv'
    <3>1. EventsIn(queue') \subseteq EventsIn(queue) \cup {e}
      BY <1>0, <2>1, <2>6, QueueGrows
    <3> QED
      BY <1>0, <2>6, <3>1, AcceptedGrows
  <2>7. ASSUME CompleteLogin(r) \/ CompleteRequest(r) \/ FailRequest(r),
               FailRequest(r) \/ (r.type \in Restricted => r.client \in accepted'),
               written' = written, accepted \subseteq accepted'
        PROVE  AcceptedInv'
    <3>1. CASE queue' = Tail(queue)
      BY <2>5, <2>7, <3>1
    <3>2. CASE /\ queue' = Append(Tail(queue), Response(r, "ok"))
               /\ r.type \in Restricted => r.client \in accepted'
      <4>1. EventAccepted(Response(r, "ok"), accepted')
        BY <3>2 DEF EventAccepted, Response
      <4>2. Response(r, "ok") \in Events
        BY <2>2, EventsLemma DEF Codes
      <4> QED
        BY <2>6, <2>7, <3>2, <4>1, <4>2
    <3>3. CASE queue' = Append(Tail(queue), Response(r, "Failed"))
      <4>1. EventAccepted(Response(r, "Failed"), accepted')
        BY DEF EventAccepted, Response
      <4>2. Response(r, "Failed") \in Events
        BY <2>2, EventsLemma DEF Codes
      <4> QED
        BY <2>6, <2>7, <3>3, <4>1, <4>2
    <3> QED
      BY <2>7, <3>1, <3>2, <3>3 DEF CompleteLogin, CompleteRequest, FailRequest
  <2>8. ASSUME NEW ok, Run(r, ok) PROVE accepted \subseteq accepted'
    BY <2>8 DEF Run
  <2>9. CASE DropRequest(r)
    BY <2>5, <2>9 DEF DropRequest
  <2>10. CASE RejectRequest(r)
    <3> DEFINE e == Response(r, Verdict(r))
    <3>1. e \in Events /\ e.code # "ok" /\ e.signal # "calculationRequested"
      BY <2>2, <2>10, EventsLemma, VerdictLemma DEF RejectRequest, Response
    <3>2. EventAccepted(e, accepted')
      BY <3>1 DEF EventAccepted
    <3> HIDE DEF e
    <3> QED
      BY <2>6, <2>10, <3>1, <3>2 DEF RejectRequest, e
  <2>11. CASE AcceptRequest(r)
    <3> DEFINE e == Event(Signal[r.type], r)
    <3>1. r.type \in HandledTypes /\ r.client \in clients
      BY <2>11, VerdictLemma DEF AcceptRequest
    <3>2. e \in Events /\ e.code # "ok" /\ e.req = r
      BY <2>2, <3>1, EventsLemma, SignalLemma DEF Event, None
    <3>3. e.signal = "calculationRequested" => r.type = "calculate"
      BY <3>1 DEF Event, Signal, HandledTypes
    <3>4. r.type = "calculate" => r.client \in accepted
      BY <2>11, <3>1 DEF AcceptRequest, Verdict, OpenTypes, IInv, AuthInv
    <3>5. EventAccepted(e, accepted')
      BY <2>11, <3>2, <3>3, <3>4 DEF EventAccepted, AcceptRequest
    <3> HIDE DEF e
    <3> QED
      BY <2>6, <2>11, <3>2, <3>5 DEF AcceptRequest, e
  <2>12. CASE LoginRequested(r)
    BY <2>7, <2>8, <2>12 DEF LoginRequested, Run
  <2>13. CASE RegistrationRequested(r)
    BY <2>7, <2>8, <2>13 DEF RegistrationRequested, Run
  <2>14. SignalOK(Head(queue)) /\ r = Head(queue).req
    BY <1>0, <2>1, SignalsTail DEF IInv, r
  <2>15. CASE CalculationRequested(r)
    <3>1. r.client \in accepted
      BY <2>4, <2>14, <2>15 DEF CalculationRequested, AnswerAtOnce, Delivers, EventAccepted
    <3> QED
      BY <2>7, <2>8, <2>15, <3>1 DEF CalculationRequested, AnswerAtOnce
  <2>16. CASE PasswordResetVerificationRequested(r) \/ PasswordResetUpdateRequested(r)
    <3>1. Head(queue).signal \in {Signal["verify_password_reset"], Signal["reset_password"]}
      BY <2>16 DEF PasswordResetVerificationRequested, PasswordResetUpdateRequested,
                   AnswerAtOnce, Delivers, Signal
    <3>2. Head(queue).signal \in HandlerSignals
      BY <3>1, SignalLemma DEF HandledTypes
    <3>3. r.type \in HandledTypes /\ Head(queue).signal = Signal[r.type]
      BY <2>14, <3>2 DEF SignalOK
    <3>4. r.type \notin Restricted
      BY <3>1, <3>3 DEF Signal, HandledTypes, Restricted
    <3> QED
      BY <2>7, <2>8, <2>16, <3>4
         DEF PasswordResetVerificationRequested, PasswordResetUpdateRequested,
             AnswerAtOnce
  <2>17. CASE PasswordResetRequested(r)
    BY <2>5, <2>7, <2>8, <2>17 DEF PasswordResetRequested
  <2>18. CASE PasswordResetMailSent(r) \/ PasswordResetMailFailed(r)
    <3>1. r.type \notin Restricted
      BY <2>14, <2>18
         DEF PasswordResetMailSent, PasswordResetMailFailed, Delivers, SignalOK,
             MailSignals, Restricted
    <3> QED
      BY <2>7, <2>18, <3>1 DEF PasswordResetMailSent, PasswordResetMailFailed
  <2>19. CASE OnResponseReady(r)
    <3>1. \A e \in EventsIn(queue') : EventAccepted(e, accepted')
      <4>1. EventsIn(queue') \subseteq EventsIn(queue)
        BY <1>0, <2>1, <2>19, EventsInTail DEF TypeOK, OnResponseReady
      <4> QED
        BY <2>19, <4>1 DEF AcceptedInv, EventAccepted, OnResponseReady
    <3> DEFINE entry == [req |-> r, code |-> Head(queue).code]
    <3>2. entry.code = "ok" /\ entry.req.type \in Restricted => r.client \in accepted
      BY <2>4, <2>14 DEF EventAccepted
    <3>3. ASSUME NEW c \in ClientIds, NEW k \in DOMAIN written'[c]
          PROVE  \/ k \in DOMAIN written[c] /\ written'[c][k] = written[c][k]
                 \/ c = r.client /\ written'[c][k] = entry
      <4>1. written[c] \in Seq([req : Requests, code : Codes])
        BY <1>0 DEF TypeOK
      <4>2. written'[c] = written[c] \/ (c = r.client /\ written'[c] = Append(written[c], entry))
        BY <1>0, <2>19 DEF OnResponseReady, TypeOK
      <4> HIDE DEF entry
      <4>3. CASE written'[c] = written[c]
        BY <4>3
      <4>4. CASE c = r.client /\ written'[c] = Append(written[c], entry)
        <5> DEFINE w == written[c]
        <5>1. /\ DOMAIN Append(w, entry) = 1..(Len(w) + 1) /\ Len(w) \in Nat
              /\ DOMAIN w = 1..Len(w)
              /\ \A j \in 1..Len(w) : Append(w, entry)[j] = w[j]
              /\ Append(w, entry)[Len(w) + 1] = entry
          BY <4>1
        <5> QED
          BY <4>4, <5>1
      <4> QED
        BY <4>2, <4>3, <4>4
    <3> HIDE DEF entry
    <3>4. SuccessMeansAccepted'
      <4>1. accepted' = accepted
        BY <2>19 DEF OnResponseReady
      <4> QED
        BY <3>2, <3>3, <4>1 DEF AcceptedInv, SuccessMeansAccepted, Restricted
    <3> QED
      BY <3>1, <3>4 DEF AcceptedInv
  <2> QED
    BY <2>1, <2>9, <2>10, <2>11, <2>12, <2>13, <2>15, <2>16, <2>17, <2>18, <2>19
       DEF Deliver
<1>6. CASE UNCHANGED vars
    BY <1>0, <1>6, AcceptedGrows DEF vars
<1> QED
    BY <1>1, <1>2, <1>3, <1>4, <1>5, <1>6 DEF Next

\* Whoever reads a success for a login, a registration or a calculation was
\* accepted by the database on that connection.
THEOREM SuccessIsEarned == Spec => []SuccessMeansAccepted
<1>1. Init => AcceptedInv
    BY DEF Init, AcceptedInv, EventsIn, SuccessMeansAccepted
<1>2. AcceptedInv => SuccessMeansAccepted
    BY DEF AcceptedInv
<1> QED
    BY <1>1, <1>2, AcceptedNext, Invariance, PTL DEF Spec

-----------------------------------------------------------------------------
(* Refinement of RequestReply                                              *)

Waiting == [c \in ClientIds |-> {n \in 1..received[c] : ~Answered(c, n)}]
Replies == [c \in ClientIds |-> Len(written[c])]

LEMMA AnsweredKey ==
    ASSUME NEW c, NEW n
    PROVE  Answered(c, n) <=> <<c, n>> \in KeysIn(written[c])
BY KeyIsLine DEF Answered, KeysIn

\* A step that neither receives nor writes anything, nor changes who is connected.
LEMMA PromiseStutters ==
    ASSUME UNCHANGED <<nextClientId, clients, received, written>>
    PROVE  UNCHANGED Promise!vars
BY DEF Promise!vars, Answered

LEMMA PromiseInit == Init => Promise!Init
<1> SUFFICES ASSUME Init PROVE Promise!Init
    OBVIOUS
<1>1. 1..(nextClientId - 1) = {}
    BY DEF Init
<1>2. Waiting = [c \in ClientIds |-> {}]
    BY DEF Init, Waiting
<1>3. Replies = [c \in ClientIds |-> 0]
    BY DEF Init, Replies
<1> QED
    BY <1>1, <1>2, <1>3 DEF Init, Promise!Init, Waiting, Replies

LEMMA PromiseNext == IInv /\ [Next]_vars => [Promise!Next]_(Promise!vars)
<1> SUFFICES ASSUME IInv, [Next]_vars PROVE [Promise!Next]_(Promise!vars)
    OBVIOUS
<1>0. TypeOK /\ LineInv
    BY DEF IInv
<1>1. CASE OnRemoteConnection
  <2>1. nextClientId \in ClientIds /\ nextClientId \in Nat \ {0}
    BY <1>0, <1>1, BoundsAssumption DEF OnRemoteConnection, TypeOK, ClientIds
  <2>2. /\ nextClientId \notin 1..(nextClientId - 1)
        /\ 1..(nextClientId' - 1) = 1..(nextClientId - 1) \cup {nextClientId}
    BY <1>1, <2>1 DEF OnRemoteConnection
  <2>3. Waiting' = Waiting /\ Replies' = Replies
    BY <1>1 DEF OnRemoteConnection, Waiting, Replies, Answered
  <2>4. Promise!Open(nextClientId)
    BY <1>1, <2>2, <2>3 DEF OnRemoteConnection, Promise!Open, Waiting, Replies
  <2> QED
    BY <2>1, <2>4 DEF Promise!Next
<1>2. ASSUME NEW c \in clients, OnRemoteDisconnected(c)
      PROVE  Promise!Next
  <2>1. c \in ClientIds
    BY <1>0, ClientsLemma
  <2>2. Waiting' = Waiting /\ Replies' = Replies
    BY <1>2 DEF OnRemoteDisconnected, Waiting, Replies, Answered
  <2>3. Promise!Close(c)
    BY <1>2, <2>2 DEF OnRemoteDisconnected, Promise!Close, Waiting, Replies
  <2> QED
    BY <2>1, <2>3 DEF Promise!Next
<1>3. ASSUME NEW c \in clients, NEW l \in Lines, OnRemoteDataChunk(c, l)
      PROVE  Promise!Next
  <2>1. c \in ClientIds /\ received[c] \in Nat
        /\ received' = [received EXCEPT ![c] = received[c] + 1]
        /\ received[c] + 1 \in 1..MaxLines
    <3>1. c \in ClientIds
      BY <1>0, ClientsLemma
    <3>2. received[c] \in 0..MaxLines /\ received[c] < MaxLines
      BY <1>0, <1>3, <3>1 DEF OnRemoteDataChunk, TypeOK
    <3> QED
      BY <1>3, <3>1, <3>2, BoundsAssumption DEF OnRemoteDataChunk
  <2>2. ~Answered(c, received[c] + 1)
    <3>1. <<c, received[c] + 1>> \notin KeysIn(written[c])
      BY <1>0, <2>1 DEF LineInv
    <3> QED
      BY <3>1, AnsweredKey
  <2>3. Replies' = Replies /\ \A b, n : Answered(b, n)' <=> Answered(b, n)
    BY <1>3 DEF OnRemoteDataChunk, Replies, Answered
  <2>4. Waiting' = [Waiting EXCEPT ![c] = Waiting[c] \cup {received[c] + 1}]
    <3>1. received'[c] = received[c] + 1
          /\ \A b \in ClientIds : b # c => received'[b] = received[b]
      BY <1>0, <2>1 DEF TypeOK
    <3>2. 1..(received[c] + 1) = 1..received[c] \cup {received[c] + 1}
      BY <2>1
    <3>3. \A b \in ClientIds : Waiting'[b] =
            IF b = c THEN Waiting[c] \cup {received[c] + 1} ELSE Waiting[b]
      BY <2>1, <2>2, <2>3, <3>1, <3>2 DEF Waiting
    <3> QED
      BY <2>1, <3>3 DEF Waiting
  <2>5. Promise!Ask(c)
    BY <1>3, <2>1, <2>3, <2>4 DEF OnRemoteDataChunk, Promise!Ask, Waiting, Replies
  <2> QED
    BY <2>1, <2>5 DEF Promise!Next
<1>4. ASSUME NEW r \in mail, MailReplyFinished(r) PROVE UNCHANGED Promise!vars
    BY <1>4, PromiseStutters DEF MailReplyFinished
<1>5. CASE EventLoop
  <2> DEFINE r == Head(queue).req
  <2>1. queue # <<>> /\ Deliver(r)
    BY <1>5 DEF EventLoop
  <2>2. r \in Requests /\ Head(queue) \in Events
    BY <1>0, <2>1, QueueTyped
  <2>3. Key(r) \in KeysIn(queue)
    BY <1>0, <2>1, KeysTail DEF TypeOK
  <2> HIDE DEF r
  <2>4. CASE OnResponseReady(r) /\ r.client \in clients
    <3> DEFINE c == r.client
               n == r.line
               entry == [req |-> r, code |-> Head(queue).code]
    <3>1. c \in ClientIds /\ n \in 1..MaxLines /\ Key(r) = <<c, n>>
      BY <2>2 DEF Requests, Key
    <3>2. n <= received[c] /\ received[c] \in Nat
      BY <1>0, <2>3, <3>1 DEF LineInv, InFlight, TypeOK
    <3>3. ~Answered(c, n)
      BY <1>0, <2>3, <3>1, AnsweredKey DEF LineInv, InFlight
    <3>4. Head(queue).code \in Codes
      BY <2>2, <2>4 DEF OnResponseReady, Delivers, Events
    <3>5. entry \in [req : Requests, code : Codes]
      BY <2>2, <3>4
    <3>6. written' = [written EXCEPT ![c] = Append(written[c], entry)]
      BY <2>4 DEF OnResponseReady
    <3>7. entry.req = r
      OBVIOUS
    <3> HIDE DEF entry, c, n
    <3>8. /\ written[c] \in Seq([req : Requests, code : Codes])
          /\ written'[c] = Append(written[c], entry)
          /\ \A b \in ClientIds : b # c => written'[b] = written[b]
      BY <1>0, <3>1, <3>6 DEF TypeOK
    <3>9. KeysIn(written'[c]) = KeysIn(written[c]) \cup {<<c, n>>}
      <4> DEFINE w == written[c]
                 Written == [req : Requests, code : Codes]
      <4>1. w \in Seq(Written) /\ entry \in Written
        BY <3>5, <3>8
      <4> HIDE DEF w, Written
      <4>2. KeysIn(Append(w, entry)) = KeysIn(w) \cup {Key(entry.req)}
        BY <4>1, KeysAppend
      <4> QED
        BY <3>1, <3>7, <3>8, <4>2 DEF w
    <3>10. Replies' = [Replies EXCEPT ![c] = Replies[c] + 1]
      <4>1. Len(written'[c]) = Len(written[c]) + 1
        BY <3>5, <3>8
      <4>2. \A b \in ClientIds : Replies'[b] =
              IF b = c THEN Replies[c] + 1 ELSE Replies[b]
        BY <3>1, <3>8, <4>1 DEF Replies
      <4> QED
        BY <3>1, <4>2 DEF Replies
    <3>11. Waiting' = [Waiting EXCEPT ![c] = Waiting[c] \ {n}]
      <4>1. received' = received
        BY <2>4 DEF OnResponseReady
      <4>2. \A b \in ClientIds : \A m \in 1..received[b] :
              Answered(b, m)' <=> Answered(b, m) \/ (b = c /\ m = n)
        <5> SUFFICES ASSUME NEW b \in ClientIds, NEW m \in 1..received[b]
                     PROVE  Answered(b, m)' <=> Answered(b, m) \/ (b = c /\ m = n)
          OBVIOUS
        <5>1. Answered(b, m) <=> <<b, m>> \in KeysIn(written[b])
          BY AnsweredKey
        <5>2. Answered(b, m)' <=> <<b, m>> \in KeysIn(written'[b])
          BY KeyIsLine DEF Answered, KeysIn
        <5>3. CASE b = c
          BY <3>9, <5>1, <5>2, <5>3
        <5>4. CASE b # c
          BY <3>8, <5>1, <5>2, <5>4
        <5> QED
          BY <5>3, <5>4
      <4>3. \A b \in ClientIds : Waiting'[b] =
              IF b = c THEN Waiting[c] \ {n} ELSE Waiting[b]
        BY <3>1, <4>1, <4>2 DEF Waiting
      <4> QED
        BY <3>1, <4>3 DEF Waiting
    <3>12. n \in Waiting[c]
      BY <3>1, <3>2, <3>3 DEF Waiting
    <3>13. Promise!Answer(c, n)
      BY <2>4, <3>1, <3>10, <3>11, <3>12
         DEF OnResponseReady, Promise!Answer, Waiting, Replies, c
    <3> QED
      <4>1. Promise!Next
        BY <3>1, <3>12, <3>13 DEF Promise!Next, Promise!Answer, Waiting
      <4> QED
        BY <4>1
  <2>5. CASE ~(OnResponseReady(r) /\ r.client \in clients)
    <3>1. UNCHANGED <<nextClientId, clients, received, written>>
      BY <2>1, <2>5
         DEF Deliver, DropRequest, RejectRequest, AcceptRequest, LoginRequested,
             RegistrationRequested, CalculationRequested, PasswordResetRequested,
             PasswordResetVerificationRequested, PasswordResetUpdateRequested,
             AnswerAtOnce, PasswordResetMailSent, PasswordResetMailFailed,
             OnResponseReady
    <3> QED
      BY <3>1, PromiseStutters
  <2> QED
    BY <2>4, <2>5
<1>6. CASE UNCHANGED vars
    BY <1>6, PromiseStutters DEF vars
<1> QED
    BY <1>1, <1>2, <1>3, <1>4, <1>5, <1>6 DEF Next

\* The router implements RequestReply: at most one reply per line, only on the
\* connection that sent it, under ids never reused.
THEOREM PromiseKept == Spec => KeepsPromise
BY PromiseInit, PromiseNext, Invariance, PTL DEF Spec, KeepsPromise, Promise!Spec

-----------------------------------------------------------------------------
(* Handlers run the requests of a connection in order                      *)

\* A request that was received waits for the router, then for its handler.
Waits(e) == e.signal = "requestReceived"
Handed(e) == e.signal \in HandlerSignals

\* What the lines of two events of one connection are if f is behind e in the
\* queue: each kind is in order, and what handlers have came before what waits.
Follows(e, f) ==
    e.req.client = f.req.client =>
        /\ Waits(f) /\ (Waits(e) \/ Handed(e)) => e.req.line < f.req.line
        /\ Handed(f) /\ Handed(e) => e.req.line < f.req.line
        /\ Handed(f) /\ Waits(e) => f.req.line < e.req.line
Ordered(q) == \A j, k \in DOMAIN q : j < k => Follows(q[j], q[k])

\* Its line was received and has not run, nor has a later one.
Ahead(e, done, seen) ==
    Waits(e) \/ Handed(e) =>
        done[e.req.client] < e.req.line /\ e.req.line <= seen[e.req.client]

\* The action of RunInOrder.
RunForward == \A c \in ClientIds : ran'[c] >= ran[c]

OrderInv ==
    /\ \A c \in ClientIds : ran[c] <= received[c]
    /\ Ordered(queue)
    /\ \A e \in EventsIn(queue) : Ahead(e, ran, received)

LEMMA OrderedAppend ==
    ASSUME NEW S, NEW q \in Seq(S), NEW e \in S, Ordered(q),
           \A f \in EventsIn(q) : Follows(f, e)
    PROVE  Ordered(Append(q, e))
<1> DEFINE t == Append(q, e)
<1>1. /\ DOMAIN q = 1..Len(q) /\ DOMAIN t = 1..(Len(q) + 1) /\ Len(q) \in Nat
      /\ \A k \in 1..Len(q) : t[k] = q[k]
      /\ t[Len(q) + 1] = e
    OBVIOUS
<1> HIDE DEF t
<1>2. ASSUME NEW j \in DOMAIN t, NEW k \in DOMAIN t, j < k PROVE Follows(t[j], t[k])
  <2>1. j \in DOMAIN q /\ t[j] = q[j]
    BY <1>1, <1>2
  <2>2. CASE k \in DOMAIN q
    BY <1>1, <1>2, <2>1, <2>2 DEF Ordered
  <2>3. CASE k \notin DOMAIN q
    <3>1. t[k] = e
      BY <1>1, <2>3
    <3>2. q[j] \in EventsIn(q)
      BY <2>1 DEF EventsIn
    <3> QED
      BY <2>1, <3>1, <3>2
  <2> QED
    BY <2>2, <2>3
<1> QED
    BY <1>2 DEF Ordered, t

LEMMA OrderedTail ==
    ASSUME NEW S, NEW q \in Seq(S), q # <<>>, Ordered(q)
    PROVE  /\ Ordered(Tail(q))
           /\ \A f \in EventsIn(Tail(q)) : Follows(Head(q), f)
<1> DEFINE t == Tail(q)
<1>1. /\ DOMAIN q = 1..Len(q) /\ DOMAIN t = 1..(Len(q) - 1) /\ Len(q) \in Nat \ {0}
      /\ \A k \in 1..(Len(q) - 1) : t[k] = q[k + 1]
      /\ Head(q) = q[1]
    OBVIOUS
<1> HIDE DEF t
<1>2. ASSUME NEW j \in DOMAIN t, NEW k \in DOMAIN t, j < k PROVE Follows(t[j], t[k])
  <2>1. /\ j + 1 \in DOMAIN q /\ k + 1 \in DOMAIN q /\ j + 1 < k + 1
        /\ t[j] = q[j + 1] /\ t[k] = q[k + 1]
    BY <1>1, <1>2
  <2> QED
    BY <2>1 DEF Ordered
<1>3. ASSUME NEW k \in DOMAIN t PROVE Follows(Head(q), t[k])
  <2>1. k + 1 \in DOMAIN q /\ 1 \in DOMAIN q /\ 1 < k + 1 /\ t[k] = q[k + 1]
    BY <1>1
  <2> QED
    BY <1>1, <2>1 DEF Ordered
<1> QED
    BY <1>2, <1>3 DEF Ordered, EventsIn, t

\* The queue a step leaves: what was kept of it, and at most one event more.
LEMMA OrderStep ==
    ASSUME NEW q \in Seq(Events), Ordered(q),
           \A c \in ClientIds : ran'[c] <= received'[c],
           \A f \in EventsIn(q) : Ahead(f, ran', received'),
           \/ queue' = q
           \/ \E e \in Events : /\ queue' = Append(q, e)
                                /\ Ahead(e, ran', received')
                                /\ \A f \in EventsIn(q) : Follows(f, e)
    PROVE  OrderInv'
<1>1. CASE queue' = q
    BY <1>1 DEF OrderInv, Ordered, EventsIn, Follows, Ahead, Waits, Handed
<1>2. ASSUME NEW e \in Events, queue' = Append(q, e), Ahead(e, ran', received'),
             \A f \in EventsIn(q) : Follows(f, e)
      PROVE  OrderInv'
  <2>1. Ordered(queue')
    BY <1>2, OrderedAppend
  <2>2. EventsIn(queue') = EventsIn(q) \cup {e}
    BY <1>2, EventsInAppend
  <2>3. \A f \in EventsIn(queue') : Ahead(f, ran', received')
    BY <1>2, <2>2
  <2> QED
    BY <2>1, <2>3 DEF OrderInv
<1> QED
    BY <1>1, <1>2

LEMMA RestInOrder ==
    ASSUME TypeOK, OrderInv, queue # <<>>
    PROVE  /\ Tail(queue) \in Seq(Events) /\ Ordered(Tail(queue))
           /\ Head(queue).req \in Requests
           /\ Ahead(Head(queue), ran, received)
           /\ \A f \in EventsIn(Tail(queue)) :
                Follows(Head(queue), f) /\ Ahead(f, ran, received)
<1>1. Tail(queue) \in Seq(Events) /\ Head(queue).req \in Requests
    BY QueueTyped
<1>2. Ordered(Tail(queue)) /\ \A f \in EventsIn(Tail(queue)) : Follows(Head(queue), f)
    BY OrderedTail DEF TypeOK, OrderInv
<1>3. Head(queue) \in EventsIn(queue) /\ EventsIn(Tail(queue)) \subseteq EventsIn(queue)
    BY EventsInTail DEF TypeOK
<1> QED
    BY <1>1, <1>2, <1>3 DEF OrderInv

\* Responses and the events of the mail client are of no importance here.
LEMMA OthersFollow ==
    ASSUME NEW e, ~Waits(e), ~Handed(e)
    PROVE  /\ \A done, seen : Ahead(e, done, seen)
           /\ \A f : Follows(f, e)
BY DEF Ahead, Follows

LEMMA OrderNext == IInv /\ OrderInv /\ [Next]_vars => OrderInv' /\ [RunForward]_ran
<1> SUFFICES ASSUME IInv, OrderInv, [Next]_vars PROVE OrderInv' /\ [RunForward]_ran
    OBVIOUS
<1>0. TypeOK
    BY DEF IInv
<1>1. CASE UNCHANGED <<queue, ran, received>>
    BY <1>1 DEF OrderInv, Ordered, EventsIn, Follows, Ahead, Waits, Handed
<1>2. CASE OnRemoteConnection \/ \E c \in clients : OnRemoteDisconnected(c)
    BY <1>1, <1>2 DEF OnRemoteConnection, OnRemoteDisconnected
<1>3. ASSUME NEW c \in clients, NEW l \in Lines, OnRemoteDataChunk(c, l)
      PROVE  OrderInv' /\ ran' = ran
  <2> DEFINE r == [client |-> c, line |-> received[c] + 1,
                   id |-> l.id, type |-> l.type, valid |-> l.valid]
             e == Posted(r, l.kind)
  <2>1. c \in ClientIds
    BY <1>0, ClientsLemma
  <2>2. /\ queue' = Append(queue, e) /\ ran' = ran
        /\ received' = [received EXCEPT ![c] = @ + 1]
        /\ received \in [ClientIds -> 0..MaxLines] /\ ran \in [ClientIds -> 0..MaxLines]
    BY <1>0, <1>3 DEF OnRemoteDataChunk, TypeOK
  <2>3. /\ received'[c] = received[c] + 1
        /\ \A d \in ClientIds : received[d] <= received'[d]
    BY <2>1, <2>2, BoundsAssumption
  <2>4. r \in Requests
    <3>1. received[c] + 1 \in 1..MaxLines
      BY <1>3, <2>1, <2>2, BoundsAssumption DEF OnRemoteDataChunk
    <3>2. l.id \in RequestIds /\ l.type \in Types \cup {None} /\ l.valid \in BOOLEAN
      BY LinesAssumption DEF LineSet
    <3> QED
      BY <2>1, <3>1, <3>2 DEF Requests
  <2>5. e \in Events /\ e.req = r /\ ~Handed(e)
    BY <2>4, EventsLemma, SignalLemma
       DEF Posted, Signals, Codes, Event, Response, Handed
  <2>6. \A d \in ClientIds : ran[d] <= received[d]
    BY DEF OrderInv
  <2>7. Ahead(e, ran', received')
    BY <2>1, <2>2, <2>3, <2>5, <2>6, BoundsAssumption DEF Ahead
  <2>8. ASSUME NEW f \in EventsIn(queue) PROVE Follows(f, e) /\ Ahead(f, ran', received')
    <3>1. Ahead(f, ran, received)
      BY DEF OrderInv
    <3>2. f \in Events
      BY <1>0 DEF EventsIn, TypeOK
    <3>3. f.req.client \in ClientIds /\ f.req.line \in 1..MaxLines
      BY <3>2 DEF Events, Requests
    <3> HIDE DEF e
    <3>4. Follows(f, e)
      BY <2>2, <2>3, <2>5, <3>1, <3>3, BoundsAssumption DEF Follows, Ahead
    <3>5. Ahead(f, ran', received')
      BY <2>2, <2>3, <3>1, <3>3, BoundsAssumption DEF Ahead
    <3> QED
      BY <3>4, <3>5
  <2>9. \A d \in ClientIds : ran'[d] <= received'[d]
    BY <2>2, <2>3, <2>6, BoundsAssumption
  <2> HIDE DEF e
  <2>10. queue \in Seq(Events) /\ Ordered(queue)
    BY <1>0 DEF TypeOK, OrderInv
  <2>11. OrderInv'
    BY <2>2, <2>5, <2>7, <2>8, <2>9, <2>10, OrderStep
  <2> QED
    BY <2>2, <2>11
<1>4. ASSUME NEW r \in mail, MailReplyFinished(r) PROVE OrderInv' /\ ran' = ran
  <2>1. PICK s \in MailSignals : queue' = Append(queue, Event(s, r))
    BY <1>4 DEF MailReplyFinished
  <2>2. Event(s, r) \in Events /\ ~Waits(Event(s, r)) /\ ~Handed(Event(s, r))
    BY <1>0, EventsLemma, SignalLemma DEF TypeOK, Event, Waits, Handed
  <2>3. ran' = ran /\ received' = received
    BY <1>4 DEF MailReplyFinished
  <2>4. queue \in Seq(Events) /\ Ordered(queue)
    BY <1>0 DEF TypeOK, OrderInv
  <2>5. /\ \A c \in ClientIds : ran'[c] <= received'[c]
        /\ \A f \in EventsIn(queue) : Ahead(f, ran', received')
    BY <2>3 DEF OrderInv
  <2>6. Ahead(Event(s, r), ran', received') /\ \A f : Follows(f, Event(s, r))
    BY <2>2, OthersFollow
  <2>7. OrderInv'
    BY <2>1, <2>2, <2>4, <2>5, <2>6, OrderStep
  <2> QED
    BY <2>3, <2>7
<1>5. CASE EventLoop
  <2> DEFINE r == Head(queue).req
             rest == Tail(queue)
  <2>1. queue # <<>> /\ Deliver(r)
    BY <1>5 DEF EventLoop
  <2>2. /\ rest \in Seq(Events) /\ Ordered(rest)
        /\ r \in Requests
        /\ Ahead(Head(queue), ran, received)
        /\ \A f \in EventsIn(rest) : Follows(Head(queue), f) /\ Ahead(f, ran, received)
    BY <1>0, <2>1, RestInOrder
  <2>3. /\ r.client \in ClientIds /\ r.line \in 1..MaxLines
        /\ ran \in [ClientIds -> 0..MaxLines]
        /\ \A c \in ClientIds : ran[c] <= received[c]
    BY <1>0, <2>2 DEF Requests, TypeOK, OrderInv
  <2>4. ASSUME NEW code \in Codes
        PROVE  /\ Response(r, code) \in Events
               /\ ~Waits(Response(r, code)) /\ ~Handed(Response(r, code))
    BY <2>2, EventsLemma, SignalLemma DEF Response, Waits, Handed
  <2> DEFINE Rest == \/ queue' = rest
                     \/ \E code \in Codes : queue' = Append(rest, Response(r, code))
  <2>5. CompleteLogin(r) \/ CompleteRequest(r) \/ FailRequest(r) => Rest
    BY DEF CompleteLogin, CompleteRequest, FailRequest, Codes
  <2> HIDE DEF r, rest
  <2>6. ASSUME Rest, \A c \in ClientIds : ran'[c] <= received'[c],
               \A f \in EventsIn(rest) : Ahead(f, ran', received')
        PROVE  OrderInv'
    <3>1. CASE queue' = rest
      BY <2>2, <2>6, <3>1, OrderStep
    <3>2. ASSUME NEW code \in Codes, queue' = Append(rest, Response(r, code))
          PROVE  OrderInv'
      <4> DEFINE e == Response(r, code)
      <4>1. e \in Events /\ Ahead(e, ran', received') /\ \A f : Follows(f, e)
        BY <2>4, OthersFollow
      <4> HIDE DEF e
      <4> QED
        BY <2>2, <2>6, <3>2, <4>1, OrderStep DEF e
    <3> QED
      BY <2>6, <3>1, <3>2
  <2>7. ASSUME Rest, UNCHANGED <<ran, received>> PROVE OrderInv' /\ ran' = ran
    BY <2>2, <2>3, <2>6, <2>7
  <2>8. ASSUME Rest, UNCHANGED received, NEW ok, Run(r, ok), Handed(Head(queue))
        PROVE  OrderInv' /\ RunForward
    <3>1. ran' = [ran EXCEPT ![r.client] = r.line]
      BY <2>8 DEF Run
    <3>2. ran[r.client] < r.line /\ r.line <= received[r.client]
      BY <2>2, <2>8 DEF Ahead, r
    <3>3. \A c \in ClientIds : ran'[c] <= received'[c]
      BY <2>3, <2>8, <3>1, <3>2
    <3>4. ASSUME NEW f \in EventsIn(rest) PROVE Ahead(f, ran', received')
      <4>1. Follows(Head(queue), f) /\ Ahead(f, ran, received)
        BY <2>2
      <4>2. f \in Events
        BY <2>2 DEF EventsIn
      <4>3. f.req.client \in ClientIds
        BY <4>2 DEF Events, Requests
      <4> QED
        BY <2>3, <2>8, <3>1, <4>1, <4>3 DEF Ahead, Follows, r
    <3>5. OrderInv'
      BY <2>6, <2>8, <3>3, <3>4
    <3>6. RunForward
      BY <2>3, <3>1, <3>2, BoundsAssumption DEF RunForward
    <3> QED
      BY <3>5, <3>6
  <2>9. CASE DropRequest(r)
    BY <2>7, <2>9 DEF DropRequest, rest
  <2>10. CASE RejectRequest(r)
    BY <2>7, <2>10, VerdictLemma DEF RejectRequest, rest
  <2>11. CASE AcceptRequest(r)
    <3> DEFINE e == Event(Signal[r.type], r)
    <3>1. r.type \in HandledTypes
      BY <2>11, VerdictLemma DEF AcceptRequest
    <3>2. e \in Events /\ e.req = r /\ Handed(e) /\ ~Waits(e)
      BY <2>2, <3>1, EventsLemma, SignalLemma DEF Event, Handed, Waits
    <3>3. Waits(Head(queue)) /\ ~Handed(Head(queue)) /\ Head(queue).req = r
      BY <2>11, SignalLemma DEF AcceptRequest, Delivers, Waits, Handed, r
    <3>4. UNCHANGED <<ran, received>> /\ queue' = Append(rest, e)
      BY <2>11 DEF AcceptRequest, rest
    <3> HIDE DEF e
    <3>5. Ahead(e, ran', received')
      BY <2>2, <3>2, <3>3, <3>4 DEF Ahead
    <3>6. ASSUME NEW f \in EventsIn(rest) PROVE Follows(f, e)
      <4>1. Follows(Head(queue), f)
        BY <2>2
      <4> QED
        BY <3>2, <3>3, <4>1 DEF Follows
    <3>7. OrderInv'
      BY <2>2, <2>3, <3>2, <3>4, <3>5, <3>6, OrderStep
    <3> QED
      BY <3>4, <3>7
  <2>12. Delivers("loginRequested", r) \/ Delivers("registrationRequested", r)
         \/ Delivers("calculationRequested", r) \/ Delivers("passwordResetRequested", r)
         \/ Delivers("passwordResetVerificationRequested", r)
         \/ Delivers("passwordResetUpdateRequested", r)
         => Handed(Head(queue))
    <3>1. HandlerSignals = {"loginRequested", "registrationRequested",
              "passwordResetRequested", "passwordResetVerificationRequested",
              "passwordResetUpdateRequested", "calculationRequested"}
      BY DEF HandlerSignals, Signal, HandledTypes
    <3> QED
      BY <3>1 DEF Delivers, Handed
  <2>13. CASE LoginRequested(r)
    BY <2>5, <2>8, <2>12, <2>13 DEF LoginRequested
  <2>14. CASE RegistrationRequested(r)
    BY <2>5, <2>8, <2>12, <2>14 DEF RegistrationRequested
  <2>15. CASE CalculationRequested(r)
    BY <2>5, <2>8, <2>12, <2>15 DEF CalculationRequested, AnswerAtOnce
  <2>16. CASE PasswordResetVerificationRequested(r) \/ PasswordResetUpdateRequested(r)
    BY <2>5, <2>8, <2>12, <2>16
       DEF PasswordResetVerificationRequested, PasswordResetUpdateRequested, AnswerAtOnce
  <2>17. CASE PasswordResetRequested(r)
    BY <2>5, <2>8, <2>12, <2>17 DEF PasswordResetRequested, rest
  <2>18. CASE PasswordResetMailSent(r) \/ PasswordResetMailFailed(r)
    BY <2>5, <2>7, <2>18 DEF PasswordResetMailSent, PasswordResetMailFailed
  <2>19. CASE OnResponseReady(r)
    BY <2>7, <2>19 DEF OnResponseReady, rest
  <2> QED
    BY <2>1, <2>9, <2>10, <2>11, <2>13, <2>14, <2>15, <2>16, <2>17, <2>18, <2>19
       DEF Deliver
<1> QED
    BY <1>1, <1>2, <1>3, <1>4, <1>5 DEF Next, vars

\* Whatever is pipelined on a connection, its requests reach their handlers in
\* the order their lines came: a verification before the update relying on it.
THEOREM HandlersKeepOrder == Spec => RunInOrder
<1>1. Init => OrderInv
    BY DEF Init, OrderInv, Ordered, EventsIn
<1> QED
    BY <1>1, OrderNext, Invariance, PTL DEF Spec, RunInOrder, RunForward

=============================================================================
