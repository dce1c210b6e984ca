------------------------------- MODULE DbServer -------------------------------
(***************************************************************************)
(* The server and its database: the transactions of PasswordResetTx over   *)
(* the connection of DbConnection.  An operation runs once connect() has   *)
(* succeeded, and its statements while the connection is live; a broken    *)
(* connection makes the running transaction fail, or late if it has come   *)
(* to its COMMIT.  The next operation finds out, opens another connection  *)
(* and goes on beside the late transaction; a new object database also     *)
(* alters the tables, which waits for it.                                  *)
(***************************************************************************)
EXTENDS PasswordResetTx

CONSTANT MaxFaults     \* bound: stops, breaks and crashes

ASSUME ServerAssumption == MaxFaults \in Nat

VARIABLES pg, schema, process, database, session, at, alteration, ddl, faults

C == INSTANCE DbConnection

connection == <<pg, schema, process, database, session, at, alteration, ddl, faults>>
server == <<vars, connection>>

ServerInit == C!Init /\ Init

-----------------------------------------------------------------------------

\* The mail that the handler under way has to cancel the token of.
Failed == {t \in TokenIds : mail[t] = "failed"}

\* A new process, or a step of connect().  ALTER TABLE waits for transactions
\* that have locked rows; an operation whose connect() fails is over.
Connecting ==
    /\ C!Launch \/ C!Connects
    /\ at = "alter" /\ session = "live" => late = {}
    /\ up' = (process' = "serving")
    /\ mail' = [t \in TokenIds |->
                    IF t \in Failed /\ at' = "idle" THEN "none" ELSE mail[t]]
    /\ UNCHANGED <<rows, password, lastId, op, tx, late, told, uses>>

\* An event: the finished reply of the mail service, or a request.
MailEvent ==
    /\ at = "idle" /\ Failed = {}
    /\ \E t \in TokenIds : MailReplyFinished(t)
    /\ UNCHANGED connection

Operation == C!Connect /\ UNCHANGED vars

\* The operation goes from connect() to its transaction, or needs none of those
\* modelled (login, registration, a refused parameter).
BeginTransaction ==
    /\ at = "ready" /\ op = Idle
    /\ Begins
    /\ Failed # {} => op'.name = "cancel"
    /\ UNCHANGED connection

OtherOperation ==
    /\ at = "ready" /\ op = Idle /\ Failed = {}
    /\ C!Finish
    /\ UNCHANGED vars

\* The running transaction, over a connection that is live or broken.
RunTransaction ==
    /\ \/ session = "live" /\ (Statement \/ Refuse)
       \/ session = "broken" /\ (CommitLost \/ Refuse)
    /\ IF op' = Idle THEN C!Finish ELSE UNCHANGED connection

Work == BeginTransaction \/ OtherOperation \/ RunTransaction

-----------------------------------------------------------------------------
(* Faults *)

ConnectionFault == (C!Break \/ C!PgStop) /\ UNCHANGED vars

\* PostgreSQL accepts connections once every old transaction has ended.
Recovery == C!PgStart /\ late = {} /\ UNCHANGED vars

ProcessCrash ==
    /\ C!Crash
    /\ IF up THEN Crash ELSE UNCHANGED vars

LateEnd == LateEnds /\ UNCHANGED connection

ServerNext ==
    \/ Connecting \/ MailEvent \/ Operation \/ Work
    \/ ConnectionFault \/ Recovery \/ ProcessCrash \/ LateEnd

ServerSpec == ServerInit /\ [][ServerNext]_server

\* The process runs, Docker starts it and PostgreSQL again (restart:
\* unless-stopped), and PostgreSQL ends transactions whose client is gone.
Fairness ==
    /\ WF_server(Connecting) /\ WF_server(Work)
    /\ WF_server(Recovery) /\ WF_server(LateEnd)

FairServerSpec == ServerSpec /\ Fairness

-----------------------------------------------------------------------------
(* Properties *)

\* Both parts keep their types and agree on whether the server serves.
ServerTypeOK == TypeOK /\ C!TypeOK /\ up = (process = "serving")

\* The schema is never brought up to date by half, whichever statement fails
\* and whenever the process or PostgreSQL stops.
AllOrNothing == schema \in {{}, C!Legacy, C!Current}

\* An operation meets the current schema, though connect() keeps a database
\* object whose schema statements have failed and takes it for good when its
\* connection works the next time (PgDatabase.cpp:195).
TablesReady == at = "ready" => schema = C!Current

\* Once faults end, the server serves and goes on serving: no schema it has
\* left behind keeps it from starting.
EventuallyServes == <>[](process = "serving")

\* The transactions behave as PasswordResetTx has them, where nothing is known
\* of connections: every operation runs on its own, and a new process serves
\* only once no transaction of the old one can still commit.
KeepsTransactions == Spec
=============================================================================
