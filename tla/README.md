# A verification project for graphing-server

TLA+ specifications of the server in `src/`, small instances of them for the
model checker TLC, and theorems about them checked by the proof system TLAPS.
Every definition is translated from the code; line numbers below are those of
the files under `src/`.

- [Inventory of the system](#inventory-of-the-system)
- [Modules and the code they model](#modules-and-the-code-they-model)
- [What the runs check and show](#what-the-runs-check-and-show)
- [What is proved](#what-is-proved)
- [Where code and documentation disagree](#where-code-and-documentation-disagree)
- [What is not modelled](#what-is-not-modelled)
- [Plan](#plan)
- [How to run it](#how-to-run-it)

## Inventory of the system

The server draws graphs of a parameterised function for clients that speak a
line protocol over TCP. It keeps its users in PostgreSQL and recovers passwords
through an external mail service.

| Component | State | Operations |
|---|---|---|
| Request router, `TCPGraphingServerManager` | `clients` (id -> session with `socket`, `buffer`, `authenticated`, `pendingTypes`), `clientIds`, `nextClientId` | socket slots (connection, chunk, disconnection), `onRequestReceived`, `completeLogin`, `completeRequest`, `failRequest`, `onResponseReady` |
| Wiring, `main()` | none | one lambda per signal of the router and of the mail client |
| Mail client, `MailServiceClient` | its posts under way | `sendPasswordResetMessage`, the lambda on `QNetworkReply::finished` |
| Accounts and recovery, `PgDatabase` | tables `users` and `password_reset_tokens` | `registerUser`, `login`, `createPasswordReset`, `cancelPasswordReset`, `verifyPasswordReset`, `resetPassword` |
| Database connection, `PgDatabase` | the `database` object, the schema | `connect`, `ensureConnectionAlive`, `ensureSchema`, `sync` |
| Line protocol, `GraphingProtocol.h` | none (the session buffer feeds it) | `parse`, `tryParseCorrelationId`, `serialize`, escaping and splitting |
| Calculation, `GraphingCalculation` and `libfn.c` | none | `calculate`, `resolvePoints`, `calculate_points` |
| ODB's generated code, `DbModels-odb.cxx` | per class: one shared image with buffers that grow, three bindings with the versions they were made from | `persist`, `update`, `find`, `query`, `create_schema` |
| Deployment, tests | - | - |

**How they interact.** There is one thread and one Qt event loop. All signals
between router, handlers and mail client are `Qt::QueuedConnection`s whose
receiver lives in that thread, so a step of one component never calls the next
one: it appends an event to a FIFO queue and returns. A request passes through
three such hops (`requestReceived`, the signal of its type, `responseReady`).
Between two deliveries the loop may serve any socket and any finished HTTP
reply. A password reset leaves the queue altogether while the mail service
works on it. Database operations run to their end inside one handler, each as
one transaction that changes the tables. They begin with `connect()`, which tries
the connection and opens another one if it is broken; a transaction that was
committing over the broken one may then still be under way in PostgreSQL.

**What makes this hard.** Clients may pipeline requests, reuse correlation ids,
and leave at any moment, while what they asked for is somewhere in the queue or
with the mail service. The check of a request and its effect are two separate
events (`authenticated` is tested in `onRequestReceived` and set in
`completeLogin`). The mail service may answer late, wrongly or never. A commit
may succeed and be reported as failed, and the process may die between the
commit and the mail. Bytes arrive cut into arbitrary chunks. The buffer of the
calculation has a fixed size computed in advance. ODB binds addresses of buffers
to statements, keeps the bindings between calls and moves the buffers when a
text outgrows them.

**What makes each part correct.**

- Router: each line is answered at most once, on the connection that sent it;
  none is lost while the connection is up; the pending table says exactly what
  is under way; a session is authenticated only by its own accepted login or
  registration; requests take effect in the order they were sent.
- Recovery: only the newest token of an account can act; the password is changed
  by a verified token only, once, and never back through an older one; what a
  client was told is in the database whatever crashed since; each operation keeps
  the dates the README promises for audit (lines 7-10).
- Connection: the schema is brought up to date wholly or not at all, no operation
  meets an older one, and the server comes back when PostgreSQL does.
- ODB code: a row holds what the object held and an object what the row held,
  whatever the statements before it did to the shared image.
- Line protocol: whatever the data holds and however TCP cuts it, messages
  arrive whole and in order; a malformed line costs no other line.
- Number parsing: exact at the limit of the integer type.
- Calculation: the buffer suffices; branches on both sides of a discontinuity
  are never joined; x never goes back.

`PROJECT.json` lists the hazards one by one, each with the line where it bites
and the properties that would catch it.

## Modules and the code they model

### The router: `Sessions`, with the abstract `RequestReply`

| In the model | In the code |
|---|---|
| `nextClientId`, `clients` | `TCPGraphingServerManager.h`, the hash `clients` and the counter |
| `authenticated[c]`, `pendingTypes[c]` | `ClientSession::authenticated`, `ClientSession::pendingTypes` |
| `queue` | the events Qt has posted and not yet delivered |
| `mail` | the `QNetworkReply`s not yet finished |
| `received`, `written`, `accepted`, `ran`, the field `line` | history: nothing the code has, and no guard reads them (but `received`, which numbers the lines and carries their bound) |
| `OnRemoteConnection`, `OnRemoteDisconnected`, `OnRemoteDataChunk` | the slots of the same names, `TCPGraphingServerManager.cpp:176-290` |
| `Verdict`, `DropRequest`, `RejectRequest`, `AcceptRequest` | `onRequestReceived`, lines 292-487: `Verdict` is the chain of its checks in their order |
| `CompleteLogin`, `CompleteRequest`, `FailRequest` | lines 489-557, with the early returns when the session or the pending entry is gone |
| `LoginRequested` ... `PasswordResetMailFailed` | the lambdas of `main.cpp:31-119` |
| `MailReplyFinished` | the lambda of `MailServiceClient.cpp:164-206`; whatever the reply, one of two signals follows |
| `OnResponseReady` | lines 559-570, dropping the payload of a client that has gone |
| `EventLoop` | the event loop takes the head of the queue |

A line is abstracted to what the router tells apart: its kind (request,
response, malformed), its id, its type and whether its parameters pass the
checks. `PgDatabase` and the calculation succeed or fail, both being possible
at any time. A chunk with several lines posts their events in a row; that is
`OnRemoteDataChunk` taken repeatedly, so the model has every behaviour of the
code and also those with something else in between.

`RequestReply` says what a client may rely on: connections get names that are
never reused, every line gets at most one reply, on its own connection, in any
order. The refinement mapping counts the responses of `written`.

### Password recovery: `PasswordReset`, with the abstract `ResetPolicy`

| In the model | In the code |
|---|---|
| `users`, `password` | table `users`; a password is named by the token that set it |
| `rows` | table `password_reset_tokens`: account and dates, without hashes |
| `now` | `QDateTime::currentDateTimeUtc()` and `CURRENT_TIMESTAMP` |
| `mail`, `posted` | posts under way, and the signals in the event queue |
| `told` | history: which successes clients were told of |
| `Active`, `NotExpired` | the predicates the queries share with the partial unique index (`PgDatabase.cpp:108-113`, `416-420`, `508-519`) |
| `RegisterUser`, `CreatePasswordReset`, `VerifyPasswordReset`, `ResetPassword` | the operations of the same names (lines 309-617) with the handlers of `main.cpp` that call them |
| `CancelPasswordReset`, `PasswordResetMailFailed` | lines 453-489 called from `main.cpp:112-119`, where a failure is only logged |
| `Restart` | the process dies and `main()` runs again: memory is lost, tables are not |

An action is one handler because one process runs one handler at a time and
each operation changes the tables in one transaction. Failures: a transaction
that fails changes nothing (a stutter); one whose `COMMIT` succeeds while its
answer is lost changes the tables and reports nothing - the disjuncts without
the post in `CreatePasswordReset` and without the success in `Tells`. A client
that acts on a token must have been told of it (tokens are 256 random bits).
Such a `COMMIT` takes effect here before the next operation starts; that it may
also do so between the statements of later operations is what `PasswordResetTx`
is for.
The clocks agree and the database session is in UTC.

`ResetPolicy` knows no tokens and no mail: an account has at most one reset
under way, which must be confirmed before it changes the password, changes it
once, and is forgotten when another is asked for.

### Transactions and their connection: `PasswordResetTx`, `DbConnection`, `DbServer`

`PasswordResetTx` takes the transactions of `PasswordReset` apart.

| In the model | In the code |
|---|---|
| `rows`, `password`, `lastId` | the committed tables and the sequence of token ids |
| `op` | the handler that runs: which operation, the place of its next statement, the ids it has yet to replace (`activeTokenIds`), the object it holds between `find` and `update` |
| `tx` | what its transaction has written |
| `late` | transactions over a connection that broke in `COMMIT`: the server reported an error and goes on, PostgreSQL has yet to commit or abort |
| `uses`, `told` | history: how often a token set the password, which successes clients were told of |
| `SelectActive`, `FindActive`, `UpdateReplaced`, `InsertToken` | `createPasswordReset`, lines 410-443, one action per statement |
| `SelectToCancel`, `SelectToVerify`, `SelectForUpdate`, `UpdateUser`, `FindToken`, `UpdateToken` | the statements of lines 464-484, 506-542 and 570-612 |
| `Commit`, `CommitLost`, `Refuse` | `transaction.commit()`; the `catch` after it; any early return or exception |
| `Write`, `Locked`, `IndexWaits` | external, what PostgreSQL does under READ COMMITTED: an update waits for the row's lock and then writes all of the row over whatever the row has become; an active row waits for transactions that may add or remove another one, and is refused beside one |

A late transaction makes rows possible that `PasswordReset` does not have. Two
ways, each with one connection that breaks during `COMMIT`:

- `createPasswordReset` replaces a token and is late; the mail of that token fails,
  and the SELECT of `cancelPasswordReset` (lines 466-471) sees it not replaced; the
  late `COMMIT` takes effect; `find` (479) reads the replaced row and `update` adds
  `cancelled_at` and `email_failed_at`. The token has ended twice.
- `resetPassword` is late; the next `createPasswordReset` reads the token unused
  (428); the late `COMMIT` sets the password and `used_at`; `update` (431) writes the
  row back without `used_at`. No token on record is the one that set the password.

So neither "a token has one ending" nor "the password is that of the newest used
token" is a property of this code. `UseOnRecord` states what is true of a use, and
`TransactionsKeepPolicy` that the account's reset goes by `ResetPolicy` all the
same, because the second update leaves the token as dead as it was.

The accounts of different users share no row, so there is one. Time is left out:
a token may expire at any moment, which is a refusal.

`DbConnection` is `connect()` with what it calls (`PgDatabase.cpp:66-158`,
`194-255`), the exit of `main()` when it fails and the restart by Docker. `schema`
is a set of the things the ten statements of
`ensureExistingSchemaCompatibility` see to; each is made on its own, inside one
transaction. `session` is the connection in ODB's pool, which is opened by the
first transaction and dropped once it has failed.

`DbServer` composes the two: an operation begins with `Operation` (`connect()`),
goes on with `BeginTransaction` when the connection is `ready`, and its statements
succeed only while the session is live. A break turns the running transaction
into a failure, or into a late one at its `COMMIT`. `ALTER TABLE` needs a lock no
late transaction lets it have (`Connecting`), which is why a new process never
works beside transactions of its predecessor; a reconnection that finds its
`database` object in place runs no such statement and does. PostgreSQL itself
starts only when old transactions have ended.

### Generated code: `ObjectStatements`, with the abstract `ObjectStore`

`ObjectStatements` is the statement cache of one connection: for each class one
image for `INSERT`, `UPDATE`, `SELECT` and queries, in which a text has a buffer of
some capacity, and a binding per statement with the version of the image it was
made from. `InitImage` copies an object into the image and grows a buffer that is
too short; `Bind` puts the addresses into a statement's binding; `Fetch` cuts a text
that does not fit; `LoadRow` grows the buffer, binds anew and fetches again
(`DbModels-odb.cxx:490-854`, `998-2011`). A buffer's address is the number of times it
has grown. The runtime library that executes the statements is external.
`Persist`, `Update`, `Find` and `Query` may fail after the image has changed, and
`Reconnect` replaces all statements. `ObjectStore` is a table from ids to objects
that gives back what it was given.

### The line protocol: `GraphingProtocol`, `LineChannel`, `FifoChannel`, `ParseUnsigned`

`GraphingProtocol` holds the pure functions of `GraphingProtocol.h` under their
names, over symbols: the five characters the protocol treats specially, the
letters `n` and `r`, and words for runs of characters it does not look at.
`parse` throws at the first field that is wrong; since only the id survives an
exception (it is looked up again by `tryParseCorrelationId`), the order of its
checks is not observable and `Parse` is a case distinction.

`LineChannel` is the way of a line from the client's socket through
`ClientSession::buffer` into `parse`: `OnRemoteDataChunk(n)` takes a chunk of
any size `n` (lines 215-290). `FifoChannel` is its abstract specification.

`ParseUnsigned` is the loop of `parseUnsigned` (`GraphingProtocol.h:183-203`),
one digit per step in arithmetic modulo `Max + 1`, with a history variable for
the number the digits really denote.

### The calculation: `CalculatePoints`

The loop of `calculate_points` (`libfn/libfn.c:10-84`), one iteration per step,
with `resolvePoints` (`GraphingCalculation.cpp:16-40`) in `Init`. What decides
the markers is on which side of 0 and of 1 each sample lies. `x = -10 + i*step`
is computed in floating point, and where the exact value is 0 or 1 the rounded
one may lie on either side: constants `AtZero` and `AtOne` say which. The
comment of the module lists what IEEE doubles give on x86-64 (evaluated with
the expression of the code): 0 at 0 for all settings up to 800, except -1 for
155, 309, 607, 617, 639 and +1 for 295, 563, 589; always exact at 1. The run
leaves the rounding at 1 open all the same.

### Faulty variants

Next to some definitions stands one commented "Faulty variant": what a plausible
mistake would make of it (a check dropped, an order swapped, a missing reset).
No specification uses them. Put in the place of the correct definition, each
makes TLC find the property `PROJECT.json` pairs it with (`mutants`) violated;
that is the evidence that the property can fail.

## What the runs check and show

| Run | Instance | Distinct states | Properties |
|---|---|---|---|
| `one_connection` | 1 connection, 3 lines, 2 ids, every type and kind of line | 783,822 | `TypeOK`, `ExactlyOnce`, `PendingOwned`, `SuccessMeansAccepted`, `RunInOrder` |
| `two_connections` | 2 connections, 2 lines each, 1 id, 3 types, with a fair event loop | 820,558 | `AuthenticatedIffAccepted`, `KeepsPromise`, `EventuallySettled` |
| `unknown_type` | 1 connection, 1 line | 75 (violation) | `UnknownTypeNotImplemented` |
| `password_reset` | 2 accounts, 3 tokens, dates 0..2, lifetime 2 | 354,379 | `TypeOK`, `OnlyNewestActive`, `ReplacedBySuccessor`, `ToldIsTrue`, `AuditTrail`, `KeepsPolicy` |
| `line_channel` | 2 of 20 different lines, chunks of any size | 6,711 | `TypeOK`, `NothingHeldBack`, `KeepsFifo` |
| `readme_example` | the two commands of README lines 58-60 | (violation) | `ExampleAccepted` |
| `parse_unsigned` | 8 bits, 4 characters | 4,038 | `Exact` |
| `calculate_points` | 2..43 points, sample at 0 rounded to 0 or above, at 1 anywhere | 9,774 | `TypeOK`, `WithinCapacity`, `NoBlueWall`, `LeftToRight` |
| `points_155` | 155 points, sample at 0 rounded below | (violation) | `WithinCapacity` |
| `object_statements` | 2 rows of each class; 4 users, 6 tokens, 3 hashes, with texts that fit or make a buffer grow once or twice | 94,687 | `TypeOK`, `BindingsCurrent`, `KeepsObjects` |
| `db_server` | 3 tokens, 2 late transactions at a time, 2 faults | 571,107 | `ServerTypeOK`, `OneActive`, `UsedOnce`, `ToldIsKept`, `UseOnRecord`, `AllOrNothing`, `TablesReady`, `NewestWins`, `TransactionsKeepPolicy`, `KeepsTransactions`, `EventuallyServes` |
| `audit_after_late_commit` | 2 tokens, 1 late transaction, 1 fault | (violation) | `AuditTrail` |

**Router.** Three lines are what the worst interleavings on one connection
need: a request that occupies an id, a second one under that id, and a third
that meets what these two left behind (a verification between a request and an
update, a login raced by a registration). Two ids allow collision and its
absence; the alphabet has every type, an unknown one, bad parameters, a
malformed line and a response sent by a client. Two connections suffice for
what one can do to another, since sessions share only the counter, the queue
and the mail client. There the alphabet is the core one (login, calculation,
reset) and there is one id, which makes every collision happen.
`ExactlyOnce` and `PendingOwned` together are the heart: a completion that found
another request's entry, or none, would answer the wrong line or lose one.
`RunInOrder` concerns the handlers' effects; responses may overtake each other
(a rejected line passes one that waits for the mail) and nothing claims
otherwise.

**Fairness.** Only `EventLoop` is fair: Qt keeps delivering posted events.
Nothing is assumed of clients, which may stay silent or leave, or of the mail
service: the post has no transfer timeout (`MailServiceClient.cpp:163`), so a
reply may never come. `EventuallySettled` therefore says that a line of a
connection that stays is eventually answered for good or rests with the mail
service - and nowhere else. Requiring a reply from the mail service would prove
more than the code gives.

**Recovery.** With lifetime 2 and dates 0..2, verification and use can happen
later than creation and a token can expire while still active; three tokens
over two accounts let one account have a chain of three (replaced, used,
current) while the other interferes. Accounts are interchangeable, which the
run uses as symmetry; the two temporal properties are quantified over all
accounts and so are symmetric as well. But for `AuditTrail` the properties are
those that late transactions leave true; of `AuditTrail` the run shows that each
operation by itself keeps the dates, and `audit_after_late_commit` that beside a
late transaction they may be lost. The run has no deadlock to allow:
`Restart` is always possible.

**Line protocol.** The 20 inputs include every special character inside a
parameter, backslashes before a delimiter, empty parameters and empty lists,
a `CR LF` ending and seven kinds of malformed line. Two lines are enough since
all that passes from one chunk to the next is the buffer; every cut is tried.

**Numbers.** 255 ends in 5 as 2^64 - 1 does, so the limit is met inside a
decade, and four digits go beyond it. The theorem covers every width.

**Calculation.** 43 is two periods (the sample positions relative to 0 and 1
repeat every 20 points) and has samples on both, on one, on none, and intervals
that contain both discontinuities. The sample at 0 is not rounded below 0 here:
the run shows what the code does under that condition, `points_155` what
happens without it.

**Transactions and connection.** Two late transactions beside a running one are
as many as rows can tell apart: one holds a row the running one has read, the
other a row the index compares it with. Every fault needs a place: two breaks
make two late transactions, a break and a crash leave one behind for a new
process. Three tokens let the middle one be both successor and replaced. With
four tokens and two late transactions, and any number of faults, `PasswordResetTx`
alone has 1,785,303 states and the same results. `KeepsTransactions` says that
`DbServer` implements `PasswordResetTx`, so what holds there holds here.
`ToldIsKept` excepts the mark `verified` of a token that was replaced meanwhile:
that one can be lost, as the last finding describes. `UseOnRecord` says of a used
token that it was verified, that its mail did not fail and that it is no newer
than the password, and of the token that set the password that it is used or
replaced; it relates the mail, which comes back in any order, to rows that stale
copies may be written over. `TransactionsKeepPolicy` depends on the index: a stale
row that would revive a replaced token is refused because its successor is
active, which is shown for every order in which transactions end.
Fairness: the process runs (`Connecting`, `Work`), Docker starts both services
again (`restart: unless-stopped`, `compose.yaml:22`, `53`) and PostgreSQL ends
transactions whose client is gone. No operation needs to be asked for, and no
fault to stay away: there are at most `MaxFaults`.

**Generated code.** A text fits at once, makes its buffer grow once, or twice, so
that a buffer moves, moves again, and is used by a statement bound before,
between and after.

Every passing run but `password_reset`, `object_statements` and `db_server` sets `CHECK_DEADLOCK FALSE`, because the bounds
(lines sent, characters read) or the loop's own end stop every behaviour. The
bounds are `MaxClients`, `MaxLines`, `MaxTime`, `MaxTokens`, `MaxLate`, `MaxFaults`,
`MaxInputs` and `MaxLength`; each is a guard of the action it bounds.

## What is proved

TLAPS proves the following for all values of the constants, from the assumptions
named in each module (types of constants, `Max >= 9`, `DefaultPoints >= 2`, lines
without a line feed in them, and data that is told from the special characters).

**Router** (`Sessions_proofs`): `TypeOK`, `ExactlyOnce`,
`PendingOwned`, `AuthenticatedIffAccepted`, `SuccessMeansAccepted`, `RunInOrder`,
and the refinement `KeepsPromise`. None but `TypeOK` is inductive by itself. The
invariant `IInv` adds:

- `LineInv`: each received line of a connection that is up is in exactly one place,
  and nothing in flight carries a line that was not received;
- `SignalInv`: an event of a handler's signal carries a request of the type that
  signal is for, and only password resets are with the mail service;
- `OwnerInv`: the entries of the pending table and the requests under way
  correspond one to one;
- `AuthInv`: authentication and the database's answers are in step, also for ids
  whose session is gone or has not come yet.

They depend on each other: a completion answers its own line (`LineInv`) because the
entry it finds is its own (`OwnerInv`), whose type is that of the signal
(`SignalInv`). `SuccessMeansAccepted` is proved on top of them from `AcceptedInv`,
which says the same of the responses still in the queue. `RunInOrder` needs only
`TypeOK` beside `OrderInv`: of the events in the queue that belong to one
connection, those that wait for the router are in order, so are those handed to
a handler, the latter came from earlier lines than the former, and all of them
from later lines than any that has run. Forwarding a request from the head to
the tail of the queue keeps that.

**Recovery** (`PasswordReset_proofs`): all six properties of the run, the
refinement of `ResetPolicy` included. The invariant joins the table properties
with how a row ends in this module, where transactions do not overlap (`OneEnding`,
a part of the invariant only), and with `MailInv`, which says where the mail of
each token can be: with the service, as one signal, or done. Without it a late
failure could not be excluded for a token a client already holds.

**Line protocol, codec** (`GraphingProtocol_proofs`): texts, lists and messages are
read as they were written, for texts of any length and any symbols.
`ReadersAgree`: `splitEscaped` finds delimiters by counting backslashes backwards,
`decodeEscapes` reads escapes forwards; they agree on what is escaped, because the
count exists, is unique, and so obeys a recurrence. `SplitAppend`: the positions at
which `SplitEscaped` cuts give what the loop of the code does, symbol by symbol.
`DecodesEncoded`, `DecodesEncodedList` and `ParsesSerialized`: `decodeEscapes`,
`decodeList` and `parse` undo `encodeEscapes`, `encodeList` and `serialize`; the
list must not be empty, since an empty one is written as no field at all, and the
type of a request must not be, since `parse` refuses it. The notion that carries
this is `Inert`: a text that, read where nothing is escaped, extends the last part
and leaves nothing open. Escaped texts are inert, and so is what is put together
from inert ones, so a delimiter that serialize writes is the only one splitEscaped
sees. `LineEndsTrimmed`: a line ended by CR LF means what it means without the CR.
Numbers are symbols here: that digits are read back as the number is `Exactness`
below.

**Line protocol, framing** (`LineChannel_proofs`): all three properties of the run,
`TypeCorrect`, `NothingIsHeldBack` and `ImplementsChannel`, for any set of lines and
any chunks. The invariant says that buffer and wire together, as one text, consist of the
lines that were written and not yet taken, each ended by its only line feed
(`Framed`, `UnderWay`), that no line feed stays in the buffer (`NoEndInBuffer`), and that what was taken is
what `parse` makes of the first lines (`Taken`). A chunk moves the border over some
of these ends (`ChunkIsPrefix`), and cutting there gives those lines and the rest
(`PiecesOfFramed`). `ImplementsChannel` assumes that each line parses as its writer
meant (`ReadAsMeant`), which is not about chunks; `MessagesArrive` discharges it by
the codec's theorems for the messages `serialize` writes, ended by LF or by CR LF.

**Numbers** (`ParseUnsigned_proofs`): `Exactness`, for every width and length.

**Calculation** (`CalculatePoints_proofs`): `TypeCorrect`; `CapacitySuffices`,
for every number of points if the sample at 0 is never rounded below it; and
`OneMoreSuffices`: however samples are rounded, `points + 4` entries are enough,
which is the repair the third finding calls for. The invariant bounds the
markers written so far by which discontinuities have been passed.
`GapsBetweenBranches` (`NoBlueWall`) holds for every number of points and every
rounding, below 0 too; `InOrder` (`LeftToRight`) for every number of points if the
sample at 0 is not rounded below it. With 155 points it is: the marker at 0.0 is
written first (`libfn.c:51`), then the sample with x = -1.8e-15 (78), and x goes
back. The run `calculate_points` excludes that rounding too. The invariant
`OrderInv` says
that the entries are in order up to the region of the last sample, and that a
branch left of 0, or of 1, has a gap behind its last value once the last sample is
past it; `FineGap` and `FineValue` say what one more entry does to that.

**Generated code** (`ObjectStatements_proofs`): `StatementsTyped`,
`NoDanglingBinding` and the refinement `StatementsImplementStore`, for any
classes, texts and lengths. The invariant `InOrder` says that no binding is newer
than the image and that one as new as the image points to its present buffers;
failing statements and growth in the middle of a load keep it.

**Transactions** (`DbServer_proofs`): about `PasswordResetTx`, `TransactionsTyped`,
`AtMostOneActive`, `EachUsedOnce`, `PasswordGoesOn`, `WhatWasToldIsKept`,
`UsesOnRecord` and `PolicyThroughLateTransactions`, for any number of tokens and
of late transactions. The invariant says of every open
transaction, running or late, that its COMMIT would leave the tables in order
(`Sound`, `Ended`), and of any two that locks and index keep them apart (`Apart`);
`InstallTables` and `InstallSound` show once, for values, that COMMIT of one then
keeps the tables and the others in order, and each statement is shown to write
only what fits. `Verifying` and `Resetting` say what an operation may still rely
on of a row it has read: another transaction may since have replaced the token of
`verifyPasswordReset`, but only by an active one, which makes the index refuse the
stale row. `Kept` adds what clients were told: a row read before its token was
verified is written back only verified or replaced.
`Recorded` adds what may be on record of a use (`Fits`): marks of a failed mail only
where the mail is done with and no client was handed the token, `used` only on a
verified row of a token that was handed over and is no newer than the password.
`Standing` adds what the policy needs: no open transaction brings a dead token back
(`Respects`), one that has come to its end kills a token for a reason (`Explained`),
and a token that `verifyPasswordReset` still holds as active, though it has died,
has an active rival that no late transaction can remove (`Rivalled`), so that the
index refuses the stale row. `InstallStage` shows once, for values, that `COMMIT` is
then a step of `ResetPolicy`.

**Server** (`DbServer_proofs`): `SchemaInv` says what the open transaction of
`ensureSchema` has made of the schema after each statement, whence `AllOrNothing`
and `TablesReady`; `Link`, that an operation runs only over a `connect()` that
succeeded and that the schema is committed beside no late transaction, whence
`ServerKeepsTransactions`: the server's transactions are those of
`PasswordResetTx`, and the theorems about it hold of the server.

**Only model-checked.** `EventuallySettled` and `EventuallyServes`: liveness and
`ENABLED` are out of the prover's reach. What `parse` answers to lines that are no
messages is checked for the eight of `MCLineChannel`. The library's induction
theorems cannot be used here, because no installed prover instantiates their
predicate; `Induction` and `TextInduction` are stated over sets instead and proved from
well-foundedness, and the folds and recursive functions of the community modules
are unfolded step by step (`FlattenAppend`, `DecodedAppend`).

## Where code and documentation disagree

1. `unknown_type`: the comment on TC-35 (`tests/tst_protocol/tst_protocol.cpp:88`)
   says that a request of type `hack` is answered `Type "hack" is not
   implemented`. The server asks for authentication first
   (`TCPGraphingServerManager.cpp:308`) and answers Forbidden to a client that
   is not logged in.
2. `readme_example`: the first command of the README's quick test (line 58) has
   unescaped spaces in its third parameter. `parse` refuses a line of more than
   four fields, so the response is a parsing error and not the
   `response 1 ok` of line 65.
3. `points_155`: `capacity = points + 3` (`libfn/libfn.c:24`) counts on at most
   three markers. For 155, 309, 607, 617 and 639 points the sample at 0 is
   rounded just below 0; it then gets the marker of line 50, its successor the
   two of line 42, and with the marker at 1 there are four: one entry more than
   the buffer holds.
4. `audit_after_late_commit`: README lines 7-10 say that the dates of a token are
   kept for audit. In the run a mail has failed and the connection breaks while
   the `COMMIT` of `cancelPasswordReset` is under way. The next request opens
   another connection, finds the token still active and reads it
   (`PgDatabase.cpp:428`); now the late `COMMIT` takes effect; the update of line
   431 writes the row as it was read, with `replaced_at` and without
   `cancelled_at` and `email_failed_at`. `find` takes no lock and ODB's `update`
   writes all columns. It takes a `COMMIT` that outlives its connection for as
   long as a reconnection takes, hence it is rare. In the same way a token may end
   both replaced and with a failed mail, and a used one may end replaced and not
   used, so that no token on record is the one that set the password
   ([the two traces](#transactions-and-their-connection-passwordresettx-dbconnection-dbserver)).

## What is not modelled

- The settings `connect()` reads from the environment: without them the server
  exits at once, and they do not change while it runs.
- `login` only reads; in `Sessions` it is the outcome accepted or refused.
  `sync()` has no caller.
- `startServer`, `stopServer`: listening, and the end of the process.
- Several server processes on one database: deployed is one. What may run beside
  an operation is a late transaction of the same server.
- Of ODB's generated code, the views of numbers and booleans, whose images cannot
  grow, and `erase`, `reload` and the two-argument `find`, which are never called.
- Mail texts and configuration, logging, UTF-8, the values
  of y and the formatting of results, whitespace accepted by `parseInt`, the
  width of `int` in `points + 3`.
- Deployment files, tests and `libfn/main.c`: they keep no state of the server.

## Plan

Done, in this order: `RequestReply` and `Sessions` (the router is where all
interleavings meet); `ResetPolicy` and `PasswordReset` (the state that outlives
crashes); `GraphingProtocol`, `FifoChannel`, `LineChannel`, `ParseUnsigned`;
`CalculatePoints`; `ObjectStore` and `ObjectStatements`; `PasswordResetTx`,
`DbConnection` and `DbServer`; the proofs of each.

Next:

1. `GraphingServer`, composing `Sessions` and `PasswordReset`: the handlers with their effect
   on the tables, so that what a client reads, not what a handler reports, is
   related to the database; `Sessions` and `PasswordReset` as its refinements.
2. Proofs: what `parse` answers to each kind of malformed line; that the numbers in
   messages survive `parseUnsigned`, joining `ParseUnsigned` to `Parse`.

## How to run it

In this directory, with TLA+ tools, the community modules and TLAPS 1.4.5:

    tlc -workers 2 -config MCSessionsOne.cfg MCSessions.tla
    tlapm Sessions_proofs.tla

`PROJECT.json` names module and configuration of every run. The longest take
about two minutes; `unknown_type`, `readme_example`, `points_155` and
`audit_after_late_commit` are meant to end with a violation. The modules named `*_proofs` hold the
proofs; Z3, Zenon and LS4 are the backends they use.
