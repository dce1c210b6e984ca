--------------------------- MODULE PasswordResetTx ---------------------------
(***************************************************************************)
(* The transactions of password recovery, statement by statement, as       *)
(* PostgreSQL runs them under READ COMMITTED.  PasswordReset takes them    *)
(* for atomic.  The server runs one handler at a time, but when its        *)
(* connection breaks during COMMIT it takes the transaction for failed and *)
(* goes on over a new connection, while the old one is still about to      *)
(* commit or to abort: the transaction is late.  Later handlers read the   *)
(* rows as they were before it and wait for its locks when they write, and *)
(* ODB writes whole rows.                                                  *)
(*                                                                         *)
(* Abstracted: one account, as the tokens of two share no row; a date is   *)
(* set or not; a token may expire, or a code be wrong, any time, so every  *)
(* check may refuse; reading the account and hashing, which are            *)
(* transactions of their own, change nothing.  A transaction that fails    *)
(* before its COMMIT changes nothing and only frees its locks later.       *)
(*                                                                         *)
(* So a row may end in more ways than one.  Replaced and mail failed: the  *)
(* SELECT of cancelPasswordReset sees a token that a late                  *)
(* createPasswordReset then replaces, and find reads the replaced row.     *)
(* Replaced and not used, though the password was set through it:          *)
(* createPasswordReset reads the row before a late resetPassword commits,  *)
(* and writes it back after.  UseOnRecord is what is true of a use.        *)
(***************************************************************************)
EXTENDS Naturals, FiniteSets

CONSTANTS MaxTokens,   \* bound: ids of password_reset_tokens
          MaxLate      \* bound: late transactions at a time

ASSUME TxAssumption == MaxTokens \in Nat /\ MaxLate \in Nat

TokenIds == 1..MaxTokens
Marks == {"verified", "cancelled", "replaced", "used", "email_failed"}
Row == SUBSET Marks

\* A table keyed by id, with some of the rows.
IsTable(f) == DOMAIN f \subseteq TokenIds /\ f \in [DOMAIN f -> Row]

\* What a transaction has written: rows of password_reset_tokens, and the token
\* through which it sets the password (0 if it does not).
IsWrites(w) ==
    /\ DOMAIN w = {"rows", "password"}
    /\ IsTable(w.rows)
    /\ w.password \in {0} \cup TokenIds
NoWrites == [rows |-> [t \in {} |-> {}], password |-> 0]

\* The handler that runs: its operation, the token it is about, the place of
\* the next statement, the ids it has yet to replace and the object it holds.
Op == [name : {"none", "create", "cancel", "verify", "reset"},
       token : {0} \cup TokenIds,
       at : {"select", "find", "update", "user", "insert", "commit"},
       todo : SUBSET TokenIds,
       object : Row]
Idle == [name |-> "none", token |-> 0, at |-> "select", todo |-> {}, object |-> {}]

VARIABLES
    up,         \* the server is past the schema check
    rows,       \* committed rows
    password,   \* the token through which the password was last set
    lastId,     \* the sequence of ids, which no rollback resets
    op, tx,     \* the handler that runs and what its transaction has written
    late,       \* transactions whose COMMIT the server has given up
    mail,       \* what has become of the mail for each token
    told,       \* history: <<token, success>> a client was told of
    uses        \* history: how often each token has set the password

vars == <<up, rows, password, lastId, op, tx, late, mail, told, uses>>

\* Every variable has its type, and the sequence is ahead of every id that is
\* stored or about to be.
TypeOK ==
    /\ up \in BOOLEAN
    /\ password \in {0} \cup TokenIds
    /\ lastId \in {0} \cup TokenIds
    /\ op \in Op
    /\ IsTable(rows) /\ DOMAIN rows \subseteq 1..lastId
    /\ \A x \in late \cup {tx} : IsWrites(x) /\ DOMAIN x.rows \subseteq 1..lastId
    /\ mail \in [TokenIds -> {"none", "posted", "failed", "sent"}]
    /\ told \subseteq TokenIds \X {"verified", "changed"}
    /\ uses \in [TokenIds -> Nat]

Init ==
    /\ up = FALSE
    /\ rows = NoWrites.rows
    /\ password = 0
    /\ lastId = 0
    /\ op = Idle /\ tx = NoWrites
    /\ late = {}
    /\ mail = [t \in TokenIds |-> "none"]
    /\ told = {}
    /\ uses = [t \in TokenIds |-> 0]

-----------------------------------------------------------------------------
(* The tables *)

Active(row) == row \cap {"cancelled", "replaced", "used", "email_failed"} = {}

\* The table once the rows of w are written over it.
Over(table, w) ==
    [t \in DOMAIN table \cup DOMAIN w |-> IF t \in DOMAIN w THEN w[t] ELSE table[t]]

\* What a statement of the running transaction reads.
View == Over(rows, tx.rows)

\* The rows a late transaction has locked.
Locked(t) == \E x \in late : t \in DOMAIN x.rows

\* The index password_reset_tokens_one_active_per_user refuses an active row
\* beside another one, and waits while a late transaction may add or remove one.
Rivals(t) == {s \in DOMAIN View \ {t} : Active(View[s])}
IndexWaits(t) ==
    \E x \in late : \E s \in DOMAIN x.rows \ {t} : Active(x.rows[s]) \/ s \in Rivals(t)

-----------------------------------------------------------------------------
(* Steps of a transaction *)

Goes(next) == op' = next /\ UNCHANGED <<up, rows, password, lastId, late, mail, told, uses>>

\* Rollback: an early return, an exception, or a connection that broke.
Rollback == Goes(Idle) /\ tx' = NoWrites

\* Faulty variant: the table has no index.
WriteUnchecked(t, row, next) ==
    /\ ~Locked(t)
    /\ Goes(next)
    /\ tx' = [tx EXCEPT !.rows = Over(@, [s \in {t} |-> row])]

\* UPDATE of a whole row; the operation goes on as next.
Write(t, row, next) ==
    /\ ~Locked(t)
    /\ Active(row) => ~IndexWaits(t)
    /\ IF Active(row) /\ Rivals(t) # {}
       THEN Rollback
       ELSE /\ Goes(next)
            /\ tx' = [tx EXCEPT !.rows = Over(@, [s \in {t} |-> row])]

Committed(w) ==
    /\ rows' = Over(rows, w.rows)
    /\ password' = IF w.password = 0 THEN password ELSE w.password
    /\ uses' = [t \in TokenIds |-> IF t = w.password THEN uses[t] + 1 ELSE uses[t]]

Successes == [create |-> {}, cancel |-> {}, verify |-> {"verified"}, reset |-> {"changed"}]

\* COMMIT, and the server is told of it: the mail is posted, or the client told
\* unless it has gone.
Commit ==
    /\ op.at = "commit"
    /\ Committed(tx)
    /\ op' = Idle /\ tx' = NoWrites
    /\ mail' = IF op.name = "create" THEN [mail EXCEPT ![op.token] = "posted"] ELSE mail
    /\ told' \in {told, told \cup {<<op.token, s>> : s \in Successes[op.name]}}
    /\ UNCHANGED <<up, lastId, late>>

\* Faulty variant: the failure is not reported.
CommitUnsure ==
    /\ op.at = "commit"
    /\ Cardinality(late) < MaxLate
    /\ late' = late \cup {tx}
    /\ op' = Idle /\ tx' = NoWrites
    /\ told' = told \cup {<<op.token, s>> : s \in Successes[op.name]}
    /\ UNCHANGED <<up, rows, password, lastId, mail, uses>>

\* The connection breaks during COMMIT: the server reports a failure.
CommitLost ==
    /\ op.at = "commit"
    /\ Cardinality(late) < MaxLate
    /\ late' = late \cup {tx}
    /\ op' = Idle /\ tx' = NoWrites
    /\ UNCHANGED <<up, rows, password, lastId, mail, told, uses>>

LateCommit(x) ==
    /\ late' = late \ {x}
    /\ Committed(x)
    /\ UNCHANGED <<up, lastId, op, tx, mail, told>>

LateAbort(x) ==
    /\ late' = late \ {x}
    /\ UNCHANGED <<up, rows, password, lastId, op, tx, mail, told, uses>>

-----------------------------------------------------------------------------
(* The operations, one action for each statement *)

Begin(name, t) == Goes([Idle EXCEPT !.name = name, !.token = t]) /\ UNCHANGED tx

Runs(name, place) == op.name = name /\ op.at = place

BeginCreate == up /\ op = Idle /\ lastId < MaxTokens /\ Begin("create", 0)

\* The loop goes on with the next active token or with the insertion.
NextToReplace(todo) ==
    IF todo = {}
    THEN [op EXCEPT !.todo = {}, !.token = 0, !.at = "insert"]
    ELSE [op EXCEPT !.todo = todo, !.at = "find"]

\* createPasswordReset: query of the active tokens
SelectActive ==
    /\ Runs("create", "select")
    /\ Goes(NextToReplace({t \in DOMAIN View : Active(View[t])}))
    /\ UNCHANGED tx

\* find and markReplaced
FindActive(t) ==
    /\ Runs("create", "find") /\ t \in op.todo
    /\ Goes([op EXCEPT !.token = t, !.at = "update", !.object = View[t] \cup {"replaced"}])
    /\ UNCHANGED tx

UpdateReplaced ==
    /\ Runs("create", "update")
    /\ Write(op.token, op.object, NextToReplace(op.todo \ {op.token}))

\* Faulty variant: the id is one more than those in the table.
InsertNextId ==
    LET t == Cardinality(DOMAIN View) + 1
    IN  /\ Runs("create", "insert")
        /\ ~IndexWaits(t)
        /\ Rivals(t) = {}
        /\ op' = [op EXCEPT !.token = t, !.at = "commit"]
        /\ tx' = [tx EXCEPT !.rows = Over(@, [s \in {t} |-> {}])]
        /\ UNCHANGED <<up, rows, password, lastId, late, mail, told, uses>>

\* persist: the id is drawn first, and is lost if the index refuses the row.
InsertToken ==
    LET t == lastId + 1
    IN  /\ Runs("create", "insert")
        /\ ~IndexWaits(t)
        /\ lastId' = t
        /\ IF Rivals(t) # {}
           THEN op' = Idle /\ tx' = NoWrites
           ELSE /\ op' = [op EXCEPT !.token = t, !.at = "commit"]
                /\ tx' = [tx EXCEPT !.rows = Over(@, [s \in {t} |-> {}])]
        /\ UNCHANGED <<up, rows, password, late, mail, told, uses>>

\* cancelPasswordReset, from the handler of a mail that failed
BeginCancel(t) ==
    /\ up /\ op = Idle /\ mail[t] = "failed"
    /\ mail' = [mail EXCEPT ![t] = "none"]
    /\ op' = [Idle EXCEPT !.name = "cancel", !.token = t]
    /\ UNCHANGED <<up, rows, password, lastId, tx, late, told, uses>>

\* cancelPasswordReset gives up without a connection.
CannotCancel(t) ==
    /\ up /\ op = Idle /\ mail[t] = "failed"
    /\ mail' = [mail EXCEPT ![t] = "none"]
    /\ UNCHANGED <<up, rows, password, lastId, op, tx, late, told, uses>>

SelectToCancel ==
    /\ Runs("cancel", "select")
    /\ op.token \in DOMAIN View /\ View[op.token] \cap {"replaced", "used"} = {}
    /\ Goes([op EXCEPT !.at = "find"])
    /\ UNCHANGED tx

\* verifyPasswordReset and resetPassword, for a client that has the token
BeginVerify(t) == up /\ op = Idle /\ mail[t] = "sent" /\ Begin("verify", t)
BeginReset(t) == up /\ op = Idle /\ mail[t] = "sent" /\ Begin("reset", t)

\* A token that is verified already needs no update.
SelectToVerify ==
    /\ Runs("verify", "select")
    /\ op.token \in DOMAIN View /\ Active(View[op.token])
    /\ Goes([op EXCEPT !.at = IF "verified" \in View[op.token] THEN "commit" ELSE "find"])
    /\ UNCHANGED tx

\* Faulty variant: the SELECT is not FOR UPDATE.
SelectToReset ==
    /\ Runs("reset", "select")
    /\ op.token \in DOMAIN View /\ Active(View[op.token])
    /\ "verified" \in View[op.token]
    /\ Goes([op EXCEPT !.at = "user"])
    /\ UNCHANGED tx

\* Faulty variant: a token that was replaced will do.
SelectReplaced ==
    /\ Runs("reset", "select")
    /\ op.token \in DOMAIN View /\ "used" \notin View[op.token]
    /\ ~Locked(op.token)
    /\ "verified" \in View[op.token]
    /\ Goes([op EXCEPT !.at = "user"])
    /\ UNCHANGED tx

\* Faulty variant: the code need not have been verified.
SelectUnverified ==
    /\ Runs("reset", "select")
    /\ op.token \in DOMAIN View /\ Active(View[op.token])
    /\ ~Locked(op.token)
    /\ Goes([op EXCEPT !.at = "user"])
    /\ UNCHANGED tx

\* SELECT ... FOR UPDATE waits for the row and looks at it again.
SelectForUpdate ==
    /\ Runs("reset", "select")
    /\ op.token \in DOMAIN View /\ Active(View[op.token])
    /\ ~Locked(op.token)
    /\ "verified" \in View[op.token]
    /\ Goes([op EXCEPT !.at = "user"])
    /\ UNCHANGED tx

\* find and update of the account, whose row a late reset may have locked
UpdateUser ==
    /\ Runs("reset", "user")
    /\ \A x \in late : x.password = 0
    /\ Goes([op EXCEPT !.at = "find"])
    /\ tx' = [tx EXCEPT !.password = op.token]

\* find of the token, and its change of state
NewMarks == [cancel |-> {"cancelled", "email_failed"}, verify |-> {"verified"},
             reset |-> {"used"}]

FindToken ==
    /\ op.name \in DOMAIN NewMarks /\ op.at = "find"
    /\ Goes([op EXCEPT !.at = "update",
                       !.object = View[op.token] \cup NewMarks[op.name]])
    /\ UNCHANGED tx

UpdateToken ==
    /\ op.name \in DOMAIN NewMarks /\ op.at = "update"
    /\ Write(op.token, op.object, [op EXCEPT !.at = "commit"])

\* Any statement may find nothing, refuse, or fail.
Refuse == op # Idle /\ Rollback

-----------------------------------------------------------------------------
(* The mail client, crashes and restarts *)

\* Faulty variant: a mail that was sent may still be reported as failed.
MailFailsAfterAll(t) ==
    /\ up /\ op = Idle /\ mail[t] \in {"posted", "sent"}
    /\ mail' \in {[mail EXCEPT ![t] = "sent"], [mail EXCEPT ![t] = "failed"]}
    /\ UNCHANGED <<up, rows, password, lastId, op, tx, late, told, uses>>

MailReplyFinished(t) ==
    /\ up /\ op = Idle /\ mail[t] = "posted"
    /\ mail' \in {[mail EXCEPT ![t] = "sent"], [mail EXCEPT ![t] = "failed"]}
    /\ UNCHANGED <<up, rows, password, lastId, op, tx, late, told, uses>>

\* The process dies; its transaction too, or its COMMIT is late.
Crash ==
    /\ up
    /\ up' = FALSE
    /\ \/ late' = late
       \/ op.at = "commit" /\ Cardinality(late) < MaxLate /\ late' = late \cup {tx}
    /\ op' = Idle /\ tx' = NoWrites
    /\ mail' = [t \in TokenIds |-> IF mail[t] = "sent" THEN "sent" ELSE "none"]
    /\ UNCHANGED <<rows, password, lastId, told, uses>>

\* connect() of a new process alters the table, which waits for every
\* transaction that has locked a row of it.
Start ==
    /\ ~up /\ late = {}
    /\ up' = TRUE
    /\ UNCHANGED <<rows, password, lastId, op, tx, late, mail, told, uses>>

-----------------------------------------------------------------------------

Begins ==
    \/ BeginCreate
    \/ \E t \in TokenIds : BeginCancel(t) \/ BeginVerify(t) \/ BeginReset(t)

Statement ==
    \/ SelectActive \/ (\E t \in TokenIds : FindActive(t)) \/ UpdateReplaced \/ InsertToken
    \/ SelectToCancel \/ SelectToVerify \/ SelectForUpdate \/ UpdateUser
    \/ FindToken \/ UpdateToken
    \/ Commit

LateEnds == \E x \in late : LateCommit(x) \/ LateAbort(x)

Next ==
    \/ Begins \/ Statement \/ CommitLost \/ Refuse
    \/ \E t \in TokenIds : CannotCancel(t) \/ MailReplyFinished(t)
    \/ LateEnds
    \/ Crash
    \/ Start

Spec == Init /\ [][Next]_vars

-----------------------------------------------------------------------------
(* Properties *)

\* An account has at most one active token in every committed state, whatever
\* order late transactions end in: what the partial unique index is for
\* (DbModels.h:105).
OneActive ==
    \A s, t \in DOMAIN rows : Active(rows[s]) /\ Active(rows[t]) => s = t

\* A token sets the password at most once, even when the COMMIT of a first try
\* is late and the client tries again: what FOR UPDATE is for.
UsedOnce == \A t \in TokenIds : uses[t] <= 1

\* What a client was told of lasts: a password that was changed has used its
\* token up, and a token that was verified stays so until it is replaced.
ToldIsKept ==
    \A t \in TokenIds :
        /\ <<t, "verified">> \in told => rows[t] \cap {"verified", "replaced"} # {}
        /\ <<t, "changed">> \in told => "used" \in rows[t]

\* A use that is on record is one of a verified token whose mail did not fail,
\* and no newer than the password.  The token that set the password shows it, or
\* was replaced by an operation that had read its row before: then the date of
\* the use is lost (PgDatabase.cpp:428-431), and the token is dead all the same.
UseOnRecord ==
    /\ \A t \in DOMAIN rows :
        "used" \in rows[t] =>
            "verified" \in rows[t] /\ "email_failed" \notin rows[t] /\ t <= password
    /\ password # 0 =>
        password \in DOMAIN rows /\ rows[password] \cap {"used", "replaced"} # {}

\* The transactions implement ResetPolicy, whenever late ones end: the password
\* is changed by a confirmed reset only, which the change spends, and a token
\* that has died is not brought back by a row that was read before.
Account == {"account"}
Stage ==
    IF \E t \in DOMAIN rows : Active(rows[t])
    THEN IF \E t \in DOMAIN rows : Active(rows[t]) /\ "verified" \in rows[t]
         THEN "confirmed" ELSE "asked"
    ELSE "none"
Policy == INSTANCE ResetPolicy WITH
    Accounts <- Account,
    Passwords <- TokenIds,
    FirstPassword <- 0,
    stage <- [a \in Account |-> Stage],
    password <- [a \in Account |-> password]
TransactionsKeepPolicy == Policy!Spec

\* The password never goes back to one set through an older token, which a
\* newer one has replaced.
NewestWins == [][password <= password']_password

\* The dates a token once had it keeps, "for audit" (README.md:7-10).  Refuted:
\* an operation that has read a row before a late transaction changes it writes
\* the whole row back as it was.
AuditTrail == [][\A t \in DOMAIN rows : rows[t] \subseteq rows'[t]]_rows
=============================================================================
