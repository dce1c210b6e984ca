---------------------------- MODULE PasswordReset ----------------------------
(***************************************************************************)
(* Password recovery: the operations of PgDatabase on users and            *)
(* password_reset_tokens, the handlers of main() that call them and the    *)
(* mail client.  One server process runs one handler at a time and each    *)
(* operation changes the tables in one transaction, so an action is one    *)
(* handler.  What may come between two handlers: other handlers, a reply   *)
(* of the mail service, the clock, a crash of the process.  A transaction  *)
(* that fails changes nothing, and a connection that breaks during COMMIT  *)
(* leaves a transaction committed that the server takes for failed.        *)
(*                                                                         *)
(* Such a transaction takes effect here before the next operation starts.  *)
(* In the code it may also do so later, between the statements of other    *)
(* operations: that is module PasswordResetTx.  The properties below are   *)
(* those that late transactions leave true, but for AuditTrail, which      *)
(* shows that each operation by itself keeps the dates.                    *)
(*                                                                         *)
(* Abstracted: hashes (a token is found by the row it was made for, as     *)
(* tokens are 256 random bits), the texts, and the code, which the client  *)
(* gets right or wrong; a wrong one changes nothing.  The clocks of the    *)
(* server and of PostgreSQL agree and the session's time zone is UTC.      *)
(***************************************************************************)
EXTENDS Naturals, Sequences

CONSTANTS Users,       \* accounts: a login with its email
          Lifetime,    \* validity of a token (24 hours in the code)
          MaxTime,     \* bound: the last date
          MaxTokens    \* bound: rows of password_reset_tokens

ASSUME ResetAssumption ==
    Lifetime \in Nat /\ MaxTime \in Nat /\ MaxTokens \in Nat

Time == 0..MaxTime
TokenIds == 1..MaxTokens

\* A nullable date: {} is NULL.
NULL == {}
Nullable == {NULL} \cup {{d} : d \in Time}

\* DbPasswordResetToken without the hashes; expires_at is created_at + Lifetime.
Row == [user : Users, created_at : Time, verified_at : Nullable,
        cancelled_at : Nullable, replaced_at : Nullable, used_at : Nullable,
        email_failed_at : Nullable]

VARIABLES
    now,        \* the clock
    users,      \* the accounts in table users
    password,   \* password[u]: the id of the token that set it, 0 at registration
    rows,       \* table password_reset_tokens in id order
    mail,       \* tokens whose HTTP post has not finished
    posted,     \* [sent, failed]: tokens with a mail signal in the event queue
    told        \* history: <<token, success>> reported to a client

vars == <<now, users, password, rows, mail, posted, told>>

Successes == {"sent", "verified", "changed"}

TypeOK ==
    /\ now \in Time
    /\ users \subseteq Users
    /\ password \in [Users -> 0..MaxTokens]
    /\ rows \in Seq(Row) /\ Len(rows) <= MaxTokens
    /\ mail \subseteq DOMAIN rows
    /\ posted \in [sent : SUBSET DOMAIN rows, failed : SUBSET DOMAIN rows]
    /\ told \subseteq (DOMAIN rows) \X Successes

Init ==
    /\ now = 0
    /\ users = {}
    /\ password = [u \in Users |-> 0]
    /\ rows = <<>>
    /\ mail = {}
    /\ posted = [sent |-> {}, failed |-> {}]
    /\ told = {}

\* The predicate of the index password_reset_tokens_one_active_per_user, which
\* the queries repeat.
Active(r) ==
    /\ r.cancelled_at = NULL
    /\ r.replaced_at = NULL
    /\ r.used_at = NULL
    /\ r.email_failed_at = NULL

\* expires_at > CURRENT_TIMESTAMP
NotExpired(r) == now < r.created_at + Lifetime

\* A success is reported, or the answer of the database or the client was lost.
Tells(t, success) == told' \in {told, told \cup {<<t, success>>}}

-----------------------------------------------------------------------------
(* Operations of PgDatabase *)

RegisterUser(u) ==
    /\ u \notin users
    /\ users' = users \cup {u}
    /\ UNCHANGED <<now, password, rows, mail, posted, told>>

\* DbPasswordResetToken's constructor
NewRow(u) ==
    [user |-> u, created_at |-> now, verified_at |-> NULL, cancelled_at |-> NULL,
     replaced_at |-> NULL, used_at |-> NULL, email_failed_at |-> NULL]

\* Faulty variant: rows that have expired are taken for inactive.
ReplaceUnexpired(u) ==
    [t \in DOMAIN rows |->
        IF rows[t].user = u /\ Active(rows[t]) /\ NotExpired(rows[t])
        THEN [rows[t] EXCEPT !.replaced_at = {now}]
        ELSE rows[t]]

\* Every active token of the user gets markReplaced, expired or not.
ReplaceActive(u) ==
    [t \in DOMAIN rows |->
        IF rows[t].user = u /\ Active(rows[t])
        THEN [rows[t] EXCEPT !.replaced_at = {now}]
        ELSE rows[t]]

\* Faulty variant: the mail is posted although the transaction was rolled back.
MailWithoutCommit(u) ==
    /\ u \in users
    /\ Len(rows) < MaxTokens
    /\ rows' \in {rows, Append(ReplaceActive(u), NewRow(u))}
    /\ mail' = mail \cup {Len(rows) + 1}
    /\ UNCHANGED <<now, users, password, posted, told>>

\* createPasswordReset and the post that follows it.  Without the post, the
\* server took the commit for failed or died after it.  The unique index is no
\* guard here: with no late transaction about, OnlyNewestActive shows that there
\* is nothing for it to refuse.  PasswordResetTx has the statements between which
\* a late one may commit: the query, find and update of each active token, the
\* insertion and the index.
CreatePasswordReset(u) ==
    /\ u \in users
    /\ Len(rows) < MaxTokens
    /\ rows' = Append(ReplaceActive(u), NewRow(u))
    /\ mail' \in {mail, mail \cup {Len(rows) + 1}}
    /\ UNCHANGED <<now, users, password, posted, told>>

\* Faulty variant: a failed mail is recorded as a replacement.
CancelAsReplaced(t) ==
    IF rows[t].replaced_at = NULL /\ rows[t].used_at = NULL
    THEN [rows EXCEPT ![t].cancelled_at = {now}, ![t].replaced_at = {now}]
    ELSE rows

\* cancelPasswordReset leaves replaced and used tokens alone.  (Its SELECT, find
\* and update are one step here: see PasswordResetTx for a token that is replaced
\* between them.)
CancelPasswordReset(t) ==
    IF rows[t].replaced_at = NULL /\ rows[t].used_at = NULL
    THEN [rows EXCEPT ![t].cancelled_at = {now}, ![t].email_failed_at = {now}]
    ELSE rows

\* Faulty variant: alreadyVerified is ignored, the row is marked anew.
MarkVerifiedAgain(t) ==
    /\ <<t, "sent">> \in told
    /\ Active(rows[t]) /\ NotExpired(rows[t])
    /\ rows' = [rows EXCEPT ![t].verified_at = {now}]
    /\ Tells(t, "verified")
    /\ UNCHANGED <<now, users, password, mail, posted>>

\* Faulty variant: success is reported though the commit may have failed.
VerifyWithoutCommit(t) ==
    /\ <<t, "sent">> \in told
    /\ Active(rows[t]) /\ NotExpired(rows[t])
    /\ rows' \in {rows, [rows EXCEPT ![t].verified_at = {now}]}
    /\ Tells(t, "verified")
    /\ UNCHANGED <<now, users, password, mail, posted>>

\* verifyPasswordReset with the right code, or with any code once verified.
VerifyPasswordReset(t) ==
    /\ <<t, "sent">> \in told
    /\ Active(rows[t]) /\ NotExpired(rows[t])
    /\ rows' = IF rows[t].verified_at = NULL
               THEN [rows EXCEPT ![t].verified_at = {now}]
               ELSE rows
    /\ Tells(t, "verified")
    /\ UNCHANGED <<now, users, password, mail, posted>>

\* Faulty variant: the token is not marked used.
ResetWithoutMark(t) ==
    /\ <<t, "sent">> \in told
    /\ Active(rows[t]) /\ NotExpired(rows[t])
    /\ rows[t].verified_at # NULL
    /\ password' = [password EXCEPT ![rows[t].user] = t]
    /\ Tells(t, "changed")
    /\ UNCHANGED <<now, users, rows, mail, posted>>

\* resetPassword: the password and used_at change in one transaction.  (If its
\* COMMIT is lost it has ended before the next operation reads the row: see
\* PasswordResetTx for one that ends later.)
ResetPassword(t) ==
    /\ <<t, "sent">> \in told
    /\ Active(rows[t]) /\ NotExpired(rows[t])
    /\ rows[t].verified_at # NULL
    /\ password' = [password EXCEPT ![rows[t].user] = t]
    /\ rows' = [rows EXCEPT ![t].used_at = {now}]
    /\ Tells(t, "changed")
    /\ UNCHANGED <<now, users, mail, posted>>

-----------------------------------------------------------------------------
(* The mail client and the handlers of its signals *)

\* The lambda on QNetworkReply::finished emits one of the two signals.
MailReplyFinished(t) ==
    /\ t \in mail
    /\ mail' = mail \ {t}
    /\ posted' \in {[posted EXCEPT !.sent = @ \cup {t}],
                    [posted EXCEPT !.failed = @ \cup {t}]}
    /\ UNCHANGED <<now, users, password, rows, told>>

\* passwordResetMailSent: the token goes to the client, if it is still there.
PasswordResetMailSent(t) ==
    /\ t \in posted.sent
    /\ posted' = [posted EXCEPT !.sent = @ \ {t}]
    /\ Tells(t, "sent")
    /\ UNCHANGED <<now, users, password, rows, mail>>

\* passwordResetMailFailed: the row is cancelled, or the database fails and only
\* a warning is logged.
PasswordResetMailFailed(t) ==
    /\ t \in posted.failed
    /\ posted' = [posted EXCEPT !.failed = @ \ {t}]
    /\ rows' \in {rows, CancelPasswordReset(t)}
    /\ UNCHANGED <<now, users, password, mail, told>>

\* The process dies and is started again: what it held in memory is gone.
Restart ==
    /\ mail' = {}
    /\ posted' = [sent |-> {}, failed |-> {}]
    /\ UNCHANGED <<now, users, password, rows, told>>

Tick ==
    /\ now < MaxTime
    /\ now' = now + 1
    /\ UNCHANGED <<users, password, rows, mail, posted, told>>

Next ==
    \/ \E u \in Users : RegisterUser(u) \/ CreatePasswordReset(u)
    \/ \E t \in DOMAIN rows :
        \/ MailReplyFinished(t)
        \/ PasswordResetMailSent(t)
        \/ PasswordResetMailFailed(t)
        \/ VerifyPasswordReset(t)
        \/ ResetPassword(t)
    \/ Restart
    \/ Tick

Spec == Init /\ [][Next]_vars

-----------------------------------------------------------------------------
(* Properties *)

\* An active token is the newest of its user, through failed commits, late mail
\* replies and restarts: no older token can act again.  So there is nothing the
\* unique index could hold against a new token, and nobody is locked out of
\* recovery (while a createPasswordReset is late, the index refuses the next).
OnlyNewestActive ==
    \A t, s \in DOMAIN rows :
        Active(rows[t]) /\ rows[s].user = rows[t].user => s <= t

\* A replaced row has its successor in the table: a later row of the same user,
\* made at the very date of the replacement.  A replacement is never committed
\* without the token that replaces it.
ReplacedBySuccessor ==
    \A t \in DOMAIN rows : \A d \in rows[t].replaced_at :
        \E s \in DOMAIN rows :
            s > t /\ rows[s].user = rows[t].user /\ rows[s].created_at = d

\* A success a client was told of is in the database, whatever crashed since, a
\* verified token at least until it is replaced; and a client who was handed a
\* token never has it voided by a mail failure.
ToldIsTrue ==
    \A t \in DOMAIN rows :
        /\ <<t, "sent">> \in told => rows[t].email_failed_at = NULL
        /\ <<t, "verified">> \in told =>
            rows[t].verified_at # NULL \/ rows[t].replaced_at # NULL
        /\ <<t, "changed">> \in told => rows[t].used_at # NULL

\* README lines 7-10: rows are never deleted, and the dates of creation,
\* replacement, cancellation, mail failure, verification and use are kept.  True
\* of each operation by itself; beside a late transaction the dates may be lost
\* (AuditTrail of PasswordResetTx, which the code refutes).
Kept(old, new) == old # NULL => new = old
AuditTrail ==
    [][/\ Len(rows) <= Len(rows')
       /\ \A t \in DOMAIN rows :
            /\ rows'[t].user = rows[t].user
            /\ rows'[t].created_at = rows[t].created_at
            /\ Kept(rows[t].verified_at, rows'[t].verified_at)
            /\ Kept(rows[t].cancelled_at, rows'[t].cancelled_at)
            /\ Kept(rows[t].replaced_at, rows'[t].replaced_at)
            /\ Kept(rows[t].used_at, rows'[t].used_at)
            /\ Kept(rows[t].email_failed_at, rows'[t].email_failed_at)]_rows

\* The tokens implement ResetPolicy: one reset per account, confirmed before it
\* changes the password, spent by the change, restarted by a new request.
Stage(u) ==
    IF \E t \in DOMAIN rows : rows[t].user = u /\ Active(rows[t])
    THEN IF \E t \in DOMAIN rows : /\ rows[t].user = u
                                   /\ Active(rows[t])
                                   /\ rows[t].verified_at # NULL
         THEN "confirmed" ELSE "asked"
    ELSE "none"
Policy == INSTANCE ResetPolicy WITH
    Accounts <- Users,
    Passwords <- TokenIds,
    FirstPassword <- 0,
    stage <- [u \in Users |-> Stage(u)]
KeepsPolicy == Policy!Spec

=============================================================================
