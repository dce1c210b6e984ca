------------------------ MODULE PasswordReset_proofs ------------------------
(***************************************************************************)
(* Type correctness and the safety properties of PasswordReset, for every  *)
(* set of accounts, lifetime and bound.  First what the two kinds of       *)
(* writes do to the table (an update of one row, a creation), then the     *)
(* inductive invariant, one conjunct after the other, then what it shows:  *)
(* the properties, the audit trail, and that ResetPolicy is implemented.   *)
(***************************************************************************)
EXTENDS PasswordReset, TLAPS

\* What the three operations make of the row they update.
Cancelled(r) == [r EXCEPT !.cancelled_at = {now}, !.email_failed_at = {now}]
Verified(r) == [r EXCEPT !.verified_at = {now}]
Used(r) == [r EXCEPT !.used_at = {now}]
Replaced(r) == [r EXCEPT !.replaced_at = {now}]

\* A mark changes its own columns and no other.
LEMMA MarkFields ==
    ASSUME NEW r \in Row, now \in Time
    PROVE  /\ Cancelled(r) \in Row
           /\ Cancelled(r).user = r.user
           /\ Cancelled(r).created_at = r.created_at
           /\ Cancelled(r).verified_at = r.verified_at
           /\ Cancelled(r).cancelled_at = {now}
           /\ Cancelled(r).replaced_at = r.replaced_at
           /\ Cancelled(r).used_at = r.used_at
           /\ Cancelled(r).email_failed_at = {now}
           /\ Verified(r) \in Row
           /\ Verified(r).user = r.user
           /\ Verified(r).created_at = r.created_at
           /\ Verified(r).verified_at = {now}
           /\ Verified(r).cancelled_at = r.cancelled_at
           /\ Verified(r).replaced_at = r.replaced_at
           /\ Verified(r).used_at = r.used_at
           /\ Verified(r).email_failed_at = r.email_failed_at
           /\ Used(r) \in Row
           /\ Used(r).user = r.user
           /\ Used(r).created_at = r.created_at
           /\ Used(r).verified_at = r.verified_at
           /\ Used(r).cancelled_at = r.cancelled_at
           /\ Used(r).replaced_at = r.replaced_at
           /\ Used(r).used_at = {now}
           /\ Used(r).email_failed_at = r.email_failed_at
           /\ Replaced(r) \in Row
           /\ Replaced(r).user = r.user
           /\ Replaced(r).created_at = r.created_at
           /\ Replaced(r).verified_at = r.verified_at
           /\ Replaced(r).cancelled_at = r.cancelled_at
           /\ Replaced(r).replaced_at = {now}
           /\ Replaced(r).used_at = r.used_at
           /\ Replaced(r).email_failed_at = r.email_failed_at
<1>1. {now} \in Nullable
    BY DEF Nullable
<1> QED
    BY <1>1 DEF Row, Cancelled, Verified, Used, Replaced

\* An update of one row leaves the others and the length alone.
LEMMA UpdateRow ==
    ASSUME TypeOK, NEW t \in DOMAIN rows, NEW r \in Row,
           rows' = [rows EXCEPT ![t] = r]
    PROVE  /\ rows' \in Seq(Row)
           /\ Len(rows') = Len(rows)
           /\ DOMAIN rows' = DOMAIN rows
           /\ rows'[t] = r
           /\ \A s \in DOMAIN rows : s # t => rows'[s] = rows[s]
    BY DEF TypeOK

\* A creation appends one row and marks the active ones of its user.
LEMMA CreateRow ==
    ASSUME TypeOK, NEW u \in Users,
           rows' = Append(ReplaceActive(u), NewRow(u))
    PROVE  /\ rows' \in Seq(Row)
           /\ Len(rows') = Len(rows) + 1
           /\ DOMAIN rows' = (DOMAIN rows) \cup {Len(rows) + 1}
           /\ Len(rows) + 1 \notin DOMAIN rows
           /\ rows'[Len(rows) + 1] = NewRow(u)
           /\ \A s \in DOMAIN rows :
                rows'[s] = IF rows[s].user = u /\ Active(rows[s])
                           THEN Replaced(rows[s]) ELSE rows[s]
<1> DEFINE old == ReplaceActive(u)
<1>1. /\ DOMAIN rows = 1..Len(rows) /\ Len(rows) \in Nat
      /\ \A s \in DOMAIN rows : rows[s] \in Row
    BY DEF TypeOK
<1>2. now \in Time
    BY DEF TypeOK
<1>3. NewRow(u) \in Row
    BY <1>2 DEF NewRow, Row, Nullable, NULL
<1>4. /\ DOMAIN old = 1..Len(rows)
      /\ \A s \in 1..Len(rows) :
            old[s] = IF rows[s].user = u /\ Active(rows[s])
                     THEN Replaced(rows[s]) ELSE rows[s]
    BY <1>1 DEF ReplaceActive, Replaced
<1>5. \A s \in 1..Len(rows) : old[s] \in Row
    BY <1>1, <1>2, <1>4, MarkFields
<1>6. old = [s \in 1..Len(rows) |-> old[s]]
    BY <1>1 DEF ReplaceActive
<1> HIDE DEF old
<1>7. old \in Seq(Row) /\ Len(old) = Len(rows)
    BY <1>1, <1>4, <1>5, <1>6
<1>8. rows' = Append(old, NewRow(u))
    BY DEF old
<1>9. /\ rows' \in Seq(Row)
      /\ Len(rows') = Len(rows) + 1
      /\ rows'[Len(rows) + 1] = NewRow(u)
      /\ \A s \in 1..Len(rows) : rows'[s] = old[s]
    BY <1>1, <1>3, <1>7, <1>8
<1>10. DOMAIN rows' = (DOMAIN rows) \cup {Len(rows) + 1}
    BY <1>1, <1>9
<1> QED
    BY <1>1, <1>4, <1>9, <1>10

\* The new row of a creation is active and carries no date but its creation.
LEMMA NewRowFields ==
    ASSUME NEW u \in Users
    PROVE  /\ NewRow(u).user = u /\ NewRow(u).created_at = now
           /\ NewRow(u).verified_at = NULL /\ NewRow(u).cancelled_at = NULL
           /\ NewRow(u).replaced_at = NULL /\ NewRow(u).used_at = NULL
           /\ NewRow(u).email_failed_at = NULL
           /\ Active(NewRow(u))
    BY DEF NewRow, Active

-----------------------------------------------------------------------------
(* What a step does to the table *)

CancelStep(t) == rows' = [rows EXCEPT ![t] = Cancelled(rows[t])]
VerifyStep(t) == rows' = [rows EXCEPT ![t] = Verified(rows[t])]
UseStep(t) == rows' = [rows EXCEPT ![t] = Used(rows[t])]

\* A mail failure leaves the table or cancels a row neither replaced nor used.
LEMMA CancelWrites ==
    ASSUME TypeOK, NEW t \in DOMAIN rows, PasswordResetMailFailed(t)
    PROVE  \/ rows' = rows
           \/ rows[t].replaced_at = NULL /\ rows[t].used_at = NULL /\ CancelStep(t)
<1>1. rows[t] \in Row
    BY DEF TypeOK
<1>2. rows' = rows \/ rows' = CancelPasswordReset(t)
    BY DEF PasswordResetMailFailed
<1> QED
    BY <1>1, <1>2 DEF CancelPasswordReset, CancelStep, Cancelled

\* A verification leaves the table or marks an unverified row.
LEMMA VerifyWrites ==
    ASSUME TypeOK, NEW t \in DOMAIN rows, VerifyPasswordReset(t)
    PROVE  \/ rows[t].verified_at # NULL /\ rows' = rows
           \/ rows[t].verified_at = NULL /\ VerifyStep(t)
    BY DEF VerifyPasswordReset, VerifyStep, Verified

\* A password update marks its row used.
LEMMA UseWrites ==
    ASSUME TypeOK, NEW t \in DOMAIN rows, ResetPassword(t)
    PROVE  UseStep(t)
    BY DEF ResetPassword, UseStep, Used

\* Everything else than these and a creation leaves the table alone.
LEMMA OtherWrites ==
    ASSUME NEW t,
           \/ \E u \in Users : RegisterUser(u)
           \/ MailReplyFinished(t) \/ PasswordResetMailSent(t)
           \/ Restart \/ Tick \/ UNCHANGED vars
    PROVE  rows' = rows
    BY DEF RegisterUser, MailReplyFinished, PasswordResetMailSent, Restart, Tick, vars

-----------------------------------------------------------------------------
(* Type correctness *)

\* Every step keeps every variable of PasswordReset in its type.
LEMMA TypeStep == TypeOK /\ [Next]_vars => TypeOK'
<1> SUFFICES ASSUME TypeOK, [Next]_vars PROVE TypeOK'
    OBVIOUS
<1>0. Len(rows) \in Nat /\ DOMAIN rows = 1..Len(rows) /\ now \in Time
    BY DEF TypeOK
<1>1. ASSUME NEW u \in Users, RegisterUser(u) PROVE TypeOK'
    BY <1>1 DEF RegisterUser, TypeOK
<1>2. ASSUME NEW u \in Users, CreatePasswordReset(u) PROVE TypeOK'
    <2>1. /\ rows' \in Seq(Row)
          /\ Len(rows') = Len(rows) + 1
          /\ DOMAIN rows' = (DOMAIN rows) \cup {Len(rows) + 1}
        BY <1>2, CreateRow DEF CreatePasswordReset
    <2>2. Len(rows') <= MaxTokens
        BY <1>0, <1>2, <2>1, ResetAssumption DEF CreatePasswordReset
    <2>3. mail' \subseteq DOMAIN rows'
        BY <1>2, <2>1 DEF CreatePasswordReset, TypeOK
    <2>4. posted' \in [sent : SUBSET DOMAIN rows', failed : SUBSET DOMAIN rows']
        BY <1>2, <2>1 DEF CreatePasswordReset, TypeOK
    <2>5. told' \subseteq (DOMAIN rows') \X Successes
        BY <1>2, <2>1 DEF CreatePasswordReset, TypeOK
    <2> QED
        BY <1>2, <2>1, <2>2, <2>3, <2>4, <2>5 DEF CreatePasswordReset, TypeOK
<1>3. ASSUME NEW t \in DOMAIN rows, MailReplyFinished(t) PROVE TypeOK'
    BY <1>3, SMTT(40) DEF MailReplyFinished, TypeOK
<1>4. ASSUME NEW t \in DOMAIN rows, PasswordResetMailSent(t) PROVE TypeOK'
    <2>1. told' \subseteq (DOMAIN rows) \X Successes
        BY <1>4 DEF PasswordResetMailSent, Tells, Successes, TypeOK
    <2> QED
        BY <1>4, <2>1 DEF PasswordResetMailSent, TypeOK
<1>5. ASSUME NEW t \in DOMAIN rows, PasswordResetMailFailed(t) PROVE TypeOK'
    <2>1. /\ rows' \in Seq(Row) /\ Len(rows') <= MaxTokens
          /\ DOMAIN rows' = DOMAIN rows
        BY <1>0, <1>5, CancelWrites, UpdateRow, MarkFields, SMTT(40) DEF CancelStep, TypeOK
    <2> QED
        BY <1>5, <2>1 DEF PasswordResetMailFailed, TypeOK
<1>6. ASSUME NEW t \in DOMAIN rows, VerifyPasswordReset(t) PROVE TypeOK'
    <2>1. /\ rows' \in Seq(Row) /\ Len(rows') <= MaxTokens
          /\ DOMAIN rows' = DOMAIN rows
        BY <1>0, <1>6, VerifyWrites, UpdateRow, MarkFields DEF VerifyStep, TypeOK
    <2>2. told' \subseteq (DOMAIN rows) \X Successes
        BY <1>6 DEF VerifyPasswordReset, Tells, Successes, TypeOK
    <2> QED
        BY <1>6, <2>1, <2>2 DEF VerifyPasswordReset, TypeOK
<1>7. ASSUME NEW t \in DOMAIN rows, ResetPassword(t) PROVE TypeOK'
    <2>1. /\ rows' \in Seq(Row) /\ Len(rows') <= MaxTokens
          /\ DOMAIN rows' = DOMAIN rows
        BY <1>0, <1>7, UseWrites, UpdateRow, MarkFields DEF UseStep, TypeOK
    <2>2. told' \subseteq (DOMAIN rows) \X Successes
        BY <1>7 DEF ResetPassword, Tells, Successes, TypeOK
    <2>3. password' \in [Users -> 0..MaxTokens]
        <3>1. t \in 0..MaxTokens
            BY <1>0, ResetAssumption DEF TypeOK
        <3> QED
            BY <1>7, <3>1 DEF ResetPassword, TypeOK
    <2> QED
        BY <1>7, <2>1, <2>2, <2>3 DEF ResetPassword, TypeOK
<1>8. CASE Restart
    BY <1>8 DEF Restart, TypeOK
<1>9. CASE Tick
    BY <1>0, <1>9, ResetAssumption DEF Tick, TypeOK, Time
<1>10. CASE UNCHANGED vars
    BY <1>10 DEF vars, TypeOK
<1> QED
    BY <1>1, <1>2, <1>3, <1>4, <1>5, <1>6, <1>7, <1>8, <1>9, <1>10 DEF Next

\* The variables keep their types in every reachable state.
THEOREM TypeCorrect == Spec => []TypeOK
<1>1. Init => TypeOK
    BY ResetAssumption DEF Init, TypeOK, Time
<1> QED
    BY <1>1, TypeStep, PTL DEF Spec

-----------------------------------------------------------------------------
(* The five kinds of step, as far as the table is concerned *)

\* A step leaves the table, creates a token or marks one row.
LEMMA TableSteps ==
    ASSUME TypeOK, [Next]_vars
    PROVE  \/ rows' = rows
           \/ \E u \in Users : CreatePasswordReset(u)
           \/ \E t \in DOMAIN rows : /\ PasswordResetMailFailed(t)
                                     /\ rows[t].replaced_at = NULL
                                     /\ rows[t].used_at = NULL
                                     /\ CancelStep(t)
           \/ \E t \in DOMAIN rows : /\ VerifyPasswordReset(t)
                                     /\ rows[t].verified_at = NULL
                                     /\ VerifyStep(t)
           \/ \E t \in DOMAIN rows : ResetPassword(t) /\ UseStep(t)
<1>1. ASSUME NEW t \in DOMAIN rows, PasswordResetMailFailed(t)
      PROVE  \/ rows' = rows
             \/ /\ rows[t].replaced_at = NULL
                /\ rows[t].used_at = NULL
                /\ CancelStep(t)
    BY <1>1, CancelWrites
<1>2. ASSUME NEW t \in DOMAIN rows, VerifyPasswordReset(t)
      PROVE  rows' = rows \/ (rows[t].verified_at = NULL /\ VerifyStep(t))
    BY <1>2, VerifyWrites
<1>3. ASSUME NEW t \in DOMAIN rows, ResetPassword(t) PROVE UseStep(t)
    BY <1>3, UseWrites
<1>4. CASE UNCHANGED vars
    BY <1>4 DEF vars
<1>5. CASE Next
    BY <1>1, <1>2, <1>3, <1>5, OtherWrites DEF Next
<1> QED
    BY <1>4, <1>5

\* A marked row keeps its user and its dates of creation and replacement, and no
\* mark makes a row active again.
LEMMA MarkedRow ==
    ASSUME TypeOK, NEW t \in DOMAIN rows, NEW r \in Row,
           r \in {Cancelled(rows[t]), Verified(rows[t]), Used(rows[t])},
           rows' = [rows EXCEPT ![t] = r]
    PROVE  /\ DOMAIN rows' = DOMAIN rows
           /\ \A s \in DOMAIN rows : /\ rows'[s].user = rows[s].user
                                     /\ rows'[s].created_at = rows[s].created_at
                                     /\ rows'[s].replaced_at = rows[s].replaced_at
                                     /\ Active(rows'[s]) => Active(rows[s])
<1>1. rows[t] \in Row /\ now \in Time /\ {now} # NULL
    BY DEF TypeOK, NULL
<1>2. DOMAIN rows' = DOMAIN rows /\ rows'[t] = r
      /\ \A s \in DOMAIN rows : s # t => rows'[s] = rows[s]
    BY UpdateRow
<1>3. /\ r.user = rows[t].user /\ r.created_at = rows[t].created_at
      /\ r.replaced_at = rows[t].replaced_at
    BY <1>1, MarkFields
<1>4. Active(r) => Active(rows[t])
    BY <1>1, MarkFields DEF Active
<1> QED
    BY <1>2, <1>3, <1>4

-----------------------------------------------------------------------------
(* The inductive invariant: the properties, and where a token's mail is *)

\* An end of a row: it is replaced, used, or its mail fails, and is used only
\* once verified.  (True where no transaction is late: PasswordResetTx has those
\* that give a row two ends.)
Ending(r) ==
    /\ r.replaced_at = NULL \/ r.used_at = NULL
    /\ r.replaced_at = NULL \/ r.email_failed_at = NULL
    /\ r.used_at = NULL \/ r.email_failed_at = NULL
    /\ r.cancelled_at = r.email_failed_at
    /\ r.used_at # NULL => r.verified_at # NULL
OneEnding == \A t \in DOMAIN rows : Ending(rows[t])

\* The mail of a token is in one place: under way, or answered and posted, or
\* reported to the client; until then its row bears no mail failure.
MailInv ==
    /\ mail \cap posted.sent = {}
    /\ mail \cap posted.failed = {}
    /\ posted.sent \cap posted.failed = {}
    /\ \A t \in mail \cup posted.sent \cup posted.failed :
            <<t, "sent">> \notin told /\ rows[t].email_failed_at = NULL

IInv == /\ TypeOK
        /\ OnlyNewestActive
        /\ OneEnding
        /\ ReplacedBySuccessor
        /\ MailInv
        /\ ToldIsTrue

\* Replacement leaves no active row behind, and marks never make one active.
LEMMA NewestStep == TypeOK /\ OnlyNewestActive /\ [Next]_vars => OnlyNewestActive'
<1> SUFFICES ASSUME TypeOK, OnlyNewestActive, [Next]_vars
             PROVE  OnlyNewestActive'
    OBVIOUS
<1>0. DOMAIN rows = 1..Len(rows) /\ Len(rows) \in Nat /\ now \in Time
      /\ \A s \in DOMAIN rows : rows[s] \in Row
    BY DEF TypeOK
<1>1. ASSUME NEW u \in Users, CreatePasswordReset(u) PROVE OnlyNewestActive'
    <2> DEFINE new == Len(rows) + 1
    <2>1. /\ DOMAIN rows' = (DOMAIN rows) \cup {new}
          /\ rows'[new] = NewRow(u)
          /\ \A s \in DOMAIN rows :
                rows'[s] = IF rows[s].user = u /\ Active(rows[s])
                           THEN Replaced(rows[s]) ELSE rows[s]
        BY <1>1, CreateRow DEF CreatePasswordReset
    <2>2. \A s \in DOMAIN rows : rows'[s].user = rows[s].user
        BY <1>0, <2>1, MarkFields
    <2>3. \A s \in DOMAIN rows :
            Active(rows'[s]) => Active(rows[s]) /\ rows[s].user # u
        <3> SUFFICES ASSUME NEW s \in DOMAIN rows, Active(rows'[s])
                     PROVE  Active(rows[s]) /\ rows[s].user # u
            OBVIOUS
        <3>1. ~Active(Replaced(rows[s]))
            BY <1>0, MarkFields DEF Active, NULL
        <3> QED
            BY <2>1, <3>1
    <2>4. NewRow(u).user = u
        BY NewRowFields
    <2>5. \A s \in DOMAIN rows : s <= new
        BY <1>0
    <2>6. new <= new
        BY <1>0
    <2>7. ASSUME NEW t \in DOMAIN rows', NEW s \in DOMAIN rows',
                 Active(rows'[t]), rows'[s].user = rows'[t].user
          PROVE  s <= t
        <3>1. CASE t = new
            BY <2>1, <2>5, <2>6, <3>1
        <3>2. CASE t \in DOMAIN rows
            <4>1. s # new
                BY <2>1, <2>2, <2>3, <2>4, <2>7, <3>2
            <4> QED
                BY <2>1, <2>2, <2>3, <2>7, <3>2, <4>1 DEF OnlyNewestActive
        <3> QED
            BY <2>1, <3>1, <3>2
    <2> QED
        BY <2>7 DEF OnlyNewestActive
<1>2. ASSUME NEW t \in DOMAIN rows, CancelStep(t) \/ VerifyStep(t) \/ UseStep(t)
      PROVE  OnlyNewestActive'
    <2>1. PICK r \in {Cancelled(rows[t]), Verified(rows[t]), Used(rows[t])} :
            rows' = [rows EXCEPT ![t] = r]
        BY <1>2 DEF CancelStep, VerifyStep, UseStep
    <2>2. r \in Row
        BY <1>0, MarkFields
    <2>3. /\ DOMAIN rows' = DOMAIN rows
          /\ \A s \in DOMAIN rows : /\ rows'[s].user = rows[s].user
                                    /\ Active(rows'[s]) => Active(rows[s])
        BY <2>1, <2>2, MarkedRow
    <2> QED
        BY <2>3 DEF OnlyNewestActive
<1>3. CASE rows' = rows
    BY <1>3 DEF OnlyNewestActive, Active
<1> QED
    BY <1>1, <1>2, <1>3, TableSteps

LEMMA EndingStep == TypeOK /\ OneEnding /\ [Next]_vars => OneEnding'
<1> SUFFICES ASSUME TypeOK, OneEnding, [Next]_vars PROVE OneEnding'
    OBVIOUS
<1>0. now \in Time /\ {now} # NULL
      /\ \A s \in DOMAIN rows : rows[s] \in Row /\ Ending(rows[s])
    BY DEF TypeOK, NULL, OneEnding
<1>e. SUFFICES \A s \in DOMAIN rows' : Ending(rows'[s])
    BY DEF OneEnding
<1>1. ASSUME NEW u \in Users, CreatePasswordReset(u)
      PROVE  \A s \in DOMAIN rows' : Ending(rows'[s])
    <2>1. /\ DOMAIN rows' = (DOMAIN rows) \cup {Len(rows) + 1}
          /\ rows'[Len(rows) + 1] = NewRow(u)
          /\ \A s \in DOMAIN rows :
                rows'[s] = IF rows[s].user = u /\ Active(rows[s])
                           THEN Replaced(rows[s]) ELSE rows[s]
        BY <1>1, CreateRow DEF CreatePasswordReset
    <2>2. Ending(NewRow(u))
        BY NewRowFields DEF Ending
    <2>3. \A s \in DOMAIN rows : Active(rows[s]) => Ending(Replaced(rows[s]))
        BY <1>0, MarkFields DEF Ending, Active
    <2> QED
        BY <1>0, <2>1, <2>2, <2>3
<1>2. ASSUME NEW t \in DOMAIN rows, rows[t].replaced_at = NULL,
             rows[t].used_at = NULL, CancelStep(t)
      PROVE  \A s \in DOMAIN rows' : Ending(rows'[s])
    <2> DEFINE c == Cancelled(rows[t])
    <2>1. rows[t] \in Row
        BY <1>0
    <2>2. /\ c \in Row
          /\ c.replaced_at = rows[t].replaced_at
          /\ c.used_at = rows[t].used_at
          /\ c.cancelled_at = {now} /\ c.email_failed_at = {now}
        BY <1>0, <2>1, MarkFields
    <2>3. /\ c \in Row
          /\ c.replaced_at = NULL /\ c.used_at = NULL
          /\ c.cancelled_at = c.email_failed_at
        BY <1>2, <2>2
    <2> HIDE DEF c
    <2>4. Cancelled(rows[t]) \in Row /\ Ending(Cancelled(rows[t]))
        BY <2>3 DEF Ending, c
    <2> QED
        BY <1>0, <1>2, <2>4, UpdateRow DEF CancelStep
<1>3. ASSUME NEW t \in DOMAIN rows, VerifyStep(t)
      PROVE  \A s \in DOMAIN rows' : Ending(rows'[s])
    <2>1. Verified(rows[t]) \in Row /\ Ending(Verified(rows[t]))
        BY <1>0, MarkFields DEF Ending
    <2> QED
        BY <1>0, <1>3, <2>1, UpdateRow DEF VerifyStep
<1>4. ASSUME NEW t \in DOMAIN rows, ResetPassword(t), UseStep(t)
      PROVE  \A s \in DOMAIN rows' : Ending(rows'[s])
    <2>1. Active(rows[t]) /\ rows[t].verified_at # NULL
        BY <1>4 DEF ResetPassword
    <2>2. Used(rows[t]) \in Row /\ Ending(Used(rows[t]))
        BY <1>0, <2>1, MarkFields DEF Ending, Active
    <2> QED
        BY <1>0, <1>4, <2>2, UpdateRow DEF UseStep
<1>5. CASE rows' = rows
    BY <1>0, <1>5
<1> QED
    BY <1>1, <1>2, <1>3, <1>4, <1>5, TableSteps

\* A replacement and its successor are written together, and stay.
LEMMA SuccessorStep ==
    TypeOK /\ ReplacedBySuccessor /\ [Next]_vars => ReplacedBySuccessor'
<1> SUFFICES ASSUME TypeOK, ReplacedBySuccessor, [Next]_vars
             PROVE  ReplacedBySuccessor'
    OBVIOUS
<1>0. /\ DOMAIN rows = 1..Len(rows) /\ Len(rows) \in Nat /\ now \in Time
      /\ \A s \in DOMAIN rows : rows[s] \in Row
    BY DEF TypeOK
<1>1. ASSUME NEW u \in Users, CreatePasswordReset(u) PROVE ReplacedBySuccessor'
    <2> DEFINE new == Len(rows) + 1
    <2>1. /\ DOMAIN rows' = (DOMAIN rows) \cup {new}
          /\ rows'[new] = NewRow(u)
          /\ \A s \in DOMAIN rows :
                rows'[s] = IF rows[s].user = u /\ Active(rows[s])
                           THEN Replaced(rows[s]) ELSE rows[s]
        BY <1>1, CreateRow DEF CreatePasswordReset
    <2>2. \A s \in DOMAIN rows : s < new
        BY <1>0
    <2>3. \A s \in DOMAIN rows : /\ rows'[s].user = rows[s].user
                                 /\ rows'[s].created_at = rows[s].created_at
        BY <1>0, <2>1, MarkFields
    <2>4. NewRow(u).user = u /\ NewRow(u).created_at = now /\ NewRow(u).replaced_at = NULL
        BY NewRowFields
    <2> HIDE DEF new
    <2>5. ASSUME NEW t \in DOMAIN rows, NEW d \in rows'[t].replaced_at
          PROVE  \E s \in DOMAIN rows' :
                    s > t /\ rows'[s].user = rows'[t].user /\ rows'[s].created_at = d
        <3>1. CASE rows[t].user = u /\ Active(rows[t])
            <4>1. rows'[t].replaced_at = {now}
                BY <1>0, <2>1, <3>1, MarkFields
            <4>2. new \in DOMAIN rows' /\ new > t
                BY <1>0, <2>1, <2>2 DEF new
            <4> QED
                BY <2>1, <2>3, <2>4, <2>5, <3>1, <4>1, <4>2
        <3>2. CASE ~(rows[t].user = u /\ Active(rows[t]))
            <4>1. rows'[t] = rows[t]
                BY <2>1, <3>2
            <4>2. PICK s \in DOMAIN rows :
                    s > t /\ rows[s].user = rows[t].user /\ rows[s].created_at = d
                BY <2>5, <4>1 DEF ReplacedBySuccessor
            <4> QED
                BY <2>1, <2>3, <4>1, <4>2
        <3> QED
            BY <3>1, <3>2
    <2>6. rows'[new].replaced_at = {}
        BY <2>1, <2>4 DEF NULL
    <2> QED
        BY <2>1, <2>5, <2>6 DEF ReplacedBySuccessor
<1>2. ASSUME NEW t \in DOMAIN rows, CancelStep(t) \/ VerifyStep(t) \/ UseStep(t)
      PROVE  ReplacedBySuccessor'
    <2>1. PICK r \in {Cancelled(rows[t]), Verified(rows[t]), Used(rows[t])} :
            rows' = [rows EXCEPT ![t] = r]
        BY <1>2 DEF CancelStep, VerifyStep, UseStep
    <2>2. r \in Row
        BY <1>0, MarkFields
    <2>3. /\ DOMAIN rows' = DOMAIN rows
          /\ \A s \in DOMAIN rows : /\ rows'[s].user = rows[s].user
                                    /\ rows'[s].created_at = rows[s].created_at
                                    /\ rows'[s].replaced_at = rows[s].replaced_at
        BY <2>1, <2>2, MarkedRow
    <2> QED
        BY <2>3 DEF ReplacedBySuccessor
<1>3. CASE rows' = rows
    BY <1>3 DEF ReplacedBySuccessor
<1> QED
    BY <1>1, <1>2, <1>3, TableSteps

-----------------------------------------------------------------------------
(* Rows keep what they record *)

\* What AuditTrail says of one row.
RowKept(old, new) ==
    /\ new.user = old.user
    /\ new.created_at = old.created_at
    /\ Kept(old.verified_at, new.verified_at)
    /\ Kept(old.cancelled_at, new.cancelled_at)
    /\ Kept(old.replaced_at, new.replaced_at)
    /\ Kept(old.used_at, new.used_at)
    /\ Kept(old.email_failed_at, new.email_failed_at)

\* No step removes a row or changes a date once it is there.
LEMMA AuditStep ==
    ASSUME TypeOK, OneEnding, MailInv, [Next]_vars
    PROVE  /\ DOMAIN rows \subseteq DOMAIN rows'
           /\ Len(rows) <= Len(rows')
           /\ \A s \in DOMAIN rows : RowKept(rows[s], rows'[s])
<1> DEFINE Goal == /\ DOMAIN rows \subseteq DOMAIN rows'
                   /\ Len(rows) <= Len(rows')
                   /\ \A s \in DOMAIN rows : RowKept(rows[s], rows'[s])
<1>0. /\ DOMAIN rows = 1..Len(rows) /\ Len(rows) \in Nat /\ now \in Time
      /\ \A s \in DOMAIN rows : rows[s] \in Row
    BY DEF TypeOK
<1>s. \A s \in DOMAIN rows : RowKept(rows[s], rows[s])
    BY DEF RowKept, Kept
<1>1. ASSUME NEW u \in Users, CreatePasswordReset(u) PROVE Goal
    <2>1. /\ DOMAIN rows' = (DOMAIN rows) \cup {Len(rows) + 1}
          /\ Len(rows') = Len(rows) + 1
          /\ \A s \in DOMAIN rows :
                rows'[s] = IF rows[s].user = u /\ Active(rows[s])
                           THEN Replaced(rows[s]) ELSE rows[s]
        BY <1>1, CreateRow DEF CreatePasswordReset
    <2>2. \A s \in DOMAIN rows :
            Active(rows[s]) => RowKept(rows[s], Replaced(rows[s]))
        BY <1>0, MarkFields DEF RowKept, Kept, Active
    <2> QED
        BY <1>0, <1>s, <2>1, <2>2
<1>2. ASSUME NEW t \in DOMAIN rows, NEW r \in Row, RowKept(rows[t], r),
             rows' = [rows EXCEPT ![t] = r]
      PROVE  Goal
    BY <1>0, <1>s, <1>2, UpdateRow
<1>3. ASSUME NEW t \in DOMAIN rows, PasswordResetMailFailed(t), CancelStep(t) PROVE Goal
    <2>1. rows[t].email_failed_at = NULL
        BY <1>3 DEF PasswordResetMailFailed, MailInv
    <2>2. rows[t].cancelled_at = NULL
        BY <2>1 DEF OneEnding, Ending
    <2>3. Cancelled(rows[t]) \in Row /\ RowKept(rows[t], Cancelled(rows[t]))
        BY <1>0, <2>1, <2>2, MarkFields DEF RowKept, Kept
    <2> QED
        BY <1>2, <1>3, <2>3 DEF CancelStep
<1>4. ASSUME NEW t \in DOMAIN rows, rows[t].verified_at = NULL, VerifyStep(t) PROVE Goal
    <2>1. Verified(rows[t]) \in Row /\ RowKept(rows[t], Verified(rows[t]))
        BY <1>0, <1>4, MarkFields DEF RowKept, Kept
    <2> QED
        BY <1>2, <1>4, <2>1 DEF VerifyStep
<1>5. ASSUME NEW t \in DOMAIN rows, ResetPassword(t), UseStep(t) PROVE Goal
    <2>1. rows[t].used_at = NULL
        BY <1>5 DEF ResetPassword, Active
    <2>2. Used(rows[t]) \in Row /\ RowKept(rows[t], Used(rows[t]))
        BY <1>0, <2>1, MarkFields DEF RowKept, Kept
    <2> QED
        BY <1>2, <1>5, <2>2 DEF UseStep
<1>6. ASSUME rows' = rows PROVE Goal
    BY <1>0, <1>6, <1>s
<1> HIDE DEF Goal
<1>7. Goal
    BY <1>1, <1>3, <1>4, <1>5, <1>6, TableSteps
<1> QED
    BY <1>7 DEF Goal

\* Only the handler of a token's mail failure marks its row with one.
LEMMA FailureStep ==
    ASSUME TypeOK, [Next]_vars
    PROVE  /\ \A s \in DOMAIN rows :
                \/ rows'[s].email_failed_at = rows[s].email_failed_at
                \/ PasswordResetMailFailed(s)
           /\ \A s \in (DOMAIN rows') \ DOMAIN rows : rows'[s].email_failed_at = NULL
<1> DEFINE Same(s) == rows'[s].email_failed_at = rows[s].email_failed_at
           Goal == /\ \A s \in DOMAIN rows : Same(s) \/ PasswordResetMailFailed(s)
                   /\ \A s \in (DOMAIN rows') \ DOMAIN rows :
                            rows'[s].email_failed_at = NULL
<1>0. \A s \in DOMAIN rows : rows[s] \in Row /\ now \in Time
    BY DEF TypeOK
<1>1. ASSUME NEW u \in Users, CreatePasswordReset(u) PROVE Goal
    <2>1. /\ DOMAIN rows' = (DOMAIN rows) \cup {Len(rows) + 1}
          /\ rows'[Len(rows) + 1] = NewRow(u)
          /\ \A s \in DOMAIN rows :
                rows'[s] = IF rows[s].user = u /\ Active(rows[s])
                           THEN Replaced(rows[s]) ELSE rows[s]
        BY <1>1, CreateRow DEF CreatePasswordReset
    <2>2. \A s \in DOMAIN rows : Same(s)
        BY <1>0, <2>1, MarkFields
    <2> QED
        BY <2>1, <2>2, NewRowFields
<1>2. ASSUME NEW t \in DOMAIN rows, VerifyStep(t) \/ UseStep(t) PROVE Goal
    <2>1. PICK r \in {Verified(rows[t]), Used(rows[t])} : rows' = [rows EXCEPT ![t] = r]
        BY <1>2 DEF VerifyStep, UseStep
    <2>2. r \in Row /\ r.email_failed_at = rows[t].email_failed_at
        BY <1>0, MarkFields
    <2> QED
        BY <2>1, <2>2, UpdateRow
<1>3. ASSUME NEW t \in DOMAIN rows, PasswordResetMailFailed(t), CancelStep(t) PROVE Goal
    <2>1. Cancelled(rows[t]) \in Row
        BY <1>0, MarkFields
    <2>2. /\ DOMAIN rows' = DOMAIN rows
          /\ \A s \in DOMAIN rows : s # t => rows'[s] = rows[s]
        BY <1>3, <2>1, UpdateRow DEF CancelStep
    <2> QED
        BY <1>3, <2>2
<1>4. ASSUME rows' = rows PROVE Goal
    BY <1>4
<1> HIDE DEF Goal
<1>5. Goal
    BY <1>1, <1>2, <1>3, <1>4, TableSteps
<1> QED
    BY <1>5 DEF Goal

-----------------------------------------------------------------------------
(* Where a token's mail is, and what clients were told *)

\* A mail is never in two places, and a token in flight was not handed out.
LEMMA MailStep == TypeOK /\ MailInv /\ [Next]_vars => MailInv'
<1> SUFFICES ASSUME TypeOK, MailInv, [Next]_vars PROVE MailInv'
    OBVIOUS
<1>0. /\ mail \subseteq DOMAIN rows
      /\ posted.sent \subseteq DOMAIN rows /\ posted.failed \subseteq DOMAIN rows
      /\ told \subseteq (DOMAIN rows) \X Successes
      /\ posted = [sent |-> posted.sent, failed |-> posted.failed]
    BY DEF TypeOK
<1>1. ASSUME NEW u \in Users, CreatePasswordReset(u) PROVE MailInv'
    <2> DEFINE new == Len(rows) + 1
    <2>1. /\ DOMAIN rows' = (DOMAIN rows) \cup {new} /\ new \notin DOMAIN rows
          /\ rows'[new] = NewRow(u)
        BY <1>1, CreateRow DEF CreatePasswordReset
    <2>2. /\ mail' \subseteq mail \cup {new}
          /\ posted' = posted /\ told' = told
        BY <1>1 DEF CreatePasswordReset
    <2>3. \A s \in DOMAIN rows : rows[s] \in Row /\ now \in Time
        BY DEF TypeOK
    <2>4. \A s \in DOMAIN rows : rows'[s].email_failed_at = rows[s].email_failed_at
        BY <1>1, <2>3, CreateRow, MarkFields DEF CreatePasswordReset
    <2>5. rows'[new].email_failed_at = NULL
        BY <2>1, NewRowFields
    <2>6. <<new, "sent">> \notin told
        BY <1>0, <2>1
    <2> HIDE DEF new
    <2> QED
        BY <1>0, <2>1, <2>2, <2>4, <2>5, <2>6 DEF MailInv
<1>2. ASSUME NEW t \in DOMAIN rows, MailReplyFinished(t) PROVE MailInv'
    <2>1. /\ t \in mail /\ mail' = mail \ {t}
          /\ \/ posted'.sent = posted.sent \cup {t} /\ posted'.failed = posted.failed
             \/ posted'.sent = posted.sent /\ posted'.failed = posted.failed \cup {t}
          /\ rows' = rows /\ told' = told
        BY <1>0, <1>2 DEF MailReplyFinished
    <2> QED
        BY <2>1 DEF MailInv
<1>3. ASSUME NEW t \in DOMAIN rows, PasswordResetMailSent(t) PROVE MailInv'
    <2>1. /\ t \in posted.sent /\ mail' = mail
          /\ posted'.sent = posted.sent \ {t} /\ posted'.failed = posted.failed
          /\ rows' = rows /\ told' \subseteq told \cup {<<t, "sent">>}
        BY <1>0, <1>3 DEF PasswordResetMailSent, Tells
    <2> QED
        BY <2>1 DEF MailInv
<1>4. ASSUME NEW t \in DOMAIN rows, PasswordResetMailFailed(t) PROVE MailInv'
    <2>1. /\ t \in posted.failed /\ mail' = mail
          /\ posted'.sent = posted.sent /\ posted'.failed = posted.failed \ {t}
          /\ told' = told
        BY <1>0, <1>4 DEF PasswordResetMailFailed
    <2>2. rows[t] \in Row /\ Cancelled(rows[t]) \in Row
        BY MarkFields DEF TypeOK
    <2>3. \A s \in DOMAIN rows : s # t => rows'[s] = rows[s]
        BY <1>4, <2>2, CancelWrites, UpdateRow DEF CancelStep
    <2> QED
        BY <1>0, <2>1, <2>3 DEF MailInv
<1>5. ASSUME NEW t \in DOMAIN rows, VerifyPasswordReset(t) \/ ResetPassword(t)
      PROVE  MailInv'
    <2>1. /\ mail' = mail /\ posted' = posted
          /\ told' \subseteq told \cup {<<t, "verified">>, <<t, "changed">>}
        BY <1>5 DEF VerifyPasswordReset, ResetPassword, Tells
    <2>2. rows[t] \in Row /\ now \in Time
        BY DEF TypeOK
    <2>3. \A s \in DOMAIN rows : rows'[s].email_failed_at = rows[s].email_failed_at
        <3>1. CASE rows' = rows
            BY <3>1
        <3>2. CASE VerifyStep(t)
            BY <2>2, <3>2, MarkFields, UpdateRow DEF VerifyStep
        <3>3. CASE UseStep(t)
            BY <2>2, <3>3, MarkFields, UpdateRow DEF UseStep
        <3> QED
            BY <1>5, <3>1, <3>2, <3>3, VerifyWrites, UseWrites
    <2> QED
        BY <1>0, <2>1, <2>3 DEF MailInv
<1>6. CASE Restart
    BY <1>6 DEF Restart, MailInv
<1>7. CASE UNCHANGED <<rows, mail, posted, told>>
    BY <1>7 DEF MailInv
<1> QED
    BY <1>1, <1>2, <1>3, <1>4, <1>5, <1>6, <1>7 DEF Next, RegisterUser, Tick, vars

\* What a step newly tells a client is in the table it leaves.
LEMMA ToldStep ==
    TypeOK /\ OneEnding /\ MailInv /\ ToldIsTrue /\ [Next]_vars => ToldIsTrue'
<1> SUFFICES ASSUME TypeOK, OneEnding, MailInv, ToldIsTrue, [Next]_vars
             PROVE  ToldIsTrue'
    OBVIOUS
<1>0. /\ told \subseteq (DOMAIN rows) \X Successes
      /\ \A s \in DOMAIN rows : rows[s] \in Row /\ now \in Time /\ {now} # NULL
    BY DEF TypeOK, NULL
<1>1. \A s \in DOMAIN rows : RowKept(rows[s], rows'[s])
    BY AuditStep
<1>2. \A s \in DOMAIN rows :
        /\ <<s, "verified">> \in told =>
            rows'[s].verified_at # NULL \/ rows'[s].replaced_at # NULL
        /\ <<s, "changed">> \in told => rows'[s].used_at # NULL
    BY <1>1 DEF ToldIsTrue, RowKept, Kept
<1>3. \A s \in DOMAIN rows :
        <<s, "sent">> \in told => rows'[s].email_failed_at = NULL
    <2>1. \A s \in DOMAIN rows : <<s, "sent">> \in told => ~PasswordResetMailFailed(s)
        BY DEF PasswordResetMailFailed, MailInv
    <2> QED
        BY <2>1, FailureStep DEF ToldIsTrue
<1>4. CASE told' = told
    BY <1>0, <1>2, <1>3, <1>4 DEF ToldIsTrue
<1>5. ASSUME NEW t \in DOMAIN rows, PasswordResetMailSent(t) PROVE ToldIsTrue'
    <2>1. rows' = rows /\ rows[t].email_failed_at = NULL
          /\ told' \subseteq told \cup {<<t, "sent">>}
        BY <1>5 DEF PasswordResetMailSent, Tells, MailInv
    <2> QED
        BY <1>2, <1>3, <2>1 DEF ToldIsTrue
<1>6. ASSUME NEW t \in DOMAIN rows, VerifyPasswordReset(t) PROVE ToldIsTrue'
    <2>1. told' \subseteq told \cup {<<t, "verified">>}
        BY <1>6 DEF VerifyPasswordReset, Tells
    <2>2. Verified(rows[t]) \in Row /\ Verified(rows[t]).verified_at # NULL
        BY <1>0, MarkFields
    <2>3. DOMAIN rows' = DOMAIN rows /\ rows'[t].verified_at # NULL
        BY <1>6, <2>2, VerifyWrites, UpdateRow DEF VerifyStep
    <2> QED
        BY <1>2, <1>3, <2>1, <2>3 DEF ToldIsTrue
<1>7. ASSUME NEW t \in DOMAIN rows, ResetPassword(t) PROVE ToldIsTrue'
    <2>1. told' \subseteq told \cup {<<t, "changed">>}
        BY <1>7 DEF ResetPassword, Tells
    <2>2. Used(rows[t]) \in Row /\ Used(rows[t]).used_at # NULL
        BY <1>0, MarkFields
    <2>3. DOMAIN rows' = DOMAIN rows /\ rows'[t].used_at # NULL
        BY <1>7, <2>2, UseWrites, UpdateRow DEF UseStep
    <2> QED
        BY <1>2, <1>3, <2>1, <2>3 DEF ToldIsTrue
<1> QED
    BY <1>4, <1>5, <1>6, <1>7
       DEF Next, RegisterUser, CreatePasswordReset, MailReplyFinished,
           PasswordResetMailFailed, Restart, Tick, vars

\* The tables are empty at first.
LEMMA InitIInv == Init => IInv
<1> SUFFICES ASSUME Init PROVE IInv
    OBVIOUS
<1>1. TypeOK
    BY ResetAssumption DEF Init, TypeOK, Time
<1>2. DOMAIN rows = {} /\ mail = {} /\ posted.sent = {} /\ posted.failed = {}
      /\ \A u \in Users : password[u] = 0
    BY DEF Init
<1> QED
    BY <1>1, <1>2 DEF IInv, OnlyNewestActive, OneEnding, Ending, ReplacedBySuccessor,
                      MailInv, ToldIsTrue

\* The inductive invariant holds in every reachable state.
THEOREM Invariance == Spec => []IInv
<1>1. IInv /\ [Next]_vars => IInv'
    BY TypeStep, NewestStep, EndingStep, SuccessorStep, MailStep,
       ToldStep DEF IInv
<1> QED
    BY <1>1, InitIInv, PTL DEF Spec

-----------------------------------------------------------------------------
(* The properties *)

\* Only the newest token of an account is active, through failed commits, late
\* mail replies and restarts, so no older token can act again.
THEOREM NewestOnly == Spec => []OnlyNewestActive
BY Invariance, PTL DEF IInv

\* A replaced token has its successor, made at the date of the replacement.
THEOREM Succession == Spec => []ReplacedBySuccessor
BY Invariance, PTL DEF IInv

\* What resetPassword and verifyPasswordReset reported is in the table, and no
\* token handed out is voided by a mail failure.
THEOREM Durability == Spec => []ToldIsTrue
BY Invariance, PTL DEF IInv

\* Rows are never removed and no operation by itself changes a date once it is
\* set.  (One that writes back a row a late transaction has changed does.)
THEOREM AuditKept == Spec => AuditTrail
<1>1. IInv /\ [Next]_vars =>
        [/\ Len(rows) <= Len(rows')
         /\ \A t \in DOMAIN rows :
            /\ rows'[t].user = rows[t].user
            /\ rows'[t].created_at = rows[t].created_at
            /\ Kept(rows[t].verified_at, rows'[t].verified_at)
            /\ Kept(rows[t].cancelled_at, rows'[t].cancelled_at)
            /\ Kept(rows[t].replaced_at, rows'[t].replaced_at)
            /\ Kept(rows[t].used_at, rows'[t].used_at)
            /\ Kept(rows[t].email_failed_at, rows'[t].email_failed_at)]_rows
    BY AuditStep DEF IInv, RowKept
<1> QED
    BY <1>1, Invariance, PTL DEF Spec, AuditTrail

-----------------------------------------------------------------------------
(* Refinement *)

\* The active token of an account, if it has one.
HasActive(u) == \E t \in DOMAIN rows : rows[t].user = u /\ Active(rows[t])
HasVerified(u) == \E t \in DOMAIN rows : /\ rows[t].user = u
                                         /\ Active(rows[t])
                                         /\ rows[t].verified_at # NULL

LEMMA StageOf ==
    ASSUME NEW u
    PROVE  /\ ~HasActive(u) => Stage(u) = "none"
           /\ HasActive(u) /\ ~HasVerified(u) => Stage(u) = "asked"
           /\ HasVerified(u) => Stage(u) = "confirmed"
    BY DEF Stage, HasActive, HasVerified

Stages == [u \in Users |-> Stage(u)]

\* An active token is the only one of its user.
LEMMA OneActive ==
    ASSUME TypeOK, OnlyNewestActive, NEW t \in DOMAIN rows, Active(rows[t]),
           NEW s \in DOMAIN rows, Active(rows[s]), rows[s].user = rows[t].user
    PROVE  s = t
<1>1. s \in Nat /\ t \in Nat
    BY DEF TypeOK
<1>2. s <= t /\ t <= s
    BY DEF OnlyNewestActive
<1> QED
    BY <1>1, <1>2

\* A step that marks row t with r leaves the stage of every other user.
LEMMA OtherStages ==
    ASSUME TypeOK, NEW t \in DOMAIN rows, NEW r \in Row, r.user = rows[t].user,
           rows' = [rows EXCEPT ![t] = r]
    PROVE  /\ \A u \in Users : u # rows[t].user => Stage(u)' = Stage(u)
           /\ DOMAIN rows' = DOMAIN rows /\ rows'[t] = r
           /\ \A s \in DOMAIN rows : s # t => rows'[s] = rows[s]
<1>1. /\ DOMAIN rows' = DOMAIN rows /\ rows'[t] = r
      /\ \A s \in DOMAIN rows : s # t => rows'[s] = rows[s]
    BY UpdateRow
<1>2. ASSUME NEW u \in Users, u # rows[t].user PROVE Stage(u)' = Stage(u)
    <2>1. \A s \in DOMAIN rows : (rows'[s].user = u <=> rows[s].user = u)
                                 /\ (rows[s].user = u => rows'[s] = rows[s])
        BY <1>1, <1>2
    <2>2. HasActive(u)' <=> HasActive(u)
        BY <1>1, <2>1 DEF HasActive, Active
    <2>3. HasVerified(u)' <=> HasVerified(u)
        BY <1>1, <2>1 DEF HasVerified, Active
    <2> QED
        BY <2>2, <2>3 DEF Stage, HasActive, HasVerified
<1> QED
    BY <1>1, <1>2

\* One stage changed means the whole function is updated at one point.
LEMMA StageUpdate ==
    ASSUME NEW u \in Users, NEW v, Stage(u)' = v,
           \A a \in Users : a # u => Stage(a)' = Stage(a)
    PROVE  Stages' = [Stages EXCEPT ![u] = v]
    BY DEF Stages

LEMMA SameStages ==
    ASSUME \A a \in Users : Stage(a)' = Stage(a)
    PROVE  Stages' = Stages
    BY DEF Stages

\* A new token is the account's only active one, and not verified.
LEMMA AskStep ==
    ASSUME TypeOK, NEW u \in Users, CreatePasswordReset(u)
    PROVE  Stages' = [Stages EXCEPT ![u] = "asked"] /\ password' = password
<1> DEFINE new == Len(rows) + 1
<1>0. \A s \in DOMAIN rows : rows[s] \in Row /\ now \in Time /\ {now} # NULL
    BY DEF TypeOK, NULL
<1>1. /\ DOMAIN rows' = (DOMAIN rows) \cup {new}
      /\ rows'[new] = NewRow(u)
      /\ \A s \in DOMAIN rows :
            rows'[s] = IF rows[s].user = u /\ Active(rows[s])
                       THEN Replaced(rows[s]) ELSE rows[s]
    BY CreateRow DEF CreatePasswordReset
<1>2. /\ NewRow(u).user = u /\ Active(NewRow(u)) /\ NewRow(u).verified_at = NULL
    BY NewRowFields
<1>3. \A s \in DOMAIN rows : ~Active(Replaced(rows[s])) /\ Replaced(rows[s]).user = rows[s].user
    BY <1>0, MarkFields DEF Active
<1> HIDE DEF new
<1>4. Stage(u)' = "asked"
    <2>1. HasActive(u)'
        BY <1>1, <1>2 DEF HasActive, Active
    <2>2. \A s \in DOMAIN rows : rows'[s].user = u => ~Active(rows'[s])
        BY <1>1, <1>3
    <2>3. ~HasVerified(u)'
        BY <1>1, <1>2, <2>2 DEF HasVerified, Active
    <2> QED
        BY <2>1, <2>3 DEF Stage, HasActive, HasVerified
<1>5. ASSUME NEW a \in Users, a # u PROVE Stage(a)' = Stage(a)
    <2>1. \A s \in DOMAIN rows : (rows'[s].user = a <=> rows[s].user = a)
                                 /\ (rows[s].user = a => rows'[s] = rows[s])
        BY <1>1, <1>3, <1>5
    <2>2. HasActive(a)' <=> HasActive(a)
        BY <1>1, <1>2, <1>5, <2>1 DEF HasActive, Active
    <2>3. HasVerified(a)' <=> HasVerified(a)
        BY <1>1, <1>2, <1>5, <2>1 DEF HasVerified, Active
    <2> QED
        BY <2>2, <2>3 DEF Stage, HasActive, HasVerified
<1>6. password' = password
    BY DEF CreatePasswordReset
<1> QED
    BY <1>4, <1>5, <1>6, StageUpdate

\* Marking the active token of an account decides the stage of the account.
LEMMA MarkStep ==
    ASSUME TypeOK, OnlyNewestActive, NEW t \in DOMAIN rows, Active(rows[t]),
           NEW u, u = rows[t].user,
           NEW r \in Row, r.user = u, rows' = [rows EXCEPT ![t] = r]
    PROVE  /\ ~Active(r) => Stage(u)' = "none"
           /\ Active(r) /\ r.verified_at # NULL => Stage(u)' = "confirmed"
           /\ rows[t].verified_at = NULL => Stage(u) = "asked"
           /\ rows[t].verified_at # NULL => Stage(u) = "confirmed"
<1>1. /\ DOMAIN rows' = DOMAIN rows /\ rows'[t] = r
      /\ \A s \in DOMAIN rows : s # t => rows'[s] = rows[s]
    BY UpdateRow
<1>2. \A s \in DOMAIN rows : rows[s].user = u /\ Active(rows[s]) => s = t
    BY OneActive
<1>3. \A s \in DOMAIN rows : rows'[s].user = u /\ Active(rows'[s]) => s = t
    BY <1>1, <1>2
<1>4. ~Active(r) => ~HasActive(u)'
    BY <1>1, <1>3 DEF HasActive, Active
<1>5. ~HasActive(u)' => Stage(u)' = "none"
    BY DEF Stage, HasActive
<1>6. Active(r) /\ r.verified_at # NULL => HasVerified(u)'
    BY <1>1 DEF HasVerified, Active
<1>7. HasVerified(u)' => Stage(u)' = "confirmed"
    BY DEF Stage, HasVerified
<1>8. HasActive(u) /\ (HasVerified(u) <=> rows[t].verified_at # NULL)
    BY <1>2 DEF HasActive, HasVerified
<1> QED
    BY <1>4, <1>5, <1>6, <1>7, <1>8, StageOf

\* A row that is not active has no say in the stage of its account.
LEMMA DeadMark ==
    ASSUME TypeOK, NEW t \in DOMAIN rows, ~Active(rows[t]),
           NEW r \in Row, r.user = rows[t].user, ~Active(r),
           rows' = [rows EXCEPT ![t] = r]
    PROVE  \A u \in Users : Stage(u)' = Stage(u)
<1>1. /\ DOMAIN rows' = DOMAIN rows /\ rows'[t] = r
      /\ \A s \in DOMAIN rows : s # t => rows'[s] = rows[s]
    BY UpdateRow
<1>2. \A u : HasActive(u)' <=> HasActive(u)
    BY <1>1 DEF HasActive, Active
<1>3. \A u : HasVerified(u)' <=> HasVerified(u)
    BY <1>1 DEF HasVerified, Active
<1> QED
    BY <1>2, <1>3 DEF Stage, HasActive, HasVerified

-----------------------------------------------------------------------------
LEMMA PolicyInit == Init => Policy!Init
<1> SUFFICES ASSUME Init PROVE Policy!Init
    OBVIOUS
<1>1. DOMAIN rows = {}
    BY DEF Init
<1>2. \A u \in Users : Stage(u) = "none"
    BY <1>1 DEF Stage
<1> QED
    BY <1>2 DEF Init, Policy!Init

\* Each step is one of ResetPolicy's, or changes neither stage nor password.
LEMMA PolicyNext == IInv /\ [Next]_vars => [Policy!Next]_(Policy!vars)
<1> SUFFICES ASSUME IInv, [Next]_vars PROVE [Policy!Next]_(Policy!vars)
    OBVIOUS
<1>0. TypeOK /\ OnlyNewestActive /\ OneEnding /\ now \in Time /\ {now} # NULL
      /\ \A s \in DOMAIN rows : rows[s] \in Row /\ rows[s].user \in Users
    <2>1. TypeOK /\ OnlyNewestActive /\ OneEnding
        BY DEF IInv
    <2>2. now \in Time /\ \A s \in DOMAIN rows : rows[s] \in Row
        BY <2>1 DEF TypeOK
    <2> QED
        BY <2>1, <2>2 DEF Row, NULL
<1>s. ASSUME Stages' = Stages, password' = password
      PROVE  [Policy!Next]_(Policy!vars)
    BY <1>s DEF Policy!vars, Stages
<1>1. ASSUME NEW u \in Users, CreatePasswordReset(u)
      PROVE  [Policy!Next]_(Policy!vars)
    <2>1. Policy!Ask(u)
        BY <1>0, <1>1, AskStep DEF Policy!Ask, Stages
    <2> QED
        BY <2>1 DEF Policy!Next
<1>2. ASSUME NEW t \in DOMAIN rows, PasswordResetMailFailed(t), CancelStep(t)
      PROVE  [Policy!Next]_(Policy!vars)
    <2> DEFINE r == Cancelled(rows[t])
    <2>0. PICK u \in Users : u = rows[t].user
        BY <1>0
    <2>1. /\ r \in Row /\ r.user = u /\ ~Active(r)
          /\ rows' = [rows EXCEPT ![t] = r] /\ password' = password
        BY <1>0, <1>2, <2>0, MarkFields DEF CancelStep, Active, PasswordResetMailFailed
    <2> HIDE DEF r
    <2>2. CASE Active(rows[t])
        <3>1. Stage(u)' = "none" /\ Stage(u) # "none"
            BY <1>0, <2>1, <2>2, <2>0, MarkStep
        <3>2. Stages' = [Stages EXCEPT ![u] = "none"]
            BY <1>0, <2>1, <3>1, <2>0, OtherStages, StageUpdate
        <3>3. Policy!Abandon(u)
            BY <2>1, <3>1, <3>2 DEF Policy!Abandon, Stages
        <3> QED
            BY <2>1, <3>3 DEF Policy!Next
    <2>3. CASE ~Active(rows[t])
        BY <1>0, <1>s, <2>1, <2>0, <2>3, DeadMark, SameStages
    <2> QED
        BY <2>2, <2>3
<1>3. ASSUME NEW t \in DOMAIN rows, VerifyPasswordReset(t),
             rows[t].verified_at = NULL, VerifyStep(t)
      PROVE  [Policy!Next]_(Policy!vars)
    <2> DEFINE r == Verified(rows[t])
    <2>0. PICK u \in Users : u = rows[t].user
        BY <1>0
    <2>1. /\ Active(rows[t]) /\ password' = password
        BY <1>3 DEF VerifyPasswordReset
    <2>2. /\ r \in Row /\ r.user = u
          /\ r.verified_at # NULL /\ rows' = [rows EXCEPT ![t] = r]
        BY <1>0, <1>3, <2>0, MarkFields DEF VerifyStep
    <2>3. Active(r)
        BY <1>0, <2>1, MarkFields DEF Active
    <2> HIDE DEF r
    <2>4. Stage(u)' = "confirmed" /\ Stage(u) = "asked"
        BY <1>0, <1>3, <2>1, <2>2, <2>3, <2>0, MarkStep
    <2>5. Stages' = [Stages EXCEPT ![u] = "confirmed"]
        <3>1. \A a \in Users : a # u => Stage(a)' = Stage(a)
            BY <1>0, <2>0, <2>2, OtherStages
        <3>2. Stage(u)' = "confirmed"
            BY <2>4
        <3> QED
            BY <3>1, <3>2, StageUpdate
    <2>6. Policy!Confirm(u)
        BY <2>0, <2>1, <2>2, <2>4, <2>5 DEF Policy!Confirm, Stages
    <2> QED
        BY <2>2, <2>6 DEF Policy!Next
<1>4. ASSUME NEW t \in DOMAIN rows, ResetPassword(t), UseStep(t)
      PROVE  [Policy!Next]_(Policy!vars)
    <2> DEFINE r == Used(rows[t])
    <2>0. PICK u \in Users : u = rows[t].user
        BY <1>0
    <2>1. /\ Active(rows[t]) /\ rows[t].verified_at # NULL
          /\ password' = [password EXCEPT ![u] = t]
        BY <1>4, <2>0 DEF ResetPassword
    <2>2. /\ r \in Row /\ r.user = u /\ ~Active(r)
          /\ rows' = [rows EXCEPT ![t] = r]
        BY <1>0, <1>4, <2>0, MarkFields DEF UseStep, Active
    <2> HIDE DEF r
    <2>3. Stage(u)' = "none" /\ Stage(u) = "confirmed"
        BY <1>0, <2>1, <2>2, <2>0, MarkStep
    <2>4. Stages' = [Stages EXCEPT ![u] = "none"]
        BY <1>0, <2>2, <2>3, <2>0, OtherStages, StageUpdate
    <2>5. t \in TokenIds
        BY <1>0, ResetAssumption DEF TypeOK, TokenIds
    <2>6. Policy!Change(u)
        BY <2>1, <2>2, <2>3, <2>4, <2>5 DEF Policy!Change, Stages
    <2> QED
        BY <2>2, <2>6 DEF Policy!Next
<1>5. ASSUME rows' = rows PROVE [Policy!Next]_(Policy!vars)
    <2>1. \A u \in Users : Stage(u)' = Stage(u)
        BY <1>5 DEF Stage, Active
    <2>2. CASE password' = password
        BY <1>s, <2>1, <2>2, SameStages
    <2>3. CASE \E t \in DOMAIN rows : ResetPassword(t)
        BY <1>0, <1>4, <2>3, UseWrites
    <2>4. password' = password \/ \E t \in DOMAIN rows : ResetPassword(t)
        BY DEF Next, vars, RegisterUser, CreatePasswordReset, MailReplyFinished,
               PasswordResetMailSent, PasswordResetMailFailed,
               VerifyPasswordReset, Restart, Tick
    <2> QED
        BY <2>2, <2>3, <2>4
<1> QED
    BY <1>0, <1>1, <1>2, <1>3, <1>4, <1>5, TableSteps

\* Password recovery keeps ResetPolicy: one reset per account, confirmed before
\* it changes the password, and spent by the change.
THEOREM PolicyKept == Spec => KeepsPolicy
BY PolicyInit, PolicyNext, Invariance, PTL DEF Spec, KeepsPolicy, Policy!Spec

=============================================================================
