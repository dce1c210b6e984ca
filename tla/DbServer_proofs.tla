--------------------------- MODULE DbServer_proofs ---------------------------
(***************************************************************************)
(* Proofs about the transactions of PasswordResetTx and about DbServer,    *)
(* for any number of tokens, late transactions and faults.  First what a   *)
(* COMMIT does to tables and to other transactions, as lemmas about values *)
(* alone; then the inductive invariant of the transactions, one lemma for  *)
(* each kind of step; then what clients were told, what is on record of a  *)
(* use, and the policy, each with an invariant of its own on top; then the *)
(* connection.                                                             *)
(***************************************************************************)
EXTENDS DbServer, Sequences, TLAPS

-----------------------------------------------------------------------------
(* What holds of a table R with uses U, and of transactions on it *)

\* An active token is the newest of the table; a token that was used is dead,
\* and was used once; the password is that of a token of the table.
Tables(R, U, p) ==
    /\ \A t \in DOMAIN R : Active(R[t]) => \A s \in DOMAIN R : s <= t
    /\ \A t \in TokenIds : U[t] # 0 => U[t] = 1 /\ t \in DOMAIN R /\ ~Active(R[t])
    /\ p # 0 => p \in DOMAIN R

\* A row w makes active is, and will be, the newest and the only active one, and
\* was never used; w adds no rows but active ones; the token it uses up is
\* active, verified and unused.
Sound(w, R, U) ==
    /\ \A t \in DOMAIN w.rows : Active(w.rows[t]) =>
        /\ U[t] = 0
        /\ \A s \in DOMAIN R :
            s <= t /\ (Active(R[s]) => s = t \/ s \in DOMAIN w.rows)
        /\ \A s \in DOMAIN w.rows : s <= t
    /\ \A t \in DOMAIN w.rows : t \in DOMAIN R \/ Active(w.rows[t])
    /\ w.password # 0 =>
        /\ w.password \in DOMAIN R
        /\ Active(R[w.password]) /\ "verified" \in R[w.password]

\* w has marked the token it uses up.
Ended(w) ==
    w.password # 0 => w.password \in DOMAIN w.rows /\ "used" \in w.rows[w.password]

\* What locks and index keep x from while w is open.
Apart(w, x) ==
    /\ \A t \in DOMAIN w.rows : t \notin DOMAIN x.rows
    /\ w.password \notin DOMAIN x.rows
    /\ \A t \in DOMAIN w.rows : Active(w.rows[t]) =>
        \A s \in DOMAIN x.rows : s < t /\ ~Active(x.rows[s])

\* R2, U2 and p2 are what COMMIT of w makes of R, U and p.
Installs(w, R, U, p, R2, U2, p2) ==
    /\ DOMAIN R2 = DOMAIN R \cup DOMAIN w.rows
    /\ \A t \in DOMAIN w.rows : R2[t] = w.rows[t]
    /\ \A t \in DOMAIN R : t \in DOMAIN w.rows \/ R2[t] = R[t]
    /\ \A t \in TokenIds : U2[t] = IF t = w.password THEN U[t] + 1 ELSE U[t]
    /\ p2 = IF w.password = 0 THEN p ELSE w.password

IsUses(U) == U \in [TokenIds -> Nat]

LEMMA ActiveFacts ==
    /\ Active({})
    /\ \A row : row \cap {"cancelled", "replaced", "used", "email_failed"} # {} => ~Active(row)
    /\ \A row : "used" \in row => ~Active(row)
BY DEF Active

LEMMA TokenIdsNat == TokenIds \subseteq Nat /\ 0 \notin TokenIds
BY TxAssumption DEF TokenIds

\* COMMIT keeps the tables in order, and the password goes on.
LEMMA InstallTables ==
    ASSUME NEW w, NEW R, NEW U, NEW p, NEW R2, NEW U2, NEW p2,
           IsWrites(w), IsTable(R), IsUses(U), p \in {0} \cup TokenIds,
           Tables(R, U, p), Sound(w, R, U), Ended(w),
           Installs(w, R, U, p, R2, U2, p2)
    PROVE  Tables(R2, U2, p2) /\ p <= p2
<1>0. /\ DOMAIN R \subseteq TokenIds
      /\ DOMAIN w.rows \subseteq TokenIds
      /\ \A t \in TokenIds : U[t] \in Nat
  BY DEF IsWrites, IsTable, IsUses
<1>1. ASSUME NEW t \in DOMAIN R2, Active(R2[t]), NEW s \in DOMAIN R2
      PROVE  s <= t
  <2>1. CASE t \in DOMAIN w.rows
    <3>1. Active(w.rows[t])
      BY <1>1, <2>1 DEF Installs
    <3>2. CASE s \in DOMAIN R
      BY <2>1, <3>1, <3>2 DEF Sound
    <3>3. CASE s \in DOMAIN w.rows
      BY <2>1, <3>1, <3>3 DEF Sound
    <3> QED
      BY <3>2, <3>3, <1>1 DEF Installs
  <2>2. CASE t \notin DOMAIN w.rows
    <3>1. t \in DOMAIN R /\ Active(R[t])
      BY <1>1, <2>2 DEF Installs
    <3>2. s \in DOMAIN R
      <4>1. SUFFICES ASSUME s \notin DOMAIN R PROVE FALSE
        OBVIOUS
      <4>2. s \in DOMAIN w.rows /\ Active(w.rows[s])
        BY <1>1, <4>1 DEF Installs, Sound
      <4> QED
        BY <2>2, <3>1, <4>1, <4>2 DEF Sound
    <3> QED
      BY <3>1, <3>2 DEF Tables
  <2> QED
    BY <2>1, <2>2
<1>2. ASSUME NEW t \in TokenIds, U2[t] # 0
      PROVE  U2[t] = 1 /\ t \in DOMAIN R2 /\ ~Active(R2[t])
  <2>1. CASE t = w.password
    <3>1. t \in DOMAIN w.rows /\ "used" \in w.rows[t]
      BY <2>1, TokenIdsNat DEF Ended
    <3>2. t \in DOMAIN R2 /\ ~Active(R2[t])
      BY <3>1, ActiveFacts DEF Installs
    <3>3. U[t] = 0
      <4>1. Active(R[t])
        BY <2>1, TokenIdsNat DEF Sound
      <4> QED
        BY <4>1 DEF Tables
    <3>4. U2[t] = 1
      BY <2>1, <3>3 DEF Installs
    <3> QED
      BY <3>2, <3>4
  <2>2. CASE t # w.password
    <3>1. U2[t] = U[t]
      BY <2>2 DEF Installs
    <3>2. U[t] = 1 /\ t \in DOMAIN R /\ ~Active(R[t])
      BY <1>2, <3>1 DEF Tables
    <3>3. t \in DOMAIN w.rows => ~Active(w.rows[t])
      BY <1>2, <3>1 DEF Sound
    <3> QED
      BY <3>1, <3>2, <3>3 DEF Installs
  <2> QED
    BY <2>1, <2>2
<1>3. p2 # 0 => p2 \in DOMAIN R2
  BY DEF Tables, Sound, Installs
<1>4. p <= p2
  <2>0. p \in Nat
    BY TokenIdsNat
  <2>1. CASE w.password = 0
    <3>1. p2 = p
      BY <2>1 DEF Installs
    <3> QED
      BY <2>0, <3>1
  <2>2. CASE w.password # 0
    <3>1. p2 = w.password /\ p2 \in DOMAIN R /\ Active(R[p2])
      BY <2>2 DEF Installs, Sound
    <3>2. CASE p = 0
      <4>1. p2 \in Nat
        BY <1>0, <3>1, TokenIdsNat
      <4> QED
        BY <3>2, <4>1
    <3>3. CASE p # 0
      BY <3>1, <3>3 DEF Tables
    <3> QED
      BY <3>2, <3>3
  <2> QED
    BY <2>1, <2>2
<1> QED
  BY <1>1, <1>2, <1>3, <1>4 DEF Tables

\* COMMIT of x leaves another open transaction sound.
LEMMA InstallSound ==
    ASSUME NEW w, NEW x, NEW R, NEW U, NEW p, NEW R2, NEW U2, NEW p2,
           IsWrites(w), IsWrites(x), Sound(w, R, U), Apart(w, x), Ended(x),
           Installs(x, R, U, p, R2, U2, p2)
    PROVE  Sound(w, R2, U2)
<1>0. /\ DOMAIN w.rows \subseteq TokenIds /\ DOMAIN x.rows \subseteq TokenIds
  BY DEF IsWrites, IsTable
<1>1. ASSUME NEW t \in DOMAIN w.rows, Active(w.rows[t])
      PROVE  U2[t] = 0
  <2>1. t # x.password
    BY <1>0, <1>1, TokenIdsNat DEF Apart, Ended
  <2>2. U[t] = 0
    BY <1>1 DEF Sound
  <2> QED
    BY <1>0, <2>1, <2>2 DEF Installs
<1>2. ASSUME NEW t \in DOMAIN w.rows, Active(w.rows[t]), NEW s \in DOMAIN R2
      PROVE  s <= t /\ (Active(R2[s]) => s = t \/ s \in DOMAIN w.rows)
  <2>1. CASE s \in DOMAIN x.rows
    <3>1. s < t /\ ~Active(x.rows[s])
      BY <1>2, <2>1 DEF Apart
    <3>2. s \in Nat /\ t \in Nat
      BY <1>0, <2>1, TokenIdsNat
    <3> QED
      BY <2>1, <3>1, <3>2 DEF Installs
  <2>2. CASE s \notin DOMAIN x.rows
    <3>1. s \in DOMAIN R /\ R2[s] = R[s]
      BY <1>2, <2>2 DEF Installs
    <3> QED
      BY <1>2, <3>1 DEF Sound
  <2> QED
    BY <2>1, <2>2
<1>3. w.password # 0 =>
        /\ w.password \in DOMAIN R2
        /\ Active(R2[w.password]) /\ "verified" \in R2[w.password]
  BY DEF Sound, Apart, Installs
<1>4. \A t \in DOMAIN w.rows : t \in DOMAIN R2 \/ Active(w.rows[t])
  BY DEF Sound, Installs
<1> QED
  BY <1>1, <1>2, <1>3, <1>4 DEF Sound

\* A transaction that has written nothing is sound and in nobody's way.
LEMMA NoWritesFacts ==
    /\ IsWrites(NoWrites) /\ DOMAIN NoWrites.rows = {} /\ NoWrites.password = 0
    /\ \A R, U : Sound(NoWrites, R, U)
    /\ Ended(NoWrites)
    /\ \A x : IsWrites(x) => Apart(NoWrites, x) /\ Apart(x, NoWrites)
<1>1. DOMAIN NoWrites = {"rows", "password"} /\ NoWrites.password = 0
      /\ NoWrites.rows = [t \in {} |-> {}]
  BY DEF NoWrites
<1>2. DOMAIN NoWrites.rows = {} /\ NoWrites.rows \in [{} -> Row]
  BY <1>1
<1>3. IsWrites(NoWrites)
  BY <1>1, <1>2 DEF IsWrites, IsTable
<1>4. ASSUME NEW x, IsWrites(x)
      PROVE  Apart(NoWrites, x) /\ Apart(x, NoWrites)
  <2>1. 0 \notin DOMAIN x.rows
    BY <1>4, TokenIdsNat DEF IsWrites, IsTable
  <2> QED
    BY <1>1, <1>2, <2>1 DEF Apart
<1> QED
  BY <1>1, <1>2, <1>3, <1>4 DEF Sound, Ended

LEMMA OverFacts ==
    ASSUME NEW f, NEW g, IsTable(f), IsTable(g)
    PROVE  /\ IsTable(Over(f, g))
           /\ DOMAIN Over(f, g) = DOMAIN f \cup DOMAIN g
           /\ \A t \in DOMAIN g : Over(f, g)[t] = g[t]
           /\ \A t \in DOMAIN f : t \in DOMAIN g \/ Over(f, g)[t] = f[t]
<1> DEFINE h == Over(f, g)
<1>1. /\ DOMAIN h = DOMAIN f \cup DOMAIN g
      /\ \A t \in DOMAIN f \cup DOMAIN g : h[t] = IF t \in DOMAIN g THEN g[t] ELSE f[t]
      /\ h = [t \in DOMAIN h |-> h[t]]
  BY DEF Over
<1>2. \A t \in DOMAIN h : h[t] \in Row
  BY <1>1 DEF IsTable
<1> HIDE DEF h
<1>3. IsTable(h)
  BY <1>1, <1>2 DEF IsTable
<1> QED
  BY <1>1, <1>3 DEF h

\* v is w with one more row written.
Wrote(w, t, row, v) ==
    /\ v.password = w.password
    /\ DOMAIN v.rows = DOMAIN w.rows \cup {t}
    /\ v.rows[t] = row
    /\ \A s \in DOMAIN w.rows : s = t \/ v.rows[s] = w.rows[s]

LEMMA WroteFacts ==
    ASSUME NEW w, NEW t \in TokenIds, NEW row \in Row, IsWrites(w),
           NEW v, v = [w EXCEPT !.rows = Over(@, [s \in {t} |-> row])]
    PROVE  IsWrites(v) /\ Wrote(w, t, row, v)
<1> DEFINE g == [s \in {t} |-> row]
<1>1. IsTable(g) /\ DOMAIN g = {t} /\ g[t] = row
  BY DEF IsTable
<1>2. DOMAIN w = {"rows", "password"} /\ IsTable(w.rows)
  BY DEF IsWrites
<1> HIDE DEF g
<1>3. /\ IsTable(Over(w.rows, g))
      /\ DOMAIN Over(w.rows, g) = DOMAIN w.rows \cup {t}
      /\ Over(w.rows, g)[t] = row
      /\ \A s \in DOMAIN w.rows : s = t \/ Over(w.rows, g)[s] = w.rows[s]
  <2>1. /\ IsTable(Over(w.rows, g))
        /\ DOMAIN Over(w.rows, g) = DOMAIN w.rows \cup DOMAIN g
        /\ \A s \in DOMAIN g : Over(w.rows, g)[s] = g[s]
        /\ \A s \in DOMAIN w.rows : s \in DOMAIN g \/ Over(w.rows, g)[s] = w.rows[s]
    BY <1>1, <1>2, OverFacts
  <2> DEFINE h == Over(w.rows, g)
  <2> HIDE DEF h
  <2>2. /\ IsTable(h)
        /\ DOMAIN h = DOMAIN w.rows \cup {t}
        /\ h[t] = row
        /\ \A s \in DOMAIN w.rows : s = t \/ h[s] = w.rows[s]
    BY <1>1, <2>1 DEF h
  <2> QED
    BY <2>2 DEF h
<1>4. v = [w EXCEPT !.rows = Over(w.rows, g)]
  BY DEF g
<1>5. DOMAIN v = {"rows", "password"} /\ v.rows = Over(w.rows, g) /\ v.password = w.password
  BY <1>2, <1>4
<1> QED
  BY <1>3, <1>5 DEF IsWrites, Wrote

\* A row that is not locked, and whose activity the index allows, keeps apart.
LEMMA WriteApart ==
    ASSUME NEW w, NEW x, NEW v, NEW t \in TokenIds, NEW row,
           IsWrites(w), IsWrites(x), Apart(w, x), Apart(x, w), Ended(x),
           Wrote(w, t, row, v), t \notin DOMAIN x.rows,
           Active(row) => \A s \in DOMAIN x.rows : s < t /\ ~Active(x.rows[s]),
           \A u \in DOMAIN x.rows : Active(x.rows[u]) => t < u /\ ~Active(row)
    PROVE  Apart(v, x) /\ Apart(x, v)
<1>1. x.password # t
  BY TokenIdsNat DEF Ended
<1>2. Apart(v, x)
  BY DEF Apart, Wrote
<1>3. Apart(x, v)
  BY <1>1 DEF Apart, Wrote
<1> QED
  BY <1>2, <1>3

-----------------------------------------------------------------------------
(* The inductive invariant of the transactions *)

Harmless(w, R) ==
    DOMAIN w.rows \subseteq DOMAIN R /\ \A t \in DOMAIN w.rows : ~Active(w.rows[t])

\* The tables and all open transactions are in order, and those apart.
TxInv ==
    /\ Tables(rows, uses, password)
    /\ Sound(tx, rows, uses)
    /\ \A x \in late : Sound(x, rows, uses) /\ Ended(x) /\ Apart(x, tx) /\ Apart(tx, x)
    /\ \A x, y \in late : x = y \/ Apart(x, y)

\* How far each operation has come.
Shape ==
    /\ op.name = "none" => op = Idle
    /\ op.name = "none" \/ op.at = "select" => tx = NoWrites
    /\ op.name \in {"cancel", "verify", "reset"} => op.token \in TokenIds
    /\ op.at = "commit" => Ended(tx)

Creating ==
    op.name = "create" =>
        /\ tx.password = 0
        /\ op.at # "commit" =>
            Harmless(tx, rows) /\ op.todo \subseteq DOMAIN rows /\ lastId < MaxTokens
        /\ op.at = "update" => op.token \in DOMAIN rows /\ ~Active(op.object)

Cancelling ==
    op.name = "cancel" /\ op.at # "commit" =>
        /\ tx = NoWrites
        /\ op.at # "select" => op.token \in DOMAIN rows
        /\ op.at = "update" => ~Active(op.object)

\* A late transaction may replace the token that verifyPasswordReset holds, but
\* only by an active one; none uses it up.
Verifying ==
    op.name = "verify" /\ op.at # "commit" =>
        /\ tx = NoWrites
        /\ op.at # "select" =>
            /\ op.token \in DOMAIN rows /\ uses[op.token] = 0
            /\ \A s \in DOMAIN rows : s <= op.token \/ Active(rows[s])
            /\ \A x \in late :
                /\ x.password # op.token
                /\ \A s \in DOMAIN x.rows : s <= op.token \/ Active(x.rows[s])

\* resetPassword holds the lock of its token.
Resetting ==
    op.name = "reset" /\ op.at # "commit" =>
        /\ tx.rows = NoWrites.rows
        /\ op.at # "select" =>
            /\ op.token \in DOMAIN rows
            /\ Active(rows[op.token]) /\ "verified" \in rows[op.token]
            /\ \A x \in late : op.token \notin DOMAIN x.rows
        /\ op.at = "user" => tx = NoWrites
        /\ op.at \in {"find", "update"} => tx = [NoWrites EXCEPT !.password = op.token]
        /\ op.at = "update" => "used" \in op.object

OpInv == Shape /\ Creating /\ Cancelling /\ Verifying /\ Resetting

IInv == TypeOK /\ TxInv /\ OpInv

LEMMA InitIInv == Init => IInv
<1> SUFFICES ASSUME Init PROVE IInv
  OBVIOUS
<1>1. /\ rows = NoWrites.rows /\ tx = NoWrites /\ late = {} /\ op = Idle
      /\ password = 0 /\ lastId = 0
      /\ uses = [t \in TokenIds |-> 0]
  BY DEF Init
<1>2. op.name = "none" /\ op.at = "select" /\ op \in Op
  BY <1>1 DEF Idle, Op, Row
<1>3. IsWrites(tx) /\ IsTable(rows) /\ DOMAIN rows = {} /\ DOMAIN tx.rows = {}
  BY <1>1, NoWritesFacts DEF IsWrites
<1>4. TypeOK
  <2>1. /\ uses \in [TokenIds -> Nat]
        /\ mail \in [TokenIds -> {"none", "posted", "failed", "sent"}]
        /\ up \in BOOLEAN /\ told = {}
    BY DEF Init
  <2>2. \A x \in late \cup {tx} : IsWrites(x) /\ DOMAIN x.rows \subseteq 1..lastId
    BY <1>1, <1>3
  <2> QED
    BY <1>1, <1>2, <1>3, <2>1, <2>2 DEF TypeOK
<1>5. TxInv
  <2>1. Tables(rows, uses, password)
    BY <1>1, <1>3 DEF Tables
  <2> QED
    BY <1>1, <2>1, NoWritesFacts DEF TxInv
<1>6. OpInv
  BY <1>1, <1>2 DEF OpInv, Shape, Creating, Cancelling, Verifying, Resetting
<1> QED
  BY <1>4, <1>5, <1>6 DEF IInv

LEMMA ViewFacts ==
    ASSUME TypeOK
    PROVE  /\ IsTable(View)
           /\ DOMAIN View = DOMAIN rows \cup DOMAIN tx.rows
           /\ \A t \in DOMAIN tx.rows : View[t] = tx.rows[t]
           /\ \A t \in DOMAIN rows : t \in DOMAIN tx.rows \/ View[t] = rows[t]
           /\ \A t \in DOMAIN View : View[t] \in Row /\ t \in TokenIds
<1>1. IsTable(rows) /\ IsTable(tx.rows)
  BY DEF TypeOK, IsWrites
<1>2. /\ IsTable(View)
      /\ DOMAIN View = DOMAIN rows \cup DOMAIN tx.rows
      /\ \A t \in DOMAIN tx.rows : View[t] = tx.rows[t]
      /\ \A t \in DOMAIN rows : t \in DOMAIN tx.rows \/ View[t] = rows[t]
  BY <1>1, OverFacts DEF View
<1>3. \A t \in DOMAIN View : View[t] \in Row /\ t \in TokenIds
  BY <1>2 DEF IsTable
<1> QED
  BY <1>2, <1>3

LEMMA CommittedFacts ==
    ASSUME TypeOK, NEW w, IsWrites(w), DOMAIN w.rows \subseteq 1..lastId, Committed(w)
    PROVE  /\ Installs(w, rows, uses, password, rows', uses', password')
           /\ IsTable(rows') /\ DOMAIN rows' \subseteq 1..lastId
           /\ uses' \in [TokenIds -> Nat]
           /\ password' \in {0} \cup TokenIds
<1>1. IsTable(rows) /\ IsTable(w.rows) /\ DOMAIN rows \subseteq 1..lastId
  BY DEF TypeOK, IsWrites
<1>2. rows' = Over(rows, w.rows)
  BY DEF Committed
<1>3. /\ IsTable(rows')
      /\ DOMAIN rows' = DOMAIN rows \cup DOMAIN w.rows
      /\ \A t \in DOMAIN w.rows : rows'[t] = w.rows[t]
      /\ \A t \in DOMAIN rows : t \in DOMAIN w.rows \/ rows'[t] = rows[t]
  <2>1. /\ IsTable(Over(rows, w.rows))
        /\ DOMAIN Over(rows, w.rows) = DOMAIN rows \cup DOMAIN w.rows
        /\ \A t \in DOMAIN w.rows : Over(rows, w.rows)[t] = w.rows[t]
        /\ \A t \in DOMAIN rows : t \in DOMAIN w.rows \/ Over(rows, w.rows)[t] = rows[t]
    BY <1>1, OverFacts
  <2> QED
    BY <1>2, <2>1, Zenon
<1>4. /\ \A t \in TokenIds : uses'[t] = IF t = w.password THEN uses[t] + 1 ELSE uses[t]
      /\ uses' \in [TokenIds -> Nat]
  BY DEF Committed, TypeOK
<1>5. /\ password' = IF w.password = 0 THEN password ELSE w.password
      /\ password' \in {0} \cup TokenIds
  BY DEF Committed, TypeOK, IsWrites
<1> QED
  BY <1>1, <1>3, <1>4, <1>5 DEF Installs

LEMMA WritesTyped ==
    ASSUME TypeOK
    PROVE  /\ IsWrites(tx) /\ DOMAIN tx.rows \subseteq 1..lastId
           /\ \A x \in late : IsWrites(x) /\ DOMAIN x.rows \subseteq 1..lastId
           /\ IsTable(rows) /\ DOMAIN rows \subseteq 1..lastId
           /\ IsUses(uses) /\ lastId \in Nat
BY TokenIdsNat DEF TypeOK, IsUses

-----------------------------------------------------------------------------
(* Tables and open transactions *)

\* A step that commits nothing and writes nothing.
LEMMA QuietTx ==
    ASSUME TypeOK, TxInv, UNCHANGED <<rows, uses, password, late>>, tx' \in {tx, NoWrites}
    PROVE  TxInv'
<1>1. Sound(tx, rows, uses)'
  <2>1. CASE tx' = tx
    BY <2>1 DEF TxInv
  <2>2. CASE tx' = NoWrites
    BY <2>2, NoWritesFacts
  <2> QED
    BY <2>1, <2>2
<1>2. ASSUME NEW x \in late PROVE Apart(x, tx') /\ Apart(tx', x)
  <2>1. CASE tx' = tx
    BY <2>1 DEF TxInv
  <2>2. CASE tx' = NoWrites
    BY <2>2, NoWritesFacts, WritesTyped
  <2> QED
    BY <2>1, <2>2
<1> QED
  BY <1>1, <1>2 DEF TxInv

\* The running transaction becomes late.
LEMMA LoseTx ==
    ASSUME TypeOK, TxInv, Ended(tx), UNCHANGED <<rows, uses, password>>,
           late' = late \cup {tx}, tx' = NoWrites
    PROVE  TxInv'
<1>1. Sound(tx', rows, uses)
  BY NoWritesFacts
<1>2. ASSUME NEW x \in late'
      PROVE  Sound(x, rows, uses) /\ Ended(x) /\ Apart(x, tx') /\ Apart(tx', x)
  <2>1. Sound(x, rows, uses) /\ Ended(x) /\ IsWrites(x)
    BY WritesTyped DEF TxInv
  <2> QED
    BY <2>1, NoWritesFacts
<1>3. ASSUME NEW x \in late', NEW y \in late' PROVE x = y \/ Apart(x, y)
  BY DEF TxInv
<1> QED
  BY <1>1, <1>2, <1>3 DEF TxInv

\* The running transaction commits.
LEMMA CommitTx ==
    ASSUME TypeOK, TxInv, Ended(tx), Committed(tx), UNCHANGED late, tx' = NoWrites
    PROVE  TxInv' /\ password <= password'
<1>1. Installs(tx, rows, uses, password, rows', uses', password')
  BY CommittedFacts, WritesTyped
<1>2. Tables(rows', uses', password') /\ password <= password'
  <2>1. IsWrites(tx) /\ IsTable(rows) /\ IsUses(uses) /\ password \in {0} \cup TokenIds
    BY WritesTyped DEF TypeOK
  <2>2. Tables(rows, uses, password) /\ Sound(tx, rows, uses)
    BY DEF TxInv
  <2> QED
    BY <1>1, <2>1, <2>2, InstallTables
<1>3. Sound(tx', rows', uses')
  BY NoWritesFacts
<1>4. ASSUME NEW x \in late
      PROVE  Sound(x, rows', uses') /\ Ended(x) /\ Apart(x, tx') /\ Apart(tx', x)
  <2>1. /\ IsWrites(x) /\ IsWrites(tx)
        /\ Sound(x, rows, uses) /\ Ended(x) /\ Apart(x, tx)
    BY WritesTyped DEF TxInv
  <2>2. Sound(x, rows', uses')
    BY <1>1, <2>1, InstallSound
  <2> QED
    BY <2>1, <2>2, NoWritesFacts
<1> QED
  BY <1>2, <1>3, <1>4 DEF TxInv

\* A late transaction commits.
LEMMA LateTx ==
    ASSUME TypeOK, TxInv, NEW z \in late, Committed(z), late' = late \ {z}, UNCHANGED tx
    PROVE  TxInv' /\ password <= password'
<1>1. /\ IsWrites(z) /\ Sound(z, rows, uses) /\ Ended(z)
      /\ Installs(z, rows, uses, password, rows', uses', password')
  BY CommittedFacts, WritesTyped DEF TxInv
<1>2. Tables(rows', uses', password') /\ password <= password'
  <2>1. IsTable(rows) /\ IsUses(uses) /\ password \in {0} \cup TokenIds
    BY WritesTyped DEF TypeOK
  <2>2. Tables(rows, uses, password)
    BY DEF TxInv
  <2> QED
    BY <1>1, <2>1, <2>2, InstallTables
<1>3. Sound(tx, rows', uses')
  <2>1. IsWrites(tx) /\ Sound(tx, rows, uses) /\ Apart(tx, z)
    BY WritesTyped DEF TxInv
  <2> QED
    BY <1>1, <2>1, InstallSound
<1>4. ASSUME NEW x \in late \ {z}
      PROVE  Sound(x, rows', uses') /\ Ended(x) /\ Apart(x, tx) /\ Apart(tx, x)
  <2>1. /\ IsWrites(x) /\ Sound(x, rows, uses) /\ Ended(x)
        /\ Apart(x, z) /\ Apart(x, tx) /\ Apart(tx, x)
    BY <1>4, WritesTyped DEF TxInv
  <2>2. Sound(x, rows', uses')
    BY <1>1, <2>1, InstallSound
  <2> QED
    BY <2>1, <2>2
<1> QED
  BY <1>2, <1>3, <1>4 DEF TxInv

\* A late transaction aborts.
LEMMA AbortTx ==
    ASSUME TxInv, NEW z \in late, late' = late \ {z}, UNCHANGED <<rows, uses, password, tx>>
    PROVE  TxInv'
BY DEF TxInv

\* The running transaction writes a row.
WritesRow(t, row) == tx' = [tx EXCEPT !.rows = Over(@, [s \in {t} |-> row])]

LEMMA WroteTx ==
    ASSUME TypeOK, NEW t \in TokenIds, NEW row \in Row, WritesRow(t, row)
    PROVE  IsWrites(tx') /\ Wrote(tx, t, row, tx')
BY WroteFacts, WritesTyped DEF WritesRow

\* The running transaction writes a row that is not locked and, if it becomes
\* active, is newer than any row of a late one, all of which are dead.
LEMMA WriteTx ==
    ASSUME TypeOK, TxInv, NEW t \in TokenIds, NEW row \in Row, ~Locked(t),
           WritesRow(t, row),
           UNCHANGED <<rows, uses, password, late>>,
           Sound(tx', rows, uses),
           \A x \in late : Active(row) =>
                \A s \in DOMAIN x.rows : s < t /\ ~Active(x.rows[s]),
           \A x \in late : \A u \in DOMAIN x.rows :
                Active(x.rows[u]) => t < u /\ ~Active(row)
    PROVE  TxInv'
<1>1. IsWrites(tx') /\ Wrote(tx, t, row, tx')
  BY WroteTx
<1>2. ASSUME NEW x \in late PROVE Apart(x, tx') /\ Apart(tx', x)
  <2>1. /\ IsWrites(tx) /\ IsWrites(x) /\ Ended(x) /\ Apart(tx, x) /\ Apart(x, tx)
        /\ t \notin DOMAIN x.rows
    BY WritesTyped DEF TxInv, Locked
  <2> QED
    BY <1>1, <2>1, WriteApart
<1> QED
  BY <1>2 DEF TxInv

\* It marks a row of the table that is dead then.
LEMMA WriteDead ==
    ASSUME TypeOK, TxInv, NEW t \in DOMAIN rows, NEW row \in Row, ~Active(row), ~Locked(t),
           Harmless(tx, rows),
           WritesRow(t, row),
           UNCHANGED <<rows, uses, password, late>>
    PROVE  TxInv' /\ Harmless(tx', rows)
<1>0. t \in TokenIds /\ DOMAIN rows \subseteq TokenIds
  BY DEF TypeOK, IsTable
<1>1. IsWrites(tx') /\ Wrote(tx, t, row, tx')
  BY <1>0, WroteTx
<1>2. Harmless(tx', rows)
  BY <1>1 DEF Harmless, Wrote
<1>3. Sound(tx', rows, uses)
  BY <1>1, <1>2 DEF Sound, Harmless, Wrote, TxInv
<1>4. ASSUME NEW x \in late, NEW u \in DOMAIN x.rows, Active(x.rows[u])
      PROVE  t < u
  <2>1. t <= u /\ t # u
    BY <1>4 DEF TxInv, Sound, Locked
  <2>2. t \in Nat /\ u \in Nat
    BY <1>0, WritesTyped, TokenIdsNat DEF IsWrites, IsTable
  <2> QED
    BY <2>1, <2>2
<1>5. TxInv'
  BY <1>0, <1>3, <1>4, WriteTx
<1> QED
  BY <1>2, <1>5

\* verifyPasswordReset marks a row and leaves it active, or makes it active again.
LEMMA WriteVerified ==
    ASSUME TypeOK, TxInv, NEW t \in DOMAIN rows, NEW row \in Row, Active(row), ~Locked(t),
           ~IndexWaits(t), Rivals(t) = {}, tx = NoWrites, uses[t] = 0,
           \A s \in DOMAIN rows : s <= t \/ Active(rows[s]),
           \A x \in late : \A s \in DOMAIN x.rows : s <= t \/ Active(x.rows[s]),
           WritesRow(t, row),
           UNCHANGED <<rows, uses, password, late>>
    PROVE  TxInv'
<1>0. t \in TokenIds /\ DOMAIN rows \subseteq TokenIds
  BY DEF TypeOK, IsTable
<1>1. IsWrites(tx') /\ Wrote(tx, t, row, tx')
  BY <1>0, WroteTx
<1>2. \A s \in DOMAIN rows : s = t \/ ~Active(rows[s])
  <2>1. ASSUME NEW s \in DOMAIN rows, s # t PROVE ~Active(rows[s])
    <3>1. s \in DOMAIN View /\ View[s] = rows[s]
      BY ViewFacts, NoWritesFacts
    <3> QED
      BY <2>1, <3>1 DEF Rivals
  <2> QED
    BY <2>1
<1>3. DOMAIN tx'.rows = {t} /\ tx'.rows[t] = row /\ tx'.password = 0
  <2>1. DOMAIN tx.rows = {} /\ tx.password = 0
    BY NoWritesFacts, Zenon
  <2>2. DOMAIN tx'.rows = {} \cup {t} /\ tx'.rows[t] = row /\ tx'.password = 0
    BY <1>1, <2>1, Zenon DEF Wrote
  <2> QED
    BY <2>2
<1>4. t <= t
  BY <1>0, TokenIdsNat
<1>5. Sound(tx', rows, uses)
  BY <1>2, <1>3, <1>4 DEF Sound
<1>6. ASSUME NEW x \in late, NEW s \in DOMAIN x.rows PROVE s < t /\ ~Active(x.rows[s])
  <2>1. s # t
    BY DEF Locked
  <2>2. ~Active(x.rows[s])
    BY <2>1 DEF IndexWaits
  <2>3. s <= t
    BY <2>2
  <2>4. t \in Nat /\ s \in Nat
    BY <1>0, WritesTyped, TokenIdsNat DEF IsWrites, IsTable
  <2> QED
    BY <2>1, <2>2, <2>3, <2>4
<1> QED
  BY <1>0, <1>5, <1>6, WriteTx

\* createPasswordReset inserts its token.
LEMMA WriteNew ==
    ASSUME TypeOK, TxInv, NEW t \in TokenIds, t = lastId + 1, NEW row \in Row, row = {},
           ~IndexWaits(t), Rivals(t) = {}, Harmless(tx, rows), tx.password = 0,
           WritesRow(t, row),
           UNCHANGED <<rows, uses, password, late>>
    PROVE  TxInv'
<1>0. Active(row)
  BY ActiveFacts
<1>1. IsWrites(tx') /\ Wrote(tx, t, row, tx')
  BY WroteTx
<1>2. \A s \in 1..lastId : s < t /\ s # t
  BY WritesTyped
<1>3. \A s \in DOMAIN rows : Active(rows[s]) => s \in DOMAIN tx.rows
  <2>1. SUFFICES ASSUME NEW s \in DOMAIN rows, Active(rows[s]), s \notin DOMAIN tx.rows
                 PROVE  FALSE
    OBVIOUS
  <2>2. s \in DOMAIN View /\ View[s] = rows[s]
    BY <2>1, ViewFacts
  <2>3. s # t
    BY <1>2, WritesTyped
  <2> QED
    BY <2>1, <2>2, <2>3 DEF Rivals
<1>4. uses[t] = 0
  BY <1>2, WritesTyped DEF TxInv, Tables
<1>5. Sound(tx', rows, uses)
  <2>1. \A s \in DOMAIN tx'.rows : Active(tx'.rows[s]) => s = t
    BY <1>1 DEF Wrote, Harmless
  <2>2. \A s \in DOMAIN rows : s <= t /\ (Active(rows[s]) => s \in DOMAIN tx'.rows)
    BY <1>1, <1>2, <1>3, WritesTyped DEF Wrote
  <2>3. ASSUME NEW s \in DOMAIN tx'.rows PROVE s <= t
    <3>1. s = t \/ s \in 1..lastId
      BY <1>1, WritesTyped DEF Wrote
    <3>2. lastId \in Nat
      BY WritesTyped
    <3> QED
      BY <3>1, <3>2
  <2>4. \A s \in DOMAIN tx'.rows : s \in DOMAIN rows \/ Active(tx'.rows[s])
    BY <1>0, <1>1 DEF Wrote, Harmless
  <2> QED
    BY <1>1, <1>4, <2>1, <2>2, <2>3, <2>4 DEF Sound, Wrote
<1>6. ASSUME NEW x \in late, NEW s \in DOMAIN x.rows PROVE s < t /\ ~Active(x.rows[s])
  <2>1. s < t /\ s # t
    BY <1>2, WritesTyped
  <2> QED
    BY <2>1 DEF IndexWaits
<1>7. ~Locked(t)
  BY <1>2, WritesTyped DEF Locked
<1> QED
  BY <1>0, <1>5, <1>6, <1>7, WriteTx

-----------------------------------------------------------------------------
(* Types *)

LEMMA OpFacts ==
    ASSUME op \in Op
    PROVE  /\ op.name \in {"none", "create", "cancel", "verify", "reset"}
           /\ op.token \in {0} \cup TokenIds
           /\ op.at \in {"select", "find", "update", "user", "insert", "commit"}
           /\ op.todo \subseteq TokenIds
           /\ op.object \in Row
BY DEF Op

LEMMA IdleFacts ==
    /\ Idle \in Op /\ Idle.name = "none" /\ Idle.token = 0 /\ Idle.at = "select"
    /\ Idle.todo = {}
BY DEF Idle, Op, Row

Mails == [TokenIds -> {"none", "posted", "failed", "sent"}]
Answers == TokenIds \X {"verified", "changed"}

\* A step that writes nothing.
LEMMA TypeQuiet ==
    ASSUME TypeOK, up' \in BOOLEAN, op' \in Op, mail' \in Mails, told' \subseteq Answers,
           UNCHANGED <<rows, password, lastId, uses>>,
           tx' \in {tx, NoWrites}, late' \subseteq late \cup {tx}
    PROVE  TypeOK'
<1>1. ASSUME NEW x \in late' \cup {tx'} PROVE IsWrites(x) /\ DOMAIN x.rows \subseteq 1..lastId
  <2>1. CASE x \in late \cup {tx}
    BY <2>1 DEF TypeOK
  <2>2. CASE x = NoWrites
    BY <2>2, NoWritesFacts, Zenon
  <2> QED
    BY <2>1, <2>2
<1> QED
  BY <1>1 DEF TypeOK, Mails, Answers

\* A step of an operation that writes nothing.
LEMMA TypeGoes ==
    ASSUME TypeOK, NEW next, next \in Op, Goes(next), tx' \in {tx, NoWrites}
    PROVE  TypeOK' /\ op' = next /\ UNCHANGED <<rows, password, lastId, late, uses>>
<1>1. /\ op' = next /\ UNCHANGED <<up, rows, password, lastId, late, mail, told, uses>>
  BY DEF Goes
<1>2. up' \in BOOLEAN /\ mail' \in Mails /\ told' \subseteq Answers
  BY <1>1 DEF TypeOK, Mails, Answers
<1> QED
  BY <1>1, <1>2, TypeQuiet

\* A step that writes a row, new or not.
LEMMA TypeWrite ==
    ASSUME TypeOK, NEW t \in TokenIds, NEW row \in Row, WritesRow(t, row), op' \in Op,
           lastId' \in TokenIds \cup {0}, lastId <= lastId', t <= lastId',
           UNCHANGED <<up, rows, password, late, mail, told, uses>>
    PROVE  TypeOK'
<1>1. IsWrites(tx') /\ DOMAIN tx'.rows = DOMAIN tx.rows \cup {t}
  BY WroteTx DEF Wrote
<1>2. 1..lastId \subseteq 1..lastId'
  BY WritesTyped, TokenIdsNat
<1>3. t \in 1..lastId'
  BY TokenIdsNat, TxAssumption DEF TokenIds
<1>4. ASSUME NEW x \in late' \cup {tx'} PROVE IsWrites(x) /\ DOMAIN x.rows \subseteq 1..lastId'
  <2>1. CASE x \in late
    BY <1>2, <2>1, WritesTyped
  <2>2. CASE x = tx'
    <3>1. IsWrites(tx') /\ DOMAIN tx'.rows \subseteq 1..lastId'
      BY <1>1, <1>2, <1>3, WritesTyped
    <3> QED
      BY <2>2, <3>1, Zenon
  <2> QED
    BY <2>1, <2>2
<1>5. IsTable(rows)' /\ DOMAIN rows' \subseteq 1..lastId'
  BY <1>2, WritesTyped
<1> QED
  BY <1>4, <1>5 DEF TypeOK

\* A transaction commits.
LEMMA TypeCommitted ==
    ASSUME TypeOK, NEW w, IsWrites(w), DOMAIN w.rows \subseteq 1..lastId, Committed(w),
           UNCHANGED <<up, lastId>>, op' \in Op, mail' \in Mails, told' \subseteq Answers,
           tx' \in {tx, NoWrites}, late' \subseteq late
    PROVE  TypeOK'
<1>1. /\ IsTable(rows') /\ DOMAIN rows' \subseteq 1..lastId
      /\ uses' \in [TokenIds -> Nat]
      /\ password' \in {0} \cup TokenIds
  BY CommittedFacts
<1>2. ASSUME NEW x \in late' \cup {tx'} PROVE IsWrites(x) /\ DOMAIN x.rows \subseteq 1..lastId
  <2>1. CASE x \in late \cup {tx}
    BY <2>1 DEF TypeOK
  <2>2. CASE x = NoWrites
    BY <2>2, NoWritesFacts, Zenon
  <2> QED
    BY <2>1, <2>2
<1> QED
  BY <1>1, <1>2 DEF TypeOK, Mails, Answers

-----------------------------------------------------------------------------
(* Each step keeps the invariant *)

LEMMA IdleOp ==
    ASSUME op' = Idle, tx' = NoWrites
    PROVE  OpInv'
<1>1. op'.name = "none" /\ op'.at = "select"
  BY IdleFacts
<1> QED
  BY <1>1 DEF OpInv, Shape, Creating, Cancelling, Verifying, Resetting

\* Once an operation has come to its commit, only its transaction matters.
LEMMA AtCommit ==
    ASSUME op.name \in {"create", "cancel", "verify", "reset"}, op'.name = op.name,
           op'.at = "commit", op'.token \in TokenIds,
           Ended(tx'), op.name = "create" => tx'.password = 0
    PROVE  OpInv'
BY DEF OpInv, Shape, Creating, Cancelling, Verifying, Resetting

LEMMA RollbackStep == IInv /\ Rollback => IInv'
<1> SUFFICES ASSUME IInv, Rollback PROVE IInv'
  OBVIOUS
<1>1. op' = Idle /\ tx' = NoWrites /\ Goes(Idle)
  BY DEF Rollback, Goes
<1>2. TypeOK' /\ UNCHANGED <<rows, password, late, uses>>
  BY <1>1, IdleFacts, TypeGoes DEF IInv
<1>3. TxInv'
  BY <1>1, <1>2, QuietTx DEF IInv
<1> QED
  BY <1>1, <1>2, <1>3, IdleOp DEF IInv

\* An operation begins.
LEMMA BeginInv ==
    ASSUME IInv, op = Idle, NEW n \in {"create", "cancel", "verify", "reset"},
           NEW t \in {0} \cup TokenIds, n = "create" \/ t \in TokenIds,
           n = "create" => lastId < MaxTokens,
           op' = [Idle EXCEPT !.name = n, !.token = t], mail' \in Mails,
           UNCHANGED <<up, rows, password, lastId, tx, late, told, uses>>
    PROVE  IInv'
<1>1. tx = NoWrites
  BY IdleFacts DEF IInv, OpInv, Shape
<1>2. op' \in Op /\ op'.name = n /\ op'.token = t /\ op'.at = "select" /\ op'.todo = {}
  BY DEF Idle, Op, Row
<1>3. TypeOK'
  <2>1. up' \in BOOLEAN /\ told' \subseteq Answers
    BY DEF IInv, TypeOK, Answers
  <2> QED
    BY <1>2, <2>1, TypeQuiet DEF IInv
<1>4. TxInv'
  BY QuietTx DEF IInv
<1>5. DOMAIN tx'.rows = {} /\ tx'.password = 0 /\ tx' = NoWrites
  <2>1. tx' = NoWrites
    BY <1>1
  <2> QED
    BY <2>1, NoWritesFacts, Zenon
<1>6. OpInv'
  BY <1>2, <1>5 DEF OpInv, Shape, Creating, Cancelling, Verifying, Resetting, Harmless
<1> QED
  BY <1>3, <1>4, <1>6 DEF IInv

LEMMA BeginsStep == IInv /\ Begins => IInv'
<1> SUFFICES ASSUME IInv, Begins PROVE IInv'
  OBVIOUS
<1>0. mail \in Mails
  BY DEF IInv, TypeOK, Mails
<1>1. CASE BeginCreate
  <2>1. /\ op = Idle /\ lastId < MaxTokens /\ op' = [Idle EXCEPT !.name = "create", !.token = 0]
        /\ UNCHANGED <<up, rows, password, lastId, tx, late, told, uses, mail>>
    BY <1>1 DEF BeginCreate, Begin, Goes
  <2> QED
    BY <1>0, <2>1, BeginInv
<1>2. ASSUME NEW t \in TokenIds, BeginCancel(t) PROVE IInv'
  <2>1. /\ op = Idle /\ op' = [Idle EXCEPT !.name = "cancel", !.token = t]
        /\ mail' = [mail EXCEPT ![t] = "none"]
        /\ UNCHANGED <<up, rows, password, lastId, tx, late, told, uses>>
    BY <1>2 DEF BeginCancel
  <2>2. mail' \in Mails
    BY <1>0, <2>1 DEF Mails
  <2> QED
    BY <2>1, <2>2, BeginInv
<1>3. ASSUME NEW t \in TokenIds, BeginVerify(t) PROVE IInv'
  <2>1. /\ op = Idle /\ op' = [Idle EXCEPT !.name = "verify", !.token = t]
        /\ UNCHANGED <<up, rows, password, lastId, tx, late, told, uses, mail>>
    BY <1>3 DEF BeginVerify, Begin, Goes
  <2> QED
    BY <1>0, <2>1, BeginInv
<1>4. ASSUME NEW t \in TokenIds, BeginReset(t) PROVE IInv'
  <2>1. /\ op = Idle /\ op' = [Idle EXCEPT !.name = "reset", !.token = t]
        /\ UNCHANGED <<up, rows, password, lastId, tx, late, told, uses, mail>>
    BY <1>4 DEF BeginReset, Begin, Goes
  <2> QED
    BY <1>0, <2>1, BeginInv
<1> QED
  BY <1>1, <1>2, <1>3, <1>4 DEF Begins

\* The mail client, and a new process.
LEMMA OutsideStep ==
    ASSUME IInv, up' \in BOOLEAN, mail' \in Mails,
           UNCHANGED <<rows, password, lastId, op, tx, late, told, uses>>
    PROVE  IInv'
<1>1. op' \in Op /\ told' \subseteq Answers
  BY DEF IInv, TypeOK, Answers
<1>2. TypeOK'
  BY <1>1, TypeQuiet DEF IInv
<1>3. TxInv'
  BY QuietTx DEF IInv
<1>4. OpInv'
  BY DEF IInv, OpInv, Shape, Creating, Cancelling, Verifying, Resetting
<1> QED
  BY <1>2, <1>3, <1>4 DEF IInv

LEMMA MailStep ==
    ASSUME IInv, NEW t \in TokenIds, CannotCancel(t) \/ MailReplyFinished(t)
    PROVE  IInv'
<1>1. mail' \in Mails /\ up' \in BOOLEAN
  BY DEF IInv, TypeOK, Mails, CannotCancel, MailReplyFinished
<1> QED
  BY <1>1, OutsideStep DEF CannotCancel, MailReplyFinished

LEMMA StartStep == IInv /\ Start => IInv'
<1> SUFFICES ASSUME IInv, Start PROVE IInv'
  OBVIOUS
<1>1. mail' \in Mails /\ up' \in BOOLEAN
  BY DEF IInv, TypeOK, Mails, Start
<1> QED
  BY <1>1, OutsideStep DEF Start

\* createPasswordReset goes on, having written nothing or a dead row.
LEMMA CreateGoes ==
    ASSUME IInv, op.name = "create", op.at # "commit", TypeOK', TxInv',
           UNCHANGED <<rows, lastId>>, tx'.password = 0, Harmless(tx', rows),
           op'.name = "create", op'.at \in {"find", "update", "insert"},
           op'.todo \subseteq DOMAIN rows,
           op'.at = "update" => op'.token \in DOMAIN rows /\ ~Active(op'.object)
    PROVE  IInv'
BY DEF IInv, OpInv, Shape, Creating, Cancelling, Verifying, Resetting, Harmless

LEMMA NextToReplaceFacts ==
    ASSUME op \in Op, NEW todo \in SUBSET TokenIds
    PROVE  /\ NextToReplace(todo) \in Op
           /\ NextToReplace(todo).name = op.name
           /\ NextToReplace(todo).at \in {"find", "insert"}
           /\ NextToReplace(todo).todo = todo
BY DEF Op, NextToReplace

LEMMA SelectActiveStep == IInv /\ SelectActive => IInv'
<1> SUFFICES ASSUME IInv, SelectActive PROVE IInv'
  OBVIOUS
<1> DEFINE todo == {t \in DOMAIN View : Active(View[t])}
<1>1. /\ op.name = "create" /\ op.at = "select" /\ Goes(NextToReplace(todo)) /\ tx' = tx
      /\ op \in Op /\ tx = NoWrites
  BY DEF SelectActive, Runs, IInv, TypeOK, OpInv, Shape
<1>2. DOMAIN tx.rows = {} /\ tx.password = 0
  BY <1>1, NoWritesFacts, Zenon
<1>3. todo \subseteq DOMAIN rows /\ todo \subseteq TokenIds
  BY <1>2, ViewFacts DEF IInv
<1> HIDE DEF todo
<1>4. /\ NextToReplace(todo) \in Op /\ NextToReplace(todo).name = "create"
      /\ NextToReplace(todo).at \in {"find", "insert"}
      /\ NextToReplace(todo).todo = todo
  BY <1>1, <1>3, NextToReplaceFacts
<1>5. TypeOK' /\ op' = NextToReplace(todo) /\ UNCHANGED <<rows, password, lastId, late, uses>>
  BY <1>1, <1>4, TypeGoes DEF IInv
<1>6. TxInv'
  BY <1>1, <1>5, QuietTx DEF IInv
<1>7. tx'.password = 0 /\ Harmless(tx', rows)
  BY <1>1, <1>2 DEF Harmless
<1> QED
  BY <1>1, <1>3, <1>4, <1>5, <1>6, <1>7, CreateGoes

LEMMA FindActiveStep == ASSUME NEW t \in TokenIds PROVE IInv /\ FindActive(t) => IInv'
<1> SUFFICES ASSUME IInv, FindActive(t) PROVE IInv'
  OBVIOUS
<1> DEFINE next == [op EXCEPT !.token = t, !.at = "update", !.object = View[t] \cup {"replaced"}]
<1>1. /\ op.name = "create" /\ op.at = "find" /\ Goes(next) /\ tx' = tx
      /\ op \in Op /\ t \in op.todo
  BY DEF FindActive, Runs, IInv, TypeOK
<1>2. tx.password = 0 /\ Harmless(tx, rows) /\ op.todo \subseteq DOMAIN rows
  BY <1>1 DEF IInv, OpInv, Creating
<1>3. View[t] \in Row
  BY <1>1, <1>2, ViewFacts DEF IInv
<1>4. /\ next \in Op
      /\ next.name = "create" /\ next.token = t /\ next.at = "update"
      /\ next.todo = op.todo /\ next.object = View[t] \cup {"replaced"}
  <2>1. View[t] \cup {"replaced"} \in Row
    BY <1>3 DEF Row, Marks
  <2> QED
    BY <1>1, <2>1 DEF Op
<1>5. ~Active(next.object)
  BY <1>4, ActiveFacts
<1> HIDE DEF next
<1>6. TypeOK' /\ op' = next /\ UNCHANGED <<rows, password, lastId, late, uses>>
  BY <1>1, <1>4, TypeGoes DEF IInv
<1>7. TxInv'
  BY <1>1, <1>6, QuietTx DEF IInv
<1>8. tx'.password = 0 /\ Harmless(tx', rows) /\ t \in DOMAIN rows
  BY <1>1, <1>2
<1> QED
  BY <1>1, <1>2, <1>4, <1>5, <1>6, <1>7, <1>8, CreateGoes

\* UPDATE of a dead row.
LEMMA DeadStep ==
    ASSUME IInv, NEW t \in DOMAIN rows, NEW row \in Row, ~Active(row), Harmless(tx, rows),
           NEW next \in Op, Write(t, row, next)
    PROVE  /\ op' = next /\ UNCHANGED <<rows, password, lastId, late, uses>>
           /\ TypeOK' /\ TxInv' /\ Harmless(tx', rows)
           /\ t \in TokenIds /\ Wrote(tx, t, row, tx')
<1>1. ~Locked(t) /\ Goes(next) /\ WritesRow(t, row)
  BY DEF Write, WritesRow
<1>2. /\ op' = next /\ UNCHANGED <<up, rows, password, lastId, late, mail, told, uses>>
  BY <1>1 DEF Goes
<1>3. TxInv' /\ Harmless(tx', rows)
  BY <1>1, <1>2, WriteDead DEF IInv
<1>4. t \in TokenIds /\ t <= lastId /\ lastId' \in TokenIds \cup {0} /\ lastId <= lastId'
  <2>1. t \in 1..lastId /\ lastId \in Nat
    BY WritesTyped DEF IInv
  <2>2. t \in TokenIds /\ lastId \in {0} \cup TokenIds
    BY DEF IInv, TypeOK, IsTable
  <2> QED
    BY <1>2, <2>1, <2>2
<1>5. TypeOK'
  BY <1>1, <1>2, <1>4, TypeWrite DEF IInv
<1>6. Wrote(tx, t, row, tx')
  BY <1>1, <1>4, WroteTx DEF IInv
<1> QED
  BY <1>2, <1>3, <1>4, <1>5, <1>6

LEMMA UpdateReplacedStep == IInv /\ UpdateReplaced => IInv'
<1> SUFFICES ASSUME IInv, UpdateReplaced PROVE IInv'
  OBVIOUS
<1> DEFINE todo == op.todo \ {op.token}
<1>1. /\ op.name = "create" /\ op.at = "update" /\ op \in Op
      /\ Write(op.token, op.object, NextToReplace(todo))
  BY DEF UpdateReplaced, Runs, IInv, TypeOK
<1>2. /\ tx.password = 0 /\ Harmless(tx, rows) /\ op.todo \subseteq DOMAIN rows
      /\ op.token \in DOMAIN rows /\ ~Active(op.object) /\ op.object \in Row
  BY <1>1, OpFacts DEF IInv, OpInv, Creating
<1>3. todo \in SUBSET TokenIds /\ todo \subseteq DOMAIN rows
  BY <1>1, <1>2, OpFacts
<1> HIDE DEF todo
<1>4. /\ NextToReplace(todo) \in Op /\ NextToReplace(todo).name = "create"
      /\ NextToReplace(todo).at \in {"find", "insert"}
      /\ NextToReplace(todo).todo = todo
  BY <1>1, <1>3, NextToReplaceFacts
<1>5. /\ op' = NextToReplace(todo) /\ UNCHANGED <<rows, lastId>>
      /\ TypeOK' /\ TxInv' /\ Harmless(tx', rows)
      /\ Wrote(tx, op.token, op.object, tx')
  BY <1>1, <1>2, <1>4, DeadStep
<1>6. tx'.password = 0
  BY <1>2, <1>5 DEF Wrote
<1> QED
  BY <1>1, <1>3, <1>4, <1>5, <1>6, CreateGoes

\* The id is drawn, and the row inserted or refused.
LEMMA InsertTokenStep == IInv /\ InsertToken => IInv'
<1> SUFFICES ASSUME IInv, InsertToken PROVE IInv'
  OBVIOUS
<1> DEFINE t == lastId + 1
<1>1. /\ op.name = "create" /\ op.at = "insert" /\ op \in Op /\ ~IndexWaits(t)
      /\ lastId' = t
      /\ UNCHANGED <<up, rows, password, late, mail, told, uses>>
  BY DEF InsertToken, Runs, IInv, TypeOK
<1>2. tx.password = 0 /\ Harmless(tx, rows) /\ lastId < MaxTokens
  BY <1>1 DEF IInv, OpInv, Creating
<1>3. lastId \in Nat /\ t \in TokenIds /\ lastId <= t /\ t <= t
  BY <1>2, WritesTyped, TxAssumption DEF IInv, TokenIds
<1>4. CASE Rivals(t) # {}
  <2>1. op' = Idle /\ tx' = NoWrites
    BY <1>4 DEF InsertToken
  <2>2. ASSUME NEW x \in late' \cup {tx'}
        PROVE  IsWrites(x) /\ DOMAIN x.rows \subseteq 1..lastId'
    <3>1. CASE x \in late
      <4>1. IsWrites(x) /\ DOMAIN x.rows \subseteq 1..lastId
        BY <3>1, WritesTyped DEF IInv
      <4> QED
        BY <1>1, <1>3, <4>1
    <3>2. CASE x = NoWrites
      BY <3>2, NoWritesFacts, Zenon
    <3> QED
      BY <1>1, <2>1, <2>2, <3>1, <3>2
  <2>3. TypeOK'
    <3>1. IsTable(rows') /\ DOMAIN rows' \subseteq 1..lastId'
      <4>1. IsTable(rows) /\ DOMAIN rows \subseteq 1..lastId
        BY WritesTyped DEF IInv
      <4> QED
        BY <1>1, <1>3, <4>1
    <3> QED
      BY <1>1, <1>3, <2>1, <2>2, <3>1, IdleFacts DEF IInv, TypeOK
  <2>4. TxInv'
    BY <1>1, <2>1, QuietTx DEF IInv
  <2> QED
    BY <2>1, <2>3, <2>4, IdleOp DEF IInv
<1>5. CASE Rivals(t) = {}
  <2>1. PICK row \in Row : row = {}
    BY DEF Row
  <2>2. op' = [op EXCEPT !.token = t, !.at = "commit"] /\ WritesRow(t, row)
    BY <1>5, <2>1 DEF InsertToken, WritesRow
  <2> HIDE DEF t
  <2>3. op' \in Op /\ op'.name = "create" /\ op'.token = t /\ op'.at = "commit"
    BY <1>1, <1>3, <2>2 DEF Op
  <2>4. TypeOK'
    BY <1>1, <1>3, <2>2, <2>3, TypeWrite DEF IInv
  <2>5. TxInv'
    <3>1. t = lastId + 1
      BY DEF t
    <3> QED
      BY <1>1, <1>2, <1>3, <1>5, <2>1, <2>2, <3>1, WriteNew DEF IInv
  <2>6. tx'.password = 0 /\ Ended(tx')
    BY <1>2, <1>3, <2>2, WroteTx DEF IInv, Wrote, Ended
  <2>7. OpInv'
    BY <1>1, <1>3, <2>3, <2>6, AtCommit
  <2> QED
    BY <2>4, <2>5, <2>7 DEF IInv
<1> QED
  BY <1>4, <1>5

LEMMA SelectToCancelStep == IInv /\ SelectToCancel => IInv'
<1> SUFFICES ASSUME IInv, SelectToCancel PROVE IInv'
  OBVIOUS
<1> DEFINE next == [op EXCEPT !.at = "find"]
<1>1. /\ op.name = "cancel" /\ op.at = "select" /\ op \in Op /\ Goes(next) /\ tx' = tx
      /\ op.token \in DOMAIN View
      /\ tx = NoWrites /\ op.token \in TokenIds
  BY DEF SelectToCancel, Runs, IInv, TypeOK, OpInv, Shape
<1>2. next \in Op /\ next.name = "cancel" /\ next.at = "find" /\ next.token = op.token
  BY <1>1 DEF Op
<1> HIDE DEF next
<1>3. TypeOK' /\ op' = next /\ UNCHANGED <<rows, password, lastId, late, uses>>
  BY <1>1, <1>2, TypeGoes DEF IInv
<1>4. TxInv'
  BY <1>1, <1>3, QuietTx DEF IInv
<1>5. op.token \in DOMAIN rows
  <2>1. DOMAIN tx.rows = {}
    BY <1>1, NoWritesFacts, Zenon
  <2> QED
    BY <1>1, <2>1, ViewFacts DEF IInv
<1>6. OpInv'
  BY <1>1, <1>2, <1>3, <1>5 DEF OpInv, Shape, Creating, Cancelling, Verifying, Resetting
<1> QED
  BY <1>3, <1>4, <1>6 DEF IInv

\* The token is the newest and unused, no late transaction uses it up, and the
\* new rows of late transactions are active.
LEMMA SelectToVerifyStep == IInv /\ SelectToVerify => IInv'
<1> SUFFICES ASSUME IInv, SelectToVerify PROVE IInv'
  OBVIOUS
<1> DEFINE verified == "verified" \in View[op.token]
<1> DEFINE next == [op EXCEPT !.at = IF verified THEN "commit" ELSE "find"]
<1>1. /\ op.name = "verify" /\ op.at = "select" /\ op \in Op /\ Goes(next) /\ tx' = tx
      /\ op.token \in DOMAIN View /\ Active(View[op.token])
      /\ tx = NoWrites /\ op.token \in TokenIds
  BY DEF SelectToVerify, Runs, IInv, TypeOK, OpInv, Shape
<1>2. /\ next \in Op /\ next.name = "verify" /\ next.token = op.token
      /\ next.at = IF verified THEN "commit" ELSE "find"
  BY <1>1 DEF Op
<1> HIDE DEF next
<1>3. TypeOK' /\ op' = next /\ UNCHANGED <<rows, password, lastId, late, uses>>
  BY <1>1, <1>2, TypeGoes DEF IInv
<1>4. TxInv'
  BY <1>1, <1>3, QuietTx DEF IInv
<1>5. tx' = NoWrites /\ Ended(tx')
  <2>1. tx' = NoWrites
    BY <1>1
  <2> QED
    BY <2>1, NoWritesFacts, Zenon
<1>6. CASE verified
  <2>1. op'.name = op.name /\ op'.at = "commit" /\ op'.token \in TokenIds
    BY <1>1, <1>2, <1>3, <1>6
  <2>2. OpInv'
    BY <1>1, <1>5, <2>1, AtCommit
  <2> QED
    BY <1>3, <1>4, <2>2 DEF IInv
<1>7. CASE ~verified
  <2>1. op.token \in DOMAIN rows /\ View[op.token] = rows[op.token]
    <3>1. DOMAIN tx.rows = {}
      BY <1>1, NoWritesFacts, Zenon
    <3> QED
      BY <1>1, <3>1, ViewFacts DEF IInv
  <2>2. Active(rows[op.token]) /\ "verified" \notin rows[op.token]
    BY <1>1, <1>7, <2>1
  <2>3. uses[op.token] = 0 /\ \A s \in DOMAIN rows : s <= op.token
    BY <1>1, <2>1, <2>2 DEF IInv, TxInv, Tables
  <2>4. ASSUME NEW x \in late
        PROVE  /\ x.password # op.token
               /\ \A s \in DOMAIN x.rows : s <= op.token \/ Active(x.rows[s])
    <3>1. Sound(x, rows, uses)
      BY DEF IInv, TxInv
    <3>2. x.password # op.token
      BY <1>1, <2>2, <3>1, TokenIdsNat DEF Sound
    <3> QED
      BY <2>3, <3>1, <3>2 DEF Sound
  <2>5. OpInv'
    BY <1>2, <1>3, <1>5, <1>7, <1>1, <2>1, <2>3, <2>4
    DEF OpInv, Shape, Creating, Cancelling, Verifying, Resetting
  <2> QED
    BY <1>3, <1>4, <2>5 DEF IInv
<1> QED
  BY <1>6, <1>7

LEMMA SelectForUpdateStep == IInv /\ SelectForUpdate => IInv'
<1> SUFFICES ASSUME IInv, SelectForUpdate PROVE IInv'
  OBVIOUS
<1> DEFINE next == [op EXCEPT !.at = "user"]
<1>1. /\ op.name = "reset" /\ op.at = "select" /\ op \in Op /\ Goes(next) /\ tx' = tx
      /\ op.token \in DOMAIN View /\ Active(View[op.token]) /\ ~Locked(op.token)
      /\ "verified" \in View[op.token]
      /\ tx = NoWrites /\ op.token \in TokenIds
  BY DEF SelectForUpdate, Runs, IInv, TypeOK, OpInv, Shape
<1>2. next \in Op /\ next.name = "reset" /\ next.at = "user" /\ next.token = op.token
  BY <1>1 DEF Op
<1> HIDE DEF next
<1>3. TypeOK' /\ op' = next /\ UNCHANGED <<rows, password, lastId, late, uses>>
  BY <1>1, <1>2, TypeGoes DEF IInv
<1>4. TxInv'
  BY <1>1, <1>3, QuietTx DEF IInv
<1>5. op.token \in DOMAIN rows /\ View[op.token] = rows[op.token]
  <2>1. DOMAIN tx.rows = {}
    BY <1>1, NoWritesFacts, Zenon
  <2> QED
    BY <1>1, <2>1, ViewFacts DEF IInv
<1>6. \A x \in late : op.token \notin DOMAIN x.rows
  BY <1>1 DEF Locked
<1>7. OpInv'
  BY <1>1, <1>2, <1>3, <1>5, <1>6
  DEF OpInv, Shape, Creating, Cancelling, Verifying, Resetting
<1> QED
  BY <1>3, <1>4, <1>7 DEF IInv

\* The account: the running transaction holds the lock of its token, and no late
\* one sets the password.
LEMMA UpdateUserStep == IInv /\ UpdateUser => IInv'
<1> SUFFICES ASSUME IInv, UpdateUser PROVE IInv'
  OBVIOUS
<1> DEFINE next == [op EXCEPT !.at = "find"]
<1>1. /\ op.name = "reset" /\ op.at = "user" /\ op \in Op
      /\ op' = next /\ UNCHANGED <<up, rows, password, lastId, late, mail, told, uses>>
      /\ tx' = [tx EXCEPT !.password = op.token]
      /\ op.token \in TokenIds
  BY DEF UpdateUser, Runs, Goes, IInv, TypeOK, OpInv, Shape
<1>2. /\ tx = NoWrites /\ op.token \in DOMAIN rows
      /\ Active(rows[op.token]) /\ "verified" \in rows[op.token]
      /\ \A x \in late : op.token \notin DOMAIN x.rows
  BY <1>1 DEF IInv, OpInv, Resetting
<1>3. next \in Op /\ next.name = "reset" /\ next.at = "find" /\ next.token = op.token
  BY <1>1 DEF Op
<1>4. /\ tx' = [NoWrites EXCEPT !.password = op.token]
      /\ DOMAIN tx' = {"rows", "password"} /\ tx'.rows = NoWrites.rows
      /\ tx'.password = op.token
  BY <1>1, <1>2 DEF NoWrites
<1>5. DOMAIN tx'.rows = {} /\ IsTable(tx'.rows) /\ IsWrites(tx')
  <2>1. DOMAIN NoWrites.rows = {} /\ IsTable(NoWrites.rows)
    BY NoWritesFacts DEF IsWrites
  <2>2. DOMAIN tx'.rows = {} /\ IsTable(tx'.rows)
    BY <1>4, <2>1, Zenon
  <2> QED
    BY <1>1, <1>4, <2>2 DEF IsWrites
<1>6. TypeOK'
  <2>1. \A x \in late' \cup {tx'} : IsWrites(x) /\ DOMAIN x.rows \subseteq 1..lastId'
    BY <1>1, <1>5, WritesTyped DEF IInv
  <2> QED
    BY <1>1, <1>3, <2>1 DEF IInv, TypeOK
<1>7. TxInv'
  <2>1. Sound(tx', rows, uses)
    BY <1>2, <1>4, <1>5 DEF Sound
  <2>2. ASSUME NEW x \in late PROVE Apart(x, tx') /\ Apart(tx', x)
    BY <1>2, <1>4, <1>5 DEF Apart
  <2> QED
    BY <1>1, <2>1, <2>2 DEF IInv, TxInv
<1>8. OpInv'
  <2> HIDE DEF next
  <2> QED
    BY <1>1, <1>2, <1>3, <1>4 DEF OpInv, Shape, Creating, Cancelling, Verifying, Resetting
<1> QED
  BY <1>6, <1>7, <1>8 DEF IInv

LEMMA NewMarksFacts ==
    /\ DOMAIN NewMarks = {"cancel", "verify", "reset"}
    /\ \A n \in DOMAIN NewMarks : NewMarks[n] \in Row
    /\ "cancelled" \in NewMarks["cancel"] /\ "used" \in NewMarks["reset"]
BY DEF NewMarks, Row, Marks

\* What the three operations on one token know at find and update.
LEMMA TokenFacts ==
    ASSUME IInv, op.name \in {"cancel", "verify", "reset"}, op.at \in {"find", "update"}
    PROVE  /\ op.token \in DOMAIN rows /\ op.token \in DOMAIN View
           /\ op.token \in TokenIds
           /\ DOMAIN tx.rows = {}
           /\ op.name # "reset" => tx = NoWrites
           /\ op.name = "reset" => tx.password = op.token
<1>1. op.token \in DOMAIN rows /\ op.token \in TokenIds
  BY DEF IInv, OpInv, Shape, Cancelling, Verifying, Resetting
<1>2. op.token \in DOMAIN View
  BY <1>1, ViewFacts DEF IInv
<1>3. tx.rows = NoWrites.rows /\ (op.name # "reset" => tx = NoWrites)
  BY DEF IInv, OpInv, Cancelling, Verifying, Resetting
<1>4. DOMAIN tx.rows = {}
  BY <1>3, NoWritesFacts, Zenon
<1>5. op.name = "reset" => tx.password = op.token
  <2>1. op.name = "reset" => tx = [NoWrites EXCEPT !.password = op.token]
    BY DEF IInv, OpInv, Resetting
  <2> QED
    BY <2>1 DEF NoWrites
<1> QED
  BY <1>1, <1>2, <1>3, <1>4, <1>5

LEMMA FindTokenStep == IInv /\ FindToken => IInv'
<1> SUFFICES ASSUME IInv, FindToken PROVE IInv'
  OBVIOUS
<1> DEFINE next == [op EXCEPT !.at = "update",
                              !.object = View[op.token] \cup NewMarks[op.name]]
<1>1. /\ op.name \in {"cancel", "verify", "reset"} /\ op.at = "find" /\ op \in Op
      /\ Goes(next) /\ tx' = tx
  BY NewMarksFacts DEF FindToken, IInv, TypeOK
<1>2. /\ op.token \in DOMAIN rows /\ op.token \in TokenIds
      /\ View[op.token] \cup NewMarks[op.name] \in Row
  <2>1. /\ op.token \in DOMAIN rows /\ op.token \in TokenIds
        /\ op.token \in DOMAIN View
    BY <1>1, TokenFacts
  <2>2. View[op.token] \in Row
    BY <2>1, ViewFacts DEF IInv
  <2>3. NewMarks[op.name] \in Row
    BY <1>1, NewMarksFacts
  <2> QED
    BY <2>1, <2>2, <2>3 DEF Row
<1>3. /\ next \in Op /\ next.name = op.name /\ next.at = "update"
      /\ next.token = op.token /\ next.object = View[op.token] \cup NewMarks[op.name]
  BY <1>1, <1>2 DEF Op
<1>4. /\ op.name = "cancel" => ~Active(next.object)
      /\ op.name = "reset" => "used" \in next.object
  <2>1. op.name = "cancel" => "cancelled" \in next.object
    BY <1>3, NewMarksFacts
  <2>2. op.name = "reset" => "used" \in next.object
    BY <1>3, NewMarksFacts
  <2> QED
    BY <2>1, <2>2 DEF Active
<1> HIDE DEF next
<1>5. TypeOK' /\ op' = next /\ UNCHANGED <<rows, password, lastId, late, uses>>
  BY <1>1, <1>3, TypeGoes DEF IInv
<1>6. TxInv'
  BY <1>1, <1>5, QuietTx DEF IInv
<1>7. OpInv'
  BY <1>1, <1>2, <1>3, <1>4, <1>5
  DEF IInv, OpInv, Shape, Creating, Cancelling, Verifying, Resetting
<1> QED
  BY <1>5, <1>6, <1>7 DEF IInv

LEMMA UpdateTokenStep == IInv /\ UpdateToken => IInv'
<1> SUFFICES ASSUME IInv, UpdateToken PROVE IInv'
  OBVIOUS
<1> DEFINE t == op.token
           row == op.object
           next == [op EXCEPT !.at = "commit"]
<1>1. /\ op.name \in {"cancel", "verify", "reset"} /\ op.at = "update" /\ op \in Op
      /\ Write(t, row, next) /\ row \in Row
  BY NewMarksFacts, OpFacts DEF UpdateToken, IInv, TypeOK
<1>2. /\ t \in DOMAIN rows /\ t \in TokenIds
      /\ DOMAIN tx.rows = {}
      /\ op.name # "reset" => tx = NoWrites
      /\ op.name = "reset" => tx.password = t
  BY <1>1, TokenFacts
<1>3. /\ op.name = "cancel" => ~Active(row)
      /\ op.name = "reset" => "used" \in row /\ ~Active(row)
  <2>1. op.name = "reset" => "used" \in row
    BY <1>1 DEF IInv, OpInv, Resetting
  <2>2. op.name = "cancel" => ~Active(row)
    BY <1>1 DEF IInv, OpInv, Cancelling
  <2> QED
    BY <2>1, <2>2, ActiveFacts
<1>4. next \in Op /\ next.name = op.name /\ next.at = "commit" /\ next.token = t
  BY <1>1 DEF Op
<1>5. Harmless(tx, rows) /\ (op.name # "reset" => tx.password = 0)
  <2>1. op.name # "reset" => tx.password = 0
    BY <1>2, NoWritesFacts, Zenon
  <2> QED
    BY <1>2, <2>1 DEF Harmless
<1> HIDE DEF t, row, next
<1>6. CASE ~Active(row)
  <2>1. /\ op' = next /\ TypeOK' /\ TxInv' /\ Wrote(tx, t, row, tx')
    BY <1>1, <1>2, <1>4, <1>5, <1>6, DeadStep
  <2>2. Ended(tx')
    BY <1>1, <1>2, <1>3, <1>5, <2>1 DEF Ended, Wrote
  <2>3. OpInv'
    BY <1>1, <1>2, <1>4, <2>1, <2>2, AtCommit
  <2> QED
    BY <2>1, <2>3 DEF IInv
<1>7. CASE Active(row) /\ Rivals(t) # {}
  <2>1. Rollback
    BY <1>1, <1>7 DEF Write
  <2> QED
    BY <2>1, RollbackStep
<1>8. CASE Active(row) /\ Rivals(t) = {}
  <2>1. /\ op.name = "verify" /\ tx = NoWrites
        /\ ~Locked(t) /\ ~IndexWaits(t) /\ Goes(next) /\ WritesRow(t, row)
    BY <1>1, <1>2, <1>3, <1>8 DEF Write, WritesRow
  <2>2. op' = next /\ UNCHANGED <<up, rows, password, lastId, late, mail, told, uses>>
    BY <2>1 DEF Goes
  <2>3. /\ uses[t] = 0
        /\ \A s \in DOMAIN rows : s <= t \/ Active(rows[s])
        /\ \A x \in late : \A s \in DOMAIN x.rows : s <= t \/ Active(x.rows[s])
    BY <1>1, <2>1 DEF IInv, OpInv, Verifying, t
  <2>4. TxInv'
    BY <1>1, <1>2, <1>8, <2>1, <2>2, <2>3, WriteVerified DEF IInv
  <2>5. TypeOK'
    <3>1. t <= lastId /\ lastId' \in TokenIds \cup {0} /\ lastId <= lastId'
      <4>1. t \in 1..lastId /\ lastId \in Nat
        BY <1>2, WritesTyped DEF IInv
      <4>2. lastId \in {0} \cup TokenIds
        BY DEF IInv, TypeOK
      <4> QED
        BY <2>2, <4>1, <4>2
    <3> QED
      BY <1>1, <1>2, <1>4, <2>1, <2>2, <3>1, TypeWrite DEF IInv
  <2>6. Ended(tx')
    <3>1. tx'.password = tx.password
      BY <1>1, <1>2, <2>1, WroteTx DEF IInv, Wrote
    <3> QED
      BY <1>5, <2>1, <3>1 DEF Ended
  <2>7. OpInv'
    BY <1>1, <1>2, <1>4, <2>1, <2>2, <2>6, AtCommit
  <2> QED
    BY <2>4, <2>5, <2>7 DEF IInv
<1> QED
  BY <1>6, <1>7, <1>8

LEMMA CommitStep == IInv /\ Commit => IInv' /\ password <= password'
<1> SUFFICES ASSUME IInv, Commit PROVE IInv' /\ password <= password'
  OBVIOUS
<1>1. /\ op.at = "commit" /\ Committed(tx) /\ op' = Idle /\ tx' = NoWrites
      /\ UNCHANGED <<up, lastId, late>>
      /\ mail' = IF op.name = "create" THEN [mail EXCEPT ![op.token] = "posted"] ELSE mail
      /\ told' \in {told, told \cup {<<op.token, s>> : s \in Successes[op.name]}}
  BY DEF Commit
<1>2. Ended(tx) /\ op.name \in {"create", "cancel", "verify", "reset"}
  BY <1>1, OpFacts, IdleFacts DEF IInv, TypeOK, OpInv, Shape
<1>3. mail' \in Mails
  BY <1>1 DEF IInv, TypeOK, Mails
<1>4. told' \subseteq Answers
  <2>1. {<<op.token, s>> : s \in Successes[op.name]} \subseteq Answers
    <3>1. CASE op.name \in {"verify", "reset"}
      <4>1. op.token \in TokenIds
        BY <3>1 DEF IInv, OpInv, Shape
      <4>2. Successes[op.name] \subseteq {"verified", "changed"}
        BY <3>1 DEF Successes
      <4> QED
        BY <4>1, <4>2 DEF Answers
    <3>2. CASE op.name \in {"create", "cancel"}
      BY <3>2 DEF Successes
    <3> QED
      BY <1>2, <3>1, <3>2
  <2>2. told \subseteq Answers
    BY DEF IInv, TypeOK, Answers
  <2> QED
    BY <1>1, <2>1, <2>2
<1>5. TypeOK'
  <2>1. IsWrites(tx) /\ DOMAIN tx.rows \subseteq 1..lastId
    BY WritesTyped DEF IInv
  <2> QED
    BY <1>1, <1>3, <1>4, <2>1, IdleFacts, TypeCommitted DEF IInv
<1>6. TxInv' /\ password <= password'
  BY <1>1, <1>2, CommitTx DEF IInv
<1> QED
  BY <1>1, <1>5, <1>6, IdleOp DEF IInv

LEMMA CommitLostStep == IInv /\ CommitLost => IInv'
<1> SUFFICES ASSUME IInv, CommitLost PROVE IInv'
  OBVIOUS
<1>1. /\ op.at = "commit" /\ late' = late \cup {tx} /\ op' = Idle /\ tx' = NoWrites
      /\ UNCHANGED <<up, rows, password, lastId, mail, told, uses>>
  BY DEF CommitLost
<1>2. up' \in BOOLEAN /\ mail' \in Mails /\ told' \subseteq Answers
  BY <1>1 DEF IInv, TypeOK, Mails, Answers
<1>3. TypeOK'
  BY <1>1, <1>2, IdleFacts, TypeQuiet DEF IInv
<1>4. Ended(tx)
  BY <1>1 DEF IInv, OpInv, Shape
<1>5. TxInv'
  BY <1>1, <1>4, LoseTx DEF IInv
<1> QED
  BY <1>1, <1>3, <1>5, IdleOp DEF IInv

LEMMA CrashStep == IInv /\ Crash => IInv'
<1> SUFFICES ASSUME IInv, Crash PROVE IInv'
  OBVIOUS
<1>1. /\ up' = FALSE /\ op' = Idle /\ tx' = NoWrites
      /\ mail' = [t \in TokenIds |-> IF mail[t] = "sent" THEN "sent" ELSE "none"]
      /\ UNCHANGED <<rows, password, lastId, told, uses>>
      /\ late' = late \/ (op.at = "commit" /\ late' = late \cup {tx})
  BY DEF Crash
<1>2. up' \in BOOLEAN /\ mail' \in Mails /\ told' \subseteq Answers
  BY <1>1 DEF IInv, TypeOK, Mails, Answers
<1>3. TypeOK'
  BY <1>1, <1>2, IdleFacts, TypeQuiet DEF IInv
<1>4. TxInv'
  <2>1. CASE late' = late
    BY <1>1, <2>1, QuietTx DEF IInv
  <2>2. CASE op.at = "commit" /\ late' = late \cup {tx}
    <3>1. Ended(tx)
      BY <2>2 DEF IInv, OpInv, Shape
    <3> QED
      BY <1>1, <2>2, <3>1, LoseTx DEF IInv
  <2> QED
    BY <1>1, <2>1, <2>2
<1> QED
  BY <1>1, <1>3, <1>4, IdleOp DEF IInv

\* The operation under way keeps what it relies on when a late transaction ends.
LEMMA LateCommitStep ==
    ASSUME IInv, NEW x \in late, LateCommit(x)
    PROVE  IInv' /\ password <= password'
<1>1. /\ late' = late \ {x} /\ Committed(x)
      /\ UNCHANGED <<up, lastId, op, tx, mail, told>>
  BY DEF LateCommit
<1>2. /\ IsWrites(x) /\ DOMAIN x.rows \subseteq 1..lastId
      /\ Installs(x, rows, uses, password, rows', uses', password')
  BY <1>1, WritesTyped, CommittedFacts DEF IInv
<1>3. op' \in Op /\ mail' \in Mails /\ told' \subseteq Answers
  BY <1>1 DEF IInv, TypeOK, Mails, Answers
<1>4. TypeOK'
  BY <1>1, <1>2, <1>3, TypeCommitted DEF IInv
<1>5. TxInv' /\ password <= password'
  BY <1>1, LateTx DEF IInv
<1>6. Shape'
  BY <1>1 DEF IInv, OpInv, Shape
<1>7. Creating' /\ Cancelling'
  BY <1>1, <1>2 DEF IInv, OpInv, Creating, Cancelling, Harmless, Installs
<1>8. Verifying'
  <2>1. SUFFICES ASSUME op.name = "verify", op.at # "commit", op.at # "select"
                 PROVE  /\ op.token \in DOMAIN rows' /\ uses'[op.token] = 0
                        /\ \A s \in DOMAIN rows' : s <= op.token \/ Active(rows'[s])
    BY <1>1 DEF IInv, OpInv, Verifying
  <2>2. /\ op.token \in DOMAIN rows /\ uses[op.token] = 0
        /\ \A s \in DOMAIN rows : s <= op.token \/ Active(rows[s])
        /\ x.password # op.token
        /\ \A s \in DOMAIN x.rows : s <= op.token \/ Active(x.rows[s])
        /\ op.token \in TokenIds
    BY <2>1 DEF IInv, OpInv, Verifying, Shape
  <2> QED
    BY <1>2, <2>2 DEF Installs
<1>9. Resetting'
  <2>1. SUFFICES ASSUME op.name = "reset", op.at # "commit", op.at # "select"
                 PROVE  /\ op.token \in DOMAIN rows'
                        /\ Active(rows'[op.token]) /\ "verified" \in rows'[op.token]
    BY <1>1 DEF IInv, OpInv, Resetting
  <2>2. /\ op.token \in DOMAIN rows /\ op.token \notin DOMAIN x.rows
        /\ Active(rows[op.token]) /\ "verified" \in rows[op.token]
    BY <2>1 DEF IInv, OpInv, Resetting
  <2> QED
    BY <1>2, <2>2 DEF Installs
<1> QED
  BY <1>4, <1>5, <1>6, <1>7, <1>8, <1>9 DEF IInv, OpInv

LEMMA LateAbortStep ==
    ASSUME IInv, NEW x \in late, LateAbort(x)
    PROVE  IInv'
<1>1. /\ late' = late \ {x}
      /\ UNCHANGED <<up, rows, password, lastId, op, tx, mail, told, uses>>
  BY DEF LateAbort
<1>2. up' \in BOOLEAN /\ op' \in Op /\ mail' \in Mails /\ told' \subseteq Answers
  BY <1>1 DEF IInv, TypeOK, Mails, Answers
<1>3. TypeOK'
  BY <1>1, <1>2, TypeQuiet DEF IInv
<1>4. TxInv'
  BY <1>1, AbortTx DEF IInv
<1>5. OpInv'
  BY <1>1 DEF IInv, OpInv, Shape, Creating, Cancelling, Verifying, Resetting
<1> QED
  BY <1>3, <1>4, <1>5 DEF IInv

LEMMA StutterStep == IInv /\ UNCHANGED vars => IInv'
BY DEF IInv, TypeOK, TxInv, OpInv, Shape, Creating, Cancelling, Verifying, Resetting,
       View, vars

\* Only a commit changes the password.
LEMMA PasswordKept ==
    ASSUME Next, ~Commit, ~\E x \in late : LateCommit(x)
    PROVE  password' = password
BY DEF Next, Begins, BeginCreate, BeginCancel, BeginVerify, BeginReset, Begin, Goes,
       Statement, SelectActive, FindActive, UpdateReplaced, Write, Rollback, InsertToken,
       SelectToCancel, SelectToVerify, SelectForUpdate, UpdateUser, FindToken, UpdateToken,
       CommitLost, Refuse, CannotCancel, MailReplyFinished, LateEnds, LateAbort, Crash, Start

LEMMA NextStep == IInv /\ [Next]_vars => IInv'
<1> SUFFICES ASSUME IInv, [Next]_vars PROVE IInv'
  OBVIOUS
<1>1. CASE Begins
  BY <1>1, BeginsStep
<1>2. CASE Statement
  BY <1>2, SelectActiveStep, FindActiveStep, UpdateReplacedStep, InsertTokenStep,
     SelectToCancelStep, SelectToVerifyStep, SelectForUpdateStep, UpdateUserStep,
     FindTokenStep, UpdateTokenStep, CommitStep DEF Statement
<1>3. CASE CommitLost
  BY <1>3, CommitLostStep
<1>4. CASE Refuse
  BY <1>4, RollbackStep DEF Refuse
<1>5. CASE \E t \in TokenIds : CannotCancel(t) \/ MailReplyFinished(t)
  BY <1>5, MailStep
<1>6. CASE LateEnds
  BY <1>6, LateCommitStep, LateAbortStep DEF LateEnds
<1>7. CASE Crash
  BY <1>7, CrashStep
<1>8. CASE Start
  BY <1>8, StartStep
<1>9. CASE UNCHANGED vars
  BY <1>9, StutterStep
<1> QED
  BY <1>1, <1>2, <1>3, <1>4, <1>5, <1>6, <1>7, <1>8, <1>9 DEF Next

-----------------------------------------------------------------------------
(* Theorems about the transactions *)

LEMMA Inductive == Spec => []IInv
<1>1. Init => IInv
  BY InitIInv
<1>2. IInv /\ [Next]_vars => IInv'
  BY NextStep
<1> QED
  BY <1>1, <1>2, PTL DEF Spec

\* Every variable has its type: the ids an operation holds are in the tables and
\* the sequence stays ahead of them, though a rollback leaves gaps.
THEOREM TransactionsTyped == Spec => []TypeOK
<1>1. IInv => TypeOK
  BY DEF IInv
<1> QED
  BY <1>1, Inductive, PTL

\* An account has at most one active token, in whatever order statements run and
\* late transactions end: what the partial unique index is for.
THEOREM AtMostOneActive == Spec => []OneActive
<1>1. IInv => OneActive
  <2>1. SUFFICES ASSUME IInv, NEW s \in DOMAIN rows, NEW t \in DOMAIN rows,
                        Active(rows[s]), Active(rows[t])
                 PROVE  s = t
    BY DEF OneActive
  <2>2. s <= t /\ t <= s
    BY <2>1 DEF IInv, TxInv, Tables
  <2>3. s \in Nat /\ t \in Nat
    BY <2>1, TokenIdsNat DEF IInv, TypeOK, IsTable
  <2> QED
    BY <2>2, <2>3
<1> QED
  BY <1>1, Inductive, PTL

\* A token sets the password at most once, though the COMMIT that uses it up may
\* be late and the client try again: what FOR UPDATE is for.
THEOREM EachUsedOnce == Spec => []UsedOnce
<1>1. IInv => UsedOnce
  <2>1. SUFFICES ASSUME IInv, NEW t \in TokenIds PROVE uses[t] <= 1
    BY DEF UsedOnce
  <2>2. uses[t] \in Nat
    BY <2>1 DEF IInv, TypeOK
  <2>3. uses[t] # 0 => uses[t] = 1
    BY <2>1 DEF IInv, TxInv, Tables
  <2> QED
    BY <2>2, <2>3
<1> QED
  BY <1>1, Inductive, PTL

\* The password never goes back to one set through an older token.
THEOREM PasswordGoesOn == Spec => NewestWins
<1>1. IInv /\ [Next]_vars => [password <= password']_password
  <2>1. SUFFICES ASSUME IInv, Next PROVE password <= password' \/ password' = password
    BY DEF vars
  <2>2. CASE Commit
    BY <2>1, <2>2, CommitStep
  <2>3. CASE \E x \in late : LateCommit(x)
    BY <2>1, <2>3, LateCommitStep
  <2>4. CASE ~Commit /\ ~\E x \in late : LateCommit(x)
    BY <2>1, <2>4, PasswordKept
  <2> QED
    BY <2>2, <2>3, <2>4
<1> QED
  BY <1>1, Inductive, PTL DEF Spec, NewestWins

-----------------------------------------------------------------------------
(* What clients were told *)

Verified == {"verified", "replaced"}

\* Whatever is about to be written over the row of t has one of the marks.
Holds(t, marks) ==
    /\ \A x \in late : t \in DOMAIN x.rows => x.rows[t] \cap marks # {}
    /\ t \in DOMAIN tx.rows => tx.rows[t] \cap marks # {}
    /\ op.at = "update" /\ op.token = t => op.object \cap marks # {}

\* The rows keep what clients were told, and will whichever late transaction
\* commits.  A client learns of a token by its mail, and an operation that reads
\* the row of such a token before it is verified replaces or verifies it.
Kept ==
    \A t \in TokenIds :
        /\ mail[t] # "none" => t \in DOMAIN rows
        /\ mail[t] \in {"posted", "sent"} => Holds(t, Verified)
        /\ <<t, "verified">> \in told =>
            t \in DOMAIN rows /\ rows[t] \cap Verified # {} /\ Holds(t, Verified)
        /\ <<t, "changed">> \in told =>
            t \in DOMAIN rows /\ "used" \in rows[t] /\ Holds(t, {"used"})

\* What COMMIT tells is so.
Telling ==
    /\ op.name = "cancel" => mail[op.token] = "none"
    /\ op.name \in {"verify", "reset"} => mail[op.token] = "sent"
    /\ op.name = "create" /\ op.at = "commit" => op.token \in DOMAIN tx.rows
    /\ op.name = "verify" /\ op.at = "commit" =>
        op.token \in DOMAIN View /\ View[op.token] \cap Verified # {}
    /\ op.name = "reset" /\ op.at = "commit" =>
        op.token \in DOMAIN tx.rows /\ "used" \in tx.rows[op.token]

ToldInv == IInv /\ Kept /\ Telling

LEMMA IdleTelling == ASSUME op' = Idle PROVE Telling'
BY IdleFacts DEF Telling

\* A step that writes nothing, ends the operation or takes it on.
LEMMA KeptQuiet ==
    ASSUME Kept, UNCHANGED <<rows, told>>,
           tx'.rows = tx.rows \/ tx' = NoWrites, late' \subseteq late \cup {tx},
           op'.at # "update" \/ op' = op,
           \A t \in TokenIds :
                /\ mail'[t] # "none" => mail[t] # "none"
                /\ mail'[t] \in {"posted", "sent"} => mail[t] \in {"posted", "sent"}
    PROVE  Kept'
<1>1. ASSUME NEW t, NEW marks, Holds(t, marks) PROVE Holds(t, marks)'
  <2>1. \A x \in late' : t \in DOMAIN x.rows => x.rows[t] \cap marks # {}
    BY <1>1 DEF Holds
  <2>2. t \in DOMAIN tx'.rows => tx'.rows[t] \cap marks # {}
    <3>1. CASE tx'.rows = tx.rows
      BY <1>1, <3>1 DEF Holds
    <3>2. CASE tx' = NoWrites
      <4>1. DOMAIN tx'.rows = {}
        BY <3>2, NoWritesFacts, Zenon
      <4> QED
        BY <4>1
    <3> QED
      BY <3>1, <3>2
  <2>3. op'.at = "update" /\ op'.token = t => op'.object \cap marks # {}
    BY <1>1 DEF Holds
  <2> QED
    BY <2>1, <2>2, <2>3 DEF Holds
<1> QED
  BY <1>1 DEF Kept

\* The operation reads a row to write it back.
LEMMA KeptFind ==
    ASSUME Kept, UNCHANGED <<rows, told, tx, late, mail>>, NEW t \in TokenIds,
           op'.token = t, NEW row, op'.object = row,
           mail[t] \in {"posted", "sent"} => row \cap Verified # {},
           <<t, "verified">> \in told => row \cap Verified # {},
           <<t, "changed">> \in told => row \cap {"used"} # {}
    PROVE  Kept'
<1>1. ASSUME NEW s, NEW marks, Holds(s, marks), s = t => row \cap marks # {}
      PROVE  Holds(s, marks)'
  BY <1>1 DEF Holds
<1> QED
  BY <1>1 DEF Kept

\* A row is written that was read so, or is new.
LEMMA KeptWrite ==
    ASSUME Kept, UNCHANGED <<rows, told, late, mail>>, NEW t \in TokenIds, NEW row,
           Wrote(tx, t, row, tx'), op'.at # "update",
           \/ op.at = "update" /\ op.token = t /\ op.object = row
           \/ t \notin DOMAIN rows
    PROVE  Kept'
<1>1. ASSUME NEW s \in DOMAIN rows, NEW marks, Holds(s, marks) PROVE Holds(s, marks)'
  <2>1. s \in DOMAIN tx'.rows => tx'.rows[s] \cap marks # {}
    BY <1>1 DEF Holds, Wrote
  <2> QED
    BY <1>1, <2>1 DEF Holds
<1> QED
  BY <1>1 DEF Kept

LEMMA ToldBegins == ToldInv /\ Begins => Kept' /\ Telling'
<1> SUFFICES ASSUME ToldInv, Begins PROVE Kept' /\ Telling'
  OBVIOUS
<1>1. PICK n \in {"create", "cancel", "verify", "reset"}, t \in {0} \cup TokenIds :
          /\ op' = [Idle EXCEPT !.name = n, !.token = t]
          /\ UNCHANGED <<rows, told, tx, late>>
          /\ n = "cancel" => t \in TokenIds /\ mail' = [mail EXCEPT ![t] = "none"]
          /\ n # "cancel" => mail' = mail
          /\ n \in {"verify", "reset"} => mail[t] = "sent"
  BY DEF Begins, BeginCreate, BeginCancel, BeginVerify, BeginReset, Begin, Goes
<1>2. op'.name = n /\ op'.token = t /\ op'.at = "select"
  BY <1>1 DEF Idle
<1>3. mail \in Mails
  BY DEF ToldInv, IInv, TypeOK, Mails
<1>4. Kept'
  <2>1. \A s \in TokenIds : mail'[s] \in {mail[s], "none"}
    BY <1>1, <1>3 DEF Mails
  <2> QED
    BY <1>1, <1>2, <2>1, KeptQuiet DEF ToldInv
<1>5. Telling'
  BY <1>1, <1>2, <1>3 DEF Telling, Mails
<1> QED
  BY <1>4, <1>5

\* A query: the operation goes on, and may come to its commit only when its token
\* is verified already.
LEMMA ToldSelects ==
    ASSUME ToldInv, SelectActive \/ SelectToCancel \/ SelectToVerify \/ SelectForUpdate
    PROVE  Kept' /\ Telling'
<1>0. op \in Op
  BY DEF ToldInv, IInv, TypeOK
<1>1. /\ UNCHANGED <<rows, told, tx, late, mail>>
      /\ op'.name = op.name /\ op.name \in {"create", "cancel", "verify", "reset"}
      /\ op'.at \in {"find", "insert", "user", "commit"}
      /\ op'.at = "commit" =>
            /\ op.name = "verify"
            /\ op.token \in DOMAIN View /\ "verified" \in View[op.token]
      /\ op.name # "create" => op'.token = op.token
  <2>1. CASE SelectActive
    BY <1>0, <2>1 DEF SelectActive, Runs, Goes, NextToReplace, Op
  <2>2. CASE SelectToCancel
    BY <1>0, <2>2 DEF SelectToCancel, Runs, Goes, Op
  <2>3. CASE SelectToVerify
    BY <1>0, <2>3 DEF SelectToVerify, Runs, Goes, Op
  <2>4. CASE SelectForUpdate
    BY <1>0, <2>4 DEF SelectForUpdate, Runs, Goes, Op
  <2> QED
    BY <2>1, <2>2, <2>3, <2>4
<1>2. Kept'
  BY <1>1, KeptQuiet DEF ToldInv
<1>3. View' = View
  BY <1>1 DEF View
<1>4. Telling'
  BY <1>1, <1>3 DEF ToldInv, Telling, Verified
<1> QED
  BY <1>2, <1>4

LEMMA ToldUpdateUser == ToldInv /\ UpdateUser => Kept' /\ Telling'
<1> SUFFICES ASSUME ToldInv, UpdateUser PROVE Kept' /\ Telling'
  OBVIOUS
<1>1. /\ UNCHANGED <<rows, told, late, mail>>
      /\ op.name = "reset" /\ op' = [op EXCEPT !.at = "find"] /\ op \in Op
      /\ tx' = [tx EXCEPT !.password = op.token] /\ IsWrites(tx)
  BY WritesTyped DEF UpdateUser, Runs, Goes, ToldInv, IInv, TypeOK
<1>2. op'.name = "reset" /\ op'.at = "find" /\ op'.token = op.token
  BY <1>1 DEF Op
<1>3. tx'.rows = tx.rows
  BY <1>1 DEF IsWrites
<1>4. Kept'
  BY <1>1, <1>2, <1>3, KeptQuiet DEF ToldInv
<1>5. Telling'
  BY <1>1, <1>2 DEF ToldInv, Telling
<1> QED
  BY <1>4, <1>5

LEMMA ToldFindActive == ASSUME NEW t \in TokenIds PROVE ToldInv /\ FindActive(t) => Kept' /\ Telling'
<1> SUFFICES ASSUME ToldInv, FindActive(t) PROVE Kept' /\ Telling'
  OBVIOUS
<1> DEFINE row == View[t] \cup {"replaced"}
<1>1. /\ UNCHANGED <<rows, told, tx, late, mail>>
      /\ op.name = "create" /\ op.at = "find" /\ op \in Op /\ t \in op.todo
      /\ op' = [op EXCEPT !.token = t, !.at = "update", !.object = row]
  BY DEF FindActive, Runs, Goes, ToldInv, IInv, TypeOK
<1>2. op'.name = "create" /\ op'.token = t /\ op'.at = "update" /\ op'.object = row
  BY <1>1 DEF Op
<1>3. row \cap Verified # {}
  BY DEF Verified
<1>4. <<t, "changed">> \in told => row \cap {"used"} # {}
  <2>1. SUFFICES ASSUME <<t, "changed">> \in told PROVE "used" \in View[t]
    OBVIOUS
  <2>2. /\ t \in DOMAIN rows /\ "used" \in rows[t]
        /\ t \in DOMAIN tx.rows => "used" \in tx.rows[t]
    BY <2>1 DEF ToldInv, Kept, Holds
  <2> QED
    BY <2>2, ViewFacts DEF ToldInv, IInv
<1> HIDE DEF row
<1>5. Kept'
  BY <1>1, <1>2, <1>3, <1>4, KeptFind DEF ToldInv
<1>6. Telling'
  BY <1>2 DEF Telling
<1> QED
  BY <1>5, <1>6

LEMMA ToldFindToken == ToldInv /\ FindToken => Kept' /\ Telling'
<1> SUFFICES ASSUME ToldInv, FindToken PROVE Kept' /\ Telling'
  OBVIOUS
<1> DEFINE t == op.token
           row == View[op.token] \cup NewMarks[op.name]
<1>1. /\ UNCHANGED <<rows, told, tx, late, mail>>
      /\ op.name \in {"cancel", "verify", "reset"} /\ op.at = "find" /\ op \in Op
      /\ op' = [op EXCEPT !.at = "update", !.object = row]
  BY NewMarksFacts DEF FindToken, Goes, ToldInv, IInv, TypeOK
<1>2. op'.name = op.name /\ op'.token = t /\ op'.at = "update" /\ op'.object = row
  BY <1>1 DEF Op
<1>3. t \in DOMAIN rows /\ t \in TokenIds /\ DOMAIN tx.rows = {}
  BY <1>1, TokenFacts DEF ToldInv
<1>4. View[t] = rows[t]
  BY <1>3, ViewFacts DEF ToldInv, IInv
<1>5. mail[t] \in {"posted", "sent"} => row \cap Verified # {}
  <2>1. CASE op.name = "cancel"
    BY <2>1 DEF ToldInv, Telling
  <2>2. CASE op.name = "verify"
    <3>1. "verified" \in NewMarks[op.name]
      BY <2>2 DEF NewMarks
    <3> QED
      BY <3>1 DEF Verified
  <2>3. CASE op.name = "reset"
    <3>1. "verified" \in rows[t]
      BY <1>1, <2>3 DEF ToldInv, IInv, OpInv, Resetting
    <3> QED
      BY <1>4, <3>1 DEF Verified
  <2> QED
    BY <1>1, <2>1, <2>2, <2>3
<1>6. /\ <<t, "verified">> \in told => row \cap Verified # {}
      /\ <<t, "changed">> \in told => row \cap {"used"} # {}
  <2>1. /\ <<t, "verified">> \in told => rows[t] \cap Verified # {}
        /\ <<t, "changed">> \in told => "used" \in rows[t]
    BY <1>3 DEF ToldInv, Kept
  <2> QED
    BY <1>4, <2>1
<1> HIDE DEF t, row
<1>7. Kept'
  BY <1>1, <1>2, <1>3, <1>5, <1>6, KeptFind DEF ToldInv
<1>8. Telling'
  BY <1>1, <1>2 DEF ToldInv, Telling, t
<1> QED
  BY <1>7, <1>8

LEMMA ToldRollback == ToldInv /\ Rollback => Kept' /\ Telling'
<1> SUFFICES ASSUME ToldInv, Rollback PROVE Kept' /\ Telling'
  OBVIOUS
<1>1. op' = Idle /\ tx' = NoWrites /\ UNCHANGED <<rows, told, late, mail>>
  BY DEF Rollback, Goes
<1>2. op'.at # "update"
  BY <1>1, IdleFacts
<1> QED
  BY <1>1, <1>2, KeptQuiet, IdleTelling DEF ToldInv

\* UPDATE of the row that was read.
LEMMA ToldWrite ==
    ASSUME ToldInv, op.at = "update", op.token \in TokenIds, NEW next \in Op,
           Write(op.token, op.object, next), next.at # "update"
    PROVE  \/ Rollback
           \/ /\ op' = next /\ UNCHANGED <<rows, told, late, mail>>
              /\ Wrote(tx, op.token, op.object, tx')
              /\ Kept'
<1>1. CASE Rollback
  BY <1>1
<1>2. CASE ~Rollback
  <2>1. Goes(next) /\ WritesRow(op.token, op.object)
    BY <1>2 DEF Write, WritesRow
  <2>2. op' = next /\ UNCHANGED <<rows, told, late, mail>>
    BY <2>1 DEF Goes
  <2>3. op.object \in Row
    BY OpFacts DEF ToldInv, IInv, TypeOK
  <2>4. Wrote(tx, op.token, op.object, tx')
    BY <2>1, <2>3, WroteTx DEF ToldInv, IInv
  <2>5. op'.at # "update"
    BY <2>2
  <2>6. Kept'
    BY <2>2, <2>4, <2>5, KeptWrite DEF ToldInv
  <2> QED
    BY <2>2, <2>4, <2>6
<1> QED
  BY <1>1, <1>2

LEMMA ToldUpdateReplaced == ToldInv /\ UpdateReplaced => Kept' /\ Telling'
<1> SUFFICES ASSUME ToldInv, UpdateReplaced PROVE Kept' /\ Telling'
  OBVIOUS
<1> DEFINE todo == op.todo \ {op.token}
           next == NextToReplace(todo)
<1>1. /\ op.name = "create" /\ op.at = "update" /\ op \in Op
      /\ Write(op.token, op.object, next)
      /\ op.token \in TokenIds
  BY DEF UpdateReplaced, Runs, ToldInv, IInv, TypeOK, IsTable, OpInv, Creating
<1>2. todo \in SUBSET TokenIds
  BY <1>1, OpFacts
<1> HIDE DEF todo
<1>3. next \in Op /\ next.name = "create" /\ next.at \in {"find", "insert"}
  BY <1>1, <1>2, NextToReplaceFacts
<1> HIDE DEF next
<1>4. Rollback \/ (op' = next /\ Kept')
  BY <1>1, <1>3, ToldWrite
<1>5. op' = next => Telling'
  BY <1>3 DEF Telling
<1> QED
  BY <1>4, <1>5, ToldRollback

LEMMA ViewNext ==
    /\ DOMAIN View' = DOMAIN rows' \cup DOMAIN tx'.rows
    /\ \A t \in DOMAIN tx'.rows : View'[t] = tx'.rows[t]
    /\ \A t \in DOMAIN rows' : t \in DOMAIN tx'.rows \/ View'[t] = rows'[t]
BY DEF View, Over

LEMMA ToldUpdateToken == ToldInv /\ UpdateToken => Kept' /\ Telling'
<1> SUFFICES ASSUME ToldInv, UpdateToken PROVE Kept' /\ Telling'
  OBVIOUS
<1> DEFINE next == [op EXCEPT !.at = "commit"]
<1>1. /\ op.name \in {"cancel", "verify", "reset"} /\ op.at = "update" /\ op \in Op
      /\ Write(op.token, op.object, next)
  BY NewMarksFacts DEF UpdateToken, ToldInv, IInv, TypeOK
<1>2. op.token \in TokenIds
  BY <1>1, TokenFacts DEF ToldInv
<1>3. next \in Op /\ next.name = op.name /\ next.at = "commit" /\ next.token = op.token
  BY <1>1 DEF Op
<1> HIDE DEF next
<1>4. \/ Rollback
      \/ /\ op' = next /\ UNCHANGED <<rows, told, late, mail>>
         /\ Wrote(tx, op.token, op.object, tx')
         /\ Kept'
  BY <1>1, <1>2, <1>3, ToldWrite
<1>5. ASSUME op' = next, UNCHANGED mail, Wrote(tx, op.token, op.object, tx')
      PROVE  Telling'
  <2>1. op.token \in DOMAIN tx'.rows /\ tx'.rows[op.token] = op.object
    BY <1>5 DEF Wrote
  <2>2. op.token \in DOMAIN View' /\ View'[op.token] = op.object
    BY <2>1, ViewNext
  <2>3. op.name = "verify" => op.object \cap Verified # {}
    BY <1>1, <1>2 DEF ToldInv, Telling, Kept, Holds
  <2>4. op.name = "reset" => "used" \in op.object
    BY <1>1 DEF ToldInv, IInv, OpInv, Resetting
  <2> QED
    BY <1>1, <1>3, <1>5, <2>1, <2>2, <2>3, <2>4 DEF ToldInv, Telling
<1> QED
  BY <1>4, <1>5, ToldRollback

LEMMA ToldInsert == ToldInv /\ InsertToken => Kept' /\ Telling'
<1> SUFFICES ASSUME ToldInv, InsertToken PROVE Kept' /\ Telling'
  OBVIOUS
<1> DEFINE t == lastId + 1
<1>1. /\ op.name = "create" /\ op.at = "insert" /\ op \in Op
      /\ UNCHANGED <<rows, told, late, mail>>
  BY DEF InsertToken, Runs, ToldInv, IInv, TypeOK
<1>2. lastId \in Nat /\ DOMAIN rows \subseteq 1..lastId /\ lastId < MaxTokens
  BY <1>1, WritesTyped DEF ToldInv, IInv, OpInv, Creating
<1>3. t \in TokenIds /\ t \notin DOMAIN rows
  BY <1>2, TxAssumption DEF TokenIds
<1>4. CASE Rivals(t) # {}
  <2>1. op' = Idle /\ tx' = NoWrites
    BY <1>4 DEF InsertToken
  <2>2. op'.at # "update"
    BY <2>1, IdleFacts
  <2> QED
    BY <1>1, <2>1, <2>2, KeptQuiet, IdleTelling DEF ToldInv
<1>5. CASE Rivals(t) = {}
  <2>1. PICK row \in Row : row = {}
    BY DEF Row
  <2>2. op' = [op EXCEPT !.token = t, !.at = "commit"] /\ WritesRow(t, row)
    BY <1>5, <2>1 DEF InsertToken, WritesRow
  <2> HIDE DEF t
  <2>3. op'.name = "create" /\ op'.token = t /\ op'.at = "commit"
    BY <1>1, <2>2 DEF Op
  <2>4. Wrote(tx, t, row, tx')
    BY <1>3, <2>2, WroteTx DEF ToldInv, IInv
  <2>5. Kept'
    BY <1>1, <1>3, <2>3, <2>4, KeptWrite DEF ToldInv
  <2>6. Telling'
    BY <2>3, <2>4 DEF Telling, Wrote
  <2> QED
    BY <2>5, <2>6
<1> QED
  BY <1>4, <1>5

\* COMMIT tells what is in the row by then.
LEMMA ToldCommit == ToldInv /\ Commit => Kept' /\ Telling'
<1> SUFFICES ASSUME ToldInv, Commit PROVE Kept' /\ Telling'
  OBVIOUS
<1>1. /\ op.at = "commit" /\ Committed(tx) /\ op' = Idle /\ tx' = NoWrites /\ late' = late
      /\ mail' = IF op.name = "create" THEN [mail EXCEPT ![op.token] = "posted"] ELSE mail
      /\ told' \in {told, told \cup {<<op.token, s>> : s \in Successes[op.name]}}
  BY DEF Commit
<1>2. Installs(tx, rows, uses, password, rows', uses', password') /\ IsWrites(tx)
  BY <1>1, CommittedFacts, WritesTyped DEF ToldInv, IInv
<1>3. op'.at # "update" /\ DOMAIN tx'.rows = {}
  <2>1. DOMAIN tx'.rows = {}
    BY <1>1, NoWritesFacts, Zenon
  <2> QED
    BY <1>1, <2>1, IdleFacts
<1>4. op.name \in {"create", "cancel", "verify", "reset"} /\ mail \in Mails
  BY <1>1, OpFacts, IdleFacts DEF ToldInv, IInv, TypeOK, OpInv, Shape, Mails
<1>5. ASSUME NEW t, NEW marks, \A x \in late : t \in DOMAIN x.rows => x.rows[t] \cap marks # {}
      PROVE  Holds(t, marks)'
  BY <1>1, <1>3, <1>5 DEF Holds
<1>6. ASSUME NEW t, t \in DOMAIN tx.rows, NEW marks PROVE Holds(t, marks)'
  <2>1. \A x \in late : t \notin DOMAIN x.rows
    BY <1>6 DEF ToldInv, IInv, TxInv, Apart
  <2> QED
    BY <1>5, <2>1
<1>7. ASSUME NEW t, NEW marks, Holds(t, marks) PROVE Holds(t, marks)'
  <2>1. \A x \in late : t \in DOMAIN x.rows => x.rows[t] \cap marks # {}
    BY <1>7 DEF Holds
  <2> QED
    BY <1>5, <2>1
<1>8. ASSUME NEW t \in DOMAIN rows, NEW marks, rows[t] \cap marks # {}, Holds(t, marks)
      PROVE  t \in DOMAIN rows' /\ rows'[t] \cap marks # {}
  BY <1>2, <1>8 DEF Holds, Installs
<1>9. ASSUME NEW t \in TokenIds
      PROVE  /\ mail'[t] # "none" => t \in DOMAIN rows'
             /\ mail'[t] \in {"posted", "sent"} => Holds(t, Verified)'
  <2>1. CASE mail'[t] = mail[t]
    <3>1. mail[t] # "none" => t \in DOMAIN rows'
      BY <1>2 DEF ToldInv, Kept, Installs
    <3>2. mail[t] \in {"posted", "sent"} => Holds(t, Verified)'
      BY <1>7 DEF ToldInv, Kept
    <3> QED
      BY <2>1, <3>1, <3>2
  <2>2. CASE mail'[t] # mail[t]
    <3>1. t = op.token /\ op.name = "create"
      BY <1>1, <1>4, <2>2 DEF Mails
    <3>2. t \in DOMAIN tx.rows
      BY <1>1, <3>1 DEF ToldInv, Telling
    <3> QED
      BY <1>2, <1>6, <3>2 DEF Installs
  <2> QED
    BY <2>1, <2>2
<1>10. ASSUME NEW t \in TokenIds, <<t, "verified">> \in told'
       PROVE  t \in DOMAIN rows' /\ rows'[t] \cap Verified # {} /\ Holds(t, Verified)'
  <2>1. CASE <<t, "verified">> \in told
    <3>1. t \in DOMAIN rows /\ rows[t] \cap Verified # {} /\ Holds(t, Verified)
      BY <2>1 DEF ToldInv, Kept
    <3> QED
      BY <1>7, <1>8, <3>1
  <2>2. CASE <<t, "verified">> \notin told
    <3>1. t = op.token /\ op.name = "verify"
      BY <1>1, <1>4, <1>10, <2>2 DEF Successes
    <3>2. op.token \in DOMAIN View /\ View[op.token] \cap Verified # {}
      BY <1>1, <3>1 DEF ToldInv, Telling
    <3>3. t \in DOMAIN rows' /\ rows'[t] = View[t]
      BY <1>2, <3>1, <3>2, ViewFacts DEF ToldInv, IInv, Installs
    <3>4. Holds(t, Verified)
      BY <3>1 DEF ToldInv, Telling, Kept
    <3> QED
      BY <1>7, <3>1, <3>2, <3>3, <3>4
  <2> QED
    BY <2>1, <2>2
<1>11. ASSUME NEW t \in TokenIds, <<t, "changed">> \in told'
       PROVE  t \in DOMAIN rows' /\ "used" \in rows'[t] /\ Holds(t, {"used"})'
  <2>1. CASE <<t, "changed">> \in told
    <3>1. t \in DOMAIN rows /\ rows[t] \cap {"used"} # {} /\ Holds(t, {"used"})
      BY <2>1 DEF ToldInv, Kept
    <3>2. t \in DOMAIN rows' /\ rows'[t] \cap {"used"} # {}
      BY <1>8, <3>1
    <3> QED
      BY <1>7, <3>1, <3>2
  <2>2. CASE <<t, "changed">> \notin told
    <3>1. t = op.token /\ op.name = "reset"
      BY <1>1, <1>4, <1>11, <2>2 DEF Successes
    <3>2. t \in DOMAIN tx.rows /\ "used" \in tx.rows[t]
      BY <1>1, <3>1 DEF ToldInv, Telling
    <3> QED
      BY <1>2, <1>6, <3>2 DEF Installs
  <2> QED
    BY <2>1, <2>2
<1>12. Kept'
  BY <1>9, <1>10, <1>11 DEF Kept
<1> QED
  BY <1>1, <1>12, IdleTelling

LEMMA ToldLateCommit ==
    ASSUME ToldInv, NEW z \in late, LateCommit(z)
    PROVE  Kept' /\ Telling'
<1>1. late' = late \ {z} /\ Committed(z) /\ UNCHANGED <<op, tx, mail, told>>
  BY DEF LateCommit
<1>2. Installs(z, rows, uses, password, rows', uses', password') /\ IsWrites(z)
  BY <1>1, CommittedFacts, WritesTyped DEF ToldInv, IInv
<1>3. ASSUME NEW t, NEW marks, Holds(t, marks) PROVE Holds(t, marks)'
  BY <1>1, <1>3 DEF Holds
<1>4. ASSUME NEW t \in DOMAIN rows, NEW marks, rows[t] \cap marks # {}, Holds(t, marks)
      PROVE  t \in DOMAIN rows' /\ rows'[t] \cap marks # {}
  BY <1>2, <1>4 DEF Holds, Installs
<1>5. Kept'
  <2>1. ASSUME NEW t \in TokenIds
        PROVE  /\ mail[t] # "none" => t \in DOMAIN rows'
               /\ mail[t] \in {"posted", "sent"} => Holds(t, Verified)'
    BY <1>2, <1>3 DEF ToldInv, Kept, Installs
  <2>2. ASSUME NEW t \in TokenIds, <<t, "verified">> \in told
        PROVE  t \in DOMAIN rows' /\ rows'[t] \cap Verified # {} /\ Holds(t, Verified)'
    <3>1. t \in DOMAIN rows /\ rows[t] \cap Verified # {} /\ Holds(t, Verified)
      BY <2>2 DEF ToldInv, Kept
    <3> QED
      BY <1>3, <1>4, <3>1
  <2>3. ASSUME NEW t \in TokenIds, <<t, "changed">> \in told
        PROVE  t \in DOMAIN rows' /\ "used" \in rows'[t] /\ Holds(t, {"used"})'
    <3>1. t \in DOMAIN rows /\ rows[t] \cap {"used"} # {} /\ Holds(t, {"used"})
      BY <2>3 DEF ToldInv, Kept
    <3>2. t \in DOMAIN rows' /\ rows'[t] \cap {"used"} # {}
      BY <1>4, <3>1
    <3> QED
      BY <1>3, <3>1, <3>2
  <2> QED
    BY <1>1, <2>1, <2>2, <2>3 DEF Kept
<1>6. op.name = "verify" /\ op.at = "commit" =>
        op.token \in DOMAIN View' /\ View'[op.token] \cap Verified # {}
  <2>1. SUFFICES ASSUME op.name = "verify", op.at = "commit"
                 PROVE  op.token \in DOMAIN View' /\ View'[op.token] \cap Verified # {}
    OBVIOUS
  <2>2. /\ op.token \in DOMAIN View /\ View[op.token] \cap Verified # {}
        /\ op.token \in TokenIds /\ Holds(op.token, Verified)
    BY <2>1 DEF ToldInv, IInv, OpInv, Shape, Telling, Kept
  <2>3. CASE op.token \in DOMAIN tx.rows
    BY <1>1, <2>2, <2>3, ViewNext DEF Holds
  <2>4. CASE op.token \notin DOMAIN tx.rows
    <3>1. op.token \in DOMAIN rows /\ rows[op.token] \cap Verified # {}
      BY <2>2, <2>4, ViewFacts DEF ToldInv, IInv
    <3>2. op.token \in DOMAIN rows' /\ rows'[op.token] \cap Verified # {}
      BY <1>4, <2>2, <3>1
    <3> QED
      BY <1>1, <2>4, <3>2, ViewNext
  <2> QED
    BY <2>3, <2>4
<1>7. Telling'
  BY <1>1, <1>6 DEF ToldInv, Telling
<1> QED
  BY <1>5, <1>7

LEMMA ToldStep == ToldInv /\ [Next]_vars => ToldInv'
<1> SUFFICES ASSUME ToldInv, [Next]_vars PROVE ToldInv'
  OBVIOUS
<1>0. IInv'
  BY NextStep DEF ToldInv
<1>1. CASE Begins
  BY <1>0, <1>1, ToldBegins DEF ToldInv
<1>2. CASE Statement
  BY <1>0, <1>2, ToldSelects, ToldFindActive, ToldUpdateReplaced, ToldInsert, ToldUpdateUser,
     ToldFindToken, ToldUpdateToken, ToldCommit DEF Statement, ToldInv
<1>3. CASE CommitLost \/ Crash
  <2>1. /\ op' = Idle /\ tx' = NoWrites /\ late' \subseteq late \cup {tx}
        /\ UNCHANGED <<rows, told>>
        /\ \A t \in TokenIds : mail'[t] \in {mail[t], "none"}
    BY <1>3 DEF CommitLost, Crash
  <2>2. op'.at # "update"
    BY <2>1, IdleFacts
  <2> QED
    BY <1>0, <2>1, <2>2, KeptQuiet, IdleTelling DEF ToldInv
<1>4. CASE Refuse
  BY <1>0, <1>4, ToldRollback DEF Refuse, ToldInv
<1>5. CASE \E t \in TokenIds : CannotCancel(t) \/ MailReplyFinished(t)
  <2>1. /\ op' = Idle /\ op' = op /\ UNCHANGED <<rows, told, tx, late>>
    BY <1>5 DEF CannotCancel, MailReplyFinished
  <2>2. mail \in Mails
    BY DEF ToldInv, IInv, TypeOK, Mails
  <2>3. \A t \in TokenIds :
            /\ mail'[t] # "none" => mail[t] # "none"
            /\ mail'[t] \in {"posted", "sent"} => mail[t] \in {"posted", "sent"}
    BY <1>5, <2>2 DEF CannotCancel, MailReplyFinished, Mails
  <2> QED
    BY <1>0, <2>1, <2>3, KeptQuiet, IdleTelling DEF ToldInv
<1>6. CASE \E x \in late : LateCommit(x)
  BY <1>0, <1>6, ToldLateCommit DEF ToldInv
<1>7. CASE (\E x \in late : LateAbort(x)) \/ Start \/ UNCHANGED vars
  <2>1. UNCHANGED <<rows, told, tx, op, mail>> /\ late' \subseteq late \cup {tx}
    BY <1>7 DEF LateAbort, Start, vars
  <2>2. Kept'
    BY <2>1, KeptQuiet DEF ToldInv
  <2>3. View' = View
    BY <2>1 DEF View
  <2>4. Telling'
    BY <2>1, <2>3 DEF ToldInv, Telling
  <2> QED
    BY <1>0, <2>2, <2>4 DEF ToldInv
<1> QED
  BY <1>1, <1>2, <1>3, <1>4, <1>5, <1>6, <1>7 DEF Next, LateEnds

\* A client that was told of success finds it to last, whichever late transaction
\* writes back a row it has read before.
THEOREM WhatWasToldIsKept == Spec => []ToldIsKept
<1>1. Init => ToldInv
  <2>1. SUFFICES ASSUME Init PROVE ToldInv
    OBVIOUS
  <2>2. /\ told = {} /\ op = Idle /\ mail = [t \in TokenIds |-> "none"]
    BY <2>1 DEF Init
  <2>3. Kept
    BY <2>2 DEF Kept
  <2>4. Telling
    BY <2>2, IdleFacts DEF Telling
  <2> QED
    BY <2>1, <2>3, <2>4, InitIInv DEF ToldInv
<1>2. ToldInv => ToldIsKept
  BY DEF ToldInv, Kept, ToldIsKept, Verified
<1> QED
  BY <1>1, <1>2, ToldStep, PTL DEF Spec

-----------------------------------------------------------------------------
(* What is on record of a use *)

\* A row of token t that may be on record where M has become of the mails and q
\* is the password: by itself, or with the transaction that sets the password
\* through token p.  Only a mail that failed and is done with leaves its marks;
\* only a client that was handed its token uses it, and verifies it before.
Fits(t, row, p, M, q) ==
    /\ row \cap {"cancelled", "email_failed"} # {} => M[t] = "none"
    /\ "used" \in row => "verified" \in row /\ M[t] = "sent" /\ (t <= q \/ t = p)

\* What w writes may be on record once w has committed.
Fitting(w, M, q) ==
    /\ \A t \in DOMAIN w.rows : Fits(t, w.rows[t], w.password, M, q)
    /\ w.password # 0 => M[w.password] = "sent"

Recorded ==
    /\ \A t \in DOMAIN rows : Fits(t, rows[t], 0, mail, password)
    /\ \A w \in late \cup {tx} : Fitting(w, mail, password)
    /\ op.at = "update" => Fits(op.token, op.object, tx.password, mail, password)
    /\ \A t \in TokenIds : uses[t] # 0 => mail[t] = "sent"
    /\ password # 0 => uses[password] # 0
    /\ op.name = "create" /\ op.at = "commit" => Active(tx.rows[op.token])

RecordInv == ToldInv /\ Recorded

\* The mail of t is what it was, if it has been answered.
Same(t, M, M2) == M[t] \in {"none", "sent"} => M2[t] = M[t]

LEMMA FitsOn ==
    ASSUME NEW t \in TokenIds, NEW row, NEW p, NEW M, NEW M2,
           NEW q \in {0} \cup TokenIds, NEW q2 \in {0} \cup TokenIds, q <= q2,
           Fits(t, row, p, M, q), Same(t, M, M2)
    PROVE  Fits(t, row, p, M2, q2)
<1>1. t \in Nat /\ q \in Nat /\ q2 \in Nat
  BY TokenIdsNat
<1>2. t <= q => t <= q2
  BY <1>1
<1> QED
  BY <1>2 DEF Fits, Same

LEMMA FittingOn ==
    ASSUME NEW w, IsWrites(w), NEW M, NEW M2,
           NEW q \in {0} \cup TokenIds, NEW q2 \in {0} \cup TokenIds, q <= q2,
           Fitting(w, M, q),
           \A t \in TokenIds : t \in DOMAIN w.rows \/ t = w.password => Same(t, M, M2)
    PROVE  Fitting(w, M2, q2)
<1>1. DOMAIN w.rows \subseteq TokenIds
  BY DEF IsWrites, IsTable
<1>2. ASSUME NEW t \in DOMAIN w.rows PROVE Fits(t, w.rows[t], w.password, M2, q2)
  BY <1>1, FitsOn DEF Fitting
<1>3. w.password # 0 => M2[w.password] = "sent"
  BY DEF Fitting, Same, IsWrites
<1> QED
  BY <1>2, <1>3 DEF Fitting

LEMMA PasswordNat == \A q \in {0} \cup TokenIds : q \in Nat
BY TokenIdsNat

LEMMA NoWritesFitting == \A M, q : Fitting(NoWrites, M, q)
BY NoWritesFacts DEF Fitting

\* A step that commits nothing.
LEMMA RecordedOn ==
    ASSUME TypeOK, Recorded, UNCHANGED <<rows, uses, password>>,
           \A t \in TokenIds : Same(t, mail, mail'),
           late' \subseteq late \cup {tx}, Fitting(tx', mail', password),
           op'.at = "update" => Fits(op'.token, op'.object, tx'.password, mail', password),
           op'.name = "create" /\ op'.at = "commit" => Active(tx'.rows[op'.token])
    PROVE  Recorded'
<1>0. /\ DOMAIN rows \subseteq TokenIds /\ password \in {0} \cup TokenIds
      /\ password <= password
  BY TokenIdsNat DEF TypeOK, IsTable
<1>1. \A t \in DOMAIN rows : Fits(t, rows[t], 0, mail', password)
  BY <1>0, FitsOn DEF Recorded
<1>2. ASSUME NEW w \in late \cup {tx} PROVE Fitting(w, mail', password)
  <2>1. IsWrites(w) /\ Fitting(w, mail, password)
    BY WritesTyped DEF Recorded
  <2> QED
    BY <1>0, <2>1, FittingOn
<1>3. \A t \in TokenIds : uses[t] # 0 => mail'[t] = "sent"
  BY DEF Recorded, Same
<1> QED
  BY <1>1, <1>2, <1>3 DEF Recorded

\* A step that neither writes nor reads a row to write it back.
LEMMA RecordedQuiet ==
    ASSUME TypeOK, Recorded, UNCHANGED <<rows, uses, password>>,
           \A t \in TokenIds : Same(t, mail, mail'),
           late' \subseteq late \cup {tx}, tx' \in {tx, NoWrites},
           op'.at # "update" \/ (op' = op /\ tx' = tx /\ mail' = mail),
           op'.name = "create" => op'.at # "commit" \/ (op' = op /\ tx' = tx)
    PROVE  Recorded'
<1>0. /\ IsWrites(tx) /\ Fitting(tx, mail, password) /\ password \in {0} \cup TokenIds
      /\ password <= password
  BY TokenIdsNat, WritesTyped DEF Recorded, TypeOK
<1>1. Fitting(tx', mail', password)
  <2>1. CASE tx' = NoWrites
    BY <2>1, NoWritesFitting
  <2>2. CASE tx' = tx
    <3>1. Fitting(tx, mail', password)
      BY <1>0, FittingOn
    <3> QED
      BY <2>2, <3>1
  <2> QED
    BY <2>1, <2>2
<1>2. op'.at = "update" => Fits(op'.token, op'.object, tx'.password, mail', password)
  BY DEF Recorded
<1>3. op'.name = "create" /\ op'.at = "commit" => Active(tx'.rows[op'.token])
  BY DEF Recorded
<1> QED
  BY <1>1, <1>2, <1>3, RecordedOn

LEMMA SameMail == ASSUME UNCHANGED mail PROVE \A t \in TokenIds : Same(t, mail, mail')
BY DEF Same

LEMMA RecordedBegins == ASSUME RecordInv, Begins PROVE Recorded'
<1>1. PICK n \in {"create", "cancel", "verify", "reset"}, t \in {0} \cup TokenIds :
          /\ op' = [Idle EXCEPT !.name = n, !.token = t]
          /\ UNCHANGED <<rows, uses, password, tx, late>>
          /\ mail' = mail
             \/ (t \in TokenIds /\ mail[t] = "failed" /\ mail' = [mail EXCEPT ![t] = "none"])
  BY DEF Begins, BeginCreate, BeginCancel, BeginVerify, BeginReset, Begin, Goes
<1>2. op'.at = "select"
  BY <1>1 DEF Idle
<1>3. mail \in Mails /\ TypeOK /\ Recorded
  BY DEF RecordInv, ToldInv, IInv, TypeOK, Mails
<1>4. \A s \in TokenIds : Same(s, mail, mail')
  BY <1>1, <1>3 DEF Same, Mails
<1> QED
  BY <1>1, <1>2, <1>3, <1>4, RecordedQuiet

LEMMA RecordedSelects ==
    ASSUME RecordInv, SelectActive \/ SelectToCancel \/ SelectToVerify \/ SelectForUpdate
    PROVE  Recorded'
<1>0. op \in Op /\ TypeOK /\ Recorded
  BY DEF RecordInv, ToldInv, IInv, TypeOK
<1>1. /\ UNCHANGED <<rows, uses, password, tx, late, mail>>
      /\ op'.name = op.name /\ op'.at \in {"find", "insert", "user", "commit"}
      /\ op'.at = "commit" => op.name = "verify"
  <2>1. CASE SelectActive
    BY <1>0, <2>1 DEF SelectActive, Runs, Goes, NextToReplace, Op
  <2>2. CASE SelectToCancel
    BY <1>0, <2>2 DEF SelectToCancel, Runs, Goes, Op
  <2>3. CASE SelectToVerify
    BY <1>0, <2>3 DEF SelectToVerify, Runs, Goes, Op
  <2>4. CASE SelectForUpdate
    BY <1>0, <2>4 DEF SelectForUpdate, Runs, Goes, Op
  <2> QED
    BY <2>1, <2>2, <2>3, <2>4
<1>2. op'.at # "update" /\ (op'.name = "create" => op'.at # "commit")
  BY <1>1
<1>3. \A s \in TokenIds : Same(s, mail, mail')
  BY <1>1, SameMail
<1> QED
  BY <1>0, <1>1, <1>2, <1>3, RecordedQuiet

LEMMA RecordedUpdateUser == ASSUME RecordInv, UpdateUser PROVE Recorded'
<1>1. /\ UNCHANGED <<rows, uses, password, late, mail>>
      /\ op.name = "reset" /\ op.at = "user" /\ op' = [op EXCEPT !.at = "find"] /\ op \in Op
      /\ tx' = [tx EXCEPT !.password = op.token] /\ IsWrites(tx)
      /\ TypeOK /\ Recorded
  BY WritesTyped DEF UpdateUser, Runs, Goes, RecordInv, ToldInv, IInv, TypeOK
<1>2. op'.at = "find"
  BY <1>1 DEF Op
<1>3. tx'.rows = tx.rows /\ tx'.password = op.token
  BY <1>1 DEF IsWrites
<1>4. tx = NoWrites
  BY <1>1 DEF RecordInv, ToldInv, IInv, OpInv, Resetting
<1>5. DOMAIN tx'.rows = {}
  BY <1>3, <1>4, NoWritesFacts
<1>6. mail[op.token] = "sent"
  BY <1>1 DEF RecordInv, ToldInv, Telling
<1>7. Fitting(tx', mail', password)
  BY <1>1, <1>3, <1>5, <1>6 DEF Fitting
<1>8. \A s \in TokenIds : Same(s, mail, mail')
  BY <1>1, SameMail
<1> QED
  BY <1>1, <1>2, <1>7, <1>8, RecordedOn

\* A row that is read fits: it is on record, or what the transaction wrote.
LEMMA ViewFits ==
    ASSUME RecordInv, NEW t \in DOMAIN View
    PROVE  Fits(t, View[t], tx.password, mail, password)
<1>1. CASE t \in DOMAIN tx.rows
  BY <1>1, ViewFacts DEF RecordInv, ToldInv, IInv, Recorded, Fitting
<1>2. CASE t \notin DOMAIN tx.rows
  <2>1. t \in DOMAIN rows /\ View[t] = rows[t] /\ t \in TokenIds
    BY <1>2, ViewFacts DEF RecordInv, ToldInv, IInv
  <2>2. Fits(t, rows[t], 0, mail, password) /\ t # 0
    BY <2>1, TokenIdsNat DEF RecordInv, Recorded
  <2> QED
    BY <2>1, <2>2 DEF Fits
<1> QED
  BY <1>1, <1>2

LEMMA RecordedFindActive == ASSUME NEW t \in TokenIds, RecordInv, FindActive(t) PROVE Recorded'
<1> DEFINE row == View[t] \cup {"replaced"}
<1>1. /\ UNCHANGED <<rows, uses, password, tx, late, mail>>
      /\ op.name = "create" /\ op.at = "find" /\ op \in Op /\ t \in op.todo
      /\ op' = [op EXCEPT !.token = t, !.at = "update", !.object = row]
      /\ TypeOK /\ Recorded
  BY DEF FindActive, Runs, Goes, RecordInv, ToldInv, IInv, TypeOK
<1>2. op'.token = t /\ op'.at = "update" /\ op'.object = row
  BY <1>1 DEF Op
<1>3. t \in DOMAIN View
  BY <1>1, ViewFacts DEF RecordInv, ToldInv, IInv, OpInv, Creating
<1>4. Fits(t, View[t], tx.password, mail, password)
  BY <1>3, ViewFits
<1>5. Fits(t, row, tx.password, mail, password)
  BY <1>4 DEF Fits
<1>6. Fitting(tx, mail, password)
  BY <1>1 DEF Recorded
<1>7. \A s \in TokenIds : Same(s, mail, mail')
  BY <1>1, SameMail
<1> HIDE DEF row
<1>8. Fits(op'.token, op'.object, tx'.password, mail', password)
  BY <1>1, <1>2, <1>5
<1> QED
  BY <1>1, <1>2, <1>6, <1>7, <1>8, RecordedOn


LEMMA RecordedFindToken == ASSUME RecordInv, FindToken PROVE Recorded'
<1> DEFINE t == op.token
           row == View[op.token] \cup NewMarks[op.name]
<1>1. /\ UNCHANGED <<rows, uses, password, tx, late, mail>>
      /\ op.name \in {"cancel", "verify", "reset"} /\ op.at = "find" /\ op \in Op
      /\ op' = [op EXCEPT !.at = "update", !.object = row]
      /\ TypeOK /\ Recorded
  BY NewMarksFacts DEF FindToken, Goes, RecordInv, ToldInv, IInv, TypeOK
<1>2. op'.token = t /\ op'.at = "update" /\ op'.object = row
  BY <1>1 DEF Op
<1>3. /\ t \in DOMAIN rows /\ t \in DOMAIN View /\ DOMAIN tx.rows = {}
      /\ op.name = "reset" => tx.password = t
  BY <1>1, TokenFacts DEF RecordInv, ToldInv
<1>4. Fits(t, View[t], tx.password, mail, password)
  BY <1>3, ViewFits
<1>5. Fits(t, row, tx.password, mail, password)
  <2>1. CASE op.name = "cancel"
    <3>1. mail[t] = "none" /\ NewMarks[op.name] = {"cancelled", "email_failed"}
      BY <2>1 DEF RecordInv, ToldInv, Telling, NewMarks
    <3> QED
      BY <1>4, <3>1 DEF Fits
  <2>2. CASE op.name = "verify"
    <3>1. NewMarks[op.name] = {"verified"}
      BY <2>2 DEF NewMarks
    <3> QED
      BY <1>4, <3>1 DEF Fits
  <2>3. CASE op.name = "reset"
    <3>1. mail[t] = "sent" /\ NewMarks[op.name] = {"used"}
      BY <2>3 DEF RecordInv, ToldInv, Telling, NewMarks
    <3>2. "verified" \in rows[t]
      BY <1>1, <2>3 DEF RecordInv, ToldInv, IInv, OpInv, Resetting
    <3>3. View[t] = rows[t]
      BY <1>3, ViewFacts DEF RecordInv, ToldInv, IInv
    <3> QED
      BY <1>3, <1>4, <2>3, <3>1, <3>2, <3>3 DEF Fits
  <2> QED
    BY <1>1, <2>1, <2>2, <2>3
<1>6. Fitting(tx, mail, password)
  BY <1>1 DEF Recorded
<1>7. \A s \in TokenIds : Same(s, mail, mail')
  BY <1>1, SameMail
<1> HIDE DEF t, row
<1>8. Fits(op'.token, op'.object, tx'.password, mail', password)
  BY <1>1, <1>2, <1>5
<1> QED
  BY <1>1, <1>2, <1>6, <1>7, <1>8, RecordedOn

LEMMA RecordedRollback == ASSUME RecordInv, Rollback PROVE Recorded'
<1>1. op' = Idle /\ tx' = NoWrites /\ UNCHANGED <<rows, uses, password, late, mail>>
  BY DEF Rollback, Goes
<1>2. op'.at = "select"
  BY <1>1, IdleFacts
<1>3. TypeOK /\ Recorded
  BY DEF RecordInv, ToldInv, IInv
<1>4. \A s \in TokenIds : Same(s, mail, mail')
  BY <1>1, SameMail
<1> QED
  BY <1>1, <1>2, <1>3, <1>4, RecordedQuiet

\* UPDATE and INSERT of a row that fits.
LEMMA RecordedWrite ==
    ASSUME RecordInv, UNCHANGED <<rows, uses, password, late, mail>>, NEW t \in TokenIds, NEW row,
           Wrote(tx, t, row, tx'), Fits(t, row, tx.password, mail, password),
           op'.at # "update",
           op'.name = "create" /\ op'.at = "commit" => op'.token = t /\ Active(row)
    PROVE  Recorded'
<1>1. TypeOK /\ Recorded /\ Fitting(tx, mail, password)
  BY DEF RecordInv, ToldInv, IInv, Recorded
<1>2. Fitting(tx', mail', password)
  BY <1>1 DEF Fitting, Wrote
<1>3. op'.name = "create" /\ op'.at = "commit" => Active(tx'.rows[op'.token])
  BY DEF Wrote
<1>4. \A s \in TokenIds : Same(s, mail, mail')
  BY SameMail
<1> QED
  BY <1>1, <1>2, <1>3, <1>4, RecordedOn

LEMMA RecordedUpdates == ASSUME RecordInv, UpdateReplaced \/ UpdateToken PROVE Recorded'
<1>1. CASE Rollback
  BY <1>1, RecordedRollback
<1>2. CASE ~Rollback
  <2>0. op \in Op /\ op.token \in TokenIds /\ op.object \in Row /\ op.at = "update"
    <3>1. op \in Op /\ op.at = "update"
      BY DEF UpdateReplaced, UpdateToken, Runs, RecordInv, ToldInv, IInv, TypeOK
    <3>2. CASE UpdateReplaced
      BY <3>1, <3>2, OpFacts
         DEF UpdateReplaced, Runs, RecordInv, ToldInv, IInv, TypeOK, IsTable, OpInv, Creating
    <3>3. CASE UpdateToken
      <4>1. op.name \in {"cancel", "verify", "reset"}
        BY <3>3, NewMarksFacts DEF UpdateToken
      <4> QED
        BY <3>1, <4>1, OpFacts, TokenFacts DEF RecordInv, ToldInv
    <3> QED
      BY <3>2, <3>3
  <2>1. PICK next : /\ Goes(next) /\ WritesRow(op.token, op.object)
                    /\ next.at # "update" /\ (next.name = "create" => next.at # "commit")
    <3>1. CASE UpdateReplaced
      <4> DEFINE next == NextToReplace(op.todo \ {op.token})
      <4>1. Write(op.token, op.object, next) /\ op.todo \ {op.token} \in SUBSET TokenIds
        BY <2>0, <3>1, OpFacts DEF UpdateReplaced
      <4>2. next.at \in {"find", "insert"}
        BY <2>0, <3>1, <4>1, NextToReplaceFacts DEF UpdateReplaced, Runs
      <4> QED
        BY <1>2, <4>1, <4>2 DEF Write, WritesRow
    <3>2. CASE UpdateToken
      <4> DEFINE next == [op EXCEPT !.at = "commit"]
      <4>1. Write(op.token, op.object, next) /\ op.name \in {"cancel", "verify", "reset"}
        BY <3>2, NewMarksFacts DEF UpdateToken
      <4>2. next.at = "commit" /\ next.name = op.name
        BY <2>0 DEF Op
      <4> QED
        BY <1>2, <4>1, <4>2 DEF Write, WritesRow
    <3> QED
      BY <3>1, <3>2
  <2>2. UNCHANGED <<rows, uses, password, late, mail>> /\ op' = next
    BY <2>1 DEF Goes
  <2>3. Wrote(tx, op.token, op.object, tx')
    BY <2>0, <2>1, WroteTx DEF RecordInv, ToldInv, IInv
  <2>4. Fits(op.token, op.object, tx.password, mail, password)
    BY <2>0 DEF RecordInv, Recorded
  <2> QED
    BY <2>0, <2>1, <2>2, <2>3, <2>4, RecordedWrite
<1> QED
  BY <1>1, <1>2

LEMMA RecordedInsert == ASSUME RecordInv, InsertToken PROVE Recorded'
<1> DEFINE t == lastId + 1
<1>1. /\ op.name = "create" /\ op.at = "insert" /\ op \in Op
      /\ UNCHANGED <<rows, uses, password, late, mail>>
  BY DEF InsertToken, Runs, RecordInv, ToldInv, IInv, TypeOK
<1>2. lastId \in Nat /\ lastId < MaxTokens
  BY <1>1, WritesTyped DEF RecordInv, ToldInv, IInv, OpInv, Creating
<1>3. t \in TokenIds
  BY <1>2, TxAssumption DEF TokenIds
<1>4. CASE Rivals(t) # {}
  <2>1. op' = Idle /\ tx' = NoWrites
    BY <1>4 DEF InsertToken
  <2>2. op'.at = "select"
    BY <2>1, IdleFacts
  <2>3. TypeOK /\ Recorded /\ \A s \in TokenIds : Same(s, mail, mail')
    BY <1>1, SameMail DEF RecordInv, ToldInv, IInv
  <2> QED
    BY <1>1, <2>1, <2>2, <2>3, RecordedQuiet
<1>5. CASE Rivals(t) = {}
  <2>1. PICK row \in Row : row = {}
    BY DEF Row
  <2>2. op' = [op EXCEPT !.token = t, !.at = "commit"] /\ WritesRow(t, row)
    BY <1>5, <2>1 DEF InsertToken, WritesRow
  <2> HIDE DEF t
  <2>3. op'.name = "create" /\ op'.token = t /\ op'.at = "commit"
    BY <1>1, <2>2 DEF Op
  <2>4. Wrote(tx, t, row, tx')
    BY <1>3, <2>2, WroteTx DEF RecordInv, ToldInv, IInv
  <2>5. Fits(t, row, tx.password, mail, password) /\ Active(row)
    BY <2>1, ActiveFacts DEF Fits
  <2> QED
    BY <1>1, <1>3, <2>3, <2>4, <2>5, RecordedWrite
<1> QED
  BY <1>4, <1>5

\* What COMMIT of w leaves on record, if no answered mail but that of a new token
\* changes with it.
LEMMA RecordedInstall ==
    ASSUME RecordInv, NEW w \in late \cup {tx}, Committed(w), Sound(w, rows, uses), Ended(w),
           password <= password', password' \in {0} \cup TokenIds,
           \A t \in TokenIds : Same(t, mail, mail') \/ (t \in DOMAIN w.rows /\ Active(w.rows[t]))
    PROVE  /\ \A t \in DOMAIN rows' : Fits(t, rows'[t], 0, mail', password')
           /\ \A t \in TokenIds : uses'[t] # 0 => mail'[t] = "sent"
           /\ password' # 0 => uses'[password'] # 0
<1>0. /\ TypeOK /\ Recorded /\ IsWrites(w) /\ DOMAIN w.rows \subseteq 1..lastId
      /\ Fitting(w, mail, password) /\ password \in {0} \cup TokenIds
      /\ IsTable(rows)
  BY WritesTyped DEF RecordInv, ToldInv, IInv, Recorded, TypeOK
<1>1. Installs(w, rows, uses, password, rows', uses', password') /\ IsTable(rows')
  BY <1>0, CommittedFacts
<1>2. DOMAIN rows' \subseteq TokenIds /\ password' \in Nat
  <2>1. DOMAIN rows' \subseteq TokenIds
    BY <1>1 DEF IsTable
  <2>2. password' \in Nat
    BY PasswordNat, Zenon
  <2> QED
    BY <2>1, <2>2
<1>3. ASSUME NEW t \in DOMAIN rows' PROVE Fits(t, rows'[t], 0, mail', password')
  <2>0. t \in TokenIds /\ t \in Nat /\ password' \in Nat
    BY <1>2, <1>3, TokenIdsNat
  <2>1. CASE t \in DOMAIN w.rows
    <3>1. rows'[t] = w.rows[t] /\ Fits(t, w.rows[t], w.password, mail, password)
      BY <1>0, <1>1, <2>1 DEF Installs, Fitting
    <3>2. CASE Active(w.rows[t])
      BY <3>1, <3>2 DEF Active, Fits
    <3>3. CASE ~Active(w.rows[t])
      <4>1. Same(t, mail, mail')
        BY <2>0, <3>3
      <4>2. Fits(t, rows'[t], w.password, mail', password')
        BY <1>0, <2>0, <3>1, <4>1, FitsOn
      <4>3. t = w.password => t <= password'
        BY <1>1, <2>0, TokenIdsNat DEF Installs
      <4> QED
        BY <4>2, <4>3 DEF Fits
    <3> QED
      BY <3>2, <3>3
  <2>2. CASE t \notin DOMAIN w.rows
    <3>1. t \in DOMAIN rows /\ rows'[t] = rows[t] /\ Same(t, mail, mail')
      BY <1>1, <1>3, <2>0, <2>2 DEF Installs
    <3>2. Fits(t, rows[t], 0, mail, password)
      BY <1>0, <3>1 DEF Recorded
    <3> QED
      BY <1>0, <2>0, <3>1, <3>2, FitsOn
  <2> QED
    BY <2>1, <2>2
<1>4. ASSUME NEW t \in TokenIds, uses'[t] # 0 PROVE mail'[t] = "sent"
  <2>1. CASE t = w.password
    <3>1. mail[t] = "sent"
      BY <1>0, <2>1, TokenIdsNat DEF Fitting
    <3>2. ~Active(w.rows[t])
      BY <2>1, TokenIdsNat, ActiveFacts DEF Ended
    <3> QED
      BY <3>1, <3>2 DEF Same
  <2>2. CASE t # w.password
    <3>1. uses[t] # 0
      BY <1>1, <1>4, <2>2 DEF Installs
    <3>2. mail[t] = "sent"
      BY <1>0, <3>1 DEF Recorded
    <3>3. t \in DOMAIN w.rows => ~Active(w.rows[t])
      BY <3>1 DEF Sound
    <3> QED
      BY <3>2, <3>3 DEF Same
  <2> QED
    BY <2>1, <2>2
<1>5. password' # 0 => uses'[password'] # 0
  <2>1. \A t \in TokenIds : uses[t] \in Nat
    BY <1>0 DEF TypeOK
  <2>2. CASE w.password = 0
    <3>1. password' = password /\ \A t \in TokenIds : uses'[t] = uses[t]
      BY <1>1, <2>2, TokenIdsNat DEF Installs
    <3> QED
      BY <1>0, <3>1 DEF Recorded
  <2>3. CASE w.password # 0
    <3>1. password' = w.password /\ w.password \in TokenIds
      BY <1>0, <1>1, <2>3 DEF Installs, IsWrites
    <3>2. uses'[w.password] = uses[w.password] + 1
      BY <1>1, <3>1 DEF Installs
    <3> QED
      BY <2>1, <3>1, <3>2
  <2> QED
    BY <2>2, <2>3
<1> QED
  BY <1>3, <1>4, <1>5

\* What a transaction that stays open would put on record is not changed by the
\* COMMIT of another.
LEMMA RecordedKeeps ==
    ASSUME RecordInv, NEW w, IsWrites(w), Fitting(w, mail, password),
           password <= password', password' \in {0} \cup TokenIds,
           \A t \in TokenIds : t \in DOMAIN w.rows \/ t = w.password => Same(t, mail, mail')
    PROVE  Fitting(w, mail', password')
<1>1. password \in {0} \cup TokenIds
  BY DEF RecordInv, ToldInv, IInv, TypeOK
<1> QED
  BY <1>1, FittingOn

LEMMA RecordedCommit == ASSUME RecordInv, Commit PROVE Recorded'
<1>1. /\ op.at = "commit" /\ Committed(tx) /\ op' = Idle /\ tx' = NoWrites /\ late' = late
      /\ mail' = IF op.name = "create" THEN [mail EXCEPT ![op.token] = "posted"] ELSE mail
  BY DEF Commit
<1>2. /\ IsWrites(tx) /\ mail \in Mails /\ Sound(tx, rows, uses) /\ Ended(tx)
      /\ op'.at = "select" /\ op'.name = "none"
  BY <1>1, WritesTyped, IdleFacts
     DEF RecordInv, ToldInv, IInv, TxInv, OpInv, Shape, TypeOK, Mails
<1>3. password <= password' /\ password' \in {0} \cup TokenIds
  BY CommitStep DEF RecordInv, ToldInv, IInv, TypeOK
<1>4. op.name = "create" => op.token \in DOMAIN tx.rows /\ Active(tx.rows[op.token])
  BY <1>1 DEF RecordInv, Recorded, ToldInv, Telling
<1>5. ASSUME NEW t \in TokenIds, ~(op.name = "create" /\ t = op.token) PROVE Same(t, mail, mail')
  BY <1>1, <1>2, <1>5 DEF Same, Mails
<1>6. \A t \in TokenIds : Same(t, mail, mail') \/ (t \in DOMAIN tx.rows /\ Active(tx.rows[t]))
  BY <1>4, <1>5
<1>7. /\ \A t \in DOMAIN rows' : Fits(t, rows'[t], 0, mail', password')
      /\ \A t \in TokenIds : uses'[t] # 0 => mail'[t] = "sent"
      /\ password' # 0 => uses'[password'] # 0
  BY <1>1, <1>2, <1>3, <1>6, RecordedInstall
<1>8. ASSUME NEW x \in late PROVE Fitting(x, mail', password')
  <2>1. IsWrites(x) /\ Apart(x, tx) /\ Apart(tx, x) /\ Fitting(x, mail, password)
    BY WritesTyped DEF RecordInv, Recorded, ToldInv, IInv, TxInv
  <2>2. op.name = "create" => op.token \notin DOMAIN x.rows /\ op.token # x.password
    BY <1>4, <2>1 DEF Apart
  <2>3. \A t \in TokenIds : t \in DOMAIN x.rows \/ t = x.password => Same(t, mail, mail')
    BY <1>5, <2>2
  <2> QED
    BY <1>3, <2>1, <2>3, RecordedKeeps
<1>9. Fitting(tx', mail', password')
  BY <1>1, NoWritesFitting
<1> QED
  BY <1>1, <1>2, <1>7, <1>8, <1>9 DEF Recorded

LEMMA RecordedLateCommit ==
    ASSUME RecordInv, NEW z \in late, LateCommit(z)
    PROVE  Recorded'
<1>1. late' = late \ {z} /\ Committed(z) /\ UNCHANGED <<op, tx, mail>>
  BY DEF LateCommit
<1>2. /\ Sound(z, rows, uses) /\ Ended(z) /\ op \in Op /\ password \in {0} \cup TokenIds
      /\ Recorded /\ TypeOK
  BY DEF RecordInv, ToldInv, IInv, TxInv, TypeOK
<1>3. password <= password' /\ password' \in {0} \cup TokenIds
  BY LateCommitStep DEF RecordInv, ToldInv, IInv, TypeOK
<1>4. \A t \in TokenIds : Same(t, mail, mail')
  BY <1>1, SameMail
<1>5. /\ \A t \in DOMAIN rows' : Fits(t, rows'[t], 0, mail', password')
      /\ \A t \in TokenIds : uses'[t] # 0 => mail'[t] = "sent"
      /\ password' # 0 => uses'[password'] # 0
  BY <1>1, <1>2, <1>3, <1>4, RecordedInstall
<1>6. ASSUME NEW w \in late \cup {tx} PROVE Fitting(w, mail', password')
  <2>1. IsWrites(w) /\ Fitting(w, mail, password)
    BY <1>2, WritesTyped DEF Recorded
  <2> QED
    BY <1>3, <1>4, <2>1, RecordedKeeps
<1>7. op.at = "update" => Fits(op.token, op.object, tx.password, mail', password')
  <2>1. SUFFICES ASSUME op.at = "update"
                 PROVE  Fits(op.token, op.object, tx.password, mail', password')
    OBVIOUS
  <2>2. Fits(op.token, op.object, tx.password, mail, password)
    BY <1>2, <2>1 DEF Recorded
  <2>3. CASE op.token \in TokenIds
    BY <1>2, <1>3, <1>4, <2>2, <2>3, FitsOn
  <2>4. CASE op.token \notin TokenIds
    <3>1. op.token = 0 /\ mail' = mail /\ password' \in Nat
      BY <1>1, <1>2, <1>3, <2>4, OpFacts, TokenIdsNat
    <3> QED
      BY <2>2, <3>1 DEF Fits
  <2> QED
    BY <2>3, <2>4
<1>8. op.name = "create" /\ op.at = "commit" => Active(tx.rows[op.token])
  BY <1>2 DEF Recorded
<1> QED
  BY <1>1, <1>5, <1>6, <1>7, <1>8 DEF Recorded

LEMMA RecordedStep == RecordInv /\ [Next]_vars => RecordInv'
<1> SUFFICES ASSUME RecordInv, [Next]_vars PROVE Recorded'
  BY ToldStep DEF RecordInv
<1>0. TypeOK /\ Recorded /\ mail \in Mails
  BY DEF RecordInv, ToldInv, IInv, TypeOK, Mails
<1>1. CASE Begins
  BY <1>1, RecordedBegins
<1>2. CASE Statement
  BY <1>2, RecordedSelects, RecordedFindActive, RecordedUpdates, RecordedInsert,
     RecordedUpdateUser, RecordedFindToken, RecordedCommit DEF Statement
<1>3. CASE CommitLost \/ Crash
  <2>1. /\ op' = Idle /\ tx' = NoWrites /\ late' \subseteq late \cup {tx}
        /\ UNCHANGED <<rows, uses, password>>
        /\ \A t \in TokenIds : Same(t, mail, mail')
    BY <1>0, <1>3 DEF CommitLost, Crash, Same, Mails
  <2>2. op'.at = "select"
    BY <2>1, IdleFacts
  <2> QED
    BY <1>0, <2>1, <2>2, RecordedQuiet
<1>4. CASE Refuse
  BY <1>4, RecordedRollback DEF Refuse
<1>5. CASE \E t \in TokenIds : CannotCancel(t) \/ MailReplyFinished(t)
  <2>1. /\ op' = Idle /\ UNCHANGED <<rows, uses, password, tx, late>>
        /\ \A t \in TokenIds : Same(t, mail, mail')
    BY <1>0, <1>5 DEF CannotCancel, MailReplyFinished, Same, Mails
  <2>2. op'.at = "select"
    BY <2>1, IdleFacts
  <2> QED
    BY <1>0, <2>1, <2>2, RecordedQuiet
<1>6. CASE \E x \in late : LateCommit(x)
  BY <1>6, RecordedLateCommit
<1>7. CASE (\E x \in late : LateAbort(x)) \/ Start \/ UNCHANGED vars
  <2>1. UNCHANGED <<rows, uses, password, tx, op, mail>> /\ late' \subseteq late \cup {tx}
    BY <1>7 DEF LateAbort, Start, vars
  <2>2. \A t \in TokenIds : Same(t, mail, mail')
    BY <2>1, SameMail
  <2> QED
    BY <1>0, <2>1, <2>2, RecordedQuiet
<1> QED
  BY <1>1, <1>2, <1>3, <1>4, <1>5, <1>6, <1>7 DEF Next, LateEnds

LEMMA InitRecord == Init => RecordInv
<1> SUFFICES ASSUME Init PROVE RecordInv
  OBVIOUS
<1>1. /\ op = Idle /\ rows = NoWrites.rows /\ tx = NoWrites /\ late = {}
      /\ password = 0 /\ told = {} /\ mail = [t \in TokenIds |-> "none"]
      /\ uses = [t \in TokenIds |-> 0]
  BY DEF Init
<1>2. ToldInv
  <2>1. Kept
    BY <1>1 DEF Kept
  <2>2. Telling
    BY <1>1, IdleFacts DEF Telling
  <2> QED
    BY <2>1, <2>2, InitIInv DEF ToldInv
<1>3. DOMAIN rows = {} /\ op.at = "select" /\ \A w \in late \cup {tx} : w = NoWrites
  BY <1>1, NoWritesFacts, IdleFacts, Zenon
<1>4. Recorded
  BY <1>1, <1>3, NoWritesFitting DEF Recorded
<1> QED
  BY <1>2, <1>4 DEF RecordInv

\* A use on record is one of a verified token whose mail did not fail, and no newer
\* than the password; the token that set the password is used or replaced.  So it
\* stays though ODB writes back whole rows that late transactions have changed.
THEOREM UsesOnRecord == Spec => []UseOnRecord
<1>1. Init => RecordInv
  BY InitRecord
<1>2. RecordInv => UseOnRecord
  <2>1. SUFFICES ASSUME RecordInv PROVE UseOnRecord
    OBVIOUS
  <2>2. IsTable(rows) /\ Recorded /\ Tables(rows, uses, password)
    BY <2>1 DEF RecordInv, ToldInv, IInv, TypeOK, TxInv
  <2>3. ASSUME NEW t \in DOMAIN rows, "used" \in rows[t]
        PROVE  "verified" \in rows[t] /\ "email_failed" \notin rows[t] /\ t <= password
    <3>1. Fits(t, rows[t], 0, mail, password) /\ t # 0
      BY <2>2, TokenIdsNat DEF Recorded, IsTable
    <3> QED
      BY <2>3, <3>1 DEF Fits
  <2>4. ASSUME password # 0
        PROVE  password \in DOMAIN rows /\ rows[password] \cap {"used", "replaced"} # {}
    <3>1. /\ password \in DOMAIN rows /\ uses[password] # 0 /\ password \in TokenIds
      BY <2>2, <2>4 DEF Recorded, Tables, IsTable
    <3>2. mail[password] = "sent" /\ ~Active(rows[password])
      BY <2>2, <3>1 DEF Recorded, Tables
    <3>3. rows[password] \cap {"cancelled", "email_failed"} = {}
      BY <2>2, <3>1, <3>2 DEF Recorded, Fits
    <3> QED
      BY <3>1, <3>2, <3>3 DEF Active
  <2> QED
    BY <2>3, <2>4 DEF UseOnRecord
<1> QED
  BY <1>1, <1>2, RecordedStep, PTL DEF Spec

-----------------------------------------------------------------------------
(* The policy of recovery *)

\* COMMIT of w brings no dead row of R back, adds new rows as they are asked for,
\* and leaves nothing active where it sets the password.
Respects(w, R) ==
    /\ \A t \in DOMAIN w.rows : Active(w.rows[t]) /\ t \in DOMAIN R => Active(R[t])
    /\ \A t \in DOMAIN w.rows : t \in DOMAIN R \/ w.rows[t] = {}
    /\ w.password # 0 => \A t \in DOMAIN w.rows : ~Active(w.rows[t])

\* w, which will write nothing more, ends a token for a reason: it has a new one,
\* or uses it up, or the token is dead or its mail has failed.
Explained(w, R, M) ==
    \/ \E s \in DOMAIN w.rows : Active(w.rows[s])
    \/ \A t \in DOMAIN w.rows :
        (t \in DOMAIN R /\ ~Active(R[t])) \/ t = w.password \/ M[t] = "none"

\* An active row beside that of t, which no transaction of L writes.
Rivalled(t, R, L) ==
    \E s \in DOMAIN R : s # t /\ Active(R[s]) /\ \A y \in L : s \notin DOMAIN y.rows

\* verifyPasswordReset may hold a token as active that has died since; then it was
\* replaced, and the index refuses its row.
Standing ==
    /\ \A w \in late \cup {tx} : Respects(w, rows)
    /\ \A x \in late : Explained(x, rows, mail)
    /\ op.at = "commit" => Explained(tx, rows, mail)
    /\ op.name = "verify" /\ op.at \in {"find", "update"} =>
        Active(rows[op.token]) \/ Rivalled(op.token, rows, late)
    /\ op.name = "verify" /\ op.at = "update" =>
        Active(op.object) \/ ~Active(rows[op.token])

PolicyInv == ToldInv /\ Standing

StageOf(R) ==
    IF \E t \in DOMAIN R : Active(R[t])
    THEN IF \E t \in DOMAIN R : Active(R[t]) /\ "verified" \in R[t]
         THEN "confirmed" ELSE "asked"
    ELSE "none"

LEMMA OneActiveOf ==
    ASSUME NEW R, NEW U, NEW p, IsTable(R), Tables(R, U, p),
           NEW s \in DOMAIN R, NEW t \in DOMAIN R, Active(R[s]), Active(R[t])
    PROVE  s = t
<1>1. s <= t /\ t <= s
  BY DEF Tables
<1>2. s \in Nat /\ t \in Nat
  BY TokenIdsNat DEF IsTable
<1> QED
  BY <1>1, <1>2

LEMMA StageOfActive ==
    ASSUME NEW R, NEW U, NEW p, IsTable(R), Tables(R, U, p), NEW t \in DOMAIN R, Active(R[t])
    PROVE  StageOf(R) = IF "verified" \in R[t] THEN "confirmed" ELSE "asked"
<1>1. \A s \in DOMAIN R : Active(R[s]) => s = t
  BY OneActiveOf
<1> QED
  BY <1>1 DEF StageOf

\* What COMMIT does to the reset that is under way.
LEMMA InstallStage ==
    ASSUME NEW w, NEW R, NEW U, NEW p, NEW R2, NEW U2, NEW p2,
           IsWrites(w), IsTable(R), IsTable(R2), Tables(R, U, p), Tables(R2, U2, p2),
           Sound(w, R, U), Ended(w), Respects(w, R), Installs(w, R, U, p, R2, U2, p2)
    PROVE  \/ StageOf(R) = "confirmed" /\ StageOf(R2) = "none" /\ p2 \in TokenIds
           \/ p2 = p /\ \/ StageOf(R2) \in {StageOf(R), "asked"}
                        \/ StageOf(R) = "asked" /\ StageOf(R2) = "confirmed"
                        \/ StageOf(R) # "none" /\ StageOf(R2) = "none"
<1>0. /\ DOMAIN R2 = DOMAIN R \cup DOMAIN w.rows
      /\ \A t \in DOMAIN w.rows : R2[t] = w.rows[t]
      /\ \A t \in DOMAIN R : t \in DOMAIN w.rows \/ R2[t] = R[t]
      /\ p2 = IF w.password = 0 THEN p ELSE w.password
  BY DEF Installs
<1>1. CASE w.password # 0
  <2>1. /\ w.password \in DOMAIN R /\ w.password \in TokenIds
        /\ Active(R[w.password]) /\ "verified" \in R[w.password]
    BY <1>1 DEF Sound, IsTable
  <2>2. StageOf(R) = "confirmed"
    BY <2>1, StageOfActive
  <2>3. w.password \in DOMAIN w.rows /\ \A t \in DOMAIN w.rows : ~Active(w.rows[t])
    BY <1>1 DEF Ended, Respects
  <2>4. ASSUME NEW t \in DOMAIN R2, Active(R2[t]) PROVE FALSE
    <3>1. t \notin DOMAIN w.rows /\ t \in DOMAIN R /\ R2[t] = R[t]
      BY <1>0, <2>3, <2>4
    <3>2. t = w.password
      BY <2>1, <2>4, <3>1, OneActiveOf
    <3> QED
      BY <2>3, <3>1, <3>2
  <2>5. StageOf(R2) = "none"
    BY <2>4 DEF StageOf
  <2> QED
    BY <1>0, <1>1, <2>1, <2>2, <2>5
<1>2. CASE w.password = 0 /\ \E t \in DOMAIN w.rows : Active(w.rows[t])
  <2>1. PICK t \in DOMAIN w.rows : Active(w.rows[t])
    BY <1>2
  <2>2. t \in DOMAIN R2 /\ R2[t] = w.rows[t]
    BY <1>0
  <2>3. StageOf(R2) = IF "verified" \in w.rows[t] THEN "confirmed" ELSE "asked"
    BY <2>1, <2>2, StageOfActive
  <2>4. CASE t \in DOMAIN R
    <3>1. Active(R[t])
      BY <2>1, <2>4 DEF Respects
    <3>2. StageOf(R) \in {"confirmed", "asked"}
      BY <2>4, <3>1, StageOfActive
    <3> QED
      BY <1>0, <1>2, <2>3, <3>2
  <2>5. CASE t \notin DOMAIN R
    <3>1. "verified" \notin w.rows[t]
      BY <2>1, <2>5 DEF Respects
    <3> QED
      BY <1>0, <1>2, <2>3, <3>1
  <2> QED
    BY <2>4, <2>5
<1>3. CASE w.password = 0 /\ ~\E t \in DOMAIN w.rows : Active(w.rows[t])
  <2>1. CASE \E t \in DOMAIN R2 : Active(R2[t])
    <3>1. PICK t \in DOMAIN R2 : Active(R2[t])
      BY <2>1
    <3>2. t \in DOMAIN R /\ R2[t] = R[t]
      BY <1>0, <1>3, <3>1
    <3>3. StageOf(R2) = StageOf(R)
      <4>1. StageOf(R2) = IF "verified" \in R2[t] THEN "confirmed" ELSE "asked"
        BY <3>1, StageOfActive
      <4>2. StageOf(R) = IF "verified" \in R[t] THEN "confirmed" ELSE "asked"
        BY <3>1, <3>2, StageOfActive
      <4> QED
        BY <3>2, <4>1, <4>2
    <3> QED
      BY <1>0, <1>3, <3>3
  <2>2. CASE ~\E t \in DOMAIN R2 : Active(R2[t])
    <3>1. StageOf(R2) = "none"
      BY <2>2 DEF StageOf
    <3> QED
      BY <1>0, <1>3, <3>1
  <2> QED
    BY <2>1, <2>2
<1> QED
  BY <1>1, <1>2, <1>3

\* Other transactions respect and explain as much after COMMIT of x.
LEMMA InstallRespects ==
    ASSUME NEW w, NEW x, NEW R, NEW U, NEW p, NEW R2, NEW U2, NEW p2,
           Apart(x, w), Respects(w, R), Installs(x, R, U, p, R2, U2, p2)
    PROVE  Respects(w, R2)
<1>1. \A t \in DOMAIN w.rows :
        /\ t \notin DOMAIN x.rows
        /\ t \in DOMAIN R2 => t \in DOMAIN R /\ R2[t] = R[t]
        /\ t \in DOMAIN R => t \in DOMAIN R2
  BY DEF Apart, Installs
<1> QED
  BY <1>1 DEF Respects

LEMMA InstallExplained ==
    ASSUME NEW w, NEW x, NEW R, NEW U, NEW p, NEW R2, NEW U2, NEW p2, NEW M, NEW M2,
           Apart(x, w), Explained(w, R, M), Installs(x, R, U, p, R2, U2, p2),
           \A t \in DOMAIN w.rows : M[t] = "none" => M2[t] = "none"
    PROVE  Explained(w, R2, M2)
<1>1. \A t \in DOMAIN w.rows :
        t \in DOMAIN R /\ ~Active(R[t]) => t \in DOMAIN R2 /\ ~Active(R2[t])
  BY DEF Apart, Installs
<1> QED
  BY <1>1 DEF Explained

LEMMA NoWritesStanding == \A R, M : Respects(NoWrites, R) /\ Explained(NoWrites, R, M)
BY NoWritesFacts DEF Respects, Explained

\* A step that commits nothing.
LEMMA StandingOn ==
    ASSUME TypeOK, Standing, UNCHANGED rows,
           \A t \in TokenIds : mail[t] = "none" => mail'[t] = "none",
           late' \subseteq late \/ (op.at = "commit" /\ late' \subseteq late \cup {tx}),
           Respects(tx', rows), op'.at = "commit" => Explained(tx', rows, mail'),
           op'.name = "verify" /\ op'.at \in {"find", "update"} =>
                Active(rows[op'.token]) \/ Rivalled(op'.token, rows, late'),
           op'.name = "verify" /\ op'.at = "update" =>
                Active(op'.object) \/ ~Active(rows[op'.token])
    PROVE  Standing'
<1>1. ASSUME NEW x \in late' PROVE Respects(x, rows) /\ Explained(x, rows, mail')
  <2>1. Respects(x, rows) /\ Explained(x, rows, mail) /\ IsWrites(x)
    BY WritesTyped DEF Standing
  <2>2. DOMAIN x.rows \subseteq TokenIds
    BY <2>1 DEF IsWrites, IsTable
  <2> QED
    BY <2>1, <2>2 DEF Explained
<1> QED
  BY <1>1 DEF Standing

LEMMA RivalledOn ==
    ASSUME NEW t, NEW R, NEW L, NEW L2 \in SUBSET L, Rivalled(t, R, L)
    PROVE  Rivalled(t, R, L2)
BY DEF Rivalled

\* A step that neither writes a row nor reads one to verify it.
LEMMA StandingQuiet ==
    ASSUME TypeOK, Standing, UNCHANGED rows,
           \A t \in TokenIds : mail[t] = "none" => mail'[t] = "none",
           late' \subseteq late \/ (op.at = "commit" /\ late' \subseteq late \cup {tx}),
           tx' \in {tx, NoWrites},
           \/ op'.at \notin {"find", "update", "commit"}
           \/ op'.name # "verify" /\ op'.at # "commit"
           \/ op' = op /\ tx' = tx /\ late' \subseteq late
    PROVE  Standing'
<1>1. Respects(tx', rows)
  BY NoWritesStanding DEF Standing
<1>2. op'.at = "commit" => Explained(tx', rows, mail')
  <2>1. SUFFICES ASSUME op'.at = "commit" PROVE Explained(tx', rows, mail')
    OBVIOUS
  <2>2. op' = op /\ tx' = tx /\ Explained(tx, rows, mail) /\ IsWrites(tx)
    BY <2>1, WritesTyped DEF Standing
  <2>3. DOMAIN tx.rows \subseteq TokenIds
    BY <2>2 DEF IsWrites, IsTable
  <2> QED
    BY <2>2, <2>3 DEF Explained
<1>3. op'.name = "verify" /\ op'.at \in {"find", "update"} =>
        Active(rows[op'.token]) \/ Rivalled(op'.token, rows, late')
  <2>1. SUFFICES ASSUME op'.name = "verify", op'.at \in {"find", "update"}
                 PROVE  Active(rows[op'.token]) \/ Rivalled(op'.token, rows, late')
    OBVIOUS
  <2>2. op' = op /\ late' \in SUBSET late
    BY <2>1
  <2>3. Active(rows[op.token]) \/ Rivalled(op.token, rows, late)
    BY <2>1, <2>2 DEF Standing
  <2> QED
    BY <2>2, <2>3, RivalledOn
<1>4. op'.name = "verify" /\ op'.at = "update" =>
        Active(op'.object) \/ ~Active(rows[op'.token])
  BY DEF Standing
<1> QED
  BY <1>1, <1>2, <1>3, <1>4, StandingOn

LEMMA StandingRollback == ASSUME PolicyInv, Rollback PROVE Standing'
<1>1. op' = Idle /\ tx' = NoWrites /\ UNCHANGED <<rows, late, mail>>
  BY DEF Rollback, Goes
<1>2. op'.at = "select" /\ TypeOK /\ Standing
  BY <1>1, IdleFacts DEF PolicyInv, ToldInv, IInv
<1> QED
  BY <1>1, <1>2, StandingQuiet

\* Every statement but those that write, and those with which verifyPasswordReset
\* and resetPassword find the token active.
LEMMA StandingReads ==
    ASSUME PolicyInv,
           \/ Begins \/ SelectActive \/ (\E t \in TokenIds : FindActive(t))
           \/ SelectToCancel \/ SelectForUpdate \/ (FindToken /\ op.name # "verify")
    PROVE  Standing'
<1>0. TypeOK /\ Standing /\ op \in Op /\ mail \in Mails
  BY DEF PolicyInv, ToldInv, IInv, TypeOK, Mails
<1>1. CASE Begins
  <2>1. PICK n \in {"create", "cancel", "verify", "reset"}, t \in {0} \cup TokenIds :
            /\ op' = [Idle EXCEPT !.name = n, !.token = t]
            /\ UNCHANGED <<rows, tx, late>>
            /\ mail' = mail \/ (t \in TokenIds /\ mail' = [mail EXCEPT ![t] = "none"])
    BY <1>1 DEF Begins, BeginCreate, BeginCancel, BeginVerify, BeginReset, Begin, Goes
  <2>2. op'.at = "select"
    BY <2>1 DEF Idle
  <2>3. \A s \in TokenIds : mail[s] = "none" => mail'[s] = "none"
    BY <1>0, <2>1 DEF Mails
  <2> QED
    BY <1>0, <2>1, <2>2, <2>3, StandingQuiet
<1>2. CASE ~Begins
  <2>1. UNCHANGED <<rows, tx, late, mail>>
    BY <1>2 DEF SelectActive, FindActive, SelectToCancel, SelectForUpdate, FindToken, Goes
  <2>2. op'.at \in {"insert", "user"} \/ (op'.name # "verify" /\ op'.at # "commit")
    <3>1. CASE SelectActive
      BY <1>0, <3>1 DEF SelectActive, Runs, Goes, NextToReplace, Op
    <3>2. CASE \E t \in TokenIds : FindActive(t)
      BY <1>0, <3>2 DEF FindActive, Runs, Goes, Op
    <3>3. CASE SelectToCancel
      BY <1>0, <3>3 DEF SelectToCancel, Runs, Goes, Op
    <3>4. CASE SelectForUpdate
      BY <1>0, <3>4 DEF SelectForUpdate, Runs, Goes, Op
    <3>5. CASE FindToken /\ op.name # "verify"
      BY <1>0, <3>5 DEF FindToken, Goes, Op
    <3> QED
      BY <1>2, <3>1, <3>2, <3>3, <3>4, <3>5
  <2> QED
    BY <1>0, <2>1, <2>2, StandingQuiet
<1> QED
  BY <1>1, <1>2

LEMMA StandingUpdateUser == ASSUME PolicyInv, UpdateUser PROVE Standing'
<1>1. /\ UNCHANGED <<rows, late, mail>>
      /\ op.name = "reset" /\ op.at = "user" /\ op' = [op EXCEPT !.at = "find"] /\ op \in Op
      /\ tx' = [tx EXCEPT !.password = op.token] /\ tx = NoWrites
      /\ TypeOK /\ Standing
  BY DEF UpdateUser, Runs, Goes, PolicyInv, ToldInv, IInv, OpInv, Resetting, TypeOK
<1>2. op'.name = "reset" /\ op'.at = "find"
  BY <1>1 DEF Op
<1>3. tx'.rows = NoWrites.rows
  BY <1>1, WritesTyped DEF IsWrites
<1>4. DOMAIN tx'.rows = {}
  BY <1>3, NoWritesFacts, Zenon
<1>5. Respects(tx', rows)
  BY <1>4 DEF Respects
<1> QED
  BY <1>1, <1>2, <1>5, StandingOn

\* verifyPasswordReset reads rows that are on record.
LEMMA VerifyReads ==
    ASSUME PolicyInv, op.name = "verify", op.at # "commit"
    PROVE  /\ tx = NoWrites /\ DOMAIN tx.rows = {} /\ DOMAIN View = DOMAIN rows
           /\ \A t \in DOMAIN rows : View[t] = rows[t]
<1>1. tx = NoWrites /\ TypeOK
  BY DEF PolicyInv, ToldInv, IInv, OpInv, Verifying
<1>2. DOMAIN tx.rows = {}
  BY <1>1, NoWritesFacts, Zenon
<1> QED
  BY <1>1, <1>2, ViewFacts

LEMMA StandingVerifies ==
    ASSUME PolicyInv, SelectToVerify \/ (FindToken /\ op.name = "verify")
    PROVE  Standing'
<1>1. /\ op.name = "verify" /\ op.at \in {"select", "find"} /\ op \in Op
      /\ UNCHANGED <<rows, tx, late, mail>> /\ TypeOK /\ Standing
  BY DEF SelectToVerify, FindToken, Runs, Goes, PolicyInv, ToldInv, IInv, TypeOK
<1>2. /\ tx = NoWrites /\ DOMAIN View = DOMAIN rows
      /\ \A t \in DOMAIN rows : View[t] = rows[t]
  BY <1>1, VerifyReads
<1>3. Respects(tx', rows) /\ Explained(tx', rows, mail')
  BY <1>1, <1>2, NoWritesStanding
<1>4. CASE SelectToVerify
  <2>1. /\ op.token \in DOMAIN rows /\ Active(rows[op.token])
        /\ op' = [op EXCEPT !.at = IF "verified" \in View[op.token] THEN "commit" ELSE "find"]
    BY <1>2, <1>4 DEF SelectToVerify, Goes
  <2>2. op'.token = op.token /\ op'.at \in {"commit", "find"}
    BY <1>1, <2>1 DEF Op
  <2> QED
    BY <1>1, <1>3, <2>1, <2>2, StandingOn
<1>5. CASE FindToken /\ op.name = "verify"
  <2>1. op.at = "find" /\ op.token \in DOMAIN rows
    BY <1>5, TokenFacts DEF FindToken, PolicyInv, ToldInv
  <2>2. op' = [op EXCEPT !.at = "update", !.object = rows[op.token] \cup {"verified"}]
    <3>1. NewMarks[op.name] = {"verified"}
      BY <1>5 DEF NewMarks
    <3> QED
      BY <1>2, <1>5, <2>1, <3>1 DEF FindToken, Goes
  <2>3. op'.token = op.token /\ op'.at = "update" /\ op'.object = rows[op.token] \cup {"verified"}
    BY <1>1, <2>2 DEF Op
  <2>4. Active(op'.object) \/ ~Active(rows[op.token])
    BY <2>3 DEF Active
  <2>5. Active(rows[op.token]) \/ Rivalled(op.token, rows, late)
    BY <1>5, <2>1 DEF PolicyInv, Standing
  <2> QED
    BY <1>1, <1>3, <2>3, <2>4, <2>5, StandingOn
<1> QED
  BY <1>4, <1>5

\* UPDATE and INSERT of a row.
LEMMA StandingWrites ==
    ASSUME PolicyInv, UNCHANGED <<rows, late, mail>>, NEW t \in TokenIds, NEW row,
           Wrote(tx, t, row, tx'), op'.at # "update", op'.name = "verify" => op'.at = "commit",
           Active(row) /\ t \in DOMAIN rows => Active(rows[t]),
           t \in DOMAIN rows \/ row = {},
           tx.password # 0 => ~Active(row),
           op'.at = "commit" =>
                \/ Active(row)
                \/ /\ DOMAIN tx.rows = {}
                   /\ (t \in DOMAIN rows /\ ~Active(rows[t])) \/ t = tx.password \/ mail[t] = "none"
    PROVE  Standing'
<1>1. TypeOK /\ Standing /\ Respects(tx, rows)
  BY DEF PolicyInv, ToldInv, IInv, Standing
<1>2. Respects(tx', rows)
  BY <1>1 DEF Respects, Wrote
<1>3. op'.at = "commit" => Explained(tx', rows, mail')
  BY DEF Explained, Wrote
<1> QED
  BY <1>1, <1>2, <1>3, StandingOn

LEMMA StandingUpdateReplaced == ASSUME PolicyInv, UpdateReplaced, ~Rollback PROVE Standing'
<1> DEFINE next == NextToReplace(op.todo \ {op.token})
<1>1. /\ op.name = "create" /\ op.at = "update" /\ op \in Op
      /\ Write(op.token, op.object, next)
  BY DEF UpdateReplaced, Runs, PolicyInv, ToldInv, IInv, TypeOK
<1>2. /\ op.token \in DOMAIN rows /\ op.token \in TokenIds /\ op.object \in Row
      /\ ~Active(op.object) /\ op.todo \ {op.token} \in SUBSET TokenIds
  BY <1>1, OpFacts DEF PolicyInv, ToldInv, IInv, TypeOK, IsTable, OpInv, Creating
<1>3. next.at \in {"find", "insert"} /\ next.name = "create"
  BY <1>1, <1>2, NextToReplaceFacts
<1>4. op' = next /\ WritesRow(op.token, op.object) /\ UNCHANGED <<rows, late, mail>>
  BY <1>1 DEF Write, WritesRow, Goes
<1>5. Wrote(tx, op.token, op.object, tx')
  BY <1>2, <1>4, WroteTx DEF PolicyInv, ToldInv, IInv
<1> QED
  BY <1>2, <1>3, <1>4, <1>5, StandingWrites

LEMMA StandingUpdateToken == ASSUME PolicyInv, UpdateToken, ~Rollback PROVE Standing'
<1> DEFINE t == op.token
           next == [op EXCEPT !.at = "commit"]
<1>1. /\ op.name \in {"cancel", "verify", "reset"} /\ op.at = "update" /\ op \in Op
      /\ Write(t, op.object, next)
  BY NewMarksFacts DEF UpdateToken, PolicyInv, ToldInv, IInv, TypeOK
<1>2. /\ t \in DOMAIN rows /\ t \in TokenIds /\ op.object \in Row /\ DOMAIN tx.rows = {}
      /\ op.name # "reset" => tx = NoWrites
      /\ op.name = "reset" => tx.password = t
  BY <1>1, OpFacts, TokenFacts DEF PolicyInv, ToldInv
<1>3. op.name # "reset" => tx.password = 0
  BY <1>2, NoWritesFacts
<1>4. /\ op' = next /\ WritesRow(t, op.object) /\ UNCHANGED <<rows, late, mail>>
      /\ Active(op.object) => Rivals(t) = {}
  BY <1>1 DEF Write, WritesRow, Goes
<1>5. Wrote(tx, t, op.object, tx')
  BY <1>2, <1>4, WroteTx DEF PolicyInv, ToldInv, IInv
<1>6. op'.at = "commit"
  BY <1>1, <1>4 DEF Op
<1>7. CASE op.name = "cancel"
  <2>1. ~Active(op.object) /\ mail[t] = "none"
    BY <1>1, <1>7 DEF PolicyInv, ToldInv, IInv, OpInv, Cancelling, Telling
  <2> QED
    BY <1>2, <1>4, <1>5, <1>6, <2>1, StandingWrites
<1>8. CASE op.name = "verify"
  <2>1. Active(op.object) \/ ~Active(rows[t])
    BY <1>1, <1>8 DEF PolicyInv, Standing
  <2>2. Active(op.object) => Active(rows[t])
    <3>1. SUFFICES ASSUME Active(op.object) PROVE ~Rivalled(t, rows, late)
      BY <1>1, <1>8 DEF PolicyInv, Standing
    <3>2. DOMAIN View = DOMAIN rows /\ \A s \in DOMAIN rows : View[s] = rows[s]
      BY <1>1, <1>8, VerifyReads
    <3>3. {s \in DOMAIN View \ {t} : Active(View[s])} = {}
      BY <1>4, <3>1 DEF Rivals
    <3> QED
      BY <3>2, <3>3 DEF Rivalled
  <2> QED
    BY <1>2, <1>3, <1>4, <1>5, <1>6, <1>8, <2>1, <2>2, StandingWrites
<1>9. CASE op.name = "reset"
  <2>1. ~Active(op.object)
    BY <1>1, <1>9, ActiveFacts DEF PolicyInv, ToldInv, IInv, OpInv, Resetting
  <2> QED
    BY <1>2, <1>4, <1>5, <1>6, <1>9, <2>1, StandingWrites
<1> QED
  BY <1>1, <1>7, <1>8, <1>9

LEMMA StandingInsert == ASSUME PolicyInv, InsertToken PROVE Standing'
<1> DEFINE t == lastId + 1
<1>1. /\ op.name = "create" /\ op.at = "insert" /\ op \in Op
      /\ UNCHANGED <<rows, late, mail>> /\ TypeOK /\ Standing
  BY DEF InsertToken, Runs, PolicyInv, ToldInv, IInv, TypeOK
<1>2. /\ lastId \in Nat /\ lastId < MaxTokens /\ tx.password = 0 /\ DOMAIN rows \subseteq 1..lastId
  BY <1>1, WritesTyped DEF PolicyInv, ToldInv, IInv, OpInv, Creating
<1>3. t \in TokenIds /\ t \notin DOMAIN rows
  BY <1>2, TxAssumption DEF TokenIds
<1>4. CASE Rivals(t) # {}
  <2>1. op' = Idle /\ tx' = NoWrites
    BY <1>4 DEF InsertToken
  <2>2. op'.at = "select"
    BY <2>1, IdleFacts
  <2> QED
    BY <1>1, <2>1, <2>2, StandingQuiet
<1>5. CASE Rivals(t) = {}
  <2>1. PICK row \in Row : row = {}
    BY DEF Row
  <2>2. op' = [op EXCEPT !.token = t, !.at = "commit"] /\ WritesRow(t, row)
    BY <1>5, <2>1 DEF InsertToken, WritesRow
  <2> HIDE DEF t
  <2>3. op'.name = "create" /\ op'.at = "commit"
    BY <1>1, <2>2 DEF Op
  <2>4. Wrote(tx, t, row, tx')
    BY <1>1, <1>3, <2>2, WroteTx
  <2>5. Active(row)
    BY <2>1, ActiveFacts
  <2> QED
    BY <1>1, <1>2, <1>3, <2>1, <2>3, <2>4, <2>5, StandingWrites
<1> QED
  BY <1>4, <1>5

LEMMA StandingCommit == ASSUME PolicyInv, Commit PROVE Standing'
<1>1. /\ op.at = "commit" /\ Committed(tx) /\ op' = Idle /\ tx' = NoWrites /\ late' = late
      /\ mail' = IF op.name = "create" THEN [mail EXCEPT ![op.token] = "posted"] ELSE mail
  BY DEF Commit
<1>2. /\ IsWrites(tx) /\ mail \in Mails /\ op'.at = "select"
      /\ Installs(tx, rows, uses, password, rows', uses', password')
  BY <1>1, WritesTyped, CommittedFacts, IdleFacts DEF PolicyInv, ToldInv, IInv, TypeOK, Mails
<1>3. ASSUME NEW x \in late PROVE Respects(x, rows') /\ Explained(x, rows', mail')
  <2>1. /\ Apart(tx, x) /\ IsWrites(x)
        /\ Respects(x, rows) /\ Explained(x, rows, mail)
    BY WritesTyped DEF PolicyInv, Standing, ToldInv, IInv, TxInv
  <2>2. \A t \in DOMAIN x.rows : mail[t] = "none" => mail'[t] = "none"
    <3>1. DOMAIN x.rows \subseteq TokenIds
      BY <2>1 DEF IsWrites, IsTable
    <3>2. op.name = "create" => op.token \notin DOMAIN x.rows
      BY <1>1, <2>1 DEF PolicyInv, ToldInv, Telling, Apart
    <3> QED
      BY <1>1, <1>2, <3>1, <3>2 DEF Mails
  <2>3. Respects(x, rows')
    BY <1>2, <2>1, InstallRespects
  <2>4. Explained(x, rows', mail')
    BY <1>2, <2>1, <2>2, InstallExplained
  <2> QED
    BY <2>3, <2>4
<1>4. Respects(tx', rows')
  BY <1>1, NoWritesStanding
<1> QED
  BY <1>1, <1>2, <1>3, <1>4 DEF Standing

LEMMA StandingLateCommit ==
    ASSUME PolicyInv, NEW z \in late, LateCommit(z)
    PROVE  Standing'
<1> DEFINE t == op.token
<1>1. late' = late \ {z} /\ Committed(z) /\ UNCHANGED <<op, tx, mail>>
  BY DEF LateCommit
<1>2. /\ IsWrites(z) /\ Installs(z, rows, uses, password, rows', uses', password')
      /\ Respects(z, rows) /\ Explained(z, rows, mail)
      /\ Apart(z, tx) /\ \A x \in late : x = z \/ Apart(z, x)
  BY <1>1, WritesTyped, CommittedFacts DEF PolicyInv, Standing, ToldInv, IInv, TxInv
<1>3. ASSUME NEW w \in late' \cup {tx} PROVE Respects(w, rows')
  <2>1. Apart(z, w) /\ Respects(w, rows)
    BY <1>1, <1>2 DEF PolicyInv, Standing
  <2> QED
    BY <1>2, <2>1, InstallRespects
<1>4. ASSUME NEW w \in late' \cup {tx}, w \in late' \/ op.at = "commit"
      PROVE  Explained(w, rows', mail')
  <2>1. Apart(z, w) /\ Explained(w, rows, mail)
    BY <1>1, <1>2, <1>4 DEF PolicyInv, Standing
  <2> QED
    BY <1>1, <1>2, <2>1, InstallExplained
<1>5. ASSUME op.name = "verify", op.at \in {"find", "update"}
      PROVE  Active(rows'[t]) \/ Rivalled(t, rows', late')
  <2>1. /\ t \in DOMAIN rows /\ t \in TokenIds /\ t # z.password /\ mail[t] = "sent"
        /\ Active(rows[t]) \/ Rivalled(t, rows, late)
    BY <1>5 DEF PolicyInv, Standing, ToldInv, IInv, OpInv, Shape, Verifying, Telling
  <2>2. CASE Rivalled(t, rows, late)
    <3>1. PICK s \in DOMAIN rows : s # t /\ Active(rows[s]) /\ \A y \in late : s \notin DOMAIN y.rows
      BY <2>2 DEF Rivalled
    <3>2. s \in DOMAIN rows' /\ Active(rows'[s]) /\ \A y \in late' : s \notin DOMAIN y.rows
      BY <1>1, <1>2, <3>1 DEF Installs
    <3> QED
      BY <3>1, <3>2 DEF Rivalled
  <2>3. CASE Active(rows[t]) /\ (t \in DOMAIN z.rows => Active(z.rows[t]))
    BY <1>2, <2>1, <2>3 DEF Installs
  <2>4. CASE Active(rows[t]) /\ t \in DOMAIN z.rows /\ ~Active(z.rows[t])
    <3>1. PICK s \in DOMAIN z.rows : Active(z.rows[s])
      BY <1>2, <2>1, <2>4 DEF Explained
    <3>2. s # t /\ s \in DOMAIN rows' /\ Active(rows'[s])
      BY <1>2, <2>4, <3>1 DEF Installs
    <3>3. \A y \in late' : s \notin DOMAIN y.rows
      BY <1>1, <1>2, <3>1 DEF Apart
    <3> QED
      BY <3>2, <3>3 DEF Rivalled
  <2> QED
    BY <2>1, <2>2, <2>3, <2>4
<1>6. ASSUME op.name = "verify", op.at = "update"
      PROVE  Active(op.object) \/ ~Active(rows'[t])
  <2>1. /\ t \in DOMAIN rows
        /\ Active(op.object) \/ ~Active(rows[t])
    BY <1>6 DEF PolicyInv, Standing, ToldInv, IInv, OpInv, Verifying
  <2> QED
    BY <1>2, <2>1 DEF Installs, Respects
<1> HIDE DEF t
<1>7. op.at = "commit" => Explained(tx, rows', mail')
  BY <1>4
<1> QED
  BY <1>1, <1>3, <1>4, <1>5, <1>6, <1>7 DEF Standing, t

LEMMA StandingStep == PolicyInv /\ [Next]_vars => PolicyInv'
<1> SUFFICES ASSUME PolicyInv, [Next]_vars PROVE Standing'
  BY ToldStep DEF PolicyInv
<1>0. TypeOK /\ Standing /\ mail \in Mails
  BY DEF PolicyInv, ToldInv, IInv, TypeOK, Mails
<1>1. CASE Begins
  BY <1>1, StandingReads
<1>2. CASE Statement
  <2>1. CASE FindToken
    BY <2>1, StandingReads, StandingVerifies
  <2>2. CASE (UpdateReplaced \/ UpdateToken) /\ Rollback
    BY <2>2, StandingRollback
  <2>3. CASE (UpdateReplaced \/ UpdateToken) /\ ~Rollback
    BY <2>3, StandingUpdateReplaced, StandingUpdateToken
  <2>4. CASE InsertToken \/ UpdateUser \/ SelectToVerify \/ Commit
    BY <2>4, StandingInsert, StandingUpdateUser, StandingVerifies, StandingCommit
  <2>5. CASE SelectActive \/ (\E t \in TokenIds : FindActive(t)) \/ SelectToCancel \/ SelectForUpdate
    BY <2>5, StandingReads
  <2> QED
    BY <1>2, <2>1, <2>2, <2>3, <2>4, <2>5 DEF Statement
<1>3. CASE CommitLost \/ Crash
  <2>1. /\ op' = Idle /\ tx' = NoWrites /\ UNCHANGED rows
        /\ late' \subseteq late \/ (op.at = "commit" /\ late' \subseteq late \cup {tx})
        /\ \A t \in TokenIds : mail[t] = "none" => mail'[t] = "none"
    BY <1>0, <1>3 DEF CommitLost, Crash, Mails
  <2>2. op'.at = "select"
    BY <2>1, IdleFacts
  <2> QED
    BY <1>0, <2>1, <2>2, StandingQuiet
<1>4. CASE Refuse
  BY <1>4, StandingRollback DEF Refuse
<1>5. CASE \E t \in TokenIds : CannotCancel(t) \/ MailReplyFinished(t)
  <2>1. /\ op' = op /\ UNCHANGED <<rows, tx, late>>
        /\ \A t \in TokenIds : mail[t] = "none" => mail'[t] = "none"
    BY <1>0, <1>5 DEF CannotCancel, MailReplyFinished, Mails
  <2> QED
    BY <1>0, <2>1, StandingQuiet
<1>6. CASE \E x \in late : LateCommit(x)
  BY <1>6, StandingLateCommit
<1>7. CASE (\E x \in late : LateAbort(x)) \/ Start \/ UNCHANGED vars
  <2>1. UNCHANGED <<rows, tx, op, mail>> /\ late' \subseteq late
    BY <1>7 DEF LateAbort, Start, vars
  <2> QED
    BY <1>0, <2>1, StandingQuiet
<1> QED
  BY <1>1, <1>2, <1>3, <1>4, <1>5, <1>6, <1>7 DEF Next, LateEnds

\* Only a commit writes the tables.
LEMMA RowsKept ==
    ASSUME Next, ~Commit, ~\E x \in late : LateCommit(x)
    PROVE  UNCHANGED <<rows, password>>
BY DEF Next, Begins, BeginCreate, BeginCancel, BeginVerify, BeginReset, Begin, Goes,
       Statement, SelectActive, FindActive, UpdateReplaced, Write, Rollback, InsertToken,
       SelectToCancel, SelectToVerify, SelectForUpdate, UpdateUser, FindToken, UpdateToken,
       CommitLost, Refuse, CannotCancel, MailReplyFinished, LateEnds, LateAbort, Crash, Start

\* COMMIT is a step of the policy or none.
LEMMA CommittedPolicy ==
    ASSUME PolicyInv, IInv', NEW w \in late \cup {tx}, Committed(w), Ended(w)
    PROVE  [Policy!Next]_(Policy!vars)
<1>1. /\ IsWrites(w) /\ Sound(w, rows, uses) /\ Respects(w, rows)
      /\ IsTable(rows) /\ IsTable(rows')
      /\ Tables(rows, uses, password) /\ Tables(rows', uses', password')
      /\ Installs(w, rows, uses, password, rows', uses', password')
  <2>1. TypeOK /\ IsWrites(w) /\ DOMAIN w.rows \subseteq 1..lastId /\ IsTable(rows)
    BY WritesTyped DEF PolicyInv, ToldInv, IInv
  <2>2. Installs(w, rows, uses, password, rows', uses', password') /\ IsTable(rows')
    BY <2>1, CommittedFacts
  <2> QED
    BY <2>1, <2>2 DEF PolicyInv, Standing, ToldInv, IInv, TxInv
<1>2. Stage = StageOf(rows) /\ Stage' = StageOf(rows')
  BY DEF Stage, StageOf
<1>3. \/ Stage = "confirmed" /\ Stage' = "none" /\ password' \in TokenIds
      \/ password' = password /\ \/ Stage' \in {Stage, "asked"}
                                 \/ Stage = "asked" /\ Stage' = "confirmed"
                                 \/ Stage # "none" /\ Stage' = "none"
  BY <1>1, <1>2, InstallStage
<1>4. CASE Stage = "confirmed" /\ Stage' = "none" /\ password' \in TokenIds
  BY <1>4 DEF Policy!Next, Policy!Change, Account
<1>5. CASE password' = password /\ Stage' = Stage
  BY <1>5 DEF Policy!vars
<1>6. CASE password' = password /\ Stage' = "asked"
  BY <1>6 DEF Policy!Next, Policy!Ask, Account
<1>7. CASE password' = password /\ Stage = "asked" /\ Stage' = "confirmed"
  BY <1>7 DEF Policy!Next, Policy!Confirm, Account
<1>8. CASE password' = password /\ Stage # "none" /\ Stage' = "none"
  BY <1>8 DEF Policy!Next, Policy!Abandon, Account
<1> QED
  BY <1>3, <1>4, <1>5, <1>6, <1>7, <1>8

\* Password recovery keeps its policy whenever late transactions end: the password
\* is changed by a confirmed reset only, which the change spends, and no token that
\* has died is brought back by a row that was read before.
THEOREM PolicyThroughLateTransactions == Spec => TransactionsKeepPolicy
<1>1. Init => PolicyInv /\ Policy!Init
  <2>1. SUFFICES ASSUME Init PROVE PolicyInv /\ Policy!Init
    OBVIOUS
  <2>2. /\ op = Idle /\ rows = NoWrites.rows /\ tx = NoWrites /\ late = {}
        /\ password = 0
    BY <2>1 DEF Init
  <2>3. ToldInv
    BY <2>1, InitRecord DEF RecordInv
  <2>4. DOMAIN rows = {} /\ op.at = "select" /\ \A w \in late \cup {tx} : w = NoWrites
    BY <2>2, NoWritesFacts, IdleFacts, Zenon
  <2>5. Standing
    BY <2>2, <2>4, NoWritesStanding DEF Standing
  <2>6. Stage = "none"
    BY <2>4 DEF Stage
  <2>7. Policy!Init
    BY <2>2, <2>6 DEF Policy!Init
  <2> QED
    BY <2>3, <2>5, <2>7 DEF PolicyInv
<1>2. PolicyInv /\ PolicyInv' /\ [Next]_vars => [Policy!Next]_(Policy!vars)
  <2>1. SUFFICES ASSUME PolicyInv, PolicyInv', [Next]_vars PROVE [Policy!Next]_(Policy!vars)
    OBVIOUS
  <2>2. IInv'
    BY <2>1 DEF PolicyInv, ToldInv
  <2>3. CASE Commit
    <3>1. Committed(tx) /\ Ended(tx)
      BY <2>1, <2>3 DEF Commit, PolicyInv, ToldInv, IInv, OpInv, Shape
    <3> QED
      BY <2>1, <2>2, <3>1, CommittedPolicy
  <2>4. CASE \E x \in late : LateCommit(x)
    <3>1. PICK x \in late : LateCommit(x)
      BY <2>4
    <3>2. Committed(x) /\ Ended(x)
      BY <2>1, <3>1 DEF LateCommit, PolicyInv, ToldInv, IInv, TxInv
    <3> QED
      BY <2>1, <2>2, <3>2, CommittedPolicy
  <2>5. CASE UNCHANGED <<rows, password>>
    <3>1. Stage' = Stage
      BY <2>5 DEF Stage
    <3> QED
      BY <2>5, <3>1 DEF Policy!vars
  <2> QED
    BY <2>1, <2>3, <2>4, <2>5, RowsKept DEF vars
<1> QED
  BY <1>1, <1>2, StandingStep, PTL DEF Spec, TransactionsKeepPolicy, Policy!Spec

-----------------------------------------------------------------------------
(* The connection: the schema is old, or current, or not there *)

ConnectionActions ==
    C!Launch \/ C!Connect \/ C!Connects \/ C!Finish
    \/ C!Break \/ C!PgStop \/ C!PgStart \/ C!Crash

\* What the open transaction of ensureSchema has made of the schema.
SchemaInv ==
    /\ schema \in {{}, C!Legacy, C!Current}
    /\ process = "serving" => schema = C!Current
    /\ process = "down" => at = "idle"
    /\ at \in {"alive", "ready"} => process = "serving"
    /\ at # "alter" => alteration = 1
    /\ at = "extension" => ddl = schema
    /\ at = "look" => ddl = schema \cup {"pgcrypto"}
    /\ at = "create" => ddl = {"pgcrypto"}
    /\ at = "alter" =>
        \/ ddl = C!Current
        \/ ddl = C!Legacy \cup {C!Alterations[i] : i \in 1..(alteration - 1)}
    /\ at = "commit" => ddl = C!Current

LEMMA AlterationsFacts ==
    /\ Len(C!Alterations) \in Nat /\ Len(C!Alterations) >= 1
    /\ C!Altered = {C!Alterations[i] : i \in 1..Len(C!Alterations)}
    /\ C!Current = C!Legacy \cup C!Altered
    /\ C!Tables # {} /\ C!Tables \subseteq C!Legacy /\ "pgcrypto" \in C!Legacy
    /\ C!Legacy = {"pgcrypto"} \cup C!Tables
<1>1. Len(C!Alterations) = 10 /\ DOMAIN C!Alterations = 1..10
  BY DEF C!Alterations
<1>2. C!Altered = {C!Alterations[i] : i \in 1..Len(C!Alterations)}
  BY <1>1 DEF C!Altered
<1> QED
  BY <1>1, <1>2 DEF C!Current, C!Legacy, C!Tables

\* Between two calls of connect() no transaction is open.
LEMMA SchemaIdle ==
    ASSUME at = "idle", alteration = 1, ddl = {}, pg \in BOOLEAN, database \in BOOLEAN,
           process \in {"down", "starting", "serving"}, session \in {"none", "live", "broken"},
           schema \in {{}, C!Legacy, C!Current}, process = "serving" => schema = C!Current,
           faults \in 0..MaxFaults
    PROVE  C!TypeOK /\ SchemaInv
<1>1. at \in C!Places
  BY DEF C!Places
<1>2. schema \subseteq C!Current /\ ddl \subseteq C!Current
  BY AlterationsFacts
<1>3. alteration \in 1..Len(C!Alterations)
  BY AlterationsFacts
<1>4. C!TypeOK
  BY <1>1, <1>2, <1>3 DEF C!TypeOK
<1>5. SchemaInv
  BY DEF SchemaInv
<1> QED
  BY <1>4, <1>5

LEMMA SchemaInit == C!Init => C!TypeOK /\ SchemaInv
<1> SUFFICES ASSUME C!Init PROVE C!TypeOK /\ SchemaInv
  OBVIOUS
<1>1. faults \in 0..MaxFaults /\ process # "serving"
  BY ServerAssumption DEF C!Init
<1> QED
  BY <1>1, SchemaIdle DEF C!Init

\* An error of connect() leaves the schema as it was, and so does a crash.
LEMMA GivesUpSchema ==
    ASSUME C!TypeOK, SchemaInv, C!GivesUp, schema' = schema
    PROVE  C!TypeOK' /\ SchemaInv'
<1>1. /\ session' = "none" /\ at' = "idle" /\ ddl' = {} /\ alteration' = 1
      /\ UNCHANGED <<pg, faults>>
      /\ process' \in {"down", process} /\ database' \in {FALSE, database}
  BY DEF C!GivesUp
<1>2. /\ schema' \in {{}, C!Legacy, C!Current}
      /\ process' = "serving" => schema' = C!Current
  BY <1>1 DEF SchemaInv
<1>3. at' \in C!Places /\ ddl' \subseteq C!Current
  BY <1>1 DEF C!Places
<1>4. alteration' \in 1..Len(C!Alterations)
  BY <1>1, AlterationsFacts
<1>5. C!TypeOK'
  BY <1>1, <1>3, <1>4 DEF C!TypeOK
<1>6. SchemaInv'
  BY <1>1, <1>2 DEF SchemaInv
<1> QED
  BY <1>5, <1>6

LEMMA AlterSchema ==
    ASSUME C!TypeOK, SchemaInv, C!Alter
    PROVE  C!TypeOK' /\ SchemaInv'
<1>1. CASE session = "live" /\ C!Tables \subseteq ddl
  <2> DEFINE here == C!Alterations[alteration]
             done(n) == {C!Alterations[i] : i \in 1..n}
  <2>1. /\ at = "alter" /\ ddl' = ddl \cup {here}
        /\ alteration \in 1..Len(C!Alterations)
        /\ UNCHANGED <<pg, schema, faults, process, database, session>>
    BY <1>1 DEF C!Alter, C!outside, C!TypeOK
  <2>2. here \in C!Altered
    BY <2>1, AlterationsFacts
  <2>3. done(alteration) = done(alteration - 1) \cup {here}
    <3>1. 1..alteration = (1..(alteration - 1)) \cup {alteration}
      BY <2>1, AlterationsFacts
    <3> QED
      BY <3>1
  <2>4. ddl' = C!Current \/ ddl' = C!Legacy \cup done(alteration)
    BY <2>1, <2>2, <2>3, AlterationsFacts DEF SchemaInv
  <2>5. CASE alteration < Len(C!Alterations)
    <3>1. alteration' = alteration + 1 /\ at' = at
      BY <1>1, <2>5 DEF C!Alter
    <3>2. alteration' - 1 = alteration /\ alteration' \in 1..Len(C!Alterations)
      BY <2>1, <2>5, <3>1, AlterationsFacts
    <3>3. done(alteration) \subseteq C!Altered
      BY <2>1, AlterationsFacts
    <3>4. ddl' \subseteq C!Current
      BY <2>4, <3>3, AlterationsFacts
    <3> QED
      BY <2>1, <2>4, <3>1, <3>2, <3>4 DEF C!TypeOK, C!Places, SchemaInv
  <2>6. CASE ~(alteration < Len(C!Alterations))
    <3>1. alteration' = 1 /\ at' = "commit"
      BY <1>1, <2>6 DEF C!Alter
    <3>2. alteration = Len(C!Alterations)
      BY <2>1, <2>6, AlterationsFacts
    <3>3. ddl' = C!Current
      BY <2>4, <3>2, AlterationsFacts
    <3> QED
      BY <2>1, <3>1, <3>3, AlterationsFacts DEF C!TypeOK, C!Places, SchemaInv
  <2> QED
    BY <2>5, <2>6
<1>2. CASE ~(session = "live" /\ C!Tables \subseteq ddl)
  <2>1. C!GivesUp /\ schema' = schema
    BY <1>2 DEF C!Alter, C!Fails
  <2> QED
    BY <2>1, GivesUpSchema
<1> QED
  BY <1>1, <1>2

\* A statement that does not alter a table, or fails.
LEMMA StatementSchema ==
    ASSUME C!TypeOK, SchemaInv, NEW here, NEW there \in C!Places, NEW new \in SUBSET C!Current,
           C!Statement(here, there, new),
           there \in {"look", "create", "alter", "commit"}, here \in {"extension", "look", "create"},
           there = "look" => new = schema \cup {"pgcrypto"},
           there = "create" => new = {"pgcrypto"},
           there = "alter" => new \in {C!Current, C!Legacy},
           there = "commit" => new = C!Current
    PROVE  C!TypeOK' /\ SchemaInv'
<1>1. CASE session = "live"
  <2>1. /\ at = here /\ at' = there /\ ddl' = new
        /\ UNCHANGED <<pg, schema, faults, process, database, session, alteration>>
    BY <1>1 DEF C!Statement, C!outside
  <2>2. alteration = 1
    BY <2>1 DEF SchemaInv
  <2>3. {C!Alterations[i] : i \in 1..(alteration - 1)} = {}
    BY <2>2
  <2> QED
    BY <2>1, <2>2, <2>3 DEF C!TypeOK, SchemaInv
<1>2. CASE session # "live"
  <2>1. C!GivesUp /\ schema' = schema
    BY <1>2 DEF C!Statement, C!Fails
  <2> QED
    BY <2>1, GivesUpSchema
<1> QED
  BY <1>1, <1>2

\* A step before or after the transaction of ensureSchema.
LEMMA OutsideSchema ==
    ASSUME C!TypeOK, SchemaInv, at # "alter",
           UNCHANGED <<pg, schema, faults, ddl, alteration>>,
           at' \in {"idle", "alive", "open", "begin", "ready"},
           database' \in BOOLEAN, session' \in {"none", "live", "broken"},
           process' \in {process, "starting"},
           process' = "down" => at' = "idle",
           at' \in {"alive", "ready"} => process' = "serving"
    PROVE  C!TypeOK' /\ SchemaInv'
<1>1. at' \in C!Places /\ process' \in {"down", "starting", "serving"}
  BY DEF C!Places, C!TypeOK
<1>2. C!TypeOK'
  BY <1>1 DEF C!TypeOK
<1>3. SchemaInv'
  BY DEF SchemaInv
<1> QED
  BY <1>2, <1>3

\* The server or PostgreSQL loses the connection, or PostgreSQL is back.
LEMMA FaultSchema ==
    ASSUME C!TypeOK, SchemaInv,
           UNCHANGED <<schema, process, database, at, alteration, ddl>>,
           pg' \in BOOLEAN, session' \in {"none", "live", "broken"}, faults' \in 0..MaxFaults
    PROVE  C!TypeOK' /\ SchemaInv'
BY DEF C!TypeOK, SchemaInv

LEMMA FaultCounted == ASSUME C!TypeOK, C!Fault PROVE faults' \in 0..MaxFaults
BY ServerAssumption DEF C!TypeOK, C!Fault

LEMMA BeginSchema ==
    ASSUME C!TypeOK, SchemaInv, C!Begin
    PROVE  C!TypeOK' /\ SchemaInv'
<1>1. CASE pg
  <2>1. /\ at = "begin" /\ session' = "live" /\ at' = "extension" /\ ddl' = schema
        /\ UNCHANGED <<pg, schema, faults, process, database, alteration>>
    BY <1>1 DEF C!Begin, C!outside
  <2>2. C!TypeOK'
    BY <2>1 DEF C!TypeOK, C!Places
  <2>3. SchemaInv'
    BY <2>1 DEF SchemaInv
  <2> QED
    BY <2>2, <2>3
<1>2. CASE ~pg
  <2>1. C!GivesUp /\ schema' = schema
    BY <1>2 DEF C!Begin, C!Fails
  <2> QED
    BY <2>1, GivesUpSchema
<1> QED
  BY <1>1, <1>2

LEMMA ConnectsSchema ==
    ASSUME C!TypeOK, SchemaInv, C!Connects
    PROVE  C!TypeOK' /\ SchemaInv'
<1>0. /\ schema \subseteq C!Current /\ ddl \subseteq C!Current
      /\ schema \in {{}, C!Legacy, C!Current}
  BY DEF C!TypeOK, SchemaInv
<1>1. CASE C!EnsureConnectionAlive
  <2>1. /\ at = "alive" /\ process = "serving" /\ process' = process
        /\ UNCHANGED <<pg, schema, faults, ddl, alteration>>
        /\ at' \in {"ready", "open"} /\ session' \in {"live", "none"}
        /\ database' \in {database, FALSE}
    BY <1>1 DEF C!EnsureConnectionAlive, C!outside, SchemaInv
  <2> QED
    BY <2>1, OutsideSchema DEF C!TypeOK
<1>2. CASE C!Open
  <2>1. /\ at = "open" /\ at' = "begin" /\ database' = TRUE /\ session' = "none"
        /\ UNCHANGED <<pg, schema, faults, ddl, alteration, process>>
        /\ process # "down"
    BY <1>2 DEF C!Open, C!outside, SchemaInv
  <2> QED
    BY <2>1, OutsideSchema DEF C!TypeOK
<1>3. CASE C!Begin
  BY <1>3, BeginSchema
<1>4. CASE C!CreateExtension
  <2> DEFINE new == ddl \cup {"pgcrypto"}
  <2>1. C!Statement("extension", "look", new) /\ at = "extension"
    BY <1>4 DEF C!CreateExtension, C!Statement
  <2>2. new \in SUBSET C!Current /\ new = schema \cup {"pgcrypto"} /\ "look" \in C!Places
    BY <1>0, <2>1, AlterationsFacts DEF SchemaInv, C!Places
  <2> QED
    BY <2>1, <2>2, StatementSchema
<1>5. CASE C!Look
  <2>1. at = "look" /\ ddl = schema \cup {"pgcrypto"}
    BY <1>5 DEF C!Look, C!Statement, SchemaInv
  <2>2. CASE C!Tables \cap ddl = {}
    <3>1. C!Statement("look", "create", ddl)
      BY <1>5, <2>2 DEF C!Look
    <3>2. schema = {}
      BY <1>0, <2>1, <2>2, AlterationsFacts
    <3>3. ddl = {"pgcrypto"} /\ ddl \in SUBSET C!Current /\ "create" \in C!Places
      BY <1>0, <2>1, <3>2 DEF C!Places
    <3> QED
      BY <3>1, <3>3, StatementSchema
  <2>3. CASE C!Tables \cap ddl # {}
    <3>1. C!Statement("look", "alter", ddl)
      BY <1>5, <2>3 DEF C!Look
    <3>2. schema # {}
      <4>1. "pgcrypto" \notin C!Tables
        BY DEF C!Tables
      <4> QED
        BY <2>1, <2>3, <4>1
    <3>3. ddl \in {C!Current, C!Legacy} /\ ddl \in SUBSET C!Current /\ "alter" \in C!Places
      BY <1>0, <2>1, <3>2, AlterationsFacts DEF C!Places
    <3> QED
      BY <3>1, <3>3, StatementSchema
  <2> QED
    BY <2>2, <2>3
<1>6. CASE C!CreateSchema
  <2> DEFINE new == ddl \cup C!Tables \cup C!Altered
  <2>1. C!Statement("create", "alter", new) /\ at = "create"
    BY <1>6 DEF C!CreateSchema, C!Statement
  <2>2. new = C!Current /\ new \in SUBSET C!Current /\ "alter" \in C!Places
    BY <2>1, AlterationsFacts DEF SchemaInv, C!Places
  <2> QED
    BY <2>1, <2>2, StatementSchema
<1>7. CASE C!Alter
  BY <1>7, AlterSchema
<1>8. CASE C!CommitSchema
  <2>1. /\ at = "commit" /\ schema' = C!Current /\ ddl' = {} /\ alteration = 1
        /\ UNCHANGED <<pg, faults, database, session, alteration>>
        /\ process' = "serving" \/ process' = process
        /\ at' \in {"idle", "ready"}
        /\ process' # "starting" /\ process # "down"
    BY <1>8 DEF C!CommitSchema, SchemaInv, C!TypeOK
  <2>2. process' = "serving"
    BY <2>1 DEF C!TypeOK
  <2>3. C!TypeOK'
    BY <2>1, <2>2, AlterationsFacts DEF C!TypeOK, C!Places
  <2>4. SchemaInv'
    BY <2>1, <2>2 DEF SchemaInv
  <2> QED
    BY <2>3, <2>4
<1>9. CASE C!CommitSchemaLost
  <2>1. /\ schema' \in {schema, C!Current} /\ session' = "none" /\ at' = "idle"
        /\ ddl' = {} /\ alteration' = 1 /\ UNCHANGED <<pg, faults>>
        /\ process' \in {"down", process} /\ database' \in {FALSE, database}
    BY <1>9 DEF C!CommitSchemaLost, C!GivesUp, SchemaInv
  <2>2. /\ schema' \in {{}, C!Legacy, C!Current}
        /\ process' = "serving" => schema' = C!Current
    BY <2>1 DEF SchemaInv
  <2>3. SchemaInv'
    BY <2>1, <2>2 DEF SchemaInv
  <2>4. C!TypeOK'
    <3>1. schema' \subseteq C!Current /\ ddl' \subseteq C!Current /\ at' \in C!Places
      BY <1>0, <2>1 DEF C!Places
    <3>2. alteration' \in 1..Len(C!Alterations)
      BY <2>1, AlterationsFacts
    <3> QED
      BY <2>1, <3>1, <3>2 DEF C!TypeOK
  <2> QED
    BY <2>3, <2>4
<1> QED
  BY <1>1, <1>2, <1>3, <1>4, <1>5, <1>6, <1>7, <1>8, <1>9 DEF C!Connects

LEMMA ConnectionSchema ==
    ASSUME C!TypeOK, SchemaInv, ConnectionActions
    PROVE  C!TypeOK' /\ SchemaInv'
<1>1. CASE C!Launch
  <2>1. /\ process = "down" /\ at = "idle" /\ process' = "starting" /\ at' = "open"
        /\ UNCHANGED <<pg, schema, faults, database, session, alteration, ddl>>
    BY <1>1 DEF C!Launch, C!outside, SchemaInv
  <2> QED
    BY <2>1, OutsideSchema DEF C!TypeOK
<1>2. CASE C!Connect
  <2>1. /\ process = "serving" /\ at = "idle" /\ at' \in {"alive", "open"}
        /\ UNCHANGED <<pg, schema, faults, process, database, session, alteration, ddl>>
    BY <1>2 DEF C!Connect, C!outside
  <2> QED
    BY <2>1, OutsideSchema DEF C!TypeOK
<1>3. CASE C!Connects
  BY <1>3, ConnectsSchema
<1>4. CASE C!Finish
  <2>1. /\ at = "ready" /\ at' = "idle" /\ session' \in {"live", "none"}
        /\ UNCHANGED <<pg, schema, faults, process, database, alteration, ddl>>
    BY <1>4 DEF C!Finish, C!outside
  <2> QED
    BY <2>1, OutsideSchema DEF C!TypeOK
<1>5. CASE C!Break
  <2>1. faults' \in 0..MaxFaults
    BY <1>5, FaultCounted DEF C!Break
  <2> QED
    BY <1>5, <2>1, FaultSchema DEF C!Break, C!Broken, C!TypeOK
<1>6. CASE C!PgStop
  <2>1. faults' \in 0..MaxFaults
    BY <1>6, FaultCounted DEF C!PgStop
  <2> QED
    BY <1>6, <2>1, FaultSchema DEF C!PgStop, C!Broken, C!TypeOK
<1>7. CASE C!PgStart
  BY <1>7, FaultSchema DEF C!PgStart, C!TypeOK
<1>8. CASE C!Crash
  <2>1. faults' \in 0..MaxFaults
    BY <1>8, FaultCounted DEF C!Crash
  <2>2. /\ process' = "down" /\ database' = FALSE /\ session' = "none" /\ at' = "idle"
        /\ ddl' = {} /\ alteration' = 1 /\ pg' \in BOOLEAN
        /\ schema' \in {schema, C!Current}
    BY <1>8 DEF C!Crash, C!TypeOK, SchemaInv
  <2>3. schema' \in {{}, C!Legacy, C!Current}
    BY <2>2 DEF SchemaInv
  <2>4. SchemaInv'
    BY <2>2, <2>3 DEF SchemaInv
  <2>5. C!TypeOK'
    <3>1. schema' \subseteq C!Current /\ ddl' \subseteq C!Current /\ at' \in C!Places
      BY <2>2, <2>3, AlterationsFacts DEF C!Places
    <3>2. alteration' \in 1..Len(C!Alterations)
      BY <2>2, AlterationsFacts
    <3> QED
      BY <2>1, <2>2, <3>1, <3>2 DEF C!TypeOK
  <2> QED
    BY <2>4, <2>5
<1> QED
  BY <1>1, <1>2, <1>3, <1>4, <1>5, <1>6, <1>7, <1>8 DEF ConnectionActions

-----------------------------------------------------------------------------
(* The server: its transactions are those of PasswordResetTx *)

\* How the connection and the transactions go together: an operation runs once
\* connect() has succeeded, the schema is committed beside no late transaction,
\* and at most one failed mail waits for its handler.
Link ==
    /\ up = (process = "serving")
    /\ op # Idle => at = "ready"
    /\ at = "commit" => late = {}
    /\ Failed # {} => up
    /\ \A s, t \in Failed : s = t

ServerInv == IInv /\ C!TypeOK /\ SchemaInv /\ Link

LEMMA ConnectsFacts ==
    ASSUME C!TypeOK, SchemaInv, C!Launch \/ C!Connects
    PROVE  /\ at # "ready"
           /\ process' = process \/ at' = "idle" \/ at = "idle"
           /\ process = "serving" => process' = "serving"
           /\ process' = "serving" /\ process # "serving" => at = "commit"
           /\ at' = "commit" => at = "alter" /\ session = "live"
<1>1. CASE C!Launch
  BY <1>1 DEF C!Launch, SchemaInv
<1>2. CASE C!EnsureConnectionAlive
  BY <1>2 DEF C!EnsureConnectionAlive
<1>3. CASE C!Open
  BY <1>3 DEF C!Open
<1>4. CASE C!Begin
  BY <1>4 DEF C!Begin, C!Fails, C!GivesUp
<1>5. CASE C!CreateExtension
  BY <1>5 DEF C!CreateExtension, C!Statement, C!Fails, C!GivesUp
<1>6. CASE C!Look
  BY <1>6 DEF C!Look, C!Statement, C!Fails, C!GivesUp
<1>7. CASE C!CreateSchema
  BY <1>7 DEF C!CreateSchema, C!Statement, C!Fails, C!GivesUp
<1>8. CASE C!Alter
  BY <1>8 DEF C!Alter, C!Fails, C!GivesUp
<1>9. CASE C!CommitSchema
  BY <1>9 DEF C!CommitSchema
<1>10. CASE C!CommitSchemaLost
  BY <1>10 DEF C!CommitSchemaLost, C!GivesUp
<1> QED
  BY <1>1, <1>2, <1>3, <1>4, <1>5, <1>6, <1>7, <1>8, <1>9, <1>10 DEF C!Connects

LEMMA ConnectingStep ==
    ASSUME ServerInv, Connecting
    PROVE  [Next]_vars /\ Link'
<1>0. /\ at # "ready"
      /\ process = "serving" => process' = "serving"
      /\ process' = "serving" /\ process # "serving" => at = "commit"
      /\ at' = "commit" => at = "alter" /\ session = "live"
  BY ConnectsFacts DEF ServerInv, Connecting
<1>1. /\ mail \in Mails /\ op = Idle
      /\ at = "alter" /\ session = "live" => late = {}
      /\ up' = (process' = "serving")
      /\ mail' = [t \in TokenIds |-> IF t \in Failed /\ at' = "idle" THEN "none" ELSE mail[t]]
      /\ UNCHANGED <<rows, password, lastId, op, tx, late, told, uses>>
  BY <1>0 DEF ServerInv, IInv, TypeOK, Mails, Link, Connecting
<1>2. Failed' \subseteq Failed
  BY <1>1 DEF Failed
<1>3. /\ Failed' # {} => up'
      /\ \A s, t \in Failed' : s = t
      /\ op' # Idle => at' = "ready"
  <2>1. up => up'
    BY <1>0, <1>1 DEF ServerInv, Link
  <2> QED
    BY <1>1, <1>2, <2>1 DEF ServerInv, Link
<1>4. at' = "commit" => late' = {}
  BY <1>0, <1>1
<1>5. Link'
  BY <1>1, <1>3, <1>4 DEF Link
<1>6. CASE up' # up
  <2>1. ~up /\ up' = TRUE /\ at = "commit" /\ late = {} /\ Failed = {}
    BY <1>0, <1>1, <1>6 DEF ServerInv, Link
  <2>2. mail' = mail
    BY <1>1, <2>1 DEF Mails
  <2> QED
    BY <1>1, <1>5, <2>1, <2>2 DEF Next, Start
<1>7. CASE up' = up /\ (Failed = {} \/ at' # "idle")
  <2>1. mail' = mail
    BY <1>1, <1>7 DEF Mails
  <2> QED
    BY <1>1, <1>5, <1>7, <2>1 DEF vars
<1>8. CASE up' = up /\ Failed # {} /\ at' = "idle"
  <2>1. PICK t \in TokenIds : t \in Failed
    BY <1>8 DEF Failed
  <2>2. up /\ \A s \in Failed : s = t
    BY <1>8, <2>1 DEF ServerInv, Link
  <2>3. up = TRUE /\ mail[t] = "failed"
    BY <2>1, <2>2 DEF Failed, ServerInv, IInv, TypeOK
  <2>4. mail' = [mail EXCEPT ![t] = "none"]
    BY <1>1, <1>8, <2>1, <2>2 DEF Mails
  <2>5. CannotCancel(t)
    BY <1>1, <1>8, <2>3, <2>4 DEF CannotCancel
  <2> QED
    BY <1>5, <2>5 DEF Next
<1> QED
  BY <1>6, <1>7, <1>8

LEMMA MailEventStep ==
    ASSUME ServerInv, MailEvent
    PROVE  [Next]_vars /\ Link'
<1>1. PICK t \in TokenIds : MailReplyFinished(t)
  BY DEF MailEvent
<1>2. /\ Failed = {} /\ UNCHANGED <<process, at>> /\ up = TRUE
      /\ mail' \in {[mail EXCEPT ![t] = "sent"], [mail EXCEPT ![t] = "failed"]}
      /\ mail \in Mails
      /\ UNCHANGED <<up, op, late>>
  BY <1>1 DEF MailEvent, connection, MailReplyFinished, ServerInv, IInv, TypeOK, Mails
<1>3. Failed' \subseteq {t}
  BY <1>2 DEF Failed, Mails
<1>4. Link'
  BY <1>2, <1>3 DEF ServerInv, Link
<1> QED
  BY <1>1, <1>4 DEF Next

LEMMA BeginTransactionStep ==
    ASSUME ServerInv, BeginTransaction
    PROVE  [Next]_vars /\ Link'
<1>1. at = "ready" /\ UNCHANGED <<process, at>> /\ Begins
  BY DEF BeginTransaction, connection
<1>2. /\ UNCHANGED <<up, late>>
      /\ mail' = mail \/ \E t \in TokenIds : mail' = [mail EXCEPT ![t] = "none"]
  BY <1>1 DEF Begins, BeginCreate, BeginCancel, BeginVerify, BeginReset, Begin, Goes
<1>3. Failed' \subseteq Failed
  BY <1>2 DEF Failed, ServerInv, IInv, TypeOK
<1>4. Link'
  BY <1>1, <1>2, <1>3 DEF ServerInv, Link
<1> QED
  BY <1>1, <1>4 DEF Next

\* A statement belongs to an operation, and touches neither late transactions nor
\* failed mails.
LEMMA StatementFacts ==
    ASSUME IInv, Statement
    PROVE  /\ op # Idle /\ UNCHANGED <<up, late>>
           /\ mail' = mail \/ mail' = [mail EXCEPT ![op.token] = "posted"]
<1>1. op # Idle
  BY IdleFacts, NewMarksFacts
  DEF Statement, SelectActive, FindActive, UpdateReplaced, InsertToken, SelectToCancel,
      SelectToVerify, SelectForUpdate, UpdateUser, FindToken, UpdateToken, Commit, Runs
<1>2. CASE Commit
  BY <1>1, <1>2 DEF Commit
<1>3. CASE ~Commit
  BY <1>1, <1>3
  DEF Statement, SelectActive, FindActive, UpdateReplaced, InsertToken, SelectToCancel,
      SelectToVerify, SelectForUpdate, UpdateUser, FindToken, UpdateToken, Write, Rollback, Goes
<1> QED
  BY <1>2, <1>3

LEMMA RunTransactionStep ==
    ASSUME ServerInv, RunTransaction
    PROVE  [Next]_vars /\ Link'
<1>1. /\ Statement \/ Refuse \/ CommitLost
      /\ IF op' = Idle THEN C!Finish ELSE UNCHANGED <<process, at>>
  BY DEF RunTransaction, connection
<1>2. /\ op # Idle /\ up' = up
      /\ mail' = mail \/ mail' = [mail EXCEPT ![op.token] = "posted"]
  <2>1. CASE Statement
    BY <2>1, StatementFacts DEF ServerInv
  <2>2. CASE Refuse
    BY <2>2 DEF Refuse, Rollback, Goes
  <2>3. CASE CommitLost
    BY <2>3, IdleFacts DEF CommitLost
  <2> QED
    BY <1>1, <2>1, <2>2, <2>3
<1>3. at = "ready"
  BY <1>2 DEF ServerInv, Link
<1>4. process' = process /\ at' # "commit" /\ (op' # Idle => at' = "ready")
  BY <1>1, <1>3 DEF C!Finish, C!outside
<1>5. Failed' \subseteq Failed
  BY <1>2 DEF Failed, ServerInv, IInv, TypeOK
<1>6. Link'
  BY <1>2, <1>4, <1>5 DEF ServerInv, Link
<1> QED
  BY <1>1, <1>6 DEF Next

LEMMA ProcessCrashStep ==
    ASSUME ServerInv, ProcessCrash
    PROVE  [Next]_vars /\ Link'
<1>1. process' = "down" /\ at' = "idle"
  BY DEF ProcessCrash, C!Crash
<1>2. CASE up
  <2>1. Crash
    BY <1>2 DEF ProcessCrash
  <2>2. Failed' = {} /\ up' = FALSE /\ op' = Idle
    BY <2>1 DEF Crash, Failed
  <2>3. Link'
    BY <1>1, <2>2 DEF Link
  <2> QED
    BY <2>1, <2>3 DEF Next
<1>3. CASE ~up
  <2>1. UNCHANGED vars
    BY <1>3 DEF ProcessCrash
  <2>2. Failed' = Failed /\ op' = op /\ late' = late /\ up' = up
    BY <2>1 DEF vars, Failed
  <2>3. op = Idle
    BY <1>3 DEF ServerInv, Link, SchemaInv
  <2>4. Link'
    BY <1>1, <1>3, <2>2, <2>3 DEF ServerInv, Link
  <2> QED
    BY <2>1, <2>4
<1> QED
  BY <1>2, <1>3

LEMMA LateEndStep ==
    ASSUME ServerInv, LateEnd
    PROVE  [Next]_vars /\ Link'
<1>1. LateEnds /\ UNCHANGED <<process, at>>
  BY DEF LateEnd, connection
<1>2. late' \subseteq late /\ UNCHANGED <<up, op, mail>>
  BY <1>1 DEF LateEnds, LateCommit, LateAbort
<1>3. Link'
  BY <1>1, <1>2 DEF ServerInv, Link, Failed
<1> QED
  BY <1>1, <1>3 DEF Next

\* Steps of the connection alone.
LEMMA ConnectionStep ==
    ASSUME ServerInv, UNCHANGED vars, process' = process, at' # "commit" \/ at' = at,
           op = Idle \/ at' = at
    PROVE  [Next]_vars /\ Link'
<1>1. Failed' = Failed /\ op' = op /\ late' = late /\ up' = up
  BY DEF vars, Failed
<1> QED
  BY <1>1 DEF ServerInv, Link

LEMMA ServerStep ==
    ASSUME ServerInv, [ServerNext]_server
    PROVE  [Next]_vars /\ ServerInv'
<1>1. [Next]_vars /\ Link'
  <2>1. CASE Connecting
    BY <2>1, ConnectingStep
  <2>2. CASE MailEvent
    BY <2>2, MailEventStep
  <2>3. CASE Operation
    <3>1. op = Idle /\ process' = process /\ at' # "commit" /\ UNCHANGED vars
      BY <2>3 DEF Operation, C!Connect, C!outside, ServerInv, Link
    <3> QED
      BY <3>1, ConnectionStep
  <2>4. CASE BeginTransaction
    BY <2>4, BeginTransactionStep
  <2>5. CASE OtherOperation
    <3>1. op = Idle /\ process' = process /\ at' # "commit" /\ UNCHANGED vars
      BY <2>5 DEF OtherOperation, C!Finish, C!outside
    <3> QED
      BY <3>1, ConnectionStep
  <2>6. CASE RunTransaction
    BY <2>6, RunTransactionStep
  <2>7. CASE ConnectionFault
    <3>1. process' = process /\ at' = at /\ UNCHANGED vars
      BY <2>7 DEF ConnectionFault, C!Break, C!PgStop
    <3> QED
      BY <3>1, ConnectionStep
  <2>8. CASE Recovery
    <3>1. process' = process /\ at' = at /\ UNCHANGED vars
      BY <2>8 DEF Recovery, C!PgStart
    <3> QED
      BY <3>1, ConnectionStep
  <2>9. CASE ProcessCrash
    BY <2>9, ProcessCrashStep
  <2>10. CASE LateEnd
    BY <2>10, LateEndStep
  <2>11. CASE UNCHANGED server
    <3>1. process' = process /\ at' = at /\ UNCHANGED vars
      BY <2>11 DEF server, connection
    <3> QED
      BY <3>1, ConnectionStep
  <2> QED
    BY <2>1, <2>2, <2>3, <2>4, <2>5, <2>6, <2>7, <2>8, <2>9, <2>10, <2>11 DEF ServerNext, Work
<1>2. ConnectionActions \/ UNCHANGED connection
  BY DEF ServerNext, Work, Connecting, MailEvent, Operation, BeginTransaction, OtherOperation,
         RunTransaction, ConnectionFault, Recovery, ProcessCrash, LateEnd, server,
         ConnectionActions
<1>3. C!TypeOK' /\ SchemaInv'
  <2>1. CASE ConnectionActions
    BY <2>1, ConnectionSchema DEF ServerInv
  <2>2. CASE UNCHANGED connection
    BY <2>2 DEF connection, ServerInv, C!TypeOK, SchemaInv
  <2> QED
    BY <1>2, <2>1, <2>2
<1>4. IInv'
  BY <1>1, NextStep DEF ServerInv
<1> QED
  BY <1>1, <1>3, <1>4 DEF ServerInv

LEMMA ServerInitInv == ServerInit => ServerInv /\ Init
<1> SUFFICES ASSUME ServerInit PROVE ServerInv /\ Init
  OBVIOUS
<1>1. Init /\ C!Init
  BY DEF ServerInit
<1>2. Link
  BY <1>1 DEF Init, C!Init, Link, Failed
<1> QED
  BY <1>1, <1>2, InitIInv, SchemaInit DEF ServerInv

LEMMA ServerInductive == ServerSpec => []ServerInv
<1>1. ServerInit => ServerInv
  BY ServerInitInv
<1>2. ServerInv /\ [ServerNext]_server => ServerInv'
  BY ServerStep
<1> QED
  BY <1>1, <1>2, PTL DEF ServerSpec

-----------------------------------------------------------------------------
(* Theorems about the server *)

\* Both parts of the server keep their types and agree on whether it serves.
THEOREM ServerTyped == ServerSpec => []ServerTypeOK
<1>1. ServerInv => ServerTypeOK
  BY DEF ServerInv, IInv, Link, ServerTypeOK
<1> QED
  BY <1>1, ServerInductive, PTL

\* The server's transactions are those of PasswordResetTx, whose theorems so hold
\* of the server: a new process serves only once no transaction of the old one can
\* still commit.
THEOREM ServerKeepsTransactions == ServerSpec => KeepsTransactions
<1>1. ServerInit => Init
  BY ServerInitInv
<1>2. ServerInv /\ [ServerNext]_server => [Next]_vars
  BY ServerStep
<1> QED
  BY <1>1, <1>2, ServerInductive, PTL DEF ServerSpec, KeepsTransactions, Spec

\* The schema is old or current at every moment, whichever statement of
\* ensureSchema fails, at whichever COMMIT the connection breaks.
THEOREM SchemaAllOrNothing == ServerSpec => []AllOrNothing
<1>1. ServerInv => AllOrNothing
  BY DEF ServerInv, SchemaInv, AllOrNothing
<1> QED
  BY <1>1, ServerInductive, PTL

\* No operation meets an old schema, though connect() keeps a database object
\* whose schema statements have failed.
THEOREM OperationsFindTables == ServerSpec => []TablesReady
<1>1. ServerInv => TablesReady
  BY DEF ServerInv, SchemaInv, TablesReady
<1> QED
  BY <1>1, ServerInductive, PTL

=============================================================================
