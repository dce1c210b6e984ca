-------------------------- MODULE ObjectStatements --------------------------
(***************************************************************************)
(* The code ODB generates for the persistent classes: how an object gets   *)
(* into a row and out of it.  A connection has for each class one image of *)
(* an object, which all statements share, and three bindings, for INSERT,  *)
(* UPDATE and SELECT, that hold the addresses of the image's buffers.  A   *)
(* text that does not fit makes its buffer move; bindings made before then *)
(* point to freed memory, and version counters tell when to bind anew.     *)
(*                                                                         *)
(* A buffer moves only to grow, so its capacity names it.  Members of a    *)
(* fixed size (numbers, dates) lie in the image and never move: their      *)
(* values have length 0, as NULL has.  So does the image of the id, which  *)
(* is bound once; an object is named here by the id of its row.  ODB keeps *)
(* the classes apart, so a behaviour is about one of them; a view is a     *)
(* class with a SELECT only.                                               *)
(***************************************************************************)
EXTENDS Naturals, Sequences

CONSTANTS Objects,    \* Objects[c]: the objects of class or view c
          Values,     \* the values of their members
          Length,     \* Length[v]: the bytes the value v needs in a buffer
          Initial,    \* capacity of a new buffer (512 in libodb-pgsql)
          MaxRows     \* bound: rows of the table

UserMembers == {"login", "name", "email", "passwordHash"}

TokenMembers ==
    {"userId", "tokenHash", "verificationCodeHash", "verifiedAt", "expiresAt",
     "createdAt", "cancelledAt", "replacedAt", "usedAt", "emailFailedAt",
     "failureMessage"}

\* The classes, and the one view that has a text.
Classes == {"DbUser", "DbPasswordResetToken", "DbStringValue"}

Members ==
    [c \in Classes |-> CASE c = "DbUser" -> UserMembers
                        [] c = "DbPasswordResetToken" -> TokenMembers
                        [] c = "DbStringValue" -> {"value"}]

ASSUME StatementsAssumption ==
    /\ \A c \in Classes : Objects[c] \subseteq [Members[c] -> Values]
    /\ Length \in [Values -> Nat]
    /\ Initial \in Nat /\ MaxRows \in Nat

VARIABLES
    class,      \* the class or view this behaviour is about
    sts,        \* its statements on the connection
    result,     \* ids of the rows a query has returned and the program not read
    table,      \* the table in id order
    call        \* the last call, if it succeeded: its name, its argument, an object

vars == <<class, sts, result, table, call>>

Kinds == {"insert", "update", "select"}

\* What is found in memory that no value was written to.
Garbage == "garbage"

AnyObject == UNION {Objects[c] : c \in Classes}

Store == INSTANCE ObjectStore WITH Objects <- AnyObject, rows <- table

\* The addresses of the buffers, as the binding of a statement holds them.
Buffers(c) == [Members[c] -> Nat]

Statements(c) ==
    [image : [Members[c] -> Values \cup {Garbage}], capacity : Buffers(c),
     version : Nat,
     binding : [Kinds -> [bound : BOOLEAN, version : Nat, buffer : Buffers(c)]]]

TypeOK ==
    /\ class \in Classes
    /\ sts \in Statements(class)
    /\ result \in Seq(DOMAIN table)
    /\ table \in Seq(Objects[class])

\* The statement cache of a new connection.
NewStatements(c) ==
    LET buffer == [m \in Members[c] |-> Initial]
    IN  [image |-> [m \in Members[c] |-> Garbage], capacity |-> buffer, version |-> 0,
         binding |-> [k \in Kinds |-> [bound |-> FALSE, version |-> 0, buffer |-> buffer]]]

Init ==
    /\ class \in Classes
    /\ sts = NewStatements(class)
    /\ result = <<>>
    /\ table = <<>>
    /\ call = <<>>

-----------------------------------------------------------------------------
(* The image and its bindings *)

\* Buffers of the members ms are made to hold the object o; they have moved if
\* they were too small.
Grow(s, o, ms) ==
    [s EXCEPT
        !.capacity = [m \in DOMAIN @ |-> IF m \in ms THEN Length[o[m]] ELSE @[m]],
        !.version = IF ms = {} THEN @ ELSE @ + 1]

\* Members of o that do not fit in the buffers.
TooLong(o, buffer) == {m \in DOMAIN o : Length[o[m]] > buffer[m]}

\* Faulty variant: the callers do not count the move of a buffer.
InitUncounted(s, o) ==
    [Grow(s, o, TooLong(o, s.capacity)) EXCEPT !.image = o, !.version = s.version]

\* init: the object is copied to the image, member by member.
InitImage(s, o) == [Grow(s, o, TooLong(o, s.capacity)) EXCEPT !.image = o]

\* Faulty variant: a binding is made once.
BindOnce(s, k) ==
    IF s.binding[k].bound
    THEN s
    ELSE [s EXCEPT !.binding[k] =
            [bound |-> TRUE, version |-> s.version, buffer |-> s.capacity]]

\* bind, if the image has changed since or the statement was never bound.
Bind(s, k) ==
    IF s.binding[k].bound /\ s.binding[k].version = s.version
    THEN s
    ELSE [s EXCEPT !.binding[k] =
            [bound |-> TRUE, version |-> s.version, buffer |-> s.capacity]]

\* The row that INSERT or UPDATE sends: what its binding points to.
Sent(s, k) ==
    [m \in DOMAIN s.image |->
        IF s.binding[k].buffer[m] = s.capacity[m] THEN s.image[m] ELSE Garbage]

\* The members ms of a row are copied to where the binding of SELECT points,
\* each cut at the capacity of the buffer.
Fetch(s, row, ms) ==
    LET buffer == s.binding["select"].buffer
    IN  [s EXCEPT !.image =
            [m \in DOMAIN @ |->
                IF m \in ms /\ buffer[m] = s.capacity[m]
                THEN IF Length[row[m]] <= buffer[m] THEN row[m] ELSE Garbage
                ELSE @[m]]]

\* Faulty variant: the row is not fetched again after the buffers have grown.
LoadTruncated(s, row) ==
    LET truncated == TooLong(row, s.binding["select"].buffer)
    IN  Bind(Grow(Fetch(s, row, DOMAIN row), row, truncated), "select")

\* fetch, grow and refetch of find_, and of a result that is read on.
LoadRow(s, row) ==
    LET truncated == TooLong(row, s.binding["select"].buffer)
        fetched   == Fetch(s, row, DOMAIN row)
        grown     == Bind(Grow(fetched, row, truncated), "select")
    IN  IF truncated = {} THEN fetched ELSE Fetch(grown, row, truncated)

\* init: the members of an object are set from the image.
ObjectOf(s) == s.image

-----------------------------------------------------------------------------
(* The operations.  The image and the bindings are ready when the statement *)
(* is executed, and stay so when it fails.                                  *)

Execute(s) == sts' = s /\ UNCHANGED <<class, result>>

Fails(s) == Execute(s) /\ call' = <<>> /\ UNCHANGED table

Persist(o) ==
    LET s == Bind(InitImage(sts, o), "insert")
    IN  \/ /\ Len(table) < MaxRows
           /\ Execute(s)
           /\ table' = Append(table, Sent(s, "insert"))
           /\ call' = <<"persist", Len(table'), o>>
        \/ Fails(s)

Update(i, o) ==
    LET s == Bind(InitImage(sts, o), "update")
    IN  \/ /\ Execute(s)
           /\ table' = [table EXCEPT ![i] = Sent(s, "update")]
           /\ call' = <<"update", i, o>>
        \/ Fails(s)

\* find makes a new object.
Find(i) ==
    LET s == Bind(sts, "select")
    IN  \/ /\ Execute(LoadRow(s, table[i]))
           /\ UNCHANGED table
           /\ call' = <<"load", i, ObjectOf(sts')>>
        \/ Fails(s)

\* query: the rows wait on the client's side.
Query(ids) ==
    LET s == Bind(sts, "select")
    IN  \/ /\ sts' = s
           /\ result' = ids
           /\ UNCHANGED <<class, table, call>>
        \/ Fails(s)

\* The next object of the result; its statement may find the image grown.
NextRow ==
    LET i == Head(result)
    IN  /\ result # <<>>
        /\ sts' = LoadRow(Bind(sts, "select"), table[i])
        /\ result' = Tail(result)
        /\ UNCHANGED <<class, table>>
        /\ call' = <<"load", i, ObjectOf(sts')>>

PersistUser(o) == class = "DbUser" /\ Persist(o)
UpdateUser(i, o) == class = "DbUser" /\ Update(i, o)
FindUser(i) == class = "DbUser" /\ Find(i)
QueryUsers(ids) == class = "DbUser" /\ Query(ids)

PersistToken(o) == class = "DbPasswordResetToken" /\ Persist(o)
UpdateToken(i, o) == class = "DbPasswordResetToken" /\ Update(i, o)
FindToken(i) == class = "DbPasswordResetToken" /\ Find(i)
QueryTokens(ids) == class = "DbPasswordResetToken" /\ Query(ids)

\* query_value of a view: the server computes the row v.
QueryValue(v) ==
    LET s == Bind(sts, "select")
    IN  /\ class = "DbStringValue"
        /\ \/ /\ Execute(LoadRow(s, v))
              /\ UNCHANGED table
              /\ call' = <<"value", v, ObjectOf(sts')>>
           \/ Fails(s)

\* The connection breaks and is opened anew: a new statement cache.
Reconnect ==
    /\ sts' = NewStatements(class)
    /\ result' = <<>>
    /\ UNCHANGED <<class, table, call>>

\* The program reads a result to its end before it does anything else.
Next ==
    \/ /\ result = <<>>
       /\ \/ \E o \in Objects[class] :
                \/ PersistUser(o) \/ PersistToken(o)
                \/ \E i \in DOMAIN table : UpdateUser(i, o) \/ UpdateToken(i, o)
                \/ QueryValue(o)
          \/ \E i \in DOMAIN table : FindUser(i) \/ FindToken(i)
          \/ \E n \in 0..Len(table) : \E ids \in [1..n -> DOMAIN table] :
                QueryUsers(ids) \/ QueryTokens(ids)
    \/ NextRow
    \/ Reconnect

Spec == Init /\ [][Next]_vars

-----------------------------------------------------------------------------
(* Properties *)

\* A binding that looks current is current: of the statements that do not have
\* to bind anew, none points to a buffer that has moved, whichever of the other
\* statements, or of their failures, made it move.
BindingsCurrent ==
    \A k \in Kinds :
        sts.binding[k].bound /\ sts.binding[k].version = sts.version
            => sts.binding[k].buffer = sts.capacity

\* Whatever sequence of calls, failures and new connections: a row equals the
\* object it was written from, and an object equals the row it was loaded from;
\* no text is cut, mixed with that of an earlier call, or read from freed memory.
KeepsObjects == Store!Spec
=============================================================================
