---------------------- MODULE ObjectStatements_proofs ----------------------
(***************************************************************************)
(* Proofs about ObjectStatements: the bindings are current whenever they   *)
(* look so, hence what is sent and loaded is the object, for any classes,  *)
(* texts and lengths.                                                      *)
(***************************************************************************)
EXTENDS ObjectStatements, SequenceTheorems, TLAPS

\* The statements of class c are in order: typed, no binding newer than the
\* image, and those as new as the image bound to its buffers.
InOrder(s, c) ==
    /\ s \in Statements(c)
    /\ \A k \in Kinds : s.binding[k].version <= s.version
    /\ \A k \in Kinds :
        s.binding[k].bound /\ s.binding[k].version = s.version
            => s.binding[k].buffer = s.capacity

LEMMA GrowInOrder ==
    ASSUME NEW c \in Classes, NEW s, InOrder(s, c),
           NEW o \in [Members[c] -> Values], NEW ms \in SUBSET Members[c]
    PROVE  /\ InOrder(Grow(s, o, ms), c)
           /\ Grow(s, o, ms).binding = s.binding
           /\ Grow(s, o, ms).image = s.image
<1> DEFINE g == Grow(s, o, ms)
<1>1. /\ s \in Statements(c)
      /\ Length \in [Values -> Nat]
  BY StatementsAssumption DEF InOrder
<1> DEFINE capacity == [m \in Members[c] |-> IF m \in ms THEN Length[o[m]] ELSE s.capacity[m]]
           version  == IF ms = {} THEN s.version ELSE s.version + 1
<1>a. /\ s.capacity \in [Members[c] -> Nat]
      /\ s.version \in Nat
  BY <1>1 DEF Statements, Buffers
<1>b. capacity \in [Members[c] -> Nat] /\ version \in Nat
  BY <1>1, <1>a
<1>c. g = [s EXCEPT !.capacity = capacity, !.version = version]
  BY <1>a DEF Grow
<1> HIDE DEF g, capacity, version
<1>2. /\ g.binding = s.binding
      /\ g.image = s.image
      /\ g.capacity = capacity
      /\ g.version = version
      /\ g \in Statements(c)
  BY <1>1, <1>b, <1>c DEF Statements, Buffers
<1>3. ASSUME NEW k \in Kinds
      PROVE  g.binding[k].version <= g.version
  BY <1>1, <1>2 DEF InOrder, Statements, version
<1>4. ASSUME NEW k \in Kinds, g.binding[k].bound, g.binding[k].version = g.version
      PROVE  g.binding[k].buffer = g.capacity
  <2>1. ms = {}
    BY <1>1, <1>2, <1>4 DEF InOrder, Statements, version
  <2>2. g.capacity = s.capacity
    BY <1>a, <1>2, <2>1 DEF capacity
  <2> QED
    BY <1>2, <1>4, <2>1, <2>2 DEF InOrder, version
<1> QED
  BY <1>2, <1>3, <1>4 DEF InOrder, g

LEMMA InitImageInOrder ==
    ASSUME NEW c \in Classes, NEW s, InOrder(s, c), NEW o \in [Members[c] -> Values]
    PROVE  InOrder(InitImage(s, o), c) /\ InitImage(s, o).image = o
<1> DEFINE ms == TooLong(o, s.capacity)
           g  == Grow(s, o, ms)
           i  == InitImage(s, o)
<1>1. ms \in SUBSET Members[c]
  BY DEF TooLong
<1>2. InOrder(g, c)
  BY <1>1, GrowInOrder
<1>3. i = [g EXCEPT !.image = o]
  BY DEF InitImage
<1> HIDE DEF g, i
<1>4. /\ i \in Statements(c) /\ i.image = o
      /\ i.binding = g.binding /\ i.version = g.version /\ i.capacity = g.capacity
  BY <1>2, <1>3 DEF InOrder, Statements
<1> QED
  BY <1>2, <1>4 DEF InOrder, i

LEMMA BindInOrder ==
    ASSUME NEW c \in Classes, NEW s, InOrder(s, c), NEW k \in Kinds
    PROVE  /\ InOrder(Bind(s, k), c)
           /\ Bind(s, k).image = s.image
           /\ Bind(s, k).capacity = s.capacity
           /\ Bind(s, k).binding[k].buffer = s.capacity
<1> DEFINE b == Bind(s, k)
<1>1. CASE s.binding[k].bound /\ s.binding[k].version = s.version
  BY <1>1 DEF Bind, InOrder
<1>2. CASE ~(s.binding[k].bound /\ s.binding[k].version = s.version)
  <2>1. b = [s EXCEPT !.binding[k] =
                [bound |-> TRUE, version |-> s.version, buffer |-> s.capacity]]
    BY <1>2 DEF Bind
  <2> HIDE DEF b
  <2>2. s \in Statements(c)
    BY DEF InOrder
  <2>3. /\ b.image = s.image /\ b.capacity = s.capacity /\ b.version = s.version
        /\ b.binding = [s.binding EXCEPT ![k] =
                [bound |-> TRUE, version |-> s.version, buffer |-> s.capacity]]
        /\ b \in Statements(c)
    BY <2>1, <2>2 DEF Statements
  <2>4. \A j \in Kinds :
            b.binding[j] = IF j = k
                THEN [bound |-> TRUE, version |-> s.version, buffer |-> s.capacity]
                ELSE s.binding[j]
    BY <2>2, <2>3 DEF Statements
  <2>5. InOrder(b, c)
    BY <2>2, <2>3, <2>4 DEF InOrder, Statements
  <2> QED
    BY <2>3, <2>4, <2>5 DEF b
<1> QED
  BY <1>1, <1>2

\* What a statement sends is the image it has been bound to.
LEMMA SentIsImage ==
    ASSUME NEW c \in Classes, NEW s, InOrder(s, c), NEW k \in Kinds
    PROVE  Sent(Bind(s, k), k) = s.image
<1>1. /\ Bind(s, k).image = s.image
      /\ Bind(s, k).binding[k].buffer = Bind(s, k).capacity
  BY BindInOrder
<1>2. s.image = [m \in DOMAIN s.image |-> s.image[m]]
  BY DEF InOrder, Statements
<1> QED
  BY <1>1, <1>2 DEF Sent

LEMMA FetchInOrder ==
    ASSUME NEW c \in Classes, NEW s, InOrder(s, c),
           NEW row \in [Members[c] -> Values], NEW ms \in SUBSET Members[c]
    PROVE  /\ InOrder(Fetch(s, row, ms), c)
           /\ Fetch(s, row, ms).binding = s.binding
           /\ Fetch(s, row, ms).capacity = s.capacity
           /\ Fetch(s, row, ms).version = s.version
<1> DEFINE buffer == s.binding["select"].buffer
           image  == [m \in Members[c] |->
                        IF m \in ms /\ buffer[m] = s.capacity[m]
                        THEN IF Length[row[m]] <= buffer[m] THEN row[m] ELSE Garbage
                        ELSE s.image[m]]
           f == Fetch(s, row, ms)
<1>1. s \in Statements(c)
  BY DEF InOrder
<1>2. s.image \in [Members[c] -> Values \cup {Garbage}]
  BY <1>1 DEF Statements
<1>3. image \in [Members[c] -> Values \cup {Garbage}]
  BY <1>2
<1>4. f = [s EXCEPT !.image = image]
  BY <1>2 DEF Fetch
<1> HIDE DEF f, image
<1>5. /\ f \in Statements(c) /\ f.binding = s.binding
      /\ f.capacity = s.capacity /\ f.version = s.version
  BY <1>1, <1>3, <1>4 DEF Statements
<1> QED
  BY <1>5 DEF InOrder, f

\* Rows that fit are fetched whole.
LEMMA FetchedImage ==
    ASSUME NEW c \in Classes, NEW s, InOrder(s, c),
           NEW row \in [Members[c] -> Values], NEW ms \in SUBSET Members[c],
           s.binding["select"].buffer = s.capacity,
           NEW m \in Members[c], Length[row[m]] <= s.capacity[m]
    PROVE  Fetch(s, row, ms).image[m] = IF m \in ms THEN row[m] ELSE s.image[m]
<1>1. s \in Statements(c)
  BY DEF InOrder
<1>2. DOMAIN s.image = Members[c]
  BY <1>1 DEF Statements
<1>3. Fetch(s, row, ms).image =
        [j \in Members[c] |->
            IF j \in ms /\ s.capacity[j] = s.capacity[j]
            THEN IF Length[row[j]] <= s.capacity[j] THEN row[j] ELSE Garbage
            ELSE s.image[j]]
  BY <1>1, <1>2 DEF Fetch, Statements
<1> QED
  BY <1>3

\* Whatever the row, its object is loaded, and the statements stay in order.
LEMMA LoadRowLoads ==
    ASSUME NEW c \in Classes, NEW s, InOrder(s, c),
           NEW row \in [Members[c] -> Values],
           s.binding["select"].buffer = s.capacity
    PROVE  /\ InOrder(LoadRow(s, row), c)
           /\ LoadRow(s, row).image = row
<1> DEFINE truncated == TooLong(row, s.binding["select"].buffer)
           fetched   == Fetch(s, row, DOMAIN row)
           wider     == Grow(fetched, row, truncated)
           grown     == Bind(wider, "select")
           again     == Fetch(grown, row, truncated)
<1>1. /\ s.capacity \in [Members[c] -> Nat]
      /\ Length \in [Values -> Nat]
      /\ DOMAIN row = Members[c] /\ "select" \in Kinds
  BY StatementsAssumption DEF InOrder, Statements, Buffers, Kinds
<1>2. truncated \in SUBSET Members[c]
  BY <1>1 DEF TooLong
<1>3. \A m \in Members[c] : m \in truncated <=> Length[row[m]] > s.capacity[m]
  BY <1>1 DEF TooLong
<1>4. \A m \in Members[c] : m \notin truncated => Length[row[m]] <= s.capacity[m]
  BY <1>1, <1>3
<1>5. /\ InOrder(fetched, c)
      /\ fetched.capacity = s.capacity
  BY <1>1, FetchInOrder
<1>6. \A m \in Members[c] \ truncated : fetched.image[m] = row[m]
  BY <1>1, <1>4, FetchedImage
<1>7. /\ InOrder(wider, c)
      /\ wider.image = fetched.image
  BY <1>2, <1>5, GrowInOrder
<1>8. wider.capacity = [m \in Members[c] |->
            IF m \in truncated THEN Length[row[m]] ELSE s.capacity[m]]
  <2>1. fetched \in Statements(c)
    BY <1>5 DEF InOrder
  <2>2. fetched.capacity \in [Members[c] -> Nat]
    BY <1>1, <1>5
  <2> HIDE DEF fetched, truncated
  <2> QED
    BY <1>5, <2>1, <2>2 DEF Grow, Statements
<1>9. /\ InOrder(grown, c)
      /\ grown.image = fetched.image
      /\ grown.capacity = wider.capacity
      /\ grown.binding["select"].buffer = grown.capacity
  BY <1>1, <1>7, BindInOrder
<1>10. \A m \in Members[c] : Length[row[m]] <= grown.capacity[m]
  BY <1>1, <1>4, <1>8, <1>9
<1>11. InOrder(again, c)
  BY <1>2, <1>9, FetchInOrder
<1>12. \A m \in Members[c] :
            again.image[m] = IF m \in truncated THEN row[m] ELSE grown.image[m]
  BY <1>2, <1>9, <1>10, FetchedImage
<1>13. \A m \in Members[c] : again.image[m] = row[m]
  BY <1>6, <1>9, <1>12
<1>14. LoadRow(s, row) = IF truncated = {} THEN fetched ELSE again
  BY DEF LoadRow
<1> HIDE DEF truncated, fetched, wider, grown, again
<1>15. CASE truncated = {}
  <2>1. \A m \in Members[c] : fetched.image[m] = row[m]
    BY <1>6, <1>15
  <2>2. fetched.image \in [Members[c] -> Values \cup {Garbage}]
    BY <1>5 DEF InOrder, Statements
  <2>3. fetched.image = row
    BY <2>1, <2>2
  <2> QED
    BY <1>5, <1>14, <1>15, <2>3
<1>16. CASE truncated # {}
  <2>1. again.image \in [Members[c] -> Values \cup {Garbage}]
    BY <1>11 DEF InOrder, Statements
  <2>2. again.image = row
    BY <1>13, <2>1
  <2> QED
    BY <1>11, <1>14, <1>16, <2>2
<1> QED
  BY <1>15, <1>16

-----------------------------------------------------------------------------
(* The operations: each keeps the invariant and is a call of the store. *)

IInv == TypeOK /\ InOrder(sts, class)

\* The step s makes to the statements, when it leaves the rest in order.
LEMMA NewStatementsInOrder ==
    ASSUME NEW c \in Classes
    PROVE  InOrder(NewStatements(c), c)
<1> DEFINE buffer == [m \in Members[c] |-> Initial]
<1>1. buffer \in [Members[c] -> Nat]
  BY StatementsAssumption
<1> HIDE DEF buffer
<1>2. NewStatements(c) =
        [image |-> [m \in Members[c] |-> Garbage], capacity |-> buffer, version |-> 0,
         binding |-> [k \in Kinds |-> [bound |-> FALSE, version |-> 0, buffer |-> buffer]]]
  BY DEF NewStatements, buffer
<1> QED
  BY <1>1, <1>2 DEF InOrder, Statements, Buffers

LEMMA FailsKeeps ==
    ASSUME IInv, NEW s, InOrder(s, class), Fails(s)
    PROVE  IInv' /\ Store!Fail
<1>1. sts' = s /\ UNCHANGED <<class, result, table>> /\ call' = <<>>
  BY DEF Fails, Execute
<1>2. s \in Statements(class)
  BY DEF InOrder
<1>3. TypeOK'
  BY <1>1, <1>2 DEF IInv, TypeOK
<1>4. InOrder(sts, class)'
  BY <1>1 DEF InOrder
<1> QED
  BY <1>1, <1>3, <1>4 DEF IInv, Store!Fail

LEMMA PersistKeeps ==
    ASSUME IInv, result = <<>>, NEW o \in Objects[class], Persist(o)
    PROVE  IInv' /\ Store!Next
<1> DEFINE s == Bind(InitImage(sts, o), "insert")
<1>1. /\ class \in Classes /\ o \in [Members[class] -> Values]
      /\ "insert" \in Kinds /\ o \in AnyObject
  BY StatementsAssumption DEF IInv, TypeOK, Kinds, AnyObject
<1>2. InOrder(InitImage(sts, o), class) /\ InitImage(sts, o).image = o
  BY <1>1, InitImageInOrder DEF IInv
<1>3. InOrder(s, class) /\ Sent(s, "insert") = o
  BY <1>1, <1>2, BindInOrder, SentIsImage
<1> HIDE DEF s
<1>4. \/ /\ sts' = s /\ UNCHANGED <<class, result>>
         /\ table' = Append(table, o)
         /\ call' = <<"persist", Len(table'), o>>
      \/ Fails(s)
  BY <1>3 DEF Persist, Execute, s
<1>5. CASE Fails(s)
  BY <1>3, <1>5, FailsKeeps DEF Store!Next
<1>6. CASE /\ sts' = s /\ UNCHANGED <<class, result>>
           /\ table' = Append(table, o)
           /\ call' = <<"persist", Len(table'), o>>
  <2>1. table' \in Seq(Objects[class]) /\ result' \in Seq(DOMAIN table')
    BY <1>6 DEF IInv, TypeOK
  <2>2. sts' \in Statements(class)
    BY <1>3, <1>6 DEF InOrder
  <2>3. TypeOK'
    BY <1>1, <1>6, <2>1, <2>2 DEF TypeOK
  <2>4. InOrder(sts, class)'
    BY <1>3, <1>6 DEF InOrder
  <2>5. Store!Persist(o)
    BY <1>6 DEF Store!Persist
  <2> QED
    BY <1>1, <2>3, <2>4, <2>5 DEF IInv, Store!Next
<1> QED
  BY <1>4, <1>5, <1>6

LEMMA UpdateKeeps ==
    ASSUME IInv, result = <<>>, NEW o \in Objects[class], NEW i \in DOMAIN table,
           Update(i, o)
    PROVE  IInv' /\ Store!Next
<1> DEFINE s == Bind(InitImage(sts, o), "update")
<1>1. /\ class \in Classes /\ o \in [Members[class] -> Values]
      /\ "update" \in Kinds /\ o \in AnyObject
  BY StatementsAssumption DEF IInv, TypeOK, Kinds, AnyObject
<1>2. InOrder(InitImage(sts, o), class) /\ InitImage(sts, o).image = o
  BY <1>1, InitImageInOrder DEF IInv
<1>3. InOrder(s, class) /\ Sent(s, "update") = o
  BY <1>1, <1>2, BindInOrder, SentIsImage
<1> HIDE DEF s
<1>4. \/ /\ sts' = s /\ UNCHANGED <<class, result>>
         /\ table' = [table EXCEPT ![i] = o]
         /\ call' = <<"update", i, o>>
      \/ Fails(s)
  BY <1>3 DEF Update, Execute, s
<1>5. CASE Fails(s)
  BY <1>3, <1>5, FailsKeeps DEF Store!Next
<1>6. CASE /\ sts' = s /\ UNCHANGED <<class, result>>
           /\ table' = [table EXCEPT ![i] = o]
           /\ call' = <<"update", i, o>>
  <2>1. table' \in Seq(Objects[class]) /\ result' \in Seq(DOMAIN table')
    <3>1. table \in Seq(Objects[class]) /\ result' = <<>>
      BY <1>6 DEF IInv, TypeOK
    <3>2. i \in 1..Len(table) /\ table' = [table EXCEPT ![i] = o]
      BY <1>6, <3>1
    <3>3. table' \in Seq(Objects[class])
      BY <3>1, <3>2, ExceptSeq
    <3> QED
      BY <3>1, <3>3
  <2>2. sts' \in Statements(class)
    BY <1>3, <1>6 DEF InOrder
  <2>3. TypeOK'
    BY <1>1, <1>6, <2>1, <2>2 DEF TypeOK
  <2>4. InOrder(sts, class)'
    BY <1>3, <1>6 DEF InOrder
  <2>5. Store!Update(i, o)
    BY <1>6 DEF Store!Update
  <2> QED
    BY <1>1, <2>3, <2>4, <2>5 DEF IInv, Store!Next
<1> QED
  BY <1>4, <1>5, <1>6

\* A row is loaded when the binding of SELECT is current.
LEMMA SelectLoads ==
    ASSUME IInv, NEW row \in Objects[class]
    PROVE  /\ InOrder(Bind(sts, "select"), class)
           /\ InOrder(LoadRow(Bind(sts, "select"), row), class)
           /\ ObjectOf(LoadRow(Bind(sts, "select"), row)) = row
<1>1. /\ class \in Classes /\ row \in [Members[class] -> Values]
      /\ "select" \in Kinds
  BY StatementsAssumption DEF IInv, TypeOK, Kinds
<1>2. /\ InOrder(Bind(sts, "select"), class)
      /\ Bind(sts, "select").binding["select"].buffer = Bind(sts, "select").capacity
  BY <1>1, BindInOrder DEF IInv
<1> QED
  BY <1>1, <1>2, LoadRowLoads DEF ObjectOf

LEMMA FindKeeps ==
    ASSUME IInv, NEW i \in DOMAIN table, Find(i)
    PROVE  IInv' /\ Store!Next
<1> DEFINE s == Bind(sts, "select")
           l == LoadRow(s, table[i])
<1>1. table[i] \in Objects[class]
  BY DEF IInv, TypeOK
<1>2. InOrder(s, class) /\ InOrder(l, class) /\ ObjectOf(l) = table[i]
  BY <1>1, SelectLoads
<1> HIDE DEF s, l
<1>3. \/ /\ sts' = l /\ UNCHANGED <<class, result, table>>
         /\ call' = <<"load", i, ObjectOf(l)>>
      \/ Fails(s)
  BY DEF Find, Execute, s, l
<1>4. CASE Fails(s)
  BY <1>2, <1>4, FailsKeeps DEF Store!Next
<1>5. CASE /\ sts' = l /\ UNCHANGED <<class, result, table>>
           /\ call' = <<"load", i, ObjectOf(l)>>
  <2>1. TypeOK'
    BY <1>2, <1>5 DEF IInv, TypeOK, InOrder
  <2>2. InOrder(sts, class)'
    BY <1>2, <1>5 DEF InOrder
  <2>3. Store!Load(i)
    BY <1>2, <1>5 DEF Store!Load
  <2> QED
    BY <2>1, <2>2, <2>3 DEF IInv, Store!Next
<1> QED
  BY <1>3, <1>4, <1>5

LEMMA QueryKeeps ==
    ASSUME IInv, NEW ids \in Seq(DOMAIN table), Query(ids)
    PROVE  IInv' /\ (Store!Next \/ UNCHANGED <<table, call>>)
<1> DEFINE s == Bind(sts, "select")
<1>1. InOrder(s, class)
  BY BindInOrder DEF IInv, TypeOK, Kinds
<1> HIDE DEF s
<1>2. \/ sts' = s /\ result' = ids /\ UNCHANGED <<class, table, call>>
      \/ Fails(s)
  BY DEF Query, s
<1>3. CASE Fails(s)
  BY <1>1, <1>3, FailsKeeps DEF Store!Next
<1>4. CASE sts' = s /\ result' = ids /\ UNCHANGED <<class, table, call>>
  BY <1>1, <1>4 DEF IInv, TypeOK, InOrder
<1> QED
  BY <1>2, <1>3, <1>4

LEMMA NextRowKeeps ==
    ASSUME IInv, NextRow
    PROVE  IInv' /\ Store!Next
<1> DEFINE i == Head(result)
           l == LoadRow(Bind(sts, "select"), table[i])
<1>1. i \in DOMAIN table /\ Tail(result) \in Seq(DOMAIN table)
  BY DEF IInv, TypeOK, NextRow
<1>2. table[i] \in Objects[class]
  BY <1>1 DEF IInv, TypeOK
<1>3. InOrder(l, class) /\ ObjectOf(l) = table[i]
  BY <1>2, SelectLoads
<1>4. /\ sts' = l /\ result' = Tail(result) /\ UNCHANGED <<class, table>>
      /\ call' = <<"load", i, ObjectOf(sts')>>
  BY DEF NextRow
<1> HIDE DEF i, l
<1>5. TypeOK'
  BY <1>1, <1>3, <1>4 DEF IInv, TypeOK, InOrder
<1>6. InOrder(sts, class)'
  BY <1>3, <1>4 DEF InOrder
<1>7. Store!Load(i)
  BY <1>3, <1>4 DEF Store!Load
<1> QED
  BY <1>1, <1>5, <1>6, <1>7 DEF IInv, Store!Next

LEMMA QueryValueKeeps ==
    ASSUME IInv, NEW v \in Objects[class], QueryValue(v)
    PROVE  IInv' /\ Store!Next
<1> DEFINE s == Bind(sts, "select")
           l == LoadRow(s, v)
<1>1. InOrder(s, class) /\ InOrder(l, class) /\ ObjectOf(l) = v /\ v \in AnyObject
  BY SelectLoads DEF IInv, TypeOK, AnyObject
<1> HIDE DEF s, l
<1>2. \/ /\ sts' = l /\ UNCHANGED <<class, result, table>>
         /\ call' = <<"value", v, ObjectOf(l)>>
      \/ Fails(s)
  BY DEF QueryValue, Execute, s, l
<1>3. CASE Fails(s)
  BY <1>1, <1>3, FailsKeeps DEF Store!Next
<1>4. CASE /\ sts' = l /\ UNCHANGED <<class, result, table>>
           /\ call' = <<"value", v, ObjectOf(l)>>
  <2>1. TypeOK'
    BY <1>1, <1>4 DEF IInv, TypeOK, InOrder
  <2>2. InOrder(sts, class)'
    BY <1>1, <1>4 DEF InOrder
  <2>3. Store!Evaluate(v)
    BY <1>1, <1>4 DEF Store!Evaluate
  <2> QED
    BY <1>1, <2>1, <2>2, <2>3 DEF IInv, Store!Next
<1> QED
  BY <1>2, <1>3, <1>4

LEMMA ReconnectKeeps ==
    ASSUME IInv, Reconnect
    PROVE  IInv' /\ UNCHANGED <<table, call>>
<1>1. InOrder(NewStatements(class), class)
  BY NewStatementsInOrder DEF IInv, TypeOK
<1>2. /\ sts' = NewStatements(class) /\ result' = <<>>
      /\ UNCHANGED <<class, table, call>>
  BY DEF Reconnect
<1> HIDE DEF NewStatements
<1>3. TypeOK'
  BY <1>1, <1>2 DEF IInv, TypeOK, InOrder
<1>4. InOrder(sts, class)'
  BY <1>1, <1>2 DEF InOrder
<1> QED
  BY <1>2, <1>3, <1>4 DEF IInv

-----------------------------------------------------------------------------
(* Theorems *)

LEMMA Initially == Init => IInv /\ Store!Init
<1> SUFFICES ASSUME Init PROVE IInv /\ Store!Init
  OBVIOUS
<1>1. InOrder(NewStatements(class), class)
  BY NewStatementsInOrder DEF Init
<1>2. TypeOK
  BY <1>1 DEF Init, TypeOK, InOrder
<1> QED
  BY <1>1, <1>2 DEF Init, IInv, Store!Init

LEMMA Steps ==
    IInv /\ [Next]_vars => IInv' /\ [Store!Next]_<<table, call>>
<1> SUFFICES ASSUME IInv, [Next]_vars
             PROVE  IInv' /\ [Store!Next]_<<table, call>>
  OBVIOUS
<1>1. ASSUME NEW o \in Objects[class], result = <<>>, PersistUser(o) \/ PersistToken(o)
      PROVE  IInv' /\ Store!Next
  BY <1>1, PersistKeeps DEF PersistUser, PersistToken
<1>2. ASSUME NEW o \in Objects[class], NEW i \in DOMAIN table, result = <<>>,
             UpdateUser(i, o) \/ UpdateToken(i, o)
      PROVE  IInv' /\ Store!Next
  BY <1>2, UpdateKeeps DEF UpdateUser, UpdateToken
<1>3. ASSUME NEW o \in Objects[class], QueryValue(o)
      PROVE  IInv' /\ Store!Next
  BY <1>3, QueryValueKeeps
<1>4. ASSUME NEW i \in DOMAIN table, FindUser(i) \/ FindToken(i)
      PROVE  IInv' /\ Store!Next
  BY <1>4, FindKeeps DEF FindUser, FindToken
<1>5. ASSUME NEW n \in 0..Len(table), NEW ids \in [1..n -> DOMAIN table],
             QueryUsers(ids) \/ QueryTokens(ids)
      PROVE  IInv' /\ [Store!Next]_<<table, call>>
  <2>1. ids \in Seq(DOMAIN table)
    BY DEF IInv, TypeOK
  <2> QED
    BY <1>5, <2>1, QueryKeeps DEF QueryUsers, QueryTokens
<1>6. ASSUME NextRow PROVE IInv' /\ Store!Next
  BY <1>6, NextRowKeeps
<1>7. ASSUME Reconnect PROVE IInv' /\ [Store!Next]_<<table, call>>
  BY <1>7, ReconnectKeeps
<1>8. ASSUME UNCHANGED vars PROVE IInv' /\ [Store!Next]_<<table, call>>
  BY <1>8 DEF vars, IInv, TypeOK, InOrder
<1> QED
  BY <1>1, <1>2, <1>3, <1>4, <1>5, <1>6, <1>7, <1>8 DEF Next

\* TypeOK: the statements, the table and the results keep their types.
THEOREM StatementsTyped == Spec => []TypeOK
<1>1. IInv => TypeOK
  BY DEF IInv
<1> QED
  BY <1>1, Initially, Steps, PTL DEF Spec

\* BindingsCurrent: no statement that skips binding points to a moved buffer.
THEOREM NoDanglingBinding == Spec => []BindingsCurrent
<1>1. IInv => BindingsCurrent
  BY DEF IInv, InOrder, BindingsCurrent
<1> QED
  BY <1>1, Initially, Steps, PTL DEF Spec

\* KeepsObjects: the statements implement the store.
THEOREM StatementsImplementStore == Spec => KeepsObjects
BY Initially, Steps, PTL DEF Spec, KeepsObjects, Store!Spec
=============================================================================
