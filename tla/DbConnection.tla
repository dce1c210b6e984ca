---------------------------- MODULE DbConnection ----------------------------
(***************************************************************************)
(* How a server process comes to a database it can use.  main() connects   *)
(* before it serves and exits if it cannot, Docker starts it again, and    *)
(* every operation of PgDatabase begins with connect(): it tries the       *)
(* connection, or opens one and brings the schema up to date in one        *)
(* transaction.  PostgreSQL stops, the connection breaks and the process   *)
(* dies before any statement.                                              *)
(***************************************************************************)
EXTENDS Naturals, Sequences

CONSTANT MaxFaults     \* bound: stops, breaks and crashes

\* What a schema has: the extension, the tables, and what each statement of
\* ensureExistingSchemaCompatibility sees to.
Tables == {"users", "password_reset_tokens"}
Alterations ==
    <<"many tokens of a user", "cancelled_at", "replaced_at", "used_at",
      "email_failed_at", "failure_message", "dates in UTC", "one active token",
      "index on dates", "no cleanup job">>

Altered == {Alterations[i] : i \in DOMAIN Alterations}
Current == {"pgcrypto"} \cup Tables \cup Altered
Legacy == {"pgcrypto"} \cup Tables

VARIABLES
    pg,         \* PostgreSQL accepts connections
    schema,     \* the committed schema
    process,    \* the server: "down", "starting" or "serving"
    database,   \* PgDatabase holds a database object
    session,    \* its pooled connection: "none", "live" or "broken"
    at,         \* the place of the next statement of connect()
    alteration, \* the alteration that comes next
    ddl,        \* the schema as the open transaction sees it
    faults      \* how many faults there were

vars == <<pg, schema, process, database, session, at, alteration, ddl, faults>>
outside == <<pg, schema, faults>>

Places == {"idle", "alive", "open", "begin", "extension", "look", "create", "alter",
           "commit", "ready"}

TypeOK ==
    /\ pg \in BOOLEAN
    /\ schema \subseteq Current /\ ddl \subseteq Current
    /\ process \in {"down", "starting", "serving"}
    /\ database \in BOOLEAN
    /\ session \in {"none", "live", "broken"}
    /\ at \in Places
    /\ alteration \in 1..Len(Alterations)
    /\ faults \in 0..MaxFaults

Init ==
    /\ pg = TRUE
    /\ schema \in {{}, Legacy}
    /\ process = "down"
    /\ database = FALSE
    /\ session = "none"
    /\ at = "idle"
    /\ alteration = 1
    /\ ddl = {}
    /\ faults = 0

-----------------------------------------------------------------------------
(* connect() *)

\* main(), in a new process
Launch ==
    /\ process = "down"
    /\ process' = "starting"
    /\ at' = "open"
    /\ UNCHANGED <<outside, database, session, alteration, ddl>>

\* An operation, while the server serves
Connect ==
    /\ process = "serving" /\ at = "idle"
    /\ at' = IF database THEN "alive" ELSE "open"
    /\ UNCHANGED <<outside, process, database, session, alteration, ddl>>

\* begin() takes the pooled connection or opens one.
Reachable == session = "live" \/ (session = "none" /\ pg)

\* ensureConnectionAlive gives the database object up when its query fails.
EnsureConnectionAlive ==
    /\ at = "alive"
    /\ IF Reachable
       THEN at' = "ready" /\ session' = "live" /\ UNCHANGED database
       ELSE at' = "open" /\ session' = "none" /\ database' = FALSE
    /\ UNCHANGED <<outside, process, alteration, ddl>>

\* A new database object; it does not connect yet.
Open ==
    /\ at = "open"
    /\ at' = "begin"
    /\ database' = TRUE
    /\ session' = "none"
    /\ UNCHANGED <<outside, process, alteration, ddl>>

\* Faulty variant: main() serves all the same.
ServesAnyway ==
    /\ session' = "none" /\ at' = "idle" /\ ddl' = {} /\ alteration' = 1
    /\ process' = "serving"
    /\ UNCHANGED <<pg, faults, database>>

\* connect() reports an error and keeps the object; main() exits.
GivesUp ==
    /\ session' = "none" /\ at' = "idle" /\ ddl' = {} /\ alteration' = 1
    /\ IF process = "starting"
       THEN process' = "down" /\ database' = FALSE
       ELSE UNCHANGED <<process, database>>
    /\ UNCHANGED <<pg, faults>>

\* Faulty variant: the statements before the error are committed.
FailsHalfway == GivesUp /\ schema' = schema \cup ddl

\* An error of ensureSchema rolls its transaction back.
Fails == GivesUp /\ UNCHANGED schema

\* A statement of ensureSchema's transaction.
Statement(here, there, newDdl) ==
    /\ at = here
    /\ IF session = "live"
       THEN at' = there /\ ddl' = newDdl /\ UNCHANGED <<outside, process, database, session, alteration>>
       ELSE Fails

Begin ==
    /\ at = "begin"
    /\ IF pg
       THEN /\ session' = "live" /\ at' = "extension" /\ ddl' = schema
            /\ UNCHANGED <<outside, process, database, alteration>>
       ELSE Fails

CreateExtension == Statement("extension", "look", ddl \cup {"pgcrypto"})

\* Faulty variant: tables that are there are taken for current.
LookOnly == Statement("look", IF Tables \cap ddl = {} THEN "create" ELSE "commit", ddl)

\* The tables are created only if neither is there.
Look == Statement("look", IF Tables \cap ddl = {} THEN "create" ELSE "alter", ddl)

\* create_schema makes the tables in their present form.
CreateSchema == Statement("create", "alter", ddl \cup Tables \cup Altered)

\* Faulty variant: what is there already is an error (no IF EXISTS).
AlterOnce ==
    /\ at = "alter"
    /\ IF session = "live" /\ Tables \subseteq ddl /\ Alterations[alteration] \notin ddl
       THEN /\ ddl' = ddl \cup {Alterations[alteration]}
            /\ IF alteration < Len(Alterations)
               THEN alteration' = alteration + 1 /\ UNCHANGED at
               ELSE alteration' = 1 /\ at' = "commit"
            /\ UNCHANGED <<outside, process, database, session>>
       ELSE Fails

\* An alteration of a table that is not there is an error.
Alter ==
    /\ at = "alter"
    /\ IF session = "live" /\ Tables \subseteq ddl
       THEN /\ ddl' = ddl \cup {Alterations[alteration]}
            /\ IF alteration < Len(Alterations)
               THEN alteration' = alteration + 1 /\ UNCHANGED at
               ELSE alteration' = 1 /\ at' = "commit"
            /\ UNCHANGED <<outside, process, database, session>>
       ELSE Fails

\* connect() succeeds: main() goes on to serve, an operation to its statements.
CommitSchema ==
    /\ at = "commit" /\ session = "live"
    /\ schema' = ddl
    /\ ddl' = {}
    /\ IF process = "starting"
       THEN process' = "serving" /\ at' = "idle"
       ELSE at' = "ready" /\ UNCHANGED process
    /\ UNCHANGED <<pg, faults, database, session, alteration>>

\* The connection is found broken in COMMIT: it may have been carried out.
CommitSchemaLost ==
    /\ at = "commit" /\ session = "broken"
    /\ schema' \in {schema, ddl}
    /\ GivesUp

\* The transactions of an operation are over; if one of them has met a broken
\* connection, the pool drops it.
Finish ==
    /\ at = "ready"
    /\ at' = "idle"
    /\ session' = IF session = "live" THEN "live" ELSE "none"
    /\ UNCHANGED <<outside, process, database, alteration, ddl>>

-----------------------------------------------------------------------------
(* Faults *)

Fault == faults < MaxFaults /\ faults' = faults + 1

Broken == IF session = "none" THEN "none" ELSE "broken"

Break ==
    /\ Fault /\ session = "live"
    /\ session' = Broken
    /\ UNCHANGED <<pg, schema, process, database, at, alteration, ddl>>

PgStop ==
    /\ Fault /\ pg
    /\ pg' = FALSE
    /\ session' = Broken
    /\ UNCHANGED <<schema, process, database, at, alteration, ddl>>

PgStart ==
    /\ ~pg
    /\ pg' = TRUE
    /\ UNCHANGED <<schema, process, database, session, at, alteration, ddl, faults>>

\* The process dies; its transaction is rolled back, or its COMMIT carried out.
Crash ==
    /\ Fault /\ process # "down"
    /\ process' = "down"
    /\ schema' \in {schema} \cup (IF at = "commit" THEN {ddl} ELSE {})
    /\ database' = FALSE
    /\ session' = "none"
    /\ at' = "idle"
    /\ ddl' = {} /\ alteration' = 1
    /\ UNCHANGED pg

-----------------------------------------------------------------------------

\* Steps of a connect() that has begun.
Connects ==
    \/ EnsureConnectionAlive \/ Open
    \/ Begin \/ CreateExtension \/ Look \/ CreateSchema \/ Alter
    \/ CommitSchema \/ CommitSchemaLost

Next ==
    \/ Launch \/ Connect \/ Connects \/ Finish
    \/ Break \/ PgStop \/ PgStart \/ Crash

Spec == Init /\ [][Next]_vars
=============================================================================
