---------------------------------- MODULE Db ----------------------------------
(***************************************************************************)
(* The database of src/src/db.c.  A start that finds no file creates it    *)
(* and executes the schema, statement by statement; every statement before *)
(* BEGIN is durable on its own, and the first URL with COMMIT.  A later    *)
(* start executes the schema again only when its first open cannot open    *)
(* the file that is there.                                                 *)
(***************************************************************************)
EXTENDS Naturals, Sequences

CONSTANTS
  Tables,       \* the number of tables and indexes the schema creates, manifest_locations last
  DefaultRows   \* the rows the schema inserts into manifest_locations

ASSUME DbAssumption == Tables \in Nat \ {0} /\ DefaultRows # <<>>

VARIABLES
  file,   \* the database file: the tables it has, the rows of manifest_locations
  conn,   \* the connection: where db_init is, what it returned, rows not committed
  cut     \* history: the last start that was creating tables did not get to its end

dbVars == <<file, conn, cut>>

NoFile == [exists |-> FALSE, tables |-> 0, rows |-> <<>>]
WithRows(rows) == [exists |-> TRUE, tables |-> Tables, rows |-> rows]

NoConn == [at |-> "closed", rc |-> "none", usable |-> FALSE, pending |-> <<>>]

DbInit(files) == file \in files /\ conn = NoConn /\ cut = FALSE

DbReturns(code, usable, pending) ==
  conn' = [at |-> "open", rc |-> code, usable |-> usable, pending |-> pending]

\* A mutant: the first open creates the file.
OpenExisting_Creates ==
  /\ conn.at = "closed"
  /\ file' = IF file.exists THEN file ELSE [NoFile EXCEPT !.exists = TRUE]
  /\ DbReturns("None", TRUE, <<>>)
  /\ UNCHANGED cut

\* The file is there: whatever it holds, and whatever ANALYZE says, it is taken.
OpenExisting ==
  /\ conn.at = "closed" /\ file.exists
  /\ DbReturns("None", TRUE, <<>>)
  /\ UNCHANGED <<file, cut>>

\* No open succeeds; the handle is one every later call fails on.
OpenFails ==
  /\ conn.at = "closed"
  /\ DbReturns("CouldNotInit", FALSE, <<>>) \/ DbReturns("CouldNotCreate", FALSE, <<>>)
  /\ UNCHANGED <<file, cut>>

\* SQLITE_CANTOPEN, and the second open makes an empty file, or opens the one
\* that was left empty.
CreateFile ==
  /\ conn.at = "closed" /\ file.tables = 0
  /\ file' = [file EXCEPT !.exists = TRUE]
  /\ conn' = [NoConn EXCEPT !.at = "creating", !.usable = TRUE]
  /\ UNCHANGED cut

\* SQLITE_CANTOPEN, and the second open opens a file that has tables: there is
\* no schema, or its first statement fails because the table is there already.
OpenAgain ==
  /\ conn.at = "closed" /\ file.tables > 0
  /\ \E code \in {"CouldNotOpen", "Invalid"} : DbReturns(code, TRUE, <<>>)
  /\ UNCHANGED <<file, cut>>

NoSchema ==
  /\ conn.at = "creating" /\ file.tables = 0
  /\ DbReturns("CouldNotOpen", TRUE, <<>>)
  /\ cut' = TRUE
  /\ UNCHANGED file

CreateTable ==
  /\ conn.at = "creating" /\ file.tables < Tables
  /\ file' = [file EXCEPT !.tables = @ + 1]
  /\ UNCHANGED <<conn, cut>>

\* BEGIN and INSERT.
InsertUrls ==
  /\ conn.at = "creating" /\ file.tables = Tables /\ file.rows = <<>> /\ conn.pending = <<>>
  /\ conn' = [conn EXCEPT !.pending = DefaultRows]
  /\ UNCHANGED <<file, cut>>

\* COMMIT.  The text of the schema is a SimpleString from a file: the byte
\* behind it is not written, and where it ends nothing, sqlite3_exec fails on it.
Commit ==
  /\ conn.at = "creating" /\ conn.pending # <<>>
  /\ file' = [file EXCEPT !.rows = conn.pending]
  /\ \E code \in {"None", "Invalid"} : DbReturns(code, TRUE, <<>>)
  /\ cut' = FALSE

\* A statement fails, and none after it is executed.  A failing COMMIT may leave
\* its transaction open or not.
StatementFails ==
  /\ conn.at = "creating"
  /\ DbReturns("Invalid", TRUE, conn.pending) \/ DbReturns("Invalid", TRUE, <<>>)
  /\ cut' = TRUE
  /\ UNCHANGED file

\* The process ends, in order or not: main has no call of db_deinit.
ProcessEnds ==
  /\ cut' = (cut \/ conn.at = "creating")
  /\ conn' = NoConn
  /\ UNCHANGED file

DbNext ==
  \/ OpenExisting \/ OpenFails \/ CreateFile \/ OpenAgain \/ NoSchema
  \/ CreateTable \/ InsertUrls \/ Commit \/ StatementFails

\* What a SELECT of the urls finds on this connection.
HasUrlTable == conn.usable /\ file.tables = Tables
UrlRows == file.rows \o conn.pending

(***************************************************************************)
(* Properties                                                              *)
(***************************************************************************)
DbTypeOK ==
  /\ file.tables \in 0 .. Tables /\ (~file.exists => file = NoFile)
  /\ conn.at \in {"closed", "creating", "open"}
  /\ conn.pending \in {<<>>, DefaultRows}

\* When db_init reports success the database has all its tables and a URL, in
\* this start and in every later one.  The exception is the code's own: a start
\* that was creating the tables was cut short, and no later one completed them.
SuccessIsWhole ==
  conn.rc = "None" => (file.tables = Tables /\ file.rows # <<>>) \/ cut

==============================================================================
