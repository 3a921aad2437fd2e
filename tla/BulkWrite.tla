------------------------------- MODULE BulkWrite -----------------------------
(***************************************************************************)
(* write(table, fields, io): COPY FROM STDIN for PostgreSQL, LOAD DATA      *)
(* LOCAL INFILE ... REPLACE for MySQL, whose library asks for the rows by   *)
(* callbacks that find the IO object in CopyInList, and one INSERT per line *)
(* for SQLite.  A row has a key and the class of its other field; the IO    *)
(* object is a queue of rows, which StringIO is when its lines end.         *)
(*                                                                         *)
(* A client that refills the IO object truncates it and writes the rows     *)
(* again before it retries; another calls again with what write() has left  *)
(* in it.  The servers undo a statement that fails (for MySQL: the engine   *)
(* is a transactional one); SQLite's loop is as many statements as rows,    *)
(* and a transaction the client has around it is not part of this module.   *)
(***************************************************************************)
EXTENDS Naturals, Sequences, FiniteSets

CONSTANTS Drivers,  \* "pg", "mysql", "sqlite3"
          Keys,     \* primary keys
          Classes,  \* of "long", "one" (character), "null" (\N), "refused"
          MaxRows,  \* bound on the rows of one write
          MaxThrown, \* bound on the exceptions of the IO object
          Clients   \* the clients there may be

AnyClient == [refills: BOOLEAN, replaces: BOOLEAN]

BulkWriteAssumption ==
  /\ Drivers \subseteq {"pg", "mysql", "sqlite3"}
  /\ Classes \subseteq {"long", "one", "null", "refused"}
  /\ MaxRows \in Nat \ {0} /\ MaxThrown \in Nat
  /\ Clients \subseteq AnyClient

VARIABLES driver,
          client,  \* whether it refills the IO object, and whether it
                   \* replaces: writes keys that are there already
          table,   \* for each key, what its row holds
          before,  \* the table when write() was called, or left
          io,      \* the rows the IO object still has
          given,   \* the rows the client means to write
          loading, \* write() has been called and has not returned
          failing, \* COPY has met a row it does not take
          count,   \* rows counted by the server, or by the loop
          copyIn,  \* the connection is within COPY or LOAD DATA
          held,    \* what writes hold and must give back: entries of CopyInList,
                   \* buffers of COPY, prepared INSERTs of SQLite
          thrown,  \* how often the IO object threw
          said     \* what the last write() did

made == <<driver, client>>
vars == <<made, table, before, io, given, loading, failing, count, copyIn, held, thrown, said>>

NoRow    == "none"
Contents == {NoRow, "long", "one", "NULL", "backslashN"}
Rows     == [key: Keys, class: Classes]
RowSeqs  == UNION {[1..n -> Rows] : n \in 0..MaxRows}

TypeOK ==
  /\ driver \in Drivers /\ client \in Clients
  /\ {table, before} \subseteq [Keys -> Contents]
  /\ {io, given} \subseteq RowSeqs
  /\ {loading, failing, copyIn} \subseteq BOOLEAN
  /\ count \in 0..(2 * MaxRows)
  /\ thrown \in 0..MaxThrown /\ held \in 0..(MaxThrown + 1)
  /\ said \in {"nothing", "threw", "returned"}

Init ==
  /\ driver \in Drivers /\ client \in Clients
  /\ table = [k \in Keys |-> NoRow] /\ before = table
  /\ io = <<>> /\ given = <<>>
  /\ loading = FALSE /\ failing = FALSE /\ count = 0
  /\ copyIn = FALSE /\ held = 0 /\ thrown = 0 /\ said = "nothing"

-----------------------------------------------------------------------------
(* The client fills the IO object, or calls again with what write() left.    *)
(* A MySQL connection within LOAD DATA takes what is sent for rows: a call    *)
(* would not come back.                                                    *)
Clean(rows) == /\ \A i, j \in DOMAIN rows : i # j => rows[i].key # rows[j].key
               /\ \A i \in DOMAIN rows : table[rows[i].key] = NoRow

Calls ==
  /\ ~loading /\ (driver = "mysql" => ~copyIn)
  /\ \/ \E rows \in RowSeqs :
          rows # <<>> /\ (client.replaces \/ Clean(rows)) /\ io' = rows /\ given' = rows
     \/ ~client.refills /\ said = "threw" /\ UNCHANGED <<io, given>>

(* The statement is accepted.  A COPY that was left open is ended first.      *)
CountFrom == 0

Start ==
  /\ Calls
  /\ loading' = TRUE /\ failing' = FALSE /\ count' = CountFrom /\ said' = "nothing"
  /\ copyIn' = (driver # "sqlite3") /\ held' = held + 1
  /\ UNCHANGED <<made, table, before, thrown>>

(* write() throws, and this is the table it leaves.                          *)
Throws(left) ==
  /\ table' = left /\ before' = left
  /\ loading' = FALSE /\ failing' = FALSE /\ count' = CountFrom /\ said' = "threw"

(* It is refused, or the connection is lost, before a row is asked for: pg    *)
(* and SQLite hold nothing yet, MySQL erases its entry.                     *)
StartThrows ==
  /\ Calls /\ Throws(table)
  /\ copyIn' = FALSE
  /\ UNCHANGED <<made, held, thrown>>

(* What becomes of a field.  SQLite's loop takes one character for NULL, and *)
(* \N for text of two.                                                     *)
AsWritten(c)    == IF c = "null" THEN "NULL" ELSE c
PgField(c)      == AsWritten(c)
MySqlField(c)   == AsWritten(c)
ShortAsNull(c)  == "NULL"
Sqlite3Field(c) == CASE c = "one" -> "NULL" [] c = "null" -> "backslashN" [] OTHER -> c

Row     == Head(io)
Refused == Row.class = "refused"
Taken   == table[Row.key] # NoRow
Stores(content) == table' = [table EXCEPT ![Row.key] = content]

PgRow ==
  /\ driver = "pg"
  /\ IF Refused \/ Taken
     THEN failing' = TRUE /\ UNCHANGED <<table, count>>
     ELSE Stores(PgField(Row.class)) /\ count' = count + 1 /\ UNCHANGED failing
  /\ UNCHANGED <<loading, before, held, said>>

(* LOCAL makes a row that is refused a warning.  A row that is there is       *)
(* replaced: one row deleted and one inserted.                             *)
BothCounted == 2
Changed     == IF Taken THEN 2 ELSE 1

MySqlRow ==
  /\ driver = "mysql"
  /\ IF Refused
     THEN UNCHANGED <<table, count>>
     ELSE /\ Stores(MySqlField(Row.class))
          /\ count' = count + Changed
  /\ UNCHANGED <<loading, before, failing, held, said>>

(* A failing INSERT throws; the rows inserted before it stay.                *)
Uninserted == before
OnError    == table

(* write() gives back what it holds.                                        *)
Kept(h)     == h
Released(h) == h - 1
EndErases(h) == Released(h)

Sqlite3Row ==
  /\ driver = "sqlite3"
  /\ IF Refused \/ Taken
     THEN Throws(OnError) /\ held' = Released(held)
     ELSE /\ Stores(Sqlite3Field(Row.class)) /\ count' = count + 1
          /\ UNCHANGED <<loading, before, failing, held, said>>

LoadRow ==
  /\ loading /\ io # <<>> /\ io' = Tail(io)
  /\ PgRow \/ MySqlRow \/ Sqlite3Row
  /\ UNCHANGED <<made, given, copyIn, thrown>>

(* The rows are all there: the statement ends, and write() returns the        *)
(* server's count, or throws the error for which the server undid it.       *)
Finish ==
  /\ loading /\ io = <<>>
  /\ IF failing
     THEN Throws(before)
     ELSE /\ loading' = FALSE /\ said' = "returned" /\ before' = table
          /\ UNCHANGED <<table, failing, count>>
  /\ copyIn' = FALSE /\ held' = EndErases(held)
  /\ UNCHANGED <<made, io, given, thrown>>

(* The connection is lost, and the server undoes the statement; pg has read   *)
(* ahead, so the rows still queued may be any suffix of what there was.      *)
(* MySQL erases the first entry with its IO object, and then that of its     *)
(* file: two, if the first was left by a write() before.                    *)
AfterError(h) == {EndErases(h)} \cup {n \in {h - 2} : driver = "mysql" /\ h >= 2}

Lost ==
  /\ loading /\ driver # "sqlite3"
  /\ Throws(before)
  /\ copyIn' = FALSE /\ held' \in AfterError(held)
  /\ \E n \in 1..(Len(io) + 1) : io' = SubSeq(io, n, Len(io))
  /\ UNCHANGED <<made, given, thrown>>

(* io->read or io->readline throws.  None of the three loops catches it, so   *)
(* write() leaves as it is what it holds (the buffer, the prepared INSERT,    *)
(* MySQL's entry, the exception passing through the C library) and, with     *)
(* the servers, the statement it is in.                                    *)
IoThrows ==
  /\ loading /\ thrown < MaxThrown /\ thrown' = thrown + 1
  /\ Throws(IF driver = "sqlite3" THEN table ELSE before)
  /\ UNCHANGED <<made, io, given, copyIn, held>>

(* PQexec of another command ends the COPY with an error first; a client of   *)
(* MySQL needs a new handle.                                               *)
OtherCommand ==
  /\ copyIn /\ ~loading /\ copyIn' = FALSE
  /\ UNCHANGED <<made, table, before, io, given, loading, failing, count, held, thrown, said>>

(* A statement of the client's own has the server ask for a file: nothing is  *)
(* found, for which the lookup has made an entry, and the end erases that.   *)
NullEntered(h) == h + 1
ForeignInfile ==
  /\ driver = "mysql" /\ ~loading /\ ~copyIn
  /\ held' = Released(NullEntered(held))
  /\ UNCHANGED <<made, table, before, io, given, loading, failing, count, copyIn, thrown, said>>

Next ==
  \/ Start \/ StartThrows \/ LoadRow \/ Finish
  \/ Lost \/ IoThrows \/ OtherCommand \/ ForeignInfile

Spec == Init /\ [][Next]_vars

-----------------------------------------------------------------------------
(* SQLite's loop loses no row: whatever threw, and however often write() was  *)
(* called again, each row that was read is in the table, or was one SQLite    *)
(* refuses.  So the earlier rows of a write() that threw stay, and what the   *)
(* IO object still has is what is left to load (sqlite3/handle.cc:214-240).  *)
NoneLost ==
  driver = "sqlite3" =>
    \A i \in 1..(Len(given) - Len(io)) :
      given[i].class = "refused" \/ table[given[i].key] # NoRow

(* A write() that returns to a client that refills the IO object has written  *)
(* every row the client means to write, each field as it was given, but: a    *)
(* row with the key of a later one; a row MySQL refuses, which LOCAL makes a  *)
(* warning nobody is told of (mysql/handle.cc:264-273); and what SQLite's     *)
(* loop makes of fields of one character and of \N                           *)
(* (sqlite3/handle.cc:214-240).                                             *)
WrittenAsGiven ==
  client.refills /\ said = "returned" =>
    \A i \in DOMAIN given :
      \/ driver = "sqlite3" /\ given[i].class \in {"one", "null"}
      \/ driver = "mysql" /\ given[i].class = "refused"
      \/ table[given[i].key] = AsWritten(given[i].class)
      \/ \E j \in (i + 1)..Len(given) : given[j].key = given[i].key

(* The count it returns is the number of rows written, for a client that      *)
(* refills the IO object and writes no key that is there already             *)
(* (mysql/handle.cc:258, mysql/handle.cc:273).                              *)
CountTrue ==
  client.refills /\ ~client.replaces /\ said = "returned" =>
    count = Cardinality({i \in DOMAIN given : given[i].class # "refused"})

(* A write() leaves nothing behind, in CopyInList or elsewhere, unless the IO *)
(* object threw: an entry that stayed would hold an IO object that is gone    *)
(* (mysql/common.cc:68-88, mysql/handle.cc:255-271, pg/handle.cc:322-334,    *)
(* sqlite3/handle.cc:231-242).                                              *)
NothingHeld == held <= thrown + (IF loading THEN 1 ELSE 0)
=============================================================================
