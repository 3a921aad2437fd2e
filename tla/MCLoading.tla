----------------------------- MODULE MCLoading ------------------------------
(***************************************************************************)
(* Loading a table: StringIO, the buffer a program fills with rows, and     *)
(* write(), which reads them from an IO object.  write() is modelled upon   *)
(* the queue that StringIO is shown to be, so the two are run side by side: *)
(* in a behaviour one of them moves, and the other rests.                   *)
(***************************************************************************)
EXTENDS StringIO, TLC

CONSTANTS Drivers, Keys, Classes, MaxRows, MaxThrown, Clients

VARIABLES part,   \* which one moves: "buffer" or "write"
          driver, client, table, before, io, given, loading, failing, count,
          copyIn, held, thrown, said

Bulk == INSTANCE BulkWrite

(* Of the clients that refill nothing, the one whose rows may be there.      *)
TestedClients == [refills: {TRUE}, replaces: BOOLEAN] \cup [refills: {FALSE}, replaces: {TRUE}]

ASSUME LoadingAssumption == StringIOAssumption /\ Bulk!BulkWriteAssumption

BufferRests == Init /\ InitEmpty /\ ended /\ short

BulkRests ==
  /\ Bulk!Init
  /\ driver = (CHOOSE d \in Drivers : TRUE) /\ client = (CHOOSE c \in Clients : TRUE)

InitSideBySide ==
  \/ part = "buffer" /\ Init /\ BulkRests
  \/ part = "write"  /\ Bulk!Init /\ BufferRests

NextSideBySide ==
  \/ /\ part = "buffer" /\ Next
     /\ UNCHANGED <<part, driver, client, table, before, io, given, loading, failing,
                    count, copyIn, held, thrown, said>>
  \/ /\ part = "write" /\ Bulk!Next
     /\ UNCHANGED <<part, ended, short, data, wpos, rpos, alloc, last>>

SpecSideBySide == InitSideBySide /\ [][NextSideBySide]_<<part, vars, Bulk!vars>>

(* Keys are interchangeable, and so are the bytes that are no newline.      *)
Symmetry == Permutations(Keys) \cup Permutations(Byte \ {Newline})

-----------------------------------------------------------------------------
(* The offsets of StringIO are numbers that count its bytes                  *)
(* (string_io.h:5-12), and write() is of its type.                          *)
BothTyped == TypeOK /\ Bulk!TypeOK

(* SQLite's loop loses no row, also when it throws and is called again:       *)
(* those read are in the table or refused (sqlite3/handle.cc:214-240).       *)
NoneLost == Bulk!NoneLost

(* A write() that returns to a client that refills the IO object has written  *)
(* what it was given, but for rows MySQL refuses and drops                   *)
(* (mysql/handle.cc:264-273), and for the short fields that SQLite's loop     *)
(* changes (sqlite3/handle.cc:214-240).                                      *)
WrittenAsGiven == Bulk!WrittenAsGiven

(* ... and counted it, if no key was there already (mysql/handle.cc:258,      *)
(* mysql/handle.cc:273).                                                   *)
CountTrue == Bulk!CountTrue

(* Nothing of a write() is left behind but by an IO object that threw        *)
(* (mysql/common.cc:68-88, pg/handle.cc:322-334).                           *)
NothingHeld == Bulk!NothingHeld
=============================================================================
