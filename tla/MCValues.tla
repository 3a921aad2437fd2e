------------------------------ MODULE MCValues ------------------------------
(***************************************************************************)
(* What has no state in common with anything else: the rewriting of         *)
(* placeholders, the reading of MySQL's binary rows, and the map of         *)
(* drivers.  They are run side by side: in a behaviour one of them moves,    *)
(* and the others rest.                                                     *)
(***************************************************************************)
EXTENDS Integers, Sequences

CONSTANTS Drivers, Calls, MaxLength, MaxValues,
          Results, Half, Misread,
          Dirs, Files, Kind, NameOf, Names, Contents, Packages

VARIABLES part,  \* which one moves: "query", "row" or "registry"
          driver, call, bound, values, query, text, rest, n, phase,
          fields, rows, place, rowno, j, nulls, bit, row, pool,
          client, present, drivers, opens, todo, scan, read, asked, live, denied

Query    == INSTANCE Placeholders
Row      == INSTANCE BinaryRow
Registry == INSTANCE DriverRegistry

ASSUME ValuesAssumption ==
  /\ Query!PlaceholdersAssumption /\ Row!BinaryRowAssumption
  /\ Registry!RegistryAssumption

-----------------------------------------------------------------------------
(* Results: one row of any two columns, each with values at the limits of    *)
(* its type, and two rows of as many columns as need two bytes of bitmap.    *)
(* Integers of four and eight bytes are as long as TLC's allow.              *)
TestedHalf == [w \in {1, 2, 4, 8} |-> CASE w = 1 -> 2^7 [] w = 2 -> 2^15 [] w = 4 -> 2^24
                                          [] w = 8 -> 2^29]

SignedOf(w) == {<<-TestedHalf[w]>>, <<-1>>, <<0>>, <<TestedHalf[w] - 1>>}

MostOf(w) == <<2 * TestedHalf[w] - 1>>

ValuesOf ==
  [TINY |-> SignedOf(1) \cup {MostOf(1)}, SHORT |-> SignedOf(2) \cup {MostOf(2)},
   LONG |-> SignedOf(4), LONGLONG |-> SignedOf(8),
   INT24 |-> {<<-1>>, <<0>>, <<3>>, <<251>>}, YEAR |-> {<<1901>>, <<2043>>, <<2044>>},
   FLOAT |-> {<<0, 1>>, <<6, 2>>, <<0, 31>>, <<0, 32>>}, DOUBLE |-> {<<6, 56>>, <<6, 57>>, <<7, 1>>},
   TIME |-> {<<0, 0, 0, 0>>, <<0, 2, 3, 0>>, <<1, 0, 2, 0>>, <<0, 0, 2, 5>>},
   DATE |-> {<<0>>, <<5>>},
   DATETIME |-> {<<0, 0, 0>>, <<5, 0, 0>>, <<5, 6, 0>>, <<5, 6, 7>>},
   STRING |-> {<<0>>, <<250>>, <<251>>, <<1023>>, <<1024>>, <<65535>>, <<65536>>,
              <<2^24>>}]

TestedColumns == {[type |-> t, values |-> ValuesOf[t]] : t \in DOMAIN ValuesOf}

TestedMisread == {-1, 0, 3}

Wide == [c \in 1..7 |-> [type |-> "STRING", values |-> {<<2>>}]]

TestedResults == {[fields |-> fs, count |-> 1] : fs \in [1..2 -> TestedColumns]}
                   \cup {[fields |-> Wide, count |-> 2]}

(* Two directories and five libraries, two of them drivers of one name: every *)
(* way to fill them without a file in common, one in which they are the same *)
(* (a program that runs in /usr), and one with a broken library.             *)
TestedFiles  == {"pg", "pg_too", "mysql", "other", "broken"}
TestedKind   == [f \in TestedFiles |-> CASE f = "other" -> "no_info" [] f = "broken" -> "no_connect"
                                        [] OTHER -> "driver"]
TestedNameOf == [f \in TestedFiles |-> IF f = "mysql" THEN "mysql" ELSE "postgresql"]

OwnDir     == "./lib/dbic++"
TestedDirs == {OwnDir, "/usr/lib/dbic++"}
Filled(own, default) == [d \in TestedDirs |-> IF d = OwnDir THEN own ELSE default]

TestedContents ==
  {Filled(own, default) : own \in SUBSET {"pg", "mysql", "other"},
                          default \in SUBSET {"pg_too", "other"}}
    \cup {Filled({"pg", "mysql"}, {"pg", "mysql"}), Filled({"pg_too", "broken"}, {"pg"})}

-----------------------------------------------------------------------------
QueryVars    == <<driver, call, bound, values, query, text, rest, n, phase>>
RowVars      == <<fields, rows, place, rowno, j, nulls, bit, row, pool>>
RegistryVars == <<client, present, drivers, opens, todo, scan, read, asked, live, denied>>

vars == <<part, Query!vars, Row!vars, Registry!vars>>

QueryRests ==
  /\ driver = (CHOOSE d \in Drivers : TRUE) /\ call = (CHOOSE c \in Calls : TRUE)
  /\ bound = FALSE /\ values = 0
  /\ query = <<Query!Plain("other")>> /\ text = query /\ rest = <<>> /\ n = 0 /\ phase = "run"

RowRests ==
  /\ LET r == CHOOSE r \in Results : TRUE
     IN  fields = r.fields /\ rows = [i \in 1..r.count |-> [c \in DOMAIN r.fields |-> Row!NULL]]
  /\ Row!Init

RegistryRests ==
  /\ client = [again |-> FALSE, installs |-> FALSE] /\ present = (CHOOSE c \in Contents : TRUE)
  /\ Registry!Init

Init ==
  \/ part = "query"    /\ Query!Init    /\ RowRests   /\ RegistryRests
  \/ part = "row"      /\ Row!Init      /\ QueryRests /\ RegistryRests
  \/ part = "registry" /\ Registry!Init /\ QueryRests /\ RowRests

Next ==
  \/ part = "query"    /\ Query!Next    /\ UNCHANGED <<part, RowVars, RegistryVars>>
  \/ part = "row"      /\ Row!Next      /\ UNCHANGED <<part, QueryVars, RegistryVars>>
  \/ part = "registry" /\ Registry!Next /\ UNCHANGED <<part, QueryVars, RowVars>>

Spec == Init /\ [][Next]_vars /\ Query!Fairness

-----------------------------------------------------------------------------
(* The state of each of the three is of its type (common.cc of each driver,   *)
(* binary_result.cc, dbic++.cc).                                           *)
TypeOK == Query!TypeOK /\ Row!TypeOK /\ Registry!TypeOK

(* What the server runs is what a careful client has written, each value in    *)
(* its place, and it is refused, or reads behind the values, only for their  *)
(* number.  MySQL counts neither what is interpolated nor what is bound, and *)
(* is exempted when the number is wrong (mysql/common.cc:13-60,             *)
(* mysql/statement.cc:34-58, pg/common.cc:17-37).                           *)
RunAsMeant == Query!RunAsMeant /\ Query!RefusedRightly

(* Rewriting ends, whatever the query (pg/common.cc:23-36,                   *)
(* mysql/common.cc:17-30).                                                 *)
RewritingEnds == Query!RewritingEnds

(* A field is read as the server has sent it, from where it has put it, into   *)
(* a buffer that holds it, as long as no column up to it is an INT24 or a    *)
(* YEAR, which have no function of their own, and if its function prints it  *)
(* whole (binary_result.cc:116-192, 240-307).                               *)
ReadAsSent == Row!ReadAsSent /\ Row!InStep /\ Row!BufferHolds

(* A driver that is used is loaded, if the map is filled once, no package is    *)
(* installed meanwhile, and no library is in two of the directories; and     *)
(* when the map is empty none is loaded, whatever the program does           *)
(* (dbic++.cc:52-72, dbic++.cc:88-97).                                      *)
LoadedWhileUsed == Registry!LoadedWhileUsed /\ Registry!NoneLeftLoaded

(* A driver that is denied is in no directory that was read, if none has a       *)
(* library without dbdConnect, where reading ends, and no package was        *)
(* installed meanwhile (dbic++.cc:111-119).                                 *)
DeniedRightly == Registry!DeniedRightly
=============================================================================
