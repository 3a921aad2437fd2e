----------------------------- MODULE Placeholders ----------------------------
(***************************************************************************)
(* How the drivers rewrite the placeholders of a query, ? and %d, %s and the *)
(* like, into what their servers take.  They do not parse the SQL: a         *)
(* placeholder is one that touches no quote, whether it is in a literal or   *)
(* not.  MySQL's execute() and aexecute() put the values in themselves, at   *)
(* every ?.                                                                 *)
(*                                                                         *)
(* A query is a sequence of tokens: "qmark" is a ?, "format" a %d or %s,      *)
(* "quote" a quote, "number" a $1 or $2 the code has put there, "value" one  *)
(* of the values bound, and "other" the rest.                               *)
(***************************************************************************)
EXTENDS Naturals, Sequences, SequencesExt, FiniteSetsExt

CONSTANTS Drivers,   \* "pg", "mysql", "sqlite3"
          Calls,     \* "execute", "aexecute", "prepare"
          MaxLength, \* of a query
          MaxValues

PlaceholdersAssumption ==
  /\ Drivers \subseteq {"pg", "mysql", "sqlite3"} /\ Drivers # {}
  /\ Calls \subseteq {"execute", "aexecute", "prepare"} /\ Calls # {}
  /\ MaxLength \in Nat /\ MaxValues \in Nat

VARIABLES driver, call,
          bound,   \* whether it is the overload with a list of values
          values,  \* how many
          query,   \* as the client has written it
          text,    \* the query being rewritten
          rest,    \* of the text, what is to be interpolated
          n,       \* values used so far
          phase

vars == <<driver, call, bound, values, query, text, rest, n, phase>>

Tokens      == [is: {"qmark", "format", "quote", "other", "number", "value"}, no: Nat]
Written     == [is: {"qmark", "format", "quote", "other"}, no: {0}]
Marks       == {"qmark", "format"}
Plain(k)    == [is |-> k, no |-> 0]
Value(i)    == [is |-> "value", no |-> i]
FromZero(i) == [is |-> "number", no |-> i - 1]
Number(i)   == [is |-> "number", no |-> i]

TypeOK ==
  /\ driver \in Drivers /\ call \in Calls /\ bound \in BOOLEAN /\ values \in 0..MaxValues
  /\ query \in Seq(Written) /\ text \in Seq(Tokens) /\ rest \in Seq(Tokens)
  /\ n \in Nat
  /\ phase \in {"rewriting", "interpolating", "at_server", "run", "refused", "crashed"}

InLiteral(s, i) == Cardinality({k \in 1..i - 1 : s[k].is = "quote"}) % 2 = 1

PlaceholdersOf(s) == {i \in DOMAIN s : s[i].is \in Marks /\ ~InLiteral(s, i)}
Rank(S, i)        == Cardinality({k \in S : k <= i})

Touches(s, i) == (i > 1 /\ s[i - 1].is = "quote") \/ (i < Len(s) /\ s[i + 1].is = "quote")

Queries ==
  {s \in SeqOf(Written, MaxLength) \ {<<>>} : ~InLiteral(s, Len(s) + 1)}

Preprocessed(d, c, b) == ~(d = "pg" /\ c = "execute" /\ ~b)
Interpolated          == driver = "mysql" /\ call # "prepare" /\ bound

Init ==
  /\ driver \in Drivers /\ call \in Calls /\ (driver = "sqlite3" => call # "aexecute")
  /\ bound \in BOOLEAN /\ values \in 0..MaxValues /\ (~bound => values = 0)
  /\ query \in Queries /\ text = query /\ rest = <<>>
  /\ n = 0
  /\ phase = IF Preprocessed(driver, call, bound) THEN "rewriting" ELSE "at_server"

-----------------------------------------------------------------------------
(* PQ_PREPROCESS_QUERY replaces the first mark by a number until there is     *)
(* none, MYSQL_ and SQLITE3_PREPROCESS_QUERY the first %d by a ?.            *)
AllMarks  == Marks
Rewritten == IF driver = "pg" THEN Marks ELSE {"format"}

Matches == {i \in DOMAIN text : text[i].is \in Rewritten /\ ~Touches(text, i)}

Replacement == IF driver = "pg" THEN Number(n + 1) ELSE Plain("qmark")

RewriteFirst ==
  /\ phase = "rewriting" /\ Matches # {}
  /\ text' = [text EXCEPT ![Min(Matches)] = Replacement]
  /\ n' = IF driver = "pg" THEN n + 1 ELSE n
  /\ UNCHANGED <<driver, call, bound, values, query, rest, phase>>

RewriteDone ==
  /\ phase = "rewriting" /\ Matches = {}
  /\ IF Interpolated THEN phase' = "interpolating" /\ text' = <<>> /\ rest' = text
                     ELSE phase' = "at_server" /\ UNCHANGED <<text, rest>>
  /\ n' = 0
  /\ UNCHANGED <<driver, call, bound, values, query>>

(* MYSQL_INTERPOLATE_BIND cuts the text at every ? and puts a value behind    *)
(* each part, as long as there are values; a last ? ends the last part.      *)
NextMark == LET marks == {i \in DOMAIN rest : rest[i].is = "qmark"} IN
            IF marks = {} THEN Len(rest) + 1 ELSE Min(marks)

OncePerPart == IF n < values THEN <<Value(n + 1)>> ELSE <<>>
NoLast      == IF n < values /\ NextMark < Len(rest) THEN <<Value(n + 1)>> ELSE <<>>
Behind      == OncePerPart

Interpolate ==
  /\ phase = "interpolating"
  /\ IF rest = <<>>
     THEN phase' = "run" /\ UNCHANGED <<text, rest, n>>
     ELSE /\ text' = text \o SubSeq(rest, 1, NextMark - 1) \o Behind
          /\ rest' = SubSeq(rest, NextMark + 1, Len(rest))
          /\ n' = IF n < values THEN n + 1 ELSE n
          /\ UNCHANGED phase
  /\ UNCHANGED <<driver, call, bound, values, query>>

(* The server parses the text, and takes the values by number, or in the      *)
(* order of the ?s outside literals.                                        *)
Slots == {i \in DOMAIN text : ~InLiteral(text, i) /\
            text[i].is = IF driver = "pg" THEN "number" ELSE "qmark"}

Parses ==
  /\ \A i \in Slots : driver = "pg" => text[i].no = Rank(Slots, i)
  /\ PlaceholdersOf(text) \subseteq Slots

(* Nobody counts the values bound for MySQL: mysql_stmt_bind_param takes as   *)
(* many as there are slots from the array, and what lies behind the array    *)
(* when there are fewer.  Whatever that is, it is no value of the client's,  *)
(* and may be refused, or be read as a pointer to nowhere.                   *)
Uncounted    == driver = "mysql" /\ bound
Overread     == Uncounted /\ Parses /\ values < Cardinality(Slots)
NobodysValue == Value(0)
Taken(r)     == IF r <= values THEN Value(r) ELSE NobodysValue

Serve ==
  /\ phase = "at_server"
  /\ \/ /\ Parses /\ (Uncounted \/ values = Cardinality(Slots))
        /\ phase' = "run"
        /\ text' = [i \in DOMAIN text |->
                      IF i \in Slots THEN Taken(Rank(Slots, i)) ELSE text[i]]
     \/ /\ ~Parses \/ (~Uncounted /\ values # Cardinality(Slots)) \/ Overread
        /\ phase' = "refused" /\ UNCHANGED text
     \/ Overread /\ phase' = "crashed" /\ UNCHANGED text
  /\ UNCHANGED <<driver, call, bound, values, query, rest, n>>

Next == RewriteFirst \/ RewriteDone \/ Interpolate \/ Serve

(* The code runs on until it returns or throws.                              *)
Fairness == WF_vars(Next)

Spec == Init /\ [][Next]_vars /\ Fairness

-----------------------------------------------------------------------------
(* The query with the values in their places, and its literals as they were.  *)
Meant == [i \in DOMAIN query |->
            IF i \in PlaceholdersOf(query)
            THEN Value(Rank(PlaceholdersOf(query), i)) ELSE query[i]]

(* The query of a careful client: what is in a literal and looks like a        *)
(* placeholder touches its quotes, and what is outside touches none; for     *)
(* MySQL no ? is in a literal.                                              *)
Careful ==
  \A i \in DOMAIN query :
    /\ query[i].is \in Marks => (InLiteral(query, i) <=> Touches(query, i))
    /\ driver = "mysql" /\ query[i].is = "qmark" => ~InLiteral(query, i)

Matching == values = Cardinality(PlaceholdersOf(query))

(* What the server runs is what a careful client has written, with the values *)
(* it has bound, each in its place, and where nobody counts them as many as   *)
(* there are places (mysql/common.cc:13-60, mysql/statement.cc:34-58,        *)
(* pg/common.cc:17-37).                                                     *)
RunAsMeant ==
  phase = "run" /\ Careful /\ (Uncounted => Matching) => Matching /\ text = Meant

(* A careful client's query is refused only for the number of its values, and *)
(* nothing is read behind them unless it is too small                        *)
(* (pg/statement.cc:13-30, pg/common.cc:17-37, mysql/statement.cc:34-58).    *)
RefusedRightly == phase \in {"refused", "crashed"} /\ Careful => ~Matching

(* The loops over the text end (pg/common.cc:23-36, mysql/common.cc:17-30).   *)
RewritingEnds == <>(phase \in {"run", "refused", "crashed"})
=============================================================================
