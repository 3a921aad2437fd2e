---------------------- MODULE DriverTransactionsProofs ----------------------
(***************************************************************************)
(* Facts about the statements and the link of SqlSession, and then about   *)
(* the outcomes of the drivers' transaction methods, which send them.      *)
(***************************************************************************)
EXTENDS DriverTransactions, TLAPS

(* Ending, committing, marking and rewinding a session yields a session.   *)
LEMMA SessionParts ==
  ASSUME NEW s \in Session
  PROVE  /\ Ended(s) \in Session
         /\ Committed(s) \in Session
         /\ Doomed(s) \in Session
         /\ Reached(s) \in Session
         /\ [s EXCEPT !.blk = "open"] \in Session
  BY DEF Session, Ended, Committed, Doomed, Reached

LEMMA SavepointParts ==
  ASSUME NEW s \in Session, NEW n \in Names
  PROVE  /\ Marked(n, s) \in Session
         /\ \A p \in Youngest(n, s) :
              p \in s.saves /\ Released(p, s) \in Session /\ Rewound(p, s) \in Session
<1>1. Marked(n, s) \in Session
  <2> DEFINE older == IF s.driver = "mysql" THEN {o \in s.saves : o.name # n} ELSE s.saves
             mark  == [name |-> n, age |-> s.clock, mark |-> s.pending]
  <2>1. mark \in Savepoint /\ older \subseteq Savepoint /\ s.clock + 1 \in Nat
    BY DEF Session, Savepoint
  <2>2. older \cup {mark} \in SUBSET Savepoint
    BY <2>1
  <2> HIDE DEF older, mark
  <2>3. [s EXCEPT !.saves = older \cup {mark}, !.clock = s.clock + 1] \in Session
    BY <2>1, <2>2 DEF Session
  <2> QED BY <2>3 DEF Marked, older, mark
<1>2. ASSUME NEW p \in Youngest(n, s)
      PROVE  p \in s.saves /\ Released(p, s) \in Session /\ Rewound(p, s) \in Session
  <2>1. p \in s.saves /\ p \in Savepoint
    BY <1>2 DEF Youngest, Session
  <2>2. p.age \in Nat /\ p.age + 1 \in Nat /\ p.mark \in SUBSET Work
    BY <2>1 DEF Savepoint
  <2>3. Released(p, s) \in Session
    BY <2>2 DEF Session, Released
  <2>4. Rewound(p, s) \in Session
    BY <2>2 DEF Session, Rewound
  <2> QED BY <2>1, <2>3, <2>4
<1> QED BY <1>1, <1>2

(* Every statement on a live link answers with a reply.                    *)
LEMMA StatementsReply ==
  ASSUME NEW s \in Session
  PROVE  /\ BeginStmt(s) \subseteq Reply
         /\ CommitStmt(s) \subseteq Reply
         /\ RollbackStmt(s) \subseteq Reply
         /\ \A n \in Names : /\ SavepointStmt(n, s) \subseteq Reply
                             /\ ReleaseStmt(n, s) \subseteq Reply
                             /\ RollbackToStmt(n, s) \subseteq Reply
         /\ \A w \in Work : WorkStmt(w, s) \subseteq Reply
<1>1. \A t \in Session : Ok(t) \in Reply /\ Refused(t) \in Reply /\ Lost(t) \in Reply
  BY DEF Reply, Ok, Refused, Lost
<1>2. BeginStmt(s) \subseteq Reply
  <2>1. [Committed(s) EXCEPT !.blk = "open"] \in Session
    BY SessionParts
  <2> QED BY <1>1, <2>1, SessionParts DEF BeginStmt
<1>3. CommitStmt(s) \subseteq Reply
  BY <1>1, SessionParts DEF CommitStmt, When
<1>4. RollbackStmt(s) \subseteq Reply
  BY <1>1, SessionParts DEF RollbackStmt
<1>5. ASSUME NEW n \in Names PROVE SavepointStmt(n, s) \subseteq Reply
  <2>1. [Marked(n, s) EXCEPT !.blk = "bare"] \in Session
    BY SavepointParts DEF Session
  <2> QED BY <1>1, <2>1, SessionParts, SavepointParts DEF SavepointStmt, When
<1>6. ASSUME NEW n \in Names PROVE ReleaseStmt(n, s) \subseteq Reply
  BY <1>1, <1>3, SessionParts, SavepointParts DEF ReleaseStmt
<1>7. ASSUME NEW n \in Names PROVE RollbackToStmt(n, s) \subseteq Reply
  BY <1>1, SessionParts, SavepointParts DEF RollbackToStmt
<1>8. ASSUME NEW w \in Work PROVE WorkStmt(w, s) \subseteq Reply
  <2>1. /\ [s EXCEPT !.pending = s.pending \cup {w}] \in Session
        /\ [s EXCEPT !.durable = s.durable \cup {w}] \in Session
    BY DEF Session
  <2> QED BY <1>1, <2>1, SessionParts DEF WorkStmt, When
<1> QED BY <1>2, <1>3, <1>4, <1>5, <1>6, <1>7, <1>8

LEMMA Relinking ==
  ASSUME NEW s \in Session, NEW l \in {"up", "down", "retry"}
  PROVE  [s EXCEPT !.link = l] \in Session
  BY DEF Session

LEMMA CutSession ==
  ASSUME NEW s, NEW t \in Session
  PROVE  Cut(s, t) \in Session
<1> DEFINE l == IF t.driver = "mysql" /\ ~InTx(s) THEN "retry" ELSE "down"
<1>1. l \in {"up", "down", "retry"} /\ Ended(t) \in Session
  BY SessionParts
<1> HIDE DEF l
<1>2. [Ended(t) EXCEPT !.link = l] \in Session
  BY <1>1, Relinking
<1> QED BY <1>2 DEF Cut, l

(* The link hands on a reply or reports a loss, itself a reply.            *)
LEMMA ExchangeReplies ==
  ASSUME NEW s \in Session, NEW R, R \subseteq Reply
  PROVE  Exchange(s, R) \subseteq Reply
<1>1. \A t \in Session : Lost(t) \in Reply
  BY DEF Reply, Lost
<1>2. \A t \in Session : Cut(s, t) \in Session
  BY CutSession
<1>3. \A t \in {s} \cup {r.s : r \in R} : t \in Session
  BY DEF Reply
<1>4. [s EXCEPT !.link = IF s.driver = "mysql" THEN "retry" ELSE "down"] \in Session
  BY DEF Session
<1> QED BY <1>1, <1>2, <1>3, <1>4 DEF Exchange, When

LEMMA SendsReply ==
  ASSUME NEW s \in Session
  PROVE  /\ SendBegin(s) \subseteq Reply
         /\ SendCommit(s) \subseteq Reply
         /\ SendRollback(s) \subseteq Reply
         /\ \A n \in Names : /\ SendSavepoint(n, s) \subseteq Reply
                             /\ SendRelease(n, s) \subseteq Reply
                             /\ SendRollbackTo(n, s) \subseteq Reply
         /\ \A w \in Work : SendWork(w, s) \subseteq Reply
  BY SessionParts, StatementsReply, ExchangeReplies
     DEF SendBegin, SendCommit, SendRollback, SendSavepoint, SendRelease,
         SendRollbackTo, SendWork

LEMMA ReopenReplies ==
  ASSUME NEW s \in Session
  PROVE  Reopen(s) \subseteq Reply
<1>1. /\ [Ended(s) EXCEPT !.link = "up"] \in Session
      /\ [Ended(s) EXCEPT !.link = "down"] \in Session
  BY SessionParts, Relinking
<1> QED BY <1>1 DEF Reopen, When, Ok, Lost, Reply
-----------------------------------------------------------------------------
(* What every session satisfies, whatever was sent to it: a transaction     *)
(* lives on a live link only, nothing is pending and no savepoint stands    *)
(* outside one, and savepoints are told apart by the order they were taken  *)
(* in.                                                                      *)
WellFormed(s) ==
  /\ s.link # "up" => s.blk = "idle"
  /\ s.blk = "idle" => s.pending = {} /\ s.saves = {}
  /\ \A p \in s.saves : p.age < s.clock
  /\ \A p, o \in s.saves : p.age = o.age => p = o

(* A session that came of s: well formed, and with all that s had stored.   *)
Follows(s, t) == t \in Session /\ WellFormed(t) /\ s.durable \subseteq t.durable

LEMMA EndedFollows ==
  ASSUME NEW s \in Session, WellFormed(s)
  PROVE  /\ Follows(s, s) /\ Follows(s, Ended(s)) /\ Follows(s, Committed(s))
         /\ Ended(s).blk = "idle" /\ Ended(s).durable = s.durable /\ Ended(s).link = s.link
         /\ Committed(s).blk = "idle" /\ Committed(s).link = s.link
         /\ Committed(s).durable = s.durable \cup s.pending
         /\ s.link = "up" => Follows(s, Doomed(s)) /\ Doomed(s).link = "up"
         /\ Doomed(s).durable = s.durable /\ (s.blk = "idle" => Doomed(s) = s)
<1>1. Follows(s, s)
  BY DEF Follows
<1>2. /\ Ended(s).blk = "idle" /\ Ended(s).durable = s.durable /\ Ended(s).link = s.link
      /\ Ended(s).saves = {} /\ Ended(s).pending = {}
  BY DEF Ended, Session
<1>3. Follows(s, Ended(s))
  BY <1>2, SessionParts DEF Follows, WellFormed
<1>4. /\ Committed(s).blk = "idle" /\ Committed(s).link = s.link
      /\ Committed(s).durable = s.durable \cup s.pending
      /\ Committed(s).saves = {} /\ Committed(s).pending = {}
  BY DEF Committed, Ended, Session
<1>5. Follows(s, Committed(s))
  BY <1>4, SessionParts DEF Follows, WellFormed
<1>6. /\ Doomed(s).durable = s.durable /\ (s.blk = "idle" => Doomed(s) = s)
      /\ Doomed(s).link = s.link /\ Doomed(s).saves = s.saves
      /\ Doomed(s).clock = s.clock /\ Doomed(s).pending = s.pending
      /\ Doomed(s).blk = "idle" => s.blk = "idle"
  BY DEF Doomed, Session
<1>7. s.link = "up" => Follows(s, Doomed(s))
  BY <1>6, SessionParts DEF Follows, WellFormed
<1> QED BY <1>1, <1>2, <1>3, <1>4, <1>5, <1>6, <1>7

LEMMA MarkedFollows ==
  ASSUME NEW s \in Session, WellFormed(s), s.blk # "idle", NEW n \in Names
  PROVE  /\ Follows(s, Marked(n, s)) /\ Marked(n, s).durable = s.durable
         /\ Marked(n, s).link = s.link /\ Marked(n, s).blk = s.blk
<1> DEFINE older == IF s.driver = "mysql" THEN {o \in s.saves : o.name # n} ELSE s.saves
           mark  == [name |-> n, age |-> s.clock, mark |-> s.pending]
<1>1. /\ Marked(n, s).durable = s.durable /\ Marked(n, s).link = s.link
      /\ Marked(n, s).blk = s.blk /\ Marked(n, s).saves = older \cup {mark}
      /\ Marked(n, s).clock = s.clock + 1
  BY DEF Marked, Session
<1>2. older \subseteq s.saves /\ mark.age = s.clock /\ s.clock \in Nat
  BY DEF Session
<1>3. \A p \in s.saves : p.age \in Nat /\ p.age < s.clock
  BY DEF Session, Savepoint, WellFormed
<1>4. \A p, o \in s.saves : p.age = o.age => p = o
  BY DEF WellFormed
<1> HIDE DEF older, mark
<1>5. \A p \in older \cup {mark} : p.age < s.clock + 1
  BY <1>2, <1>3
<1>6. \A p, o \in older \cup {mark} : p.age = o.age => p = o
  BY <1>2, <1>3, <1>4
<1>7. WellFormed(Marked(n, s))
  BY <1>1, <1>5, <1>6 DEF WellFormed
<1> QED BY <1>1, <1>7, SavepointParts DEF Follows

LEMMA ReleasedFollows ==
  ASSUME NEW s \in Session, WellFormed(s), s.blk # "idle", NEW n \in Names,
         NEW p \in Youngest(n, s)
  PROVE  /\ Follows(s, Released(p, s)) /\ Released(p, s).durable = s.durable
         /\ Released(p, s).link = s.link
         /\ Follows(s, Rewound(p, s)) /\ Rewound(p, s).durable = s.durable
         /\ Rewound(p, s).link = s.link
<1>1. p \in s.saves /\ p.age \in Nat
  BY SavepointParts DEF Session, Savepoint
<1>2. \A q \in s.saves : q.age \in Nat
  BY DEF Session, Savepoint
<1>3. /\ Released(p, s).durable = s.durable /\ Released(p, s).link = s.link
      /\ Released(p, s).blk = s.blk /\ Released(p, s).clock = p.age
      /\ Released(p, s).saves = {o \in s.saves : o.age < p.age}
  BY DEF Released, Session
<1>4. /\ Rewound(p, s).durable = s.durable /\ Rewound(p, s).link = s.link
      /\ Rewound(p, s).blk # "idle" /\ Rewound(p, s).clock = p.age + 1
      /\ Rewound(p, s).saves = {o \in s.saves : o.age <= p.age}
  BY DEF Rewound, Session
<1>5. WellFormed(Released(p, s))
  BY <1>3 DEF WellFormed
<1>6. \A o \in {q \in s.saves : q.age <= p.age} : o.age < p.age + 1
  BY <1>1, <1>2
<1>7. s.link = "up"
  BY DEF WellFormed
<1>8. WellFormed(Rewound(p, s))
  BY <1>4, <1>6, <1>7 DEF WellFormed
<1> QED BY <1>3, <1>4, <1>5, <1>8, SavepointParts DEF Follows

(* What each statement may answer on a live link: what it leaves stored,    *)
(* and, inside a transaction that has not failed, what it makes of it.     *)
OnLink(s) == s \in Session /\ WellFormed(s) /\ s.link = "up"

LEMMA BeginAnswers ==
  ASSUME NEW s, OnLink(s), NEW r \in BeginStmt(s)
  PROVE  /\ Follows(s, r.s)
         /\ s.blk = "idle" => /\ r.res = "ok" /\ r.s.durable = s.durable /\ r.s.blk = "open" /\ r.s.link = "up"
                              /\ r.s.saves = s.saves /\ r.s.pending = s.pending
<1> USE DEF OnLink
<1>1. \A t : Ok(t).s = t /\ Refused(t).s = t /\ Ok(t).res = "ok"
  BY DEF Ok, Refused
<1> DEFINE u == [s EXCEPT !.blk = "open"]
           v == [Committed(s) EXCEPT !.blk = "open"]
<1>2. ASSUME NEW t \in Session, WellFormed(t), t.link = "up", NEW x, x = [t EXCEPT !.blk = "open"]
      PROVE  /\ x.durable = t.durable /\ x.blk = "open" /\ x.link = "up"
             /\ x.saves = t.saves /\ x.pending = t.pending /\ Follows(t, x)
  <2>1. /\ x \in Session /\ x.durable = t.durable /\ x.blk = "open" /\ x.link = "up"
        /\ x.saves = t.saves /\ x.pending = t.pending /\ x.clock = t.clock
    BY <1>2 DEF Session
  <2> QED BY <2>1, <1>2 DEF Follows, WellFormed
<1>3. /\ u.durable = s.durable /\ u.blk = "open" /\ u.link = "up"
      /\ u.saves = s.saves /\ u.pending = s.pending /\ Follows(s, u)
  BY <1>2
<1>4. Committed(s) \in Session /\ WellFormed(Committed(s)) /\ Committed(s).link = "up"
      /\ s.durable \subseteq Committed(s).durable
  BY EndedFollows DEF Follows
<1>5. Follows(Committed(s), v)
  BY <1>2, <1>4
<1> HIDE DEF v
<1>6. Follows(s, v)
  BY <1>4, <1>5 DEF Follows
<1>7. CASE s.blk = "idle"
  <2>1. r = Ok(u)
    BY <1>7 DEF BeginStmt, InTx
  <2> HIDE DEF u
  <2>2. r.s = u /\ r.res = "ok"
    BY <2>1, <1>1
  <2> QED BY <2>2, <1>3 DEF u
<1>8. CASE s.blk # "idle"
  <2>1. r = Ok(v) \/ r = Ok(s) \/ r = Refused(s)
    BY <1>8 DEF BeginStmt, InTx, v
  <2>2. r.s = v \/ r.s = s
    BY <2>1, <1>1
  <2> QED BY <2>2, <1>8, <1>6, EndedFollows
<1> QED BY <1>7, <1>8

LEMMA CommitAnswers ==
  ASSUME NEW s, OnLink(s), NEW r \in CommitStmt(s)
  PROVE  /\ Follows(s, r.s)
         /\ r.s.durable = s.durable \/ r.s.durable = s.durable \cup s.pending
         /\ r.res # "ok" => r.s.durable = s.durable
         /\ r.res = "ok" => r.s.blk = "idle"
         /\ r.res = "ok" /\ s.blk # "failed" => r.s.durable = s.durable \cup s.pending
<1> USE DEF OnLink
<1>1. \A t : Ok(t).s = t /\ Refused(t).s = t /\ Ok(t).res = "ok" /\ Refused(t).res # "ok"
  BY DEF Ok, Refused
<1>2. \/ r \in {Refused(s), Refused(Ended(s))}
      \/ r = Ok(Committed(s)) /\ s.blk # "failed"
      \/ r = Ok(Ended(s)) /\ s.blk = "failed"
      \/ r = Ok(s) /\ s.blk = "idle"
  BY DEF CommitStmt, When
<1>3. s.blk = "idle" => s.durable \cup s.pending = s.durable
  BY DEF WellFormed
<1>4. CASE r \in {Refused(s), Refused(Ended(s))}
  BY <1>1, <1>4, EndedFollows
<1>5. CASE r = Ok(Committed(s)) /\ s.blk # "failed"
  BY <1>1, <1>5, EndedFollows
<1>6. CASE r = Ok(Ended(s)) /\ s.blk = "failed"
  BY <1>1, <1>6, EndedFollows
<1>7. CASE r = Ok(s) /\ s.blk = "idle"
  BY <1>1, <1>3, <1>7, EndedFollows
<1> QED BY <1>2, <1>4, <1>5, <1>6, <1>7

LEMMA RollbackAnswers ==
  ASSUME NEW s, OnLink(s), NEW r \in RollbackStmt(s)
  PROVE  Follows(s, r.s) /\ r.s.durable = s.durable /\ r.s.blk = "idle"
<1> USE DEF OnLink
<1>1. (r = Refused(s) /\ s.blk = "idle") \/ r = Ok(Ended(s))
  BY DEF RollbackStmt
<1>2. (r.s = s /\ s.blk = "idle") \/ r.s = Ended(s)
  BY <1>1 DEF Ok, Refused
<1> QED BY <1>2, EndedFollows

LEMMA SavepointAnswers ==
  ASSUME NEW s, OnLink(s), NEW n \in Names, NEW r \in SavepointStmt(n, s)
  PROVE  /\ Follows(s, r.s) /\ r.s.durable = s.durable
         /\ s.blk = "open" /\ r.res = "ok" => r.s = Marked(n, s)
<1> USE DEF OnLink
<1>1. \A t : Ok(t).s = t /\ Refused(t).s = t /\ Refused(t).res # "ok"
  BY DEF Ok, Refused
<1> DEFINE m == [s EXCEPT !.blk = "open"]
           u == [Marked(n, s) EXCEPT !.blk = "bare"]
<1>2. /\ u \in Session /\ u.durable = s.durable /\ u.blk = "bare" /\ u.link = "up"
      /\ u.saves = Marked(n, s).saves /\ u.clock = Marked(n, s).clock
      /\ u.pending = Marked(n, s).pending
  <2>1. Marked(n, s).durable = s.durable /\ Marked(n, s).link = s.link
    BY DEF Marked, Session
  <2> QED BY <2>1, SavepointParts DEF Session
<1>3. s.blk = "idle" => WellFormed(u)
  <2> SUFFICES ASSUME s.blk = "idle" PROVE WellFormed(u)
    OBVIOUS
  <2>1. s.saves = {}
    BY DEF WellFormed
  <2> DEFINE mark == [name |-> n, age |-> s.clock, mark |-> s.pending]
  <2>2. u.saves = {mark} /\ u.clock = s.clock + 1
    BY <1>2, <2>1 DEF Marked, Session
  <2>3. mark.age < s.clock + 1
    BY DEF Session
  <2> HIDE DEF mark, u
  <2> QED BY <1>2, <2>2, <2>3 DEF WellFormed
<1>4. s.blk = "idle" => Follows(s, u)
  BY <1>2, <1>3 DEF Follows
<1>5. CASE s.blk = "idle"
  <2>1. r \in {Ok(u), Ok(s), Refused(s)}
    BY <1>5 DEF SavepointStmt
  <2> HIDE DEF u
  <2> QED BY <2>1, <1>1, <1>2, <1>4, <1>5, EndedFollows
<1>6. CASE s.blk # "idle"
  <2>1. r \in {Refused(s), Refused(Doomed(s)), Ok(Marked(n, s))}
    BY <1>6 DEF SavepointStmt, When
  <2> QED BY <2>1, <1>1, <1>6, EndedFollows, MarkedFollows
<1> QED BY <1>5, <1>6

LEMMA ReleaseAnswers ==
  ASSUME NEW s, OnLink(s), NEW n \in Names, NEW r \in ReleaseStmt(n, s)
  PROVE  /\ Follows(s, r.s)
         /\ s.blk = "open" => r.s.durable = s.durable
         /\ s.blk = "open" /\ r.res = "ok" =>
              \E p \in Youngest(n, s) : r.s = Released(p, s)
<1> USE DEF OnLink
<1>1. \A t : Ok(t).s = t /\ Refused(t).s = t /\ Refused(t).res # "ok"
  BY DEF Ok, Refused
<1>2. CASE r = Refused(Doomed(s))
  BY <1>1, <1>2, EndedFollows
<1>3. CASE r # Refused(Doomed(s))
  <2>1. s.blk # "idle"
    BY <1>3 DEF ReleaseStmt
  <2>2. PICK p \in Youngest(n, s) : (s.blk = "bare" /\ r \in CommitStmt(s)) \/ r = Ok(Released(p, s))
    BY <1>3 DEF ReleaseStmt
  <2>3. CASE s.blk = "bare" /\ r \in CommitStmt(s)
    BY <2>3, CommitAnswers
  <2>4. CASE r = Ok(Released(p, s))
    BY <1>1, <2>1, <2>4, ReleasedFollows
  <2> QED BY <2>2, <2>3, <2>4
<1> QED BY <1>2, <1>3

LEMMA RollbackToAnswers ==
  ASSUME NEW s, OnLink(s), NEW n \in Names, NEW r \in RollbackToStmt(n, s)
  PROVE  /\ Follows(s, r.s) /\ r.s.durable = s.durable
         /\ r.res = "ok" => \E p \in Youngest(n, s) : r.s = Rewound(p, s)
<1> USE DEF OnLink
<1>1. \A t : Ok(t).s = t /\ Refused(t).s = t /\ Refused(t).res # "ok"
  BY DEF Ok, Refused
<1>2. CASE r = Refused(Doomed(s))
  BY <1>1, <1>2, EndedFollows
<1>3. CASE r # Refused(Doomed(s))
  <2>1. s.blk # "idle"
    BY <1>3 DEF RollbackToStmt
  <2>2. PICK p \in Youngest(n, s) : r = Ok(Rewound(p, s))
    BY <1>3 DEF RollbackToStmt
  <2> QED BY <1>1, <2>1, <2>2, ReleasedFollows
<1> QED BY <1>2, <1>3

LEMMA WorkAnswers ==
  ASSUME NEW s, OnLink(s), NEW w \in Work, NEW r \in WorkStmt(w, s)
  PROVE  /\ Follows(s, r.s)
         /\ s.blk # "idle" => r.s.durable = s.durable
         /\ s.blk = "open" /\ r.res = "ok" => r.s = [s EXCEPT !.pending = s.pending \cup {w}]
         /\ s.blk = "idle" => /\ r.s.blk = "idle"
                              /\ r.s.durable = s.durable \/ r.s.durable = s.durable \cup {w}
                              /\ r.res = "ok" => r.s.durable = s.durable \cup {w}
<1> USE DEF OnLink
<1>1. \A t : Ok(t).s = t /\ Refused(t).s = t /\ Refused(t).res # "ok"
  BY DEF Ok, Refused
<1> DEFINE u == [s EXCEPT !.pending = s.pending \cup {w}]
           v == [s EXCEPT !.durable = s.durable \cup {w}]
<1>2. /\ u \in Session /\ u.durable = s.durable /\ u.blk = s.blk /\ u.link = s.link
      /\ u.saves = s.saves /\ u.clock = s.clock
  BY DEF Session
<1>3. s.blk # "idle" => Follows(s, u)
  BY <1>2 DEF Follows, WellFormed
<1>4. /\ v \in Session /\ v.durable = s.durable \cup {w} /\ v.blk = s.blk /\ v.link = s.link
      /\ v.saves = s.saves /\ v.clock = s.clock /\ v.pending = s.pending
  BY DEF Session
<1>5. Follows(s, v)
  BY <1>4 DEF Follows, WellFormed
<1>6. \/ r \in {Refused(s), Refused(Doomed(s))}
      \/ r = Refused(Ended(s)) /\ s.blk # "idle"
      \/ r = Ok(u) /\ s.blk # "idle"
      \/ r = Ok(v) /\ s.blk = "idle"
  BY DEF WorkStmt, When, InTx
<1> HIDE DEF u, v
<1>7. CASE r \in {Refused(s), Refused(Doomed(s))}
  BY <1>1, <1>7, EndedFollows
<1>8. CASE r = Refused(Ended(s)) /\ s.blk # "idle"
  BY <1>1, <1>8, EndedFollows
<1>9. CASE r = Ok(u) /\ s.blk # "idle"
  BY <1>1, <1>2, <1>3, <1>9 DEF u
<1>10. CASE r = Ok(v) /\ s.blk = "idle"
  BY <1>1, <1>4, <1>5, <1>10
<1> QED BY <1>6, <1>7, <1>8, <1>9, <1>10

(* What an exchange brings back: a reply, over a link that is not down; or  *)
(* a loss, after which the server has carried the statement out or not.    *)
LEMMA ReachedOnLink ==
  ASSUME NEW s \in Session, WellFormed(s)
  PROVE  /\ Reached(s).blk = s.blk /\ Reached(s).saves = s.saves
         /\ Reached(s).pending = s.pending /\ Reached(s).durable = s.durable
         /\ Reached(s).clock = s.clock
         /\ s.link # "down" => OnLink(Reached(s))
         /\ s.link = "up" => Reached(s) = s
<1>1. /\ Reached(s).blk = s.blk /\ Reached(s).saves = s.saves
      /\ Reached(s).pending = s.pending /\ Reached(s).durable = s.durable
      /\ Reached(s).clock = s.clock
      /\ s.link # "down" => Reached(s).link = "up"
      /\ s.link = "up" => Reached(s) = s
  BY DEF Reached, Session
<1>2. s.link # "down" => WellFormed(Reached(s))
  BY <1>1 DEF WellFormed
<1> QED BY <1>1, <1>2, SessionParts DEF OnLink

LEMMA UnlinkedFollows ==
  ASSUME NEW s \in Session, WellFormed(s), s.link # "up", NEW l \in {"down", "retry"}
  PROVE  /\ Follows(s, [s EXCEPT !.link = l])
         /\ [s EXCEPT !.link = l].blk = "idle" /\ [s EXCEPT !.link = l].link # "up"
         /\ [s EXCEPT !.link = l].durable = s.durable
<1> DEFINE u == [s EXCEPT !.link = l]
<1>1. /\ u.blk = s.blk /\ u.saves = s.saves /\ u.clock = s.clock /\ u.link = l
      /\ u.pending = s.pending /\ u.durable = s.durable /\ u \in Session
  BY DEF Session
<1> HIDE DEF u
<1>2. Follows(s, u) /\ u.blk = "idle" /\ u.link # "up"
  BY <1>1 DEF Follows, WellFormed
<1> QED BY <1>1, <1>2 DEF u

LEMMA CutFollows ==
  ASSUME NEW s, NEW t \in Session, WellFormed(t)
  PROVE  /\ Follows(t, Cut(s, t)) /\ Cut(s, t).blk = "idle" /\ Cut(s, t).durable = t.durable
         /\ Cut(s, t).link # "up"
         /\ InTx(s) => Cut(s, t).link = "down"
<1> DEFINE l == IF t.driver = "mysql" /\ ~InTx(s) THEN "retry" ELSE "down"
<1>1. l \in {"down", "retry"} /\ (InTx(s) => l = "down")
  OBVIOUS
<1> DEFINE e == Ended(t)
<1>2. /\ e.blk = "idle" /\ e.durable = t.durable /\ e \in Session /\ e.saves = {} /\ e.pending = {}
  BY EndedFollows, SessionParts DEF Ended, Session
<1> HIDE DEF l, e
<1> DEFINE u == [e EXCEPT !.link = l]
<1>3. /\ u.blk = "idle" /\ u.durable = t.durable /\ u \in Session /\ u.saves = {} /\ u.pending = {}
      /\ u.link = l
  BY <1>1, <1>2 DEF Session
<1> HIDE DEF u
<1>4. Follows(t, u)
  BY <1>3 DEF Follows, WellFormed
<1> QED BY <1>1, <1>3, <1>4 DEF Cut, u, l, e

LEMMA Delivered ==
  ASSUME NEW s \in Session, WellFormed(s), NEW R, R \subseteq Reply, NEW r \in Exchange(s, R),
         s.link # "down" => \A q \in R : WellFormed(q.s) /\ s.durable \subseteq q.s.durable
  PROVE  \/ r \in R /\ s.link # "down"
         \/ /\ r.res = "lost" /\ Follows(s, r.s) /\ r.s.blk = "idle"
            /\ r.s.durable = s.durable \/ \E q \in R : s.link # "down" /\ r.s.durable = q.s.durable
<1>1. \A t : Lost(t).s = t /\ Lost(t).res = "lost"
  BY DEF Lost
<1>2. CASE s.link = "down"
  <2>1. r = Lost([s EXCEPT !.link = IF s.driver = "mysql" THEN "retry" ELSE "down"])
    BY <1>2 DEF Exchange
  <2>2. PICK l \in {"down", "retry"} : r = Lost([s EXCEPT !.link = l])
    BY <2>1
  <2> DEFINE u == [s EXCEPT !.link = l]
  <2>3. Follows(s, u) /\ u.blk = "idle" /\ u.durable = s.durable
    BY <1>2, UnlinkedFollows
  <2>4. r = Lost(u)
    BY <2>2
  <2> HIDE DEF u
  <2> QED BY <2>3, <2>4, <1>1
<1>3. CASE s.link # "down"
  <2>1. \/ r \in R
        \/ r = Lost(s) /\ s.link = "retry"
        \/ \E t \in {s} \cup {q.s : q \in R} : r = Lost(Cut(s, t))
    BY <1>3 DEF Exchange, When
  <2>2. CASE r = Lost(s) /\ s.link = "retry"
    BY <2>2, <1>1 DEF Follows, WellFormed
  <2>3. ASSUME NEW t \in {s} \cup {q.s : q \in R}, r = Lost(Cut(s, t))
        PROVE  /\ r.res = "lost" /\ Follows(s, r.s) /\ r.s.blk = "idle"
               /\ r.s.durable = s.durable \/ \E q \in R : s.link # "down" /\ r.s.durable = q.s.durable
    <3>1. t \in Session /\ WellFormed(t) /\ s.durable \subseteq t.durable
          /\ (t = s \/ \E q \in R : t = q.s)
      BY <1>3 DEF Reply
    <3>2. Follows(t, Cut(s, t)) /\ Cut(s, t).blk = "idle" /\ Cut(s, t).durable = t.durable
      BY <3>1, CutFollows
    <3>3. Follows(s, Cut(s, t))
      BY <3>1, <3>2 DEF Follows
    <3>4. r.res = "lost" /\ r.s = Cut(s, t)
      BY <1>1, <2>3
    <3> HIDE DEF Follows
    <3> QED BY <1>3, <3>1, <3>2, <3>3, <3>4
  <2> QED BY <1>3, <2>1, <2>2, <2>3
<1> QED BY <1>2, <1>3

(* What comes back for each statement, on whatever link.  A handle with     *)
(* open scopes is inside a transaction that has not failed, or has lost     *)
(* its connection; in the second case nothing it sends succeeds.           *)
InScope(s) == s.link = "down" \/ (s.link = "up" /\ s.blk = "open")

LEMMA BeginReturns ==
  ASSUME NEW s \in Session, WellFormed(s), s.blk = "idle", NEW r \in SendBegin(s)
  PROVE  /\ Follows(s, r.s) /\ r.s.durable = s.durable
         /\ r.res = "ok" => OnLink(r.s) /\ r.s.blk = "open" /\ r.s.pending = {} /\ r.s.saves = {}
         /\ r.res # "ok" => r.s.blk = "idle"
<1> DEFINE t == Reached(s)
           R == BeginStmt(t)
<1>1. /\ t.blk = "idle" /\ t.durable = s.durable /\ t.saves = {} /\ t.pending = {}
      /\ s.link # "down" => OnLink(t)
  BY ReachedOnLink DEF WellFormed
<1>2. R \subseteq Reply
  BY SessionParts, StatementsReply
<1>3. s.link # "down" =>
        \A q \in R : /\ Follows(t, q.s) /\ q.res = "ok" /\ q.s.blk = "open" /\ q.s.link = "up"
                     /\ q.s.durable = t.durable /\ q.s.saves = {} /\ q.s.pending = {}
  BY <1>1, BeginAnswers
<1> HIDE DEF t, R
<1>4. s.link # "down" =>
        \A q \in R : /\ OnLink(q.s) /\ q.res = "ok" /\ q.s.blk = "open" /\ WellFormed(q.s)
                     /\ q.s.durable = s.durable /\ q.s.saves = {} /\ q.s.pending = {}
                     /\ Follows(s, q.s)
  BY <1>1, <1>3 DEF OnLink, Follows
<1>5. r \in Exchange(s, R)
  BY DEF SendBegin, t, R
<1>6. \/ r \in R /\ s.link # "down"
      \/ /\ r.res = "lost" /\ Follows(s, r.s) /\ r.s.blk = "idle"
         /\ r.s.durable = s.durable \/ \E q \in R : s.link # "down" /\ r.s.durable = q.s.durable
  BY <1>2, <1>4, <1>5, Delivered
<1> QED BY <1>4, <1>6

LEMMA CommitReturns ==
  ASSUME NEW s \in Session, WellFormed(s), NEW r \in SendCommit(s)
  PROVE  /\ Follows(s, r.s)
         /\ r.s.durable = s.durable \/ r.s.durable = s.durable \cup s.pending
         /\ r.res \notin {"ok", "lost"} => r.s.durable = s.durable
         /\ r.res = "ok" => r.s.blk = "idle" /\ s.link # "down"
         /\ r.res = "ok" /\ s.blk # "failed" => r.s.durable = s.durable \cup s.pending
<1> DEFINE t == Reached(s)
           R == CommitStmt(t)
<1>1. /\ t.blk = s.blk /\ t.durable = s.durable /\ t.pending = s.pending
      /\ s.link # "down" => OnLink(t)
  BY ReachedOnLink
<1>2. R \subseteq Reply
  BY SessionParts, StatementsReply
<1>3. s.link # "down" =>
        \A q \in R : /\ Follows(t, q.s)
                     /\ q.s.durable = t.durable \/ q.s.durable = t.durable \cup t.pending
                     /\ q.res # "ok" => q.s.durable = t.durable
                     /\ q.res = "ok" => q.s.blk = "idle"
                     /\ q.res = "ok" /\ t.blk # "failed" => q.s.durable = t.durable \cup t.pending
  BY <1>1, CommitAnswers
<1> HIDE DEF t, R
<1>4. s.link # "down" =>
        \A q \in R : /\ Follows(s, q.s) /\ WellFormed(q.s) /\ s.durable \subseteq q.s.durable
                     /\ q.s.durable = s.durable \/ q.s.durable = s.durable \cup s.pending
                     /\ q.res # "ok" => q.s.durable = s.durable
                     /\ q.res = "ok" => q.s.blk = "idle"
                     /\ q.res = "ok" /\ s.blk # "failed" => q.s.durable = s.durable \cup s.pending
  BY <1>1, <1>3 DEF Follows
<1>5. r \in Exchange(s, R)
  BY DEF SendCommit, t, R
<1>6. \/ r \in R /\ s.link # "down"
      \/ /\ r.res = "lost" /\ Follows(s, r.s) /\ r.s.blk = "idle"
         /\ r.s.durable = s.durable \/ \E q \in R : s.link # "down" /\ r.s.durable = q.s.durable
  BY <1>2, <1>4, <1>5, Delivered
<1> QED BY <1>4, <1>6

LEMMA RollbackReturns ==
  ASSUME NEW s \in Session, WellFormed(s), NEW r \in SendRollback(s)
  PROVE  Follows(s, r.s) /\ r.s.durable = s.durable /\ r.s.blk = "idle"
<1> DEFINE t == Reached(s)
           R == RollbackStmt(t)
<1>1. t.durable = s.durable /\ (s.link # "down" => OnLink(t))
  BY ReachedOnLink
<1>2. R \subseteq Reply
  BY SessionParts, StatementsReply
<1>3. s.link # "down" =>
        \A q \in R : Follows(t, q.s) /\ q.s.durable = t.durable /\ q.s.blk = "idle"
  BY <1>1, RollbackAnswers
<1> HIDE DEF t, R
<1>4. s.link # "down" =>
        \A q \in R : /\ Follows(s, q.s) /\ WellFormed(q.s) /\ q.s.durable = s.durable
                     /\ q.s.blk = "idle"
  BY <1>1, <1>3 DEF Follows
<1>5. r \in Exchange(s, R)
  BY DEF SendRollback, t, R
<1>6. \/ r \in R /\ s.link # "down"
      \/ /\ r.res = "lost" /\ Follows(s, r.s) /\ r.s.blk = "idle"
         /\ r.s.durable = s.durable \/ \E q \in R : s.link # "down" /\ r.s.durable = q.s.durable
  BY <1>2, <1>4, <1>5, Delivered
<1> QED BY <1>4, <1>6

LEMMA SavepointReturns ==
  ASSUME NEW s \in Session, WellFormed(s), NEW n \in Names, NEW r \in SendSavepoint(n, s)
  PROVE  /\ Follows(s, r.s) /\ r.s.durable = s.durable
         /\ InScope(s) /\ r.res = "ok" => s.link = "up" /\ s.blk = "open" /\ r.s = Marked(n, s)
<1> DEFINE t == Reached(s)
           R == SavepointStmt(n, t)
<1>1. /\ t.durable = s.durable /\ t.blk = s.blk /\ (s.link # "down" => OnLink(t))
      /\ s.link = "up" => t = s
  BY ReachedOnLink
<1>2. R \subseteq Reply
  BY SessionParts, StatementsReply
<1>3. s.link # "down" =>
        \A q \in R : /\ Follows(t, q.s) /\ q.s.durable = t.durable
                     /\ t.blk = "open" /\ q.res = "ok" => q.s = Marked(n, t)
  BY <1>1, SavepointAnswers
<1> HIDE DEF t, R
<1>4. s.link # "down" =>
        \A q \in R : /\ Follows(s, q.s) /\ WellFormed(q.s) /\ q.s.durable = s.durable
                     /\ InScope(s) /\ q.res = "ok" =>
                          s.link = "up" /\ s.blk = "open" /\ q.s = Marked(n, s)
  BY <1>1, <1>3 DEF Follows, InScope
<1>5. r \in Exchange(s, R)
  BY DEF SendSavepoint, t, R
<1>6. \/ r \in R /\ s.link # "down"
      \/ /\ r.res = "lost" /\ Follows(s, r.s) /\ r.s.blk = "idle"
         /\ r.s.durable = s.durable \/ \E q \in R : s.link # "down" /\ r.s.durable = q.s.durable
  BY <1>2, <1>4, <1>5, Delivered
<1> QED BY <1>4, <1>6

LEMMA ReleaseReturns ==
  ASSUME NEW s \in Session, WellFormed(s), InScope(s), NEW n \in Names, NEW r \in SendRelease(n, s)
  PROVE  /\ Follows(s, r.s) /\ r.s.durable = s.durable
         /\ r.res = "ok" => /\ s.link = "up" /\ s.blk = "open"
                            /\ \E p \in Youngest(n, s) : r.s = Released(p, s)
<1> DEFINE t == Reached(s)
           R == ReleaseStmt(n, t)
<1>1. /\ t.durable = s.durable /\ t.blk = s.blk /\ (s.link # "down" => OnLink(t))
      /\ s.link = "up" => t = s
  BY ReachedOnLink
<1>2. R \subseteq Reply
  BY SessionParts, StatementsReply
<1>3. s.link # "down" =>
        \A q \in R : /\ Follows(t, q.s)
                     /\ t.blk = "open" => q.s.durable = t.durable
                     /\ t.blk = "open" /\ q.res = "ok" => \E p \in Youngest(n, t) : q.s = Released(p, t)
  BY <1>1, ReleaseAnswers
<1> HIDE DEF t, R
<1>4. s.link # "down" => s.link = "up" /\ s.blk = "open" /\ t = s
  BY <1>1 DEF InScope
<1>5. s.link # "down" =>
        \A q \in R : /\ Follows(s, q.s) /\ WellFormed(q.s) /\ q.s.durable = s.durable
                     /\ q.res = "ok" => \E p \in Youngest(n, s) : q.s = Released(p, s)
  BY <1>3, <1>4 DEF Follows
<1>6. r \in Exchange(s, R)
  BY DEF SendRelease, t, R
<1>7. \/ r \in R /\ s.link # "down"
      \/ /\ r.res = "lost" /\ Follows(s, r.s) /\ r.s.blk = "idle"
         /\ r.s.durable = s.durable \/ \E q \in R : s.link # "down" /\ r.s.durable = q.s.durable
  BY <1>2, <1>5, <1>6, Delivered
<1> QED BY <1>4, <1>5, <1>7

LEMMA RollbackToReturns ==
  ASSUME NEW s \in Session, WellFormed(s), InScope(s), NEW n \in Names, NEW r \in SendRollbackTo(n, s)
  PROVE  /\ Follows(s, r.s) /\ r.s.durable = s.durable
         /\ r.res = "ok" => /\ s.link = "up" /\ s.blk = "open"
                            /\ \E p \in Youngest(n, s) : r.s = Rewound(p, s)
<1> DEFINE t == Reached(s)
           R == RollbackToStmt(n, t)
<1>1. /\ t.durable = s.durable /\ t.blk = s.blk /\ (s.link # "down" => OnLink(t))
      /\ s.link = "up" => t = s
  BY ReachedOnLink
<1>2. R \subseteq Reply
  BY SessionParts, StatementsReply
<1>3. s.link # "down" =>
        \A q \in R : /\ Follows(t, q.s) /\ q.s.durable = t.durable
                     /\ q.res = "ok" => \E p \in Youngest(n, t) : q.s = Rewound(p, t)
  BY <1>1, RollbackToAnswers
<1> HIDE DEF t, R
<1>4. s.link # "down" => s.link = "up" /\ s.blk = "open" /\ t = s
  BY <1>1 DEF InScope
<1>5. s.link # "down" =>
        \A q \in R : /\ Follows(s, q.s) /\ WellFormed(q.s) /\ q.s.durable = s.durable
                     /\ q.res = "ok" => \E p \in Youngest(n, s) : q.s = Rewound(p, s)
  BY <1>3, <1>4 DEF Follows
<1>6. r \in Exchange(s, R)
  BY DEF SendRollbackTo, t, R
<1>7. \/ r \in R /\ s.link # "down"
      \/ /\ r.res = "lost" /\ Follows(s, r.s) /\ r.s.blk = "idle"
         /\ r.s.durable = s.durable \/ \E q \in R : s.link # "down" /\ r.s.durable = q.s.durable
  BY <1>2, <1>5, <1>6, Delivered
<1> QED BY <1>4, <1>5, <1>7

LEMMA WorkReturns ==
  ASSUME NEW s \in Session, WellFormed(s), NEW w \in Work, NEW r \in SendWork(w, s)
  PROVE  /\ Follows(s, r.s)
         /\ InScope(s) => r.s.durable = s.durable
         /\ InScope(s) /\ r.res = "ok" => /\ s.link = "up" /\ s.blk = "open"
                                          /\ r.s = [s EXCEPT !.pending = s.pending \cup {w}]
         /\ s.blk = "idle" => /\ r.s.blk = "idle"
                              /\ r.s.durable = s.durable \/ r.s.durable = s.durable \cup {w}
                              /\ r.res = "ok" => r.s.durable = s.durable \cup {w}
<1> DEFINE t == Reached(s)
           R == WorkStmt(w, t)
<1>1. /\ t.durable = s.durable /\ t.blk = s.blk /\ (s.link # "down" => OnLink(t))
      /\ s.link = "up" => t = s
  BY ReachedOnLink
<1>2. R \subseteq Reply
  BY SessionParts, StatementsReply
<1>3. s.link # "down" =>
        \A q \in R :
          /\ Follows(t, q.s)
          /\ t.blk # "idle" => q.s.durable = t.durable
          /\ t.blk = "open" /\ q.res = "ok" => q.s = [t EXCEPT !.pending = t.pending \cup {w}]
          /\ t.blk = "idle" => /\ q.s.blk = "idle"
                               /\ q.s.durable = t.durable \/ q.s.durable = t.durable \cup {w}
                               /\ q.res = "ok" => q.s.durable = t.durable \cup {w}
  BY <1>1, WorkAnswers
<1> HIDE DEF t, R
<1>4. s.link # "down" /\ InScope(s) => s.link = "up" /\ s.blk = "open" /\ t = s
  BY <1>1 DEF InScope
<1>5. s.link # "down" =>
        \A q \in R :
          /\ Follows(s, q.s) /\ WellFormed(q.s) /\ s.durable \subseteq q.s.durable
          /\ s.blk = "idle" => /\ q.s.blk = "idle"
                               /\ q.s.durable = s.durable \/ q.s.durable = s.durable \cup {w}
                               /\ q.res = "ok" => q.s.durable = s.durable \cup {w}
  BY <1>1, <1>3 DEF Follows
<1>6. s.link # "down" /\ InScope(s) =>
        \A q \in R : /\ q.s.durable = s.durable
                     /\ q.res = "ok" => q.s = [s EXCEPT !.pending = s.pending \cup {w}]
  <2> SUFFICES ASSUME s.link # "down" /\ InScope(s) , NEW q \in R
               PROVE  /\ q.s.durable = s.durable
                      /\ q.res = "ok" => q.s = [s EXCEPT !.pending = s.pending \cup {w}]
    OBVIOUS
  <2> QED BY <1>3, <1>4
<1>7. r \in Exchange(s, R)
  BY DEF SendWork, t, R
<1>8. \/ r \in R /\ s.link # "down"
      \/ /\ r.res = "lost" /\ Follows(s, r.s) /\ r.s.blk = "idle"
         /\ r.s.durable = s.durable \/ \E q \in R : s.link # "down" /\ r.s.durable = q.s.durable
  BY <1>2, <1>5, <1>7, Delivered
<1>9. CASE r \in R /\ s.link # "down"
  BY <1>4, <1>5, <1>6, <1>9
<1>10. CASE /\ r.res = "lost" /\ Follows(s, r.s) /\ r.s.blk = "idle"
            /\ r.s.durable = s.durable \/ \E q \in R : s.link # "down" /\ r.s.durable = q.s.durable
  BY <1>5, <1>6, <1>10
<1> QED BY <1>8, <1>9, <1>10

LEMMA ReopenReturns ==
  ASSUME NEW s \in Session, WellFormed(s), NEW r \in Reopen(s)
  PROVE  Follows(s, r.s) /\ r.s.durable = s.durable /\ r.s.blk = "idle"
<1> DEFINE e == Ended(s)
<1>1. /\ e \in Session /\ e.blk = "idle" /\ e.durable = s.durable /\ e.saves = {} /\ e.pending = {}
  BY SessionParts, EndedFollows DEF Ended, Session
<1> HIDE DEF e
<1>2. ASSUME NEW l \in {"up", "down"}, NEW u, u = [e EXCEPT !.link = l]
      PROVE  Follows(s, u) /\ u.durable = s.durable /\ u.blk = "idle"
  <2>1. /\ u.blk = "idle" /\ u.durable = s.durable /\ u \in Session /\ u.saves = {} /\ u.pending = {}
    BY <1>1, <1>2 DEF Session
  <2> QED BY <2>1 DEF Follows, WellFormed
<1>3. \/ r.s = [e EXCEPT !.link = "up"]
      \/ r.s = [e EXCEPT !.link = "down"]
  BY DEF Reopen, Ok, Lost, When, e
<1> QED BY <1>2, <1>3

(* RELEASE and ROLLBACK TO find the savepoint they are meant for.  A new    *)
(* savepoint is the youngest of its name and hides no other name's; one    *)
(* released takes with it only savepoints younger than itself, one         *)
(* returned to keeps itself as well.                                       *)
LEMMA YoungestOfMarked ==
  ASSUME NEW s \in Session, WellFormed(s), NEW n \in Names
  PROVE  /\ \A m \in Names \ {n} : Youngest(m, Marked(n, s)) = Youngest(m, s)
         /\ \A p \in Youngest(n, Marked(n, s)) : p.age = s.clock
         /\ \E p \in Youngest(n, Marked(n, s)) : p.mark = s.pending
         /\ \A m \in Names : \A p \in Youngest(m, s) : p.age < s.clock
<1> DEFINE older == IF s.driver = "mysql" THEN {o \in s.saves : o.name # n} ELSE s.saves
           new   == [name |-> n, age |-> s.clock, mark |-> s.pending]
<1>1. Marked(n, s).saves = older \cup {new}
  BY DEF Marked, Session
<1>2. /\ older \subseteq s.saves /\ new.age = s.clock /\ new.name = n /\ new.mark = s.pending
      /\ \A o \in s.saves : o.name # n => o \in older
  OBVIOUS
<1>3. s.clock \in Nat /\ \A p \in s.saves : p.age \in Nat /\ p.age < s.clock
  BY DEF WellFormed, Session, Savepoint
<1> HIDE DEF older, new
<1>4. ASSUME NEW m \in Names \ {n} PROVE Youngest(m, Marked(n, s)) = Youngest(m, s)
  <2>1. \A o : o \in older \cup {new} /\ o.name = m <=> o \in s.saves /\ o.name = m
    BY <1>2
  <2> QED BY <1>1, <2>1 DEF Youngest
<1>5. new \in Youngest(n, Marked(n, s))
  <2>1. \A o \in older \cup {new} : o.age <= new.age
    BY <1>2, <1>3
  <2> QED BY <1>1, <1>2, <2>1 DEF Youngest
<1>6. ASSUME NEW p \in Youngest(n, Marked(n, s)) PROVE p.age = s.clock
  <2>1. p \in older \cup {new} /\ new.age <= p.age
    BY <1>1, <1>2 DEF Youngest
  <2> QED BY <1>2, <1>3, <2>1
<1>7. \A m \in Names : \A p \in Youngest(m, s) : p.age < s.clock
  BY <1>3 DEF Youngest
<1> QED BY <1>2, <1>4, <1>5, <1>6, <1>7

LEMMA YoungestKept ==
  ASSUME NEW s \in Session, WellFormed(s), NEW n \in Names, NEW p \in Youngest(n, s),
         NEW m \in Names, NEW x \in Youngest(m, s), x.age < p.age,
         NEW t, t.saves = {o \in s.saves : o.age < p.age} \/ t.saves = {o \in s.saves : o.age <= p.age}
  PROVE  Youngest(m, t) = Youngest(m, s)
<1>1. \A o \in s.saves : o.age \in Nat
  BY DEF Session, Savepoint
<1>2. p \in s.saves /\ x \in s.saves /\ x \in t.saves /\ t.saves \subseteq s.saves
      /\ x.name = m /\ \A o \in s.saves : o.name = m => o.age <= x.age
  BY <1>1 DEF Youngest
<1>3. \A o \in s.saves : o.age = x.age => o = x
  BY <1>2 DEF WellFormed
<1>4. Youngest(m, s) = {x}
  <2>1. \A o \in Youngest(m, s) : o.age = x.age /\ o \in s.saves
    BY <1>1, <1>2 DEF Youngest
  <2> QED BY <1>3, <2>1
<1>5. Youngest(m, t) = {x}
  <2>1. x \in Youngest(m, t)
    BY <1>2 DEF Youngest
  <2>2. \A o \in Youngest(m, t) : o.age = x.age /\ o \in s.saves
    BY <1>1, <1>2 DEF Youngest
  <2> QED BY <1>3, <2>1, <2>2
<1> QED BY <1>4, <1>5

-----------------------------------------------------------------------------
(* The outcome of a driver call is an outcome: no call leaves the session   *)
(* or the counter in a state the next call does not expect.                *)
LEMMA CountedOutcome ==
  ASSUME NEW i \in Int, NEW j \in Int, NEW R, R \subseteq Reply
  PROVE  Counted(i, j, R) \subseteq Outcome
  BY DEF Counted, Reply, Outcome

LEMMA DriverOutcomes ==
  ASSUME NEW k \in Int, NEW s \in Session
  PROVE  /\ DriverBegin(k, s) \subseteq Outcome
         /\ DriverCommit(k, s) \subseteq Outcome
         /\ DriverRollback(k, s) \subseteq Outcome
         /\ DriverReconnect(k, s) \subseteq Outcome
         /\ \A n \in Names : /\ DriverBeginNamed(n, k, s) \subseteq Outcome
                             /\ DriverCommitNamed(n, k, s) \subseteq Outcome
                             /\ DriverRollbackNamed(n, k, s) \subseteq Outcome
<1>0. /\ 0 \in Int /\ k + 1 \in Int /\ k - 1 \in Int
      /\ \A o \in Outcome : o.s \in Session /\ o.nest \in Int /\ o.nest + 1 \in Int
  BY DEF Outcome
<1>1. DriverBegin(k, s) \subseteq Outcome
  BY <1>0, SendsReply, CountedOutcome DEF DriverBegin
<1>2. \A t \in Session, j \in Int : DriverCommit(j, t) \subseteq Outcome /\ DriverRollback(j, t) \subseteq Outcome
  BY <1>0, SendsReply, CountedOutcome DEF DriverCommit, DriverRollback
<1>4. ASSUME NEW n \in Names PROVE DriverBeginNamed(n, k, s) \subseteq Outcome
  <2> DEFINE opened == IF k = 0 THEN Counted(0, 0, SendBegin(s))
                       ELSE {[res |-> "ok", nest |-> k, s |-> s]}
  <2>1. opened \subseteq Outcome
    BY <1>0, SendsReply, CountedOutcome DEF Outcome
  <2>2. \A o \in opened : Counted(o.nest, o.nest + 1, SendSavepoint(n, o.s)) \subseteq Outcome
    BY <2>1, <1>0, SendsReply, CountedOutcome
  <2> HIDE DEF opened
  <2>3. {o \in opened : o.res # "ok"}
      \cup UNION {Counted(o.nest, o.nest + 1, SendSavepoint(n, o.s))
                    : o \in {q \in opened : q.res = "ok"}} \subseteq Outcome
    BY <2>1, <2>2
  <2> QED BY <2>3 DEF DriverBeginNamed, opened
<1>5. ASSUME NEW n \in Names PROVE DriverCommitNamed(n, k, s) \subseteq Outcome
  <2>1. Counted(k, k - 1, SendRelease(n, s)) \subseteq Outcome
    BY <1>0, SendsReply, CountedOutcome
  <2> QED BY <2>1, <1>0, <1>2 DEF DriverCommitNamed
<1>6. ASSUME NEW n \in Names PROVE DriverRollbackNamed(n, k, s) \subseteq Outcome
  <2>1. Counted(k, k - 1, SendRollbackTo(n, s)) \subseteq Outcome
    BY <1>0, SendsReply, CountedOutcome
  <2> QED BY <2>1, <1>0, <1>2 DEF DriverRollbackNamed
<1>7. DriverReconnect(k, s) \subseteq Outcome
  <2>1. Ok(Reached(s)) \in Reply
    <3>1. Reached(s) \in Session
      BY SessionParts
    <3> QED BY <3>1 DEF Ok, Reply
  <2>2. [res |-> "lost", nest |-> k, s |-> s] \in Outcome
    BY DEF Outcome
  <2> QED BY <2>1, <2>2, <1>0, CountedOutcome, ReopenReplies, ExchangeReplies
      DEF DriverReconnect, PgReconnect, MySqlReconnect, Sqlite3Reconnect
<1> QED BY <1>1, <1>2, <1>4, <1>5, <1>6, <1>7

LEMMA OutcomeTyped ==
  ASSUME NEW k \in Int, NEW s \in Session
  PROVE  /\ \A o \in DriverBegin(k, s) \cup DriverCommit(k, s) \cup DriverRollback(k, s)
                     \cup DriverReconnect(k, s) : o.nest \in Int /\ o.s \in Session
         /\ \A n \in Names : \A o \in DriverBeginNamed(n, k, s) \cup DriverCommitNamed(n, k, s)
                                     \cup DriverRollbackNamed(n, k, s) :
              o.nest \in Int /\ o.s \in Session
  BY DriverOutcomes DEF Outcome

-----------------------------------------------------------------------------
(* What each method leaves behind, called as the careful client calls it.  *)

LEMMA CountedReply ==
  ASSUME NEW i, NEW j, NEW R, NEW o \in Counted(i, j, R)
  PROVE  \E r \in R : o.res = r.res /\ o.s = r.s /\ o.nest = (IF r.res = "ok" THEN j ELSE i)
  BY DEF Counted

LEMMA DriverBeginLeaves ==
  ASSUME NEW s \in Session, WellFormed(s), s.blk = "idle", NEW k \in Int, NEW o \in DriverBegin(k, s)
  PROVE  /\ Follows(s, o.s) /\ o.s.durable = s.durable
         /\ o.res = "ok" => /\ o.nest = k + 1 /\ OnLink(o.s)
                            /\ o.s.blk = "open" /\ o.s.pending = {} /\ o.s.saves = {}
         /\ o.res # "ok" => o.nest = k /\ o.s.blk = "idle"
<1>1. PICK r \in SendBegin(s) :
        o.res = r.res /\ o.s = r.s /\ o.nest = (IF r.res = "ok" THEN k + 1 ELSE k)
  BY CountedReply DEF DriverBegin
<1> QED BY <1>1, BeginReturns

LEMMA DriverCommitLeaves ==
  ASSUME NEW s \in Session, WellFormed(s), NEW k, NEW o \in DriverCommit(k, s)
  PROVE  /\ Follows(s, o.s)
         /\ o.s.durable = s.durable \/ o.s.durable = s.durable \cup s.pending
         /\ o.res \notin {"ok", "lost"} => o.s.durable = s.durable
         /\ o.res = "ok" => o.nest = 0 /\ o.s.blk = "idle" /\ s.link # "down"
         /\ o.res = "ok" /\ s.blk # "failed" => o.s.durable = s.durable \cup s.pending
<1>1. PICK r \in SendCommit(s) :
        o.res = r.res /\ o.s = r.s /\ o.nest = (IF r.res = "ok" THEN 0 ELSE k)
  BY CountedReply DEF DriverCommit
<1> QED BY <1>1, CommitReturns

LEMMA DriverRollbackLeaves ==
  ASSUME NEW s \in Session, WellFormed(s), NEW k, NEW o \in DriverRollback(k, s)
  PROVE  /\ Follows(s, o.s) /\ o.s.durable = s.durable /\ o.s.blk = "idle"
         /\ o.res = "ok" => o.nest = 0
<1>1. PICK r \in SendRollback(s) :
        o.res = r.res /\ o.s = r.s /\ o.nest = (IF r.res = "ok" THEN 0 ELSE k)
  BY CountedReply DEF DriverRollback
<1> QED BY <1>1, RollbackReturns

(* A named level is marked in the transaction it found, or in the one it    *)
(* has just begun.                                                         *)
LEMMA DriverBeginNamedLeaves ==
  ASSUME NEW s \in Session, WellFormed(s), NEW k \in Nat, NEW n \in Names,
         k = 0 => s.blk = "idle", k # 0 => InScope(s),
         NEW o \in DriverBeginNamed(n, k, s)
  PROVE  /\ Follows(s, o.s) /\ o.s.durable = s.durable
         /\ o.res = "ok" =>
              /\ o.nest = k + 1
              /\ \E t \in Session : /\ OnLink(t) /\ t.blk = "open" /\ t.pending = s.pending
                                    /\ t.saves = s.saves /\ o.s = Marked(n, t)
                                    /\ k # 0 => t = s
<1> DEFINE opened == IF k = 0 THEN Counted(0, 0, SendBegin(s))
                     ELSE {[res |-> "ok", nest |-> k, s |-> s]}
<1>1. ASSUME NEW q \in opened
      PROVE  /\ Follows(s, q.s) /\ q.s.durable = s.durable /\ q.nest = k
             /\ q.res = "ok" => /\ InScope(q.s) /\ q.s.pending = s.pending /\ q.s.saves = s.saves
                                /\ k # 0 => q.s = s
  <2>1. CASE k = 0
    <3>1. PICK r \in SendBegin(s) : q.res = r.res /\ q.s = r.s /\ q.nest = 0
      BY <2>1, CountedReply
    <3>2. s.pending = {} /\ s.saves = {}
      BY <2>1 DEF WellFormed
    <3> QED BY <2>1, <3>1, <3>2, BeginReturns DEF OnLink, InScope
  <2>2. CASE k # 0
    <3>1. q = [res |-> "ok", nest |-> k, s |-> s]
      BY <2>2
    <3>2. q.s = s /\ q.nest = k
      BY <3>1
    <3> QED BY <2>2, <3>2 DEF Follows
  <2> QED BY <2>1, <2>2
<1>2. \/ o \in opened /\ o.res # "ok"
      \/ \E q \in opened : q.res = "ok" /\ o \in Counted(q.nest, q.nest + 1, SendSavepoint(n, q.s))
  BY DEF DriverBeginNamed
<1> HIDE DEF opened
<1>3. ASSUME NEW q \in opened, q.res = "ok", o \in Counted(q.nest, q.nest + 1, SendSavepoint(n, q.s))
      PROVE  /\ Follows(s, o.s) /\ o.s.durable = s.durable
             /\ o.res = "ok" =>
                  /\ o.nest = k + 1
                  /\ \E t \in Session : /\ OnLink(t) /\ t.blk = "open" /\ t.pending = s.pending
                                        /\ t.saves = s.saves /\ o.s = Marked(n, t)
                                        /\ k # 0 => t = s
  <2>1. /\ q.s \in Session /\ WellFormed(q.s) /\ s.durable \subseteq q.s.durable
        /\ q.s.durable = s.durable /\ q.nest = k /\ InScope(q.s)
        /\ q.s.pending = s.pending /\ q.s.saves = s.saves /\ (k # 0 => q.s = s)
    BY <1>1, <1>3 DEF Follows
  <2>2. PICK r \in SendSavepoint(n, q.s) :
          o.res = r.res /\ o.s = r.s /\ o.nest = (IF r.res = "ok" THEN q.nest + 1 ELSE q.nest)
    BY <1>3, CountedReply
  <2>3. /\ Follows(q.s, o.s) /\ o.s.durable = q.s.durable
        /\ o.res = "ok" => q.s.link = "up" /\ q.s.blk = "open" /\ o.s = Marked(n, q.s)
    BY <2>1, <2>2, SavepointReturns
  <2>4. Follows(s, o.s) /\ o.s.durable = s.durable
    BY <2>1, <2>3 DEF Follows
  <2>5. o.res = "ok" => o.nest = k + 1
    BY <2>1, <2>2
  <2>6. o.res = "ok" => OnLink(q.s)
    BY <2>1, <2>3 DEF OnLink
  <2> QED BY <2>1, <2>3, <2>4, <2>5, <2>6
<1>4. CASE o \in opened /\ o.res # "ok"
  BY <1>1, <1>4
<1> QED BY <1>2, <1>3, <1>4

(* The last level commits the transaction; an inner one leaves the database *)
(* as it is.                                                               *)
LEMMA DriverCommitNamedLeaves ==
  ASSUME NEW s \in Session, WellFormed(s), InScope(s), NEW k \in Nat \ {0}, NEW n \in Names,
         NEW o \in DriverCommitNamed(n, k, s)
  PROVE  /\ Follows(s, o.s)
         /\ o.s.durable = s.durable \/ o.s.durable = s.durable \cup s.pending
         /\ k # 1 \/ o.res \notin {"ok", "lost"} => o.s.durable = s.durable
         /\ o.res = "ok" => o.nest = k - 1 /\ s.link = "up" /\ s.blk = "open"
         /\ k # 1 /\ o.res = "ok" => \E p \in Youngest(n, s) : o.s = Released(p, s)
         /\ k = 1 /\ o.res = "ok" => o.s.blk = "idle" /\ o.s.durable = s.durable \cup s.pending
<1> DEFINE released == Counted(k, k - 1, SendRelease(n, s))
<1>1. ASSUME NEW q \in released
      PROVE  /\ Follows(s, q.s) /\ q.s.durable = s.durable
             /\ q.res = "ok" => /\ q.nest = k - 1 /\ s.link = "up" /\ s.blk = "open"
                                /\ \E p \in Youngest(n, s) : q.s = Released(p, s)
             /\ q.res # "ok" => q.nest = k
  <2>1. PICK r \in SendRelease(n, s) :
          q.res = r.res /\ q.s = r.s /\ q.nest = (IF r.res = "ok" THEN k - 1 ELSE k)
    BY CountedReply
  <2> QED BY <2>1, ReleaseReturns
<1>2. \/ o \in released /\ ~(o.res = "ok" /\ o.nest = 0)
      \/ \E q \in released : q.res = "ok" /\ q.nest = 0 /\ o \in DriverCommit(0, q.s)
  BY DEF DriverCommitNamed
<1> HIDE DEF released
<1>3. CASE o \in released /\ ~(o.res = "ok" /\ o.nest = 0)
  <2>1. k = 1 => k - 1 = 0
    OBVIOUS
  <2> QED BY <1>1, <1>3, <2>1
<1>4. ASSUME NEW q \in released, q.res = "ok", q.nest = 0, o \in DriverCommit(0, q.s)
      PROVE  /\ k = 1 /\ s.link = "up" /\ s.blk = "open" /\ Follows(s, o.s)
             /\ o.s.durable = s.durable \/ o.s.durable = s.durable \cup s.pending
             /\ o.res \notin {"ok", "lost"} => o.s.durable = s.durable
             /\ o.res = "ok" => /\ o.nest = 0 /\ o.s.blk = "idle"
                                /\ o.s.durable = s.durable \cup s.pending
  <2>1. k = 1 /\ s.link = "up" /\ s.blk = "open" /\ \E p \in Youngest(n, s) : q.s = Released(p, s)
    BY <1>1, <1>4
  <2>2. q.s.pending = s.pending /\ q.s.blk = "open"
    BY <2>1 DEF Released, Session
  <2>3. q.s \in Session /\ WellFormed(q.s) /\ q.s.durable = s.durable
    BY <1>1 DEF Follows
  <2>4. /\ Follows(q.s, o.s)
        /\ o.s.durable = q.s.durable \/ o.s.durable = q.s.durable \cup q.s.pending
        /\ o.res \notin {"ok", "lost"} => o.s.durable = q.s.durable
        /\ o.res = "ok" => o.nest = 0 /\ o.s.blk = "idle"
        /\ o.res = "ok" /\ q.s.blk # "failed" => o.s.durable = q.s.durable \cup q.s.pending
    BY <1>4, <2>3, DriverCommitLeaves
  <2>5. Follows(s, o.s)
    BY <2>3, <2>4 DEF Follows
  <2> QED BY <2>1, <2>2, <2>3, <2>4, <2>5
<1>5. CASE \E q \in released : q.res = "ok" /\ q.nest = 0 /\ o \in DriverCommit(0, q.s)
  BY <1>4, <1>5
<1> QED BY <1>2, <1>3, <1>5

LEMMA DriverRollbackNamedLeaves ==
  ASSUME NEW s \in Session, WellFormed(s), InScope(s), NEW k \in Nat \ {0}, NEW n \in Names,
         NEW o \in DriverRollbackNamed(n, k, s)
  PROVE  /\ Follows(s, o.s) /\ o.s.durable = s.durable
         /\ o.res = "ok" => o.nest = k - 1
         /\ k # 1 /\ o.res = "ok" => /\ s.link = "up" /\ s.blk = "open"
                                     /\ \E p \in Youngest(n, s) : o.s = Rewound(p, s)
         /\ k = 1 /\ o.res = "ok" => o.s.blk = "idle"
<1> DEFINE rewound == Counted(k, k - 1, SendRollbackTo(n, s))
<1>1. ASSUME NEW q \in rewound
      PROVE  /\ Follows(s, q.s) /\ q.s.durable = s.durable
             /\ q.res = "ok" => /\ q.nest = k - 1 /\ s.link = "up" /\ s.blk = "open"
                                /\ \E p \in Youngest(n, s) : q.s = Rewound(p, s)
             /\ q.res # "ok" => q.nest = k
  <2>1. PICK r \in SendRollbackTo(n, s) :
          q.res = r.res /\ q.s = r.s /\ q.nest = (IF r.res = "ok" THEN k - 1 ELSE k)
    BY CountedReply
  <2> QED BY <2>1, RollbackToReturns
<1>2. \/ o \in rewound /\ ~(o.res = "ok" /\ o.nest = 0)
      \/ \E q \in rewound : q.res = "ok" /\ q.nest = 0 /\ o \in DriverRollback(0, q.s)
  BY DEF DriverRollbackNamed
<1> HIDE DEF rewound
<1>3. CASE o \in rewound /\ ~(o.res = "ok" /\ o.nest = 0)
  <2>1. k = 1 => k - 1 = 0
    OBVIOUS
  <2> QED BY <1>1, <1>3, <2>1
<1>4. ASSUME NEW q \in rewound, q.res = "ok", q.nest = 0, o \in DriverRollback(0, q.s)
      PROVE  /\ k = 1 /\ Follows(s, o.s) /\ o.s.durable = s.durable /\ o.s.blk = "idle"
             /\ o.res = "ok" => o.nest = 0
  <2>1. k = 1
    BY <1>1, <1>4
  <2>2. q.s \in Session /\ WellFormed(q.s) /\ q.s.durable = s.durable
    BY <1>1 DEF Follows
  <2>3. /\ Follows(q.s, o.s) /\ o.s.durable = q.s.durable /\ o.s.blk = "idle"
        /\ o.res = "ok" => o.nest = 0
    BY <1>4, <2>2, DriverRollbackLeaves
  <2> QED BY <2>1, <2>2, <2>3 DEF Follows
<1>5. CASE \E q \in rewound : q.res = "ok" /\ q.nest = 0 /\ o \in DriverRollback(0, q.s)
  BY <1>4, <1>5
<1> QED BY <1>2, <1>3, <1>5

(* Reconnecting stores nothing and opens no transaction.                   *)
LEMMA DriverReconnectLeaves ==
  ASSUME NEW s \in Session, WellFormed(s), NEW k, NEW o \in DriverReconnect(k, s)
  PROVE  /\ Follows(s, o.s) /\ o.s.durable = s.durable /\ o.nest = k
         /\ s.blk = "idle" => o.s.blk = "idle"
<1>1. CASE o \in Counted(k, k, Reopen(s))
  <2>1. PICK r \in Reopen(s) : o.s = r.s /\ o.nest = k
    BY <1>1, CountedReply
  <2> QED BY <2>1, ReopenReturns
<1>2. CASE o = [res |-> "lost", nest |-> k, s |-> s]
  <2>1. o.s = s /\ o.nest = k
    BY <1>2
  <2> QED BY <2>1 DEF Follows
<1>3. CASE o \in Counted(k, k, Exchange(s, {Ok(Reached(s))}))
  <2> DEFINE R == {Ok(Reached(s))}
  <2>1. PICK r \in Exchange(s, R) : o.s = r.s /\ o.nest = k
    BY <1>3, CountedReply
  <2>2. R \subseteq Reply
    <3>1. Reached(s) \in Session
      BY SessionParts
    <3> QED BY <3>1 DEF Ok, Reply
  <2>3. \A q \in R : q.s = Reached(s)
    BY DEF Ok
  <2> HIDE DEF R
  <2>4. s.link # "down" => \A q \in R : /\ Follows(s, q.s) /\ WellFormed(q.s)
                                        /\ q.s.durable = s.durable /\ q.s.blk = s.blk
    BY <2>3, ReachedOnLink DEF Follows, OnLink
  <2>5. \/ r \in R /\ s.link # "down"
        \/ /\ r.res = "lost" /\ Follows(s, r.s) /\ r.s.blk = "idle"
           /\ r.s.durable = s.durable \/ \E q \in R : s.link # "down" /\ r.s.durable = q.s.durable
    BY <2>2, <2>4, Delivered
  <2> QED BY <2>1, <2>4, <2>5
<1>4. \/ o \in Counted(k, k, Reopen(s))
      \/ o = [res |-> "lost", nest |-> k, s |-> s]
      \/ o \in Counted(k, k, Exchange(s, {Ok(Reached(s))}))
  BY DEF DriverReconnect, PgReconnect, Sqlite3Reconnect, MySqlReconnect
<1> QED BY <1>1, <1>2, <1>3, <1>4
=============================================================================
