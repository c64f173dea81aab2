----------------------------- MODULE RosterRows -----------------------------
(***************************************************************************)
(* The rows of which there is one per athlete or position: share links,    *)
(* board entries, fit scores and team needs (app/routers/athletes.py,      *)
(* board.py, public.py).  PUT and POST read the row, then insert or update *)
(* it, then read it again for the answer; DELETE reads it, then deletes.   *)
(* Requests commit between each other's statements.                        *)
(*                                                                         *)
(* Abstractions.  One athlete or position; all requests of a behaviour are *)
(* about one table.  The value a request puts into a column is itself, and *)
(* so is the token it issues.  Athletes are never deleted, so the check    *)
(* that there is one passes.                                               *)
(***************************************************************************)
EXTENDS OrmRows

CONSTANTS
  Put,       \* requests that put a row
  Removal,   \* requests that remove it
  Null,      \* no value; an id or value from before these requests
  NoRecord   \* no row

VARIABLES
  table,    \* which table this behaviour is about
  record,   \* its row: id and columns, or NoRecord
  phase,    \* per request: new, read, committed, answered or refused
  asked,    \* per put: the columns its body sets
  loaded,   \* per request: the row it has read
  answer    \* per put: the row it has been answered with

rosterVars == <<table, record, phase, asked, loaded, answer>>

Columns ==
  [link |-> {"token"}, board |-> {"stage", "notes"},
   fit |-> {"scheme_fit", "need_match"}, need |-> {"priority"}]

\* What a body must set; fit scores may set any.
Required ==
  [link |-> {"token"}, board |-> {"stage"}, fit |-> {}, need |-> {"priority"}]

Caller == Put \cup Removal

ASSUME RosterAssumption == Put \cap Removal = {} /\ Null \notin Put

\* Rows of boards and needs have an id of their own; links and fit scores
\* are found by their athlete.
Surrogate == {"board", "need"}

Record(t) == [id : Put \cup {Null}, values : [Columns[t] -> Put \cup {Null}]]

RosterTypeOK ==
  /\ table \in DOMAIN Columns
  /\ record \in {NoRecord} \cup Record(table)
  /\ phase \in [Caller -> {"new", "read", "committed", "answered", "refused"}]
  /\ asked \in [Put -> SUBSET Columns[table]]
  /\ loaded \in [Caller -> {NoRecord} \cup Record(table)]
  /\ answer \in [Put -> {NoRecord} \cup Record(table)]

RosterInit ==
  /\ table \in DOMAIN Columns
  /\ record \in {NoRecord, [id |-> Null, values |-> [c \in Columns[table] |-> Null]]}
  /\ phase = [c \in Caller |-> "new"]
  /\ asked = [p \in Put |-> {}]
  /\ loaded = [c \in Caller |-> NoRecord]
  /\ answer = [p \in Put |-> NoRecord]

-----------------------------------------------------------------------------
Become(c, p) == phase' = [phase EXCEPT ![c] = p]

Find(c) ==
  /\ phase[c] = "new"
  /\ loaded' = [loaded EXCEPT ![c] = record]
  /\ UNCHANGED <<table, record, answer>>

FindToPut(p) ==
  /\ Find(p)
  /\ \E columns \in SUBSET Columns[table] :
       /\ Required[table] \subseteq columns
       /\ asked' = [asked EXCEPT ![p] = columns]
  /\ Become(p, "read")

\* Where there is nothing to remove, that is the answer.
FindToRemove(c) ==
  /\ table \in {"link", "board"}
  /\ Find(c)
  /\ Become(c, IF record = NoRecord THEN "answered" ELSE "read")
  /\ UNCHANGED asked

IdOf(c) ==
  IF table \notin Surrogate THEN Null
  ELSE IF loaded[c] = NoRecord THEN c ELSE loaded[c].id

\* Statements name the row by its key: is it still there?
StillThere(c) == record # NoRecord /\ record.id = IdOf(c)

Fresh(p) ==
  [id |-> IdOf(p),
   values |-> [c \in Columns[table] |-> IF c \in asked[p] THEN p ELSE Null]]

Changed(p) ==
  [c \in Columns[table] |-> IF c \in asked[p] THEN p ELSE loaded[p].values[c]]

\* Faulty variant: a row that is gone is put back.
InsertOrUpdateAlways(p) ==
  /\ phase[p] = "read"
  /\ record' = IF loaded[p] = NoRecord \/ ~StillThere(p) THEN Fresh(p)
               ELSE [record EXCEPT !.values = Merge(loaded[p].values, Changed(p), @)]
  /\ Become(p, "committed")
  /\ UNCHANGED <<table, asked, loaded, answer>>

\* commit(): INSERT, refused by the unique constraint if there is a row now;
\* or UPDATE of what was changed, refused (StaleDataError) if the row went.
InsertOrUpdate(p) ==
  /\ phase[p] = "read"
  /\ \/ /\ loaded[p] = NoRecord /\ record = NoRecord
        /\ record' = Fresh(p)
        /\ Become(p, "committed")
     \/ /\ loaded[p] # NoRecord /\ asked[p] # {} /\ StillThere(p)
        /\ record' = [record EXCEPT !.values = Merge(loaded[p].values, Changed(p), @)]
        /\ Become(p, "committed")
     \/ /\ loaded[p] # NoRecord /\ asked[p] = {}
        /\ Become(p, "committed")
        /\ UNCHANGED record
     \/ /\ IF loaded[p] = NoRecord THEN record # NoRecord
                                   ELSE asked[p] # {} /\ ~StillThere(p)
        /\ Become(p, "refused")
        /\ UNCHANGED record
  /\ UNCHANGED <<table, asked, loaded, answer>>

\* refresh(): the answer is the row as it is by now; without one the request
\* is refused, though committed.
AnswerWith(p, row) ==
  /\ phase[p] = "committed"
  /\ \/ row = NoRecord /\ Become(p, "refused") /\ UNCHANGED answer
     \/ /\ row # NoRecord
        /\ answer' = [answer EXCEPT ![p] = row]
        /\ Become(p, "answered")
  /\ UNCHANGED <<table, record, asked, loaded>>

\* Faulty variant: the object is answered as it was committed.
AnswerCommitted(p) == AnswerWith(p, [Fresh(p) EXCEPT !.values = [c \in DOMAIN @ |-> p]])

Refresh(p) == AnswerWith(p, IF StillThere(p) THEN record ELSE NoRecord)

\* DELETE of the row that was loaded; one that is gone only raises a warning.
Remove(c) ==
  /\ phase[c] = "read"
  /\ record' = IF StillThere(c) THEN NoRecord ELSE record
  /\ Become(c, "answered")
  /\ UNCHANGED <<table, asked, loaded, answer>>

\* A statement fails, or the client is gone: rolled back, if uncommitted.
CallFails(c) ==
  /\ phase[c] \in {"read", "committed"}
  /\ Become(c, "refused")
  /\ UNCHANGED <<table, record, asked, loaded, answer>>

RosterNext ==
  \/ \E p \in Put : FindToPut(p) \/ InsertOrUpdate(p) \/ Refresh(p)
  \/ \E c \in Removal : FindToRemove(c) \/ Remove(c)
  \/ \E c \in Caller : CallFails(c)

RosterSpec == RosterInit /\ [][RosterNext]_rosterVars

-----------------------------------------------------------------------------
(* Properties.                                                             *)

\* get_public_athlete() finds the link of a token.
Resolves(token) ==
  table = "link" /\ record # NoRecord /\ record.values["token"] = token

\* "Fully revokes public access" (athletes.py:166), and a card taken off the
\* board is off: a row that is gone is brought back only by a request that
\* found none, never by one that was changing the row as it was removed.
RemovedStaysRemoved ==
  [][record = NoRecord /\ record' # NoRecord =>
       \E p \in Put : /\ phase[p] = "read" /\ phase'[p] = "committed"
                      /\ loaded[p] = NoRecord]_rosterVars

\* A put changes the columns its body sets and no other: moving a card keeps
\* the notes, and a score the scores, another request has just written.
OthersColumnsKept ==
  [][\A p \in Put : phase[p] = "read" /\ phase'[p] = "committed" /\ record # NoRecord =>
       \A c \in Columns[table] \ asked[p] : record'.values[c] = record.values[c]
    ]_rosterVars

\* What others have done since a request read its row stands.
OthersWorkStands == RemovedStaysRemoved /\ OthersColumnsKept

\* Whoever is handed a share link is handed one that works at that moment,
\* even if another request has regenerated it since theirs committed.
AnsweredLinkResolves ==
  [][\A p \in Put : table = "link" /\ phase[p] = "committed" /\ phase'[p] = "answered" =>
       Resolves(answer'[p].values["token"])]_rosterVars
=============================================================================
