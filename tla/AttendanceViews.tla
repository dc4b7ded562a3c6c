--------------------------- MODULE AttendanceViews ---------------------------
(***************************************************************************)
(* What the console shows of attendance: the card of a check-in, its list  *)
(* of records, the list of check-ins, a student's own check-ins and the    *)
(* report of an offering.  Each is put together from several statements,   *)
(* none of them in a transaction, while marks are written (as Attendance   *)
(* allows), students change their class and accounts are deleted.  A       *)
(* behaviour reads one view, of rows in any state: a view keeps nothing    *)
(* that another one would read.                                            *)
(***************************************************************************)
EXTENDS Integers, FiniteSets

CONSTANTS
  Checkins, Students, Unmarked,  \* see Attendance
  WrittenMarks,                  \* bound on the marks that are written
  MaxWrites                      \* bound on the changes while one view is read

Marks == {"present", "late", "absent", "leave"}

ASSUME ViewsAssumption ==
  /\ IsFiniteSet(Students) /\ Unmarked \notin Marks /\ WrittenMarks \subseteq Marks
  /\ MaxWrites \in Nat

VARIABLES
  phase, mark,  \* as in Attendance
  anchored,     \* check-ins of the offering; the others stand alone
  classmates,   \* students with a profile in a class of the offering
  accounts,     \* students with a users row; a profile outlives it
  view,         \* the request under way, then its answer
  writes,       \* changes since the request began
  touched       \* history: students whose rows these changes wrote

rosterVars == <<phase, mark, anchored, classmates, accounts>>
viewVars == <<rosterVars, view, writes, touched>>

NoView == [op |-> "none", at |-> "done"]

ViewsInit ==
  /\ phase \in [Checkins -> {"none", "active", "closed"}]
  /\ mark \in [Checkins -> [Students -> WrittenMarks \cup {Unmarked}]]
  /\ \A k \in Checkins, s \in Students : phase[k] = "none" => mark[k][s] = Unmarked
  /\ anchored \in SUBSET Checkins
  /\ classmates \in SUBSET Students
  /\ accounts \in SUBSET Students
  /\ view = NoView /\ writes = 0 /\ touched = {}

----------------------------------------------------------------------------
(* What may change meanwhile.                                              *)

Change(written) ==
  /\ view.at # "done" /\ writes < MaxWrites
  /\ writes' = writes + 1
  /\ touched' = touched \cup written
  /\ UNCHANGED view

\* Attendance's Open and Close.
TurnPhase(k) ==
  /\ \/ phase[k] = "none" /\ phase' = [phase EXCEPT ![k] = "active"]
     \/ phase[k] = "active" /\ phase' = [phase EXCEPT ![k] = "closed"]
  /\ Change({})
  /\ UNCHANGED <<mark, anchored, classmates, accounts>>

\* Attendance's MarkSelf and Correct.
WriteMark(k, s) ==
  /\ phase[k] # "none"
  /\ \E m \in WrittenMarks : mark' = [mark EXCEPT ![k][s] = m]
  /\ Change({s})
  /\ UNCHANGED <<phase, anchored, classmates, accounts>>

\* A student is added to, moved out of or removed from a class.
ChangeClass(s) ==
  /\ classmates' = IF s \in classmates THEN classmates \ {s} ELSE classmates \cup {s}
  /\ Change({s})
  /\ UNCHANGED <<phase, mark, anchored, accounts>>

DeleteUser(s) ==
  /\ s \in accounts
  /\ accounts' = accounts \ {s}
  /\ Change({s})
  /\ UNCHANGED <<phase, mark, anchored, classmates>>

----------------------------------------------------------------------------
(* A view is read statement by statement.                                  *)

Begin(v) ==
  /\ view = NoView /\ writes = 0     \* the first request of the behaviour
  /\ view' = v
  /\ UNCHANGED <<rosterVars, writes, touched>>

\* The next statement: it fills in some fields and names the one after it.
Read(at, v) ==
  /\ view.at = at
  /\ view' = v
  /\ UNCHANGED <<rosterVars, writes, touched>>

Fail == view.at # "done" /\ Read(view.at, NoView)

Blanks == [m \in Marks |-> 0]
Having(k, m) == {s \in Students : mark[k][s] = m}

\* scanCheckins: an active check-in whose expires_at has passed reads as closed.
EffectiveStatus(k) == IF phase[k] = "active" THEN {"active", "closed"} ELSE {phase[k]}

----------------------------------------------------------------------------
(* The list of check-ins, and the check-ins of a report: nothing fills in  *)
(* their counts.                                                           *)

Filters == [offering : BOOLEAN, status : {"any", "active", "closed"}]

\* buildCheckinWhere: the status column, not the effective status.
Selected(f) ==
  {k \in Checkins : /\ phase[k] # "none"
                    /\ f.offering => k \in anchored
                    /\ f.status \in {"any", phase[k]}}

ListCheckins == \E f \in Filters : Begin([op |-> "checkins", at |-> "count", filter |-> f])

OfferingSummary ==
  Begin([op |-> "summary", at |-> "count", filter |-> [offering |-> TRUE, status |-> "any"]])

CountCheckins == Read("count", [view EXCEPT !.at = "page"])

ScanCheckins(ks) ==
  {c \in [ks -> [status : {"active", "closed"}, counts : {[expected |-> 0, by |-> Blanks]}]] :
     \A k \in ks : c[k].status \in EffectiveStatus(k)}

PageCheckins ==
  view.at = "page" /\ \E cards \in ScanCheckins(Selected(view.filter)) :
    Read("page", [op |-> view.op, cards |-> cards, rows |-> {},
                  at |-> IF view.op = "checkins" \/ cards = <<>> THEN "done" ELSE "roster"])

----------------------------------------------------------------------------
(* The card of one check-in.                                               *)

GetCheckin(k) == Begin([op |-> "card", at |-> "find", k |-> k])

\* A missing row is a 404.
FindCheckin ==
  Read("find", IF phase[view.k] = "none" THEN NoView
               ELSE IF view.op = "card" THEN [view EXCEPT !.at = "byStatus"]
               ELSE [view EXCEPT !.at = "total"])

\* GROUP BY status: every record, whoever it belongs to.
CountByStatus ==
  Read("byStatus",
       [op |-> "card", k |-> view.k, expected |-> 0,
        by |-> [m \in Marks |-> Cardinality(Having(view.k, m))],
        at |-> IF view.k \in anchored THEN "expected" ELSE "done"])

CountRoster ==
  Read("expected", [view EXCEPT !.expected = Cardinality(classmates), !.at = "rosterRows"])

\* Mistake: the records of the roster are counted without the roster.
BackfillCountsOfAll ==
  LET rosterRows == {s \in Students : mark[view.k][s] # Unmarked} IN
  Read("rosterRows", [view EXCEPT !.by["absent"] = @ + view.expected - Cardinality(rosterRows),
                                  !.at = "done"])

\* Absent is who was set absent, and who is expected and has no record.
BackfillCounts ==
  LET rosterRows == {s \in classmates : mark[view.k][s] # Unmarked} IN
  Read("rosterRows", [view EXCEPT !.by["absent"] = @ + view.expected - Cardinality(rosterRows),
                                  !.at = "done"])

----------------------------------------------------------------------------
(* The records of one check-in: the roster, and who else has a record.     *)

RecordRow(k, s, inRoster) ==
  [s |-> s, inRoster |-> inRoster,
   status |-> IF mark[k][s] = Unmarked THEN "absent" ELSE mark[k][s]]

RosterOf(k) == IF k \in anchored THEN classmates ELSE {}
ExtrasOf(k) == {s \in Students \ RosterOf(k) : mark[k][s] # Unmarked}

RecordUnion(k) ==
  {RecordRow(k, s, TRUE) : s \in RosterOf(k) \cap accounts}
    \cup {RecordRow(k, s, k \notin anchored) : s \in ExtrasOf(k) \cap accounts}

RecordsLike(v) == {r \in RecordUnion(v.k) : v.like \in {"any", r.status}}

\* The export asks for all of them; GetCheckin comes first, its counts unused.
ListRecords(k) ==
  \E m \in WrittenMarks \cup {"any"} : Begin([op |-> "records", at |-> "find", k |-> k, like |-> m])

CountRecords == view.op = "records" /\ Read("total", [view EXCEPT !.at = "rows"])

PageRecords ==
  Read("rows", [op |-> "records", at |-> "done", k |-> view.k, like |-> view.like,
                rows |-> RecordsLike(view)])

----------------------------------------------------------------------------
(* A student's own check-ins: no absence is derived.                       *)

MyCheckins(s) == Begin([op |-> "mine", at |-> "total", s |-> s])

PageMyCheckins ==
  view.op = "mine" /\ Read("total",
    [op |-> "mine", at |-> "done", s |-> view.s,
     rows |-> {[k |-> k, status |-> mark[k][view.s]] :
                 k \in {k \in Checkins : mark[k][view.s] # Unmarked}}])

----------------------------------------------------------------------------
(* The report of an offering, after its check-ins.                         *)

SummaryRoster ==
  Read("roster", [view EXCEPT !.at = "extras",
                  !.rows = {[s |-> s, inRoster |-> TRUE] : s \in classmates \cap accounts}])

SummaryExtras ==
  Read("extras", [view EXCEPT !.at = "marks",
                  !.rows = @ \cup {[s |-> s, inRoster |-> FALSE] :
                     s \in {s \in accounts \ classmates : \E k \in anchored : mark[k][s] # Unmarked}}])

\* A cell for every record, and for every check-in when the row is of the roster.
SummaryCells(r) ==
  [k \in {k \in DOMAIN view.cards : r.inRoster \/ mark[k][r.s] # Unmarked} |->
     IF mark[k][r.s] = Unmarked THEN "absent" ELSE mark[k][r.s]]

SummaryMarks ==
  Read("marks", [view EXCEPT !.at = "done",
                 !.rows = {[s |-> r.s, cells |-> SummaryCells(r)] : r \in view.rows}])

----------------------------------------------------------------------------
ViewsNext ==
  \/ ListCheckins \/ OfferingSummary \/ CountCheckins \/ PageCheckins
  \/ FindCheckin \/ CountByStatus \/ CountRoster \/ BackfillCounts
  \/ CountRecords \/ PageRecords \/ PageMyCheckins
  \/ SummaryRoster \/ SummaryExtras \/ SummaryMarks \/ Fail
  \/ \E k \in Checkins :
       \/ GetCheckin(k) \/ ListRecords(k) \/ TurnPhase(k)
       \/ \E s \in Students : WriteMark(k, s)
  \/ \E s \in Students : MyCheckins(s) \/ ChangeClass(s) \/ DeleteUser(s)

ViewsSpec == ViewsInit /\ [][ViewsNext]_viewVars

----------------------------------------------------------------------------
(* Properties.                                                             *)

\* How a student stands at a check-in: as marked, and absent without a mark
\* when she is expected.
Standing(k, s) ==
  IF mark[k][s] # Unmarked THEN mark[k][s]
  ELSE IF k \in anchored /\ s \in classmates THEN "absent" ELSE Unmarked

Still == Students \ touched

\* The card may miscount each student that was written meanwhile, and no other:
\* as not there, or as absent by her mark and once more as unmarked.
CardIsRight ==
  /\ view.k \in anchored =>
       view.expected - Cardinality(classmates \cap Still) \in 0 .. Cardinality(touched)
  /\ \A m \in Marks :
       view.by[m] - Cardinality({s \in Still : Standing(view.k, s) = m})
         \in -Cardinality(touched) .. 2 * Cardinality(touched)

RecordsAreRight ==
  \A s \in Still :
    {r.status : r \in {x \in view.rows : x.s = s}}
      = {Standing(view.k, s)} \cap (IF s \notin accounts THEN {}
                                    ELSE IF view.like = "any" THEN Marks ELSE {view.like})

MineIsRight ==
  view.s \in Still => \A k \in Checkins :
    {r.status : r \in {x \in view.rows : x.k = k}} = {mark[k][view.s]} \ {Unmarked}

SummaryIsRight ==
  \A s \in Still, k \in DOMAIN view.cards :
    {r.cells[k] : r \in {x \in view.rows : x.s = s /\ k \in DOMAIN x.cells}}
      = IF s \in accounts THEN {Standing(k, s)} \ {Unmarked} ELSE {}

\* The card, the list, the student's own page and the report tell the same of
\* every student whose rows did not change while they were read, in whatever
\* order the statements ran; only the card also counts who has no account any
\* more (backfillCounts, recordUnionSQL, PageMyCheckins, OfferingSummary).
ViewsAgree ==
  view.at = "done" =>
    /\ view.op = "card" => CardIsRight
    /\ view.op = "records" => RecordsAreRight
    /\ view.op = "mine" => MineIsRight
    /\ view.op = "summary" => SummaryIsRight

ViewsTypeOK ==
  /\ phase \in [Checkins -> {"none", "active", "closed"}]
  /\ mark \in [Checkins -> [Students -> Marks \cup {Unmarked}]]
  /\ anchored \subseteq Checkins
  /\ classmates \subseteq Students /\ accounts \subseteq Students /\ touched \subseteq Students
  /\ writes \in Nat /\ (writes = 0 => touched = {})
  /\ view.op \in {"none", "card", "records", "mine", "checkins", "summary"}
  /\ view.op = "none" => view = NoView

\* A count that was taken of A counts at most who was touched since beside the
\* others of A.
CountStands(n, A) == n - Cardinality(A \ touched) \in 0 .. Cardinality(touched)

\* What the card has counted so far.
CardOK ==
  view.op = "card" =>
    /\ view.k \in Checkins
    /\ \/ view.at \in {"find", "byStatus"} /\ view = [op |-> "card", at |-> view.at, k |-> view.k]
       \/ /\ view.at \in {"expected", "rosterRows", "done"}
          /\ view = [op |-> "card", k |-> view.k, expected |-> view.expected, by |-> view.by, at |-> view.at]
          /\ view.by \in [Marks -> Int] /\ view.expected \in Int
    /\ view.at \in {"expected", "rosterRows"} =>
         view.k \in anchored /\ \A m \in Marks : CountStands(view.by[m], Having(view.k, m))
    /\ view.at = "rosterRows" => CountStands(view.expected, classmates)

RecordsOK ==
  view.op = "records" =>
    /\ view.k \in Checkins /\ view.like \in Marks \cup {"any"}
    /\ view.at \in {"find", "total", "rows", "done"}
    /\ view.at # "done" => view = [op |-> "records", at |-> view.at, k |-> view.k, like |-> view.like]

MineOK ==
  view.op = "mine" => /\ view.s \in Students /\ view.at \in {"total", "done"}

\* As what the rows of a report say that a student is in them.
Told(s) == {r.inRoster : r \in {x \in view.rows : x.s = s}}

\* What the report has read so far: of everybody who was not touched since, it is
\* still so.
ReportOK ==
  /\ view.op = "checkins" => view.at \in {"count", "page", "done"}
  /\ view.op = "summary" => view.at \in {"count", "page", "roster", "extras", "marks", "done"}
  /\ view.op \in {"checkins", "summary"} /\ view.at \in {"count", "page"} =>
       /\ view = [op |-> view.op, at |-> view.at, filter |-> view.filter]
       /\ view.op = "summary" => view.filter.offering
  /\ view.op = "summary" /\ view.at \in {"roster", "extras", "marks"} =>
       /\ view = [op |-> "summary", cards |-> view.cards, rows |-> view.rows, at |-> view.at]
       /\ DOMAIN view.cards \subseteq anchored
  /\ view.op = "summary" /\ view.at \in {"extras", "marks"} =>
       /\ view.rows \subseteq [s : Students, inRoster : BOOLEAN]
       /\ \A s \in Still :
            Told(s) = IF s \notin accounts THEN {}
                      ELSE IF s \in classmates THEN {TRUE}
                      ELSE IF view.at = "marks" /\ \E k \in anchored : mark[k][s] # Unmarked THEN {FALSE}
                      ELSE {}

ViewsIInv == ViewsTypeOK /\ CardOK /\ RecordsOK /\ MineOK /\ ReportOK /\ ViewsAgree
=============================================================================
