------------------------------- MODULE Splitter -------------------------------
(***************************************************************************)
(* The splitter of the registry's timetable (package jwc): rows of a sheet *)
(* become courses offered to teaching classes and their dated lessons, in  *)
(* six files that the import jobs then load.  The groups of rows live in a *)
(* Go map, so each loop over them takes them in an order of its own.       *)
(***************************************************************************)
EXTENDS Integers, FiniteSets, Bells

CONSTANTS
  Sheets,     \* sheets: sequences of rows
  Regimens,   \* sets of regimes the database may hold, see Bells
  Calendar,   \* the dates of the term from its first Monday, month * 100 + day
  MaxParts,   \* parts of a teaching class's name that fit in 64 characters
  NoSeq, NoSpot, Suspended, \* an empty course number or room, and "停课"
  Empty,     \* any other empty cell
  YearOf     \* the number of a class -> the year its first two digits tell, or Empty

VARIABLES
  sheet, regimens,  \* the arguments
  stage,     \* the call of Split that comes next
  nextRow,
  rooms, catalog, \* classroom or course -> the row it is taken from
  grades,    \* administrative class -> grade
  seqGroups, \* course number -> its group of rows
  skipped,   \* groups marked as parallel classes
  classes,   \* the teaching class file
  offerings, \* the offering file
  lessons,   \* the session file
  files      \* the six files, once they are built

argVars == <<sheet, regimens>>
tableVars == <<rooms, catalog, grades>>
splitVars == <<argVars, stage, nextRow, tableVars, seqGroups, skipped, classes, offerings, lessons, files>>

----------------------------------------------------------------------------
(* The cells.                                                              *)

\* A range of weeks may keep the odd or the even ones only.
WeeksOf(cell) == UNION {{w \in g.from .. g.to : g.parity = "all" \/ (g.parity = "odd") = (w % 2 = 1)} :
                          g \in ToSet(cell)}
WeeksRead(cell) == /\ \A g \in ToSet(cell) : 1 <= g.from /\ g.from <= g.to
                   /\ WeeksOf(cell) # {}
PeriodsRead(cell) == 1 <= cell[1] /\ cell[1] <= cell[2]
WeekdayRead(cell) == cell \in 1 .. 7

\* A row from which lessons come.
Teaches(r) == /\ PeriodsRead(r.periods) /\ WeeksRead(r.weeks) /\ WeekdayRead(r.weekday)
              /\ r.room \notin {NoSpot, Suspended}

\* parseAdminSet: the members as first listed.
ParseAdminSet(cell) ==
  FoldLeft(LAMBDA ms, a : IF Contains(ms, a) THEN ms ELSE Append(ms, a), <<>>, cell)

DayOf(week, weekday) == Calendar[(week - 1) * 7 + weekday]

\* A sheet and each of its cells of classes are sequences, and the term is long
\* enough for every lesson.
ASSUME SplitterAssumption ==
  /\ MaxParts \in Nat \ {0} /\ Calendar \in Seq(101 .. 1231)
  /\ \A R \in Regimens : AreRegimes(R)
  /\ \A q \in Sheets :
       /\ q \in Seq(ToSet(q))
       /\ \A r \in ToSet(q) :
            /\ r.admins \in Seq(ToSet(r.admins))
            /\ Teaches(r) => \A w \in WeeksOf(r.weeks) : w \in Nat \ {0} /\ 7 * w <= Len(Calendar)

----------------------------------------------------------------------------
(* The name of a teaching class; a member is a prefix and a number, 0 when *)
(* it has none.                                                            *)

PrefixesOf(ms) == ParseAdminSet([i \in DOMAIN ms |-> ms[i].prefix])
NumbersOf(ms, p) == {m.num : m \in {x \in ToSet(ms) : x.prefix = p /\ x.num # 0}}

\* Consecutive numbers are written as one range.
RangesIn(S) == {g \in S \X S : /\ g[1] <= g[2] /\ g[1] .. g[2] \subseteq S
                               /\ g[1] - 1 \notin S /\ g[2] + 1 \notin S}
PartsOf(ms, p) ==
  [i \in 1 .. Cardinality(RangesIn(NumbersOf(ms, p))) |->
     <<p, SetToSortSeq(RangesIn(NumbersOf(ms, p)), LAMBDA a, b : a[1] < b[1])[i]>>]
   \o IF Contains(ms, [prefix |-> p, num |-> 0]) THEN << <<p, <<0, 0>>>> >> ELSE <<>>

TeachingClassName(ms) ==
  LET parts == FlattenSeq([i \in DOMAIN PrefixesOf(ms) |-> PartsOf(ms, PrefixesOf(ms)[i])])
  IN  IF Len(parts) <= MaxParts THEN [parts |-> parts]
      ELSE [first |-> ms[1], second |-> ms[2], count |-> Len(ms)]

----------------------------------------------------------------------------
SplitInit ==
  /\ sheet \in Sheets /\ regimens \in Regimens
  /\ stage = "rows" /\ nextRow = 1
  /\ rooms = <<>> /\ catalog = <<>> /\ grades = <<>>
  /\ seqGroups = <<>> /\ skipped = {}
  /\ classes = {} /\ offerings = {} /\ lessons = {} /\ files = <<>>

\* A group keeps the course and the classes of its first row.
NewSeqGroup(r) ==
  [course |-> r.course, code |-> r.code, members |-> ParseAdminSet(r.admins),
   teachers |-> {}, seen |-> {}, slots |-> {}]

\* A row's teacher counts even if its slot is known or cannot be read.
AddTeacher(g, r) == [g EXCEPT !.teachers = @ \cup ({r.teacher} \ {Empty})]

CellsOf(r) == <<r.room, r.weekday, r.periods, r.weeks>>
AddSlot(g, r) ==
  IF CellsOf(r) \in g.seen THEN g
  ELSE [g EXCEPT !.seen = @ \cup {CellsOf(r)},
                 !.slots = IF Teaches(r)
                           THEN @ \cup {[room |-> r.room, weekday |-> r.weekday, periods |-> r.periods,
                                         weeks |-> WeeksOf(r.weeks), row |-> nextRow]}
                           ELSE @]

AddRow(g, r) == AddSlot(AddTeacher(g, r), r)

\* Mistake: every row is taken to repeat the course of the first one.
GroupRowByCourse(r) ==
  LET first == IF \E s \in DOMAIN seqGroups : seqGroups[s].code = r.code
               THEN CHOOSE s \in DOMAIN seqGroups : seqGroups[s].code = r.code ELSE r.seq IN
  seqGroups' = IF r.seq = NoSeq THEN seqGroups
               ELSE IF first \in DOMAIN seqGroups THEN [seqGroups EXCEPT ![first] = AddRow(@, r)]
               ELSE seqGroups @@ (r.seq :> AddRow(NewSeqGroup(r), r))

GroupAt(r) == IF r.seq \in DOMAIN seqGroups THEN seqGroups[r.seq] ELSE NewSeqGroup(r)

GroupRow(r) ==
  seqGroups' = IF r.seq = NoSeq THEN seqGroups
               ELSE [s \in DOMAIN seqGroups \cup {r.seq} |->
                       IF s = r.seq THEN AddRow(GroupAt(r), r) ELSE seqGroups[s]]

GroupBySeq ==
  /\ stage = "rows"
  /\ IF nextRow > Len(sheet)
     THEN stage' = "tables" /\ UNCHANGED <<nextRow, seqGroups>>
     ELSE GroupRow(sheet[nextRow]) /\ nextRow' = nextRow + 1 /\ UNCHANGED stage
  /\ UNCHANGED <<argVars, tableVars, skipped, classes, offerings, lessons, files>>

FirstRow(rows) == CHOOSE i \in rows : \A j \in rows : i <= j

\* The first row that names a room describes it, and the same below.
BuildClassrooms ==
  [n \in {r.room : r \in ToSet(sheet)} \ {NoSpot, Suspended} |->
     FirstRow({i \in DOMAIN sheet : sheet[i].room = n})]

\* A course is known by its code, and without one by its name.
CatalogKey(r) == IF r.code = Empty THEN r.course ELSE r.code

BuildCatalog ==
  LET named == {i \in DOMAIN sheet : sheet[i].course # Empty} IN
  [k \in {CatalogKey(sheet[i]) : i \in named} |->
     FirstRow({i \in named : CatalogKey(sheet[i]) = k})]

\* The grade cell, or else the one the class's name tells.
GradeFor(a, cell) == IF cell = Empty THEN YearOf[a.num] ELSE cell

BuildAdminGrades ==
  [a \in UNION {ToSet(r.admins) : r \in ToSet(sheet)} |->
     GradeFor(a, sheet[FirstRow({i \in DOMAIN sheet : a \in ToSet(sheet[i].admins)})].grade)]

BuildTables ==
  /\ stage = "tables" /\ stage' = "parallel"
  /\ rooms' = BuildClassrooms /\ catalog' = BuildCatalog /\ grades' = BuildAdminGrades
  /\ UNCHANGED <<argVars, nextRow, seqGroups, skipped, classes, offerings, lessons, files>>

KeyOf(s) == ToSet(seqGroups[s].members)

\* Two course numbers of one course for the same classes: all of them are left.
Parallel ==
  {s \in DOMAIN seqGroups :
     /\ KeyOf(s) # {}
     /\ \E t \in DOMAIN seqGroups \ {s} :
          KeyOf(t) = KeyOf(s) /\ seqGroups[t].code = seqGroups[s].code}

MarkParallel ==
  /\ stage = "parallel" /\ stage' = "classes"
  /\ skipped' = Parallel
  /\ UNCHANGED <<argVars, nextRow, tableVars, seqGroups, classes, offerings, lessons, files>>

Kept == {s \in DOMAIN seqGroups \ skipped : KeyOf(s) # {}}
AdminKeys == {KeyOf(s) : s \in Kept}

\* For each set of classes, the group that a loop over the map meets first.
FirstMet == {pick \in [AdminKeys -> Kept] : \A k \in AdminKeys : KeyOf(pick[k]) = k}
NameBy(pick, s) == TeachingClassName(seqGroups[pick[KeyOf(s)]].members)

BuildTeachingClasses ==
  /\ stage = "classes" /\ stage' = "offerings"
  /\ \E pick \in FirstMet :
       classes' = {[name |-> NameBy(pick, pick[k]), members |-> k] : k \in AdminKeys}
  /\ UNCHANGED <<argVars, nextRow, tableVars, seqGroups, skipped, offerings, lessons, files>>

\* One lesson per week of a slot.
ExpandSlot(s, slot) ==
  {[seq |-> s, row |-> slot.row, date |-> DayOf(w, slot.weekday),
    periods |-> slot.periods, room |-> slot.room] : w \in slot.weeks}

\* The lesson names its offering by the course and the teaching class.
SessionOf(c, pick) ==
  [seq |-> c.seq, row |-> c.row, date |-> c.date, periods |-> c.periods, room |-> c.room,
   course |-> seqGroups[c.seq].course, code |-> seqGroups[c.seq].code, class |-> NameBy(pick, c.seq)]

\* Without a teacher "未安排" is written.
JoinTeachers(s) == seqGroups[s].teachers

OfferingsBy(pick) ==
  {[seq |-> s, course |-> seqGroups[s].course, code |-> seqGroups[s].code,
    class |-> NameBy(pick, s), teachers |-> JoinTeachers(s)] : s \in Kept}
SessionsBy(pick) ==
  {SessionOf(c, pick) :
     c \in UNION {UNION {ExpandSlot(s, slot) : slot \in seqGroups[s].slots} : s \in Kept}}

BuildOfferingsSessions ==
  /\ stage = "offerings" /\ stage' = "validate"
  /\ \E pick \in FirstMet : offerings' = OfferingsBy(pick) /\ lessons' = SessionsBy(pick)
  /\ UNCHANGED <<argVars, nextRow, tableVars, seqGroups, skipped, classes, files>>

\* Mistake: only the period a lesson starts in is looked up.
RingsAtStart(l) ==
  regimens # {} /\ l.periods[1] \in ActiveFor(regimens, l.date).periods

Rings(l) ==
  regimens # {} /\ l.periods[1] .. l.periods[2] \subseteq ActiveFor(regimens, l.date).periods

\* One lesson outside the regimes refuses the whole sheet, and an empty sheet is refused.
ValidateRegimes ==
  /\ stage = "validate"
  /\ stage' = IF sheet # <<>> /\ \A l \in lessons : Rings(l) THEN "files" ELSE "refused"
  /\ UNCHANGED <<argVars, nextRow, tableVars, seqGroups, skipped, classes, offerings, lessons, files>>

EmitClassrooms == {[name |-> n, row |-> rooms[n]] : n \in DOMAIN rooms}
EmitCatalog == {[course |-> sheet[i].course, code |-> sheet[i].code] : i \in {catalog[k] : k \in DOMAIN catalog}}
EmitAdminClasses == {[name |-> a, grade |-> grades[a]] : a \in DOMAIN grades}
\* Each member on a line of its own.
EmitTeachingClasses ==
  UNION {{[class |-> c.name, name |-> a, grade |-> grades[a]] : a \in c.members} : c \in classes}
EmitOfferings == {[o EXCEPT !.teachers = IF @ = {} THEN {"unassigned"} ELSE @] : o \in offerings}
EmitSessions == lessons

Workbooks ==
  [classrooms |-> EmitClassrooms, catalog |-> EmitCatalog,
   adminClasses |-> EmitAdminClasses, teachingClasses |-> EmitTeachingClasses,
   offerings |-> EmitOfferings, sessions |-> EmitSessions]

\* A workbook that cannot be written refuses the sheet.
BuildFiles ==
  /\ stage = "files"
  /\ \/ stage' = "split" /\ files' = Workbooks
     \/ stage' = "refused" /\ UNCHANGED files
  /\ UNCHANGED <<argVars, nextRow, tableVars, seqGroups, skipped, classes, offerings, lessons>>

SplitNext ==
  \/ GroupBySeq \/ BuildTables \/ MarkParallel \/ BuildTeachingClasses
  \/ BuildOfferingsSessions \/ ValidateRegimes \/ BuildFiles

SplitSpec == SplitInit /\ [][SplitNext]_splitVars

----------------------------------------------------------------------------
(* Properties.                                                             *)

\* The rows as a reader of the sheet takes them: a course number stands for the
\* course and the classes of its first row.
LinesOf(s) == {i \in DOMAIN sheet : sheet[i].seq = s}
FirstOf(s) == FirstRow(LinesOf(s))
Numbers == {sheet[i].seq : i \in DOMAIN sheet} \ {NoSeq}
AdminsOf(s) == ToSet(sheet[FirstOf(s)].admins)
CodeOf(s) == sheet[FirstOf(s)].code
Alone(s) == \A t \in Numbers \ {s} : CodeOf(t) # CodeOf(s) \/ AdminsOf(t) # AdminsOf(s)

LinesToTeach ==
  {i \in DOMAIN sheet : /\ sheet[i].seq # NoSeq /\ Teaches(sheet[i])
                        /\ AdminsOf(sheet[i].seq) # {} /\ Alone(sheet[i].seq)}

\* A sheet that is split gives the lessons its rows say and no other: of every
\* course number with classes, unless another has the same course and classes,
\* each week of each row that can be read, once however many teachers repeat it;
\* and its offering has the teachers of all its rows (groupBySeq, markParallel).
SplitsTheSheet ==
  stage = "split" =>
    /\ {<<l.seq, l.date, l.periods, l.room>> : l \in files.sessions}
         = UNION {{<<sheet[i].seq, DayOf(w, sheet[i].weekday), sheet[i].periods, sheet[i].room>> :
                     w \in WeeksOf(sheet[i].weeks)} : i \in LinesToTeach}
    /\ \A l \in files.sessions, k \in files.sessions :
         (l.seq = k.seq /\ l.date = k.date /\ l.periods = k.periods /\ l.room = k.room /\ l # k) =>
           CellsOf(sheet[l.row]) # CellsOf(sheet[k.row])
    /\ \A o \in files.offerings :
         LET named == {sheet[i].teacher : i \in LinesOf(o.seq)} \ {Empty} IN
         o.teachers = IF named = {} THEN {"unassigned"} ELSE named

\* The files of a sheet that is split fit together: the room of every lesson is in
\* the classroom file, its course, if its name is known, in the catalog, its
\* offering in the offering file, and each of its classes in the admin class file
\* with a grade that some row gives it or else its name tells; and the lesson falls
\* where the bells ring: the regime that began last has every one of its periods.
\* That the teaching class file may name the classes otherwise, and that a class
\* without a grade is refused when it is imported, is not excluded (split.go
\* buildOfferingsSessions, validateRegimes).
FilesFitTogether ==
  stage = "split" =>
    \A l \in files.sessions :
      /\ \E c \in files.classrooms : c.name = l.room
      /\ l.course = Empty \/ \E c \in files.catalog : CatalogKey(c) = CatalogKey(l)
      /\ \E o \in files.offerings : o.code = l.code /\ o.class = l.class /\ o.seq = l.seq
      /\ \A a \in AdminsOf(l.seq) : \E c \in files.adminClasses :
           /\ c.name = a
           /\ \E i \in DOMAIN sheet :
                /\ a \in ToSet(sheet[i].admins)
                /\ c.grade = IF sheet[i].grade = Empty THEN YearOf[a.num] ELSE sheet[i].grade
      /\ \E r \in regimens :
           /\ l.periods[1] .. l.periods[2] \subseteq r.periods
           /\ \A o \in regimens : Since(r, l.date) <= Since(o, l.date)

----------------------------------------------------------------------------
(* The inductive invariant: what the rows read so far have made of each    *)
(* group, and what each later call left.                                   *)

Stages == {"rows", "tables", "parallel", "classes", "offerings", "validate", "files", "split",
           "refused"}
LinesDone(s) == {i \in 1 .. nextRow - 1 : sheet[i].seq = s}
SlotAt(i) == [room |-> sheet[i].room, weekday |-> sheet[i].weekday, periods |-> sheet[i].periods,
              weeks |-> WeeksOf(sheet[i].weeks), row |-> i]

\* Of the rows that repeat a slot the first one gives it.
SlotsOK(s, slots) ==
  /\ slots \subseteq {SlotAt(i) : i \in {j \in LinesDone(s) : Teaches(sheet[j])}}
  /\ \A i \in LinesDone(s) : Teaches(sheet[i]) =>
       \E t \in slots : CellsOf(sheet[t.row]) = CellsOf(sheet[i])
  /\ \A t, u \in slots : CellsOf(sheet[t.row]) = CellsOf(sheet[u.row]) => t = u

GroupOK(s, g) ==
  /\ g = [course |-> sheet[FirstOf(s)].course, code |-> CodeOf(s), members |-> g.members,
          teachers |-> {sheet[i].teacher : i \in LinesDone(s)} \ {Empty},
          seen |-> {CellsOf(sheet[i]) : i \in LinesDone(s)}, slots |-> g.slots]
  /\ ToSet(g.members) = AdminsOf(s)
  /\ SlotsOK(s, g.slots)

GroupsOK ==
  /\ DOMAIN seqGroups = {sheet[i].seq : i \in 1 .. nextRow - 1} \ {NoSeq}
  /\ \A s \in DOMAIN seqGroups : GroupOK(s, seqGroups[s])

TablesOK == rooms = BuildClassrooms /\ catalog = BuildCatalog /\ grades = BuildAdminGrades
WrittenOK == \E pick \in FirstMet : offerings = OfferingsBy(pick) /\ lessons = SessionsBy(pick)

ArgumentsOK ==
  /\ sheet \in Sheets /\ regimens \in Regimens /\ stage \in Stages
  /\ nextRow \in 1 .. Len(sheet) + 1
  /\ stage # "rows" => nextRow = Len(sheet) + 1

SplitIInv ==
  /\ ArgumentsOK /\ GroupsOK
  /\ stage \notin {"rows", "tables"} => TablesOK
  /\ stage \notin {"rows", "tables", "parallel"} => skipped = Parallel
  /\ stage \in {"validate", "files", "split"} => WrittenOK
  /\ stage \in {"files", "split"} => \A l \in lessons : Rings(l)
  /\ stage = "split" => files = Workbooks

----------------------------------------------------------------------------
\* Rows with the same members in another order are of the same teaching class
\* (teaching.go:28): so an offering names a class of the teaching class file.
OfferingsNameATeachingClass ==
  stage = "split" => \A o \in offerings : \E c \in classes : c.name = o.class

=============================================================================
