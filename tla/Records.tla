------------------------------- MODULE Records -------------------------------
(***************************************************************************)
(* The tables other tables refer to by id: the course catalog, classrooms  *)
(* and admin classes, with the rows that name them.  No row refers by a    *)
(* foreign key: a deletion counts what refers to its row and deletes it    *)
(* with a second statement, and who inserts a reference looks for its      *)
(* target beforehand, or does not look at all.  The tables do not meet: a  *)
(* behaviour is about one of them.  Columns but the key are left out, and  *)
(* a transaction's writes are one step.                                    *)
(***************************************************************************)
EXTENDS Naturals, Sequences, FiniteSets, SequencesExt

CONSTANTS
  RowIds, Keys,    \* of each table (ids are a bound and never drawn twice)
  MaxRows,         \* bound: rows of a file
  Students,        \* accounts of type student
  Clerks,          \* requests served concurrently
  BlankCell,       \* a cell without a key
  NoKey, Erased, NoClass

ASSUME RecordsAssumption ==
  Keys \cap {NoKey, Erased, BlankCell} = {} /\ NoClass \notin RowIds /\ MaxRows \in Nat

Tables == {"course_catalog", "classrooms", "admin_classes"}

VARIABLES
  table,      \* which table
  keyed,      \* the key of each of its rows: no row yet, deleted
  referring,  \* the rows that other rows name, with what names them
  profile,    \* the admin class in the student_profiles row of each student
  students,   \* accounts that exist
  clerk       \* the request each clerk is in the middle of

recordVars == <<table, keyed, referring, profile, students, clerk>>

Present(i) == keyed[i] \notin {NoKey, Erased}
Vacant(k) == \A i \in RowIds : keyed[i] # k

\* What names a row: offerings a course; lessons (and bookings alike) and repair
\* tickets a room; memberships of teaching classes an admin class.
Referrers == [course_catalog |-> {"offering"}, classrooms |-> {"lesson", "ticket"},
          admin_classes |-> {"member"}]

\* What refuses a deletion: neither repair tickets nor student profiles do.
Counted == {"offering", "lesson", "member"}
Referenced(i) == \E k \in Counted : <<k, i>> \in referring

RecordsInit ==
  /\ table \in Tables
  /\ keyed = [i \in RowIds |-> NoKey]
  /\ referring = {}
  /\ profile = [s \in Students |-> NoClass]
  /\ students = Students
  /\ clerk = [c \in Clerks |-> <<"idle">>]

----------------------------------------------------------------------------
(* Rows.                                                                   *)

\* The trimmed cells, in range; a row without a key is refused.
Normalized(k) == k # BlankCell

Others == <<table, referring, profile, students, clerk>>

CreateRow(i, k) ==
  /\ Normalized(k) /\ keyed[i] = NoKey /\ Vacant(k)
  /\ keyed' = [keyed EXCEPT ![i] = k]
  /\ UNCHANGED Others

SaveRow(i, k) ==
  /\ Normalized(k) /\ Present(i) /\ (Vacant(k) \/ keyed[i] = k)
  /\ keyed' = [keyed EXCEPT ![i] = k]
  /\ UNCHANGED Others

\* Of a file the rows that are well-formed, the first of those with one key; the
\* others are reported.
ReadRows(file) == {k \in ToSet(file) : Normalized(k)}

\* One transaction of upserts by key: rows that exist keep their id.
ImportRows(file) ==
  LET new == {k \in ReadRows(file) : Vacant(k)} IN
  \E f \in [new -> {i \in RowIds : keyed[i] = NoKey}] :
    /\ new # {}
    /\ \A k, l \in new : f[k] = f[l] => k = l
    /\ keyed' = [i \in RowIds |->
         IF \E k \in new : f[k] = i THEN CHOOSE k \in new : f[k] = i ELSE keyed[i]]
    /\ UNCHANGED Others

CreateCatalog(i, k) == table = "course_catalog" /\ CreateRow(i, k)
UpdateCatalog(i, k) == table = "course_catalog" /\ SaveRow(i, k)
ImportCatalog(file) == table = "course_catalog" /\ ImportRows(file)

CreateClassroom(i, k) == table = "classrooms" /\ CreateRow(i, k)
UpdateClassroom(i, k) == table = "classrooms" /\ SaveRow(i, k)
ImportClassrooms(file) == table = "classrooms" /\ ImportRows(file)

CreateAdminClass(i, k) == table = "admin_classes" /\ CreateRow(i, k)
UpdateAdminClass(i, k) == table = "admin_classes" /\ SaveRow(i, k)
ImportAdminClasses(file) == table = "admin_classes" /\ ImportRows(file)

----------------------------------------------------------------------------
(* Requests of two statements.                                             *)

Enter(c, what) ==
  /\ clerk[c] = <<"idle">>
  /\ clerk' = [clerk EXCEPT ![c] = what]
  /\ UNCHANGED <<table, keyed, referring, profile, students>>

Leave(c) == clerk' = [clerk EXCEPT ![c] = <<"idle">>]

CountReferences(c, i) ==
  /\ Present(i) /\ ~Referenced(i)
  /\ Enter(c, <<"delete", i>>)

DeleteCatalog(c, i) == table = "course_catalog" /\ CountReferences(c, i)
DeleteClassroom(c, i) == table = "classrooms" /\ CountReferences(c, i)
DeleteAdminClass(c, i) == table = "admin_classes" /\ CountReferences(c, i)

DeleteRow(c) ==
  /\ clerk[c][1] = "delete"
  /\ keyed' = [keyed EXCEPT ![clerk[c][2]] = Erased]
  /\ Leave(c)
  /\ UNCHANGED <<table, referring, profile, students>>

\* adminClassesExist, the look of a booking, a lesson or a ticket at its room, of
\* which only an import's takes no lock, and the names an import resolves; an
\* offering made by hand does not ask for its course.
FindTarget(c, k, i) ==
  /\ (k = "offering" \/ Present(i))
  /\ Enter(c, <<"refer", k, i>>)

InsertReference(c) ==
  /\ clerk[c][1] = "refer"
  /\ referring' = referring \cup {<<clerk[c][2], clerk[c][3]>>}
  /\ Leave(c)
  /\ UNCHANGED <<table, keyed, profile, students>>

\* Offerings, bookings, sessions, tickets and teaching classes are deleted.
DropReference(x) ==
  /\ referring' = referring \ {x}
  /\ UNCHANGED <<table, keyed, profile, students, clerk>>

----------------------------------------------------------------------------
(* The roster of an admin class, which nobody asks whether it exists.      *)

FindStudent(c, s, i) ==
  /\ table = "admin_classes" /\ s \in students
  /\ Enter(c, <<"enrol", s, i>>)

\* UNIQUE (user_id): a student who has a profile stays where she is.
AddStudent(c) ==
  /\ clerk[c][1] = "enrol"
  /\ profile' = [profile EXCEPT ![clerk[c][2]] = IF @ = NoClass THEN clerk[c][3] ELSE @]
  /\ Leave(c)
  /\ UNCHANGED <<table, keyed, referring, students>>

DeleteStudent(s) ==
  /\ profile[s] # NoClass
  /\ profile' = [profile EXCEPT ![s] = NoClass]
  /\ UNCHANGED <<table, keyed, referring, students, clerk>>

\* The account goes, the profile stays.
DeleteAccount(s) ==
  /\ table = "admin_classes" /\ students' = students \ {s}
  /\ UNCHANGED <<table, keyed, referring, profile, clerk>>

\* A failing statement, a cancelled request or a crash.
GiveUp(c) ==
  /\ clerk[c] # <<"idle">>
  /\ Leave(c)
  /\ UNCHANGED <<table, keyed, referring, profile, students>>

Sheaves == BoundedSeq(Keys \cup {BlankCell}, MaxRows)

\* The routes of the three tables, each with the files that fill it.
CatalogRequest ==
  \/ \E i \in RowIds, k \in Keys \cup {BlankCell} : CreateCatalog(i, k) \/ UpdateCatalog(i, k)
  \/ \E c \in Clerks, i \in RowIds : DeleteCatalog(c, i)
  \/ \E file \in Sheaves : ImportCatalog(file)

ClassroomRequest ==
  \/ \E i \in RowIds, k \in Keys \cup {BlankCell} : CreateClassroom(i, k) \/ UpdateClassroom(i, k)
  \/ \E c \in Clerks, i \in RowIds : DeleteClassroom(c, i)
  \/ \E file \in Sheaves : ImportClassrooms(file)

AdminClassRequest ==
  \/ \E i \in RowIds, k \in Keys \cup {BlankCell} : CreateAdminClass(i, k) \/ UpdateAdminClass(i, k)
  \/ \E c \in Clerks, i \in RowIds : DeleteAdminClass(c, i)
  \/ \E file \in Sheaves : ImportAdminClasses(file)

StudentRequest ==
  \E s \in Students :
    \/ DeleteStudent(s) \/ DeleteAccount(s)
    \/ \E c \in Clerks, i \in RowIds : FindStudent(c, s, i)

RecordsNext ==
  \/ CatalogRequest \/ ClassroomRequest \/ AdminClassRequest \/ StudentRequest
  \/ \E c \in Clerks, k \in Referrers[table], i \in RowIds : FindTarget(c, k, i)
  \/ \E x \in referring : DropReference(x)
  \/ \E c \in Clerks : DeleteRow(c) \/ InsertReference(c) \/ AddStudent(c) \/ GiveUp(c)

RecordsSpec == RecordsInit /\ [][RecordsNext]_recordVars

----------------------------------------------------------------------------
(* Properties.                                                             *)

\* A deletion is answered 409 "teaching classes still reference the admin class"
\* (user/org_handler.go:201): no admin class goes that a teaching class has.
\* DeleteAdminClass counts in one statement and deletes in another.
MembersKeepTheirClass ==
  [][\A i \in RowIds : Present(i) /\ ~Present(i)' => <<"member", i>> \notin referring]_recordVars

RecordsTypeOK ==
  /\ keyed \in [RowIds -> Keys \cup {NoKey, Erased}]
  /\ referring \subseteq Referrers[table] \X RowIds
  /\ profile \in [Students -> RowIds \cup {NoClass}] /\ students \subseteq Students
  /\ \A c \in Clerks :
       \/ clerk[c] = <<"idle">>
       \/ \E i \in RowIds : clerk[c] = <<"delete", i>>
       \/ \E k \in Referrers[table], i \in RowIds : clerk[c] = <<"refer", k, i>>
       \/ \E s \in Students, i \in RowIds : clerk[c] = <<"enrol", s, i>>
=============================================================================
