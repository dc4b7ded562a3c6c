------------------------------ MODULE Checkin ------------------------------
(***************************************************************************)
(* Attendance by code: scans are transactions that lock the check-in's     *)
(* row, read the clock and insert a record; closing and correcting are     *)
(* single statements of other requests.  The last write of a transaction   *)
(* is fused with its commit.  A check-in's two instants, the end of its    *)
(* grace period and its expiry, are events that may come in either order,  *)
(* or never.                                                               *)
(***************************************************************************)
CONSTANTS
  Checkins,   \* check-ins (a bound); the UNIQUE code finds exactly one
  Students,
  Scans,      \* scan requests served concurrently
  Unmarked,   \* no record
  None        \* no lock holder, no job

ASSUME CheckinAssumption ==
  /\ None \notin Scans
  /\ Unmarked \notin {"present", "late", "absent", "leave"}

VARIABLES
  status,     \* of each checkins row: none, active, closed
  lock,       \* holder of the FOR UPDATE lock of each checkins row
  late,       \* check-ins whose grace period is over
  over,       \* check-ins whose expires_at has passed
  record,     \* the status of each checkin_records row
  corrected,  \* rows with modified_by
  pc,         \* the next statement of each scan
  job,        \* check-in, student and verdict of each scan
  markedLate  \* history: check-ins at which a scan was recorded as late

vars == <<status, lock, late, over, record, corrected, pc, job, markedLate>>
clocks == <<late, over>>
rows == <<status, record, corrected, markedLate>>

ScanMarks == {"present", "late"}
Marks == ScanMarks \cup {"absent", "leave"}
Jobs == [k : Checkins, s : Students, verdict : ScanMarks]

Init ==
  /\ status = [k \in Checkins |-> "none"]
  /\ lock = [k \in Checkins |-> None]
  /\ late = {}
  /\ over = {}
  /\ record = [k \in Checkins |-> [s \in Students |-> Unmarked]]
  /\ corrected = {}
  /\ pc = [p \in Scans |-> "idle"]
  /\ job = [p \in Scans |-> None]
  /\ markedLate = {}

----------------------------------------------------------------------------
(* Teachers and time.                                                      *)

\* A code that collides is drawn again, so the row's code is its own.
CreateCheckin(k) ==
  /\ status[k] = "none"
  /\ status' = [status EXCEPT ![k] = "active"]
  /\ UNCHANGED <<lock, clocks, record, corrected, pc, job, markedLate>>

\* UPDATE ... WHERE status = 'active' waits for a scan that holds the row.
CloseCheckin(k) ==
  /\ status[k] = "active"
  /\ lock[k] = None
  /\ status' = [status EXCEPT ![k] = "closed"]
  /\ UNCHANGED <<lock, clocks, record, corrected, pc, job, markedLate>>

\* INSERT ... ON CONFLICT DO UPDATE, also after the check-in is closed.
UpsertRecord(k, s, m) ==
  /\ status[k] # "none"
  /\ record' = [record EXCEPT ![k][s] = m]
  /\ corrected' = corrected \cup {<<k, s>>}
  /\ UNCHANGED <<status, lock, clocks, pc, job, markedLate>>

\* A teacher may choose any of the four statuses.
UpdateRecord(k, s) == \E m \in Marks : UpsertRecord(k, s, m)

TimePasses(k) ==
  /\ status[k] # "none"
  /\ \/ k \notin late /\ late' = late \cup {k} /\ UNCHANGED over
     \/ k \notin over /\ over' = over \cup {k} /\ UNCHANGED late
  /\ UNCHANGED <<lock, rows, pc, job>>

----------------------------------------------------------------------------
(* A scan.                                                                 *)

Scan(p, k, s) ==
  /\ pc[p] = "idle"
  /\ status[k] # "none"
  /\ pc' = [pc EXCEPT ![p] = "lock"]
  /\ job' = [job EXCEPT ![p] = [k |-> k, s |-> s, verdict |-> "present"]]
  /\ UNCHANGED <<lock, clocks, rows>>

\* Mistake: the transaction's end does not reach the database.
FinishKeepsLock(p) ==
  /\ pc' = [pc EXCEPT ![p] = "idle"]
  /\ job' = [job EXCEPT ![p] = None]
  /\ UNCHANGED <<lock, clocks>>

\* Commit or rollback.
Finish(p) ==
  /\ pc' = [pc EXCEPT ![p] = "idle"]
  /\ job' = [job EXCEPT ![p] = None]
  /\ lock' = [k \in Checkins |-> IF lock[k] = p THEN None ELSE lock[k]]
  /\ UNCHANGED clocks

Rollback(p) == Finish(p) /\ UNCHANGED rows

\* Mistake: a SELECT without FOR UPDATE.
SelectCheckin(p) ==
  LET k == job[p].k IN
  /\ pc[p] = "lock"
  /\ \/ /\ status[k] = "active"
        /\ pc' = [pc EXCEPT ![p] = "judge"]
        /\ UNCHANGED <<lock, clocks, rows, job>>
     \/ status[k] # "active" /\ Rollback(p)

LockCheckin(p) ==
  LET k == job[p].k IN
  /\ pc[p] = "lock"
  /\ lock[k] = None
  /\ \/ /\ status[k] = "active"
        /\ lock' = [lock EXCEPT ![k] = p]
        /\ pc' = [pc EXCEPT ![p] = "judge"]
        /\ UNCHANGED <<clocks, rows, job>>
     \/ status[k] # "active" /\ Rollback(p)

\* The expired check-in is set to closed inside the transaction, and the error
\* return that follows rolls this back.
RefuseExpired(p) ==
  /\ pc[p] = "judge"
  /\ job[p].k \in over
  /\ Rollback(p)

\* The clock decides between present and late.
Judge(p) ==
  /\ pc[p] = "judge"
  /\ job[p].k \notin over
  /\ pc' = [pc EXCEPT ![p] = "record"]
  /\ job' = [job EXCEPT ![p].verdict = IF job[p].k \in late THEN "late" ELSE "present"]
  /\ UNCHANGED <<lock, clocks, rows>>

InsertRecord(p) ==
  /\ record' = [record EXCEPT ![job[p].k][job[p].s] = job[p].verdict]
  /\ markedLate' = IF job[p].verdict = "late" THEN markedLate \cup {job[p].k} ELSE markedLate

\* Mistake: ON CONFLICT DO UPDATE.
RecordOverwrites(p) ==
  /\ pc[p] = "record"
  /\ InsertRecord(p)
  /\ Finish(p)
  /\ UNCHANGED <<status, corrected>>

\* INSERT ... ON CONFLICT DO NOTHING, and the commit.
Record(p) ==
  /\ pc[p] = "record"
  /\ \/ /\ record[job[p].k][job[p].s] = Unmarked
        /\ InsertRecord(p)
     \/ /\ record[job[p].k][job[p].s] # Unmarked
        /\ UNCHANGED <<record, markedLate>>
  /\ Finish(p)
  /\ UNCHANGED <<status, corrected>>

\* A failing statement, a cancelled request or a lost connection.
Abort(p) ==
  /\ pc[p] # "idle"
  /\ Rollback(p)

----------------------------------------------------------------------------
Proceed(p) == RefuseExpired(p) \/ Judge(p) \/ Record(p)

Next ==
  \/ \E k \in Checkins :
       \/ CreateCheckin(k) \/ CloseCheckin(k) \/ TimePasses(k)
       \/ \E s \in Students : UpdateRecord(k, s) \/ \E p \in Scans : Scan(p, k, s)
  \/ \E p \in Scans : LockCheckin(p) \/ Proceed(p) \/ Abort(p)

Spec == Init /\ [][Next]_vars

\* A scan keeps executing; PostgreSQL serves the waiters of a row lock in the
\* order of their arrival.
Fairness == \A p \in Scans : WF_vars(Proceed(p)) /\ SF_vars(LockCheckin(p))

FairSpec == Spec /\ Fairness

----------------------------------------------------------------------------
(* Properties.                                                             *)

TypeOK ==
  /\ status \in [Checkins -> {"none", "active", "closed"}]
  /\ lock \in [Checkins -> Scans \cup {None}]
  /\ late \subseteq Checkins
  /\ over \subseteq Checkins
  /\ record \in [Checkins -> [Students -> Marks \cup {Unmarked}]]
  /\ corrected \subseteq Checkins \X Students
  /\ pc \in [Scans -> {"idle", "lock", "judge", "record"}]
  /\ job \in [Scans -> Jobs \cup {None}]
  /\ markedLate \subseteq Checkins

\* A scan works on its job, and past the lock it owns an active row; what it
\* judged present was judged before anyone was recorded as late.
ScanOK(p) ==
  /\ pc[p] # "idle" => job[p] \in Jobs
  /\ pc[p] \in {"judge", "record"} =>
       lock[job[p].k] = p /\ status[job[p].k] = "active"
  /\ pc[p] = "record" => IF job[p].verdict = "late" THEN job[p].k \in late
                         ELSE job[p].k \notin markedLate

\* The inductive invariant: the lock and the scans that are past it agree, and
\* a corrected record exists.
IInv ==
  /\ TypeOK
  /\ \A c \in corrected : record[c[1]][c[2]] # Unmarked
  /\ \A p \in Scans : ScanOK(p)
  /\ \A k \in Checkins : lock[k] # None => /\ pc[lock[k]] \in {"judge", "record"}
                                           /\ job[lock[k]].k = k
  /\ markedLate \subseteq late

\* A teacher's correction is never overwritten by a scan, whether the scan
\* started before or after it (attendance/store.go ScanByCode, UpsertRecord).
CorrectionStands ==
  [][\A p \in Scans : Record(p) =>
       \A c \in corrected : record'[c[1]][c[2]] = record[c[1]][c[2]]]_vars

\* Scans are judged in the order in which they are recorded: nobody is recorded
\* as present after somebody was recorded as late (the clock is read under the
\* row lock).
PresentBeforeLate ==
  [][\A p \in Scans : Record(p) =>
       \A k \in markedLate, s \in Students :
         record[k][s] = Unmarked => record'[k][s] # "present"]_vars

\* Scans, closes and corrections are atomic: a student marks herself at most
\* once and only while the check-in is open.
Abstract == INSTANCE Attendance WITH phase <- status, mark <- record
RefinesAttendance == Abstract!Spec

\* Every scan is answered.
ScanAnswered == \A p \in Scans : pc[p] # "idle" ~> pc[p] = "idle"
=============================================================================
