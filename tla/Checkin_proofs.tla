--------------------------- MODULE Checkin_proofs ---------------------------
(***************************************************************************)
(* Proofs about Checkin, for every set of check-ins, students and scans:   *)
(* the inductive invariant, that corrections stand, that nobody is present *)
(* after somebody was late, and that the transactions implement Attendance.*)
(* Then about Assistant, for any tables of regimes and any slots: a turn   *)
(* judges by the table its prompt showed.                                  *)
(***************************************************************************)
EXTENDS Checkin, Assistant, Bells_proofs

\* Before any scan the invariant holds.
LEMMA InitInductive == Init => IInv
BY CheckinAssumption DEF Init, IInv, TypeOK, ScanOK

\* The end of a transaction frees its own lock and nobody else's.
LEMMA FinishFrees ==
  ASSUME IInv, NEW p \in Scans, Finish(p)
  PROVE  /\ lock' \in [Checkins -> Scans \cup {None}]
         /\ pc' \in [Scans -> {"idle", "lock", "judge", "record"}]
         /\ job' \in [Scans -> Jobs \cup {None}]
         /\ pc'[p] = "idle"
         /\ \A q \in Scans : q # p => pc'[q] = pc[q] /\ job'[q] = job[q]
         /\ \A k \in Checkins : lock'[k] = IF lock[k] = p THEN None ELSE lock[k]
         /\ UNCHANGED clocks
BY DEF IInv, TypeOK, Finish

\* Two scans past their lock are at different check-ins.
LEMMA OneScanInside ==
  ASSUME IInv, NEW p \in Scans, NEW q \in Scans, p # q,
         pc[p] \in {"judge", "record"}, pc[q] \in {"judge", "record"}
  PROVE  job[p].k # job[q].k
BY DEF IInv, ScanOK

\* A rolled back scan leaves its records as they were.
LEMMA RollbackInductive ==
  ASSUME IInv, NEW p \in Scans, Rollback(p)
  PROVE  IInv'
<1> USE DEF IInv, Rollback, rows, clocks
<1>1. TypeOK'
  BY FinishFrees DEF TypeOK
<1>2. ASSUME NEW q \in Scans PROVE ScanOK(q)'
  <2>1. CASE q = p
    BY <2>1, FinishFrees DEF ScanOK
  <2>2. CASE q # p
    <3>1. pc'[q] = pc[q] /\ job'[q] = job[q]
      BY <2>2, FinishFrees
    <3>2. pc[q] \in {"judge", "record"} => lock'[job[q].k] = lock[job[q].k]
      BY <2>2, FinishFrees, CheckinAssumption DEF ScanOK, Jobs, TypeOK
    <3>3. late' = late
      BY FinishFrees
    <3> QED BY <3>1, <3>2, <3>3 DEF ScanOK
  <2> QED BY <2>1, <2>2
<1>3. ASSUME NEW k \in Checkins, lock'[k] # None
      PROVE  pc'[lock'[k]] \in {"judge", "record"} /\ job'[lock'[k]].k = k
  <2>1. lock'[k] = lock[k] /\ lock[k] # p /\ lock[k] \in Scans
    BY <1>3, FinishFrees, CheckinAssumption DEF TypeOK
  <2> QED BY <2>1, <1>3, FinishFrees
<1>4. markedLate' \subseteq late' /\ \A c \in corrected' : record'[c[1]][c[2]] # Unmarked
  BY FinishFrees
<1> QED BY <1>1, <1>2, <1>3, <1>4

\* Steps of teachers and of time touch no scan.
LEMMA OutsideStep ==
  ASSUME IInv, NEW k \in Checkins,
         \/ CreateCheckin(k) \/ CloseCheckin(k) \/ TimePasses(k)
         \/ \E s \in Students : UpdateRecord(k, s)
  PROVE  IInv'
<1> USE DEF IInv, TypeOK, clocks, rows
<1>1. CASE CreateCheckin(k)
  <2>1. status' = [status EXCEPT ![k] = "active"] /\ status[k] = "none"
    BY <1>1 DEF CreateCheckin
  <2>2. \A p \in Scans : ScanOK(p)'
    BY <1>1, <2>1 DEF CreateCheckin, ScanOK, Jobs
  <2> QED BY <1>1, <2>1, <2>2 DEF CreateCheckin
<1>2. CASE CloseCheckin(k)
  <2>1. status' = [status EXCEPT ![k] = "closed"] /\ lock[k] = None
    BY <1>2 DEF CloseCheckin
  <2>2. ASSUME NEW p \in Scans PROVE ScanOK(p)'
    <3>1. pc[p] \in {"judge", "record"} => job[p].k # k
      BY <2>1, CheckinAssumption DEF ScanOK
    <3> QED BY <1>2, <2>1, <3>1 DEF CloseCheckin, ScanOK, Jobs
  <2> QED BY <1>2, <2>1, <2>2 DEF CloseCheckin
<1>3. CASE TimePasses(k)
  BY <1>3 DEF TimePasses, ScanOK
<1>4. ASSUME NEW s \in Students, UpdateRecord(k, s) PROVE IInv'
  <2>1. PICK m \in Marks : record' = [record EXCEPT ![k][s] = m]
    BY <1>4 DEF UpdateRecord, UpsertRecord
  <2>2. record' \in [Checkins -> [Students -> Marks \cup {Unmarked}]]
    BY <2>1
  <2>3. m # Unmarked
    BY CheckinAssumption DEF Marks, ScanMarks
  <2>4. corrected' = corrected \cup {<<k, s>>} /\ corrected' \subseteq Checkins \X Students
    BY <1>4 DEF UpdateRecord, UpsertRecord
  <2>5. \A c \in corrected' : record'[c[1]][c[2]] # Unmarked
    BY <2>1, <2>3, <2>4
  <2>6. \A p \in Scans : ScanOK(p)'
    BY <1>4 DEF UpdateRecord, UpsertRecord, ScanOK
  <2> QED BY <1>4, <2>2, <2>4, <2>5, <2>6 DEF UpdateRecord, UpsertRecord
<1> QED BY <1>1, <1>2, <1>3, <1>4

\* A scan that arrives holds no lock and has judged nothing.
LEMMA ArriveStep ==
  ASSUME IInv, NEW p \in Scans, NEW k \in Checkins, NEW s \in Students, Scan(p, k, s)
  PROVE  IInv'
<1> USE DEF IInv, TypeOK, clocks, rows
<1>1. /\ pc[p] = "idle"
      /\ pc' = [pc EXCEPT ![p] = "lock"]
      /\ job' = [job EXCEPT ![p] = [k |-> k, s |-> s, verdict |-> "present"]]
  BY DEF Scan
<1>2. job' \in [Scans -> Jobs \cup {None}]
  BY <1>1 DEF Jobs, ScanMarks
<1>3. ASSUME NEW q \in Scans PROVE ScanOK(q)'
  BY <1>1 DEF Scan, ScanOK, Jobs, ScanMarks
<1>4. \A l \in Checkins : lock[l] # p
  BY <1>1, CheckinAssumption
<1> QED BY <1>1, <1>2, <1>3, <1>4 DEF Scan

\* The row lock is taken when nobody holds it.
LEMMA LockStep ==
  ASSUME IInv, NEW p \in Scans, LockCheckin(p)
  PROVE  IInv'
<1> USE DEF IInv, TypeOK, clocks, rows
<1>1. CASE Rollback(p)
  BY <1>1, RollbackInductive
<1>2. CASE ~Rollback(p)
  <2> DEFINE k == job[p].k
  <2>1. k \in Checkins
    BY DEF LockCheckin, ScanOK, Jobs
  <2>2. /\ pc[p] = "lock" /\ lock[k] = None /\ status[k] = "active"
        /\ lock' = [lock EXCEPT ![k] = p]
        /\ pc' = [pc EXCEPT ![p] = "judge"]
        /\ UNCHANGED <<clocks, rows, job>>
    BY <1>2 DEF LockCheckin
  <2>3. ASSUME NEW q \in Scans PROVE ScanOK(q)'
    <3>1. CASE q = p
      BY <2>1, <2>2, <3>1 DEF ScanOK
    <3>2. CASE q # p
      <4>1. pc[q] \in {"judge", "record"} => job[q].k # k
        BY <2>2, CheckinAssumption DEF ScanOK
      <4> QED BY <2>2, <3>2, <4>1 DEF ScanOK, Jobs
    <3> QED BY <3>1, <3>2
  <2>4. ASSUME NEW l \in Checkins, lock'[l] # None
        PROVE  pc'[lock'[l]] \in {"judge", "record"} /\ job'[lock'[l]].k = l
    <3>1. CASE l = k
      BY <2>1, <2>2, <3>1
    <3>2. CASE l # k
      BY <2>1, <2>2, <2>4, <3>2, CheckinAssumption
    <3> QED BY <3>1, <3>2
  <2> QED BY <2>1, <2>2, <2>3, <2>4
<1> QED BY <1>1, <1>2

\* A scan judges by the phase of the check-in that it has locked.
LEMMA JudgeStep ==
  ASSUME IInv, NEW p \in Scans, Judge(p)
  PROVE  IInv'
<1> USE DEF IInv, TypeOK, clocks, rows
<1> DEFINE v == IF job[p].k \in late THEN "late" ELSE "present"
<1>1. /\ pc[p] = "judge" /\ pc' = [pc EXCEPT ![p] = "record"]
      /\ job' = [job EXCEPT ![p].verdict = v]
      /\ UNCHANGED <<lock, clocks, rows>>
  BY DEF Judge
<1>2. job[p] \in Jobs
  BY <1>1 DEF ScanOK
<1>3. job'[p] \in Jobs /\ job'[p].k = job[p].k /\ job'[p].verdict = v
  BY <1>1, <1>2 DEF Jobs, ScanMarks
<1>4. job' \in [Scans -> Jobs \cup {None}]
  BY <1>1, <1>3
<1>5. ASSUME NEW q \in Scans PROVE ScanOK(q)'
  BY <1>1, <1>3 DEF ScanOK
<1>6. ASSUME NEW l \in Checkins, lock[l] # None
      PROVE  pc'[lock[l]] \in {"judge", "record"} /\ job'[lock[l]].k = l
  BY <1>1, <1>3, <1>6
<1> QED BY <1>1, <1>4, <1>5, <1>6

\* A scan writes what it judged, unless there is a record already.
LEMMA RecordStep ==
  ASSUME IInv, NEW p \in Scans, Record(p)
  PROVE  IInv'
<1> USE DEF IInv, rows, clocks
<1> DEFINE k == job[p].k
           s == job[p].s
<1>1. k \in Checkins /\ s \in Students /\ job[p].verdict \in ScanMarks
  BY DEF Record, ScanOK, Jobs
<1>2. /\ pc[p] = "record" /\ lock[k] = p /\ Finish(p)
      /\ UNCHANGED <<status, corrected>>
  BY DEF Record, ScanOK
<1>3. record' \in [Checkins -> [Students -> Marks \cup {Unmarked}]]
  <2>1. CASE UNCHANGED record
    BY <2>1 DEF TypeOK
  <2>2. CASE record' = [record EXCEPT ![k][s] = job[p].verdict]
    BY <1>1, <2>2 DEF TypeOK, Marks
  <2> QED BY <2>1, <2>2 DEF Record, InsertRecord
<1>4. markedLate' \subseteq late /\ markedLate' \subseteq Checkins
      /\ markedLate' \subseteq markedLate \cup {k}
  <2>1. job[p].verdict = "late" => k \in late
    BY <1>2 DEF ScanOK
  <2> QED BY <1>1, <2>1 DEF Record, InsertRecord, TypeOK, ScanOK
<1>5. TypeOK'
  BY <1>2, <1>3, <1>4, FinishFrees DEF TypeOK
<1>6. ASSUME NEW q \in Scans PROVE ScanOK(q)'
  <2>1. CASE q = p
    BY <2>1, <1>2, FinishFrees DEF ScanOK
  <2>2. CASE q # p
    <3>1. pc'[q] = pc[q] /\ job'[q] = job[q]
      BY <1>2, <2>2, FinishFrees
    <3>2. pc[q] \in {"judge", "record"} =>
            lock'[job[q].k] = lock[job[q].k] /\ job[q].k # k
      BY <1>2, <2>2, FinishFrees, OneScanInside, CheckinAssumption DEF ScanOK, Jobs, TypeOK
    <3>3. late' = late
      BY <1>2, FinishFrees
    <3> QED BY <1>2, <1>4, <3>1, <3>2, <3>3 DEF ScanOK
  <2> QED BY <2>1, <2>2
<1>7. ASSUME NEW l \in Checkins, lock'[l] # None
      PROVE  pc'[lock'[l]] \in {"judge", "record"} /\ job'[lock'[l]].k = l
  <2>1. lock'[l] = lock[l] /\ lock[l] # p /\ lock[l] \in Scans
    BY <1>2, <1>7, FinishFrees, CheckinAssumption DEF TypeOK
  <2> QED BY <1>2, <1>7, <2>1, FinishFrees
<1>8. \A c \in corrected' : record'[c[1]][c[2]] # Unmarked
  BY <1>1, <1>2, CheckinAssumption DEF Record, InsertRecord, TypeOK, ScanMarks
<1>9. late' = late
  BY <1>2, FinishFrees
<1> QED BY <1>4, <1>5, <1>6, <1>7, <1>8, <1>9

\* Every step keeps the invariant.
LEMMA NextInductive == IInv /\ [Next]_vars => IInv'
<1> SUFFICES ASSUME IInv, [Next]_vars PROVE IInv'
  OBVIOUS
<1>1. CASE Next
  BY <1>1, OutsideStep, ArriveStep, LockStep, JudgeStep, RecordStep, RollbackInductive
     DEF Next, Proceed, RefuseExpired, Abort
<1>2. CASE UNCHANGED vars
  BY <1>2 DEF vars, IInv, TypeOK, ScanOK
<1> QED BY <1>1, <1>2

\* The inductive invariant holds in every reachable state.
THEOREM Invariance == Spec => []IInv
BY InitInductive, NextInductive, PTL DEF Spec

----------------------------------------------------------------------------
(* The action properties.                                                  *)

\* A scan records its own student only, and only where there is no record.
LEMMA RecordIsLocal ==
  ASSUME IInv, NEW p \in Scans, Record(p), NEW k \in Checkins, NEW s \in Students,
         record'[k][s] # record[k][s]
  PROVE  /\ k = job[p].k /\ s = job[p].s
         /\ record[k][s] = Unmarked
         /\ record'[k][s] = job[p].verdict
         /\ pc[p] = "record"
<1> job[p].k \in Checkins /\ job[p].s \in Students
  BY DEF Record, IInv, ScanOK, Jobs
<1> QED BY DEF Record, InsertRecord, IInv, TypeOK

\* No scan overwrites a correction (attendance/store.go ScanByCode).
THEOREM Corrections == Spec => CorrectionStands
<1>1. ASSUME IInv, NEW p \in Scans, Record(p), NEW c \in corrected
      PROVE  record'[c[1]][c[2]] = record[c[1]][c[2]]
  <2>1. c[1] \in Checkins /\ c[2] \in Students /\ record[c[1]][c[2]] # Unmarked
    BY <1>1 DEF IInv, TypeOK
  <2> QED BY <1>1, <2>1, RecordIsLocal
<1>2. IInv => [\A p \in Scans : Record(p) =>
                \A c \in corrected : record'[c[1]][c[2]] = record[c[1]][c[2]]]_vars
  BY <1>1
<1> QED BY <1>2, Invariance, PTL DEF CorrectionStands

\* Nobody is recorded as present after somebody was recorded as late.
THEOREM Lateness == Spec => PresentBeforeLate
<1>1. ASSUME IInv, NEW p \in Scans, Record(p), NEW k \in markedLate, NEW s \in Students,
             record[k][s] = Unmarked
      PROVE  record'[k][s] # "present"
  <2>1. k \in Checkins
    BY <1>1 DEF IInv, TypeOK
  <2>2. CASE record'[k][s] = record[k][s]
    BY <1>1, <2>2, CheckinAssumption
  <2>3. CASE record'[k][s] # record[k][s]
    <3>1. k = job[p].k /\ record'[k][s] = job[p].verdict /\ pc[p] = "record"
      BY <1>1, <2>1, <2>3, RecordIsLocal
    <3>2. job[p].verdict = "late"
      BY <1>1, <3>1 DEF IInv, ScanOK
    <3> QED BY <3>1, <3>2
  <2> QED BY <2>2, <2>3
<1>2. IInv => [\A p \in Scans : Record(p) =>
                \A k \in markedLate, s \in Students :
                  record[k][s] = Unmarked => record'[k][s] # "present"]_vars
  BY <1>1
<1> QED BY <1>2, Invariance, PTL DEF PresentBeforeLate

----------------------------------------------------------------------------
(* The refinement of Attendance.                                           *)

\* Every step is a step of Attendance or leaves the roll as it is.
LEMMA StepRefines ==
  ASSUME IInv, [Next]_vars
  PROVE  [Abstract!Next]_<<status, record, corrected>>
<1> USE DEF Abstract!Next
<1>1. ASSUME NEW k \in Checkins, CreateCheckin(k) PROVE Abstract!Open(k)
  BY <1>1 DEF CreateCheckin, Abstract!Open
<1>2. ASSUME NEW k \in Checkins, CloseCheckin(k) PROVE Abstract!Close(k)
  BY <1>2 DEF CloseCheckin, Abstract!Close
<1>3. ASSUME NEW k \in Checkins, NEW s \in Students, UpdateRecord(k, s)
      PROVE  \E m \in Abstract!Marks : Abstract!Correct(k, s, m)
  BY <1>3 DEF UpdateRecord, UpsertRecord, Abstract!Correct, Abstract!Marks, Abstract!ScanMarks,
              Marks, ScanMarks
<1>4. ASSUME NEW p \in Scans, Record(p)
      PROVE  \/ UNCHANGED <<status, record, corrected>>
             \/ \E k \in Checkins, s \in Students :
                  \E m \in Abstract!ScanMarks : Abstract!MarkSelf(k, s, m)
  <2>1. CASE UNCHANGED record
    BY <1>4, <2>1 DEF Record
  <2>2. CASE ~UNCHANGED record
    <3>1. /\ record[job[p].k][job[p].s] = Unmarked
          /\ record' = [record EXCEPT ![job[p].k][job[p].s] = job[p].verdict]
          /\ UNCHANGED <<status, corrected>>
      BY <1>4, <2>2 DEF Record, InsertRecord
    <3>2. job[p].k \in Checkins /\ job[p].s \in Students
          /\ job[p].verdict \in Abstract!ScanMarks /\ status[job[p].k] = "active"
      BY <1>4 DEF Record, IInv, ScanOK, Jobs, ScanMarks, Abstract!ScanMarks
    <3>3. Abstract!MarkSelf(job[p].k, job[p].s, job[p].verdict)
      BY <3>1, <3>2 DEF Abstract!MarkSelf
    <3> QED BY <3>2, <3>3
  <2> QED BY <2>1, <2>2
<1>5. CASE UNCHANGED <<status, record, corrected>>
  BY <1>5
<1>6. \/ UNCHANGED <<status, record, corrected>>
      \/ \E k \in Checkins : \/ CreateCheckin(k) \/ CloseCheckin(k)
                             \/ \E s \in Students : UpdateRecord(k, s)
      \/ \E p \in Scans : Record(p)
  BY DEF vars, rows, Next, Proceed, RefuseExpired, Abort, Rollback, LockCheckin, Judge,
         TimePasses, Scan
<1> QED BY <1>1, <1>2, <1>3, <1>4, <1>5, <1>6

\* The transactions implement Attendance.
THEOREM Refinement == Spec => RefinesAttendance
<1>1. Init => Abstract!Init
  BY DEF Init, Abstract!Init
<1> QED BY <1>1, StepRefines, Invariance, PTL DEF Spec, RefinesAttendance, Abstract!Spec

----------------------------------------------------------------------------
(* The assistant.                                                          *)

\* Before any turn no slot is offered.
LEMMA TalkInitInductive == AssistantInit => AIInv
BY DEF AssistantInit, AIInv, PromptFirst, SlotsMatchPrompt

\* A slot that a tool takes as valid lies in the regime of the prompt's table that
\* began last before its date.
LEMMA ValidSlotMatches ==
  ASSUME AIInv, NEW s \in Slots, ValidSlot(s), prompt # NoTable
  PROVE  \E r \in prompt : /\ s.from .. s.to \subseteq r.periods
                           /\ \A o \in prompt : Since(r, s.date) <= Since(o, s.date)
<1>1. AreRegimes(prompt) /\ prompt # {}
  BY AssistantAssumption DEF AIInv, PromptFirst, ValidSlot, RegimesFor
<1>2. s.date \in 101 .. 1231
  <2>1. \A x \in [date : 101 .. 1231, from : Int, to : Int] : x.date \in 101 .. 1231
    OBVIOUS
  <2> QED BY <2>1, AssistantAssumption
<1>3. /\ ActiveFor(prompt, s.date) \in prompt
      /\ \A o \in prompt : Since(ActiveFor(prompt, s.date), s.date) <= Since(o, s.date)
  BY <1>1, <1>2, ActiveForBeganLast, ZenonT(60)
<1>4. s.from .. s.to \subseteq ActiveFor(prompt, s.date).periods
  BY DEF ValidSlot, RegimesFor
<1> QED BY <1>3, <1>4

\* Only a tool offers a slot, in a turn whose prompt is built.
LEMMA ToolOffers ==
  ASSUME AIInv, RunTool
  PROVE  AIInv'
<1>1. /\ stage = "tools" /\ stage' = stage /\ prompt' = prompt /\ inForce' = inForce
      /\ offered' = offered \/ \E s \in Slots : ValidSlot(s) /\ offered' = s
  BY DEF RunTool, ToolRefused, ToolListClassrooms, ToolQueryTimetable, ToolQueryAvailability,
         ToolProposeBooking, ToolResult
<1>2. CASE offered' = offered
  BY <1>1, <1>2 DEF AIInv, PromptFirst, SlotsMatchPrompt
<1>3. ASSUME NEW s \in Slots, ValidSlot(s), offered' = s PROVE AIInv'
  <2>1. PromptFirst'
    BY <1>1, <1>3 DEF AIInv, PromptFirst
  <2>2. SlotsMatchPrompt'
    BY <1>1, <1>3, ValidSlotMatches DEF SlotsMatchPrompt
  <2> QED BY <2>1, <2>2 DEF AIInv
<1> QED BY <1>1, <1>2, <1>3

\* Every step of a turn keeps the prompt's table, and every slot offered is judged by it.
LEMMA TalkStepInductive == AIInv /\ [AssistantNext]_talkVars => AIInv'
<1> SUFFICES ASSUME AIInv, [AssistantNext]_talkVars PROVE AIInv'
  OBVIOUS
<1> USE DEF AIInv, PromptFirst, SlotsMatchPrompt
<1>1. CASE Chat
  BY <1>1 DEF Chat
<1>2. CASE BuildMessages
  BY <1>2 DEF BuildMessages
<1>3. CASE StreamRequest \/ RequestFails
  BY <1>3 DEF StreamRequest, RequestFails, EndTurn
<1>4. CASE Consume \/ StreamFails \/ Answered
  BY <1>4 DEF Consume, StreamFails, Answered, EndTurn
<1>5. CASE ToolsWanted \/ Timeout
  BY <1>5 DEF ToolsWanted, Timeout, EndTurn
<1>6. CASE RunTool
  BY <1>6, ToolOffers
<1>7. CASE ToolFails \/ NextRound
  BY <1>7 DEF ToolFails, NextRound, EndTurn
<1>8. CASE PumpReads \/ PumpSends
  BY <1>8 DEF PumpReads, PumpSends
<1>9. CASE RegimesChange \/ ClientLeaves
  BY <1>9 DEF RegimesChange, ClientLeaves
<1>10. CASE UNCHANGED talkVars
  BY <1>10 DEF talkVars
<1> QED BY <1>1, <1>2, <1>3, <1>4, <1>5, <1>6, <1>7, <1>8, <1>9, <1>10 DEF AssistantNext, TurnStep

\* Whatever tables the database holds and however they change during a turn, a slot
\* that a tool lets pass lies in the bell times the model was shown, in the regime
\* that began last before its date (turnRegimes, validSlot).
THEOREM TurnKeepsItsTable == AssistantSpec => []SlotsMatchPrompt
<1>1. AIInv => SlotsMatchPrompt
  BY DEF AIInv
<1> QED BY TalkInitInductive, TalkStepInductive, <1>1, PTL DEF AssistantSpec
=============================================================================
