----------------------------- MODULE Attendance -----------------------------
(***************************************************************************)
(* What the attendance store promises, with no transactions: a student     *)
(* marks herself once, while the check-in is open; a teacher may set any   *)
(* mark at any time; a closed check-in never opens again.                  *)
(***************************************************************************)
CONSTANTS
  Checkins,   \* check-ins, each with a code of its own
  Students,
  Unmarked    \* no record

ScanMarks == {"present", "late"}
Marks == ScanMarks \cup {"absent", "leave"}

VARIABLES
  phase,      \* of each check-in: none, active, closed
  mark,       \* of each check-in and student
  corrected   \* the marks that a teacher set

Init ==
  /\ phase = [k \in Checkins |-> "none"]
  /\ mark = [k \in Checkins |-> [s \in Students |-> Unmarked]]
  /\ corrected = {}

Open(k) ==
  /\ phase[k] = "none"
  /\ phase' = [phase EXCEPT ![k] = "active"]
  /\ UNCHANGED <<mark, corrected>>

Close(k) ==
  /\ phase[k] = "active"
  /\ phase' = [phase EXCEPT ![k] = "closed"]
  /\ UNCHANGED <<mark, corrected>>

MarkSelf(k, s, m) ==
  /\ phase[k] = "active"
  /\ mark[k][s] = Unmarked
  /\ mark' = [mark EXCEPT ![k][s] = m]
  /\ UNCHANGED <<phase, corrected>>

Correct(k, s, m) ==
  /\ phase[k] # "none"
  /\ mark' = [mark EXCEPT ![k][s] = m]
  /\ corrected' = corrected \cup {<<k, s>>}
  /\ UNCHANGED phase

Next ==
  \E k \in Checkins :
    \/ Open(k) \/ Close(k)
    \/ \E s \in Students : \/ \E m \in ScanMarks : MarkSelf(k, s, m)
                           \/ \E m \in Marks : Correct(k, s, m)

Spec == Init /\ [][Next]_<<phase, mark, corrected>>
=============================================================================
