------------------------------- MODULE Slots -------------------------------
(***************************************************************************)
(* The occupancy grid shared by course sessions and classroom bookings: a  *)
(* slot is a classroom, a date and a contiguous range of bell-time periods.*)
(* "lessons in one room on one day" is the only question the grid answers, *)
(* so names, purposes and offerings are left out.                          *)
(***************************************************************************)
EXTENDS Integers

CONSTANTS
  Rooms,      \* ids of the classrooms table
  Days,       \* calendar dates
  Periods     \* number of periods in a day of the active bell-time regime

ASSUME PeriodsAssumption == Periods \in Nat

\* Periods in range and periodStart <= periodEnd: what validateBooking and
\* validateSession let through to the stores.
Slots == {s \in [room : Rooms, day : Days, ps : 1..Periods, pe : 1..Periods] :
            s.ps <= s.pe}

\* The SQL test `period_start <= pe AND period_end >= ps` on one (room, date).
Overlaps(s, t) ==
  /\ s.room = t.room
  /\ s.day = t.day
  /\ s.ps <= t.pe
  /\ s.pe >= t.ps
=============================================================================
