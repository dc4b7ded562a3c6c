-------------------------------- MODULE Bells --------------------------------
(***************************************************************************)
(* Which bell-time regime is in force on a date, and the periods it has:   *)
(* what bookings, lessons and the imports share of package schedule.  A    *)
(* regime is a record of an id, a start and a set of periods; a start and  *)
(* a date are month * 100 + day.                                           *)
(***************************************************************************)
EXTENDS Integers, FiniteSets, Sequences, SequencesExt

\* Rows of schedule_regimes: a primary key, and starts that are dates.
AreRegimes(R) ==
  /\ IsFiniteSet(R) /\ R \subseteq [id : Nat, start : 101 .. 1231, periods : SUBSET Int]
  /\ \A a, b \in R : a.id = b.id => a = b

\* ORDER BY effective_month, effective_day, id.
Before(a, b) == a.start < b.start \/ (a.start = b.start /\ a.id < b.id)
Listed(R) == CHOOSE q \in SetToSeqs(R) : \A i, j \in DOMAIN q : i < j => Before(q[i], q[j])

NoneYet == [id |-> 0, start |-> -1, periods |-> {}]
Later(a, b) == IF b.start > a.start THEN b ELSE a

\* The regimes that began by the date or, if none did, all of them: of the year before.
Begun(R, date) == LET past == {r \in R : r.start <= date} IN IF past # {} THEN past ELSE R

\* The latest start; the first listed of those on the same day.  R is not empty.
ActiveFor(R, date) == FoldLeft(Later, NoneYet, Listed(Begun(R, date)))

\* Days since a regime last began, in a year of 13 * 100 numbers.
Since(r, date) == (date - r.start) % 1300
=============================================================================
