--------------------------- MODULE Reservations ---------------------------
(***************************************************************************)
(* What the booking and course stores promise together, with no            *)
(* transactions, locks or review workflow: an occupant takes a free slot   *)
(* in one step, may move to another free slot, and gives its slot up for   *)
(* good.                                                                   *)
(***************************************************************************)
EXTENDS Slots

CONSTANTS
  Ids,        \* occupants: bookings and course sessions
  Unborn,     \* not created yet
  Gone        \* rejected, cancelled or deleted: never an occupant again

VARIABLE held \* the slot each occupant holds, or Unborn, or Gone

Free(s, i) == \A j \in Ids \ {i} : held[j] \in Slots => ~Overlaps(s, held[j])

Init == held = [i \in Ids |-> Unborn]

Reserve(i, s) ==
  /\ held[i] = Unborn
  /\ Free(s, i)
  /\ held' = [held EXCEPT ![i] = s]

Move(i, s) ==
  /\ held[i] \in Slots
  /\ Free(s, i)
  /\ held' = [held EXCEPT ![i] = s]

Release(i) ==
  /\ held[i] \in Slots
  /\ held' = [held EXCEPT ![i] = Gone]

\* A step changes what somebody holds.
Next ==
  \E i \in Ids :
    /\ held'[i] # held[i]
    /\ \/ \E s \in Slots : Reserve(i, s) \/ Move(i, s)
       \/ Release(i)

Spec == Init /\ [][Next]_held
=============================================================================
