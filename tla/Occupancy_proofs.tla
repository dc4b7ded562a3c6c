-------------------------- MODULE Occupancy_proofs --------------------------
(***************************************************************************)
(* Proofs about Occupancy, for every set of rooms, days, requests and row  *)
(* ids: type correctness, no double occupancy, the refinement of           *)
(* Reservations, and what the imports of OccupancyImport leave of it.      *)
(***************************************************************************)
EXTENDS OccupancyImport, TLAPS

\* The SQL overlap test does not depend on which row is the stored one.
LEMMA OverlapsSymmetric ==
  ASSUME NEW s \in Slots, NEW t \in Slots, Overlaps(s, t)
  PROVE  Overlaps(t, s)
BY DEF Overlaps, Slots

\* A row that overlaps a request lies in the classroom the request locks.
LEMMA OverlapsSameRoom ==
  ASSUME NEW s, NEW t, Overlaps(s, t)
  PROVE  s.room = t.room
BY DEF Overlaps

\* A slot lies in a room.
LEMMA SlotRoom ==
  ASSUME NEW s \in Slots
  PROVE  s.room \in Rooms
BY DEF Slots

\* Storing a request keeps the types.
LEMMA StartType ==
  ASSUME TypeOK, NEW c \in Clients, NEW op \in Ops, NEW i \in Ids \cup {None},
         NEW s \in Slots \cup {None}, NEW r \in Rooms \cup {None},
         NEW step \in Steps, Start(c, op, i, s, r, step)
  PROVE  TypeOK'
BY DEF TypeOK, Start, Requests

\* The end of a request keeps the types.
LEMMA FinishType ==
  ASSUME TypeOK, NEW c \in Clients, Finish(c)
  PROVE  /\ lock' \in [Rooms -> Clients \cup {None}]
         /\ pc' \in [Clients -> Steps]
         /\ req' \in [Clients -> Requests]
BY DEF TypeOK, Finish, Requests, NoRequest, Ops, Steps

----------------------------------------------------------------------------
(* The inductive invariant, one lemma per kind of step.                    *)

\* An answered request leaves the rest of the invariant alone.
LEMMA RollbackInductive ==
  ASSUME NEW X \in SUBSET Ids, IInvIn(X), NEW c \in Clients, Rollback(c)
  PROVE  IInvIn(X)'
<1> USE DEF IInvIn, Rollback
<1>1. TypeOK'
  BY FinishType DEF TypeOK
<1>2. NoOverlapIn(X)' /\ SlotsKnown'
  BY DEF NoOverlapIn, SlotsKnown, Active
<1>3. LockHeldInside'
  BY OccupancyAssumption DEF LockHeldInside, Finish, TypeOK
<1>4. ASSUME NEW d \in Clients PROVE RequestOK(d)' /\ CheckStands(d, X)'
  <2>1. CASE d = c
    BY <2>1 DEF Finish, NoRequest, TypeOK, RequestOK, CheckStands, LockingOps
  <2>2. CASE d # c
    <3>1. pc'[d] = pc[d] /\ req'[d] = req[d]
      BY <2>2 DEF Finish, TypeOK
    <3>2. \A r \in Rooms : lock[r] = d => lock'[r] = d
      BY <2>2 DEF Finish, TypeOK
    <3>3. RequestOK(d)'
      BY <3>1 DEF RequestOK
    <3>4. CheckStands(d, X)'
      BY <3>1, <3>2, SlotRoom DEF CheckStands, RequestOK, Conflicts, Active, TypeOK
    <3> QED BY <3>3, <3>4
  <2> QED BY <2>1, <2>2
<1> QED BY <1>1, <1>2, <1>3, <1>4

\* A request that starts has no lock and no check behind it.
LEMMA StartInductive ==
  ASSUME NEW X \in SUBSET Ids, IInvIn(X), NEW c \in Clients, NEW op \in Ops \ {"none"},
         NEW i \in Ids \cup {None}, NEW s \in Slots \cup {None},
         NEW r \in Rooms \cup {None}, NEW step \in {"lock", "sessions", "write"},
         Start(c, op, i, s, r, step),
         step = "lock" => op \in LockingOps,
         step = "sessions" => op = "approve",
         op \in LockingOps => step = "lock" /\ s \in Slots /\ r = s.room,
         op \in {"createBooking", "createSession"} => i = None,
         op \in {"updateSession", "deleteSession"} => i \in Sessions,
         op \in {"approve", "reject", "cancel"} => i \in Bookings,
         op = "deleteRoom" => r \in Rooms,
         pc[c] = "idle"
  PROVE  IInvIn(X)'
<1> USE DEF IInvIn
<1>1. TypeOK'
  BY StartType DEF Steps
<1>2. NoOverlapIn(X)' /\ SlotsKnown'
  BY DEF NoOverlapIn, SlotsKnown, Active, Start
<1>3. LockHeldInside'
  BY DEF LockHeldInside, Start, TypeOK
<1>4. ASSUME NEW d \in Clients PROVE RequestOK(d)' /\ CheckStands(d, X)'
  <2>1. CASE d = c
    <3>1. pc'[c] = step /\ req'[c] = [op |-> op, id |-> i, slot |-> s, room |-> r]
      BY DEF Start, TypeOK
    <3>2. RequestOK(c)'
      BY <3>1 DEF RequestOK, Ops
    <3>3. CheckStands(c, X)'
      BY <3>1 DEF CheckStands
    <3> QED BY <2>1, <3>2, <3>3
  <2>2. CASE d # c
    BY <2>2 DEF Start, TypeOK, RequestOK, CheckStands, Conflicts, Active
  <2> QED BY <2>1, <2>2
<1> QED BY <1>1, <1>2, <1>3, <1>4

\* The lock is taken by one transaction at a time.
LEMMA LockInductive ==
  ASSUME NEW X \in SUBSET Ids, IInvIn(X), NEW c \in Clients, LockClassroom(c)
  PROVE  IInvIn(X)'
<1> USE DEF IInvIn
<1>1. CASE Rollback(c)
  BY <1>1, RollbackInductive
<1>2. CASE /\ req[c].room \in rooms
           /\ lock' = [lock EXCEPT ![req[c].room] = c]
           /\ pc' = [pc EXCEPT ![c] = "sessions"]
           /\ UNCHANGED <<status, slot, rooms, req>>
  <2>1. pc[c] = "lock" /\ lock[req[c].room] = None /\ req[c].op \in LockingOps
    BY DEF LockClassroom, RequestOK
  <2>2. TypeOK'
    BY <1>2 DEF TypeOK, Steps
  <2>3. NoOverlapIn(X)' /\ SlotsKnown'
    BY <1>2 DEF NoOverlapIn, SlotsKnown, Active
  <2>4. LockHeldInside'
    BY <1>2, <2>1 DEF LockHeldInside, TypeOK
  <2>5. ASSUME NEW d \in Clients PROVE RequestOK(d)' /\ CheckStands(d, X)'
    <3>1. CASE d = c
      BY <1>2, <2>1, <3>1 DEF TypeOK, RequestOK, CheckStands
    <3>2. CASE d # c
      <4>1. pc'[d] = pc[d] /\ req'[d] = req[d]
        BY <1>2, <3>2 DEF TypeOK
      <4>2. lock[req[d].room] = d => lock'[req[d].room] = d
        BY <1>2, <2>1, OccupancyAssumption DEF TypeOK
      <4> QED
        BY <1>2, <4>1, <4>2 DEF RequestOK, CheckStands, Conflicts, Active
    <3> QED BY <3>1, <3>2
  <2> QED BY <2>2, <2>3, <2>4, <2>5
<1> QED BY <1>1, <1>2 DEF LockClassroom

\* A check either rolls back or records that the pool is clear.
LEMMA CheckInductive ==
  ASSUME NEW X \in SUBSET Ids, IInvIn(X), NEW c \in Clients, CheckSessions(c) \/ CheckBookings(c)
  PROVE  IInvIn(X)'
<1> USE DEF IInvIn
<1>1. CASE Rollback(c)
  BY <1>1, RollbackInductive
<1>2. ASSUME NEW next \in {"bookings", "write"},
             pc' = [pc EXCEPT ![c] = next],
             UNCHANGED <<status, slot, rooms, lock, req>>,
             \/ /\ pc[c] = "sessions" /\ next = "bookings"
                /\ Conflicts(c, Sessions) \cap X = {}
             \/ /\ pc[c] = "bookings" /\ next = "write"
                /\ Conflicts(c, Bookings) \cap X = {}
      PROVE  IInvIn(X)'
  <2>1. TypeOK'
    BY <1>2 DEF TypeOK, Steps
  <2>2. NoOverlapIn(X)' /\ SlotsKnown'
    BY <1>2 DEF NoOverlapIn, SlotsKnown, Active
  <2>3. LockHeldInside'
    BY <1>2 DEF LockHeldInside, TypeOK
  <2>4. ASSUME NEW d \in Clients PROVE RequestOK(d)' /\ CheckStands(d, X)'
    <3>1. \A pool : Conflicts(d, pool)' = Conflicts(d, pool)
      BY <1>2 DEF Conflicts, Active
    <3>2. CASE d = c
      BY <1>2, <3>1, <3>2 DEF TypeOK, RequestOK, CheckStands
    <3>3. CASE d # c
      BY <1>2, <3>1, <3>3 DEF TypeOK, RequestOK, CheckStands
    <3> QED BY <3>2, <3>3
  <2> QED BY <2>1, <2>2, <2>3, <2>4
<1> QED BY <1>1, <1>2 DEF CheckSessions, CheckBookings, Check

\* No step of a row that only keeps or loses occupants disturbs a check.
LEMMA FewerOccupants ==
  ASSUME NEW X \in SUBSET Ids, IInvIn(X), NEW d \in Clients, UNCHANGED slot, pc'[d] = pc[d], req'[d] = req[d],
         \A i \in Ids : Active(i)' => Active(i),
         \A r \in Rooms : lock[r] = d => lock'[r] = d
  PROVE  RequestOK(d)' /\ CheckStands(d, X)'
<1>1. RequestOK(d)'
  BY DEF RequestOK, IInvIn
<1>2. \A pool \in {Sessions, Bookings} : Conflicts(d, pool)' \subseteq Conflicts(d, pool)
  BY DEF Conflicts, Ids
<1>3. req[d].op \in LockingOps => req[d].room \in Rooms
  BY SlotRoom DEF IInvIn, RequestOK
<1>4. CheckStands(d, X)'
  BY <1>2, <1>3 DEF CheckStands, IInvIn
<1> QED BY <1>1, <1>4

\* The part of the invariant about requests after a commit of c: the others'
\* checks stand when the row i that c wrote, if any, lies in the classroom c
\* has locked.
LEMMA CommitRequests ==
  ASSUME NEW X \in SUBSET Ids, IInvIn(X), NEW c \in Clients, Finish(c), NEW i \in Ids, NEW d \in Clients,
         \A j \in Ids \ {i} : (Active(j)' => Active(j)) /\ slot'[j] = slot[j],
         Active(i)' => \/ Active(i) /\ slot'[i] = slot[i]
                       \/ slot'[i].room \in Rooms /\ lock[slot'[i].room] = c
  PROVE  RequestOK(d)' /\ CheckStands(d, X)'
<1>1. CASE d = c
  BY <1>1 DEF IInvIn, Finish, NoRequest, TypeOK, RequestOK, CheckStands, LockingOps
<1>2. CASE d # c
  <2>1. pc'[d] = pc[d] /\ req'[d] = req[d]
    BY <1>2 DEF IInvIn, Finish, TypeOK
  <2>2. \A r \in Rooms : lock[r] = d => lock'[r] = d
    BY <1>2 DEF IInvIn, Finish, TypeOK
  <2>3. RequestOK(d)'
    BY <2>1 DEF IInvIn, RequestOK
  <2>4. ASSUME req[d].op \in LockingOps, pc[d] \in {"sessions", "bookings", "write"}
        PROVE  /\ req[d].room \in Rooms
               /\ lock[req[d].room] = d
               /\ req[d].slot.room = req[d].room
    BY <2>4, SlotRoom DEF IInvIn, CheckStands, RequestOK
  <2>5. ASSUME req[d].op \in LockingOps, pc[d] \in {"sessions", "bookings", "write"},
               NEW pool \in {Sessions, Bookings}, Conflicts(d, pool) \cap X = {}
        PROVE  Conflicts(d, pool)' \cap X = {}
    <3> SUFFICES ASSUME NEW j \in (pool \ {req[d].id}) \cap X, Active(j)',
                        Overlaps(slot'[j], req[d].slot)
                 PROVE  FALSE
      BY <2>1 DEF Conflicts
    <3>1. j \in Ids
      BY DEF Ids
    <3>2. ~(Active(j) /\ slot'[j] = slot[j])
      BY <2>5 DEF Conflicts
    <3>3. j = i /\ slot'[i].room \in Rooms /\ lock[slot'[i].room] = c
      BY <3>1, <3>2
    <3>4. slot'[i].room = req[d].slot.room
      BY <3>3, OverlapsSameRoom
    <3> QED BY <3>3, <3>4, <2>4, <2>5, <1>2
  <2>6. CheckStands(d, X)'
    BY <2>1, <2>2, <2>4, <2>5 DEF IInvIn, CheckStands
  <2> QED BY <2>3, <2>6
<1> QED BY <1>1, <1>2

\* The end of a request frees the lock it held, and no other.
LEMMA FinishLocks ==
  ASSUME NEW X \in SUBSET Ids, IInvIn(X), NEW c \in Clients, Finish(c)
  PROVE  LockHeldInside'
BY OccupancyAssumption DEF IInvIn, LockHeldInside, Finish, TypeOK

\* A guarded status update of a booking, or the delete of a session.
LEMMA SetStatusInductive ==
  ASSUME NEW X \in SUBSET Ids, IInvIn(X), NEW c \in Clients, NEW op,
         NEW from \in SUBSET {"pending", "approved", "live"}, NEW to,
         \/ op \in {"approve", "reject", "cancel"} /\ to \in {"approved", "rejected", "cancelled"}
         \/ op = "deleteSession" /\ to = "deleted",
         SetStatus(c, op, from, to)
  PROVE  IInvIn(X)'
<1>1. CASE Rollback(c)
  BY <1>1, RollbackInductive
<1>2. CASE /\ status[req[c].id] \in from
           /\ status' = [status EXCEPT ![req[c].id] = to]
           /\ Finish(c)
           /\ UNCHANGED <<slot, rooms>>
  <2>1. PICK b \in Ids : /\ b = req[c].id
                         /\ b \in Sessions => to \in SessionStatus
                         /\ b \in Bookings => to \in BookingStatus
                         /\ to \in BookingStatus \cup SessionStatus
    BY OccupancyAssumption
       DEF SetStatus, AtWrite, IInvIn, RequestOK, Ids, BookingStatus, SessionStatus
  <2>2. TypeOK'
    <3>1. status' = [status EXCEPT ![b] = to]
      BY <1>2, <2>1
    <3>2. status' \in [Ids -> BookingStatus \cup SessionStatus]
      BY <2>1, <3>1 DEF IInvIn, TypeOK
    <3>3. \A i \in Ids : status'[i] = IF i = b THEN to ELSE status[i]
      BY <3>1 DEF IInvIn, TypeOK
    <3> QED BY <1>2, <2>1, <3>2, <3>3, FinishType DEF IInvIn, TypeOK, Ids
  <2>3. \A j \in Ids : Active(j)' => Active(j)
    BY <1>2, <2>1 DEF IInvIn, TypeOK, Active
  <2>4. NoOverlapIn(X)'
    BY <1>2, <2>3 DEF IInvIn, NoOverlapIn
  <2>5. SlotsKnown'
    BY <1>2, <2>1 DEF IInvIn, SlotsKnown, TypeOK
  <2>6. ASSUME NEW d \in Clients PROVE RequestOK(d)' /\ CheckStands(d, X)'
    <3>1. /\ \A j \in Ids \ {b} : (Active(j)' => Active(j)) /\ slot'[j] = slot[j]
          /\ Active(b)' => \/ Active(b) /\ slot'[b] = slot[b]
                           \/ slot'[b].room \in Rooms /\ lock[slot'[b].room] = c
      BY <1>2, <2>1, <2>3
    <3>2. Finish(c) /\ b \in Ids
      BY <1>2, <2>1
    <3> QED BY <3>1, <3>2, CommitRequests
  <2> QED BY <1>2, <2>2, <2>4, <2>5, <2>6, FinishLocks DEF IInvIn
<1> QED BY <1>1, <1>2 DEF SetStatus

\* An insert of a row into the slot that the transaction has checked.
LEMMA InsertInductive ==
  ASSUME NEW X \in SUBSET Ids, IInvIn(X), NEW c \in Clients, InsertBooking(c) \/ InsertSession(c)
  PROVE  IInvIn(X)'
<1>1. PICK i \in Ids, st \in {"pending", "live"} :
        /\ Insert(c, i, st)
        /\ st = "pending" => i \in Bookings
        /\ st = "live" => i \in Sessions
  BY DEF InsertBooking, InsertSession, Ids
<1>2. /\ pc[c] = "write" /\ req[c].op \in {"createBooking", "createSession"}
      /\ req[c].op \in LockingOps
  BY DEF InsertBooking, InsertSession, AtWrite, LockingOps
<1>3. /\ req[c].slot \in Slots /\ req[c].slot.room \in Rooms
      /\ req[c].id \notin Ids
      /\ lock[req[c].slot.room] = c
      /\ Conflicts(c, Sessions) \cap X = {} /\ Conflicts(c, Bookings) \cap X = {}
  BY <1>2, SlotRoom, OccupancyAssumption DEF IInvIn, RequestOK, CheckStands
<1>4. /\ status[i] = "none" /\ Finish(c) /\ UNCHANGED rooms
      /\ status' = [status EXCEPT ![i] = st]
      /\ slot' = [slot EXCEPT ![i] = req[c].slot]
  BY <1>1 DEF Insert
<1>5. TypeOK'
  <2>1. status' \in [Ids -> BookingStatus \cup SessionStatus]
    BY <1>4 DEF IInvIn, TypeOK, BookingStatus, SessionStatus
  <2>2. /\ \A b \in Bookings : status'[b] \in BookingStatus
        /\ \A s \in Sessions : status'[s] \in SessionStatus
    BY <1>1, <1>4, OccupancyAssumption DEF IInvIn, TypeOK, BookingStatus, SessionStatus, Ids
  <2> QED BY <2>1, <2>2, <1>3, <1>4, FinishType DEF IInvIn, TypeOK
<1>6. /\ \A j \in Ids \ {i} : (Active(j)' <=> Active(j)) /\ slot'[j] = slot[j]
      /\ slot'[i] = req[c].slot
  BY <1>4 DEF IInvIn, TypeOK, Active
<1>7. \A j \in X \ {i} : Active(j) => ~Overlaps(slot[j], req[c].slot)
  BY <1>3 DEF Conflicts, Ids
<1>8. SlotsKnown'
  BY <1>3, <1>4 DEF IInvIn, SlotsKnown, TypeOK
<1>9. NoOverlapIn(X)'
  <2> SUFFICES ASSUME NEW j \in X, NEW k \in X, j # k, Active(j)', Active(k)',
                      Overlaps(slot'[j], slot'[k])
               PROVE  FALSE
    BY DEF NoOverlapIn
  <2>1. slot'[j] \in Slots /\ slot'[k] \in Slots
    BY <1>8, <1>5 DEF SlotsKnown, Active
  <2>2. CASE j # i /\ k # i
    BY <1>6, <2>2 DEF IInvIn, NoOverlapIn
  <2>3. CASE j = i
    BY <1>6, <1>7, <2>1, <2>3, OverlapsSymmetric
  <2>4. CASE k = i
    BY <1>6, <1>7, <2>4
  <2> QED BY <2>2, <2>3, <2>4
<1>10. \A d \in Clients : RequestOK(d)' /\ CheckStands(d, X)'
  BY <1>3, <1>4, <1>6, CommitRequests
<1> QED BY <1>4, <1>5, <1>8, <1>9, <1>10, FinishLocks DEF IInvIn

\* A session moves to the slot that the transaction has checked; its own old
\* slot does not count against it.
LEMMA MoveInductive ==
  ASSUME NEW X \in SUBSET Ids, IInvIn(X), NEW c \in Clients, MoveSession(c)
  PROVE  IInvIn(X)'
<1>1. CASE Rollback(c)
  BY <1>1, RollbackInductive
<1>2. CASE /\ status[req[c].id] = "live"
           /\ slot' = [slot EXCEPT ![req[c].id] = req[c].slot]
           /\ Finish(c)
           /\ UNCHANGED <<status, rooms>>
  <2>1. pc[c] = "write" /\ req[c].op = "updateSession" /\ req[c].op \in LockingOps
    BY DEF MoveSession, AtWrite, LockingOps
  <2>2. PICK i \in Sessions :
        /\ i = req[c].id /\ i \in Ids
        /\ req[c].slot \in Slots /\ req[c].slot.room \in Rooms
        /\ lock[req[c].slot.room] = c
        /\ Conflicts(c, Sessions) \cap X = {} /\ Conflicts(c, Bookings) \cap X = {}
    BY <2>1, SlotRoom DEF IInvIn, RequestOK, CheckStands, Ids
  <2>3. TypeOK'
    BY <1>2, <2>2, FinishType DEF IInvIn, TypeOK
  <2>4. /\ \A j \in Ids : Active(j)' <=> Active(j)
        /\ \A j \in Ids \ {i} : slot'[j] = slot[j]
        /\ slot'[i] = req[c].slot
    BY <1>2, <2>2 DEF IInvIn, TypeOK, Active
  <2>5. \A j \in X \ {i} : Active(j) => ~Overlaps(slot[j], req[c].slot)
    BY <2>2 DEF Conflicts, Ids
  <2>6. SlotsKnown'
    BY <1>2, <2>2 DEF IInvIn, SlotsKnown, TypeOK
  <2>7. NoOverlapIn(X)'
    <3> SUFFICES ASSUME NEW j \in X, NEW k \in X, j # k, Active(j)', Active(k)',
                        Overlaps(slot'[j], slot'[k])
                 PROVE  FALSE
      BY DEF NoOverlapIn
    <3>1. slot'[j] \in Slots /\ slot'[k] \in Slots
      BY <2>6, <2>3 DEF SlotsKnown, Active
    <3>2. CASE j # i /\ k # i
      BY <2>4, <3>2 DEF IInvIn, NoOverlapIn
    <3>3. CASE j = i
      BY <2>4, <2>5, <3>1, <3>3, OverlapsSymmetric
    <3>4. CASE k = i
      BY <2>4, <2>5, <3>4
    <3> QED BY <3>2, <3>3, <3>4
  <2>8. \A d \in Clients : RequestOK(d)' /\ CheckStands(d, X)'
    BY <1>2, <2>2, <2>4, CommitRequests
  <2> QED BY <1>2, <2>3, <2>6, <2>7, <2>8, FinishLocks DEF IInvIn
<1> QED BY <1>1, <1>2 DEF MoveSession

\* A room goes, and no row with it.
LEMMA RemoveRoomInductive ==
  ASSUME NEW X \in SUBSET Ids, IInvIn(X), NEW c \in Clients, RemoveRoom(c)
  PROVE  IInvIn(X)'
<1>1. Finish(c) /\ UNCHANGED <<status, slot>> /\ rooms' \subseteq rooms
  BY DEF RemoveRoom
<1>2. TypeOK'
  BY <1>1, FinishType DEF IInvIn, TypeOK
<1>3. NoOverlapIn(X)' /\ SlotsKnown'
  BY <1>1 DEF IInvIn, NoOverlapIn, SlotsKnown, Active
<1>4. ASSUME NEW d \in Clients PROVE RequestOK(d)' /\ CheckStands(d, X)'
  <2>1. CASE d = c
    BY <1>1, <2>1 DEF IInvIn, Finish, NoRequest, TypeOK, RequestOK, CheckStands, LockingOps
  <2>2. CASE d # c
    <3>1. /\ pc'[d] = pc[d] /\ req'[d] = req[d]
          /\ \A r \in Rooms : lock[r] = d => lock'[r] = d
      BY <1>1, <2>2 DEF IInvIn, Finish, TypeOK
    <3>2. \A i \in Ids : Active(i)' => Active(i)
      BY <1>1 DEF Active
    <3> QED BY <1>1, <3>1, <3>2, FewerOccupants
  <2> QED BY <2>1, <2>2
<1> QED BY <1>1, <1>2, <1>3, <1>4, FinishLocks DEF IInvIn

\* An arriving request is of one of the forms of StartInductive.
LEMMA ArriveInductive ==
  ASSUME NEW X \in SUBSET Ids, IInvIn(X), NEW c \in Clients, Arrive(c)
  PROVE  IInvIn(X)'
<1>0. pc[c] = "idle"
  BY DEF Arrive
<1>1. ASSUME NEW s \in Slots, CreateBooking(c, s) PROVE IInvIn(X)'
  BY <1>0, <1>1, SlotRoom, StartInductive DEF CreateBooking, Ops, LockingOps
<1>2. ASSUME NEW s \in Slots, CreateSession(c, s) PROVE IInvIn(X)'
  BY <1>0, <1>2, SlotRoom, StartInductive DEF CreateSession, Ops, LockingOps
<1>3. ASSUME NEW i \in Sessions, NEW s \in Slots, UpdateSession(c, i, s) PROVE IInvIn(X)'
  BY <1>0, <1>3, SlotRoom, StartInductive DEF UpdateSession, Ops, LockingOps, Ids
<1>4. ASSUME NEW b \in Bookings, ReviewApprove(c, b) \/ ReviewReject(c, b) \/ Cancel(c, b)
      PROVE  IInvIn(X)'
  <2>1. b \in Ids /\ slot[b] \in Slots /\ slot[b].room \in Rooms
    BY <1>4, SlotRoom DEF IInvIn, SlotsKnown, Ids, ReviewApprove, ReviewReject, Cancel
  <2> QED
    BY <1>0, <1>4, <2>1, StartInductive DEF ReviewApprove, ReviewReject, Cancel, Ops, LockingOps
<1>5. ASSUME NEW r \in Rooms, DeleteRoom(c, r) PROVE IInvIn(X)'
  BY <1>0, <1>5, StartInductive DEF DeleteRoom, Ops, LockingOps
<1>6. ASSUME NEW i \in Sessions, DeleteSession(c, i) PROVE IInvIn(X)'
  <2>1. i \in Ids /\ slot[i] \in Slots /\ slot[i].room \in Rooms
    BY <1>6, SlotRoom DEF IInvIn, SlotsKnown, Ids, DeleteSession
  <2> QED BY <1>0, <1>6, <2>1, StartInductive DEF DeleteSession, Ops, LockingOps
<1> QED BY <1>1, <1>2, <1>3, <1>4, <1>5, <1>6 DEF Arrive

\* The facts that make IInv an invariant, of any rows.
LEMMA InitIInvIn ==
  ASSUME NEW X \in SUBSET Ids, Init
  PROVE  IInvIn(X)
<1>1. NoRequest \in Requests
  BY DEF NoRequest, Requests, Ops
<1>2. TypeOK
  BY <1>1 DEF Init, TypeOK, Ids, Steps, BookingStatus, SessionStatus
<1>3. NoOverlapIn(X) /\ SlotsKnown
  BY DEF Init, NoOverlapIn, SlotsKnown, Active
<1>4. LockHeldInside
  BY OccupancyAssumption DEF Init, LockHeldInside
<1>5. ASSUME NEW c \in Clients PROVE RequestOK(c) /\ CheckStands(c, X)
  BY DEF Init, RequestOK, CheckStands, NoRequest, LockingOps
<1> QED BY <1>2, <1>3, <1>4, <1>5 DEF IInvIn

\* Every step keeps the invariant about the rows in X, whichever they are.
LEMMA NextIInvIn ==
  ASSUME NEW X \in SUBSET Ids, IInvIn(X), [Next]_vars
  PROVE  IInvIn(X)'
<1>1. ASSUME NEW c \in Clients, Arrive(c) PROVE IInvIn(X)'
  BY <1>1, ArriveInductive
<1>2. ASSUME NEW c \in Clients, LockClassroom(c) PROVE IInvIn(X)'
  BY <1>2, LockInductive
<1>3. ASSUME NEW c \in Clients, Proceed(c) PROVE IInvIn(X)'
  <2>1. CASE ApproveBooking(c) \/ RejectBooking(c) \/ CancelBooking(c) \/ RemoveSession(c)
    BY <2>1, SetStatusInductive DEF ApproveBooking, RejectBooking, CancelBooking, RemoveSession
  <2> QED BY <1>3, <2>1, CheckInductive, InsertInductive, MoveInductive, RemoveRoomInductive
          DEF Proceed
<1>4. ASSUME NEW c \in Clients, Abort(c) PROVE IInvIn(X)'
  BY <1>4, RollbackInductive DEF Abort
<1>5. CASE UNCHANGED vars
  BY <1>5 DEF vars, IInvIn, TypeOK, NoOverlapIn, LockHeldInside, SlotsKnown, RequestOK,
              CheckStands, Conflicts, Active
<1> QED BY <1>1, <1>2, <1>3, <1>4, <1>5 DEF Next

\* Without bookings and sessions the inductive invariant holds.
THEOREM InitIInv == Init => IInv
BY InitIInvIn DEF IInv

\* Every step of bookings, review and sessions keeps the inductive invariant.
THEOREM NextIInv == IInv /\ [Next]_vars => IInv'
BY NextIInvIn DEF IInv

\* The invariant holds in every reachable state, for any number of requests.
THEOREM Invariance == Spec => []IInv
BY InitIInv, NextIInv, PTL DEF Spec

\* Type correctness of the occupancy model.
THEOREM TypeCorrect == Spec => []TypeOK
<1>1. IInv => TypeOK
  BY DEF IInv, IInvIn
<1> QED BY <1>1, Invariance, PTL

\* No two sessions or active bookings share a period of a room: the check of
\* Create, CreateSession and UpdateSession under the classroom lock is enough,
\* and Review may approve without the lock.
THEOREM NoDoubleOccupancy == Spec => []NoOverlap
<1>1. IInv => NoOverlap
  BY DEF IInv, IInvIn, NoOverlap
<1> QED BY <1>1, Invariance, PTL

\* A classroom lock never outlives its transaction.
THEOREM LocksAreReleased == Spec => []LockHeldInside
<1>1. IInv => LockHeldInside
  BY DEF IInv, IInvIn
<1> QED BY <1>1, Invariance, PTL
----------------------------------------------------------------------------
(* What is settled stays settled.                                          *)

\* No step leads out of rejected, cancelled or deleted, nor from approved to
\* anything but cancelled.
LEMMA SettledStep ==
  ASSUME IInv, [Next]_vars, NEW i \in Ids
  PROVE  /\ status[i] \in {"rejected", "cancelled", "deleted"} =>
              status'[i] = status[i] /\ slot'[i] = slot[i]
         /\ status[i] = "approved" => status'[i] \in {"approved", "cancelled"}
<1> DEFINE Kept == status'[i] = status[i] /\ slot'[i] = slot[i]
<1>1. ASSUME NEW c \in Clients, Rollback(c) PROVE Kept
  BY <1>1 DEF Rollback
<1>2. ASSUME NEW c \in Clients, Arrive(c) PROVE Kept
  BY <1>2 DEF Arrive, Start, CreateBooking, CreateSession, UpdateSession, DeleteSession,
              ReviewApprove, ReviewReject, Cancel, DeleteRoom
<1>3. ASSUME NEW c \in Clients, LockClassroom(c) \/ CheckSessions(c) \/ CheckBookings(c)
                                \/ RemoveRoom(c) \/ Abort(c)
      PROVE  Kept
  BY <1>1, <1>3 DEF LockClassroom, CheckSessions, CheckBookings, Check, RemoveRoom, Abort
<1>4. ASSUME NEW c \in Clients, InsertBooking(c) \/ InsertSession(c)
      PROVE  Kept \/ status[i] = "none"
  BY <1>4 DEF InsertBooking, InsertSession, Insert, IInv, IInvIn, TypeOK
<1>5. ASSUME NEW c \in Clients, MoveSession(c)
      PROVE  Kept \/ (status[i] = "live" /\ status'[i] = "live")
  BY <1>1, <1>5 DEF MoveSession, IInv, IInvIn, TypeOK
<1>6. ASSUME NEW c \in Clients, NEW op, NEW from, NEW to, SetStatus(c, op, from, to)
      PROVE  Kept \/ (status[i] \in from /\ status'[i] = to)
  BY <1>1, <1>6 DEF SetStatus, IInv, IInvIn, TypeOK
<1>7. ASSUME NEW c \in Clients, ApproveBooking(c) \/ RejectBooking(c)
      PROVE  Kept \/ status[i] = "pending"
  BY <1>6, <1>7 DEF ApproveBooking, RejectBooking
<1>8. ASSUME NEW c \in Clients, CancelBooking(c)
      PROVE  Kept \/ (status[i] \in {"pending", "approved"} /\ status'[i] = "cancelled")
  BY <1>6, <1>8 DEF CancelBooking
<1>10. ASSUME NEW c \in Clients, RemoveSession(c)
       PROVE  Kept \/ (status[i] = "live" /\ status'[i] = "deleted")
  BY <1>6, <1>10 DEF RemoveSession
<1>9. CASE UNCHANGED vars
  BY <1>9 DEF vars
<1> QED BY <1>2, <1>3, <1>4, <1>5, <1>7, <1>8, <1>9, <1>10 DEF Next, Proceed

\* A rejected or cancelled booking never comes back, for any clients, rooms and rows.
THEOREM Settled == Spec => SettledIsFinal
<1> DEFINE Step ==
      \A i \in Ids :
        /\ status[i] \in {"rejected", "cancelled", "deleted"} =>
             status'[i] = status[i] /\ slot'[i] = slot[i]
        /\ status[i] = "approved" => status'[i] \in {"approved", "cancelled"}
<1>1. IInv /\ [Next]_vars => [Step]_vars
  BY SettledStep
<1> QED BY <1>1, Invariance, PTL DEF Spec, SettledIsFinal

----------------------------------------------------------------------------
(* The transactions implement atomic reservations.                         *)

\* The first states of the occupancy are first states of Reservations.
LEMMA InitRefines == Init => Abstract!Init
BY DEF Init, Abstract!Init, Held

\* A row step that changes no occupant and no slot is a stutter.
LEMMA HeldUnchanged ==
  ASSUME UNCHANGED <<status, slot>>
  PROVE  UNCHANGED Held
BY DEF Held, Active

\* What a row holds, by its status.
LEMMA HeldOf ==
  ASSUME NEW i \in Ids
  PROVE  /\ Active(i) => Held[i] = slot[i]
         /\ status[i] = "none" => Held[i] = Unborn
         /\ Held[i] \in Slots => Active(i) /\ Held[i] = slot[i]
BY OccupancyAssumption DEF Held, Active

\* What a transaction has checked is what Reservations asks of a free slot.
LEMMA CheckedIsFree ==
  ASSUME IInv, NEW c \in Clients, pc[c] = "write", req[c].op \in LockingOps,
         NEW i \in Ids, req[c].id \in Ids => req[c].id = i
  PROVE  Abstract!Free(req[c].slot, i)
<1> SUFFICES ASSUME NEW j \in Ids \ {i}, Held[j] \in Slots
             PROVE  ~Overlaps(req[c].slot, Held[j])
  BY DEF Abstract!Free, Abstract!Slots, Slots, Abstract!Overlaps, Overlaps
<1>1. Active(j) /\ Held[j] = slot[j] /\ slot[j] \in Slots
  BY HeldOf
<1>2. req[c].slot \in Slots
  BY DEF IInv, IInvIn, RequestOK
<1>3. ~Overlaps(slot[j], req[c].slot)
  BY <1>1 DEF IInv, IInvIn, CheckStands, Conflicts, Ids
<1> QED BY <1>1, <1>2, <1>3, OverlapsSymmetric

\* A row that leaves the occupants releases its slot.
LEMMA ReleaseStep ==
  ASSUME IInv, NEW i \in Ids, Active(i), NEW to \in {"rejected", "cancelled", "deleted"},
         status' = [status EXCEPT ![i] = to], UNCHANGED slot
  PROVE  Abstract!Release(i)
<1>1. Held[i] \in Slots
  BY HeldOf DEF IInv, IInvIn, SlotsKnown, Active
<1>2. Held' = [Held EXCEPT ![i] = Gone]
  BY DEF Held, Active, IInv, IInvIn, TypeOK
<1> QED BY <1>1, <1>2 DEF Abstract!Release, Abstract!Slots, Slots

\* A checked insert reserves the slot it checked.
LEMMA InsertReserves ==
  ASSUME IInv, NEW c \in Clients, NEW i \in Ids, NEW st \in {"pending", "live"},
         AtWrite(c, "createBooking") \/ AtWrite(c, "createSession"), Insert(c, i, st)
  PROVE  Abstract!Reserve(i, req[c].slot)
<1>1. pc[c] = "write" /\ req[c].op \in LockingOps /\ req[c].id = None
  BY DEF AtWrite, LockingOps, IInv, IInvIn, RequestOK
<1>2. Abstract!Free(req[c].slot, i)
  BY <1>1, CheckedIsFree, OccupancyAssumption
<1>3. Held[i] = Unborn
  BY HeldOf DEF Insert
<1>4. Held' = [Held EXCEPT ![i] = req[c].slot]
  BY DEF Held, Active, Insert, IInv, IInvIn, TypeOK
<1> QED BY <1>2, <1>3, <1>4 DEF Abstract!Reserve

\* A checked move takes the new slot and leaves the old one.
LEMMA MoveMoves ==
  ASSUME IInv, NEW c \in Clients, MoveSession(c)
  PROVE  (\E i \in Ids : Abstract!Move(i, req[c].slot)) \/ UNCHANGED Held
<1>1. CASE Rollback(c)
  BY <1>1, HeldUnchanged DEF Rollback
<1>2. CASE ~Rollback(c)
  <2>1. PICK i \in Ids : i = req[c].id
    BY DEF MoveSession, AtWrite, IInv, IInvIn, RequestOK, Ids
  <2>2. status[i] = "live" /\ slot' = [slot EXCEPT ![i] = req[c].slot] /\ status' = status
    BY <1>2, <2>1 DEF MoveSession
  <2>3. Abstract!Free(req[c].slot, i)
    BY <2>1, CheckedIsFree DEF MoveSession, AtWrite, LockingOps
  <2>4. Held[i] \in Slots
    BY <2>2, HeldOf DEF IInv, IInvIn, SlotsKnown, Active
  <2>5. Held' = [Held EXCEPT ![i] = req[c].slot]
    BY <2>2 DEF Held, Active, IInv, IInvIn, TypeOK
  <2> QED BY <2>3, <2>4, <2>5 DEF Abstract!Move, Abstract!Slots, Slots
<1> QED BY <1>1, <1>2

\* Rejecting, cancelling and deleting release; approving stutters.
LEMMA SetStatusReleases ==
  ASSUME IInv, NEW c \in Clients, RejectBooking(c) \/ CancelBooking(c) \/ RemoveSession(c)
  PROVE  (\E i \in Ids : Abstract!Release(i)) \/ UNCHANGED Held
<1>1. CASE Rollback(c)
  BY <1>1, HeldUnchanged DEF Rollback
<1>2. CASE ~Rollback(c)
  <2>1. PICK i \in Ids : i = req[c].id
    BY DEF RejectBooking, CancelBooking, RemoveSession, SetStatus, AtWrite, IInv, IInvIn, RequestOK, Ids
  <2>2. PICK to \in {"rejected", "cancelled", "deleted"} :
          /\ status[i] \in {"pending", "approved", "live"}
          /\ status' = [status EXCEPT ![i] = to]
          /\ UNCHANGED slot
    BY <1>2, <2>1 DEF RejectBooking, CancelBooking, RemoveSession, SetStatus
  <2> QED BY <2>2, ReleaseStep DEF Active
<1> QED BY <1>1, <1>2

\* An approval changes nothing of what is held: the pending booking held its slot already.
LEMMA ApproveStutters ==
  ASSUME IInv, NEW c \in Clients, ApproveBooking(c)
  PROVE  UNCHANGED Held
<1>1. CASE Rollback(c)
  BY <1>1, HeldUnchanged DEF Rollback
<1>2. CASE ~Rollback(c)
  BY <1>2 DEF ApproveBooking, SetStatus, Held, Active, IInv, IInvIn, TypeOK
<1> QED BY <1>1, <1>2

\* An abstract action changes what somebody holds, or nothing.
LEMMA ActionOrStutter ==
  ASSUME NEW i \in Ids, NEW s,
         \/ s \in Slots /\ (Abstract!Reserve(i, s) \/ Abstract!Move(i, s))
         \/ Abstract!Release(i)
  PROVE  Abstract!Next \/ UNCHANGED Held
<1>1. Abstract!Slots = Slots
  BY DEF Abstract!Slots, Slots
<1>2. CASE Held'[i] # Held[i]
  BY <1>1, <1>2 DEF Abstract!Next
<1>3. CASE Held'[i] = Held[i]
  <2>1. PICK x : Held' = [Held EXCEPT ![i] = x]
    BY DEF Abstract!Reserve, Abstract!Move, Abstract!Release
  <2>2. Held' = [j \in Ids |-> IF j = i THEN x ELSE Held[j]]
    BY <2>1 DEF Held
  <2>3. x = Held[i]
    BY <1>3, <2>2
  <2> QED BY <2>2, <2>3 DEF Held
<1> QED BY <1>2, <1>3

\* Every step is a step of Reservations, or none.
LEMMA NextRefines == IInv /\ [Next]_vars => [Abstract!Next]_Held
<1> SUFFICES ASSUME IInv, [Next]_vars PROVE Abstract!Next \/ UNCHANGED Held
  OBVIOUS
<1>1. ASSUME NEW c \in Clients, Arrive(c) PROVE UNCHANGED Held
  <2>1. UNCHANGED <<status, slot>>
    BY <1>1 DEF Arrive, Start, CreateBooking, CreateSession, UpdateSession, DeleteSession,
                ReviewApprove, ReviewReject, Cancel, DeleteRoom
  <2> QED BY <2>1, HeldUnchanged
<1>2. ASSUME NEW c \in Clients, LockClassroom(c) \/ CheckSessions(c) \/ CheckBookings(c)
                                \/ RemoveRoom(c) \/ Abort(c)
      PROVE  UNCHANGED Held
  <2>1. UNCHANGED <<status, slot>>
    BY <1>2 DEF LockClassroom, CheckSessions, CheckBookings, Check, RemoveRoom, Abort, Rollback
  <2> QED BY <2>1, HeldUnchanged
<1>3. ASSUME NEW c \in Clients, InsertBooking(c) \/ InsertSession(c)
      PROVE  Abstract!Next \/ UNCHANGED Held
  <2>1. req[c].slot \in Slots
    BY <1>3 DEF InsertBooking, InsertSession, AtWrite, LockingOps, IInv, IInvIn, RequestOK
  <2>2. PICK i \in Ids : Abstract!Reserve(i, req[c].slot)
    BY <1>3, InsertReserves DEF InsertBooking, InsertSession, Ids
  <2> QED BY <2>1, <2>2, ActionOrStutter
<1>4. ASSUME NEW c \in Clients, MoveSession(c) PROVE Abstract!Next \/ UNCHANGED Held
  <2>1. req[c].slot \in Slots
    BY <1>4 DEF MoveSession, AtWrite, LockingOps, IInv, IInvIn, RequestOK
  <2> QED BY <1>4, <2>1, MoveMoves, ActionOrStutter
<1>5. ASSUME NEW c \in Clients, RejectBooking(c) \/ CancelBooking(c) \/ RemoveSession(c)
      PROVE  Abstract!Next \/ UNCHANGED Held
  BY <1>5, SetStatusReleases, ActionOrStutter
<1>6. ASSUME NEW c \in Clients, ApproveBooking(c) PROVE UNCHANGED Held
  BY <1>6, ApproveStutters
<1>7. CASE UNCHANGED vars
  BY <1>7, HeldUnchanged DEF vars
<1> QED BY <1>1, <1>2, <1>3, <1>4, <1>5, <1>6, <1>7 DEF Next, Proceed

\* Every behaviour of the concurrent transactions is one of atomic
\* reservations that never take a slot in use.
THEOREM Refinement == Spec => RefinesReservations
BY InitRefines, NextRefines, Invariance, PTL DEF Spec, RefinesReservations, Abstract!Spec

----------------------------------------------------------------------------
(* Imports beside the requests.                                            *)

\* A request stays one of its own sort while an import takes rows away from those
\* that only requests wrote.
LEMMA FewerRows ==
  ASSUME NEW X \in SUBSET Ids, NEW Y \in SUBSET X, IInvIn(X), TypeOK',
         \A i \in Ids : \/ status'[i] = status[i] /\ slot'[i] = slot[i]
                        \/ i \notin Y /\ slot'[i] \in Slots,
         UNCHANGED <<lock, pc, req>>
  PROVE  IInvIn(Y)'
<1>1. \A i \in Y : (Active(i)' <=> Active(i)) /\ slot'[i] = slot[i]
  BY DEF Active
<1>2. NoOverlapIn(Y)'
  BY <1>1 DEF IInvIn, NoOverlapIn
<1>3. SlotsKnown' /\ LockHeldInside'
  BY DEF IInvIn, SlotsKnown, LockHeldInside
<1>4. ASSUME NEW c \in Clients PROVE RequestOK(c)' /\ CheckStands(c, Y)'
  <2>1. \A pool : Conflicts(c, pool)' \cap Y \subseteq Conflicts(c, pool) \cap X
    BY <1>1 DEF Conflicts
  <2> QED BY <2>1 DEF IInvIn, RequestOK, CheckStands
<1> QED BY <1>2, <1>3, <1>4 DEF IInvIn

\* Two rows of a file clash or do not, whichever comes first.
LEMMA ClashSymmetric ==
  ASSUME NEW a, NEW b, a.slot \in Slots, b.slot \in Slots, ClashInFile(a, b)
  PROVE  ClashInFile(b, a)
BY OverlapsSymmetric DEF ClashInFile

\* A row of a file that can be inserted into a table.
LEMMA RowTyped ==
  ASSUME NEW t \in Tables, NEW row \in Rows(t)
  PROVE  /\ row.slot \in Slots
         /\ t = "sessions" => row.status = "live"
         /\ t = "bookings" => row.status \in BookingStatus \ {"none"}
BY ImportAssumption DEF Rows

\* The rows left of a file are rows of its table.
LEMMA CleanTyped ==
  ASSUME TypeOKImport, NEW w \in Imports
  PROVE  \A k \in DOMAIN clean[w] : clean[w][k] \in Rows(table[w]) /\ clean[w][k].slot \in Slots
<1>1. PICK lines \in SUBSET (1 .. MaxRows) : clean[w] \in [lines -> Rows(table[w])]
  BY DEF TypeOKImport
<1>2. table[w] \in Tables
  BY DEF TypeOKImport
<1> QED BY <1>1, <1>2, RowTyped

\* What one step of an import may do: its own rows change, the others lose their
\* solitude.
LEMMA ImportStep ==
  ASSUME IInvImport, NEW w \in Imports, NEW step \in ImportSteps, NEW t \in Tables,
         NEW lines \in SUBSET (1 .. MaxRows), NEW rows \in [lines -> Rows(t)], NEW solitary \in BOOLEAN,
         ipc' = [ipc EXCEPT ![w] = step], table' = [table EXCEPT ![w] = t],
         clean' = [clean EXCEPT ![w] = rows], alone' = [Disturb(w) EXCEPT ![w] = solitary],
         \A k, l \in lines : k # l => ~ClashInFile(rows[k], rows[l]),
         solitary => /\ \A c \in Clients : pc'[c] = "idle"
                     /\ \A v \in Imports \ {w} : ipc[v] = "idle"
                     /\ \A k \in lines : /\ step \in {"readBookings", "insert"} => FreeIn(rows[k], Sessions)'
                                         /\ step = "insert" => FreeIn(rows[k], Bookings)',
         TypeOK', imported' \subseteq Ids, IInvIn(Ids \ imported)'
  PROVE  IInvImport'
<1>1. /\ ipc \in [Imports -> ImportSteps] /\ table \in [Imports -> Tables] /\ alone \in [Imports -> BOOLEAN]
      /\ \A v \in Imports : \E l \in SUBSET (1 .. MaxRows) : clean[v] \in [l -> Rows(table[v])]
      /\ clean = [v \in Imports |-> clean[v]]
  BY DEF IInvImport, TypeOKImport
<1>2. /\ ipc' \in [Imports -> ImportSteps] /\ table' \in [Imports -> Tables]
      /\ ipc'[w] = step /\ table'[w] = t /\ clean'[w] = rows
      /\ \A v \in Imports \ {w} : ipc'[v] = ipc[v] /\ table'[v] = table[v] /\ clean'[v] = clean[v]
  BY <1>1
<1>3. alone' \in [Imports -> BOOLEAN] /\ alone'[w] = solitary /\ \A v \in Imports \ {w} : ~alone'[v]
  <2>1. Disturb(w) \in [Imports -> BOOLEAN] /\ \A v \in Imports \ {w} : ~Disturb(w)[v]
    BY <1>1, Zenon DEF Disturb
  <2> QED BY <2>1
<1>4. \A v \in Imports : \E l \in SUBSET (1 .. MaxRows) : clean'[v] \in [l -> Rows(table'[v])]
  <2> SUFFICES ASSUME NEW v \in Imports
               PROVE  \E l \in SUBSET (1 .. MaxRows) : clean'[v] \in [l -> Rows(table'[v])]
    OBVIOUS
  <2>1. CASE v = w
    BY <1>2, <2>1
  <2>2. CASE v # w
    BY <1>1, <1>2, <2>2
  <2> QED BY <2>1, <2>2
<1>5. clean' = [v \in Imports |-> clean'[v]]
  BY <1>1
<1>6. TypeOKImport'
  BY <1>2, <1>3, <1>4, <1>5 DEF TypeOKImport, Rows
<1>7. ASSUME NEW v \in Imports PROVE CleanApart(v)' /\ LookupsStand(v)'
  <2>1. CASE v = w
    <3>1. DOMAIN clean'[w] = lines
      BY <1>2
    <3>2. CleanApart(w)'
      BY <1>2, <3>1 DEF CleanApart, ClashInFile
    <3>3. LookupsStand(w)'
      BY <1>2, <1>3, <3>1 DEF LookupsStand, FreeIn
    <3> QED BY <2>1, <3>2, <3>3
  <2>2. CASE v # w
    <3>1. clean'[v] = clean[v] /\ ~alone'[v]
      BY <1>2, <1>3, <2>2
    <3>2. CleanApart(v)'
      BY <3>1 DEF IInvImport, CleanApart, ClashInFile
    <3> QED BY <3>1, <3>2 DEF LookupsStand
  <2> QED BY <2>1, <2>2
<1> QED BY <1>6, <1>7 DEF IInvImport

\* A step that writes no row leaves what is free as it was.
LEMMA RowsUntouched ==
  ASSUME IInvImport, UNCHANGED <<vars, imported>>
  PROVE  /\ TypeOK' /\ imported' \subseteq Ids /\ IInvIn(Ids \ imported)'
         /\ pc' = pc /\ \A row : FreeIn(row, Sessions)' = FreeIn(row, Sessions)
                                /\ FreeIn(row, Bookings)' = FreeIn(row, Bookings)
<1>1. UNCHANGED <<status, slot, rooms, lock, pc, req, imported>>
  BY DEF vars
<1>2. TypeOK' /\ imported' \subseteq Ids
  BY <1>1 DEF IInvImport, TypeOKImport, TypeOK
<1>3. IInvIn(Ids \ imported)'
  BY <1>1, <1>2 DEF IInvImport, IInvIn, NoOverlapIn, LockHeldInside, SlotsKnown, RequestOK, CheckStands,
                    Conflicts, Active
<1>4. \A row : FreeIn(row, Sessions)' = FreeIn(row, Sessions) /\ FreeIn(row, Bookings)' = FreeIn(row, Bookings)
  BY <1>1 DEF FreeIn, Active
<1> QED BY <1>1, <1>2, <1>3, <1>4

\* An import that starts keeps rows that do not overlap, and has looked nothing up.
LEMMA StartImportInductive ==
  ASSUME IInvImport, NEW w \in Imports, NEW t \in Tables,
         NEW file \in BoundedSeq(Rows(t), MaxRows), StartImport(w, t, file)
  PROVE  IInvImport'
<1>1. PICK lines \in SUBSET DOMAIN file :
        /\ KeptLines(file, lines)
        /\ ipc' = [ipc EXCEPT ![w] = "readSessions"]
        /\ table' = [table EXCEPT ![w] = t]
        /\ clean' = [clean EXCEPT ![w] = Restrict(file, lines)]
        /\ alone' = [Disturb(w) EXCEPT ![w] = /\ \A c \in Clients : pc[c] = "idle"
                                              /\ \A v \in Imports : ipc[v] = "idle"]
        /\ UNCHANGED <<vars, imported>>
  BY DEF StartImport
<1>2. PICK m \in 0 .. MaxRows : file \in [1 .. m -> Rows(t)]
  BY DEF BoundedSeq, SeqOf
<1>3. PICK rows : rows = Restrict(file, lines)
  OBVIOUS
<1>4. PICK solitary \in BOOLEAN :
        solitary = (/\ \A c \in Clients : pc[c] = "idle"
                    /\ \A v \in Imports : ipc[v] = "idle")
  OBVIOUS
<1>5. /\ lines \in SUBSET (1 .. MaxRows) /\ rows \in [lines -> Rows(t)]
      /\ \A k \in lines : rows[k] = file[k] /\ file[k].slot \in Slots /\ k \in Int
  BY <1>1, <1>2, <1>3, ImportAssumption, RowTyped DEF Restrict
<1>6. ASSUME NEW k \in lines, NEW l \in lines, k # l PROVE ~ClashInFile(rows[k], rows[l])
  <2>1. CASE k < l
    BY <1>1, <1>5, <1>6, <2>1 DEF KeptLines
  <2>2. CASE l < k
    <3>1. ~ClashInFile(rows[l], rows[k])
      BY <1>1, <1>5, <1>6, <2>2 DEF KeptLines
    <3> QED BY <1>5, <3>1, ClashSymmetric
  <2> QED BY <1>5, <1>6, <2>1, <2>2
<1>0. PICK step \in ImportSteps : step = "readSessions"
  BY DEF ImportSteps
<1>7. solitary => /\ \A c \in Clients : pc'[c] = "idle"
                  /\ \A v \in Imports \ {w} : ipc[v] = "idle"
                  /\ \A k \in lines : /\ step \in {"readBookings", "insert"} => FreeIn(rows[k], Sessions)'
                                      /\ step = "insert" => FreeIn(rows[k], Bookings)'
  BY <1>0, <1>1, <1>4, RowsUntouched
<1>8. ipc' = [ipc EXCEPT ![w] = step]
  BY <1>0, <1>1
<1>9. clean' = [clean EXCEPT ![w] = rows] /\ alone' = [Disturb(w) EXCEPT ![w] = solitary]
  BY <1>1, <1>3, <1>4
<1>10. TypeOK' /\ imported' \subseteq Ids /\ IInvIn(Ids \ imported)'
  BY <1>1, RowsUntouched
<1>11. table' = [table EXCEPT ![w] = t]
  BY <1>1
<1>12. lines \in SUBSET (1 .. MaxRows) /\ rows \in [lines -> Rows(t)]
       /\ \A k, l \in lines : k # l => ~ClashInFile(rows[k], rows[l])
  BY <1>5, <1>6
<1> QED BY <1>7, <1>8, <1>9, <1>10, <1>11, <1>12, ImportStep, Zenon

\* A lookup leaves the rows that it found free, of the table it read.
LEMMA ReadTableInductive ==
  ASSUME IInvImport, NEW w \in Imports, ReadSessions(w) \/ ReadBookings(w)
  PROVE  IInvImport'
<1>1. PICK pool \in {Sessions, Bookings}, next \in {"readBookings", "insert"} :
        /\ \/ pool = Sessions /\ ipc[w] = "readSessions" /\ next = "readBookings"
           \/ pool = Bookings /\ ipc[w] = "readBookings" /\ next = "insert"
        /\ ipc' = [ipc EXCEPT ![w] = next]
        /\ clean' = [clean EXCEPT ![w] = Restrict(clean[w], {k \in DOMAIN clean[w] : FreeIn(clean[w][k], pool)})]
        /\ alone' = Disturb(w)
        /\ UNCHANGED <<vars, table, imported>>
  <2>1. clean = [v \in Imports |-> clean[v]]
    BY DEF IInvImport, TypeOKImport
  <2>2. CASE ReadSessions(w)
    BY <2>1, <2>2 DEF ReadSessions, ReadTable
  <2>3. CASE ReadBookings(w)
    BY <2>1, <2>3 DEF ReadBookings, ReadTable
  <2> QED BY <2>2, <2>3
<1>2. PICK kept : kept = {k \in DOMAIN clean[w] : FreeIn(clean[w][k], pool)}
  OBVIOUS
<1>3. PICK rows : rows = Restrict(clean[w], kept)
  OBVIOUS
<1>4. PICK t \in Tables : t = table[w]
  BY DEF IInvImport, TypeOKImport
<1>5. PICK solitary \in BOOLEAN : solitary = alone[w]
  BY DEF IInvImport, TypeOKImport
<1>6. PICK lines \in SUBSET (1 .. MaxRows) : clean[w] \in [lines -> Rows(t)]
  BY <1>4 DEF IInvImport, TypeOKImport
<1>7. kept \in SUBSET (1 .. MaxRows) /\ kept \subseteq lines /\ rows \in [kept -> Rows(t)]
      /\ \A k \in kept : rows[k] = clean[w][k] /\ FreeIn(rows[k], pool)
  BY <1>2, <1>3, <1>6 DEF Restrict
<1>8. \A k, l \in kept : k # l => ~ClashInFile(rows[k], rows[l])
  BY <1>6, <1>7 DEF IInvImport, CleanApart
<1>9. /\ table' = [table EXCEPT ![w] = t] /\ clean' = [clean EXCEPT ![w] = rows]
      /\ alone' = [Disturb(w) EXCEPT ![w] = solitary]
  <2>1. table' = [table EXCEPT ![w] = t]
    BY <1>1, <1>4 DEF IInvImport, TypeOKImport
  <2>2. Disturb(w) = [Disturb(w) EXCEPT ![w] = solitary]
    BY <1>5, Zenon DEF Disturb
  <2> QED BY <1>1, <1>2, <1>3, <2>1, <2>2
<1>10. solitary => /\ \A c \in Clients : pc'[c] = "idle"
                   /\ \A v \in Imports \ {w} : ipc[v] = "idle"
                   /\ \A k \in kept : /\ next \in {"readBookings", "insert"} => FreeIn(rows[k], Sessions)'
                                      /\ next = "insert" => FreeIn(rows[k], Bookings)'
  <2> SUFFICES ASSUME solitary
               PROVE  /\ \A c \in Clients : pc[c] = "idle"
                      /\ \A v \in Imports \ {w} : ipc[v] = "idle"
                      /\ \A k \in kept : /\ FreeIn(rows[k], Sessions)
                                         /\ next = "insert" => FreeIn(rows[k], Bookings)
    BY <1>1, RowsUntouched
  <2> QED BY <1>1, <1>5, <1>6, <1>7 DEF IInvImport, LookupsStand
<1>11. next \in ImportSteps /\ ipc' = [ipc EXCEPT ![w] = next]
  BY <1>1 DEF ImportSteps
<1>12. TypeOK' /\ imported' \subseteq Ids /\ IInvIn(Ids \ imported)'
  BY <1>1, RowsUntouched
<1> QED BY <1>7, <1>8, <1>9, <1>10, <1>11, <1>12, ImportStep, Zenon

\* The end of an import leaves it no rows and no claims.
LEMMA EndImportInductive ==
  ASSUME IInvImport, NEW w \in Imports, EndImport(w),
         TypeOK', imported' \subseteq Ids, IInvIn(Ids \ imported)'
  PROVE  IInvImport'
<1>1. /\ "idle" \in ImportSteps /\ "sessions" \in Tables /\ {} \in SUBSET (1 .. MaxRows)
      /\ << >> \in [{} -> Rows("sessions")] /\ FALSE \in BOOLEAN
  BY DEF ImportSteps, Tables
<1>2. /\ ipc' = [ipc EXCEPT ![w] = "idle"] /\ table' = [table EXCEPT ![w] = "sessions"]
      /\ clean' = [clean EXCEPT ![w] = << >>] /\ alone' = [Disturb(w) EXCEPT ![w] = FALSE]
  BY DEF EndImport
<1> QED BY <1>1, <1>2, ImportStep

\* What InsertRows does to the rows.
LEMMA Inserted ==
  ASSUME IInvImport, NEW w \in Imports, InsertRows(w)
  PROVE  \E ids \in IdsFor(w) :
           /\ imported' = imported \cup {ids[k] : k \in DOMAIN clean[w]}
           /\ \A k \in DOMAIN clean[w] : /\ ids[k] \in FreshIds(Pool(w))
                                         /\ status'[ids[k]] = clean[w][k].status
                                         /\ slot'[ids[k]] = clean[w][k].slot
           /\ \A i \in Ids \ {ids[k] : k \in DOMAIN clean[w]} : status'[i] = status[i] /\ slot'[i] = slot[i]
           /\ status' = [i \in Ids |-> status'[i]] /\ slot' = [i \in Ids |-> slot'[i]]
           /\ DOMAIN ids = DOMAIN clean[w] /\ IsInjective(ids)
<1> DEFINE row(ids, i) == clean[w][CHOOSE k \in DOMAIN ids : ids[k] = i]
           new(ids) == {ids[k] : k \in DOMAIN ids}
<1>1. PICK ids \in IdsFor(w) :
        /\ status' = [i \in Ids |-> IF i \in new(ids) THEN row(ids, i).status ELSE status[i]]
        /\ slot' = [i \in Ids |-> IF i \in new(ids) THEN row(ids, i).slot ELSE slot[i]]
        /\ imported' = imported \cup new(ids)
  BY DEF InsertRows
<1>2. DOMAIN ids = DOMAIN clean[w] /\ ids \in [DOMAIN clean[w] -> FreshIds(Pool(w))] /\ IsInjective(ids)
  BY DEF IdsFor
<1>3. \A k \in DOMAIN clean[w] : ids[k] \in FreshIds(Pool(w)) /\ ids[k] \in Ids /\ ids[k] \in new(ids)
  BY <1>2 DEF FreshIds, Pool, Ids
<1>4. ASSUME NEW k \in DOMAIN clean[w] PROVE row(ids, ids[k]) = clean[w][k]
  BY <1>2 DEF IsInjective
<1> HIDE DEF row, new
<1>5. \A k \in DOMAIN clean[w] : status'[ids[k]] = clean[w][k].status /\ slot'[ids[k]] = clean[w][k].slot
  BY <1>1, <1>3, <1>4
<1>6. new(ids) = {ids[k] : k \in DOMAIN clean[w]}
  BY <1>2 DEF new
<1>7. \A i \in Ids \ new(ids) : status'[i] = status[i] /\ slot'[i] = slot[i]
  BY <1>1
<1>8. status' = [i \in Ids |-> status'[i]] /\ slot' = [i \in Ids |-> slot'[i]]
  BY <1>1
<1> QED BY <1>1, <1>2, <1>3, <1>5, <1>6, <1>7, <1>8

\* The rows of a file go in together, checked under the lock on their rooms.
LEMMA InsertRowsInductive ==
  ASSUME IInvImport, NEW w \in Imports, InsertRows(w)
  PROVE  IInvImport'
<1>1. EndImport(w) /\ UNCHANGED <<rooms, lock, pc, req>>
  BY DEF InsertRows
<1>2. PICK ids :
        /\ imported' = imported \cup {ids[k] : k \in DOMAIN clean[w]}
        /\ \A k \in DOMAIN clean[w] : /\ ids[k] \in FreshIds(Pool(w))
                                      /\ status'[ids[k]] = clean[w][k].status
                                      /\ slot'[ids[k]] = clean[w][k].slot
        /\ \A i \in Ids \ {ids[k] : k \in DOMAIN clean[w]} : status'[i] = status[i] /\ slot'[i] = slot[i]
        /\ status' = [i \in Ids |-> status'[i]] /\ slot' = [i \in Ids |-> slot'[i]]
  BY Inserted
<1>3. table[w] \in Tables /\ imported \subseteq Ids /\ TypeOK
  BY DEF IInvImport, TypeOKImport
<1>4. \A k \in DOMAIN clean[w] :
        /\ ids[k] \in Ids /\ slot'[ids[k]] \in Slots
        /\ ids[k] \in Bookings => status'[ids[k]] \in BookingStatus
        /\ ids[k] \in Sessions => status'[ids[k]] \in SessionStatus
  <2> SUFFICES ASSUME NEW k \in DOMAIN clean[w]
               PROVE  /\ ids[k] \in Ids /\ clean[w][k].slot \in Slots
                      /\ ids[k] \in Bookings => clean[w][k].status \in BookingStatus
                      /\ ids[k] \in Sessions => clean[w][k].status \in SessionStatus
    BY <1>2
  <2>1. clean[w][k] \in Rows(table[w]) /\ clean[w][k].slot \in Slots
    BY CleanTyped DEF IInvImport
  <2>2. ids[k] \in Pool(w)
    BY <1>2 DEF FreshIds
  <2>3. CASE table[w] = "sessions"
    BY <2>1, <2>2, <2>3, <1>3, RowTyped, OccupancyAssumption DEF Pool, Ids, SessionStatus
  <2>4. CASE table[w] = "bookings"
    BY <2>1, <2>2, <2>4, <1>3, RowTyped, OccupancyAssumption DEF Pool, Ids
  <2> QED BY <1>3, <2>3, <2>4 DEF Tables
<1>5. \A i \in Ids : \/ status'[i] = status[i] /\ slot'[i] = slot[i]
                     \/ \E k \in DOMAIN clean[w] : i = ids[k]
  BY <1>2
<1>6. TypeOK'
  <2>1. \A i \in Ids : /\ slot'[i] \in Slots \cup {None}
                       /\ i \in Bookings => status'[i] \in BookingStatus
                       /\ i \in Sessions => status'[i] \in SessionStatus
    BY <1>3, <1>4, <1>5 DEF TypeOK
  <2>2. \A i \in Ids : status'[i] \in BookingStatus \cup SessionStatus
    BY <2>1 DEF Ids
  <2>3. status' \in [Ids -> BookingStatus \cup SessionStatus] /\ slot' \in [Ids -> Slots \cup {None}]
    BY <1>2, <2>1, <2>2
  <2> QED BY <1>1, <1>3, <2>1, <2>3 DEF TypeOK, Ids
<1>7. imported' \subseteq Ids
  BY <1>2, <1>3, <1>4
<1>8. IInvIn(Ids \ imported)'
  <2>1. PICK X \in SUBSET Ids : X = Ids \ imported
    OBVIOUS
  <2>2. PICK Y \in SUBSET X : Y = Ids \ imported'
    BY <1>2, <2>1
  <2>3. \A i \in Ids : \/ status'[i] = status[i] /\ slot'[i] = slot[i]
                       \/ i \notin Y /\ slot'[i] \in Slots
    BY <1>2, <1>4, <1>5, <2>2
  <2>4. IInvIn(X)
    BY <2>1 DEF IInvImport
  <2>5. IInvIn(Y)'
    BY <1>1, <1>6, <2>3, <2>4, FewerRows
  <2> QED BY <2>2, <2>5
<1> QED BY <1>1, <1>6, <1>7, <1>8, EndImportInductive

\* The requests keep their invariant of the rows that they alone write.
LEMMA RequestInductive ==
  ASSUME IInvImport, RequestStep
  PROVE  IInvImport'
<1>1. Next /\ alone' = [w \in Imports |-> FALSE] /\ UNCHANGED <<ipc, table, clean, imported>>
  BY DEF RequestStep
<1>2. PICK X \in SUBSET Ids : X = Ids \ imported
  OBVIOUS
<1>3. IInvIn(X)'
  BY <1>1, <1>2, NextIInvIn DEF IInvImport
<1>4. IInvIn(Ids \ imported)'
  BY <1>1, <1>2, <1>3
<1>5. TypeOKImport'
  <2>1. TypeOK'
    BY <1>3 DEF IInvIn
  <2> QED BY <1>1, <2>1 DEF IInvImport, TypeOKImport, Rows
<1>6. \A w \in Imports : CleanApart(w)' /\ LookupsStand(w)'
  BY <1>1 DEF IInvImport, CleanApart, ClashInFile, LookupsStand
<1> QED BY <1>4, <1>5, <1>6 DEF IInvImport

\* Before any import the invariant holds.
LEMMA InitImportInductive == InitImport => IInvImport
<1> SUFFICES ASSUME InitImport PROVE IInvImport
  OBVIOUS
<1>1. PICK X \in SUBSET Ids : X = Ids \ imported
  OBVIOUS
<1>2. IInvIn(X)
  BY InitIInvIn DEF InitImport
<1>3. TypeOKImport
  <2>1. \A w \in Imports : clean[w] \in [{} -> Rows(table[w])]
    BY DEF InitImport
  <2>2. TypeOK
    BY <1>2 DEF IInvIn
  <2>3. \A w \in Imports : \E lines \in SUBSET (1 .. MaxRows) : clean[w] \in [lines -> Rows(table[w])]
    BY <2>1
  <2> QED BY <2>2, <2>3 DEF InitImport, TypeOKImport, ImportSteps, Tables
<1>4. \A w \in Imports : CleanApart(w) /\ LookupsStand(w)
  BY DEF InitImport, CleanApart, LookupsStand
<1> QED BY <1>1, <1>2, <1>3, <1>4 DEF IInvImport

\* Every step of imports and requests keeps the invariant.
LEMMA NextImportInductive == IInvImport /\ [NextImport]_allVars => IInvImport'
<1> SUFFICES ASSUME IInvImport, [NextImport]_allVars PROVE IInvImport'
  OBVIOUS
<1>1. ASSUME NEW w \in Imports, AbortImport(w) PROVE IInvImport'
  BY <1>1, RowsUntouched, EndImportInductive DEF AbortImport
<1>2. CASE UNCHANGED allVars
  <2>1. UNCHANGED <<vars, imported, ipc, table, clean, alone>>
    BY <1>2 DEF allVars, importVars
  <2>2. TypeOK' /\ imported' \subseteq Ids /\ IInvIn(Ids \ imported)' /\ pc' = pc
        /\ \A row : FreeIn(row, Sessions)' = FreeIn(row, Sessions) /\ FreeIn(row, Bookings)' = FreeIn(row, Bookings)
    BY <2>1, RowsUntouched
  <2>3. TypeOKImport'
    BY <2>1, <2>2 DEF IInvImport, TypeOKImport, Rows
  <2>4. \A w \in Imports : CleanApart(w)' /\ LookupsStand(w)'
    BY <2>1 DEF IInvImport, CleanApart, ClashInFile, LookupsStand, FreeIn, Active, vars
  <2> QED BY <2>2, <2>3, <2>4 DEF IInvImport
<1> QED BY <1>1, <1>2, RequestInductive, StartImportInductive, ReadTableInductive, InsertRowsInductive
        DEF NextImport

\* The invariant of requests and imports, for any number of both.
THEOREM ImportInvariance == SpecImport => []IInvImport
BY InitImportInductive, NextImportInductive, PTL DEF SpecImport

\* Whatever imports insert, no two occupants of the requests overlap
\* (booking/store.go Create, course/sessions.go): OverlapOnlyFromImport.
THEOREM RequestsKeepApart == SpecImport => []OverlapOnlyFromImport
<1>1. IInvImport => OverlapOnlyFromImport
  BY DEF IInvImport, IInvIn, OverlapOnlyFromImport
<1> QED BY <1>1, ImportInvariance, PTL

\* With no overlap before, the rows that an import inserts while nothing else ran
\* overlap nothing.
LEMMA SolitaryInsert ==
  ASSUME IInvImport, NoOverlap, NEW w \in Imports, alone[w], InsertRows(w)
  PROVE  NoOverlap'
<1>1. PICK ids :
        /\ \A k \in DOMAIN clean[w] : /\ ids[k] \in FreshIds(Pool(w))
                                      /\ status'[ids[k]] = clean[w][k].status
                                      /\ slot'[ids[k]] = clean[w][k].slot
        /\ \A i \in Ids \ {ids[k] : k \in DOMAIN clean[w]} : status'[i] = status[i] /\ slot'[i] = slot[i]
  BY Inserted
<1>2. \A k \in DOMAIN clean[w] : FreeIn(clean[w][k], Sessions) /\ FreeIn(clean[w][k], Bookings)
  BY DEF IInvImport, LookupsStand, InsertRows
<1>3. \A k \in DOMAIN clean[w] : clean[w][k].slot \in Slots
  BY CleanTyped DEF IInvImport
<1>4. \A i \in Ids : Active(i) => slot[i] \in Slots
  BY DEF IInvImport, IInvIn, SlotsKnown, Active
<1>5. \A i \in Ids : \/ status'[i] = status[i] /\ slot'[i] = slot[i]
                     \/ \E k \in DOMAIN clean[w] : i = ids[k]
  BY <1>1
<1>6. \A k \in DOMAIN clean[w] : Active(ids[k])' => Occupies(clean[w][k])
  BY <1>1 DEF Active, Occupies
<1> SUFFICES ASSUME NEW i \in Ids, NEW j \in Ids, i # j, Active(i)', Active(j)', Overlaps(slot'[i], slot'[j])
             PROVE  FALSE
  BY DEF NoOverlap, NoOverlapIn
<1>7. ASSUME NEW k \in DOMAIN clean[w], NEW o \in Ids, Occupies(clean[w][k]), Active(o)
      PROVE  ~Overlaps(clean[w][k].slot, slot[o]) /\ ~Overlaps(slot[o], clean[w][k].slot)
  <2>1. ~Overlaps(clean[w][k].slot, slot[o])
    BY <1>2, <1>7 DEF FreeIn, Ids
  <2> QED BY <1>3, <1>4, <1>7, <2>1, OverlapsSymmetric
<1>8. CASE status'[i] = status[i] /\ slot'[i] = slot[i] /\ status'[j] = status[j] /\ slot'[j] = slot[j]
  BY <1>8 DEF NoOverlap, NoOverlapIn, Active
<1>9. ASSUME NEW k \in DOMAIN clean[w], i = ids[k], status'[j] = status[j], slot'[j] = slot[j] PROVE FALSE
  <2>1. Active(j) /\ Occupies(clean[w][k])
    BY <1>6, <1>9 DEF Active
  <2> QED BY <1>1, <1>7, <1>9, <2>1
<1>10. ASSUME NEW k \in DOMAIN clean[w], j = ids[k], status'[i] = status[i], slot'[i] = slot[i] PROVE FALSE
  <2>1. Active(i) /\ Occupies(clean[w][k])
    BY <1>6, <1>10 DEF Active
  <2> QED BY <1>1, <1>7, <1>10, <2>1
<1>11. ASSUME NEW k \in DOMAIN clean[w], NEW l \in DOMAIN clean[w], i = ids[k], j = ids[l] PROVE FALSE
  <2>1. Occupies(clean[w][k]) /\ Occupies(clean[w][l]) /\ k # l
    BY <1>6, <1>11
  <2>2. ~Overlaps(clean[w][k].slot, clean[w][l].slot)
    BY <2>1 DEF IInvImport, CleanApart, ClashInFile
  <2> QED BY <1>1, <1>11, <2>2
<1> QED BY <1>5, <1>8, <1>9, <1>10, <1>11

\* While an import is alone no request writes.
LEMMA SolitaryStep ==
  ASSUME IInvImport, [NextImport]_allVars, NoOverlap, NEW w \in Imports, alone[w], ipc[w] = "insert"
  PROVE  NoOverlap'
<1>1. UNCHANGED <<status, slot>> => NoOverlap'
  BY DEF NoOverlap, NoOverlapIn, Active
<1>2. (\A c \in Clients : pc[c] = "idle") /\ (\A v \in Imports \ {w} : ipc[v] = "idle")
  BY DEF IInvImport, LookupsStand
<1>3. CASE RequestStep
  <2>1. PICK c \in Clients : Arrive(c) \/ LockClassroom(c) \/ Proceed(c) \/ Abort(c)
    BY <1>3 DEF RequestStep, Next
  <2>2. Arrive(c)
    BY <1>2, <2>1 DEF LockClassroom, Proceed, Abort, CheckSessions, CheckBookings, Check, InsertBooking, InsertSession,
                      MoveSession, ApproveBooking, RejectBooking, CancelBooking, RemoveSession, SetStatus, RemoveRoom,
                      AtWrite
  <2>3. UNCHANGED <<status, slot>>
    BY <2>2 DEF Arrive, Start, CreateBooking, CreateSession, UpdateSession, DeleteSession,
                ReviewApprove, ReviewReject, Cancel, DeleteRoom
  <2> QED BY <1>1, <2>3
<1>4. ASSUME NEW v \in Imports, InsertRows(v) PROVE NoOverlap'
  <2>1. v = w
    BY <1>2, <1>4 DEF InsertRows
  <2> QED BY <1>4, <2>1, SolitaryInsert
<1>5. ASSUME NEW v \in Imports,
             \/ \E t \in Tables : \E file \in BoundedSeq(Rows(t), MaxRows) : StartImport(v, t, file)
             \/ ReadSessions(v) \/ ReadBookings(v) \/ AbortImport(v)
      PROVE  NoOverlap'
  <2>1. UNCHANGED vars
    BY <1>5 DEF StartImport, ReadSessions, ReadBookings, ReadTable, AbortImport
  <2> QED BY <1>1, <2>1 DEF vars
<1>6. CASE UNCHANGED allVars
  BY <1>1, <1>6 DEF allVars, vars
<1> QED BY <1>3, <1>4, <1>5, <1>6 DEF NextImport

\* An import that runs alone double-books nobody: the duplicate test within the
\* file and the two lookups are enough (importer/sessions.go parseAndValidate,
\* bookings.go parseBookings): ImportAloneIsSafe.
THEOREM AloneImportsAreSafe == SpecImport => ImportAloneIsSafe
<1> DEFINE Step == \A w \in Imports : NoOverlap /\ alone[w] /\ ipc[w] = "insert" => NoOverlap'
<1>1. IInvImport /\ [NextImport]_allVars => [Step]_allVars
  BY SolitaryStep
<1> QED BY <1>1, ImportInvariance, PTL DEF SpecImport, ImportAloneIsSafe
=============================================================================
