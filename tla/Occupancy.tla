----------------------------- MODULE Occupancy -----------------------------
(***************************************************************************)
(* Classroom occupancy: the booking store and the course-session store     *)
(* write two tables that share one grid of (classroom, date, periods) and  *)
(* no database constraint.  Concurrent requests are transactions of a      *)
(* PostgreSQL database at READ COMMITTED: a step is one statement, its     *)
(* effects become visible at the commit, and an error or a crash rolls the *)
(* transaction back and frees its row locks.  The last write of every      *)
(* transaction is fused with its commit: nobody reads what is uncommitted. *)
(***************************************************************************)
EXTENDS Slots, FiniteSets

CONSTANTS
  Clients,    \* HTTP requests served concurrently
  Bookings,   \* ids of classroom_bookings rows (a bound: ids never recur)
  Sessions,   \* ids of course_sessions rows (a bound: ids never recur)
  None,       \* no id, no slot, no lock holder
  Unborn,     \* of the abstract specification: not created yet
  Gone        \* of the abstract specification: has given its slot up

Ids == Bookings \cup Sessions

ASSUME OccupancyAssumption ==
  /\ Bookings \cap Sessions = {}
  /\ None \notin Ids
  /\ None \notin Slots
  /\ None \notin Clients
  /\ None \notin Rooms
  /\ Unborn \notin Slots /\ Gone \notin Slots /\ Unborn # Gone

VARIABLES
  status,     \* row status: bookings keep theirs, sessions are live or deleted
  slot,       \* the slot of every row that was ever inserted
  rooms,      \* rows of the classrooms table
  lock,       \* holder of the FOR UPDATE lock of each classrooms row
  pc,         \* the next statement of each request
  req         \* the operation each request performs

vars == <<status, slot, rooms, lock, pc, req>>

BookingStatus == {"none", "pending", "approved", "rejected", "cancelled"}
SessionStatus == {"none", "live", "deleted"}
Ops == {"none", "createBooking", "createSession", "updateSession",
        "deleteSession", "approve", "reject", "cancel", "deleteRoom"}
LockingOps == {"createBooking", "createSession", "updateSession"}
Steps == {"idle", "lock", "sessions", "bookings", "write"}

Requests == [op : Ops, id : Ids \cup {None}, slot : Slots \cup {None},
             room : Rooms \cup {None}]
NoRequest == [op |-> "none", id |-> None, slot |-> None, room |-> None]

\* pending and approved bookings and every existing session occupy their slot.
Active(i) == status[i] \in {"pending", "approved", "live"}

FreshIds(pool) == {i \in pool : status[i] = "none"}

Init ==
  /\ status = [i \in Ids |-> "none"]
  /\ slot = [i \in Ids |-> None]
  /\ rooms = Rooms
  /\ lock = [r \in Rooms |-> None]
  /\ pc = [c \in Clients |-> "idle"]
  /\ req = [c \in Clients |-> NoRequest]

----------------------------------------------------------------------------
(* Requests arrive; the store's first statement decides where they start.  *)

Start(c, op, i, s, r, step) ==
  /\ pc' = [pc EXCEPT ![c] = step]
  /\ req' = [req EXCEPT ![c] = [op |-> op, id |-> i, slot |-> s, room |-> r]]
  /\ UNCHANGED <<status, slot, rooms, lock>>

\* The bound on row ids: every create in flight has an id left to insert.
IdLeft(pool, op) ==
  Cardinality({c \in Clients : req[c].op = op}) < Cardinality(FreshIds(pool))

CreateBooking(c, s) ==
  /\ IdLeft(Bookings, "createBooking")
  /\ Start(c, "createBooking", None, s, s.room, "lock")

CreateSession(c, s) ==
  /\ IdLeft(Sessions, "createSession")
  /\ Start(c, "createSession", None, s, s.room, "lock")

\* GetByID and GetSession join the classroom: the row of a room that is gone
\* is "not found".
Readable(i) == slot[i].room \in rooms

\* The handler loads the session first: a missing one is 404.
UpdateSession(c, i, s) ==
  /\ status[i] = "live" /\ Readable(i)
  /\ Start(c, "updateSession", i, s, s.room, "lock")

\* Review reads the booking, refuses all but a pending one, and re-checks an
\* approval for conflicts without taking the classroom lock.
ReviewApprove(c, b) ==
  /\ status[b] = "pending" /\ Readable(b)
  /\ Start(c, "approve", b, slot[b], slot[b].room, "sessions")

ReviewReject(c, b) ==
  /\ status[b] = "pending" /\ Readable(b)
  /\ Start(c, "reject", b, slot[b], slot[b].room, "write")

\* By the booker or an admin: who asks is settled before the first write.
Cancel(c, b) ==
  /\ status[b] \in {"pending", "approved"} /\ Readable(b)
  /\ Start(c, "cancel", b, slot[b], slot[b].room, "write")

\* classroom.Delete refuses a room that any row of either table refers to.
DeleteRoom(c, r) ==
  /\ r \in rooms
  /\ \A i \in Ids : status[i] \notin {"none", "deleted"} => slot[i].room # r
  /\ Start(c, "deleteRoom", None, None, r, "write")

\* The handler loads the session for the audit log before it deletes.
DeleteSession(c, i) ==
  /\ status[i] = "live" /\ Readable(i)
  /\ Start(c, "deleteSession", i, slot[i], slot[i].room, "write")

----------------------------------------------------------------------------
(* The statements of a transaction.                                        *)

\* Commit or rollback: the request is answered and its row lock is freed.
Finish(c) ==
  /\ pc' = [pc EXCEPT ![c] = "idle"]
  /\ req' = [req EXCEPT ![c] = NoRequest]
  /\ lock' = [r \in Rooms |-> IF lock[r] = c THEN None ELSE lock[r]]

Rollback(c) == Finish(c) /\ UNCHANGED <<status, slot, rooms>>

\* Mistake: a SELECT without FOR UPDATE.
SelectClassroom(c) ==
  /\ pc[c] = "lock"
  /\ \/ /\ req[c].room \in rooms
        /\ pc' = [pc EXCEPT ![c] = "sessions"]
        /\ UNCHANGED <<status, slot, rooms, lock, req>>
     \/ /\ req[c].room \notin rooms
        /\ Rollback(c)

\* SELECT ... FROM classrooms ... FOR UPDATE; it fails when the row is gone.
LockClassroom(c) ==
  /\ pc[c] = "lock"
  /\ lock[req[c].room] = None
  /\ \/ /\ req[c].room \in rooms
        /\ lock' = [lock EXCEPT ![req[c].room] = c]
        /\ pc' = [pc EXCEPT ![c] = "sessions"]
        /\ UNCHANGED <<status, slot, rooms, req>>
     \/ /\ req[c].room \notin rooms
        /\ Rollback(c)

\* Mistake: `period_start < pe AND period_end > ps` lets ranges touch.
ConflictsStrictly(c, pool) ==
  {i \in pool \ {req[c].id} :
     /\ Active(i)
     /\ slot[i].room = req[c].room /\ slot[i].day = req[c].slot.day
     /\ slot[i].ps < req[c].slot.pe /\ slot[i].pe > req[c].slot.ps}

\* Rows of one table that stand in the way; a row is never its own conflict.
Conflicts(c, pool) ==
  {i \in pool \ {req[c].id} : Active(i) /\ Overlaps(slot[i], req[c].slot)}

Check(c, here, pool, next) ==
  /\ pc[c] = here
  /\ \/ /\ Conflicts(c, pool) # {}
        /\ Rollback(c)
     \/ /\ Conflicts(c, pool) = {}
        /\ pc' = [pc EXCEPT ![c] = next]
        /\ UNCHANGED <<status, slot, rooms, lock, req>>

CheckSessions(c) == Check(c, "sessions", Sessions, "bookings")
CheckBookings(c) == Check(c, "bookings", Bookings, "write")

AtWrite(c, op) == pc[c] = "write" /\ req[c].op = op

Insert(c, i, st) ==
  /\ status[i] = "none"
  /\ status' = [status EXCEPT ![i] = st]
  /\ slot' = [slot EXCEPT ![i] = req[c].slot]
  /\ Finish(c)
  /\ UNCHANGED rooms

InsertBooking(c) ==
  /\ AtWrite(c, "createBooking")
  /\ \E b \in Bookings : Insert(c, b, "pending")

InsertSession(c) ==
  /\ AtWrite(c, "createSession")
  /\ \E i \in Sessions : Insert(c, i, "live")

\* UPDATE course_sessions ... WHERE id: no row left means ErrSessionNotFound.
MoveSession(c) ==
  /\ AtWrite(c, "updateSession")
  /\ \/ /\ status[req[c].id] = "live"
        /\ slot' = [slot EXCEPT ![req[c].id] = req[c].slot]
        /\ Finish(c)
        /\ UNCHANGED <<status, rooms>>
     \/ /\ status[req[c].id] # "live"
        /\ Rollback(c)

\* UPDATE classroom_bookings SET status ... WHERE id AND status IN from: the
\* status read at the start is tested again by the write.  So is the existence
\* of the row that DELETE FROM course_sessions WHERE id removes.
SetStatus(c, op, from, to) ==
  /\ AtWrite(c, op)
  /\ \/ /\ status[req[c].id] \in from
        /\ status' = [status EXCEPT ![req[c].id] = to]
        /\ Finish(c)
        /\ UNCHANGED <<slot, rooms>>
     \/ /\ status[req[c].id] \notin from
        /\ Rollback(c)

\* Mistake: an UPDATE whose WHERE does not test the status again.
ApproveUnguarded(c) == SetStatus(c, "approve", BookingStatus, "approved")

ApproveBooking(c) == SetStatus(c, "approve", {"pending"}, "approved")
RejectBooking(c) == SetStatus(c, "reject", {"pending"}, "rejected")
CancelBooking(c) == SetStatus(c, "cancel", {"pending", "approved"}, "cancelled")
RemoveSession(c) == SetStatus(c, "deleteSession", {"live"}, "deleted")

\* DELETE FROM classrooms waits for the row lock; the count is not repeated.
RemoveRoom(c) ==
  /\ AtWrite(c, "deleteRoom")
  /\ lock[req[c].room] = None
  /\ rooms' = rooms \ {req[c].room}
  /\ Finish(c)
  /\ UNCHANGED <<status, slot>>

\* A failing statement, a cancelled request or a lost connection.
Abort(c) ==
  /\ pc[c] # "idle"
  /\ Rollback(c)

----------------------------------------------------------------------------
Arrive(c) ==
  /\ pc[c] = "idle"
  /\ \/ \E s \in Slots : CreateBooking(c, s) \/ CreateSession(c, s)
     \/ \E i \in Sessions, s \in Slots : UpdateSession(c, i, s)
     \/ \E b \in Bookings : ReviewApprove(c, b) \/ ReviewReject(c, b) \/ Cancel(c, b)
     \/ \E r \in Rooms : DeleteRoom(c, r)
     \/ \E i \in Sessions : DeleteSession(c, i)

Proceed(c) ==
  \/ CheckSessions(c) \/ CheckBookings(c)
  \/ InsertBooking(c) \/ InsertSession(c) \/ MoveSession(c)
  \/ ApproveBooking(c) \/ RejectBooking(c) \/ CancelBooking(c)
  \/ RemoveSession(c) \/ RemoveRoom(c)

Next == \E c \in Clients : Arrive(c) \/ LockClassroom(c) \/ Proceed(c) \/ Abort(c)

Spec == Init /\ [][Next]_vars

----------------------------------------------------------------------------
(* Properties.                                                             *)

TypeOK ==
  /\ status \in [Ids -> BookingStatus \cup SessionStatus]
  /\ \A b \in Bookings : status[b] \in BookingStatus
  /\ \A i \in Sessions : status[i] \in SessionStatus
  /\ slot \in [Ids -> Slots \cup {None}]
  /\ rooms \subseteq Rooms
  /\ lock \in [Rooms -> Clients \cup {None}]
  /\ pc \in [Clients -> Steps]
  /\ req \in [Clients -> Requests]

\* No two occupants - sessions and pending or approved bookings - share a
\* period of a room on a day, whatever requests run concurrently
\* (booking/store.go Create, Review; course/sessions.go CreateSession,
\* UpdateSession: the check under the classroom lock).
NoOverlapIn(X) ==
  \A i, j \in X :
    i # j /\ Active(i) /\ Active(j) => ~Overlaps(slot[i], slot[j])

NoOverlap == NoOverlapIn(Ids)

\* A classroom lock belongs to a transaction that is past its lock statement
\* and works on that classroom: no path of a store method leaves it behind,
\* and who holds one waits for nobody, so requests never wait in a circle.
LockHeldInside ==
  \A r \in Rooms, c \in Clients :
    lock[r] = c => /\ pc[c] \in {"sessions", "bookings", "write"}
                   /\ req[c].op \in LockingOps
                   /\ req[c].room = r

\* The request of a transaction fits the step it is at.
RequestOK(c) ==
  LET r == req[c] IN
  /\ pc[c] = "lock" => r.op \in LockingOps
  /\ pc[c] \in {"sessions", "bookings"} => r.op \in LockingOps \cup {"approve"}
  /\ pc[c] # "idle" => r.op # "none"
  /\ r.op \in LockingOps => r.slot \in Slots /\ r.room = r.slot.room
  /\ r.op \in {"createBooking", "createSession"} => r.id = None
  /\ r.op \in {"updateSession", "deleteSession"} => r.id \in Sessions
  /\ r.op \in {"approve", "reject", "cancel"} => r.id \in Bookings
  /\ r.op = "deleteRoom" => r.room \in Rooms

\* What a transaction found clear stays clear of the rows of X for it: it holds
\* the lock of its classroom, and nobody else puts an occupant there meanwhile.
CheckStands(c, X) ==
  req[c].op \in LockingOps =>
    /\ pc[c] \in {"sessions", "bookings", "write"} => lock[req[c].room] = c
    /\ pc[c] \in {"bookings", "write"} => Conflicts(c, Sessions) \cap X = {}
    /\ pc[c] = "write" => Conflicts(c, Bookings) \cap X = {}

\* A row once inserted has a slot.
SlotsKnown == \A i \in Ids : status[i] # "none" => slot[i] \in Slots

\* The inductive strengthening of NoOverlap: a write keeps the grid free of
\* overlaps because the checks before it still stand, and they stand because
\* two transactions never hold one classroom lock.  It holds of any set of rows
\* that only these requests write; module OccupancyImport has others.
IInvIn(X) ==
  /\ TypeOK
  /\ NoOverlapIn(X)
  /\ LockHeldInside
  /\ SlotsKnown
  /\ \A c \in Clients : RequestOK(c) /\ CheckStands(c, X)

IInv == IInvIn(Ids)

\* No request overwrites what another has settled since its read: rejected,
\* cancelled and deleted are final, and an approval can only be cancelled
\* (the guarded UPDATEs of Cancel and Review).
SettledIsFinal ==
  [][\A i \in Ids :
       /\ status[i] \in {"rejected", "cancelled", "deleted"} =>
            status'[i] = status[i] /\ slot'[i] = slot[i]
       /\ status[i] = "approved" => status'[i] \in {"approved", "cancelled"}]_vars

\* classroom/store.go Delete promises to refuse a referenced room "instead of
\* leaving dangling references": every row keeps its classroom.
NoDanglingRoom ==
  \A i \in Ids : status[i] \notin {"none", "deleted"} => slot[i].room \in rooms

\* Refinement: an occupant holds its slot from its insert to its release.
Held == [i \in Ids |-> IF status[i] = "none" THEN Unborn
                       ELSE IF Active(i) THEN slot[i] ELSE Gone]

Abstract == INSTANCE Reservations WITH held <- Held

\* The transactions implement atomic reservations.
RefinesReservations == Abstract!Spec
=============================================================================
