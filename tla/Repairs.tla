------------------------------ MODULE Repairs ------------------------------
(***************************************************************************)
(* Repair tickets of classrooms.  Every request reads, decides in Go and   *)
(* writes with one statement of its own: there is no transaction, so what  *)
(* a request has read may be stale when it writes.                         *)
(***************************************************************************)
CONSTANTS
  Tickets,    \* ids of classroom_repairs rows (a bound: ids never recur)
  Rooms,      \* classrooms
  Users,      \* creators and assignees
  Clients,    \* requests served concurrently
  Nobody      \* no ticket, room, user or status

ASSUME RepairsAssumption ==
  Nobody \notin Tickets \cup Rooms \cup Users \cup {"processing", "completed"}

VARIABLES
  ticketStatus, \* of each ticket
  room,       \* of each ticket
  creator,    \* of each ticket
  assignee,   \* of each ticket
  rooms,      \* rows of the classrooms table
  at,         \* the next statement of each request
  req         \* what each request wants

ticketVars == <<ticketStatus, room, creator, assignee>>
repairVars == <<ticketVars, rooms, at, req>>

Status == {"none", "open", "processing", "completed", "confirmed"}
Open == {"open", "processing"}
Targets == {"processing", "completed"}
Submitted == Targets \cup {"confirmed"}    \* what a client may ask Update for
Steps == {"idle", "gate", "insert", "emergency", "update", "confirm"}
Requests == [ticket : Tickets \cup {Nobody}, room : Rooms \cup {Nobody},
             user : Users \cup {Nobody}, to : Targets \cup {Nobody}]
NoRequest == [ticket |-> Nobody, room |-> Nobody, user |-> Nobody, to |-> Nobody]

RInit ==
  /\ ticketStatus = [t \in Tickets |-> "none"]
  /\ room = [t \in Tickets |-> Nobody]
  /\ creator = [t \in Tickets |-> Nobody]
  /\ assignee = [t \in Tickets |-> Nobody]
  /\ rooms = Rooms
  /\ at = [c \in Clients |-> "idle"]
  /\ req = [c \in Clients |-> NoRequest]

\* Get joins the classroom: the ticket of a room that is gone is not found.
\* (It joins the creator too; users that are deleted are left out: they only
\* disable requests.)
Readable(t) == ticketStatus[t] # "none" /\ room[t] \in rooms

HasOpen(r) == \E t \in Tickets : ticketStatus[t] \in Open /\ room[t] = r

----------------------------------------------------------------------------
(* Requests: the first read, and what it lets pass.                        *)

Start(c, step, r) ==
  /\ at[c] = "idle"
  /\ at' = [at EXCEPT ![c] = step]
  /\ req' = [req EXCEPT ![c] = r]
  /\ UNCHANGED <<ticketVars, rooms>>

Create(c, r, u) ==
  /\ r \in rooms
  /\ Start(c, "gate", [NoRequest EXCEPT !.room = r, !.user = u])

EmergencyCreate(c, r, u) ==
  /\ r \in rooms
  /\ Start(c, "emergency", [NoRequest EXCEPT !.room = r, !.user = u])

Update(c, t, u, to) ==
  /\ Readable(t) /\ ticketStatus[t] # "confirmed" /\ to \in Targets
  /\ Start(c, "update", [ticket |-> t, room |-> Nobody, user |-> u, to |-> to])

\* Only the creator may confirm; a confirmed ticket is answered as it is.
Confirm(c, t, u) ==
  /\ Readable(t) /\ creator[t] = u /\ ticketStatus[t] = "completed"
  /\ Start(c, "confirm", [ticket |-> t, room |-> Nobody, user |-> u, to |-> Nobody])

----------------------------------------------------------------------------
(* The statement that follows.                                             *)

Answer(c) ==
  /\ at' = [at EXCEPT ![c] = "idle"]
  /\ req' = [req EXCEPT ![c] = NoRequest]
  /\ UNCHANGED rooms

\* An ordinary ticket is refused while the classroom has an open one.
Gate(c) ==
  /\ at[c] = "gate"
  /\ \/ /\ HasOpen(req[c].room)
        /\ Answer(c)
        /\ UNCHANGED ticketVars
     \/ /\ ~HasOpen(req[c].room)
        /\ at' = [at EXCEPT ![c] = "insert"]
        /\ UNCHANGED <<ticketVars, rooms, req>>

Insert(c) ==
  /\ at[c] \in {"insert", "emergency"}
  /\ \E t \in Tickets :
       /\ ticketStatus[t] = "none"
       /\ ticketStatus' = [ticketStatus EXCEPT ![t] = "open"]
       /\ room' = [room EXCEPT ![t] = req[c].room]
       /\ creator' = [creator EXCEPT ![t] = req[c].user]
  /\ Answer(c)
  /\ UNCHANGED assignee

\* UPDATE ... WHERE id: the status is not tested again.
WriteUpdate(c) ==
  /\ at[c] = "update"
  /\ ticketStatus' = [ticketStatus EXCEPT ![req[c].ticket] = req[c].to]
  /\ assignee' = [assignee EXCEPT ![req[c].ticket] = req[c].user]
  /\ Answer(c)
  /\ UNCHANGED <<room, creator>>

\* Mistake: UPDATE ... WHERE id.
ConfirmUnguarded(c) ==
  /\ at[c] = "confirm"
  /\ ticketStatus' = [ticketStatus EXCEPT ![req[c].ticket] = "confirmed"]
  /\ Answer(c)
  /\ UNCHANGED <<room, creator, assignee>>

\* UPDATE ... WHERE id AND status = 'completed'.
WriteConfirm(c) ==
  /\ at[c] = "confirm"
  /\ ticketStatus' = IF ticketStatus[req[c].ticket] = "completed"
               THEN [ticketStatus EXCEPT ![req[c].ticket] = "confirmed"] ELSE ticketStatus
  /\ Answer(c)
  /\ UNCHANGED <<room, creator, assignee>>

\* A failing statement, a cancelled request or a crash.
Drop(c) ==
  /\ at[c] # "idle"
  /\ Answer(c)
  /\ UNCHANGED ticketVars

\* classroom.Delete does not ask for tickets.
DeleteClassroom(r) ==
  /\ r \in rooms
  /\ rooms' = rooms \ {r}
  /\ UNCHANGED <<ticketVars, at, req>>

RNext ==
  \/ \E c \in Clients, u \in Users :
       \/ \E r \in Rooms : Create(c, r, u) \/ EmergencyCreate(c, r, u)
       \/ \E t \in Tickets : Confirm(c, t, u) \/ \E to \in Submitted : Update(c, t, u, to)
  \/ \E c \in Clients : Gate(c) \/ Insert(c) \/ WriteUpdate(c) \/ WriteConfirm(c) \/ Drop(c)
  \/ \E r \in Rooms : DeleteClassroom(r)

RSpec == RInit /\ [][RNext]_repairVars

----------------------------------------------------------------------------
(* Properties.                                                             *)

RTypeOK ==
  /\ ticketStatus \in [Tickets -> Status]
  /\ room \in [Tickets -> Rooms \cup {Nobody}]
  /\ creator \in [Tickets -> Users \cup {Nobody}]
  /\ assignee \in [Tickets -> Users \cup {Nobody}]
  /\ rooms \subseteq Rooms
  /\ at \in [Clients -> Steps]
  /\ req \in [Clients -> Requests]

RequestOK(c) ==
  /\ at[c] \in {"gate", "insert", "emergency"} => req[c].room \in Rooms /\ req[c].user \in Users
  /\ at[c] = "update" => /\ req[c].ticket \in Tickets /\ req[c].user \in Users
                         /\ req[c].to \in Targets
                         /\ ticketStatus[req[c].ticket] # "none"
  /\ at[c] = "confirm" => /\ req[c].ticket \in Tickets
                          /\ creator[req[c].ticket] = req[c].user
                          /\ ticketStatus[req[c].ticket] # "none"

\* Work that was started, finished or confirmed has somebody who did it: no
\* order of updates and confirmations loses the assignee
\* (classroom/repair_store.go Update).
AssigneeKnown ==
  \A t \in Tickets :
    ticketStatus[t] \in {"processing", "completed", "confirmed"} => assignee[t] \in Users

\* The inductive invariant.
RIInv ==
  /\ RTypeOK
  /\ AssigneeKnown
  /\ \A t \in Tickets : ticketStatus[t] # "none" => creator[t] \in Users /\ room[t] \in Rooms
  /\ \A c \in Clients : RequestOK(c)

\* Whatever was read before, a ticket becomes confirmed only while it is
\* completed, and at the request of its creator (Confirm's guarded UPDATE).
ConfirmedFromCompleted ==
  [][\A t \in Tickets :
       ticketStatus[t] # "confirmed" /\ ticketStatus'[t] = "confirmed" =>
         /\ ticketStatus[t] = "completed"
         /\ \E c \in Clients : at[c] = "confirm" /\ req[c].user = creator[t]]_repairVars

\* Create inserts a ticket, "refusing when the classroom already has an
\* open/processing ticket": it still has none when an ordinary request inserts.
GateHolds ==
  [][\A c \in Clients :
       at[c] = "insert" /\ at'[c] # "insert" /\ ticketStatus' # ticketStatus => ~HasOpen(req[c].room)]_repairVars

\* "A confirmed ticket is terminal and cannot be moved" (Update).
ConfirmedIsFinal ==
  [][\A t \in Tickets : ticketStatus[t] = "confirmed" => ticketStatus'[t] = "confirmed"]_repairVars
=============================================================================
