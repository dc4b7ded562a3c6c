-------------------------- MODULE Classroom_proofs --------------------------
(***************************************************************************)
(* Proofs about two modules that share no state.  Repairs: for every set   *)
(* of tickets, rooms, users and requests, the inductive invariant, the     *)
(* guarded confirmation, and that what overlapping requests break holds    *)
(* when requests do not overlap.  AttendanceViews: for every set of        *)
(* check-ins, every finite set of students and any number of changes that  *)
(* run beside it, a view is right about everybody these do not touch.      *)
(***************************************************************************)
EXTENDS Repairs, AttendanceViews, FiniteSetTheorems, TLAPS

\* Without tickets the invariant holds.
LEMMA InitInductive == RInit => RIInv
BY RepairsAssumption
DEF RInit, RIInv, RTypeOK, AssigneeKnown, RequestOK, Status, Steps, Requests, NoRequest

\* A request that starts has passed its checks and written nothing.
LEMMA StartStep ==
  ASSUME RIInv, NEW c \in Clients, NEW u \in Users,
         \/ \E r \in Rooms : Create(c, r, u) \/ EmergencyCreate(c, r, u)
         \/ \E t \in Tickets : \/ Confirm(c, t, u)
                               \/ \E to \in Submitted : Update(c, t, u, to)
  PROVE  RIInv'
<1> USE DEF RIInv, RTypeOK, Start, ticketVars, Requests, NoRequest, Steps, Targets
<1>1. ASSUME NEW r \in Rooms, Create(c, r, u) \/ EmergencyCreate(c, r, u)
      PROVE  RIInv'
  <2> DEFINE q == [ticket |-> Nobody, room |-> r, user |-> u, to |-> Nobody]
  <2>1. /\ at[c] = "idle" /\ req' = [req EXCEPT ![c] = q]
        /\ \E s \in {"gate", "emergency"} : at' = [at EXCEPT ![c] = s]
    BY <1>1 DEF Create, EmergencyCreate
  <2>2. req' \in [Clients -> Requests] /\ at' \in [Clients -> Steps]
    <3>1. q \in Requests
      OBVIOUS
    <3> QED BY <2>1, <3>1
  <2>4. \A d \in Clients : RequestOK(d)'
    <3>1. RequestOK(c)'
      BY <2>1 DEF RequestOK
    <3>2. ASSUME NEW d \in Clients, d # c PROVE RequestOK(d)'
      BY <1>1, <2>1, <3>2 DEF Create, EmergencyCreate, RequestOK
    <3> QED BY <3>1, <3>2
  <2>3. UNCHANGED <<ticketVars, rooms>>
    BY <1>1 DEF Create, EmergencyCreate
  <2> QED BY <2>2, <2>3, <2>4 DEF AssigneeKnown
<1>2. ASSUME NEW t \in Tickets, Confirm(c, t, u)
      PROVE  RIInv'
  <2>1. req' \in [Clients -> Requests] /\ at' \in [Clients -> Steps]
    BY <1>2 DEF Confirm
  <2>2. \A d \in Clients : RequestOK(d)'
    BY <1>2 DEF Confirm, RequestOK
  <2>3. UNCHANGED <<ticketVars, rooms>>
    BY <1>2 DEF Confirm
  <2> QED BY <2>1, <2>2, <2>3 DEF AssigneeKnown
<1>3. ASSUME NEW t \in Tickets, NEW to \in Submitted, Update(c, t, u, to)
      PROVE  RIInv'
  <2>1. to \in Targets
    BY <1>3 DEF Update
  <2>2. req' \in [Clients -> Requests] /\ at' \in [Clients -> Steps]
    BY <1>3, <2>1 DEF Update
  <2>3. \A d \in Clients : RequestOK(d)'
    BY <1>3, <2>1 DEF Update, RequestOK, Readable
  <2>4. UNCHANGED <<ticketVars, rooms>>
    BY <1>3 DEF Update
  <2> QED BY <2>2, <2>3, <2>4 DEF AssigneeKnown
<1> QED BY <1>1, <1>2, <1>3

\* The statements of a request, each on the row as it finds it.
LEMMA StatementStep ==
  ASSUME RIInv, NEW c \in Clients,
         Gate(c) \/ Insert(c) \/ WriteUpdate(c) \/ WriteConfirm(c) \/ Drop(c)
  PROVE  RIInv'
<1> USE DEF RIInv, RTypeOK, Answer, ticketVars, Requests, NoRequest, Steps
<1>1. CASE Gate(c)
  <2>1. UNCHANGED <<ticketVars, rooms>>
    BY <1>1 DEF Gate
  <2>2. \A d \in Clients : RequestOK(d)'
    BY <1>1 DEF Gate, RequestOK
  <2> QED BY <1>1, <2>1, <2>2 DEF Gate, AssigneeKnown
<1>2. CASE Insert(c)
  <2>1. PICK t \in Tickets : /\ ticketStatus[t] = "none"
                             /\ ticketStatus' = [ticketStatus EXCEPT ![t] = "open"]
                             /\ room' = [room EXCEPT ![t] = req[c].room]
                             /\ creator' = [creator EXCEPT ![t] = req[c].user]
    BY <1>2 DEF Insert
  <2>2. req[c].room \in Rooms /\ req[c].user \in Users
    BY <1>2 DEF Insert, RequestOK
  <2>3. \A d \in Clients : RequestOK(d)'
    BY <1>2, <2>1 DEF Insert, RequestOK
  <2>4. AssigneeKnown'
    BY <1>2, <2>1 DEF Insert, AssigneeKnown
  <2> QED BY <1>2, <2>1, <2>2, <2>3, <2>4 DEF Insert, Status
<1>3. CASE WriteUpdate(c)
  <2>1. /\ req[c].ticket \in Tickets /\ req[c].user \in Users /\ req[c].to \in Targets
        /\ ticketStatus[req[c].ticket] # "none"
    BY <1>3 DEF WriteUpdate, RequestOK
  <2>2. \A d \in Clients : RequestOK(d)'
    BY <1>3, <2>1 DEF WriteUpdate, RequestOK, Targets
  <2>3. AssigneeKnown'
    BY <1>3, <2>1 DEF WriteUpdate, AssigneeKnown
  <2> QED BY <1>3, <2>1, <2>2, <2>3 DEF WriteUpdate, Status, Targets
<1>4. CASE WriteConfirm(c)
  <2>1. req[c].ticket \in Tickets /\ ticketStatus[req[c].ticket] # "none"
    BY <1>4 DEF WriteConfirm, RequestOK
  <2>2. \A d \in Clients : RequestOK(d)'
    BY <1>4, <2>1 DEF WriteConfirm, RequestOK
  <2>3. AssigneeKnown'
    BY <1>4, <2>1 DEF WriteConfirm, AssigneeKnown
  <2> QED BY <1>4, <2>1, <2>2, <2>3 DEF WriteConfirm, Status
<1>5. CASE Drop(c)
  BY <1>5 DEF Drop, AssigneeKnown, RequestOK
<1> QED BY <1>1, <1>2, <1>3, <1>4, <1>5

\* Every step of the tickets keeps the invariant.
LEMMA NextInductive == RIInv /\ [RNext]_repairVars => RIInv'
<1> SUFFICES ASSUME RIInv, [RNext]_repairVars PROVE RIInv'
  OBVIOUS
<1>1. ASSUME NEW r \in Rooms, DeleteClassroom(r) PROVE RIInv'
  BY <1>1 DEF DeleteClassroom, ticketVars, RIInv, RTypeOK, AssigneeKnown, RequestOK
<1>2. CASE UNCHANGED repairVars
  BY <1>2 DEF repairVars, ticketVars, RIInv, RTypeOK, AssigneeKnown, RequestOK
<1> QED BY <1>1, <1>2, StartStep, StatementStep DEF RNext

\* The inductive invariant (classroom/repair_store.go).
THEOREM Invariance == RSpec => []RIInv
BY InitInductive, NextInductive, PTL DEF RSpec

\* Whoever did the work is never lost (classroom/repair_store.go Update).
THEOREM Assignees == RSpec => []AssigneeKnown
<1>1. RIInv => AssigneeKnown
  BY DEF RIInv
<1> QED BY <1>1, Invariance, PTL

\* The UPDATE of Confirm tests the status again, so confirmations are sound
\* however requests interleave.
THEOREM Confirmations == RSpec => ConfirmedFromCompleted
<1> DEFINE A == \A t \in Tickets :
                  ticketStatus[t] # "confirmed" /\ ticketStatus'[t] = "confirmed" =>
                    /\ ticketStatus[t] = "completed"
                    /\ \E c \in Clients : at[c] = "confirm" /\ req[c].user = creator[t]
<1>1. RIInv /\ [RNext]_repairVars => A
  <2> SUFFICES ASSUME RIInv, [RNext]_repairVars, NEW t \in Tickets,
                      ticketStatus[t] # "confirmed", ticketStatus'[t] = "confirmed"
               PROVE  /\ ticketStatus[t] = "completed"
                      /\ \E c \in Clients : at[c] = "confirm" /\ req[c].user = creator[t]
    OBVIOUS
  <2> USE DEF RIInv, RTypeOK, ticketVars
  <2>1. ASSUME NEW c \in Clients, NEW s, NEW r, Start(c, s, r) PROVE FALSE
    BY <2>1 DEF Start
  <2>2. ASSUME NEW c \in Clients, Gate(c) \/ Insert(c) \/ Drop(c) PROVE FALSE
    BY <2>2 DEF Gate, Insert, Drop
  <2>3. ASSUME NEW c \in Clients, WriteUpdate(c) PROVE FALSE
    BY <2>3 DEF WriteUpdate, RequestOK, Targets
  <2>4. ASSUME NEW c \in Clients, WriteConfirm(c)
        PROVE  /\ ticketStatus[t] = "completed"
               /\ at[c] = "confirm" /\ req[c].user = creator[t]
    BY <2>4 DEF WriteConfirm, RequestOK
  <2>5. ASSUME NEW r \in Rooms, DeleteClassroom(r) PROVE FALSE
    BY <2>5 DEF DeleteClassroom
  <2>6. CASE UNCHANGED repairVars
    BY <2>6 DEF repairVars
  <2> QED BY <2>1, <2>2, <2>3, <2>4, <2>5, <2>6
          DEF RNext, Create, EmergencyCreate, Confirm, Update
<1> QED BY <1>1, Invariance, PTL DEF RSpec, ConfirmedFromCompleted

----------------------------------------------------------------------------
(* One request at a time.                                                  *)

\* What a request has read is still true when it writes.
StillTrue ==
  \A c \in Clients :
    /\ at[c] = "insert" => ~HasOpen(req[c].room)
    /\ at[c] = "update" => ticketStatus[req[c].ticket] # "confirmed"

\* With a single request under way no answer of the database is stale.
LEMMA AloneInductive ==
  ASSUME NEW one, Clients = {one}, RIInv, StillTrue, [RNext]_repairVars
  PROVE  StillTrue'
<1> USE DEF RIInv, RTypeOK, StillTrue, HasOpen, ticketVars, Answer
<1>1. ASSUME NEW s \in {"gate", "emergency", "confirm"}, NEW r, Start(one, s, r)
      PROVE  StillTrue'
  BY <1>1 DEF Start
<1>2. ASSUME NEW t \in Tickets, NEW u \in Users, NEW to \in Submitted, Update(one, t, u, to)
      PROVE  StillTrue'
  BY <1>2 DEF Update, Start
<1>3. CASE Gate(one)
  BY <1>3 DEF Gate
<1>4. CASE Insert(one) \/ WriteUpdate(one) \/ WriteConfirm(one) \/ Drop(one)
  BY <1>4 DEF Insert, WriteUpdate, WriteConfirm, Drop
<1>5. ASSUME NEW r \in Rooms, DeleteClassroom(r) PROVE StillTrue'
  BY <1>5 DEF DeleteClassroom
<1>6. CASE UNCHANGED repairVars
  BY <1>6 DEF repairVars
<1>7. CASE RNext
  <2>1. CASE \E u \in Users : \E r \in Rooms : Create(one, r, u) \/ EmergencyCreate(one, r, u)
    BY <2>1, <1>1 DEF Create, EmergencyCreate
  <2>2. CASE \E u \in Users : \E t \in Tickets :
               Confirm(one, t, u) \/ \E to \in Submitted : Update(one, t, u, to)
    BY <2>2, <1>1, <1>2 DEF Confirm
  <2> QED BY <1>7, <2>1, <2>2, <1>3, <1>4, <1>5 DEF RNext
<1> QED BY <1>6, <1>7

\* Requests that do not overlap respect the gate of ordinary tickets.
THEOREM AloneGateHolds ==
  ASSUME NEW one, Clients = {one}
  PROVE  RSpec => GateHolds
<1>1. RInit => StillTrue
  BY DEF RInit, StillTrue
<1>2. RIInv /\ StillTrue /\ [RNext]_repairVars =>
        [\A c \in Clients :
           at[c] = "insert" /\ at'[c] # "insert" /\ ticketStatus' # ticketStatus => ~HasOpen(req[c].room)]_repairVars
  BY DEF StillTrue
<1> QED BY <1>1, <1>2, AloneInductive, Invariance, PTL DEF RSpec, GateHolds

\* Requests that do not overlap leave a confirmed ticket alone.
THEOREM AloneConfirmedIsFinal ==
  ASSUME NEW one, Clients = {one}
  PROVE  RSpec => ConfirmedIsFinal
<1>1. RInit => StillTrue
  BY DEF RInit, StillTrue
<1>2. RIInv /\ StillTrue /\ [RNext]_repairVars =>
        [\A t \in Tickets : ticketStatus[t] = "confirmed" => ticketStatus'[t] = "confirmed"]_repairVars
  <2> SUFFICES ASSUME RIInv, StillTrue, RNext, NEW t \in Tickets, ticketStatus[t] = "confirmed"
               PROVE  ticketStatus'[t] = "confirmed"
    OBVIOUS
  <2> USE DEF RIInv, RTypeOK, ticketVars
  <2>1. ASSUME NEW s, NEW r, Start(one, s, r) PROVE ticketStatus' = ticketStatus
    BY <2>1 DEF Start
  <2>2. CASE Gate(one) \/ Insert(one) \/ Drop(one)
    BY <2>2 DEF Gate, Insert, Drop
  <2>3. CASE WriteUpdate(one) \/ WriteConfirm(one)
    BY <2>3 DEF WriteUpdate, WriteConfirm, StillTrue, RequestOK
  <2>4. ASSUME NEW r \in Rooms, DeleteClassroom(r) PROVE ticketStatus' = ticketStatus
    BY <2>4 DEF DeleteClassroom
  <2>5. ASSUME NEW u \in Users,
               \/ \E r \in Rooms : Create(one, r, u) \/ EmergencyCreate(one, r, u)
               \/ \E s \in Tickets : Confirm(one, s, u) \/ \E to \in Submitted : Update(one, s, u, to)
        PROVE ticketStatus' = ticketStatus
    BY <2>1, <2>5 DEF Create, EmergencyCreate, Confirm, Update
  <2> QED BY <2>2, <2>3, <2>4, <2>5 DEF RNext
<1> QED BY <1>1, <1>2, AloneInductive, Invariance, PTL DEF RSpec, ConfirmedIsFinal

----------------------------------------------------------------------------
(* Views of attendance.  Counting first.                                   *)

\* The sizes of disjoint sets add up.
LEMMA DisjointSize ==
  ASSUME NEW A, NEW B, IsFiniteSet(A), IsFiniteSet(B), A \cap B = {}
  PROVE  Cardinality(A \cup B) = Cardinality(A) + Cardinality(B)
<1> DEFINE n == Cardinality(A)
           m == Cardinality(B)
<1>1. n \in Nat /\ m \in Nat /\ ExistsBijection(1 .. n, A) /\ ExistsBijection(1 .. m, B)
  BY FS_CardinalityType
<1>2. PICK a \in [1 .. n -> A] : /\ \A i, j \in 1 .. n : a[i] = a[j] => i = j
                                 /\ \A x \in A : \E i \in 1 .. n : a[i] = x
  BY <1>1 DEF ExistsBijection, Bijection, Injection, Surjection, IsInjective
<1>3. PICK b \in [1 .. m -> B] : /\ \A i, j \in 1 .. m : b[i] = b[j] => i = j
                                 /\ \A x \in B : \E i \in 1 .. m : b[i] = x
  BY <1>1 DEF ExistsBijection, Bijection, Injection, Surjection, IsInjective
<1> HIDE DEF n, m
<1> DEFINE f == [i \in 1 .. n + m |-> IF i <= n THEN a[i] ELSE b[i - n]]
<1>4. \A i \in 1 .. n + m : (i <= n => i \in 1 .. n) /\ (~(i <= n) => i - n \in 1 .. m)
  BY <1>1
<1>5. f \in [1 .. n + m -> A \cup B]
  BY <1>2, <1>3, <1>4
<1>6. ASSUME NEW i \in 1 .. n + m, NEW j \in 1 .. n + m, f[i] = f[j] PROVE i = j
  <2>1. CASE i <= n /\ j <= n
    BY <1>2, <1>4, <1>6, <2>1
  <2>2. CASE ~(i <= n) /\ ~(j <= n)
    <3>1. b[i - n] = b[j - n] /\ i - n \in 1 .. m /\ j - n \in 1 .. m
      BY <1>4, <1>6, <2>2
    <3>2. i - n = j - n
      BY <1>3, <3>1
    <3> QED BY <1>1, <3>2
  <2>3. CASE i <= n /\ ~(j <= n)
    BY <1>2, <1>3, <1>4, <1>6, <2>3
  <2>4. CASE ~(i <= n) /\ j <= n
    BY <1>2, <1>3, <1>4, <1>6, <2>4
  <2> QED BY <2>1, <2>2, <2>3, <2>4
<1>7. ASSUME NEW x \in A \cup B PROVE \E i \in 1 .. n + m : f[i] = x
  <2>1. CASE x \in A
    <3>1. PICK i \in 1 .. n : a[i] = x
      BY <1>2, <2>1
    <3>2. i \in 1 .. n + m /\ i <= n
      BY <1>1
    <3> QED BY <3>1, <3>2
  <2>2. CASE x \in B
    <3>1. PICK i \in 1 .. m : b[i] = x
      BY <1>3, <2>2
    <3>2. i + n \in 1 .. n + m /\ ~(i + n <= n) /\ (i + n) - n = i
      BY <1>1
    <3>3. f[i + n] = x
      BY <3>1, <3>2
    <3> QED BY <3>2, <3>3
  <2> QED BY <2>1, <2>2
<1>8. ExistsBijection(1 .. n + m, A \cup B)
  <2> HIDE DEF f
  <2>1. f \in Bijection(1 .. n + m, A \cup B)
    BY <1>5, <1>6, <1>7 DEF Bijection, Injection, Surjection, IsInjective
  <2> QED BY <2>1 DEF ExistsBijection
<1>9. n + m \in Nat
  BY <1>1
<1> QED BY <1>8, <1>9, FS_CountingElements DEF n, m

\* A set and what of it lies in another one.
LEMMA PartSizes ==
  ASSUME NEW A \in SUBSET Students, NEW B \in SUBSET Students
  PROVE  /\ Cardinality(A \ B) \in Nat /\ Cardinality(A \cap B) \in Nat
         /\ Cardinality(A) \in Nat /\ Cardinality(B) \in Nat
         /\ Cardinality(A) = Cardinality(A \ B) + Cardinality(A \cap B)
         /\ Cardinality(A \cap B) <= Cardinality(B)
<1>1. IsFiniteSet(A) /\ IsFiniteSet(B)
  BY ViewsAssumption, FS_Subset
<1>2. IsFiniteSet(A \ B) /\ IsFiniteSet(A \cap B)
  <2>1. A \ B \in SUBSET A /\ A \cap B \in SUBSET A
    OBVIOUS
  <2> QED BY <1>1, <2>1, FS_Subset
<1>3. Cardinality(A \cap B) <= Cardinality(B)
  <2>1. A \cap B \in SUBSET B
    OBVIOUS
  <2> QED BY <1>1, <2>1, FS_Subset
<1>4. A = (A \ B) \cup (A \cap B) /\ (A \ B) \cap (A \cap B) = {}
  OBVIOUS
<1>5. Cardinality(A) = Cardinality(A \ B) + Cardinality(A \cap B)
  BY <1>2, <1>4, DisjointSize
<1> QED BY <1>1, <1>2, <1>3, <1>5, FS_CardinalityType

\* A set of students has a size.
LEMMA SizeIsNat ==
  ASSUME NEW A \in SUBSET Students
  PROVE  Cardinality(A) \in Nat
BY ViewsAssumption, FS_Subset, FS_CardinalityType

\* A count stands when it is taken, and while more students are touched.
LEMMA CountTaken ==
  ASSUME NEW A \in SUBSET Students, touched \in SUBSET Students
  PROVE  CountStands(Cardinality(A), A)
<1>1. PICK T \in SUBSET Students : T = touched
  OBVIOUS
<1>2. Cardinality(A) - Cardinality(A \ T) \in 0 .. Cardinality(T)
  <2>1. /\ Cardinality(A \ T) \in Nat /\ Cardinality(A \cap T) \in Nat /\ Cardinality(T) \in Nat
        /\ Cardinality(A) = Cardinality(A \ T) + Cardinality(A \cap T)
        /\ Cardinality(A \cap T) <= Cardinality(T)
    BY PartSizes, Zenon
  <2> QED BY <2>1
<1> QED BY <1>1, <1>2 DEF CountStands

\* A count that was off by at most the students touched since is so when more are touched.
LEMMA CountGrows ==
  ASSUME NEW A \in SUBSET Students, NEW B \in SUBSET Students, NEW T \in SUBSET Students,
         NEW w \in SUBSET Students, NEW n \in Int,
         n - Cardinality(A \ T) \in 0 .. Cardinality(T), B \ (T \cup w) = (A \ T) \ w
  PROVE  n - Cardinality(B \ (T \cup w)) \in 0 .. Cardinality(T \cup w)
<1> DEFINE X == A \ T
           Y == w \ T
           U == T \cup w
<1>1. /\ Cardinality(X) = Cardinality(X \ w) + Cardinality(X \cap w)
      /\ Cardinality(X) \in Nat /\ Cardinality(X \ w) \in Nat /\ Cardinality(X \cap w) \in Nat
  <2>1. X \in SUBSET Students
    OBVIOUS
  <2> HIDE DEF X
  <2> QED BY <2>1, PartSizes
<1>2. Cardinality(X \cap w) <= Cardinality(Y)
  <2>1. X \cap w = X \cap Y /\ X \in SUBSET Students /\ Y \in SUBSET Students
    OBVIOUS
  <2> HIDE DEF X, Y
  <2> QED BY <2>1, PartSizes
<1>3. /\ Cardinality(U) = Cardinality(Y) + Cardinality(T)
      /\ Cardinality(U) \in Nat /\ Cardinality(Y) \in Nat /\ Cardinality(T) \in Nat
  <2>1. U \ T = Y /\ U \cap T = T /\ U \in SUBSET Students
    OBVIOUS
  <2> HIDE DEF U, Y
  <2>2. /\ Cardinality(U \ T) \in Nat /\ Cardinality(T) \in Nat /\ Cardinality(U) \in Nat
        /\ Cardinality(U) = Cardinality(U \ T) + Cardinality(U \cap T)
    BY <2>1, PartSizes, Zenon
  <2> QED BY <2>1, <2>2
<1>4. n - Cardinality(X) \in 0 .. Cardinality(T)
  OBVIOUS
<1>5. B \ U = X \ w
  OBVIOUS
<1> HIDE DEF X, Y, U
<1>6. n - Cardinality(X \ w) \in 0 .. Cardinality(U)
  BY <1>1, <1>2, <1>3, <1>4
<1> QED BY <1>5, <1>6 DEF U

----------------------------------------------------------------------------
(* The steps.                                                              *)

\* Before any read the invariant holds.
LEMMA ViewsInitInductive == ViewsInit => ViewsIInv
<1> SUFFICES ASSUME ViewsInit PROVE ViewsIInv
  OBVIOUS
<1>1. view = [op |-> "none", at |-> "done"]
  BY DEF ViewsInit, NoView
<1>2. ViewsTypeOK
  BY <1>1, ViewsAssumption DEF ViewsInit, ViewsTypeOK, NoView
<1> QED BY <1>1, <1>2 DEF ViewsIInv, CardOK, RecordsOK, MineOK, ReportOK, ViewsAgree

\* What changes beside a view concerns the students it touches.
LEMMA ChangeStep ==
  ASSUME ViewsIInv, NEW w \in SUBSET Students, Change(w), ViewsTypeOK', UNCHANGED anchored,
         \A s \in Students \ w :
           /\ \A k \in Checkins : mark'[k][s] = mark[k][s]
           /\ s \in classmates' <=> s \in classmates
           /\ s \in accounts' <=> s \in accounts
  PROVE  ViewsIInv'
<1>1. view' = view /\ view.at # "done" /\ touched' = touched \cup w
  BY DEF Change
<1>2. PICK T \in SUBSET Students : T = touched
  BY DEF ViewsIInv, ViewsTypeOK
<1>3. classmates \in SUBSET Students /\ classmates' \in SUBSET Students
  BY DEF ViewsIInv, ViewsTypeOK
<1>4. ASSUME NEW A \in SUBSET Students, NEW B \in SUBSET Students, NEW n \in Int,
             n - Cardinality(A \ T) \in 0 .. Cardinality(T), B \ w = A \ w
      PROVE  n - Cardinality(B \ (T \cup w)) \in 0 .. Cardinality(T \cup w)
  <2>1. B \ (T \cup w) = (A \ T) \ w
    BY <1>4
  <2> QED BY <1>4, <2>1, CountGrows
<1>5. CardOK'
  <2>1. ASSUME view.op = "card", view.at \in {"expected", "rosterRows"}, NEW m \in Marks
        PROVE  CountStands(view.by[m], Having(view.k, m))'
    <3>1. view.k \in Checkins /\ view.by[m] \in Int
      BY <2>1 DEF ViewsIInv, CardOK
    <3>2. PICK k \in Checkins, n \in Int : k = view.k /\ n = view.by[m]
      BY <3>1
    <3>3. PICK A \in SUBSET Students : A = Having(k, m)
      BY DEF Having
    <3>4. PICK B \in SUBSET Students : B = {s \in Students : mark'[k][s] = m}
      OBVIOUS
    <3>5. B \ w = A \ w
      BY <3>3, <3>4 DEF Having
    <3>6. n - Cardinality(A \ T) \in 0 .. Cardinality(T)
      BY <1>2, <2>1, <3>2, <3>3 DEF ViewsIInv, CardOK, CountStands
    <3>7. n - Cardinality(B \ (T \cup w)) \in 0 .. Cardinality(T \cup w)
      BY <1>4, <3>5, <3>6
    <3> QED BY <1>1, <1>2, <3>2, <3>4, <3>7 DEF CountStands, Having
  <2>2. ASSUME view.op = "card", view.at = "rosterRows"
        PROVE  CountStands(view.expected, classmates)'
    <3>1. PICK n \in Int : n = view.expected
      BY <2>2 DEF ViewsIInv, CardOK
    <3>2. PICK A \in SUBSET Students : A = classmates
      BY <1>3
    <3>3. PICK B \in SUBSET Students : B = classmates'
      BY <1>3
    <3>4. B \ w = A \ w
      BY <3>2, <3>3
    <3>5. n - Cardinality(A \ T) \in 0 .. Cardinality(T)
      BY <1>2, <2>2, <3>1, <3>2 DEF ViewsIInv, CardOK, CountStands
    <3>6. n - Cardinality(B \ (T \cup w)) \in 0 .. Cardinality(T \cup w)
      BY <1>4, <3>4, <3>5
    <3> QED BY <1>1, <1>2, <3>1, <3>3, <3>6 DEF CountStands
  <2> QED BY <1>1, <2>1, <2>2 DEF ViewsIInv, CardOK
<1>6. RecordsOK' /\ MineOK'
  BY <1>1 DEF ViewsIInv, RecordsOK, MineOK
<1>7. ReportOK'
  <2>1. ASSUME view.op = "summary", view.at \in {"extras", "marks"}, NEW s \in Still'
        PROVE  Told(s) = IF s \notin accounts' THEN {}
                         ELSE IF s \in classmates' THEN {TRUE}
                         ELSE IF view.at = "marks" /\ \E k \in anchored : mark'[k][s] # Unmarked THEN {FALSE}
                         ELSE {}
    <3>1. s \in Still /\ s \in Students \ w
      BY <1>1 DEF Still
    <3>2. \A k \in anchored : mark'[k][s] = mark[k][s]
      BY <3>1 DEF ViewsIInv, ViewsTypeOK
    <3> HIDE DEF Told
    <3> QED BY <2>1, <3>1, <3>2 DEF ViewsIInv, ReportOK
  <2>2. \A s : Told(s)' = Told(s)
    BY <1>1 DEF Told
  <2> HIDE DEF Told
  <2> QED BY <1>1, <2>1, <2>2 DEF ViewsIInv, ReportOK
<1>8. ViewsAgree'
  BY <1>1 DEF ViewsAgree
<1> QED BY <1>5, <1>6, <1>7, <1>8 DEF ViewsIInv

\* Who was marked, as far as nobody touched them since.
LEMMA MarkedStands ==
  ASSUME ViewsTypeOK, NEW k \in Checkins, NEW m \in Marks, k \notin anchored \/ m # "absent"
  PROVE  {s \in Still : Standing(k, s) = m} = Having(k, m) \ touched
BY ViewsAssumption DEF Still, Standing, Having, ViewsTypeOK

\* The absent are those who were set absent and those who have no record.
LEMMA AbsentCount ==
  ASSUME ViewsTypeOK, NEW k \in anchored, NEW n \in Int, NEW e \in Int,
         CountStands(n, Having(k, "absent")), CountStands(e, classmates)
  PROVE  LET R == {s \in classmates : mark[k][s] # Unmarked} IN
         n + e - Cardinality(R) - Cardinality({s \in Still : Standing(k, s) = "absent"})
           \in -Cardinality(touched) .. 2 * Cardinality(touched)
<1> DEFINE R == {s \in classmates : mark[k][s] # Unmarked}
           A == {s \in Still : Standing(k, s) = "absent"}
           H == Having(k, "absent")
           N == classmates \ R
<1>1. PICK T \in SUBSET Students : T = touched
  BY DEF ViewsTypeOK
<1>2. PICK C \in SUBSET Students : C = classmates
  BY DEF ViewsTypeOK
<1>3. R \in SUBSET Students /\ H \in SUBSET Students /\ R \subseteq C
  BY <1>2 DEF Having
<1>4. k \in Checkins
  BY DEF ViewsTypeOK
<1>5. A = (H \ T) \cup ((C \ R) \ T) /\ (H \ T) \cap ((C \ R) \ T) = {}
  <2>1. \A s \in Students : Standing(k, s) = "absent" <=> s \in H \/ s \in C \ R
    BY <1>2, <1>4, ViewsAssumption DEF Standing, Having, Marks
  <2>2. H \cap (C \ R) = {}
    BY <1>2, ViewsAssumption DEF Having, Marks
  <2> HIDE DEF H, R
  <2> QED BY <1>1, <1>3, <2>1, <2>2 DEF Still
<1> HIDE DEF R, H, A
<1>6. /\ Cardinality(A) = Cardinality(H \ T) + Cardinality((C \ R) \ T)
      /\ Cardinality(H \ T) \in Nat /\ Cardinality((C \ R) \ T) \in Nat
  <2>1. H \ T \in SUBSET Students /\ (C \ R) \ T \in SUBSET Students
    BY <1>3
  <2>2. IsFiniteSet(H \ T) /\ IsFiniteSet((C \ R) \ T)
    BY <2>1, ViewsAssumption, FS_Subset, Zenon
  <2> QED BY <1>5, <2>2, DisjointSize, FS_CardinalityType, Zenon
<1>7. Cardinality(C \ T) = Cardinality((C \ R) \ T) + Cardinality(R \ T)
  <2>1. C \ T \in SUBSET Students /\ (C \ T) \ R = (C \ R) \ T /\ (C \ T) \cap R = R \ T
    BY <1>3
  <2>2. Cardinality(C \ T) = Cardinality((C \ T) \ R) + Cardinality((C \ T) \cap R)
    BY <1>3, <2>1, PartSizes, Zenon
  <2> QED BY <2>1, <2>2
<1>8. /\ Cardinality(R) = Cardinality(R \ T) + Cardinality(R \cap T)
      /\ Cardinality(R \ T) \in Nat /\ Cardinality(R \cap T) \in Nat /\ Cardinality(R \cap T) <= Cardinality(T)
      /\ Cardinality(T) \in Nat
  BY <1>3, PartSizes, Zenon
<1>9. n - Cardinality(H \ T) \in 0 .. Cardinality(T) /\ e - Cardinality(C \ T) \in 0 .. Cardinality(T)
  BY <1>1, <1>2 DEF CountStands, H
<1>10. n + e - Cardinality(R) - Cardinality(A) \in -Cardinality(T) .. 2 * Cardinality(T)
  BY <1>6, <1>7, <1>8, <1>9
<1> QED BY <1>1, <1>10 DEF R, A

\* A statement of a view leaves everything else alone.
LEMMA ReadKeeps ==
  ASSUME ViewsIInv, UNCHANGED <<rosterVars, writes, touched>>,
         view'.op \in {"card", "records", "mine", "checkins", "summary"}
  PROVE  /\ ViewsTypeOK'
         /\ \A k, s : Standing(k, s)' = Standing(k, s)
         /\ \A k, m : Having(k, m)' = Having(k, m)
         /\ Still' = Still
BY DEF ViewsIInv, ViewsTypeOK, rosterVars, Standing, Having, Still

\* A request begins.
LEMMA BeginStep ==
  ASSUME ViewsIInv,
         \/ ListCheckins \/ OfferingSummary
         \/ \E k \in Checkins : GetCheckin(k) \/ ListRecords(k)
         \/ \E s \in Students : MyCheckins(s)
  PROVE  ViewsIInv'
<1>0. UNCHANGED <<rosterVars, writes, touched>>
  BY DEF ListCheckins, OfferingSummary, GetCheckin, ListRecords, MyCheckins, Begin
<1>1. CASE ListCheckins \/ OfferingSummary
  <2>1. CASE ListCheckins
    <3>1. PICK f \in Filters : view' = [op |-> "checkins", at |-> "count", filter |-> f]
      BY <2>1 DEF ListCheckins, Begin
    <3> QED BY <1>0, <3>1, ReadKeeps DEF ViewsIInv, CardOK, RecordsOK, MineOK, ReportOK, ViewsAgree
  <2>2. CASE OfferingSummary
    <3>1. view' = [op |-> "summary", at |-> "count", filter |-> [offering |-> TRUE, status |-> "any"]]
      BY <2>2 DEF OfferingSummary, Begin
    <3> QED BY <1>0, <3>1, ReadKeeps DEF ViewsIInv, CardOK, RecordsOK, MineOK, ReportOK, ViewsAgree
  <2> QED BY <1>1, <2>1, <2>2
<1>2. ASSUME NEW k \in Checkins, GetCheckin(k) PROVE ViewsIInv'
  <2>1. view' = [op |-> "card", at |-> "find", k |-> k]
    BY <1>2 DEF GetCheckin, Begin
  <2> QED BY <1>0, <2>1, ReadKeeps DEF ViewsIInv, CardOK, RecordsOK, MineOK, ReportOK, ViewsAgree
<1>3. ASSUME NEW k \in Checkins, ListRecords(k) PROVE ViewsIInv'
  <2>1. PICK m \in Marks \cup {"any"} : view' = [op |-> "records", at |-> "find", k |-> k, like |-> m]
    BY <1>3, ViewsAssumption DEF ListRecords, Begin
  <2> QED BY <1>0, <2>1, ReadKeeps DEF ViewsIInv, CardOK, RecordsOK, MineOK, ReportOK, ViewsAgree
<1>4. ASSUME NEW s \in Students, MyCheckins(s) PROVE ViewsIInv'
  <2>1. view' = [op |-> "mine", at |-> "total", s |-> s]
    BY <1>4 DEF MyCheckins, Begin
  <2> QED BY <1>0, <2>1, ReadKeeps DEF ViewsIInv, CardOK, RecordsOK, MineOK, ReportOK, ViewsAgree
<1> QED BY <1>1, <1>2, <1>3, <1>4

\* Nothing is left of a request that fails.
LEMMA FailStep ==
  ASSUME ViewsIInv, view' = NoView, UNCHANGED <<rosterVars, writes, touched>>
  PROVE  ViewsIInv'
BY DEF NoView, rosterVars, ViewsIInv, ViewsTypeOK, CardOK, RecordsOK, MineOK, ReportOK, ViewsAgree

\* The statement that finds the check-in of a view.
LEMMA FindStep ==
  ASSUME ViewsIInv, FindCheckin
  PROVE  ViewsIInv'
<1>1. view.at = "find" /\ UNCHANGED <<rosterVars, writes, touched>>
  BY DEF FindCheckin, Read
<1>2. view.op \in {"card", "records"}
  BY <1>1 DEF ViewsIInv, ViewsTypeOK, NoView, MineOK, ReportOK
<1>3. CASE phase[view.k] = "none"
  BY <1>1, <1>3, FailStep DEF FindCheckin, Read
<1>4. CASE phase[view.k] # "none" /\ view.op = "card"
  <2>1. view = [op |-> "card", at |-> "find", k |-> view.k] /\ view.k \in Checkins
    BY <1>1, <1>4 DEF ViewsIInv, CardOK
  <2>2. view' = [view EXCEPT !.at = "byStatus"]
    BY <1>4 DEF FindCheckin, Read
  <2>3. view' = [op |-> "card", at |-> "byStatus", k |-> view.k]
    BY <2>1, <2>2
  <2> QED BY <1>1, <2>1, <2>3, ReadKeeps DEF ViewsIInv, CardOK, RecordsOK, MineOK, ReportOK, ViewsAgree
<1>5. CASE phase[view.k] # "none" /\ view.op = "records"
  <2>1. view = [op |-> "records", at |-> "find", k |-> view.k, like |-> view.like] /\ view.k \in Checkins
        /\ view.like \in Marks \cup {"any"}
    BY <1>1, <1>5 DEF ViewsIInv, RecordsOK
  <2>2. view' = [view EXCEPT !.at = "total"]
    BY <1>5 DEF FindCheckin, Read
  <2>3. view' = [op |-> "records", at |-> "total", k |-> view.k, like |-> view.like]
    BY <2>1, <2>2
  <2> QED BY <1>1, <2>1, <2>3, ReadKeeps DEF ViewsIInv, CardOK, RecordsOK, MineOK, ReportOK, ViewsAgree
<1> QED BY <1>2, <1>3, <1>4, <1>5

\* The statements of a card.
LEMMA CountByStatusStep ==
  ASSUME ViewsIInv, CountByStatus
  PROVE  ViewsIInv'
<1>1. view.at = "byStatus" /\ UNCHANGED <<rosterVars, writes, touched>>
  BY DEF CountByStatus, Read
<1>2. view.op = "card" /\ view.k \in Checkins
  BY <1>1 DEF ViewsIInv, ViewsTypeOK, NoView, CardOK, RecordsOK, MineOK, ReportOK
<1>3. PICK k \in Checkins : k = view.k
  BY <1>2
<1>4. PICK by : by = [m \in Marks |-> Cardinality(Having(k, m))]
  OBVIOUS
<1>5. touched \in SUBSET Students /\ ViewsTypeOK
  BY DEF ViewsIInv, ViewsTypeOK
<1>6. \A m \in Marks : by[m] = Cardinality(Having(k, m)) /\ Having(k, m) \in SUBSET Students
  BY <1>4 DEF Having
<1>7. by \in [Marks -> Int]
  <2>1. \A m \in Marks : Cardinality(Having(k, m)) \in Int
    <3> TAKE m \in Marks
    <3>1. Cardinality(Having(k, m)) \in Nat
      BY <1>6, SizeIsNat, Zenon
    <3> QED BY <3>1
  <2> QED BY <1>4, <2>1
<1>8. \A m \in Marks : CountStands(by[m], Having(k, m))
  BY <1>5, <1>6, CountTaken
<1>9. view' = [op |-> "card", k |-> k, expected |-> 0, by |-> by,
               at |-> IF k \in anchored THEN "expected" ELSE "done"]
  BY <1>3, <1>4 DEF CountByStatus, Read
<1>10. /\ ViewsTypeOK' /\ \A m : Having(k, m)' = Having(k, m)
       /\ \A s : Standing(k, s)' = Standing(k, s)
       /\ Still' = Still /\ touched' = touched /\ anchored' = anchored
  BY <1>1, <1>9, ReadKeeps DEF rosterVars
<1>11. CASE k \in anchored
  <2>1. view' = [op |-> "card", k |-> k, expected |-> 0, by |-> by, at |-> "expected"]
    BY <1>9, <1>11
  <2>2. \A m \in Marks : CountStands(by[m], Having(k, m))'
    BY <1>8, <1>10 DEF CountStands
  <2>3. CardOK'
    BY <1>7, <1>10, <1>11, <2>1, <2>2 DEF CardOK
  <2> QED BY <1>10, <2>1, <2>3 DEF ViewsIInv, RecordsOK, MineOK, ReportOK, ViewsAgree
<1>12. CASE k \notin anchored
  <2>1. view' = [op |-> "card", k |-> k, expected |-> 0, by |-> by, at |-> "done"]
    BY <1>9, <1>12
  <2>2. ASSUME NEW m \in Marks
        PROVE  by[m] - Cardinality({s \in Still : Standing(k, s) = m})
                 \in -Cardinality(touched) .. 2 * Cardinality(touched)
    <3>1. {s \in Still : Standing(k, s) = m} = Having(k, m) \ touched
      BY <1>5, <1>12, MarkedStands
    <3>2. by[m] - Cardinality(Having(k, m) \ touched) \in 0 .. Cardinality(touched)
      BY <1>8 DEF CountStands
    <3>3. by[m] \in Int /\ Cardinality(touched) \in Nat /\ Cardinality(Having(k, m) \ touched) \in Nat
      <4>1. Having(k, m) \ touched \in SUBSET Students
        BY <1>6
      <4> QED BY <1>5, <1>7, <4>1, SizeIsNat
    <3>4. by[m] - Cardinality(Having(k, m) \ touched) \in -Cardinality(touched) .. 2 * Cardinality(touched)
      BY <3>2, <3>3
    <3> QED BY <3>1, <3>4
  <2>3. CardIsRight'
    BY <1>10, <1>12, <2>1, <2>2 DEF CardIsRight
  <2> QED BY <1>7, <1>10, <2>1, <2>3 DEF ViewsIInv, CardOK, RecordsOK, MineOK, ReportOK, ViewsAgree
<1> QED BY <1>11, <1>12

\* The roster is counted as it is now.
LEMMA CountRosterStep ==
  ASSUME ViewsIInv, CountRoster
  PROVE  ViewsIInv'
<1>1. view.at = "expected" /\ UNCHANGED <<rosterVars, writes, touched>>
  BY DEF CountRoster, Read
<1>2. view.op = "card"
  BY <1>1 DEF ViewsIInv, ViewsTypeOK, NoView, RecordsOK, MineOK, ReportOK
<1>3. PICK k \in Checkins, by \in [Marks -> Int], e \in {Cardinality(classmates)} : k = view.k /\ by = view.by
  BY <1>1, <1>2 DEF ViewsIInv, CardOK
<1>4. PICK x : view = [op |-> "card", k |-> k, expected |-> x, by |-> by, at |-> "expected"]
  BY <1>1, <1>2, <1>3 DEF ViewsIInv, CardOK
<1>5. view' = [op |-> "card", k |-> k, expected |-> e, by |-> by, at |-> "rosterRows"]
  <2>1. view' = [view EXCEPT !.expected = e, !.at = "rosterRows"]
    BY <1>3 DEF CountRoster, Read
  <2>2. view' = [[view EXCEPT !.expected = e] EXCEPT !.at = "rosterRows"]
    BY <2>1
  <2> QED BY <1>4, <2>2
<1>6. classmates \in SUBSET Students /\ touched \in SUBSET Students
  BY DEF ViewsIInv, ViewsTypeOK
<1>7. e \in Int /\ CountStands(e, classmates)
  <2>1. e \in Nat
    BY <1>3, <1>6, SizeIsNat
  <2>2. CountStands(Cardinality(classmates), classmates)
    BY <1>6, CountTaken
  <2> QED BY <1>3, <2>1, <2>2
<1>8. k \in anchored /\ \A m \in Marks : CountStands(by[m], Having(k, m))
  BY <1>1, <1>2, <1>3 DEF ViewsIInv, CardOK
<1>9. /\ ViewsTypeOK' /\ \A m : Having(k, m)' = Having(k, m)
      /\ touched' = touched /\ anchored' = anchored /\ classmates' = classmates
  BY <1>1, <1>5, ReadKeeps DEF rosterVars
<1>10. CountStands(e, classmates)' /\ \A m \in Marks : CountStands(by[m], Having(k, m))'
  BY <1>7, <1>8, <1>9 DEF CountStands
<1>11. CardOK'
  BY <1>5, <1>7, <1>8, <1>9, <1>10 DEF CardOK
<1> QED BY <1>5, <1>9, <1>11 DEF ViewsIInv, RecordsOK, MineOK, ReportOK, ViewsAgree

\* The students of the roster without a record are counted as absent.
LEMMA BackfillCountsStep ==
  ASSUME ViewsIInv, BackfillCounts
  PROVE  ViewsIInv'
<1>1. view.at = "rosterRows" /\ UNCHANGED <<rosterVars, writes, touched>>
  BY DEF BackfillCounts, Read
<1>2. view.op = "card"
  BY <1>1 DEF ViewsIInv, ViewsTypeOK, NoView, RecordsOK, MineOK, ReportOK
<1>3. PICK k \in Checkins, by \in [Marks -> Int], e \in Int : k = view.k /\ by = view.by /\ e = view.expected
  BY <1>1, <1>2 DEF ViewsIInv, CardOK
<1>4. view = [op |-> "card", k |-> k, expected |-> e, by |-> by, at |-> "rosterRows"]
  BY <1>1, <1>2, <1>3 DEF ViewsIInv, CardOK
<1>5. PICK r : r = Cardinality({s \in classmates : mark[k][s] # Unmarked})
  OBVIOUS
<1>6. r \in Nat
  <2>1. {s \in classmates : mark[k][s] # Unmarked} \in SUBSET Students
    BY DEF ViewsIInv, ViewsTypeOK
  <2> QED BY <1>5, <2>1, SizeIsNat
<1>7. PICK counts \in [Marks -> Int] : counts = [by EXCEPT !["absent"] = by["absent"] + e - r]
  <2>1. PICK n \in Int : n = by["absent"] + e - r
    BY <1>3, <1>6 DEF Marks
  <2>2. [by EXCEPT !["absent"] = n] \in [Marks -> Int]
    BY <1>3
  <2> QED BY <2>1, <2>2
<1>8. view' = [op |-> "card", k |-> k, expected |-> e, by |-> counts, at |-> "done"]
  <2>1. view' = [view EXCEPT !.by["absent"] = @ + view.expected - r, !.at = "done"]
    BY <1>3, <1>5 DEF BackfillCounts, Read
  <2>2. view' = [[view EXCEPT !.by = counts] EXCEPT !.at = "done"]
    BY <1>3, <1>4, <1>7, <2>1
  <2> QED BY <1>4, <2>2
<1>9. /\ ViewsTypeOK /\ touched \in SUBSET Students /\ classmates \in SUBSET Students
      /\ k \in anchored
      /\ CountStands(e, classmates)
      /\ \A m \in Marks : CountStands(by[m], Having(k, m))
  BY <1>1, <1>2, <1>3 DEF ViewsIInv, CardOK, ViewsTypeOK
<1>10. /\ ViewsTypeOK' /\ \A s : Standing(k, s)' = Standing(k, s)
       /\ Still' = Still /\ touched' = touched /\ classmates' = classmates
  BY <1>1, <1>8, ReadKeeps DEF rosterVars
<1>11. e - Cardinality(classmates \cap Still) \in 0 .. Cardinality(touched)
  <2>1. classmates \cap Still = classmates \ touched
    BY <1>9 DEF Still
  <2> QED BY <1>9, <2>1 DEF CountStands
<1>12. ASSUME NEW m \in Marks
       PROVE  counts[m] - Cardinality({s \in Still : Standing(k, s) = m})
                \in -Cardinality(touched) .. 2 * Cardinality(touched)
  <2>1. CASE m = "absent"
    <3>1. by["absent"] \in Int /\ CountStands(by["absent"], Having(k, "absent"))
      BY <1>9, <2>1 DEF Marks
    <3>2. by["absent"] + e - r - Cardinality({s \in Still : Standing(k, s) = "absent"})
            \in -Cardinality(touched) .. 2 * Cardinality(touched)
      BY <1>3, <1>5, <1>9, <3>1, AbsentCount
    <3>3. counts[m] = by["absent"] + e - r
      BY <1>7, <2>1
    <3>4. PICK z \in Nat : z = Cardinality({s \in Still : Standing(k, s) = "absent"})
      <4>1. {s \in Still : Standing(k, s) = "absent"} \in SUBSET Students
        BY DEF Still
      <4> QED BY <4>1, SizeIsNat
    <3>5. by["absent"] + e - r - z \in -Cardinality(touched) .. 2 * Cardinality(touched)
      BY <3>2, <3>4
    <3>6. counts[m] - z \in -Cardinality(touched) .. 2 * Cardinality(touched)
      BY <1>3, <1>6, <2>1, <3>1, <3>3, <3>5
    <3>7. z = Cardinality({s \in Still : Standing(k, s) = m})
      BY <2>1, <3>4, Zenon
    <3> QED BY <3>6, <3>7
  <2>2. CASE m # "absent"
    <3>1. {s \in Still : Standing(k, s) = m} = Having(k, m) \ touched
      BY <1>9, <2>2, MarkedStands
    <3>2. counts[m] = by[m] /\ by[m] \in Int
      BY <1>7, <2>2
    <3>3. by[m] - Cardinality(Having(k, m) \ touched) \in 0 .. Cardinality(touched)
      BY <1>9 DEF CountStands
    <3>4. Cardinality(touched) \in Nat /\ Cardinality(Having(k, m) \ touched) \in Nat
      <4>1. Having(k, m) \ touched \in SUBSET Students
        BY DEF Having
      <4> QED BY <1>9, <4>1, SizeIsNat
    <3>5. by[m] - Cardinality(Having(k, m) \ touched) \in -Cardinality(touched) .. 2 * Cardinality(touched)
      BY <3>2, <3>3, <3>4
    <3> QED BY <3>1, <3>2, <3>5
  <2> QED BY <2>1, <2>2
<1>13. CardIsRight'
  BY <1>8, <1>10, <1>11, <1>12 DEF CardIsRight
<1>14. CardOK'
  BY <1>3, <1>8 DEF CardOK
<1> QED BY <1>8, <1>10, <1>13, <1>14 DEF ViewsIInv, RecordsOK, MineOK, ReportOK, ViewsAgree

----------------------------------------------------------------------------
(* The records of a check-in, and a student's own.                         *)

\* The records are counted as they are now.
LEMMA CountRecordsStep ==
  ASSUME ViewsIInv, CountRecords
  PROVE  ViewsIInv'
<1>1. view.op = "records" /\ view.at = "total" /\ UNCHANGED <<rosterVars, writes, touched>>
  BY DEF CountRecords, Read
<1>2. /\ view = [op |-> "records", at |-> "total", k |-> view.k, like |-> view.like]
      /\ view.k \in Checkins /\ view.like \in Marks \cup {"any"}
  BY <1>1 DEF ViewsIInv, RecordsOK
<1>3. view' = [view EXCEPT !.at = "rows"]
  BY DEF CountRecords, Read
<1>4. view' = [op |-> "records", at |-> "rows", k |-> view.k, like |-> view.like]
  BY <1>2, <1>3
<1> QED BY <1>1, <1>2, <1>4, ReadKeeps DEF ViewsIInv, CardOK, RecordsOK, MineOK, ReportOK, ViewsAgree

\* Whose row the union holds, and with which status.
LEMMA UnionRows ==
  ASSUME ViewsTypeOK, NEW k \in Checkins, NEW s \in Students
  PROVE  {r.status : r \in {x \in RecordUnion(k) : x.s = s}}
           = IF s \in accounts THEN {Standing(k, s)} \ {Unmarked} ELSE {}
<1> DEFINE status == IF mark[k][s] = Unmarked THEN "absent" ELSE mark[k][s]
           listed == s \in accounts /\ (s \in RosterOf(k) \/ mark[k][s] # Unmarked)
<1>1. ASSUME NEW r \in RecordUnion(k), r.s = s PROVE listed /\ r.status = status
  BY <1>1 DEF RecordUnion, RecordRow, ExtrasOf
<1>2. ASSUME listed PROVE \E r \in RecordUnion(k) : r.s = s /\ r.status = status
  <2>1. CASE s \in RosterOf(k)
    <3>1. RecordRow(k, s, TRUE) \in RecordUnion(k)
      BY <1>2, <2>1 DEF RecordUnion
    <3> QED BY <3>1 DEF RecordRow
  <2>2. CASE s \notin RosterOf(k)
    <3>1. RecordRow(k, s, k \notin anchored) \in RecordUnion(k)
      BY <1>2, <2>2 DEF RecordUnion, ExtrasOf
    <3> QED BY <3>1 DEF RecordRow
  <2> QED BY <2>1, <2>2
<1>3. {r.status : r \in {x \in RecordUnion(k) : x.s = s}} = IF listed THEN {status} ELSE {}
  <2> HIDE DEF status, listed
  <2> QED BY <1>1, <1>2
<1>4. (IF listed THEN {status} ELSE {}) = IF s \in accounts THEN {Standing(k, s)} \ {Unmarked} ELSE {}
  BY ViewsAssumption DEF Standing, RosterOf, Marks
<1> QED BY <1>3, <1>4, Zenon

\* A page of the records is read after their count.
LEMMA PageRecordsStep ==
  ASSUME ViewsIInv, PageRecords
  PROVE  ViewsIInv'
<1>1. view.at = "rows" /\ UNCHANGED <<rosterVars, writes, touched>>
  BY DEF PageRecords, Read
<1>2. view.op = "records" /\ ViewsTypeOK
  BY <1>1 DEF ViewsIInv, ViewsTypeOK, NoView, CardOK, MineOK, ReportOK
<1>3. PICK k \in Checkins, l \in Marks \cup {"any"} : k = view.k /\ l = view.like
  BY <1>2 DEF ViewsIInv, RecordsOK
<1>4. PICK rows : rows = {r \in RecordUnion(k) : l \in {"any", r.status}}
  OBVIOUS
<1>5. view' = [op |-> "records", at |-> "done", k |-> k, like |-> l, rows |-> rows]
  BY <1>3, <1>4 DEF PageRecords, Read, RecordsLike
<1>6. /\ ViewsTypeOK' /\ \A s : Standing(k, s)' = Standing(k, s)
      /\ Still' = Still /\ accounts' = accounts
  BY <1>1, <1>5, ReadKeeps DEF rosterVars
<1>7. ASSUME NEW s \in Students
      PROVE  {r.status : r \in {x \in rows : x.s = s}}
               = {Standing(k, s)} \cap (IF s \notin accounts THEN {}
                                       ELSE IF l = "any" THEN Marks ELSE {l})
  <2> DEFINE all == {r.status : r \in {x \in RecordUnion(k) : x.s = s}}
  <2>1. all = IF s \in accounts THEN {Standing(k, s)} \ {Unmarked} ELSE {}
    BY <1>2, UnionRows
  <2>2. {r.status : r \in {x \in rows : x.s = s}} = {m \in all : l \in {"any", m}}
    BY <1>4
  <2>3. Standing(k, s) \in Marks \cup {Unmarked}
    BY <1>2 DEF Standing, ViewsTypeOK, Marks
  <2>4. Unmarked \notin Marks /\ (l \in Marks => l # "any")
    BY ViewsAssumption DEF Marks
  <2> HIDE DEF all
  <2>5. PICK st, m0 : st = Standing(k, s) /\ m0 = {r.status : r \in {x \in rows : x.s = s}}
    OBVIOUS
  <2>6. m0 = {st} \cap (IF s \notin accounts THEN {} ELSE IF l = "any" THEN Marks ELSE {l})
    <3>1. CASE s \notin accounts
      BY <2>1, <2>2, <2>5, <3>1
    <3>2. CASE s \in accounts /\ l = "any"
      BY <2>1, <2>2, <2>3, <2>4, <2>5, <3>2
    <3>3. CASE s \in accounts /\ l # "any"
      BY <2>1, <2>2, <2>3, <2>4, <2>5, <3>3
    <3> QED BY <3>1, <3>2, <3>3
  <2> QED BY <2>5, <2>6
<1>8. RecordsAreRight'
  BY <1>5, <1>6, <1>7 DEF RecordsAreRight, Still
<1> QED BY <1>5, <1>6, <1>8 DEF ViewsIInv, CardOK, RecordsOK, MineOK, ReportOK, ViewsAgree

\* A page of a student's own check-ins is read after its count.
LEMMA PageMyCheckinsStep ==
  ASSUME ViewsIInv, PageMyCheckins
  PROVE  ViewsIInv'
<1>1. view.op = "mine" /\ UNCHANGED <<rosterVars, writes, touched>>
  BY DEF PageMyCheckins, Read
<1>2. PICK s \in Students : s = view.s
  BY <1>1 DEF ViewsIInv, MineOK
<1>3. PICK rows : rows = {[k |-> k, status |-> mark[k][s]] : k \in {k \in Checkins : mark[k][s] # Unmarked}}
  OBVIOUS
<1>4. view' = [op |-> "mine", at |-> "done", s |-> s, rows |-> rows]
  BY <1>2, <1>3 DEF PageMyCheckins, Read
<1>5. ViewsTypeOK' /\ mark' = mark
  BY <1>1, <1>4, ReadKeeps DEF rosterVars
<1>6. ASSUME NEW k \in Checkins
      PROVE  {r.status : r \in {x \in rows : x.k = k}} = {mark[k][s]} \ {Unmarked}
  <2>1. ASSUME NEW r \in rows, r.k = k PROVE r.status = mark[k][s] /\ mark[k][s] # Unmarked
    BY <1>3, <2>1
  <2>2. ASSUME mark[k][s] # Unmarked PROVE \E r \in rows : r.k = k /\ r.status = mark[k][s]
    <3>1. [k |-> k, status |-> mark[k][s]] \in rows
      BY <1>3, <2>2
    <3> QED BY <3>1
  <2> QED BY <2>1, <2>2
<1>7. MineIsRight'
  BY <1>4, <1>5, <1>6 DEF MineIsRight
<1> QED BY <1>4, <1>5, <1>7 DEF ViewsIInv, CardOK, RecordsOK, MineOK, ReportOK, ViewsAgree

----------------------------------------------------------------------------
(* The list of check-ins, and the report.                                  *)

\* The check-ins are counted as they are now.
LEMMA CountCheckinsStep ==
  ASSUME ViewsIInv, CountCheckins
  PROVE  ViewsIInv'
<1>1. view.at = "count" /\ UNCHANGED <<rosterVars, writes, touched>>
  BY DEF CountCheckins, Read
<1>2. view.op \in {"checkins", "summary"}
  BY <1>1 DEF ViewsIInv, ViewsTypeOK, NoView, CardOK, RecordsOK, MineOK
<1>3. /\ view = [op |-> view.op, at |-> "count", filter |-> view.filter]
      /\ view.op = "summary" => view.filter.offering
  BY <1>1, <1>2 DEF ViewsIInv, ReportOK
<1>4. view' = [view EXCEPT !.at = "page"]
  BY DEF CountCheckins, Read
<1>5. view' = [op |-> view.op, at |-> "page", filter |-> view.filter]
  BY <1>3, <1>4
<1> QED BY <1>1, <1>2, <1>3, <1>5, ReadKeeps DEF ViewsIInv, CardOK, RecordsOK, MineOK, ReportOK, ViewsAgree

\* A page of the check-ins is read after their count.
LEMMA PageCheckinsStep ==
  ASSUME ViewsIInv, PageCheckins
  PROVE  ViewsIInv'
<1>1. view.at = "page" /\ UNCHANGED <<rosterVars, writes, touched>>
  BY DEF PageCheckins, Read
<1>2. view.op \in {"checkins", "summary"}
  BY <1>1 DEF ViewsIInv, ViewsTypeOK, NoView, CardOK, RecordsOK, MineOK
<1>3. PICK f : f = view.filter /\ (view.op = "summary" => f.offering)
  BY <1>1, <1>2 DEF ViewsIInv, ReportOK
<1>4. PICK cards \in ScanCheckins(Selected(f)) :
        view' = [op |-> view.op, cards |-> cards, rows |-> {},
                 at |-> IF view.op = "checkins" \/ cards = <<>> THEN "done" ELSE "roster"]
  BY <1>3 DEF PageCheckins, Read
<1>5. DOMAIN cards = Selected(f)
  BY <1>4 DEF ScanCheckins
<1>6. CASE view.op = "checkins"
  <2>1. view' = [op |-> "checkins", cards |-> cards, rows |-> {}, at |-> "done"]
    BY <1>4, <1>6
  <2> QED BY <1>1, <2>1, ReadKeeps DEF ViewsIInv, CardOK, RecordsOK, MineOK, ReportOK, ViewsAgree
<1>7. CASE view.op = "summary" /\ cards = <<>>
  <2>1. view' = [op |-> "summary", cards |-> cards, rows |-> {}, at |-> "done"]
    BY <1>4, <1>7
  <2>2. DOMAIN cards = {}
    BY <1>7
  <2>3. SummaryIsRight'
    BY <2>1, <2>2 DEF SummaryIsRight
  <2> QED BY <1>1, <2>1, <2>3, ReadKeeps DEF ViewsIInv, CardOK, RecordsOK, MineOK, ReportOK, ViewsAgree
<1>8. CASE view.op = "summary" /\ cards # <<>>
  <2>1. view' = [op |-> "summary", cards |-> cards, rows |-> {}, at |-> "roster"]
    BY <1>4, <1>8
  <2>2. DOMAIN cards \subseteq anchored'
    BY <1>1, <1>3, <1>5, <1>8 DEF Selected, rosterVars
  <2> QED BY <1>1, <2>1, <2>2, ReadKeeps DEF ViewsIInv, CardOK, RecordsOK, MineOK, ReportOK, ViewsAgree
<1> QED BY <1>2, <1>6, <1>7, <1>8

\* The summary reads the roster.
LEMMA SummaryRosterStep ==
  ASSUME ViewsIInv, SummaryRoster
  PROVE  ViewsIInv'
<1>1. view.at = "roster" /\ UNCHANGED <<rosterVars, writes, touched>>
  BY DEF SummaryRoster, Read
<1>2. view.op = "summary"
  BY <1>1 DEF ViewsIInv, ViewsTypeOK, NoView, CardOK, RecordsOK, MineOK, ReportOK
<1>3. PICK cards, old : /\ view = [op |-> "summary", cards |-> cards, rows |-> old, at |-> "roster"]
                        /\ DOMAIN cards \subseteq anchored
  BY <1>1, <1>2 DEF ViewsIInv, ReportOK
<1>4. PICK rows : rows = {[s |-> s, inRoster |-> TRUE] : s \in classmates \cap accounts}
  OBVIOUS
<1>5. view' = [op |-> "summary", cards |-> cards, rows |-> rows, at |-> "extras"]
  <2>1. view' = [view EXCEPT !.at = "extras", !.rows = rows]
    BY <1>4 DEF SummaryRoster, Read
  <2>2. view' = [[view EXCEPT !.at = "extras"] EXCEPT !.rows = rows]
    BY <2>1
  <2> QED BY <1>3, <2>2
<1>6. /\ ViewsTypeOK' /\ Still' = Still /\ accounts' = accounts /\ classmates' = classmates
      /\ anchored' = anchored
  BY <1>1, <1>5, ReadKeeps DEF rosterVars
<1>7. rows \subseteq [s : Students, inRoster : BOOLEAN]
  <2>1. \A s \in classmates : [s |-> s, inRoster |-> TRUE] \in [s : Students, inRoster : BOOLEAN]
    BY DEF ViewsIInv, ViewsTypeOK
  <2> QED BY <1>4, <2>1
<1>8. ASSUME NEW s \in Students
      PROVE  {r.inRoster : r \in {x \in rows : x.s = s}}
               = IF s \in accounts /\ s \in classmates THEN {TRUE} ELSE {}
  <2>1. \A r \in rows : r.inRoster = TRUE /\ r.s \in classmates \cap accounts
    BY <1>4
  <2>2. s \in classmates \cap accounts => \E r \in rows : r.s = s
    <3>1. s \in classmates \cap accounts => [s |-> s, inRoster |-> TRUE] \in rows
      BY <1>4
    <3> QED BY <3>1
  <2> QED BY <2>1, <2>2
<1>9. \A s \in Students : Told(s)' = IF s \in accounts /\ s \in classmates THEN {TRUE} ELSE {}
  BY <1>5, <1>8 DEF Told
<1>10. ReportOK'
  <2> HIDE DEF Told
  <2>1. \A s \in Still' : s \in Students
    BY DEF Still
  <2> QED BY <1>3, <1>5, <1>6, <1>7, <1>9, <2>1 DEF ReportOK
<1> QED BY <1>5, <1>6, <1>10 DEF ViewsIInv, CardOK, RecordsOK, MineOK, ViewsAgree

\* The summary adds the students with records who are not of the class.
LEMMA SummaryExtrasStep ==
  ASSUME ViewsIInv, SummaryExtras
  PROVE  ViewsIInv'
<1>1. view.at = "extras" /\ UNCHANGED <<rosterVars, writes, touched>>
  BY DEF SummaryExtras, Read
<1>2. view.op = "summary"
  BY <1>1 DEF ViewsIInv, ViewsTypeOK, NoView, CardOK, RecordsOK, MineOK, ReportOK
<1>3. PICK cards, old : /\ view = [op |-> "summary", cards |-> cards, rows |-> old, at |-> "extras"]
                        /\ DOMAIN cards \subseteq anchored
                        /\ old \subseteq [s : Students, inRoster : BOOLEAN]
  BY <1>1, <1>2 DEF ViewsIInv, ReportOK
<1>4. PICK E : E = {s \in accounts \ classmates : \E k \in anchored : mark[k][s] # Unmarked}
  OBVIOUS
<1>5. PICK rows : rows = old \cup {[s |-> s, inRoster |-> FALSE] : s \in E}
  OBVIOUS
<1>6. view' = [op |-> "summary", cards |-> cards, rows |-> rows, at |-> "marks"]
  <2>1. view' = [view EXCEPT !.at = "marks", !.rows = @ \cup {[s |-> s, inRoster |-> FALSE] : s \in E}]
    BY <1>4 DEF SummaryExtras, Read
  <2>2. view' = [[view EXCEPT !.at = "marks"] EXCEPT !.rows = rows]
    BY <1>3, <1>5, <2>1
  <2> QED BY <1>3, <2>2
<1>7. /\ ViewsTypeOK' /\ Still' = Still /\ accounts' = accounts /\ classmates' = classmates
      /\ anchored' = anchored /\ mark' = mark
  BY <1>1, <1>6, ReadKeeps DEF rosterVars
<1>8. E \subseteq Students
  BY <1>4 DEF ViewsIInv, ViewsTypeOK
<1>9. rows \subseteq [s : Students, inRoster : BOOLEAN]
  <2>1. \A s \in E : [s |-> s, inRoster |-> FALSE] \in [s : Students, inRoster : BOOLEAN]
    BY <1>8
  <2> QED BY <1>3, <1>5, <2>1
<1>10. ASSUME NEW s \in Still
       PROVE  {r.inRoster : r \in {x \in rows : x.s = s}}
                = IF s \notin accounts THEN {}
                  ELSE IF s \in classmates THEN {TRUE}
                  ELSE IF \E k \in anchored : mark[k][s] # Unmarked THEN {FALSE} ELSE {}
  <2>1. PICK told : told = {r.inRoster : r \in {x \in old : x.s = s}}
    OBVIOUS
  <2>2. told = IF s \notin accounts THEN {} ELSE IF s \in classmates THEN {TRUE} ELSE {}
    BY <1>1, <1>2, <1>3, <2>1 DEF ViewsIInv, ReportOK, Told
  <2>3. {r.inRoster : r \in {x \in rows : x.s = s}} = told \cup IF s \in E THEN {FALSE} ELSE {}
    <3> DEFINE more == {[s |-> u, inRoster |-> FALSE] : u \in E}
    <3>1. \A r \in more : r.inRoster = FALSE /\ r.s \in E
      OBVIOUS
    <3>2. s \in E => \E r \in more : r.s = s
      <4>1. s \in E => [s |-> s, inRoster |-> FALSE] \in more
        OBVIOUS
      <4> QED BY <4>1
    <3>3. rows = old \cup more
      BY <1>5
    <3> HIDE DEF more
    <3> QED BY <2>1, <3>1, <3>2, <3>3
  <2> QED BY <1>4, <2>2, <2>3
<1>11. \A s \in Still : Told(s)' = IF s \notin accounts THEN {}
                                  ELSE IF s \in classmates THEN {TRUE}
                                  ELSE IF \E k \in anchored : mark[k][s] # Unmarked THEN {FALSE} ELSE {}
  BY <1>6, <1>10 DEF Told
<1>12. ReportOK'
  <2> HIDE DEF Told
  <2> QED BY <1>3, <1>6, <1>7, <1>9, <1>11 DEF ReportOK
<1> QED BY <1>6, <1>7, <1>12 DEF ViewsIInv, CardOK, RecordsOK, MineOK, ViewsAgree

\* The summary fills the rows it has with their marks.
LEMMA SummaryMarksStep ==
  ASSUME ViewsIInv, SummaryMarks
  PROVE  ViewsIInv'
<1>1. view.at = "marks" /\ UNCHANGED <<rosterVars, writes, touched>>
  BY DEF SummaryMarks, Read
<1>2. view.op = "summary" /\ ViewsTypeOK
  BY <1>1 DEF ViewsIInv, ViewsTypeOK, NoView, CardOK, RecordsOK, MineOK, ReportOK
<1>3. PICK cards, old : /\ view = [op |-> "summary", cards |-> cards, rows |-> old, at |-> "marks"]
                        /\ DOMAIN cards \subseteq anchored
                        /\ old \subseteq [s : Students, inRoster : BOOLEAN]
  BY <1>1, <1>2 DEF ViewsIInv, ReportOK
<1>4. PICK rows : rows = {[s |-> r.s, cells |-> SummaryCells(r)] : r \in old}
  OBVIOUS
<1>5. view' = [op |-> "summary", cards |-> cards, rows |-> rows, at |-> "done"]
  <2>1. view' = [view EXCEPT !.at = "done", !.rows = rows]
    BY <1>3, <1>4 DEF SummaryMarks, Read
  <2>2. view' = [[view EXCEPT !.at = "done"] EXCEPT !.rows = rows]
    BY <2>1
  <2> QED BY <1>3, <2>2
<1>6. /\ ViewsTypeOK' /\ \A k, s : Standing(k, s)' = Standing(k, s)
      /\ Still' = Still /\ accounts' = accounts
  BY <1>1, <1>5, ReadKeeps DEF rosterVars
<1>7. ASSUME NEW s \in Still, NEW k \in DOMAIN cards
      PROVE  {r.cells[k] : r \in {x \in rows : x.s = s /\ k \in DOMAIN x.cells}}
               = IF s \in accounts THEN {Standing(k, s)} \ {Unmarked} ELSE {}
  <2> DEFINE status == IF mark[k][s] = Unmarked THEN "absent" ELSE mark[k][s]
             told == {r.inRoster : r \in {x \in old : x.s = s}}
             listed == \E b \in told : b \/ mark[k][s] # Unmarked
  <2>1. \A r \in old : r.s = s =>
          /\ k \in DOMAIN SummaryCells(r) <=> (r.inRoster \/ mark[k][s] # Unmarked)
          /\ k \in DOMAIN SummaryCells(r) => SummaryCells(r)[k] = status
    BY <1>3 DEF SummaryCells
  <2>2. {r.cells[k] : r \in {x \in rows : x.s = s /\ k \in DOMAIN x.cells}}
          = IF listed THEN {status} ELSE {}
    <3> HIDE DEF status
    <3>1. ASSUME NEW x \in rows, x.s = s, k \in DOMAIN x.cells PROVE listed /\ x.cells[k] = status
      <4>1. PICK r \in old : x.s = r.s /\ x.cells = SummaryCells(r)
        BY <1>4
      <4>2. r.s = s /\ x.cells[k] = status /\ (r.inRoster \/ mark[k][s] # Unmarked)
        BY <2>1, <3>1, <4>1
      <4>3. r.inRoster \in told
        BY <4>2
      <4> QED BY <4>2, <4>3
    <3>2. ASSUME listed PROVE \E x \in rows : x.s = s /\ k \in DOMAIN x.cells /\ x.cells[k] = status
      <4>1. PICK r \in old : r.s = s /\ (r.inRoster \/ mark[k][s] # Unmarked)
        BY <3>2
      <4>2. [s |-> r.s, cells |-> SummaryCells(r)] \in rows
        BY <1>4
      <4> QED BY <2>1, <4>1, <4>2
    <3> HIDE DEF listed
    <3> QED BY <3>1, <3>2
  <2>3. told = IF s \notin accounts THEN {}
               ELSE IF s \in classmates THEN {TRUE}
               ELSE IF \E l \in anchored : mark[l][s] # Unmarked THEN {FALSE} ELSE {}
    BY <1>1, <1>2, <1>3 DEF ViewsIInv, ReportOK, Told
  <2>4. k \in anchored
    BY <1>3
  <2> HIDE DEF told
  <2>5. (IF listed THEN {status} ELSE {}) = IF s \in accounts THEN {Standing(k, s)} \ {Unmarked} ELSE {}
    <3>1. listed <=> s \in accounts /\ (s \in classmates \/ mark[k][s] # Unmarked)
      BY <2>3, <2>4
    <3> HIDE DEF listed
    <3> QED BY <2>4, <3>1, ViewsAssumption DEF Standing, Marks
  <2> QED BY <2>2, <2>5, Zenon
<1>8. SummaryIsRight'
  BY <1>5, <1>6, <1>7 DEF SummaryIsRight
<1> QED BY <1>5, <1>6, <1>8 DEF ViewsIInv, CardOK, RecordsOK, MineOK, ReportOK, ViewsAgree

----------------------------------------------------------------------------
(* The changes, and all steps together.                                    *)

\* What others write meanwhile is counted among the students touched.
LEMMA ChangesStep ==
  ASSUME ViewsIInv,
         \/ \E k \in Checkins : TurnPhase(k) \/ \E s \in Students : WriteMark(k, s)
         \/ \E s \in Students : ChangeClass(s) \/ DeleteUser(s)
  PROVE  ViewsIInv'
<1>1. ViewsTypeOK
  BY DEF ViewsIInv
<1>2. ASSUME NEW w \in SUBSET Students, Change(w)
      PROVE  /\ touched' \subseteq Students /\ writes' \in Nat /\ writes' # 0 /\ view' = view
  BY <1>1, <1>2 DEF Change, ViewsTypeOK
<1>3. ASSUME NEW k \in Checkins, TurnPhase(k) PROVE ViewsIInv'
  <2>1. Change({}) /\ UNCHANGED <<mark, anchored, classmates, accounts>>
    BY <1>3 DEF TurnPhase
  <2>2. ViewsTypeOK'
    <3>1. phase' \in [Checkins -> {"none", "active", "closed"}]
      BY <1>1, <1>3 DEF TurnPhase, ViewsTypeOK
    <3> QED BY <1>1, <1>2, <2>1, <3>1 DEF ViewsTypeOK, NoView
  <2> QED BY <2>1, <2>2, ChangeStep
<1>4. ASSUME NEW k \in Checkins, NEW s \in Students, WriteMark(k, s) PROVE ViewsIInv'
  <2>1. Change({s}) /\ UNCHANGED <<phase, anchored, classmates, accounts>>
    BY <1>4 DEF WriteMark
  <2>2. PICK m \in WrittenMarks : mark' = [mark EXCEPT ![k][s] = m]
    BY <1>4 DEF WriteMark
  <2>3. mark' \in [Checkins -> [Students -> Marks \cup {Unmarked}]]
    BY <1>1, <2>2, ViewsAssumption DEF ViewsTypeOK
  <2>4. ViewsTypeOK'
    BY <1>1, <1>2, <2>1, <2>3 DEF ViewsTypeOK, NoView
  <2>5. \A u \in Students \ {s}, l \in Checkins : mark'[l][u] = mark[l][u]
    BY <1>1, <2>2 DEF ViewsTypeOK
  <2> QED BY <2>1, <2>4, <2>5, ChangeStep
<1>5. ASSUME NEW s \in Students, ChangeClass(s) PROVE ViewsIInv'
  <2>1. Change({s}) /\ UNCHANGED <<phase, mark, anchored, accounts>>
    BY <1>5 DEF ChangeClass
  <2>2. classmates' \subseteq Students /\ \A u \in Students \ {s} : u \in classmates' <=> u \in classmates
    BY <1>1, <1>5 DEF ChangeClass, ViewsTypeOK
  <2>3. ViewsTypeOK'
    BY <1>1, <1>2, <2>1, <2>2 DEF ViewsTypeOK, NoView
  <2> QED BY <2>1, <2>2, <2>3, ChangeStep
<1>6. ASSUME NEW s \in Students, DeleteUser(s) PROVE ViewsIInv'
  <2>1. Change({s}) /\ UNCHANGED <<phase, mark, anchored, classmates>>
    BY <1>6 DEF DeleteUser
  <2>2. accounts' \subseteq Students /\ \A u \in Students \ {s} : u \in accounts' <=> u \in accounts
    BY <1>1, <1>6 DEF DeleteUser, ViewsTypeOK
  <2>3. ViewsTypeOK'
    BY <1>1, <1>2, <2>1, <2>2 DEF ViewsTypeOK, NoView
  <2> QED BY <2>1, <2>2, <2>3, ChangeStep
<1> QED BY <1>3, <1>4, <1>5, <1>6

\* Every step of the views keeps the invariant.
LEMMA ViewsStep ==
  ASSUME ViewsIInv, [ViewsNext]_viewVars
  PROVE  ViewsIInv'
<1>1. CASE Fail
  <2>1. view' = NoView /\ UNCHANGED <<rosterVars, writes, touched>>
    BY <1>1 DEF Fail, Read
  <2> QED BY <2>1, FailStep
<1>2. CASE UNCHANGED viewVars
  <2>1. UNCHANGED <<phase, mark, anchored, classmates, accounts, view, writes, touched>>
    BY <1>2 DEF viewVars, rosterVars
  <2>2. ViewsTypeOK'
    BY <2>1 DEF ViewsIInv, ViewsTypeOK
  <2>3. CardOK'
    BY <2>1 DEF ViewsIInv, CardOK, CountStands, Having
  <2>4. RecordsOK' /\ MineOK'
    BY <2>1 DEF ViewsIInv, RecordsOK, MineOK
  <2>5. ReportOK'
    BY <2>1 DEF ViewsIInv, ReportOK, Told, Still
  <2>6. /\ (view.op = "card" => CardIsRight') <=> (view.op = "card" => CardIsRight)
        /\ (view.op = "records" => RecordsAreRight') <=> (view.op = "records" => RecordsAreRight)
        /\ (view.op = "mine" => MineIsRight') <=> (view.op = "mine" => MineIsRight)
        /\ (view.op = "summary" => SummaryIsRight') <=> (view.op = "summary" => SummaryIsRight)
    BY <2>1 DEF CardIsRight, RecordsAreRight, MineIsRight, SummaryIsRight, Standing, Still
  <2>7. ViewsAgree'
    BY <2>1, <2>6 DEF ViewsIInv, ViewsAgree
  <2> QED BY <2>2, <2>3, <2>4, <2>5, <2>7 DEF ViewsIInv
<1>3. CASE \/ ListCheckins \/ OfferingSummary
           \/ \E k \in Checkins : GetCheckin(k) \/ ListRecords(k)
           \/ \E s \in Students : MyCheckins(s)
  BY <1>3, BeginStep
<1>4. CASE \/ \E k \in Checkins : TurnPhase(k) \/ \E s \in Students : WriteMark(k, s)
           \/ \E s \in Students : ChangeClass(s) \/ DeleteUser(s)
  BY <1>4, ChangesStep
<1>5. CASE \/ CountCheckins \/ PageCheckins \/ FindCheckin \/ CountByStatus \/ CountRoster
           \/ BackfillCounts \/ CountRecords \/ PageRecords \/ PageMyCheckins
           \/ SummaryRoster \/ SummaryExtras \/ SummaryMarks
  BY <1>5, CountCheckinsStep, PageCheckinsStep, FindStep, CountByStatusStep, CountRosterStep,
     BackfillCountsStep, CountRecordsStep, PageRecordsStep, PageMyCheckinsStep,
     SummaryRosterStep, SummaryExtrasStep, SummaryMarksStep
<1> QED BY <1>1, <1>2, <1>3, <1>4, <1>5 DEF ViewsNext

\* Whatever changes while the statements of a view run, in any number and order,
\* what the view tells of the students these changes do not touch is how they
\* stand (backfillCounts, PageRecords, PageMyCheckins, OfferingSummary).
THEOREM ViewsAreRight == ViewsSpec => []ViewsAgree
<1>1. ViewsIInv => ViewsAgree
  BY DEF ViewsIInv
<1>2. ViewsIInv /\ [ViewsNext]_viewVars => ViewsIInv'
  BY ViewsStep
<1> QED BY <1>1, <1>2, ViewsInitInductive, PTL DEF ViewsSpec

=============================================================================
