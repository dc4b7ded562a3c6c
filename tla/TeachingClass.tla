--------------------------- MODULE TeachingClass ---------------------------
(***************************************************************************)
(* Teaching classes, their member admin classes and the course offerings   *)
(* that refer to them.  Edits, deletions and offerings are transactions    *)
(* that lock the teaching_classes row first; an import of teaching classes *)
(* is one transaction over many rows; an import of offerings locks none.   *)
(* A transaction's last write is fused with its commit; the reads of one   *)
(* check, of which only the count of offerings can change under the lock,  *)
(* are fused too.                                                          *)
(***************************************************************************)
EXTENDS Naturals, Sequences

CONSTANTS
  Classes,         \* ids of teaching_classes (a bound): never drawn twice
  Names,           \* of teaching classes: UNIQUE
  AdminClasses,    \* possible members
  Offerings,       \* ids of course_offerings (a bound)
  Clients,         \* requests and import jobs served concurrently
  MaxGroups,       \* teaching classes in an import file (a bound)
  None             \* no class, name, offering or lock holder

ASSUME TeachingClassAssumption ==
  /\ None \notin Classes \cup Names \cup Offerings \cup Clients
  /\ MaxGroups \in Nat

VARIABLES
  name,       \* of each teaching class; None when there is no such row
  members,    \* rows of teaching_class_members
  offering,   \* the teaching class of each offering
  drawn,      \* ids that were given to a committed row
  lock,       \* holder of the FOR UPDATE lock of each teaching_classes row
  pc,         \* the next statement of each client
  req,        \* what each client does: kind, offering, groups still to do
  pending,    \* groups an import has written and not committed
  raced       \* history: offerings imported behind the back of a transaction

tables == <<name, members, offering, drawn, raced>>
vars == <<tables, lock, pc, req, pending>>

MemberSets == (SUBSET AdminClasses) \ {{}}
Groups == [class : Classes \cup {None}, name : Names \cup {None},
           members : SUBSET AdminClasses]
Kinds == {"none", "create", "edit", "delete", "import", "offer", "move", "upsert"}
Steps == {"idle", "insert", "lock", "check", "write", "offer", "commit", "aborted"}
NoRequest == [kind |-> "none", offering |-> None, plan |-> <<>>]

InUse(c) == \E o \in Offerings : offering[o] = c

\* A transaction has found that it may change or delete class c, and has not
\* committed: what is imported for c now it does not see.
Checked(p, c) ==
  \/ pc[p] = "write" /\ Head(req[p].plan).class = c
  \/ \E g \in pending[p] : g.class = c
Unsafe(c) == name[c] = None \/ \E p \in Clients : Checked(p, c)

\* The offerings that whoever locks a class finds, or stays out of the way of.
Standing == [o \in Offerings |-> IF o \in raced THEN None ELSE offering[o]]
Referred(c) == \E o \in Offerings : Standing[o] = c

Init ==
  /\ name = [c \in Classes |-> None]
  /\ members = [c \in Classes |-> {}]
  /\ offering = [o \in Offerings |-> None]
  /\ drawn = {}
  /\ lock = [c \in Classes |-> None]
  /\ pc = [p \in Clients |-> "idle"]
  /\ req = [p \in Clients |-> NoRequest]
  /\ pending = [p \in Clients |-> {}]
  /\ raced = {}

----------------------------------------------------------------------------
(* Arrivals.                                                               *)

Start(p, kind, o, plan, step) ==
  /\ pc' = [pc EXCEPT ![p] = step]
  /\ req' = [req EXCEPT ![p] = [kind |-> kind, offering |-> o, plan |-> plan]]
  /\ UNCHANGED <<tables, lock, pending>>

Group(c, n, M) == [class |-> c, name |-> n, members |-> M]
Only(c) == <<Group(c, None, {})>>

CreateTeachingClass(p, n, M) ==
  Start(p, "create", None, <<Group(None, n, M)>>, "insert")

UpdateTeachingClass(p, c, n, M) ==
  name[c] # None /\ Start(p, "edit", None, <<Group(c, n, M)>>, "lock")

DeleteTeachingClass(p, c) == name[c] # None /\ Start(p, "delete", None, Only(c), "lock")

CreateOffering(p, c) == name[c] # None /\ Start(p, "offer", None, Only(c), "lock")

UpdateOffering(p, o, c) == name[c] # None /\ Start(p, "move", o, Only(c), "lock")

\* loadRefs: the ids of the names, read before the transaction begins.
Named(n) == {c \in Classes : name[c] = n}

\* A file of one row; a row whose class has no id is an error of its own.
ImportOfferings(p, n) ==
  \E c \in Named(n) : Start(p, "upsert", None, Only(c), "offer")

\* Sessions that refer to the offering, which refuse this, are left out.
DeleteOffering(o) ==
  /\ offering[o] # None
  /\ offering' = [offering EXCEPT ![o] = None] /\ raced' = raced \ {o}
  /\ UNCHANGED <<name, members, drawn, lock, pc, req, pending>>

\* The step that the head of a plan is at.
Begin(plan) ==
  IF plan = <<>> THEN "commit" ELSE IF Head(plan).class = None THEN "insert" ELSE "lock"

\* Members are frozen once an offering refers to the class.
Frozen(g) == InUse(g.class) /\ members[g.class] # g.members

\* A name resolves to the class that has it.
Resolve(g) ==
  [g EXCEPT !.class = IF \E c \in Classes : name[c] = g.name
                      THEN CHOOSE c \in Classes : name[c] = g.name ELSE None]

ParseTeachingClasses(file) == [i \in DOMAIN file |-> Resolve(file[i])]

\* Names of one file are distinct.
Files ==
  {f \in UNION {[1..k -> {Group(None, n, M) : n \in Names, M \in MemberSets}] :
                  k \in 1..MaxGroups} :
     \A i, j \in DOMAIN f : i # j => f[i].name # f[j].name}

\* Groups that are frozen already are reported and left out: what is left of
\* such a file is a file of its own.
ImportTeachingClasses(p, file) ==
  LET plan == ParseTeachingClasses(file) IN
  /\ \A i \in DOMAIN plan : plan[i].class # None => ~Frozen(plan[i])
  /\ Start(p, "import", None, plan, Begin(plan))

----------------------------------------------------------------------------
(* The statements of a transaction.                                        *)

\* Mistake: the transaction's end does not reach the database.
FinishKeepsLock(p) ==
  /\ pc' = [pc EXCEPT ![p] = "idle"]
  /\ req' = [req EXCEPT ![p] = NoRequest]
  /\ pending' = [pending EXCEPT ![p] = {}]
  /\ UNCHANGED lock

\* Commit or rollback.
Finish(p) ==
  /\ pc' = [pc EXCEPT ![p] = "idle"]
  /\ req' = [req EXCEPT ![p] = NoRequest]
  /\ pending' = [pending EXCEPT ![p] = {}]
  /\ lock' = [c \in Classes |-> IF lock[c] = p THEN None ELSE lock[c]]

\* What was imported behind the back of this transaction is there for the next,
\* unless the class is gone.
Noticed(p) ==
  raced' = {o \in raced : lock[offering[o]] = p => name'[offering[o]] = None}

Rollback(p) == Finish(p) /\ UNCHANGED <<name, members, offering, drawn>> /\ Noticed(p)

Goto(p, step) == pc' = [pc EXCEPT ![p] = step] /\ UNCHANGED req

\* An import goes on with its next group; it holds its locks.
NextGroup(p) ==
  LET rest == Tail(req[p].plan) IN
  /\ req' = [req EXCEPT ![p].plan = rest]
  /\ pc' = [pc EXCEPT ![p] = Begin(rest)]

\* The code of a group that cannot be written: a request fails, an import
\* reports the group and skips it.
Refuse(p) ==
  IF req[p].kind = "import" THEN NextGroup(p) /\ UNCHANGED <<tables, lock, pending>>
                            ELSE Rollback(p)

\* Mistake: a SELECT without FOR UPDATE.
SelectClass(p) ==
  LET c == Head(req[p].plan).class IN
  /\ pc[p] = "lock"
  /\ \/ name[c] = None /\ Refuse(p)
     \/ /\ name[c] # None
        /\ Goto(p, IF req[p].kind \in {"offer", "move"} THEN "offer" ELSE "check")
        /\ UNCHANGED <<tables, lock, pending>>

\* SELECT ... FROM teaching_classes ... FOR UPDATE.
LockClass(p) ==
  LET c == Head(req[p].plan).class IN
  /\ pc[p] = "lock"
  /\ lock[c] = None
  /\ \/ name[c] = None /\ Refuse(p)
     \/ /\ name[c] # None
        /\ lock' = [lock EXCEPT ![c] = p]
        /\ Goto(p, IF req[p].kind \in {"offer", "move"} THEN "offer" ELSE "check")
        /\ UNCHANGED <<tables, pending>>

\* Mistake: an import trusts the check it made when it parsed the file.
CheckParsed(p) ==
  /\ pc[p] = "check"
  /\ IF req[p].kind # "import" /\ Frozen(Head(req[p].plan)) THEN Refuse(p)
     ELSE Goto(p, "write") /\ UNCHANGED <<tables, lock, pending>>

\* teachingClassInUse: a deletion wants no offering, an edit no new members.
Check(p) ==
  LET g == Head(req[p].plan)
      refused == IF req[p].kind = "delete" THEN InUse(g.class) ELSE Frozen(g)
  IN
  /\ pc[p] = "check"
  /\ \/ refused /\ Refuse(p)
     \/ ~refused /\ Goto(p, "write") /\ UNCHANGED <<tables, lock, pending>>

\* The unique index on names: what this transaction sees, and what makes it
\* wait for another one.
Taken(p, n, c) ==
  \E d \in Classes \ {c} :
    \/ \E g \in pending[p] : g.class = d /\ g.name = n
    \/ name[d] = n /\ \A g \in pending[p] : g.class # d
Contended(p, n) ==
  \E q \in Clients \ {p} : \E g \in pending[q] : n \in {g.name, name[g.class]}

\* The rows of groups gs become visible.
Apply(gs) ==
  LET of(c) == CHOOSE g \in gs : g.class = c
      touched == {g.class : g \in gs}
  IN
  /\ name' = [c \in Classes |-> IF c \in touched THEN of(c).name ELSE name[c]]
  /\ members' = [c \in Classes |-> IF c \in touched THEN of(c).members ELSE members[c]]
  /\ drawn' = drawn \cup touched
  /\ UNCHANGED offering

\* A request writes its one group and commits; an import keeps it for later.
WriteGroup(p, g) ==
  IF req[p].kind = "import"
  THEN /\ pending' = [pending EXCEPT ![p] = @ \cup {g}]
       /\ NextGroup(p)
       /\ UNCHANGED <<tables, lock>>
  ELSE Apply({g}) /\ Finish(p) /\ Noticed(p)

\* An INSERT that meets a duplicate aborts the PostgreSQL transaction, with
\* its locks and all it wrote: an import that goes on, as if it had skipped
\* the group, finds every further statement, and COMMIT, refused.
Abandon(p) ==
  /\ pending' = [pending EXCEPT ![p] = {}]
  /\ lock' = [c \in Classes |-> IF lock[c] = p THEN None ELSE lock[c]]
  /\ Goto(p, "aborted")
  /\ UNCHANGED <<name, members, offering, drawn>> /\ Noticed(p)

InsertClass(p) ==
  LET g == Head(req[p].plan) IN
  /\ pc[p] = "insert"
  /\ ~Contended(p, g.name)
  /\ \/ /\ Taken(p, g.name, None)
        /\ IF req[p].kind = "import"
           THEN Abandon(p) ELSE Rollback(p)
     \/ /\ ~Taken(p, g.name, None)
        /\ \E c \in Classes \ drawn :
             /\ \A q \in Clients : \A h \in pending[q] : h.class # c
             /\ WriteGroup(p, [g EXCEPT !.class = c])

\* UPDATE and the replacement of the members.
WriteClass(p) ==
  LET g == Head(req[p].plan) IN
  /\ pc[p] = "write" /\ req[p].kind # "delete"
  /\ ~Contended(p, g.name)
  /\ \/ Taken(p, g.name, g.class) /\ Rollback(p)
     \/ ~Taken(p, g.name, g.class) /\ WriteGroup(p, g)

RemoveClass(p) ==
  LET c == Head(req[p].plan).class IN
  /\ pc[p] = "write" /\ req[p].kind = "delete"
  /\ name' = [name EXCEPT ![c] = None]
  /\ members' = [members EXCEPT ![c] = {}]
  /\ Finish(p) /\ Noticed(p)
  /\ UNCHANGED <<offering, drawn>>

Free(o) == offering[o] = None

InsertOffering(o, c) == Free(o) /\ offering' = [offering EXCEPT ![o] = c]

\* UPDATE ... WHERE id: the offering may be gone.
MoveOffering(o, c) ==
  /\ offering' = IF Free(o) THEN offering ELSE [offering EXCEPT ![o] = c]
  /\ raced' = raced \ {o}

\* INSERT ... ON CONFLICT DO UPDATE, without a lock of the class: a row that
\* meets an offering of the same class refreshes columns that are left out here.
UpsertOffering(c) ==
  \/ \E o \in Offerings : /\ InsertOffering(o, c)
                          /\ raced' = IF Unsafe(c) THEN raced \cup {o} ELSE raced
  \/ InUse(c) /\ UNCHANGED <<offering, raced>>

WriteOffering(p) ==
  LET c == Head(req[p].plan).class IN
  /\ pc[p] = "offer"
  /\ \/ /\ req[p].kind = "offer" /\ UNCHANGED raced
        /\ \E o \in Offerings : InsertOffering(o, c)
     \/ req[p].kind = "move" /\ MoveOffering(req[p].offering, c)
     \/ req[p].kind = "upsert" /\ UpsertOffering(c)
  /\ Finish(p)
  /\ UNCHANGED <<name, members, drawn>>

CommitImport(p) ==
  /\ pc[p] = "commit"
  /\ Apply(pending[p])
  /\ Finish(p) /\ Noticed(p)

AbortedStatement(p) == pc[p] = "aborted" /\ Rollback(p)

\* The bounds on ids: an INSERT that finds none left fails.
NoIdLeft(p) ==
  /\ \/ pc[p] = "insert" /\ Classes = drawn \cup {g.class : g \in UNION {pending[q] : q \in Clients}}
     \/ pc[p] = "offer" /\ \A o \in Offerings : offering[o] # None
  /\ Rollback(p)

\* A failing statement, a cancelled request or a crash.
Abort(p) == pc[p] # "idle" /\ Rollback(p)

\* PostgreSQL finds waiters that wait for each other and fails one of them.
WaitsFor(p, q) ==
  \/ pc[p] = "lock" /\ q # p /\ lock[Head(req[p].plan).class] = q
  \/ /\ pc[p] \in {"insert", "write"} /\ q # p
     /\ \E g \in pending[q] : Head(req[p].plan).name \in {g.name, name[g.class]}
Deadlocked(p) ==
  \E S \in SUBSET Clients : p \in S /\ \A a \in S : \E b \in S : WaitsFor(a, b)
BreakDeadlock(p) == Deadlocked(p) /\ Rollback(p)

Arrive(p) ==
  /\ pc[p] = "idle"
  /\ \/ \E n \in Names : ImportOfferings(p, n)
     \/ \E n \in Names, M \in MemberSets :
          \/ CreateTeachingClass(p, n, M)
          \/ \E c \in Classes : UpdateTeachingClass(p, c, n, M)
     \/ \E c \in Classes :
          \/ DeleteTeachingClass(p, c) \/ CreateOffering(p, c)
          \/ \E o \in Offerings : UpdateOffering(p, o, c)
     \/ \E file \in Files : ImportTeachingClasses(p, file)

Proceed(p) ==
  \/ Check(p) \/ RemoveClass(p) \/ WriteOffering(p) \/ CommitImport(p)
  \/ AbortedStatement(p) \/ BreakDeadlock(p) \/ NoIdLeft(p)

Wait(p) == LockClass(p) \/ InsertClass(p) \/ WriteClass(p)

Next ==
  \/ \E p \in Clients : Arrive(p) \/ Proceed(p) \/ Wait(p) \/ Abort(p)
  \/ \E o \in Offerings : DeleteOffering(o)

Spec == Init /\ [][Next]_vars

\* A started transaction keeps executing, and PostgreSQL serves the waiters of
\* a row or of an index entry in their order of arrival.
Fairness == \A p \in Clients : WF_vars(Proceed(p)) /\ SF_vars(Wait(p))
FairSpec == Spec /\ Fairness

----------------------------------------------------------------------------
(* Properties.                                                             *)

TypeOK ==
  /\ name \in [Classes -> Names \cup {None}]
  /\ members \in [Classes -> SUBSET AdminClasses]
  /\ \A c \in Classes : name[c] = None <=> members[c] = {}
  /\ offering \in [Offerings -> Classes \cup {None}]
  /\ drawn \subseteq Classes
  /\ lock \in [Classes -> Clients \cup {None}]
  /\ pc \in [Clients -> Steps]
  /\ req \in [Clients -> [kind : Kinds, offering : Offerings \cup {None},
                          plan : Seq(Groups)]]
  /\ pending \in [Clients -> SUBSET Groups]
  /\ raced \subseteq {o \in Offerings : offering[o] # None}

\* An offering refers to a teaching class that exists: neither a deletion nor
\* the creation of an offering acts on what it read before it had the lock
\* (user/org_store.go DeleteTeachingClass, course/store.go lockTeachingClass).
\* The exception is an offering that was imported, without a lock, for a class
\* whose deletion had been checked or was done.
OfferingHasClass == \A o \in Offerings : Standing[o] # None => name[Standing[o]] # None

\* The request of a transaction fits the step it is at.
RequestOK(p) ==
  LET r == req[p]
      g == Head(r.plan)
  IN
  /\ pc[p] = "idle" => r.kind = "none"
  /\ pc[p] \in {"insert", "lock", "check", "write", "offer"} => r.plan # <<>>
  /\ pc[p] = "insert" => r.kind \in {"create", "import"} /\ g.class = None
  /\ pc[p] \in {"lock", "check", "write", "offer"} => g.class \in Classes
  /\ pc[p] = "lock" => r.kind \in {"edit", "delete", "import", "offer", "move"}
  /\ pc[p] \in {"check", "write"} => r.kind \in {"edit", "delete", "import"}
  /\ pc[p] = "offer" => r.kind \in {"offer", "move", "upsert"}
  /\ pc[p] = "commit" => r.kind = "import"
  /\ r.kind = "move" => r.offering \in Offerings
  /\ r.kind \in {"create", "edit", "import"} =>
       \A i \in DOMAIN r.plan : r.plan[i].name \in Names /\ r.plan[i].members # {}

\* The groups an import has still to do are of different classes, which it has
\* not written yet.
PlanOK(p) ==
  req[p].kind = "import" =>
    \A i \in DOMAIN req[p].plan :
      LET c == req[p].plan[i].class IN
      c # None => /\ c \in drawn
                  /\ \A j \in DOMAIN req[p].plan : j # i => req[p].plan[j].class # c
                  /\ \A g \in pending[p] : g.class # c

\* What a transaction found under the lock of a class stays true until it
\* writes: the class is there, and what it will do to it is not forbidden.
SameMembers(g) == members[g.class] = g.members
CheckStands(p) ==
  LET g == Head(req[p].plan) IN
  /\ pc[p] \in {"check", "write", "offer"} /\ req[p].kind # "upsert" =>
       lock[g.class] = p /\ name[g.class] # None
  /\ pc[p] = "write" /\ Referred(g.class) => req[p].kind # "delete" /\ SameMembers(g)

\* What an import has written and not committed is its own: a class it holds
\* the lock of and may change, or a new one; and it may have the names.
PendingStands(p) ==
  \A g \in pending[p] :
    /\ req[p].kind = "import" /\ pc[p] # "aborted"
    /\ g.class \in Classes /\ g.name \in Names /\ g.members # {}
    /\ \A h \in pending[p] : h # g => h.class # g.class /\ h.name # g.name
    /\ g.class \in drawn => lock[g.class] = p /\ name[g.class] # None /\ (Referred(g.class) => SameMembers(g))
    /\ \A d \in Classes : name[d] = g.name => \E h \in pending[p] : h.class = d

\* Imports write different classes and names.
PendingApart ==
  \A p, q \in Clients : p # q =>
    \A g \in pending[p], h \in pending[q] : g.class # h.class /\ g.name # h.name

\* A lock is held by a transaction that works on the class.
LockHeldInside ==
  \A c \in Classes, p \in Clients :
    lock[c] = p => /\ c \in drawn
                   /\ pc[p] \in Steps \ {"idle", "aborted"}
                   /\ req[p].kind # "import" =>
                        pc[p] \in {"check", "write", "offer"} /\ Head(req[p].plan).class = c

\* Names of teaching classes are unique, and their ids drawn.
NamesUnique ==
  \A c \in Classes : name[c] # None =>
    c \in drawn /\ \A d \in Classes \ {c} : name[c] # name[d]

\* The invariant behind MembersFrozen.
IInv ==
  /\ TypeOK
  /\ OfferingHasClass
  /\ NamesUnique
  /\ LockHeldInside
  /\ PendingApart
  /\ \A p \in Clients : RequestOK(p) /\ PlanOK(p) /\ CheckStands(p) /\ PendingStands(p)

\* "Once a teaching class is referenced by any offering, its member set is
\* frozen": no edit and no import changes the class list of an offering, whatever
\* runs concurrently, unless the offering was imported after the very
\* transaction had made its check (user/org_store.go UpdateTeachingClass).
MembersFrozen ==
  [][\A c \in Classes : members'[c] # members[c] => ~Referred(c)]_vars

\* The transactions implement atomic writes of whole classes and offerings; an
\* offering that was imported behind the back of one takes effect after it, and
\* never if that one deleted the class.
Promised == INSTANCE Rosters WITH offering <- Standing
RefinesRosters == Promised!Spec

\* No order of locks, unique names and statements leaves a request unanswered:
\* imports that lock the same classes in opposite orders do not stop each other.
Answered == \A p \in Clients : pc[p] # "idle" ~> pc[p] = "idle"
=============================================================================
