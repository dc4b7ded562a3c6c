------------------------------- MODULE Grants -------------------------------
(***************************************************************************)
(* Accounts, roles, groups and what they grant.  Five tables hold sets     *)
(* that the console replaces as a whole: a transaction deletes the rows it *)
(* sees and inserts its own.  PostgreSQL runs it at READ COMMITTED: a      *)
(* DELETE works on the rows that were committed when it began, waits for   *)
(* those another transaction has deleted, and never sees rows inserted     *)
(* meanwhile.  A group's row is updated first and so locked; nothing locks *)
(* an account or a role.                                                   *)
(***************************************************************************)
EXTENDS Naturals, Sequences, FiniteSets

CONSTANTS
  Accounts, Groups, CustomRoles,   \* ids (a bound: ids never recur)
  Boot,            \* the account seeded as "admin"
  Admin,           \* the system role that holds the wildcard
  Wildcard,
  Manage,          \* user:manage, role:manage, group:manage as one
  Perms,           \* the catalog of permissions
  Consoles,        \* requests served concurrently
  NoCall,
  MaxRequests, MaxRestarts, MaxSet   \* bounds; of sets that are asked for

ASSUME GrantsAssumption ==
  /\ Boot \in Accounts /\ Manage \in Perms /\ Wildcard \notin Perms
  /\ Admin \notin CustomRoles

VARIABLES
  accounts, roles, groups,  \* rows of the three tables: none, row, deleted
  grants,     \* rows of the five tables: of which set, item, batch, live
  turn,       \* the next statement of each request
  call,       \* what each request does
  seen,       \* rows in the snapshot of each running DELETE
  taken,      \* rows each open transaction has deleted
  requests, restarts,  \* how many there were
  trusted     \* history: requests whose subject held the wildcard

tables == <<accounts, roles, groups, grants>>
flow == <<turn, call, seen, taken>>
history == <<requests, restarts, trusted>>
grantVars == <<tables, flow, history>>

\* The sets that are replaced, by table and owner.
RolesOf(u) == <<"user_roles", u>>
PermsOf(u) == <<"user_permissions", u>>
MembersOf(g) == <<"user_group_members", g>>
RolesOfGroup(g) == <<"group_roles", g>>
PermsOfRole(r) == <<"role_permissions", r>>
Sets == {RolesOf(u) : u \in Accounts} \cup {PermsOf(u) : u \in Accounts}
          \cup {MembersOf(g) : g \in Groups} \cup {RolesOfGroup(g) : g \in Groups}
          \cup {PermsOfRole(r) : r \in CustomRoles}

Row(o, i, b) == [of |-> o, item |-> i, batch |-> b, live |-> TRUE]
RowsOf(o) == {x \in grants : x.of = o}
Items(o) == {x.item : x \in RowsOf(o)}
Live(o) == {x.item : x \in {y \in RowsOf(o) : y.live}}

Known == {r \in CustomRoles : roles[r] = "row"} \cup {Admin}
Existing == {u \in Accounts : accounts[u] = "row"}

----------------------------------------------------------------------------
(* Effective permissions.                                                  *)

HeldGroups(u) == {g \in Groups : u \in Items(MembersOf(g))}

\* The rows of a role that is gone grant nothing; a group is not asked for.
HeldRoles(u) ==
  (Live(RolesOf(u)) \cup UNION {Items(RolesOfGroup(g)) : g \in HeldGroups(u)}) \cap Known

Effective(u) ==
  IF Admin \in HeldRoles(u) THEN {Wildcard}
  ELSE Live(PermsOf(u)) \cup UNION {Items(PermsOfRole(r)) : r \in HeldRoles(u)}

Has(u, p) == Effective(u) \cap {p, Wildcard} # {}

\* Roles in use, counting expired grants and those of deleted accounts.
InUse(r) == \E x \in grants : x.item = r

----------------------------------------------------------------------------
(* Migrate on a database that has been used before.                        *)

GInit ==
  /\ \E U \in SUBSET (Accounts \ {Boot}) :
       /\ accounts = [u \in Accounts |-> IF u \in U \cup {Boot} THEN "row" ELSE "none"]
       /\ grants = {Row(RolesOf(Boot), Admin, 0)} \cup {Row(PermsOf(u), Manage, 0) : u \in U}
  /\ roles \in [CustomRoles -> {"none", "row"}]
  /\ groups \in [Groups -> {"none", "row"}]
  /\ turn = [c \in Consoles |-> "idle"]
  /\ call = [c \in Consoles |-> NoCall]
  /\ seen = [c \in Consoles |-> {}]
  /\ taken = [c \in Consoles |-> {}]
  /\ requests = 0 /\ restarts = 0
  /\ trusted = {0}

----------------------------------------------------------------------------
(* Requests: the subject is loaded, its permission required, the input     *)
(* checked against what is read.  The reads are one step; what they saw    *)
(* may be stale when the statements that follow run.                       *)

RequirePermission(a, p) == a \in Existing /\ Has(a, p)

Request(c, a, kind, key, sets, first) ==
  /\ requests' = requests + 1
  /\ trusted' = IF Has(a, Wildcard) THEN trusted \cup {requests + 1} ELSE trusted
  /\ call' = [call EXCEPT ![c] = [kind |-> kind, key |-> key, sets |-> sets,
                                  at |-> 1, batch |-> requests + 1]]
  /\ turn' = [turn EXCEPT ![c] = first]
  /\ UNCHANGED <<tables, seen, taken, restarts>>

\* Only administrators grant the admin role.
MayGrant(a, R) == R \subseteq Known /\ (Admin \in R => Has(a, Wildcard))

\* Mistake: putRoles asks only whether the roles exist.
PutRolesUnguarded(c, a, u, R) ==
  /\ u \in Existing /\ R \subseteq Known
  /\ Request(c, a, "roles", u, <<<<RolesOf(u), R>>>>, "look")

PutRoles(c, a, u, R) ==
  /\ u \in Existing /\ MayGrant(a, R)
  /\ Request(c, a, "roles", u, <<<<RolesOf(u), R>>>>, "look")

PutPermissions(c, a, u, P) ==
  /\ u \in Existing
  /\ Request(c, a, "permissions", u, <<<<PermsOf(u), P>>>>, "look")

CreateRole(c, a, r, P) ==
  Request(c, a, "create", r, <<<<PermsOfRole(r), P>>>>, "insert")

UpdateRole(c, a, r, P) ==
  /\ roles[r] = "row"
  /\ Request(c, a, "role", r, <<<<PermsOfRole(r), P>>>>, "row")

\* Refuse rather than cascade.
DeleteRole(c, a, r) ==
  /\ roles[r] = "row" /\ ~InUse(r)
  /\ Request(c, a, "dropRole", r, <<<<PermsOfRole(r), {}>>>>, "look")

GroupSets(g, M, R) == <<<<MembersOf(g), M>>, <<RolesOfGroup(g), R>>>>

CreateGroup(c, a, g, M, R) ==
  /\ M \subseteq Existing /\ MayGrant(a, R)
  /\ Request(c, a, "createGroup", g, GroupSets(g, M, R), "insert")

UpdateGroup(c, a, g, M, R) ==
  /\ M \subseteq Existing /\ MayGrant(a, R)
  /\ Request(c, a, "group", g, GroupSets(g, M, R), "row")

DeleteGroup(c, a, g) ==
  /\ groups[g] = "row"
  /\ Request(c, a, "dropGroup", g, GroupSets(g, {}, {}), "look")

\* Nobody deletes herself, and only administrators delete an administrator.
DeleteUser(c, a, u) ==
  /\ u \in Existing \ {a} /\ (Has(u, Wildcard) => Has(a, Wildcard))
  /\ Request(c, a, "dropUser", u, <<>>, "erase")

CreateUser(c, a, u) ==
  Request(c, a, "createUser", u, <<>>, "insert")

----------------------------------------------------------------------------
(* Statements.                                                             *)

Goto(c, s) == turn' = [turn EXCEPT ![c] = s]

\* Commit, rollback, or an answer that needs neither.
End(c) ==
  /\ Goto(c, "idle")
  /\ call' = [call EXCEPT ![c] = NoCall]
  /\ seen' = [seen EXCEPT ![c] = {}]
  /\ taken' = [taken EXCEPT ![c] = {}]

Fail(c) == End(c) /\ UNCHANGED <<tables, history>>

\* A new row: of an account or a role on its own, of a group with its sets.
InsertUser(c) ==
  LET k == call[c].key IN
  /\ turn[c] = "insert" /\ call[c].kind = "createUser" /\ accounts[k] = "none"
  /\ accounts' = [accounts EXCEPT ![k] = "row"]
  /\ End(c)
  /\ UNCHANGED <<roles, groups, grants, history>>

InsertRole(c) ==
  LET k == call[c].key IN
  /\ turn[c] = "insert" /\ call[c].kind = "create" /\ roles[k] = "none"
  /\ roles' = [roles EXCEPT ![k] = "row"]
  /\ Goto(c, "look")
  /\ UNCHANGED <<accounts, groups, grants, call, seen, taken, history>>

Inserted(c) ==
  UNION {{Row(call[c].sets[n][1], i, call[c].batch) : i \in call[c].sets[n][2]} :
           n \in 1..Len(call[c].sets)}

InsertGroup(c) ==
  LET k == call[c].key IN
  /\ turn[c] = "insert" /\ call[c].kind = "createGroup" /\ groups[k] = "none"
  /\ groups' = [groups EXCEPT ![k] = "row"]
  /\ grants' = grants \cup Inserted(c)
  /\ End(c)
  /\ UNCHANGED <<accounts, roles, history>>

\* Mistake: the UPDATE of the row is a statement outside the transaction.
UpdatingUnlocked(g) == {}

\* A transaction that has updated the group's row, and so locked it, and not ended.
Updating(g) == {c \in Consoles : turn[c] \in {"look", "delete", "commit"}
                                   /\ call[c].kind = "group" /\ call[c].key = g}

\* UPDATE of a row that must exist: the group's stays locked, the role's is
\* committed at once.
UpdateRoleRow(c) ==
  /\ turn[c] = "row" /\ call[c].kind = "role"
  /\ \/ roles[call[c].key] = "row" /\ Goto(c, "look")
        /\ UNCHANGED <<tables, call, seen, taken, history>>
     \/ roles[call[c].key] # "row" /\ Fail(c)

UpdateGroupRow(c) ==
  LET g == call[c].key IN
  /\ turn[c] = "row" /\ call[c].kind = "group" /\ Updating(g) = {}
  /\ \/ groups[g] = "row" /\ Goto(c, "look") /\ UNCHANGED <<tables, call, seen, taken, history>>
     \/ groups[g] # "row" /\ Fail(c)

\* The DELETE of a set begins: its snapshot.
Look(c) ==
  /\ turn[c] = "look"
  /\ seen' = [seen EXCEPT ![c] = RowsOf(call[c].sets[call[c].at][1])]
  /\ Goto(c, "delete")
  /\ UNCHANGED <<tables, call, taken, history>>

Untaken(c, R) == \A d \in Consoles \ {c} : taken[d] \cap R = {}

\* ... and ends once nobody else holds a row of it.
Delete(c) ==
  /\ turn[c] = "delete"
  /\ Untaken(c, seen[c])
  /\ taken' = [taken EXCEPT ![c] = @ \cup (seen[c] \cap grants)]
  /\ IF call[c].at < Len(call[c].sets)
     THEN Goto(c, "look") /\ call' = [call EXCEPT ![c].at = @ + 1]
     ELSE Goto(c, "commit") /\ UNCHANGED call
  /\ seen' = [seen EXCEPT ![c] = {}]
  /\ UNCHANGED <<tables, history>>

\* The INSERTs and the commit.  A key that exists aborts the transaction, and
\* so does the code of a role that is gone.
Commit(c) ==
  LET kept == grants \ taken[c]
      fits == /\ \A x \in Inserted(c), y \in kept : x.of # y.of \/ x.item # y.item
              /\ call[c].kind = "roles" => call[c].sets[1][2] \subseteq Known IN
  /\ turn[c] = "commit"
  /\ call[c].kind \notin {"dropRole", "dropGroup"}
  /\ \/ /\ fits
        /\ grants' = kept \cup Inserted(c)
        /\ End(c)
        /\ UNCHANGED <<accounts, roles, groups, history>>
     \/ ~fits /\ Fail(c)

\* DELETE of the role's or the group's row, after its sets, and the commit;
\* without the row both roll back.
DropRole(c) ==
  LET r == call[c].key IN
  /\ turn[c] = "commit" /\ call[c].kind = "dropRole"
  /\ \/ /\ roles[r] = "row"
        /\ roles' = [roles EXCEPT ![r] = "deleted"]
        /\ grants' = grants \ taken[c]
     \/ roles[r] # "row" /\ UNCHANGED <<roles, grants>>
  /\ End(c)
  /\ UNCHANGED <<accounts, groups, history>>

DropGroup(c) ==
  LET g == call[c].key IN
  /\ turn[c] = "commit" /\ call[c].kind = "dropGroup"
  /\ \/ /\ groups[g] = "row" /\ Updating(g) = {}
        /\ groups' = [groups EXCEPT ![g] = "deleted"]
        /\ grants' = grants \ taken[c]
     \/ groups[g] # "row" /\ UNCHANGED <<groups, grants>>
  /\ End(c)
  /\ UNCHANGED <<accounts, roles, history>>

\* DELETE of the account, then of its grants: three statements of their own.
EraseUser(c) ==
  LET u == call[c].key IN
  /\ turn[c] = "erase"
  /\ \/ /\ accounts[u] = "row"
        /\ accounts' = [accounts EXCEPT ![u] = "deleted"]
        /\ Goto(c, "sweep")
        /\ UNCHANGED <<roles, groups, grants, call, seen, taken, history>>
     \/ accounts[u] # "row" /\ Fail(c)

DeleteUserGrants(c) ==
  LET u == call[c].key
      R == CASE call[c].at = 1 -> RowsOf(RolesOf(u))
             [] call[c].at = 2 -> RowsOf(PermsOf(u))
             [] OTHER -> {x \in grants : x.of[1] = "user_group_members" /\ x.item = u} IN
  /\ turn[c] = "sweep"
  /\ Untaken(c, R)
  /\ grants' = grants \ R
  /\ IF call[c].at < 3 THEN call' = [call EXCEPT ![c].at = @ + 1] /\ UNCHANGED <<turn, seen, taken>>
     ELSE End(c)
  /\ UNCHANGED <<accounts, roles, groups, history>>

\* A failing statement, a cancelled request, a deadlock that PostgreSQL breaks.
GAbort(c) == turn[c] # "idle" /\ Fail(c)

\* A grant expires: the row stays.
Lapse ==
  /\ \E x \in grants : /\ x.live /\ x.of[1] \in {"user_roles", "user_permissions"}
                       /\ \A c \in Consoles : turn[c] = "idle"
                       /\ grants' = (grants \ {x}) \cup {[x EXCEPT !.live = FALSE]}
  /\ UNCHANGED <<accounts, roles, groups, flow, history>>

\* The process stops and starts: the bootstrap account gets the admin role if
\* it exists and has no row in user_roles, expired or not.
Restart ==
  /\ restarts < MaxRestarts
  /\ restarts' = restarts + 1
  /\ turn' = [c \in Consoles |-> "idle"]
  /\ call' = [c \in Consoles |-> NoCall]
  /\ seen' = [c \in Consoles |-> {}]
  /\ taken' = [c \in Consoles |-> {}]
  /\ grants' = IF Boot \in Existing /\ RowsOf(RolesOf(Boot)) = {}
               THEN grants \cup {Row(RolesOf(Boot), Admin, 0)} ELSE grants
  /\ UNCHANGED <<accounts, roles, groups, requests, trusted>>

Statement(c) ==
  \/ InsertUser(c) \/ InsertRole(c) \/ InsertGroup(c)
  \/ UpdateRoleRow(c) \/ UpdateGroupRow(c)
  \/ Look(c) \/ Delete(c) \/ Commit(c) \/ DropRole(c) \/ DropGroup(c)
  \/ EraseUser(c) \/ DeleteUserGrants(c)

Small(S) == {T \in SUBSET S : Cardinality(T) <= MaxSet}

Start(c, a) ==
  /\ turn[c] = "idle" /\ requests < MaxRequests
  /\ RequirePermission(a, Manage)
  /\ \/ \E u \in Accounts :
          \/ \E R \in Small(CustomRoles \cup {Admin}) : PutRoles(c, a, u, R)
          \/ \E P \in Small(Perms) : PutPermissions(c, a, u, P)
          \/ DeleteUser(c, a, u) \/ CreateUser(c, a, u)
     \/ \E r \in CustomRoles :
          \/ DeleteRole(c, a, r)
          \/ \E P \in Small(Perms) : CreateRole(c, a, r, P) \/ UpdateRole(c, a, r, P)
     \/ \E g \in Groups :
          \/ DeleteGroup(c, a, g)
          \/ \E M \in Small(Accounts), R \in Small(CustomRoles \cup {Admin}) :
               CreateGroup(c, a, g, M, R) \/ UpdateGroup(c, a, g, M, R)

GNext ==
  \/ \E c \in Consoles : Statement(c) \/ GAbort(c) \/ \E a \in Accounts : Start(c, a)
  \/ Lapse \/ Restart

GSpec == GInit /\ [][GNext]_grantVars

----------------------------------------------------------------------------
(* Properties.                                                             *)

\* Whoever holds the admin role got it at the hands of administrators: every
\* such grant, and every member of a group that has the role, was written by a
\* request whose subject held the wildcard (putRoles, validateGroupInput and
\* the lock of the group's row in UpdateGroup).
AdminFromAdmins ==
  /\ \A u \in Accounts : \A x \in RowsOf(RolesOf(u)) : x.item = Admin => x.batch \in trusted
  /\ \A g \in Groups : Admin \in Items(RolesOfGroup(g)) =>
       \A x \in RowsOf(RolesOfGroup(g)) \cup RowsOf(MembersOf(g)) : x.batch \in trusted

\* The members and the roles of a group come from one and the same update, also
\* when two updates, or an update and the group's deletion, run at once
\* (UpdateGroup updates the group's row first).
GroupIsOneUpdate ==
  \A g \in Groups : groups[g] = "row" =>
    \A x, y \in RowsOf(MembersOf(g)) \cup RowsOf(RolesOfGroup(g)) : x.batch = y.batch

GroupRows(g) == RowsOf(MembersOf(g)) \cup RowsOf(RolesOfGroup(g))

\* What a request under way asks for: whoever grants the admin role held the
\* wildcard when she asked, and only requests about a group touch its sets.
CallShape(c) ==
  LET k == call[c]
      kinds == {"group", "createGroup", "dropGroup"} IN
  /\ k = [kind |-> k.kind, key |-> k.key, sets |-> k.sets, at |-> k.at, batch |-> k.batch]
  /\ \A n \in 1 .. Len(k.sets) :
       /\ k.sets[n][1][1] \in {"user_roles", "group_roles"} /\ Admin \in k.sets[n][2]
            => k.batch \in trusted
       /\ k.sets[n][1][1] \in {"user_group_members", "group_roles"} => k.kind \in kinds
  /\ k.kind \in kinds => k.key \in Groups /\ k.sets = GroupSets(k.key, k.sets[1][2], k.sets[2][2])
  /\ k.kind = "createGroup" => turn[c] = "insert"
  /\ k.kind = "group" =>
       /\ turn[c] \in {"row", "look", "delete", "commit"}
       /\ k.at \in {1, 2} /\ (turn[c] = "row" => k.at = 1)

GrantsTypeOK ==
  /\ groups \in [Groups -> {"none", "row", "deleted"}]
  /\ turn = [c \in Consoles |-> turn[c]] /\ call = [c \in Consoles |-> call[c]]
  /\ seen = [c \in Consoles |-> seen[c]] /\ taken = [c \in Consoles |-> taken[c]]
  /\ \A x \in grants : x = [of |-> x.of, item |-> x.item, batch |-> x.batch, live |-> x.live]
  /\ 0 \in trusted
  /\ \A c \in Consoles : turn[c] # "idle" => CallShape(c)

\* The rows of a group are of one update, whether or not it still exists.
OneUpdate ==
  \A g \in Groups :
    /\ \A x, y \in GroupRows(g) : x.batch = y.batch
    /\ groups[g] = "none" => GroupRows(g) = {}

\* Who has updated a group's row is alone with it, and what her DELETEs have
\* seen and taken of its two sets is all there is.
LockHeld ==
  \A g \in Groups : \A c \in Updating(g) :
    /\ groups[g] = "row" /\ Updating(g) = {c}
    /\ call[c].at = 2 => RowsOf(MembersOf(g)) \subseteq taken[c]
    /\ turn[c] = "delete" => RowsOf(call[c].sets[call[c].at][1]) \subseteq seen[c]
    /\ turn[c] = "commit" => call[c].at = 2 /\ RowsOf(RolesOfGroup(g)) \subseteq taken[c]

GrantsIInv == GrantsTypeOK /\ AdminFromAdmins /\ OneUpdate /\ LockHeld
=============================================================================
