-------------------------------- MODULE Access --------------------------------
(***************************************************************************)
(* Signing in with a password or a WeChat id, binding the two, and the     *)
(* audit log those calls and the changes of its retention write.  Every    *)
(* statement runs with the request's context: once the client is gone the  *)
(* next one fails, the row of the audit log too.                           *)
(***************************************************************************)
EXTENDS Naturals, Sequences

CONSTANTS
  Members,     \* accounts
  WeChatIds,
  Phones,      \* clients
  Windows,     \* days a log row may be kept
  NoId, Quiet,
  MaxCalls,    \* bound: calls begun
  MaxDays      \* bound: days that pass

Policies == [enabled : BOOLEAN, days : Windows]

\* A call and what it has still to do.
Kinds == {"login", "wxlogin", "bind", "unbind", "settings"}
Statements == {"password", "code", "find", "account", "bind", "unbind", "settings", "record"}
OpenCalls ==
  [n : Nat, kind : Kinds, user : Members \cup {Quiet}, id : WeChatIds \cup {NoId},
   ok : BOOLEAN, gone : BOOLEAN, todo : Seq(Statements)]

ASSUME AccessAssumption ==
  /\ MaxCalls \in Nat /\ MaxDays \in Nat /\ Windows \subseteq Nat \ {0}
  /\ Quiet \notin OpenCalls /\ Quiet \notin Policies /\ NoId \notin WeChatIds

VARIABLES
  present,   \* accounts that exist
  openid,    \* users.openid, NULL is NoId
  sign,      \* the call each client has open
  calls,     \* calls begun so far
  logs,      \* system_logs: call, kind, account, whether it says success, age in days
  policy,    \* system_settings: enabled, days
  purge,     \* the policy a purge has read and not yet applied, or Quiet
  today,
  changed,   \* history: calls that changed something
  holder,    \* history: the call that gave each account the id it has, 0 for none
  ended,     \* history: bindings that an unbinding or a deletion took back
  since      \* history: policies in force since the last purge read one

bindings == <<openid, holder, ended>>
accessVars == <<present, bindings, sign, calls, logs, policy, purge, today, changed, since>>

AccessInit ==
  /\ present = Members
  /\ openid = [u \in Members |-> NoId]
  /\ sign = [p \in Phones |-> Quiet] /\ calls = 0
  /\ logs = {} /\ policy \in Policies /\ purge = Quiet /\ today = 0
  /\ changed = {} /\ holder = [u \in Members |-> 0] /\ ended = {} /\ since = {policy}

\* A call is the list of what it still has to do; nothing after its client left.
Stage(p, what) == sign[p] # Quiet /\ ~sign[p].gone /\ Head(sign[p].todo) = what
Advance(p) == sign' = [sign EXCEPT ![p].todo = Tail(@)]
Answer(p) == sign' = [sign EXCEPT ![p] = Quiet]
\* Refused, which the log is told.
Refuse(p) == sign' = [sign EXCEPT ![p].todo = <<"record">>, ![p].ok = FALSE]

BeginCall(p, kind, u, id, todo) ==
  /\ sign[p] = Quiet /\ calls < MaxCalls /\ calls' = calls + 1
  /\ sign' = [sign EXCEPT ![p] = [n |-> calls + 1, kind |-> kind, user |-> u, id |-> id,
                                 ok |-> TRUE, gone |-> FALSE, todo |-> todo]]
  /\ UNCHANGED <<present, bindings, logs, policy, purge, today, changed, since>>

\* The handlers.  A binding consumes the WeChat code only after the password.
Login(p, u) == BeginCall(p, "login", u, NoId, <<"password", "record">>)
WxLogin(p, id) == BeginCall(p, "wxlogin", Quiet, id, <<"code", "find", "record">>)
WxBind(p, u, id) == BeginCall(p, "bind", u, id, <<"password", "code", "bind", "record">>)
WxUnbind(p, u) == BeginCall(p, "unbind", u, NoId, <<"account", "unbind", "record">>)
PutSettings(p) == BeginCall(p, "settings", Quiet, NoId, <<"settings", "record">>)

----------------------------------------------------------------------------
(* Statements.                                                             *)

\* The account may be unknown or the password wrong.
Authenticate(p) ==
  /\ Stage(p, "password")
  /\ Refuse(p) \/ (sign[p].user \in present /\ Advance(p))
  /\ UNCHANGED <<present, bindings, calls, logs, policy, purge, today, changed, since>>

\* code2session of WeChat: a code it refuses is answered without a row.
CodeToOpenid(p) ==
  /\ Stage(p, "code")
  /\ Answer(p) \/ Advance(p)
  /\ UNCHANGED <<present, bindings, calls, logs, policy, purge, today, changed, since>>

GetByOpenid(p) ==
  /\ Stage(p, "find")
  /\ IF \E u \in present : openid[u] = sign[p].id THEN Advance(p) ELSE Refuse(p)
  /\ UNCHANGED <<present, bindings, calls, logs, policy, purge, today, changed, since>>

Bindable(u, id) == u \in present /\ openid[u] = NoId /\ \A v \in present : openid[v] # id

\* What a binding and the end of one do to the account, and who did it.
Bind(u, id, n) ==
  /\ openid' = [openid EXCEPT ![u] = id]
  /\ holder' = [holder EXCEPT ![u] = n]
  /\ UNCHANGED ended
Release(u) ==
  /\ openid' = [openid EXCEPT ![u] = NoId]
  /\ holder' = [holder EXCEPT ![u] = 0]
  /\ ended' = ended \cup ({holder[u]} \ {0})

\* Mistake: the update does not ask whether the account has an id already.
BindOpenidAnyway(p) ==
  LET u == sign[p].user
      id == sign[p].id IN
  /\ Stage(p, "bind")
  /\ IF u \in present /\ \A v \in present \ {u} : openid[v] # id
     THEN Bind(u, id, sign[p].n) /\ changed' = changed \cup {sign[p].n} /\ Advance(p)
     ELSE Answer(p) /\ UNCHANGED <<bindings, changed>>
  /\ UNCHANGED <<present, calls, logs, policy, purge, today, since>>

\* The update asks that the account has no id; the index, that no account has this one.
BindOpenid(p) ==
  /\ Stage(p, "bind")
  /\ IF Bindable(sign[p].user, sign[p].id)
     THEN /\ Bind(sign[p].user, sign[p].id, sign[p].n)
          /\ changed' = changed \cup {sign[p].n} /\ Advance(p)
     ELSE Answer(p) /\ UNCHANGED <<bindings, changed>>
  /\ UNCHANGED <<present, calls, logs, policy, purge, today, since>>

\* The token names an account that may be gone.
ByUsername(p) ==
  /\ Stage(p, "account")
  /\ IF sign[p].user \in present THEN Advance(p) ELSE Answer(p)
  /\ UNCHANGED <<present, bindings, calls, logs, policy, purge, today, changed, since>>

\* Nobody asks how many rows the update changed: none, when the account has no
\* id or is gone by now, is a success too.
UnbindOpenid(p) ==
  LET u == sign[p].user IN
  /\ Stage(p, "unbind") /\ Advance(p)
  /\ Release(u)
  /\ changed' = IF openid[u] = NoId THEN changed ELSE changed \cup {sign[p].n}
  /\ UNCHANGED <<present, calls, logs, policy, purge, today, since>>

\* Settings out of range, a caller without the permission and a statement that
\* fails are logged by the middleware, which writes a row whatever the answer;
\* the statement may have been committed all the same.
RefuseSettings(p) ==
  /\ Stage(p, "settings") /\ Refuse(p)
  /\ UNCHANGED <<present, bindings, calls, logs, policy, purge, today, changed, since>>

WritePolicy(p) ==
  /\ policy' \in Policies /\ since' = since \cup {policy'}
  /\ changed' = changed \cup {sign[p].n}
  /\ UNCHANGED <<present, bindings, calls, logs, purge, today>>

UpdateSettings(p) == Stage(p, "settings") /\ (Advance(p) \/ Refuse(p)) /\ WritePolicy(p)

Insert(p) ==
  /\ Stage(p, "record") /\ Answer(p)
  /\ logs' = logs \cup {[call |-> sign[p].n, kind |-> sign[p].kind, user |-> sign[p].user,
                        ok |-> sign[p].ok, age |-> 0]}
  /\ UNCHANGED <<present, bindings, calls, policy, purge, today, changed, since>>

\* The client goes away, or a statement fails: the next one ends the call.
HangUp(p) ==
  /\ sign[p] # Quiet
  /\ IF sign[p].gone THEN Answer(p) ELSE sign' = [sign EXCEPT ![p].gone = TRUE]
  /\ UNCHANGED <<present, bindings, calls, logs, policy, purge, today, changed, since>>

DeleteMember(u) ==
  /\ u \in present /\ present' = present \ {u}
  /\ Release(u)
  /\ UNCHANGED <<sign, calls, logs, policy, purge, today, changed, since>>

NextDay ==
  /\ today < MaxDays /\ today' = today + 1
  /\ logs' = {[r EXCEPT !.age = @ + 1] : r \in logs}
  /\ UNCHANGED <<present, bindings, sign, calls, policy, purge, changed, since>>

\* Mistake: the purge reads whether it is enabled, and keeps rows for days of its own.
ReadPolicyOnce == /\ purge = Quiet /\ policy.enabled /\ purge' = CHOOSE s \in Policies : s.enabled
                  /\ since' = {policy}
                  /\ UNCHANGED <<present, bindings, sign, calls, logs, policy, today, changed>>

\* PurgeExpired reads the settings, and deletes by them in a statement of its own.
ReadPolicy == /\ purge = Quiet /\ policy.enabled /\ purge' = policy
              /\ since' = {policy}
              /\ UNCHANGED <<present, bindings, sign, calls, logs, policy, today, changed>>
PurgeExpired == /\ purge # Quiet /\ purge' = Quiet
                /\ logs' \in {logs, {r \in logs : r.age <= purge.days}}
                /\ UNCHANGED <<present, bindings, sign, calls, policy, today, changed, since>>
RunRetentionLoop == ReadPolicy \/ PurgeExpired

Handlers(p) ==
  \/ \E u \in Members : Login(p, u) \/ WxUnbind(p, u) \/ \E id \in WeChatIds : WxBind(p, u, id)
  \/ \E id \in WeChatIds : WxLogin(p, id)
  \/ PutSettings(p)

AccessNext ==
  \/ \E p \in Phones : \/ Handlers(p) \/ Authenticate(p) \/ CodeToOpenid(p) \/ GetByOpenid(p)
                       \/ BindOpenid(p) \/ ByUsername(p) \/ UnbindOpenid(p)
                       \/ UpdateSettings(p) \/ RefuseSettings(p) \/ Insert(p) \/ HangUp(p)
  \/ \E u \in Members : DeleteMember(u)
  \/ NextDay \/ RunRetentionLoop

AccessSpec == AccessInit /\ [][AccessNext]_accessVars

----------------------------------------------------------------------------
(* Properties.                                                             *)

\* The binding of account u by call n took place, and stands unless an unbinding
\* or a deletion took it back.
BoundBy(n, u) == n \in ended \/ (holder[u] = n /\ openid[u] # NoId)

\* The audit log tells the truth about bindings and settings, whatever calls
\* overlap: no call has two rows; a row that says an account was bound is of the
\* call whose id the account has, until it is unbound or deleted; a row that says
\* the settings were changed is of a call that changed them.  (A change without a
\* row there may be: its client left in between.  The row of an unbinding tells
\* nothing: UnbindOpenid does not ask whether its UPDATE changed a row.)
AuditTellsTheTruth ==
  /\ \A r, o \in logs : r.call = o.call => r = o
  /\ \A r \in logs : r.ok /\ r.kind = "bind" => BoundBy(r.call, r.user)
  /\ \A r \in logs : r.ok /\ r.kind = "settings" => r.call \in changed

\* A row leaves the log only because a policy that is in force when the purge
\* reads the settings, or since, is enabled and has let it expire: no purge goes
\* by settings that were replaced before it began (PurgeExpired).
OnlyExpiredRowsGo ==
  [][\A r \in logs : (\A o \in logs' : o.call # r.call) =>
        \E s \in since : s.enabled /\ r.age > s.days]_accessVars

AccessTypeOK ==
  /\ calls \in Nat
  /\ sign \in [Phones -> OpenCalls \cup {Quiet}]
  /\ logs \subseteq [call : Nat, kind : Kinds, user : Members \cup {Quiet}, ok : BOOLEAN, age : Nat]
  /\ \A r \in logs : r.kind = "bind" => r.user \in Members
  /\ holder \in [Members -> Nat] /\ openid = [u \in Members |-> openid[u]]
  /\ since \subseteq Policies /\ policy \in since
  /\ purge \in {s \in since : s.enabled} \cup {Quiet}

\* Calls are numbered: no two that are open have one number, and no row of the
\* log is of a call that is open.
Numbered ==
  /\ \A r \in logs : r.call \in 1 .. calls
  /\ \A p \in Phones : sign[p] # Quiet =>
       /\ sign[p].n \in 1 .. calls
       /\ \A r \in logs : r.call # sign[p].n
       /\ \A q \in Phones \ {p} : sign[q] # Quiet => sign[q].n # sign[p].n

\* The call that an account has its id of has been made.
HeldByCalls == \A u \in Members : /\ holder[u] \in 0 .. calls
                                  /\ openid[u] # NoId <=> holder[u] # 0

\* A call binds or unbinds only if it is of that kind, and then names an account.
FitsKind(s) ==
  /\ s.kind \in {"bind", "unbind"} => s.user \in Members
  /\ s.kind = "bind" => s.id \in WeChatIds
  /\ \A i \in 1 .. Len(s.todo) : s.todo[i] \in {"bind", "unbind"} => s.todo[i] = s.kind

\* The row of the log is the last thing a call does, and a call that may still
\* say it changed something has changed it or has the statement ahead.
RecordLast ==
  \A p \in Phones : sign[p] # Quiet =>
    LET s == sign[p]
        ahead == \E i \in 1 .. Len(s.todo) : s.todo[i] = s.kind IN
    /\ s.todo # <<>>
    /\ \A i \in 1 .. Len(s.todo) : s.todo[i] = "record" <=> i = Len(s.todo)
    /\ FitsKind(s)
    /\ s.ok /\ s.kind = "bind" => ahead \/ BoundBy(s.n, s.user)
    /\ s.ok /\ s.kind = "settings" => ahead \/ s.n \in changed

AccessIInv == AccessTypeOK /\ AuditTellsTheTruth /\ Numbered /\ HeldByCalls /\ RecordLast
=============================================================================
