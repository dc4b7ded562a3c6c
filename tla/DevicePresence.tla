--------------------------- MODULE DevicePresence ---------------------------
(***************************************************************************)
(* What the registry knows of a device: the latest state it reported and   *)
(* whether it is online.  The SDK keeps the latest state and publishes it  *)
(* retained, again on every connection; the broker keeps the retained      *)
(* copy and hands it out whenever the backend subscribes; the backend's    *)
(* consumer applies messages one by one, each with several statements,     *)
(* beside the console's requests and the presence loop.  A connection that *)
(* is lost makes the broker publish the source's will.                     *)
(* One device of one source: rows of other devices are not touched.        *)
(***************************************************************************)
EXTENDS Naturals, Sequences, SequencesExt

CONSTANTS
  MaxState,     \* bound on the states a device reports
  OnlineTTL,    \* freshness of a report, in ticks
  MaxResubscribe, \* bound on the backend's reconnections
  MaxRemovals,  \* bound on deletions of the device
  MaxQueue      \* bound on messages under way

ASSUME PresenceAssumption == {MaxState, OnlineTTL, MaxResubscribe, MaxRemovals, MaxQueue} \subseteq Nat

VARIABLES
  age,          \* age[v]: ticks since the time reported with state v; everything
                \* older than OnlineTTL has the same age
  latest,       \* the SDK's latest[deviceID]: a state number, 0 before the first
  publishing,   \* the PublishState between its two halves: 0 or its state
  replay,       \* the snapshot onConnect has still to publish: 0 or a state
  wire,         \* states the SDK's MQTT client has to send
  source,       \* the source's connection: up, lost (the broker waits), or down
  retained,     \* the state the broker retains
  inbox,        \* what the broker queues for the backend
  job,          \* the message the consumer works on and its next statement
  listed,       \* the iot_devices row
  removals,     \* deletions so far, so the number of the next row
  resubscribed, \* reconnections of the backend so far
  crossed,      \* history: the state handed over last was not the latest
  mislaid       \* history: a report was lost to a deletion or a failing statement,
                \* and the latest state was not applied since

sdkVars == <<latest, publishing, replay, age>>
netVars == <<wire, source, retained>>
dbVars == <<listed, removals>>
historyVars == <<crossed, mislaid>>
pVars == <<sdkVars, netVars, inbox, job, dbVars, resubscribed, historyVars>>

States == 1..MaxState
Ages == 0..(OnlineTTL + 1)
StateMsg(v) == [kind |-> "state", v |-> v]
Messages == [kind : {"state"}, v : States] \cup [kind : {"event", "will"}, v : {0}]
EventMsg == [kind |-> "event", v |-> 0]
WillMsg == [kind |-> "will", v |-> 0]
NoRow == [id |-> 0, status |-> "none", state |-> 0, seen |-> 0]
NoJob == [step |-> "none", msg |-> WillMsg, id |-> 0]
JobSteps == {"none", "insert", "update", "create"}

PInit ==
  /\ age = [v \in States |-> OnlineTTL + 1]
  /\ latest = 0 /\ publishing = 0 /\ replay = 0
  /\ wire = <<>> /\ source = "down" /\ retained = 0
  /\ inbox = <<>> /\ job = NoJob
  /\ listed = NoRow /\ removals = 0
  /\ resubscribed = 0
  /\ crossed = FALSE /\ mislaid = FALSE

----------------------------------------------------------------------------
(* The device and its SDK.                                                 *)

\* PublishState, up to the unlock: the state is the latest one.
PublishState ==
  /\ publishing = 0 /\ latest < MaxState
  /\ latest' = latest + 1
  /\ age' = [age EXCEPT ![latest + 1] = 0]
  /\ publishing' = latest + 1
  /\ UNCHANGED <<replay, netVars, inbox, job, dbVars, resubscribed, historyVars>>

\* Then it is handed to the MQTT client, which keeps it until it is sent.
SendState ==
  /\ publishing # 0 /\ Len(wire) < MaxQueue
  /\ wire' = Append(wire, publishing)
  /\ publishing' = 0
  /\ crossed' = FALSE
  /\ UNCHANGED <<latest, age, replay, source, retained, inbox, job, dbVars, resubscribed, mislaid>>

\* onConnect takes its snapshot under the lock; taking over a connection the
\* broker has not given up yet may publish its will.
Reconnect ==
  /\ source # "up" /\ replay = 0
  /\ source' = "up"
  /\ replay' = latest
  /\ IF source = "lost" /\ Len(inbox) < MaxQueue
     THEN inbox' \in {inbox, Append(inbox, WillMsg)}
     ELSE UNCHANGED inbox
  /\ UNCHANGED <<latest, age, publishing, wire, retained, job, dbVars, resubscribed, historyVars>>

\* The snapshot is published after the unlock: a newer state may have been
\* handed over before it.
Replay ==
  /\ replay # 0 /\ Len(wire) < MaxQueue
  /\ wire' = Append(wire, replay)
  /\ replay' = 0
  /\ crossed' = (replay # latest /\ publishing = 0)
  /\ UNCHANGED <<latest, age, publishing, source, retained, inbox, job, dbVars, resubscribed, mislaid>>

\* The broker stores the state, retained, and queues it for the backend; it may
\* be sent twice when the PUBACK is lost.
Accept ==
  /\ source = "up" /\ wire # <<>> /\ Len(inbox) < MaxQueue
  /\ retained' = Head(wire)
  /\ inbox' = Append(inbox, StateMsg(Head(wire)))
  /\ wire' \in {wire, Tail(wire)}
  /\ UNCHANGED <<sdkVars, source, job, dbVars, resubscribed, historyVars>>

\* An event does not change presence; it may be the first sign of a device.
AcceptEvent ==
  /\ source = "up" /\ Len(inbox) < MaxQueue
  /\ EventMsg \notin ToSet(inbox)
  /\ inbox' = Append(inbox, EventMsg)
  /\ UNCHANGED <<sdkVars, netVars, job, dbVars, resubscribed, historyVars>>

ConnectionBreaks ==
  /\ source = "up"
  /\ source' = "lost"
  /\ UNCHANGED <<sdkVars, wire, retained, inbox, job, dbVars, resubscribed, historyVars>>

\* Close: an orderly DISCONNECT, after which the broker discards the will.
Close ==
  /\ source = "up" /\ publishing = 0 /\ replay = 0
  /\ source' = "down"
  /\ UNCHANGED <<sdkVars, wire, retained, inbox, job, dbVars, resubscribed, historyVars>>

\* The broker misses the keep-alive and publishes the will.
WillFires ==
  /\ source = "lost" /\ Len(inbox) < MaxQueue
  /\ source' = "down"
  /\ inbox' = Append(inbox, WillMsg)
  /\ UNCHANGED <<sdkVars, wire, retained, job, dbVars, resubscribed, historyVars>>

Older(a) == IF a > OnlineTTL THEN a ELSE a + 1

Tick ==
  /\ age' = [v \in States |-> Older(age[v])]
  /\ listed' = [listed EXCEPT !.seen = IF listed = NoRow THEN @ ELSE Older(@)]
  /\ UNCHANGED <<latest, publishing, replay, netVars, inbox, job, removals, resubscribed, historyVars>>

----------------------------------------------------------------------------
(* The backend's consumer: one message after another.  Its session is      *)
(* persistent: the broker queues while it is away.                         *)

\* onConnect subscribes again and is sent the retained state once more.
Resubscribe ==
  /\ resubscribed < MaxResubscribe /\ Len(inbox) < MaxQueue
  /\ resubscribed' = resubscribed + 1
  /\ inbox' = IF retained = 0 THEN inbox ELSE Append(inbox, StateMsg(retained))
  /\ UNCHANGED <<sdkVars, netVars, job, dbVars, historyVars>>

\* A message leaves the broker when its handler has returned.
Taken == inbox' = Tail(inbox)
Take(kind) == inbox # <<>> /\ Head(inbox).kind = kind /\ job = NoJob

\* handleState / UpsertState: the row is looked up.
HandleState ==
  /\ Take("state")
  /\ job' = [step |-> IF listed = NoRow THEN "insert" ELSE "update",
             msg |-> Head(inbox), id |-> listed.id]
  /\ UNCHANGED <<sdkVars, netVars, inbox, dbVars, resubscribed, historyVars>>

\* handleEvent / EnsureDevice: the same, for a row that must exist.  An event of
\* a known device is inserted (module EventQueue) and changes nothing here.
HandleEventOf ==
  /\ Take("event")
  /\ IF listed = NoRow
     THEN job' = [step |-> "create", msg |-> Head(inbox), id |-> 0] /\ UNCHANGED inbox
     ELSE Taken /\ UNCHANGED job
  /\ UNCHANGED <<sdkVars, netVars, dbVars, resubscribed, historyVars>>

Missing(applied) == ~(applied /\ job.msg.v = latest) /\ (mislaid \/ ~applied)

\* The first report creates the row: pending until it is approved.
InsertDevice ==
  /\ job.step \in {"insert", "create"}
  /\ listed' = [id |-> removals + 1, status |-> "pending", state |-> job.msg.v,
                seen |-> IF job.step = "insert" THEN age[job.msg.v] ELSE 0]
  /\ mislaid' = Missing(TRUE)
  /\ job' = NoJob /\ Taken
  /\ UNCHANGED <<sdkVars, netVars, removals, resubscribed, crossed>>

\* Mistake: the report is stamped with the time of its arrival.
UpdateStateNow ==
  /\ job.step = "update"
  /\ listed' = IF listed.id # job.id THEN listed
                ELSE [listed EXCEPT !.state = job.msg.v, !.seen = 0,
                                     !.status = IF @ = "pending" THEN @ ELSE "online"]
  /\ mislaid' = Missing(listed.id = job.id)
  /\ job' = NoJob /\ Taken
  /\ UNCHANGED <<sdkVars, netVars, removals, resubscribed, crossed>>

\* updateState: UPDATE ... WHERE id, which finds nothing if the row was deleted
\* since it was looked up.
UpdateState ==
  /\ job.step = "update"
  /\ listed' = IF listed.id # job.id THEN listed
                ELSE [listed EXCEPT !.state = job.msg.v, !.seen = age[job.msg.v],
                                     !.status = IF @ = "pending" THEN @ ELSE "online"]
  /\ mislaid' = Missing(listed.id = job.id)
  /\ job' = NoJob /\ Taken
  /\ UNCHANGED <<sdkVars, netVars, removals, resubscribed, crossed>>

\* A statement fails or takes longer than five seconds: logged, and over.
HandlerFails ==
  /\ job # NoJob
  /\ job' = NoJob /\ Taken
  /\ mislaid' = TRUE
  /\ UNCHANGED <<sdkVars, netVars, dbVars, resubscribed, crossed>>

\* The process stops with the message unacknowledged: it is delivered again.
BackendStops ==
  /\ job # NoJob
  /\ job' = NoJob
  /\ UNCHANGED <<sdkVars, netVars, inbox, dbVars, resubscribed, historyVars>>

\* UPDATE ... SET status = offline WHERE status = online.
GoOffline == listed' = IF listed.status = "online" THEN [listed EXCEPT !.status = "offline"] ELSE listed

\* handleMeta: the will of a source takes all its online devices offline.
MarkSourceOffline ==
  /\ Take("will") /\ Taken
  /\ GoOffline
  /\ UNCHANGED <<sdkVars, netVars, job, removals, resubscribed, historyVars>>

----------------------------------------------------------------------------
(* The presence loop and the console.                                      *)

Fresh(r) == r.seen <= OnlineTTL

\* Mistake: the comparison is the wrong way round.
SweepFreshDevices ==
  /\ listed.status = "online" /\ Fresh(listed)
  /\ listed' = [listed EXCEPT !.status = "offline"]
  /\ UNCHANGED <<sdkVars, netVars, inbox, job, removals, resubscribed, historyVars>>

\* Online and not heard of for longer than the TTL.
SweepStaleDevices ==
  /\ listed.status = "online" /\ ~Fresh(listed)
  /\ GoOffline
  /\ UNCHANGED <<sdkVars, netVars, inbox, job, removals, resubscribed, historyVars>>

\* Approval derives presence from the last report; a claimed device keeps its
\* status.
ApproveReported ==
  /\ listed # NoRow /\ listed.status = "pending"
  /\ listed' = [listed EXCEPT !.status = IF Fresh(listed) THEN "online" ELSE "offline"]
  /\ UNCHANGED <<sdkVars, netVars, inbox, job, removals, resubscribed, crossed, mislaid>>

\* The third DELETE of DeleteDevice: the device is forgotten, not barred.
RemoveDevice ==
  /\ listed # NoRow /\ removals < MaxRemovals
  /\ listed' = NoRow
  /\ removals' = removals + 1
  /\ mislaid' = TRUE
  /\ UNCHANGED <<sdkVars, netVars, inbox, job, resubscribed, crossed>>

----------------------------------------------------------------------------
ConsumerStep ==
  \/ HandleState \/ HandleEventOf \/ InsertDevice \/ UpdateState
  \/ MarkSourceOffline \/ HandlerFails

PNext ==
  \/ PublishState \/ SendState \/ Reconnect \/ Replay
  \/ Accept \/ AcceptEvent \/ ConnectionBreaks \/ Close \/ WillFires
  \/ Resubscribe \/ ConsumerStep \/ BackendStops
  \/ SweepStaleDevices \/ ApproveReported \/ RemoveDevice \/ Tick

\* Time passes, the presence loop runs and the consumer keeps working: nothing
\* is assumed of the device, the broker or the operators.
PFairness == WF_pVars(Tick) /\ WF_pVars(SweepStaleDevices) /\ WF_pVars(ConsumerStep)

PSpec == PInit /\ [][PNext]_pVars /\ PFairness

----------------------------------------------------------------------------
(* Properties.                                                             *)

PTypeOK ==
  /\ age \in [States -> Ages]
  /\ latest \in 0 .. MaxState /\ {publishing, replay, retained} \subseteq 0 .. latest
  /\ wire \in Seq(1 .. latest) /\ source \in {"up", "lost", "down"}
  /\ inbox \in Seq(Messages) /\ \A i \in DOMAIN inbox : inbox[i].v <= latest
  /\ job \in [step : JobSteps, msg : Messages, id : Nat]
  /\ listed \in [id : Nat, status : {"none", "pending", "online", "offline"},
                 state : 0 .. latest, seen : Ages]
  /\ removals \in Nat /\ resubscribed \in Nat
  /\ crossed \in BOOLEAN /\ mislaid \in BOOLEAN

Quiet ==
  /\ publishing = 0 /\ replay = 0 /\ wire = <<>> /\ inbox = <<>> /\ job = NoJob

\* When nothing is under way any more the retained copy and the row show the
\* latest state and its time, through lost connections, replays, repetitions and
\* restarts - unless a replay was handed over behind a newer state, or the
\* report met a deletion or a failing statement.
Converges ==
  Quiet /\ latest # 0 /\ ~crossed
    => /\ retained = latest
       /\ mislaid \/ (listed.state = latest /\ listed.seen = age[latest])

\* A source that is gone for good is shown offline for good, however late its
\* retained states, its will and the operators' approvals come.
VanishedGoesOffline == <>[](source # "up") => <>[](listed.status # "online")

\* The state that was handed to the client last, on its way or retained.
HandedLast == IF wire = <<>> THEN retained ELSE Last(wire)

LatestIsHanded ==
  /\ publishing \in {0, latest}
  /\ publishing = 0 /\ latest # 0 /\ ~crossed => HandedLast = latest

\* The consumer works on the head of its queue, and alone creates rows.
JobIsHead ==
  /\ job.step = "none" => job = NoJob
  /\ job # NoJob => inbox # <<>> /\ job.msg = Head(inbox)
  /\ job.step \in {"insert", "update"} => job.msg.kind = "state"
  /\ job.step = "create" => job.msg.kind = "event"
  /\ job.step \in {"insert", "create"} => listed = NoRow
  /\ job.step = "update" => job.id # 0
  /\ listed.id = 0 => listed = NoRow

IsState(i) == inbox[i].kind = "state"

\* The last state on its way to the consumer is the retained one; when none is,
\* the row shows it.
RetainedIsLast ==
  /\ \A i \in DOMAIN inbox :
       IsState(i) /\ (\A k \in DOMAIN inbox : k > i => ~IsState(k)) => inbox[i].v = retained
  /\ (\A i \in DOMAIN inbox : ~IsState(i)) /\ retained # 0 /\ ~mislaid
       => listed.state = retained /\ listed.seen = age[retained]

PIInv == PTypeOK /\ LatestIsHanded /\ JobIsHead /\ RetainedIsLast

=============================================================================
