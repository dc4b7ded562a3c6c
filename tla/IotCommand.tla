----------------------------- MODULE IotCommand -----------------------------
(***************************************************************************)
(* The life of a device command: the console's request stores the row,     *)
(* publishes one frame through the MQTT broker and records the outcome;    *)
(* the device's SDK checks the deadline, runs the driver on a goroutine    *)
(* and acknowledges.  Frames and acks are QoS 1: they may be repeated,     *)
(* delayed for as long as the other side is away, and lost with a process  *)
(* that kept them in memory.  The presence sweep expires what is overdue,  *)
(* retention deletes old rows, and the device itself can be deleted.       *)
(* Time is one event per command, its deadline: the two clocks are assumed *)
(* to agree on it.                                                         *)
(***************************************************************************)
EXTENDS Naturals

CONSTANTS
  Commands,   \* command ids: 16 random bytes, so they never recur
  MaxRuns     \* bound on the driver goroutines of one command

ASSUME IotAssumption == MaxRuns \in Nat

VARIABLES
  device,     \* the registry row of the device the commands are for
  removal,    \* the next statement of a DeleteDevice under way
  row,        \* status of each iot_commands row
  caller,     \* the next step of the request that issued each command
  overdue,    \* commands whose expires_at has passed
  outbox,     \* the frame of each command in the backend's MQTT client: none
              \* (not there or acknowledged), out, or sent at least once
  frames,     \* frames the broker holds for the device
  running,    \* driver goroutines of each command
  acks,       \* acks buffered, at the broker or on their way to the backend
  reported    \* history: every ack the device ever produced

vars == <<device, removal, row, caller, overdue, outbox, frames, running, acks, reported>>
deviceVars == <<device, removal>>
wireVars == <<outbox, frames, running, acks, reported>>

RowStatus == {"none", "queued", "delivered", "acked", "failed", "expired", "deleted"}
Outcomes == {"acked", "failed"}
Live == {"queued", "delivered"}
CallerSteps == {"none", "publish", "wait", "mark", "fail", "done", "failed"}

Init ==
  /\ device = "pending"
  /\ removal = "none"
  /\ row = [c \in Commands |-> "none"]
  /\ caller = [c \in Commands |-> "none"]
  /\ overdue = {}
  /\ outbox = [c \in Commands |-> "none"]
  /\ frames = {}
  /\ running = [c \in Commands |-> 0]
  /\ acks = {}
  /\ reported = {}

----------------------------------------------------------------------------
(* The registry row.                                                       *)

ApproveDevice ==
  /\ device = "pending"
  /\ device' = "claimed"
  /\ UNCHANGED <<removal, row, caller, overdue, wireVars>>

\* Three DELETEs without a transaction: events (not modelled), commands, device.
DeleteDevice ==
  /\ device # "gone" /\ removal = "none"
  /\ removal' = "commands"
  /\ UNCHANGED <<device, row, caller, overdue, wireVars>>

DeleteCommands ==
  /\ removal = "commands"
  /\ removal' = "device"
  /\ row' = [c \in Commands |-> IF row[c] = "none" THEN "none" ELSE "deleted"]
  /\ UNCHANGED <<device, caller, overdue, wireVars>>

DeleteDeviceRow ==
  /\ removal = "device"
  /\ removal' = "none"
  /\ device' = "gone"
  /\ UNCHANGED <<row, caller, overdue, wireVars>>

\* A failing statement: what was deleted stays deleted.
DeleteFails ==
  /\ removal # "none"
  /\ removal' = "none"
  /\ UNCHANGED <<device, row, caller, overdue, wireVars>>

----------------------------------------------------------------------------
(* The request.                                                            *)

\* transitionCommand: UPDATE ... WHERE command_id AND status IN from.
Transition(c, from, to) ==
  row' = IF row[c] \in from THEN [row EXCEPT ![c] = to] ELSE row

CallerAt(c, here, next) ==
  /\ caller[c] = here
  /\ caller' = [caller EXCEPT ![c] = next]

\* The device is loaded and tested first; the insert does not ask again.
LoadDevice(c) ==
  /\ device = "claimed"
  /\ row[c] = "none"
  /\ CallerAt(c, "none", "publish")
  /\ UNCHANGED <<deviceVars, row, overdue, wireVars>>

\* The insert, and the frame is handed to the MQTT client: it stays there until
\* the broker acknowledges it, whether or not the request still waits for that.
InsertCommand(c) ==
  /\ \/ /\ CallerAt(c, "publish", "wait")
        /\ row' = [row EXCEPT ![c] = "queued"]
        /\ outbox' = [outbox EXCEPT ![c] = "out"]
     \/ /\ CallerAt(c, "publish", "fail")     \* the client is not connected
        /\ row' = [row EXCEPT ![c] = "queued"]
        /\ UNCHANGED outbox
     \/ /\ CallerAt(c, "publish", "done")     \* the INSERT, or reading it back, fails
        /\ row' \in {row, [row EXCEPT ![c] = "queued"]}
        /\ UNCHANGED outbox
  /\ UNCHANGED <<deviceVars, overdue, frames, running, acks, reported>>

\* QoS 1: sent again until acknowledged.
Transmit(c) ==
  /\ outbox[c] # "none"
  /\ outbox' = [outbox EXCEPT ![c] = "sent"]
  /\ frames' = frames \cup {c}
  /\ UNCHANGED <<deviceVars, row, caller, overdue, running, acks, reported>>

\* The PUBACK may come before or after the device has acted on the frame.
Puback(c) ==
  /\ outbox[c] = "sent"
  /\ outbox' = [outbox EXCEPT ![c] = "none"]
  /\ caller' = [caller EXCEPT ![c] = IF @ = "wait" THEN "mark" ELSE @]
  /\ UNCHANGED <<deviceVars, row, overdue, frames, running, acks, reported>>

\* WaitTimeout(5s): the frame stays in the client's store.
PublishTimeout(c) ==
  /\ CallerAt(c, "wait", "fail")
  /\ UNCHANGED <<deviceVars, row, overdue, wireVars>>

\* An ack or the sweep may have settled the row first: then nothing changes.
MarkCommandPublished(c) ==
  /\ CallerAt(c, "mark", "done")
  /\ Transition(c, {"queued"}, "delivered") \/ UNCHANGED row   \* or the UPDATE fails
  /\ UNCHANGED <<deviceVars, overdue, wireVars>>

FailCommand(c) ==
  /\ CallerAt(c, "fail", "failed")
  /\ Transition(c, Live, "failed") \/ UNCHANGED row            \* its error is ignored
  /\ UNCHANGED <<deviceVars, overdue, wireVars>>

\* The backend stops: requests and the MQTT client's memory are gone, the rows
\* stay as they are.
BackendCrash ==
  /\ caller' = [c \in Commands |-> IF caller[c] \in {"none", "failed"} THEN caller[c] ELSE "done"]
  /\ outbox' = [c \in Commands |-> "none"]
  /\ removal' = "none"
  /\ UNCHANGED <<device, row, overdue, frames, running, acks, reported>>

----------------------------------------------------------------------------
(* The device.                                                             *)

Report(c, o) ==
  /\ acks' = acks \cup {<<c, o>>}
  /\ reported' = reported \cup {<<c, o>>}

\* Mistake: the SDK trusts the broker to hold back what has expired.
OnCommandUnchecked(c) ==
  /\ c \in frames
  /\ frames' \in {frames, frames \ {c}}
  /\ running[c] < MaxRuns
  /\ running' = [running EXCEPT ![c] = @ + 1]
  /\ UNCHANGED <<deviceVars, row, caller, overdue, outbox, acks, reported>>

\* A frame arrives, perhaps not for the last time.  Expired commands are acked
\* failed; the others are given to the driver, a repeated one once more.
OnCommand(c) ==
  /\ c \in frames
  /\ frames' \in {frames, frames \ {c}}
  /\ \/ /\ c \in overdue
        /\ Report(c, "failed")
        /\ UNCHANGED running
     \/ /\ c \notin overdue
        /\ running[c] < MaxRuns
        /\ running' = [running EXCEPT ![c] = @ + 1]
        /\ UNCHANGED <<acks, reported>>
  /\ UNCHANGED <<deviceVars, row, caller, overdue, outbox>>

\* The driver returns, or panics, which is acked failed.
DriverDone(c) ==
  /\ running[c] > 0
  /\ running' = [running EXCEPT ![c] = @ - 1]
  /\ \E o \in Outcomes : Report(c, o)
  /\ UNCHANGED <<deviceVars, row, caller, overdue, outbox, frames>>

DeviceCrash ==
  /\ \E c \in Commands : running[c] > 0
  /\ running' = [c \in Commands |-> 0]
  /\ UNCHANGED <<deviceVars, row, caller, overdue, outbox, frames, acks, reported>>

----------------------------------------------------------------------------
(* Acks, the loops of the backend, loss and time.                          *)

\* Mistake: any ack counts as success.
AckIsSuccess(c, o) ==
  /\ <<c, o>> \in acks
  /\ acks' \in {acks, acks \ {<<c, o>>}}
  /\ Transition(c, Live, "acked")
  /\ UNCHANGED <<deviceVars, caller, overdue, outbox, frames, running, reported>>

\* Late, repeated and unknown acks change nothing.
ApplyAck(c, o) ==
  /\ <<c, o>> \in acks
  /\ acks' \in {acks, acks \ {<<c, o>>}}
  /\ Transition(c, Live, o)
  /\ UNCHANGED <<deviceVars, caller, overdue, outbox, frames, running, reported>>

Lose ==
  /\ \/ /\ \E a \in acks : acks' = acks \ {a}
        /\ UNCHANGED frames
     \/ /\ \E c \in frames : frames' = frames \ {c}
        /\ UNCHANGED acks
  /\ UNCHANGED <<deviceVars, row, caller, overdue, outbox, running, reported>>

Deadline(c) ==
  /\ row[c] # "none" /\ c \notin overdue
  /\ overdue' = overdue \cup {c}
  /\ UNCHANGED <<deviceVars, row, caller, wireVars>>

\* Mistake: the sweep forgets what the broker accepted.
ExpireQueuedOnly ==
  /\ \E c \in overdue : row[c] = "queued"
  /\ row' = [c \in Commands |->
               IF c \in overdue /\ row[c] = "queued" THEN "expired" ELSE row[c]]
  /\ UNCHANGED <<deviceVars, caller, overdue, wireVars>>

ExpireCommands ==
  /\ \E c \in overdue : row[c] \in Live
  /\ row' = [c \in Commands |->
               IF c \in overdue /\ row[c] \in Live THEN "expired" ELSE row[c]]
  /\ UNCHANGED <<deviceVars, caller, overdue, wireVars>>

\* Rows beyond the retention window, which is longer than any deadline.
PurgeExpired ==
  \E old \in SUBSET {c \in overdue : row[c] \notin {"none", "deleted"}} :
    /\ old # {}
    /\ row' = [c \in Commands |-> IF c \in old THEN "deleted" ELSE row[c]]
    /\ UNCHANGED <<deviceVars, caller, overdue, wireVars>>

----------------------------------------------------------------------------
Request(c) ==
  InsertCommand(c) \/ PublishTimeout(c) \/ MarkCommandPublished(c) \/ FailCommand(c)

Removal == DeleteCommands \/ DeleteDeviceRow

Next ==
  \/ ApproveDevice \/ DeleteDevice \/ Removal \/ DeleteFails
  \/ BackendCrash \/ DeviceCrash \/ Lose \/ ExpireCommands \/ PurgeExpired
  \/ \E c \in Commands :
       \/ LoadDevice(c) \/ Request(c) \/ Transmit(c) \/ Puback(c)
       \/ OnCommand(c) \/ DriverDone(c) \/ Deadline(c)
       \/ \E o \in Outcomes : ApplyAck(c, o)

Spec == Init /\ [][Next]_vars

\* A request keeps executing, time passes and the presence loop runs every
\* minute.  Nothing is assumed of the broker or the device.
Fairness ==
  /\ WF_vars(ExpireCommands)
  /\ \A c \in Commands : WF_vars(Request(c)) /\ WF_vars(Deadline(c))

FairSpec == Spec /\ Fairness

----------------------------------------------------------------------------
(* Properties.                                                             *)

TypeOK ==
  /\ device \in {"pending", "claimed", "gone"}
  /\ removal \in {"none", "commands", "device"}
  /\ row \in [Commands -> RowStatus]
  /\ caller \in [Commands -> CallerSteps]
  /\ overdue \subseteq Commands
  /\ outbox \in [Commands -> {"none", "out", "sent"}]
  /\ frames \subseteq Commands
  /\ running \in [Commands -> 0..MaxRuns]
  /\ acks \subseteq Commands \X Outcomes
  /\ reported \subseteq Commands \X Outcomes

\* A row says acked only of a command whose driver said so, and failed only of
\* one the device refused or the backend gave up on: neither the sweep, a late
\* PUBACK nor another command's ack ends up in it (iot/store.go ApplyAck).
OutcomeIsHonest ==
  \A c \in Commands :
    /\ row[c] = "acked" => <<c, "acked">> \in reported
    /\ row[c] = "failed" => <<c, "failed">> \in reported \/ caller[c] = "failed"

\* What is settled stays settled until the row is deleted: no late, repeated or
\* reordered ack, PUBACK or sweep resurrects or rewrites it (the status
\* predicates of transitionCommand and ExpireCommands).
SettledIsFinal ==
  [][\A c \in Commands :
       row[c] \in {"acked", "failed", "expired"} => row'[c] \in {row[c], "deleted"}]_vars

\* A command the console shows as expired does not reach the driver any more,
\* however long the broker kept its frame: the sweep and the SDK decide by the
\* same deadline (iot/spec/spec.md section 5, mqttc/client.go onCommand).
ExpiredNeverFires ==
  [][\A c \in Commands : row[c] = "expired" => running'[c] <= running[c]]_vars

\* The strengthening that makes both inductive.
IInv ==
  /\ TypeOK
  /\ OutcomeIsHonest
  /\ acks \subseteq reported
  /\ \A c \in Commands :
       /\ row[c] = "expired" => c \in overdue
       /\ caller[c] \in {"none", "publish"} => row[c] = "none"

\* Every command gets an outcome, with the broker or the device away for good,
\* and after a crash between the insert and the publish.
EventuallySettled == \A c \in Commands : row[c] \in Live ~> row[c] \notin Live

=============================================================================
