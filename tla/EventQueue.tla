----------------------------- MODULE EventQueue -----------------------------
(***************************************************************************)
(* The way of an event (or ack) from a driver to the registry.             *)
(* PublishEvent hands a frame to the MQTT client and waits for the broker; *)
(* when that fails the frame goes to a FIFO that is also kept in a file.   *)
(* Every connection starts a goroutine that drains the FIFO.  The MQTT     *)
(* client keeps in memory what was not acknowledged and repeats it, so     *)
(* that one event may travel several times: the registry stores it once.   *)
(* The device's process may crash; the file survives, nothing else does.   *)
(***************************************************************************)
EXTENDS Naturals, FiniteSets, Sequences, SequencesExt

CONSTANTS
  MaxEvents,   \* bound on the calls of PublishEvent and reportAck
  MaxCallers,  \* bound on the calls under way at a time
  QueueMax,    \* the largest Options.BufferMax
  MaxCrashes   \* bound on the crashes of the device's process

ASSUME QueueAssumption ==
  QueueMax \in Nat \ {0} /\ {MaxEvents, MaxCallers, MaxCrashes} \subseteq Nat

VARIABLES
  sending,     \* where each PublishEvent stands
  link,        \* the connection to the broker: up or down
  unacked,     \* frames the MQTT client stores until they are acknowledged
  entries,     \* the FIFO in memory
  file,        \* the FIFO on disk
  drains,      \* drain goroutines waiting for the mutex
  drainer,     \* the one that holds it: off, head (about to publish) or wait
  broker,      \* events the broker holds for the registry
  rows,        \* of each event in iot_events: none, one, or two; or missed,
               \* when the consumer took the event and failed to insert it
  shed,        \* history: events dropped because the FIFO was full
  resent,      \* history: events of which a drained frame reached the broker
  late,        \* history: events buffered or kept back since the connection was made
  max,         \* Options.BufferMax of this device
  crashes      \* crashes so far

qCall == <<sending>>
qLink == <<link, unacked>>
qBuffer == <<entries, file, shed>>
qDrain == <<drains, drainer>>
qHistory == <<resent, late>>
qRegistry == <<broker, rows>>
qRest == <<max, crashes>>
qVars == <<qCall, qLink, qBuffer, qDrain, qRegistry, qHistory, qRest>>

Events == 1..MaxEvents     \* numbered in the order in which their calls start
Frames == Events \X {"call", "drain"}
CallSteps == {"idle", "sent", "buffer", "done", "lost"}
MaxWaiting == 1     \* a second drain waiting for the mutex would find nothing to do

QInit ==
  /\ sending = [e \in Events |-> "idle"]
  /\ link \in {"up", "down"}     \* up: the drain of an empty FIFO is over
  /\ unacked = {}
  /\ entries = <<>> /\ file = <<>> /\ shed = {}
  /\ drains = 0 /\ drainer = "off"
  /\ broker = {} /\ rows = [e \in Events |-> "none"]
  /\ resent = {}
  /\ late = {}
  /\ max \in 1..QueueMax
  /\ crashes = 0

----------------------------------------------------------------------------
(* The MQTT client and the broker.                                         *)

\* Mistake: the FIFO is drained only by the first connection.
OnConnectQuiet ==
  /\ link = "down"
  /\ link' = "up"
  /\ late' = {}
  /\ UNCHANGED <<qCall, unacked, qBuffer, qDrain, qRegistry, resent, qRest>>

\* onConnect: the drain is a goroutine of its own.
OnConnect ==
  /\ link = "down"
  /\ link' = "up"
  /\ drains' = IF drains < MaxWaiting THEN drains + 1 ELSE drains
  /\ late' = {}
  /\ UNCHANGED <<qCall, unacked, qBuffer, drainer, qRegistry, resent, qRest>>

ConnectionLost ==
  /\ link = "up"
  /\ link' = "down"
  /\ late' = {}
  /\ UNCHANGED <<qCall, unacked, qBuffer, qDrain, qRegistry, resent, qRest>>

\* QoS 1: a frame is sent until its PUBACK arrives, on this connection or the
\* next ones.
SendFrame(f) ==
  /\ link = "up" /\ f \in unacked
  /\ unacked' \in {unacked, unacked \ {f}}
  /\ broker' = broker \cup {f[1]}
  /\ resent' = IF f[2] = "drain" THEN resent \cup {f[1]} ELSE resent
  /\ UNCHANGED <<qCall, link, qBuffer, qDrain, rows, late, qRest>>

\* WaitTimeout gives up; the frame stays in the client's store.
TimesOut(f) == f \in unacked

\* Waits for the next connection: no drain of this one will come back to it.
KeepBack(es) == late' = IF link = "up" THEN late \cup es ELSE late

----------------------------------------------------------------------------
(* PublishEvent.                                                           *)

Publishes(e) ==
  /\ sending[e] = "idle" /\ \A d \in 1..(e - 1) : sending[d] # "idle"
  /\ Cardinality({d \in Events : sending[d] \in {"sent", "buffer"}}) < MaxCallers

PublishEvent(e) ==
  /\ Publishes(e)
  /\ sending' = [sending EXCEPT ![e] = "sent"]
  /\ unacked' = unacked \cup {<<e, "call">>}
  /\ UNCHANGED <<link, qBuffer, qDrain, qRegistry, qHistory, qRest>>

Published(e) ==
  /\ sending[e] = "sent" /\ <<e, "call">> \notin unacked
  /\ sending' = [sending EXCEPT ![e] = "done"]
  /\ UNCHANGED <<qLink, qBuffer, qDrain, qRegistry, qHistory, qRest>>

PublishFails(e) ==
  /\ sending[e] = "sent" /\ TimesOut(<<e, "call">>)
  /\ sending' = [sending EXCEPT ![e] = "buffer"]
  /\ UNCHANGED <<qLink, qBuffer, qDrain, qRegistry, qHistory, qRest>>

----------------------------------------------------------------------------
(* The FIFO.  Its mutex is held for the whole of a drain.                  *)

\* persistLocked writes a new file and renames it over the old one, or fails
\* and leaves the old one.
Persist(q) == file' = q
PersistFails == file' = file

Newest(q) == SubSeq(q, Len(q) + 1 - (IF Len(q) < max THEN Len(q) ELSE max), Len(q))

Add(e) ==
  LET all == Append(entries, e)
  IN
  /\ sending[e] = "buffer" /\ drainer = "off"
  /\ entries' = Newest(all)
  /\ shed' = shed \cup (ToSet(all) \ ToSet(Newest(all)))
  /\ \/ Persist(Newest(all)) /\ sending' = [sending EXCEPT ![e] = "done"]
     \/ PersistFails /\ sending' = [sending EXCEPT ![e] = "lost"]
  /\ KeepBack({e})
  /\ UNCHANGED <<qLink, qDrain, qRegistry, resent, qRest>>

StartDrain ==
  /\ drains > 0 /\ drainer = "off"
  /\ drains' = drains - 1
  /\ drainer' = IF entries = <<>> THEN "off" ELSE "head"
  /\ UNCHANGED <<qCall, qLink, qBuffer, qRegistry, qHistory, qRest>>

\* A copy left in the client by an earlier drain stands for this one too.
DrainHead ==
  /\ drainer = "head"
  /\ drainer' = "wait"
  /\ unacked' = unacked \cup {<<Head(entries), "drain">>}
  /\ UNCHANGED <<qCall, link, qBuffer, drains, qRegistry, qHistory, qRest>>

\* Mistake: a frame that fails is dropped and the drain goes on.
DrainSkips ==
  /\ drainer = "wait" /\ TimesOut(<<Head(entries), "drain">>)
  /\ entries' = Tail(entries)
  /\ drainer' = "off"
  /\ Persist(entries') \/ PersistFails
  /\ KeepBack(ToSet(entries))
  /\ UNCHANGED <<qCall, qLink, shed, drains, qRegistry, resent, qRest>>

DrainNext ==
  /\ drainer = "wait" /\ <<Head(entries), "drain">> \notin unacked
  /\ entries' = Tail(entries)
  /\ IF Tail(entries) = <<>>
     THEN drainer' = "off" /\ (Persist(<<>>) \/ PersistFails)
     ELSE drainer' = "head" /\ UNCHANGED file
  /\ UNCHANGED <<qCall, qLink, shed, drains, qRegistry, qHistory, qRest>>

DrainStops ==
  /\ drainer = "wait" /\ TimesOut(<<Head(entries), "drain">>)
  /\ drainer' = "off"
  /\ Persist(entries) \/ PersistFails
  /\ KeepBack(ToSet(entries))
  /\ UNCHANGED <<qCall, qLink, entries, shed, drains, qRegistry, resent, qRest>>

\* The process dies and starts again: openQueue reads the file.
DeviceRestart ==
  /\ crashes < MaxCrashes
  /\ crashes' = crashes + 1
  /\ sending' = [e \in Events |-> IF sending[e] \in {"sent", "buffer"} THEN "lost" ELSE sending[e]]
  /\ link' = "down" /\ unacked' = {}
  /\ entries' = file
  /\ drains' = 0 /\ drainer' = "off" /\ late' = {}
  /\ UNCHANGED <<file, shed, qRegistry, resent, max>>

----------------------------------------------------------------------------
(* The registry's consumer: the broker repeats what was not acknowledged.  *)

\* uk_iot_event_dedup: a repeated event is not inserted again.
InsertEvent(e) == rows' = [rows EXCEPT ![e] = "one"]

\* The failing INSERT is logged and the message acknowledged all the same.
InsertFails(e) == rows' = [rows EXCEPT ![e] = IF @ = "none" THEN "missed" ELSE @]

HandleEvent(e) ==
  /\ e \in broker
  /\ broker' \in {broker, broker \ {e}}
  /\ InsertEvent(e) \/ InsertFails(e)
  /\ UNCHANGED <<qCall, qLink, qBuffer, qDrain, qHistory, qRest>>

----------------------------------------------------------------------------
ClientStep ==
  \/ StartDrain \/ DrainHead \/ DrainNext \/ DrainStops
  \/ \E e \in Events : Published(e) \/ PublishFails(e) \/ Add(e)

QNext ==
  \/ OnConnect \/ ConnectionLost \/ DeviceRestart
  \/ ClientStep
  \/ \E e \in Events : PublishEvent(e) \/ HandleEvent(e)
  \/ \E f \in Frames : SendFrame(f)

QSpec == QInit /\ [][QNext]_qVars

----------------------------------------------------------------------------
(* Properties.                                                             *)

QTypeOK ==
  /\ sending \in [Events -> CallSteps]
  /\ link \in {"up", "down"}
  /\ unacked \subseteq Frames
  /\ entries \in Seq(Events) /\ file \in Seq(Events)
  /\ Len(entries) <= max /\ Len(file) <= max
  /\ drains \in 0..MaxWaiting
  /\ drainer \in {"off", "head", "wait"}
  /\ drainer # "off" => entries # <<>>
  /\ broker \subseteq Events
  /\ shed \subseteq Events /\ resent \subseteq Events
  /\ rows \in [Events -> {"none", "missed", "one"}]
  /\ late \subseteq Events /\ max \in 1..QueueMax
  /\ crashes \in 0..MaxCrashes

Settled(e) == rows[e] # "none" \/ e \in shed

\* Nothing behind an unsent event was sent by a drain.
ResentInOrder ==
  \A i, j \in 1..Len(entries) :
     i < j /\ entries[j] \in resent => entries[i] \in resent \cup shed

DoneIsKept ==
  \A e \in Events : sending[e] = "done" => Settled(e) \/ e \in broker \/ e \in ToSet(file)

\* What PublishEvent reported as accepted survives a crash at any moment: it
\* is with the broker or behind it, or in the file, unless the full FIFO has
\* shed it; and the FIFO is re-sent in its order, through failing drains, files
\* that could not be written and restarts.
AcceptedIsKept == DoneIsKept /\ ResentInOrder

\* A connection on which the drain has ended, with nothing waiting behind it.
Rested == link = "up" /\ drains = 0 /\ drainer = "off"

\* Such a connection has emptied the FIFO, except for what failed on this very
\* connection: that has to wait for the next one.
NothingLeftBehind == Rested => ToSet(entries) \subseteq late

Delivered(e) == e \in broker \/ rows[e] # "none"

\* Each event is buffered once, when its call is over.
BufferedOnce ==
  /\ \A i, j \in DOMAIN entries : entries[i] = entries[j] => i = j
  /\ \A i, j \in DOMAIN file : file[i] = file[j] => i = j
  /\ \A e \in Events :
       e \in ToSet(entries) \cup ToSet(file) \cup resent \/ <<e, "drain">> \in unacked
         => sending[e] \in {"done", "lost"}

\* A frame that has left the client's store is with the broker, or was.
SentIsDelivered ==
  /\ \A e \in Events : sending[e] = "sent" /\ <<e, "call">> \notin unacked => Delivered(e)
  /\ drainer = "wait" /\ <<Head(entries), "drain">> \notin unacked => Head(entries) \in resent
  /\ \A e \in resent : Delivered(e)

\* Nothing behind an unsent event was handed to the client by a drain.
TriedInOrder(q) ==
  \A i, j \in DOMAIN q :
    i < j /\ (q[j] \in resent \/ <<q[j], "drain">> \in unacked) => q[i] \in resent \cup shed

\* The file may be older than the FIFO: it has the same events in the same order,
\* before those that it misses and beside some that were sent or shed.
FileFollows ==
  /\ ToSet(file) \subseteq ToSet(entries) \cup resent \cup shed
  /\ \A i, j \in DOMAIN file : i < j /\ file[j] \in ToSet(entries) =>
       \/ file[i] \in resent \cup shed
       \/ \E k, l \in DOMAIN entries : k < l /\ entries[k] = file[i] /\ entries[l] = file[j]

QIInv ==
  /\ QTypeOK /\ BufferedOnce /\ SentIsDelivered
  /\ TriedInOrder(entries) /\ TriedInOrder(file) /\ FileFollows
  /\ DoneIsKept /\ NothingLeftBehind

=============================================================================
