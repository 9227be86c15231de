-------------------------------- MODULE Upload --------------------------------
(***************************************************************************)
(* The way of a security event from the packet sensor to the control       *)
(* plane.  A detector appends it to security-events.jsonl; the edge        *)
(* agent's tailer (upload/events.py) reads it, once; the main loop         *)
(* (main.py: _flush_buffer, _upload_pending_events, the health upload)     *)
(* sends it over MQTT or HTTP, or keeps it in the SQLite buffer            *)
(* (upload/buffer.py) to try again.                                        *)
(*                                                                         *)
(* An event is its position in the log; log[n] is its event_id.  The agent *)
(* may be killed at any point, the sensor restarted; an attempt that is    *)
(* reported as failed may have arrived all the same, one that is confirmed *)
(* may have arrived twice, and the database may refuse to delete a row.    *)
(***************************************************************************)
EXTENDS Integers, SequencesExt

CONSTANTS
  MaxEvents,      \* bound: the events detected in a day
  SensorRestarts, \* bound: restarts of the packet sensor in that day
  Kills,          \* bound: how often the agent is killed
  BufferMax,      \* max_events: the rows the buffer keeps
  Listed          \* the events that match a managed whitelist, at times

Events == 1 .. MaxEvents

ASSUME ConstantsAssumption ==
  /\ MaxEvents \in Nat
  /\ SensorRestarts \in Nat
  /\ Kills \in Nat
  /\ BufferMax \in Nat \ {0}
  /\ Listed \subseteq Events

Health == 0   \* a row of kind "health"

VARIABLES
  seq,            \* _event_seq of the detector
  sensorRestarts, \* how often the sensor has been restarted
  log,            \* the events file: the event_id of every event
  offset,         \* the tailer's offset, in events
  batch,          \* the events the tailer has returned, not yet handled
  buffer,         \* the rows of pending_uploads, oldest first
  phase,          \* the main loop is at: "flush", "tail", "upload" or "health"
  step,           \* the item in hand is to be sent, to be posted, is sent (over
                  \* MQTT) or posted (over HTTP)
  kills,          \* how often the agent has been killed
  received,       \* history: the events that have reached the control plane
  repeated,       \* history: the events that have reached it twice
  unrecorded,     \* history: the events with an arrival that the agent has no record
                  \* of: the attempt was reported as failed, or was confirmed once
                  \* and arrived twice; the row could not be removed, or the agent
                  \* was killed before it was
  reread,         \* history: the events before an offset that was lost in a kill
  suppressed,     \* history: the events dropped as whitelisted
  trimmed,        \* history: the events dropped by a full buffer
  killedInHand    \* history: the events the agent held when it was killed

sensor  == <<seq, sensorRestarts, log>>
history == <<received, repeated, unrecorded, reread, suppressed, trimmed, killedInHand>>
vars    == <<sensor, offset, batch, buffer, phase, step, kills, history>>

TypeOK ==
  /\ seq \in 0 .. MaxEvents
  /\ sensorRestarts \in 0 .. SensorRestarts
  /\ log \in Seq(Events) /\ Len(log) <= MaxEvents
  /\ offset \in 0 .. Len(log)
  /\ batch \in Seq(Events)
  /\ buffer \in Seq(Events \union {Health}) /\ Len(buffer) <= BufferMax
  /\ phase \in {"flush", "tail", "upload", "health"}
  /\ step \in {"send", "post", "sent", "posted"}
  /\ kills \in 0 .. Kills
  /\ {received, repeated, unrecorded, reread, suppressed, trimmed, killedInHand}
       \subseteq SUBSET Events

Init ==
  /\ seq = 0
  /\ sensorRestarts = 0
  /\ log = <<>>
  /\ offset = 0
  /\ batch = <<>>
  /\ buffer = <<>>
  /\ phase = "flush"
  /\ step = "send"
  /\ kills = 0
  /\ received = {} /\ repeated = {} /\ unrecorded = {} /\ reread = {}
  /\ suppressed = {} /\ trimmed = {} /\ killedInHand = {}

-----------------------------------------------------------------------------
\* The packet sensor.

\* _next_event_id and EventStore.append.  The ID is the day and a counter.
Detect ==
  /\ Len(log) < MaxEvents
  /\ seq' = seq + 1
  /\ log' = Append(log, seq + 1)
  /\ UNCHANGED <<sensorRestarts, offset, batch, buffer, phase, step, kills, history>>

\* A new process counts from 0 again.
RestartSensor ==
  /\ sensorRestarts < SensorRestarts
  /\ seq > 0 /\ Len(log) < MaxEvents   \* bound: between two events
  /\ sensorRestarts' = sensorRestarts + 1
  /\ seq' = 0
  /\ UNCHANGED <<log, offset, batch, buffer, phase, step, kills, history>>

-----------------------------------------------------------------------------
\* The item in hand: the oldest row of the buffer when flushing, the first
\* event of the batch when uploading.
Holding == \/ phase = "flush" /\ buffer # <<>>
           \/ phase = "upload" /\ batch # <<>>

Item == IF phase = "flush" THEN Head(buffer) ELSE Head(batch)

HoldingEvent == Holding /\ Item # Health

\* The item in hand has been uploaded.
Uploaded == Holding /\ step \in {"sent", "posted"}

\* Item reaches the control plane.
Arrives ==
  IF Item = Health
  THEN UNCHANGED <<received, repeated>>
  ELSE /\ received' = received \union {Item}
       /\ repeated' = repeated \union (received \intersect {Item})

\* is_event_whitelisted: dropped.
Suppress ==
  /\ HoldingEvent /\ step = "send"
  /\ Item \in Listed
  /\ suppressed' = suppressed \union {Item}
  /\ IF phase = "flush"
     THEN buffer' = Tail(buffer) /\ UNCHANGED batch
     ELSE batch' = Tail(batch) /\ UNCHANGED buffer
  /\ UNCHANGED <<sensor, offset, phase, step, kills,
                 received, repeated, unrecorded, reread, trimmed, killedInHand>>

\* The database refuses to delete the row: the rest waits for the next pass.
SuppressFails ==
  /\ phase = "flush" /\ HoldingEvent /\ step = "send"
  /\ Item \in Listed
  /\ phase' = "tail"
  /\ UNCHANGED <<sensor, offset, batch, buffer, step, kills, history>>

\* A publish is at QoS 1.  If the acknowledgement is lost with the connection,
\* and the client reconnects while wait_for_publish waits, it sends the event
\* again: it arrives twice.
ArrivesTwice ==
  /\ received' = received \union {Item}
  /\ repeated' = repeated \union {Item}
  /\ unrecorded' = unrecorded \union {Item}

\* publish_security_event confirms the event.
Publish ==
  /\ HoldingEvent /\ step = "send"
  /\ \/ Arrives /\ UNCHANGED unrecorded
     \/ ArrivesTwice
  /\ step' = "sent"
  /\ UNCHANGED <<sensor, offset, batch, buffer, phase, kills,
                 reread, suppressed, trimmed, killedInHand>>

\* An attempt is reported as failed: the event may have arrived.
Unconfirmed ==
  \/ UNCHANGED <<received, repeated, unrecorded>>
  \/ /\ Item # Health
     /\ Arrives
     /\ unrecorded' = unrecorded \union {Item}

\* Mutant: tries MQTT again instead of falling back to HTTP.
PublishFails_Again ==
  /\ Holding /\ step = "send"
  /\ Unconfirmed
  /\ UNCHANGED <<sensor, offset, batch, buffer, phase, step, kills,
                 reread, suppressed, trimmed, killedInHand>>

\* MQTT is off, not connected, or does not confirm in time; health is never
\* flushed over MQTT.
PublishFails ==
  /\ Holding /\ step = "send"
  /\ Unconfirmed
  /\ step' = "post"
  /\ UNCHANGED <<sensor, offset, batch, buffer, phase, kills,
                 reread, suppressed, trimmed, killedInHand>>

\* upload_security_event, upload_health: HTTP success.
Post ==
  /\ Holding /\ step = "post"
  /\ Arrives
  /\ step' = "posted"
  /\ UNCHANGED <<sensor, offset, batch, buffer, phase, kills,
                 unrecorded, reread, suppressed, trimmed, killedInHand>>

-----------------------------------------------------------------------------
\* _flush_buffer

\* Mutant: the row of a delivered event stays until the next delivery.
FlushRemove_Keeps ==
  /\ phase = "flush" /\ Uploaded
  /\ step' = "send"
  /\ UNCHANGED <<sensor, offset, batch, buffer, phase, kills, history>>

\* remove: the row's upload is done.
FlushRemove ==
  /\ phase = "flush" /\ Uploaded
  /\ buffer' = Tail(buffer)
  /\ step' = "send"
  /\ UNCHANGED <<sensor, offset, batch, phase, kills, history>>

\* What arrived is not recorded: the agent will send it again.
Unrecorded ==
  unrecorded' = unrecorded \union ({Item} \ {Health})

\* The row cannot be removed: it stays, and the rest waits for the next pass.
FlushRemoveFails ==
  /\ phase = "flush" /\ Uploaded
  /\ Unrecorded
  /\ phase' = "tail"
  /\ step' = "send"
  /\ UNCHANGED <<sensor, offset, batch, buffer, kills,
                 received, repeated, reread, suppressed, trimmed, killedInHand>>

\* An exception: the rows behind this one wait for the next pass.
FlushFails ==
  /\ phase = "flush" /\ Holding /\ step = "post"
  /\ Unconfirmed
  /\ phase' = "tail"
  /\ step' = "send"
  /\ UNCHANGED <<sensor, offset, batch, buffer, kills,
                 reread, suppressed, trimmed, killedInHand>>

FlushDone ==
  /\ phase = "flush" /\ buffer = <<>>
  /\ phase' = "tail"
  /\ UNCHANGED <<sensor, offset, batch, buffer, step, kills, history>>

-----------------------------------------------------------------------------
\* _upload_pending_events

\* pending_events: the offset is saved before the events are uploaded.
ReadLog ==
  /\ phase = "tail"
  /\ batch' = [i \in 1 .. Len(log) - offset |-> offset + i]
  /\ offset' = Len(log)
  /\ phase' = "upload"
  /\ UNCHANGED <<sensor, buffer, step, kills, history>>

\* A row that remove_by_event_id deletes: an event with the ID of the uploaded one.
SameId(row) == row # Health /\ log[row] = log[Item]

\* remove_by_event_id: the rows with that ID are deleted, one at a time ...
UploadRemove ==
  /\ phase = "upload" /\ Uploaded
  /\ \E i \in DOMAIN buffer : SameId(buffer[i]) /\ buffer' = RemoveAt(buffer, i)
  /\ UNCHANGED <<sensor, offset, batch, phase, step, kills, history>>

\* ... and the next event is in hand.
UploadNext ==
  /\ phase = "upload" /\ Uploaded
  /\ \A i \in DOMAIN buffer : ~SameId(buffer[i])
  /\ batch' = Tail(batch)
  /\ step' = "send"
  /\ UNCHANGED <<sensor, offset, buffer, phase, kills, history>>

\* Mutant: a full buffer loses its newest rows.
Enqueue_TrimsNewest(row) ==
  LET rows == Append(buffer, row)
      kept == IF Len(rows) > BufferMax THEN BufferMax ELSE Len(rows)
  IN  /\ buffer' = SubSeq(rows, 1, kept)
      /\ trimmed' = trimmed \union
           (ToSet(SubSeq(rows, kept + 1, Len(rows))) \ {Health})

\* enqueue: a full buffer loses its oldest rows.
Enqueue(row) ==
  LET rows     == Append(buffer, row)
      overflow == IF Len(rows) > BufferMax THEN Len(rows) - BufferMax ELSE 0
  IN  /\ buffer' = SubSeq(rows, overflow + 1, Len(rows))
      /\ trimmed' = trimmed \union
           (ToSet(SubSeq(rows, 1, overflow)) \ {Health})

\* Mutant: an event that cannot be uploaded is only logged.
UploadFails_Drops ==
  /\ phase = "upload" /\ Holding /\ step = "post"
  /\ Unconfirmed
  /\ batch' = Tail(batch)
  /\ step' = "send"
  /\ UNCHANGED <<sensor, offset, buffer, phase, kills,
                 reread, suppressed, trimmed, killedInHand>>

\* An exception: the event is buffered.
UploadFails ==
  /\ phase = "upload" /\ Holding /\ step = "post"
  /\ Unconfirmed
  /\ Enqueue(Item)
  /\ batch' = Tail(batch)
  /\ step' = "send"
  /\ UNCHANGED <<sensor, offset, phase, kills, reread, suppressed, killedInHand>>

\* A row with the ID of the posted event cannot be removed: the exception counts
\* as a failure of the post, and the event is buffered.  (After a publish the
\* removal is not guarded: the agent ends, as in Kill.)
UploadRemoveFails ==
  /\ phase = "upload" /\ Holding /\ step = "posted"
  /\ Unrecorded
  /\ Enqueue(Item)
  /\ batch' = Tail(batch)
  /\ step' = "send"
  /\ UNCHANGED <<sensor, offset, phase, kills,
                 received, repeated, reread, suppressed, killedInHand>>

UploadDone ==
  /\ phase = "upload" /\ batch = <<>>
  /\ phase' = "health"
  /\ UNCHANGED <<sensor, offset, batch, buffer, step, kills, history>>

-----------------------------------------------------------------------------
\* The health upload that ends a turn of the main loop; on an exception the
\* health record is buffered.
UploadHealth ==
  /\ phase = "health"
  /\ phase' = "flush"
  /\ \/ UNCHANGED <<buffer, trimmed>>
     \/ Enqueue(Health)
  /\ UNCHANGED <<sensor, offset, batch, step, kills,
                 received, repeated, unrecorded, reread, suppressed, killedInHand>>

\* The offset file, written in place, may be left empty, which reads as 0.
LosesOffset ==
  /\ phase = "tail" /\ offset < Len(log)
  /\ offset' = 0
  /\ reread' = reread \union 1 .. offset

\* The agent is killed, or ends with an exception that nobody catches, and is
\* started again.
Kill ==
  /\ kills < Kills
  /\ kills' = kills + 1
  /\ UNCHANGED <<offset, reread>> \/ LosesOffset
  /\ IF phase = "flush" /\ Uploaded THEN Unrecorded ELSE UNCHANGED unrecorded
  /\ killedInHand' = killedInHand \union ToSet(batch)
  /\ batch' = <<>>
  /\ phase' = "flush"
  /\ step' = "send"
  /\ UNCHANGED <<sensor, buffer, received, repeated, suppressed, trimmed>>

-----------------------------------------------------------------------------
Turn ==
  \/ Suppress \/ SuppressFails \/ Publish \/ PublishFails \/ Post
  \/ FlushRemove \/ FlushRemoveFails \/ FlushFails \/ FlushDone
  \/ ReadLog \/ UploadRemove \/ UploadRemoveFails \/ UploadNext \/ UploadFails \/ UploadDone
  \/ UploadHealth

Next == Detect \/ RestartSensor \/ Turn \/ Kill

Spec == Init /\ [][Next]_vars

(***************************************************************************)
(* Fairness.  The main loop goes on (every request has a timeout), and     *)
(* neither posting the oldest row nor removing it fails for ever.          *)
(***************************************************************************)
FlushRemoves == FlushRemove \/ (phase = "flush" /\ Suppress)

Fairness ==
  /\ WF_vars(Turn)
  /\ SF_vars(phase = "flush" /\ Post)
  /\ SF_vars(FlushRemoves)

FairSpec == Spec /\ Fairness

-----------------------------------------------------------------------------
\* An event is safe, or it is known where it went.
Settled(n) == \/ n \in received \union suppressed \union trimmed \union killedInHand
              \/ \E m \in received : m # n /\ log[m] = log[n]

\* Every event the tailer has consumed is in hand, in the buffer, or settled:
\* it arrived, was whitelisted, was trimmed from a full buffer, was in hand when
\* the agent was killed, or shares its event_id with one that arrived.
Accounted ==
  \A n \in 1 .. offset : n \in ToSet(batch) \union ToSet(buffer) \/ Settled(n)

\* The control plane gets an event twice only if one of its arrivals was never on the
\* agent's records (it was reported as a failure, or was the MQTT client's own second
\* sending; the row could not be removed, or a kill came before that), or if a kill
\* tore the offset that was past the event.
DuplicatesExplained == \A n \in repeated : n \in unrecorded \union reread

\* Unless a kill made it read the log again, a full buffer gives up older
\* events for newer ones: whatever it has dropped is older than what it keeps,
\* and what it keeps is in the order of detection.
TrimsOldest ==
  kills = 0 =>
    \A i \in 1 .. Len(buffer) : buffer[i] # Health =>
      /\ \A n \in trimmed : n < buffer[i]
      /\ \A j \in 1 .. i - 1 : buffer[j] < buffer[i]

\* Through outages, kills and restarts, the loop gets every event settled.
EventuallySettled ==
  \A n \in Events : n <= Len(log) ~> n <= Len(log) /\ Settled(n)
=============================================================================
