------------------------------- MODULE Sightings -------------------------------
(***************************************************************************)
(* From an alert of an external IDS engine to a sighting at the threat     *)
(* intelligence service.  The packet sensor maps the lines of the engine's *)
(* eve.json (or alert_json) to events and appends them to an events file   *)
(* (suricata_source.py, snort_source.py); the edge agent's reporter reads  *)
(* that file, posts every CTI event, and keeps those that fail in a JSONL  *)
(* queue until a flush delivers them or gives them up                      *)
(* (sighting/reporter.py, sighting/queue.py).                              *)
(*                                                                         *)
(* An alert is a number.  An offset counts lines.  A post that is reported *)
(* as failed may have arrived.  Sensor and agent may be killed at any      *)
(* point and are started again; the engine may rotate its file.            *)
(***************************************************************************)
EXTENDS Integers, Sequences, FiniteSets

CONSTANTS
  MaxAlerts,   \* bound: the alerts the engine raises in a day
  Rotations,   \* bound: how often the engine starts its file anew
  Kills,       \* bound: how often packet sensor and edge agent are killed, in all
  MaxAttempts, \* max_attempts: the failed posts after which a sighting is given up
  Cti,         \* the alerts whose SID is in the CTI range
  Listed       \* the alerts that match a managed whitelist, at times

Alerts == 1 .. MaxAlerts

ASSUME ConstantsAssumption ==
  /\ MaxAlerts \in Nat
  /\ Rotations \in Nat
  /\ Kills \in Nat
  /\ MaxAttempts \in Nat \ {0}
  /\ Cti \subseteq Alerts
  /\ Listed \subseteq Cti

VARIABLES
  raised,      \* how many alerts the engine has raised
  eve,         \* eve.json: the alerts since the last rotation
  rotations,   \* how often it has been rotated
  seq,         \* _seq of the sensor's mapper
  srcOffset,   \* _offset of the sensor's source
  srcSaved,    \* the offset it has saved
  consumed,    \* the lines of a poll whose offset is not saved yet
  log,         \* the events file: the alert and the event_id of each line
  sensorKills, \* how often the sensor has been killed
  offset,      \* the offset of the reporter's tailer
  hand,        \* the next line to submit: lines hand .. offset are in hand
  phase,       \* the reporter is at: "tail", "submit", "due" or "flush"
  sent,        \* the event in hand has been posted with success
  queue,       \* the lines of the queue file
  left,        \* the queued sightings the flush has not come to yet
  kept,        \* the sightings it will write back
  agentKills,  \* how often the agent has been killed
  received,    \* history: the alerts that have reached the service
  repeated,    \* history: the alerts that have reached it twice
  unconfirmed, \* history: the alerts that arrived though reported as failed
  suppressed,  \* history: the alerts dropped as whitelisted
  gaveUp,      \* history: the alerts given up
  masked,      \* history: the alerts dropped for another with their event_id
  inHand       \* history: the alerts in hand when the agent was killed

engine   == <<raised, eve, rotations>>
source   == <<seq, srcOffset, srcSaved, consumed, log, sensorKills>>
reporter == <<offset, hand, phase, sent, left, kept>>
arrivals == <<received, repeated>>
fates    == <<suppressed, gaveUp, masked, inHand>>
vars     == <<engine, source, reporter, queue, agentKills, arrivals, unconfirmed, fates>>

Events    == [alert : Alerts, id : 1 .. MaxAlerts]
Sightings == [alert : Alerts, id : 1 .. MaxAlerts, attempts : 1 .. MaxAttempts - 1]

TypeOK ==
  /\ raised \in 0 .. MaxAlerts
  /\ eve \in Seq(Alerts)
  /\ rotations \in 0 .. Rotations
  /\ seq \in 0 .. MaxAlerts
  /\ srcOffset \in Nat /\ srcSaved \in Nat /\ consumed \in Nat
  /\ log \in Seq(Events)
  /\ sensorKills \in 0 .. Kills
  /\ offset \in 0 .. Len(log)
  /\ hand \in 1 .. offset + 1
  /\ phase \in {"tail", "submit", "due", "flush"}
  /\ sent \in BOOLEAN
  /\ {queue, left, kept} \subseteq SUBSET Sightings
  /\ agentKills \in 0 .. Kills
  /\ {received, repeated, unconfirmed, suppressed, gaveUp, masked, inHand}
       \subseteq SUBSET Alerts

Init ==
  /\ raised = 0 /\ eve = <<>> /\ rotations = 0
  /\ seq = 0 /\ srcOffset = 0 /\ srcSaved = 0 /\ consumed = 0
  /\ log = <<>> /\ sensorKills = 0
  /\ offset = 0 /\ hand = 1 /\ phase = "tail" /\ sent = FALSE
  /\ queue = {} /\ left = {} /\ kept = {} /\ agentKills = 0
  /\ received = {} /\ repeated = {} /\ unconfirmed = {}
  /\ suppressed = {} /\ gaveUp = {} /\ masked = {} /\ inHand = {}

-----------------------------------------------------------------------------
\* The IDS engine.

RaiseAlert ==
  /\ raised < MaxAlerts
  /\ raised' = raised + 1
  /\ eve' = Append(eve, raised + 1)
  /\ UNCHANGED <<rotations, source, reporter, queue, agentKills, arrivals, unconfirmed, fates>>

Rotate ==
  /\ rotations < Rotations
  /\ eve # <<>>
  /\ rotations' = rotations + 1
  /\ eve' = <<>>
  /\ UNCHANGED <<raised, source, reporter, queue, agentKills, arrivals, unconfirmed, fates>>

-----------------------------------------------------------------------------
\* The packet sensor: poll_once.

\* Where the poll starts: a file shorter than the offset has been rotated.
From == IF srcOffset > Len(eve) THEN 0 ELSE srcOffset

\* The new alerts are mapped, with consecutive IDs, and appended.
PollAppend ==
  /\ consumed = 0
  /\ From < Len(eve)
  /\ srcOffset' = From
  /\ consumed' = Len(eve) - From
  /\ seq' = seq + Len(eve) - From
  /\ log' = log \o [i \in 1 .. Len(eve) - From |-> [alert |-> eve[From + i], id |-> seq + i]]
  /\ UNCHANGED <<engine, srcSaved, sensorKills,
                 reporter, queue, agentKills, arrivals, unconfirmed, fates>>

\* Mutant: the offset is the length of the file by now.
PollSave_ToEnd ==
  /\ consumed > 0
  /\ srcOffset' = Len(eve)
  /\ srcSaved' = srcOffset'
  /\ consumed' = 0
  /\ UNCHANGED <<engine, seq, log, sensorKills,
                 reporter, queue, agentKills, arrivals, unconfirmed, fates>>

\* Then the offset is advanced and saved.
PollSave ==
  /\ consumed > 0
  /\ srcOffset' = srcOffset + consumed
  /\ srcSaved' = srcOffset'
  /\ consumed' = 0
  /\ UNCHANGED <<engine, seq, log, sensorKills,
                 reporter, queue, agentKills, arrivals, unconfirmed, fates>>

\* The sensor is killed and started again: the mapper counts from 0, and the
\* offset file, written in place, may be left empty, which reads as 0.
KillSensor ==
  /\ sensorKills + agentKills < Kills
  /\ sensorKills' = sensorKills + 1
  /\ \/ srcOffset' = srcSaved /\ UNCHANGED srcSaved
     \/ consumed > 0 /\ srcOffset' = 0 /\ srcSaved' = 0
  /\ consumed' = 0
  /\ seq' = 0
  /\ UNCHANGED <<engine, log, reporter, queue, agentKills, arrivals, unconfirmed, fates>>

-----------------------------------------------------------------------------
\* The reporter: posting.

\* The sighting of alert n reaches the service.
Arrives(n) ==
  /\ received' = received \union {n}
  /\ repeated' = repeated \union (received \intersect {n})

\* post_ingest succeeds.
PostSucceeds(n) == Arrives(n) /\ UNCHANGED unconfirmed

\* post_ingest fails: the sighting may have arrived all the same.
PostFails(n) ==
  \/ UNCHANGED <<received, repeated, unconfirmed>>
  \/ Arrives(n) /\ unconfirmed' = unconfirmed \union {n}

\* _schedule_retry, and the check of max_attempts that follows it: what is left
\* of a sighting after one more failure.
Retried(item) ==
  {again \in {[item EXCEPT !.attempts = @ + 1]} : again.attempts < MaxAttempts}

SameId(id) == {item \in queue : item.id = id}

AlertsOf(items) == {item.alert : item \in items}

-----------------------------------------------------------------------------
\* process_new_events

\* pending_events: the offset is saved before the events are posted.
ReadLog ==
  /\ phase = "tail"
  /\ offset' = Len(log)
  /\ hand' = offset + 1
  /\ phase' = "submit"
  /\ UNCHANGED <<engine, source, sent, left, kept, queue, agentKills, arrivals, unconfirmed, fates>>

InHand == phase = "submit" /\ hand <= offset

\* A managed whitelist may allow an address or another value of the event.
Whitelisted(n) == n \in Listed

\* No sighting comes of the event: it is not a CTI alert, or is whitelisted.
Ignore ==
  /\ InHand /\ ~sent
  /\ \/ log[hand].alert \notin Cti /\ UNCHANGED suppressed
     \/ Whitelisted(log[hand].alert) /\ suppressed' = suppressed \union {log[hand].alert}
  /\ hand' = hand + 1
  /\ UNCHANGED <<engine, source, offset, phase, sent, left, kept, queue, agentKills,
                 arrivals, unconfirmed, gaveUp, masked, inHand>>

Submit ==
  /\ InHand /\ ~sent
  /\ log[hand].alert \in Cti
  /\ PostSucceeds(log[hand].alert)
  /\ sent' = TRUE
  /\ UNCHANGED <<engine, source, offset, hand, phase, left, kept, queue, agentKills, fates>>

\* queue.remove: a sighting with the event_id of the one just posted goes.
RemoveSent ==
  /\ InHand /\ sent
  /\ queue' = queue \ SameId(log[hand].id)
  /\ masked' = masked \union (AlertsOf(SameId(log[hand].id)) \ {log[hand].alert})
  /\ hand' = hand + 1
  /\ sent' = FALSE
  /\ UNCHANGED <<engine, source, offset, phase, left, kept, agentKills,
                 arrivals, unconfirmed, suppressed, gaveUp, inHand>>

\* What _submit counts a failure for: the queued sighting with the event's ID
\* if there is one, the event's own otherwise.
Failing(event) ==
  IF SameId(event.id) # {} THEN SameId(event.id)
  ELSE {[alert |-> event.alert, id |-> event.id, attempts |-> 0]}

\* Mutant: the failure is only logged.
SubmitFails_Drops ==
  /\ InHand /\ ~sent
  /\ log[hand].alert \in Cti
  /\ PostFails(log[hand].alert)
  /\ hand' = hand + 1
  /\ UNCHANGED <<engine, source, offset, phase, sent, left, kept, queue, agentKills, fates>>

SubmitFails ==
  /\ InHand /\ ~sent
  /\ log[hand].alert \in Cti
  /\ PostFails(log[hand].alert)
  /\ \E item \in Failing(log[hand]) :
       /\ queue' = (queue \ SameId(item.id)) \union Retried(item)
       /\ gaveUp' = gaveUp \union (IF Retried(item) = {} THEN {item.alert} ELSE {})
       /\ masked' = masked \union ({log[hand].alert} \ {item.alert})
  /\ hand' = hand + 1
  /\ UNCHANGED <<engine, source, offset, phase, sent, left, kept, agentKills, suppressed, inHand>>

SubmitDone ==
  /\ phase = "submit" /\ hand > offset
  /\ phase' = "due"
  /\ UNCHANGED <<engine, source, offset, hand, sent, left, kept, queue, agentKills,
                 arrivals, unconfirmed, fates>>

-----------------------------------------------------------------------------
\* flush_queue

\* The interval has not elapsed, or the queue is empty.
SkipFlush ==
  /\ phase = "due"
  /\ phase' = "tail"
  /\ UNCHANGED <<engine, source, offset, hand, sent, left, kept, queue, agentKills,
                 arrivals, unconfirmed, fates>>

StartFlush ==
  /\ phase = "due" /\ queue # {}
  /\ phase' = "flush"
  /\ left' = queue
  /\ UNCHANGED <<engine, source, offset, hand, sent, kept, queue, agentKills,
                 arrivals, unconfirmed, fates>>

NotDue(item) ==
  /\ kept' = kept \union {item}
  /\ UNCHANGED <<arrivals, unconfirmed, gaveUp>>

\* Mutant: a delivered sighting is written back.
Flushed_Keeps(item) ==
  /\ PostSucceeds(item.alert)
  /\ kept' = kept \union {item}
  /\ UNCHANGED gaveUp

Flushed(item) ==
  /\ PostSucceeds(item.alert)
  /\ UNCHANGED <<kept, gaveUp>>

FlushFails(item) ==
  /\ PostFails(item.alert)
  /\ kept' = kept \union Retried(item)
  /\ gaveUp' = gaveUp \union (IF Retried(item) = {} THEN {item.alert} ELSE {})

FlushItem(item) ==
  /\ phase = "flush"
  /\ item \in left
  /\ left' = left \ {item}
  /\ NotDue(item) \/ Flushed(item) \/ FlushFails(item)
  /\ UNCHANGED <<engine, source, offset, hand, phase, sent, queue, agentKills,
                 suppressed, masked, inHand>>

\* Mutant: what the flush has left is thrown away.
Rewrite_Clears ==
  /\ phase = "flush" /\ left = {}
  /\ queue' = {}
  /\ kept' = {}
  /\ phase' = "tail"
  /\ UNCHANGED <<engine, source, offset, hand, sent, left, agentKills, arrivals, unconfirmed, fates>>

\* The file is replaced once the flush is over.
Rewrite ==
  /\ phase = "flush" /\ left = {}
  /\ queue' = kept
  /\ kept' = {}
  /\ phase' = "tail"
  /\ UNCHANGED <<engine, source, offset, hand, sent, left, agentKills, arrivals, unconfirmed, fates>>

\* The agent is killed and started again.  The tailer's offset file, written in
\* place, may be left empty.
KillAgent ==
  /\ sensorKills + agentKills < Kills
  /\ agentKills' = agentKills + 1
  /\ \/ offset' = offset /\ hand' = offset + 1
     \/ phase = "tail" /\ offset < Len(log) /\ offset' = 0 /\ hand' = 1
  /\ inHand' = inHand \union {log[i].alert : i \in hand .. offset}
  /\ phase' = "tail" /\ sent' = FALSE /\ left' = {} /\ kept' = {}
  /\ UNCHANGED <<engine, source, queue, arrivals, unconfirmed, suppressed, gaveUp, masked>>

-----------------------------------------------------------------------------
Poll == PollAppend \/ PollSave

Cycle ==
  \/ ReadLog \/ Ignore \/ Submit \/ RemoveSent \/ SubmitFails \/ SubmitDone
  \/ SkipFlush \/ StartFlush \/ (\E item \in left : FlushItem(item)) \/ Rewrite

Next == RaiseAlert \/ Rotate \/ Poll \/ KillSensor \/ Cycle \/ KillAgent

Spec == Init /\ [][Next]_vars

\* A flush posts a queued sighting of alert n: it does not keep it as it is.
TriesQueued(n) ==
  \E item \in left : item.alert = n /\ FlushItem(item) /\ item \notin kept'

(***************************************************************************)
(* Fairness.  The sensor polls and the agent's main loop goes on (every    *)
(* request has a timeout); the flush interval and a sighting's back-off    *)
(* elapse.  Nothing is assumed of the service: it may refuse everything.   *)
(***************************************************************************)
Fairness ==
  /\ WF_vars(Poll)
  /\ WF_vars(Cycle)
  /\ SF_vars(StartFlush)
  /\ \A n \in Alerts : SF_vars(TriesQueued(n))

FairSpec == Spec /\ Fairness

-----------------------------------------------------------------------------
\* It is known what has become of the sighting of alert n.
Settled(n) == n \in received \union suppressed \union gaveUp \union masked \union inHand

Logged == {log[i].alert : i \in 1 .. Len(log)}

\* The sensor passes over no line of the engine's file: unless the file has been
\* rotated, every alert before its offset is in the events file, whatever is
\* killed between the append and the save of the offset (poll_once).
NothingSkipped ==
  rotations = 0 => \A i \in 1 .. Len(eve) : i <= srcOffset => eve[i] \in Logged

\* The reporter loses no sighting: every CTI event it has consumed is in hand,
\* queued, or settled, through failed posts, flushes, repeated IDs and kills.
Accounted ==
  \A i \in 1 .. offset :
    log[i].alert \in Cti =>
      \/ i >= hand
      \/ log[i].alert \in AlertsOf(queue)
      \/ Settled(log[i].alert)

\* A sighting reaches the service twice only if a post reported as failed had
\* arrived, or a kill made sensor or agent repeat what was done.
DuplicatesExplained ==
  \A n \in repeated : n \in unconfirmed \/ agentKills > 0 \/ sensorKills > 0

\* Even if the service refuses everything, every CTI alert the sensor has
\* written is settled in the end: delivered or given up, not queued for ever.
EventuallySettled ==
  \A n \in Cti : n \in Logged ~> Settled(n)
=============================================================================
