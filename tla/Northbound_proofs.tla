--------------------------- MODULE Northbound_proofs ---------------------------
(***************************************************************************)
(* Proofs about two of the parts Northbound puts side by side: Sightings,  *)
(* for any number of alerts, rotations, kills and attempts, and            *)
(* RuleUpdate, for any number of updates and bundles.                      *)
(***************************************************************************)
EXTENDS Sightings, RuleUpdate, SequenceTheorems, TLAPS

-----------------------------------------------------------------------------
\* Sightings: invariants.

\* The line up to which the sensor has read the engine's file, and the lines of
\* the file as it is now that it has read.
Position == srcOffset + consumed
ReadOfFile == IF Position <= Len(eve) THEN Position ELSE 0

(***************************************************************************)
(* The file holds the last alerts raised, in order; the mapper has         *)
(* numbered no more of them than had been raised up to the line it read    *)
(* last.                                                                   *)
(***************************************************************************)
FileInv ==
  /\ Len(eve) <= raised
  /\ \A i \in 1 .. Len(eve) : eve[i] = raised - Len(eve) + i
  /\ seq <= raised - Len(eve) + ReadOfFile

\* Only while it submits has the reporter lines in hand; only while it flushes
\* has it taken the queue apart; what was sent has arrived.
PhaseInv ==
  /\ phase # "submit" => hand = offset + 1
  /\ phase # "flush" => left = {} /\ kept = {}
  /\ sent => InHand /\ log[hand].alert \in received

\* No two sightings have the same event_id.
UniqueIds(items) == \A x, y \in items : x.id = y.id => x = y

(***************************************************************************)
(* A flush comes to every sighting of the queue: each is one it has left,  *)
(* keeps, or has settled.                                                  *)
(***************************************************************************)
QueueInv ==
  /\ UniqueIds(queue)
  /\ UniqueIds(left \union kept)
  /\ left \intersect kept = {}
  /\ phase = "flush" =>
       \A n \in AlertsOf(queue) : n \in AlertsOf(left) \union AlertsOf(kept) \/ Settled(n)

SightingsInv == TypeOK /\ FileInv /\ PhaseInv /\ QueueInv

\* Until the first rotation every line the sensor has read is in the events
\* file, and the offset saved is one it has read up to.
SourceInv ==
  rotations = 0 =>
    /\ srcSaved <= Position /\ Position <= Len(eve)
    /\ \A i \in 1 .. Len(eve) : i <= Position => eve[i] \in Logged

\* Until the first kill an alert is in the events file once, under the number
\* of its line, and none that the sensor has not read yet is.
LoggedOnce ==
  /\ seq = Len(log)
  /\ \A i \in 1 .. Len(log) : log[i].id = i
  /\ \A i, j \in 1 .. Len(log) : i < j => log[i].alert < log[j].alert
  /\ \A i \in 1 .. Len(log) : log[i].alert <= raised - Len(eve) + ReadOfFile

\* Until then, too, what is queued is the sighting of a line submitted before.
QueuedOnce ==
  \A item \in queue \union left \union kept :
    item.id < hand /\ item.alert = log[item.id].alert

\* And a sighting still to be sent has not arrived, unless its post was
\* reported as failed.
SentOnce ==
  /\ received \subseteq Logged
  /\ \A n \in received \ unconfirmed :
       /\ \A i \in 1 .. Len(log) : log[i].alert = n => i < hand \/ (i = hand /\ sent)
       /\ n \notin AlertsOf(left \union kept)
       /\ phase # "flush" => n \notin AlertsOf(queue)

NotKilled == agentKills = 0 /\ sensorKills = 0

OnceInv ==
  /\ NotKilled => LoggedOnce /\ QueuedOnce /\ SentOnce
  /\ DuplicatesExplained

-----------------------------------------------------------------------------
\* RuleUpdate: invariants.

\* What UpdateTypeOK rests on: a run under way has a number.
UpdateTypeInv == UpdateTypeOK /\ (updAt # "idle" => updates > 0)

\* The rules of the last update are in place and can be loaded, and the engine runs them if
\* it is told to.
RunsLast ==
  community = updates /\ Loadable(community) /\ (reloadCmd => running = community)

(***************************************************************************)
(* Where the runner is, unless something spoiled the update: the rules lie *)
(* in the directory from the command's success on, the engine runs them    *)
(* from the reload on if it is told to and can, and a good outcome says so.*)
(***************************************************************************)
RunnerInv ==
  ~spoiled =>
    /\ updAt = "reload" => community = updates
    /\ updAt = "check" => community = updates /\ (reloadCmd /\ Loadable(community) => running = community)
    /\ updAt \in {"write", "emit"} => outcome.version = updates /\ (outcome.ok => RunsLast)
    /\ updAt = "emit" => updStatus = outcome
    /\ updAt = "idle" => updStatus.version = updates /\ (updStatus.ok => RunsLast)

\* No result is of a run to come; what has been heard is of an earlier run while one is under way, and agrees
\* with the status file otherwise.
HeardInv ==
  /\ outcome.version <= updates
  /\ heard.about = "update" =>
       /\ heard.result.version <= updates
       /\ updAt # "idle" => heard.result.version < updates
       /\ updAt = "idle" /\ ~spoiled /\ heard.result.version = updates /\ heard.result.ok
            => updStatus.ok

-----------------------------------------------------------------------------
\* Sightings: the operators.

\* What may be counted a failure for: a queued sighting, or one not tried yet.
Tried == [alert : Alerts, id : 1 .. MaxAlerts, attempts : 0 .. MaxAttempts - 1]

LEMMA RetriedFacts ==
  ASSUME NEW item \in Tried
  PROVE  /\ Retried(item) \subseteq Sightings
         /\ \A again \in Retried(item) : again.alert = item.alert /\ again.id = item.id
         /\ \A x, y \in Retried(item) : x = y
<1> DEFINE next == [item EXCEPT !.attempts = @ + 1]
<1>1. next.alert = item.alert /\ next.id = item.id /\ next.attempts = item.attempts + 1
  BY DEF Tried
<1>2. ASSUME next.attempts < MaxAttempts
      PROVE  next \in Sightings
  BY <1>1, <1>2, ConstantsAssumption DEF Tried, Sightings
<1> QED
  BY <1>1, <1>2 DEF Retried

LEMMA FailingFacts ==
  ASSUME NEW event \in Events, queue \subseteq Sightings, UniqueIds(queue)
  PROVE  \A item \in Failing(event) :
           /\ item \in Tried /\ item.id = event.id
           /\ SameId(item.id) \subseteq {item}
           /\ item \in queue \/ (SameId(event.id) = {} /\ item.alert = event.alert)
<1>1. SUFFICES ASSUME NEW item \in Failing(event)
               PROVE  /\ item \in Tried /\ item.id = event.id
                      /\ SameId(item.id) \subseteq {item}
                      /\ item \in queue \/ (SameId(event.id) = {} /\ item.alert = event.alert)
  OBVIOUS
<1>2. CASE SameId(event.id) # {}
  <2>1. item \in queue /\ item.id = event.id
    BY <1>1, <1>2 DEF Failing, SameId
  <2>2. item \in Tried
    BY <2>1, ConstantsAssumption DEF Sightings, Tried
  <2> QED
    BY <2>1, <2>2 DEF SameId, UniqueIds
<1>3. CASE SameId(event.id) = {}
  <2>1. item = [alert |-> event.alert, id |-> event.id, attempts |-> 0]
    BY <1>1, <1>3 DEF Failing
  <2> QED
    BY <2>1, <1>3, ConstantsAssumption DEF Events, Tried
<1> QED
  BY <1>2, <1>3

LEMMA PollAppendFacts ==
  ASSUME TypeOK, FileInv, PollAppend
  PROVE  /\ From \in Nat /\ From = ReadOfFile /\ From < Len(eve)
         /\ Position' = Len(eve)
         /\ seq' = seq + Len(eve) - From /\ seq' <= raised
         /\ log' \in Seq(Events)
         /\ Len(log') = Len(log) + Len(eve) - From
         /\ \A i \in 1 .. Len(log) : log'[i] = log[i]
         /\ \A i \in 1 .. Len(eve) - From :
              log'[Len(log) + i] = [alert |-> eve[From + i], id |-> seq + i]
<1> DEFINE k == Len(eve) - From
           new == [i \in 1 .. k |-> [alert |-> eve[From + i], id |-> seq + i]]
<1>1. From \in Nat /\ From = ReadOfFile /\ From < Len(eve) /\ k \in Nat
  BY DEF TypeOK, PollAppend, From, ReadOfFile, Position
<1>2. Position' = Len(eve) /\ seq' = seq + k /\ seq' <= raised
  BY <1>1, ConstantsAssumption DEF TypeOK, FileInv, PollAppend, Position
<1>3. ASSUME NEW i \in 1 .. k
      PROVE  [alert |-> eve[From + i], id |-> seq + i] \in Events
  <2>1. From + i \in 1 .. Len(eve)
    BY <1>1
  <2>2. eve[From + i] \in Alerts
    BY <2>1 DEF TypeOK
  <2>3. seq + i \in 1 .. MaxAlerts
    BY <1>1, <1>2, ConstantsAssumption DEF TypeOK
  <2> QED
    BY <2>2, <2>3 DEF Events
<1>4. new \in Seq(Events) /\ Len(new) = k /\ \A i \in 1 .. k : new[i] = [alert |-> eve[From + i], id |-> seq + i]
  BY <1>1, <1>3
<1>5. log' = log \o new /\ log \in Seq(Events)
  BY DEF PollAppend, TypeOK
<1> HIDE DEF new
<1>6. /\ log' \in Seq(Events) /\ Len(log') = Len(log) + k
      /\ \A i \in 1 .. Len(log) + k :
           log'[i] = IF i <= Len(log) THEN log[i] ELSE new[i - Len(log)]
  <2>1. /\ log \o new \in Seq(Events) /\ Len(log \o new) = Len(log) + Len(new)
        /\ \A i \in 1 .. Len(log) + Len(new) :
             (log \o new)[i] = IF i <= Len(log) THEN log[i] ELSE new[i - Len(log)]
    BY <1>4, <1>5, ConcatProperties
  <2>2. Len(new) = k
    BY <1>4
  <2> QED
    BY <2>1, <2>2, <1>5
<1>7. ASSUME NEW i \in 1 .. k
      PROVE  log'[Len(log) + i] = [alert |-> eve[From + i], id |-> seq + i]
  <2>1. /\ Len(log) + i \in 1 .. Len(log) + k /\ ~(Len(log) + i <= Len(log))
        /\ (Len(log) + i) - Len(log) = i
    BY <1>1, <1>5
  <2> QED
    BY <2>1, <1>4, <1>6
<1>8. ASSUME NEW i \in 1 .. Len(log)
      PROVE  log'[i] = log[i]
  BY <1>1, <1>5, <1>6
<1> QED
  BY <1>1, <1>2, <1>6, <1>7, <1>8

-----------------------------------------------------------------------------
\* Sightings: who changes what.

Sensing == RaiseAlert \/ Rotate \/ Poll \/ KillSensor

\* The engine and the sensor leave the reporter alone.
LEMMA SensorFrame ==
  ASSUME Sensing
  PROVE  UNCHANGED <<reporter, queue, agentKills, arrivals, unconfirmed, fates>>
BY DEF Sensing, RaiseAlert, Rotate, Poll, PollAppend, PollSave, KillSensor

\* And the agent leaves the engine and the sensor alone.
LEMMA ReporterFrame ==
  ASSUME Cycle \/ KillAgent
  PROVE  UNCHANGED <<engine, source>>
<1>1. CASE \E item \in left : FlushItem(item)
  BY <1>1 DEF FlushItem
<1> QED
  BY <1>1 DEF Cycle, ReadLog, Ignore, Submit, RemoveSent, SubmitFails, SubmitDone, SkipFlush,
              StartFlush, Rewrite, KillAgent

\* The events file only grows.
LEMMA LogGrows ==
  ASSUME TypeOK, FileInv, [Next]_vars
  PROVE  /\ log' \in Seq(Events) /\ Len(log) \in Nat /\ Len(log') \in Nat
         /\ Len(log) <= Len(log')
         /\ \A i \in 1 .. Len(log) : log'[i] = log[i] /\ log[i] \in Events
<1>0. log \in Seq(Events) /\ Len(log) \in Nat /\ \A i \in 1 .. Len(log) : log[i] \in Events
  BY DEF TypeOK
<1>1. CASE PollAppend
  <2>1. /\ log' \in Seq(Events) /\ Len(log') = Len(log) + Len(eve) - From
        /\ From \in Nat /\ From < Len(eve)
        /\ \A i \in 1 .. Len(log) : log'[i] = log[i]
    BY <1>1, PollAppendFacts
  <2>2. Len(eve) \in Nat
    BY DEF TypeOK
  <2>3. Len(log') \in Nat /\ Len(log) <= Len(log')
    BY <1>0, <2>1, <2>2
  <2> QED
    BY <1>0, <2>1, <2>3
<1>2. CASE UNCHANGED log
  BY <1>0, <1>2
<1>3. CASE Cycle \/ KillAgent
  BY <1>2, <1>3, ReporterFrame DEF source
<1>4. CASE RaiseAlert \/ Rotate \/ PollSave \/ KillSensor \/ UNCHANGED vars
  BY <1>2, <1>4 DEF RaiseAlert, Rotate, PollSave, KillSensor, source, vars
<1> QED
  BY <1>1, <1>3, <1>4 DEF Next, Poll

-----------------------------------------------------------------------------
\* Sightings: type correctness.

LEMMA TypeInductive ==
  ASSUME SightingsInv, [Next]_vars
  PROVE  TypeOK'
<1> USE ConstantsAssumption DEF SightingsInv, engine, source, reporter, arrivals, fates
<1>1. log' \in Seq(Events) /\ Len(log) <= Len(log') /\ Len(log) \in Nat /\ Len(log') \in Nat
  BY LogGrows
<1>2. CASE RaiseAlert
  <2>1. raised + 1 \in Alerts /\ eve \in Seq(Alerts)
    BY <1>2 DEF RaiseAlert, TypeOK, Alerts
  <2>2. eve' \in Seq(Alerts) /\ raised' \in 0 .. MaxAlerts
    BY <1>2, <2>1 DEF RaiseAlert, TypeOK, Alerts
  <2> QED
    BY <1>2, <2>2 DEF RaiseAlert, TypeOK
<1>3. CASE Rotate
  BY <1>3 DEF Rotate, TypeOK
<1>4. CASE PollAppend
  <2>1. /\ From \in Nat /\ From < Len(eve) /\ Len(eve) \in Nat
        /\ seq' = seq + Len(eve) - From /\ seq' <= raised
    BY <1>4, PollAppendFacts DEF TypeOK
  <2>2. /\ srcOffset' = From /\ consumed' = Len(eve) - From
        /\ UNCHANGED <<engine, srcSaved, sensorKills,
                       reporter, queue, agentKills, arrivals, unconfirmed, fates>>
    BY <1>4 DEF PollAppend
  <2>3. srcOffset' \in Nat /\ consumed' \in Nat /\ seq' \in 0 .. MaxAlerts
    BY <2>1, <2>2 DEF TypeOK
  <2>4. offset' \in 0 .. Len(log')
    BY <1>1, <2>2 DEF TypeOK
  <2> QED
    BY <1>1, <2>2, <2>3, <2>4 DEF TypeOK
<1>5. CASE PollSave \/ KillSensor
  <2>1. /\ srcOffset' \in Nat /\ srcSaved' \in Nat /\ consumed' = 0
        /\ seq' \in 0 .. MaxAlerts /\ sensorKills' \in 0 .. Kills
    BY <1>5 DEF PollSave, KillSensor, TypeOK
  <2>2. UNCHANGED <<engine, log, reporter, queue, agentKills, arrivals, unconfirmed, fates>>
    BY <1>5 DEF PollSave, KillSensor
  <2> QED
    BY <2>1, <2>2 DEF TypeOK
<1>6. CASE ReadLog \/ SubmitDone \/ SkipFlush \/ StartFlush \/ Rewrite
  <2>1. CASE ReadLog
    <3>1. offset' \in 0 .. Len(log') /\ hand' \in 1 .. offset' + 1
      BY <1>1, <2>1 DEF ReadLog, TypeOK
    <3> QED
      BY <2>1, <3>1 DEF ReadLog, TypeOK
  <2>2. CASE SubmitDone \/ SkipFlush
    BY <2>2 DEF SubmitDone, SkipFlush, TypeOK
  <2>3. CASE StartFlush \/ Rewrite
    BY <2>3 DEF StartFlush, Rewrite, TypeOK
  <2> QED
    BY <1>6, <2>1, <2>2, <2>3
<1>7. ASSUME InHand
      PROVE  /\ hand \in 1 .. Len(log) /\ log[hand] \in Events
             /\ log[hand].alert \in Alerts /\ hand + 1 \in 1 .. offset + 1
  <2>1. hand \in 1 .. Len(log) /\ hand + 1 \in 1 .. offset + 1
    BY <1>7 DEF InHand, TypeOK
  <2>2. log[hand] \in Events
    BY <2>1 DEF TypeOK
  <2> QED
    BY <2>1, <2>2 DEF Events
<1>8. CASE Ignore
  BY <1>7, <1>8 DEF Ignore, TypeOK
<1>9. CASE Submit
  BY <1>7, <1>9 DEF Submit, PostSucceeds, Arrives, TypeOK
<1>10. CASE RemoveSent
  <2>1. AlertsOf(SameId(log[hand].id)) \subseteq Alerts
    BY DEF AlertsOf, SameId, TypeOK, Sightings
  <2> QED
    BY <1>7, <1>10, <2>1 DEF RemoveSent, TypeOK
<1>11. CASE SubmitFails
  <2>1. PICK item \in Failing(log[hand]) :
          /\ queue' = (queue \ SameId(item.id)) \union Retried(item)
          /\ gaveUp' = gaveUp \union (IF Retried(item) = {} THEN {item.alert} ELSE {})
          /\ masked' = masked \union ({log[hand].alert} \ {item.alert})
    BY <1>11 DEF SubmitFails
  <2>2. item \in Tried
    BY <1>7, <1>11, FailingFacts DEF SubmitFails, TypeOK, QueueInv
  <2>3. Retried(item) \subseteq Sightings /\ item.alert \in Alerts
    BY <2>2, RetriedFacts DEF Tried
  <2>4. queue' \subseteq Sightings /\ gaveUp' \subseteq Alerts /\ masked' \subseteq Alerts
    BY <1>7, <1>11, <2>1, <2>3 DEF SubmitFails, TypeOK
  <2>5. received' \subseteq Alerts /\ repeated' \subseteq Alerts /\ unconfirmed' \subseteq Alerts
    BY <1>7, <1>11 DEF SubmitFails, PostFails, Arrives, TypeOK
  <2> QED
    BY <1>7, <1>11, <2>4, <2>5 DEF SubmitFails, TypeOK
<1>12. CASE \E item \in left : FlushItem(item)
  <2>1. PICK item \in left : FlushItem(item)
    BY <1>12
  <2>2. item \in Tried /\ item \in Sightings
    BY DEF TypeOK, Sightings, Tried
  <2>3. Retried(item) \subseteq Sightings /\ item.alert \in Alerts
    BY <2>2, RetriedFacts DEF Tried
  <2>4. kept' \subseteq Sightings /\ gaveUp' \subseteq Alerts
    BY <2>1, <2>2, <2>3 DEF FlushItem, NotDue, Flushed, FlushFails, TypeOK
  <2>5. received' \subseteq Alerts /\ repeated' \subseteq Alerts /\ unconfirmed' \subseteq Alerts
    BY <2>1, <2>3 DEF FlushItem, NotDue, Flushed, FlushFails, PostSucceeds, PostFails, Arrives, TypeOK
  <2> QED
    BY <2>1, <2>4, <2>5 DEF FlushItem, TypeOK
<1>13. CASE KillAgent
  <2>1. {log[i].alert : i \in hand .. offset} \subseteq Alerts
    <3>1. ASSUME NEW i \in hand .. offset
          PROVE  log[i].alert \in Alerts
      <4>1. i \in 1 .. Len(log)
        BY DEF TypeOK
      <4>2. log[i] \in Events
        BY <4>1 DEF TypeOK
      <4> QED
        BY <4>2 DEF Events
    <3> QED
      BY <3>1
  <2>2. offset' \in 0 .. Len(log') /\ hand' \in 1 .. offset' + 1 /\ agentKills' \in 0 .. Kills
    BY <1>1, <1>13, SMTT(60) DEF KillAgent, TypeOK
  <2> QED
    BY <1>13, <2>1, <2>2 DEF KillAgent, TypeOK
<1>14. CASE UNCHANGED vars
  BY <1>14 DEF vars, TypeOK
<1> QED
  BY <1>2, <1>3, <1>4, <1>5, <1>6, <1>8, <1>9, <1>10, <1>11, <1>12, <1>13, <1>14
     DEF Next, Poll, Cycle

LEMMA FileInductive ==
  ASSUME TypeOK, FileInv, [Next]_vars
  PROVE  FileInv'
<1> USE DEF engine, source
<1>0. /\ Len(eve) \in Nat /\ Position \in Nat /\ ReadOfFile \in 0 .. Len(eve)
      /\ raised \in Nat /\ seq \in Nat
  BY DEF TypeOK, Position, ReadOfFile
<1>1. CASE RaiseAlert
  <2>1. /\ raised' = raised + 1 /\ Len(eve') = Len(eve) + 1
        /\ \A i \in 1 .. Len(eve) + 1 : eve'[i] = IF i <= Len(eve) THEN eve[i] ELSE raised + 1
    BY <1>0, <1>1 DEF RaiseAlert, TypeOK
  <2>2. seq' = seq /\ Position' = Position
    BY <1>1 DEF RaiseAlert, Position
  <2>3. ReadOfFile' >= ReadOfFile /\ ReadOfFile' \in Nat
    BY <1>0, <2>1, <2>2 DEF ReadOfFile
  <2>4. \A i \in 1 .. Len(eve') : eve'[i] = raised' - Len(eve') + i
    <3> SUFFICES ASSUME NEW i \in 1 .. Len(eve') PROVE eve'[i] = raised' - Len(eve') + i
      OBVIOUS
    <3>1. raised' - Len(eve') = raised - Len(eve) /\ i \in 1 .. Len(eve) + 1
      BY <1>0, <2>1
    <3>2. CASE i <= Len(eve)
      BY <1>0, <2>1, <3>1, <3>2 DEF FileInv
    <3>3. CASE i > Len(eve)
      BY <1>0, <2>1, <3>1, <3>3
    <3> QED
      BY <1>0, <3>1, <3>2, <3>3
  <2>5. Len(eve') <= raised' /\ seq' <= raised' - Len(eve') + ReadOfFile'
    BY <1>0, <2>1, <2>2, <2>3 DEF FileInv
  <2> QED
    BY <2>4, <2>5 DEF FileInv
<1>2. CASE Rotate
  <2>1. Len(eve') = 0 /\ UNCHANGED <<raised, seq, srcOffset, consumed>>
    BY <1>2 DEF Rotate
  <2>2. ReadOfFile' = 0
    BY <1>0, <2>1 DEF ReadOfFile, Position
  <2> QED
    BY <1>0, <2>1, <2>2 DEF FileInv
<1>3. CASE PollAppend
  <2>1. /\ Position' = Len(eve) /\ UNCHANGED <<raised, eve>> /\ seq' <= raised
    BY <1>3, PollAppendFacts DEF PollAppend
  <2>2. ReadOfFile' = Len(eve) /\ seq' \in Nat
    BY <1>0, <1>3, <2>1, PollAppendFacts DEF ReadOfFile
  <2> QED
    BY <1>0, <2>1, <2>2 DEF FileInv
<1>4. CASE PollSave
  <2>1. Position' = Position /\ UNCHANGED <<raised, eve, seq>>
    BY <1>0, <1>4 DEF PollSave, Position, TypeOK
  <2> QED
    BY <1>0, <2>1 DEF FileInv, ReadOfFile
<1>5. CASE KillSensor
  <2>1. Position' \in Nat /\ UNCHANGED <<raised, eve>> /\ seq' = 0
    BY <1>0, <1>5 DEF KillSensor, Position, TypeOK
  <2> QED
    BY <1>0, <2>1 DEF FileInv, ReadOfFile
<1>6. CASE Cycle \/ KillAgent \/ UNCHANGED vars
  <2>1. UNCHANGED <<raised, eve, seq, srcOffset, consumed>>
    BY <1>6, ReporterFrame DEF vars
  <2> QED
    BY <2>1 DEF FileInv, ReadOfFile, Position
<1> QED
  BY <1>1, <1>2, <1>3, <1>4, <1>5, <1>6 DEF Next, Poll

LEMMA PhaseInductive ==
  ASSUME TypeOK, FileInv, PhaseInv, [Next]_vars
  PROVE  PhaseInv'
<1> USE DEF reporter, arrivals, PhaseInv, InHand
<1>1. CASE Sensing \/ UNCHANGED vars
  <2>1. UNCHANGED <<reporter, received>>
    BY <1>1, SensorFrame DEF vars
  <2>2. sent => log'[hand] = log[hand]
    BY LogGrows DEF TypeOK
  <2> QED
    BY <2>1, <2>2
<1>2. CASE ReadLog \/ SubmitDone \/ SkipFlush \/ StartFlush \/ Rewrite
  BY <1>2, SMTT(60) DEF ReadLog, SubmitDone, SkipFlush, StartFlush, Rewrite, source, TypeOK
<1>3. CASE Ignore \/ RemoveSent \/ SubmitFails
  BY <1>3 DEF Ignore, RemoveSent, SubmitFails
<1>4. CASE Submit
  BY <1>4 DEF Submit, PostSucceeds, Arrives, source
<1>5. CASE \E item \in left : FlushItem(item)
  <2>1. phase = "flush" /\ UNCHANGED <<offset, hand, phase, sent>>
    BY <1>5 DEF FlushItem
  <2> QED
    BY <2>1
<1>6. CASE KillAgent
  BY <1>6 DEF KillAgent
<1> QED
  BY <1>1, <1>2, <1>3, <1>4, <1>5, <1>6 DEF Next, Cycle, Sensing

LEMMA SettledKept ==
  ASSUME [Next]_vars
  PROVE  \A n : Settled(n) => Settled(n)'
<1> USE DEF arrivals, fates, Settled
<1>1. CASE Sensing \/ UNCHANGED vars
  BY <1>1, SensorFrame DEF vars
<1>2. CASE \E item \in left : FlushItem(item)
  BY <1>2 DEF FlushItem, NotDue, Flushed, FlushFails, PostSucceeds, PostFails, Arrives
<1>3. CASE SubmitFails
  BY <1>3 DEF SubmitFails, PostFails, Arrives
<1> QED
  BY <1>1, <1>2, <1>3 DEF Next, Sensing, Cycle, ReadLog, Ignore, Submit, PostSucceeds, Arrives,
       RemoveSent, SubmitDone, SkipFlush, StartFlush, Rewrite, KillAgent

\* What one step of a flush does with a sighting.
LEMMA FlushItemFacts ==
  ASSUME TypeOK, QueueInv, NEW item \in left, FlushItem(item)
  PROVE  /\ item \in Tried /\ item.alert \in Alerts
         /\ left' = left \ {item} /\ phase = "flush"
         /\ UNCHANGED <<engine, source, offset, hand, phase, sent, queue, agentKills>>
         /\ \E back \in SUBSET Sightings :
              /\ kept' = kept \union back
              /\ \A x \in back : x.alert = item.alert /\ x.id = item.id
              /\ \A x, y \in back : x = y
              /\ back = {} => Settled(item.alert)'
              /\ back # {} => NotDue(item) \/ PostFails(item.alert)
<1>1. item \in Tried /\ item \in Sightings /\ item.alert \in Alerts
  BY DEF TypeOK, Sightings, Tried
<1>2. /\ left' = left \ {item} /\ phase = "flush"
      /\ UNCHANGED <<engine, source, offset, hand, phase, sent, queue, agentKills>>
  BY DEF FlushItem
<1>3. CASE NotDue(item)
  <2>1. kept' = kept \union {item} /\ {item} \in SUBSET Sightings
    BY <1>1, <1>3 DEF NotDue
  <2> QED
    BY <1>1, <1>2, <1>3, <2>1
<1>4. CASE Flushed(item)
  <2>1. kept' = kept \union {} /\ Settled(item.alert)'
    BY <1>4 DEF Flushed, PostSucceeds, Arrives, Settled
  <2> QED
    BY <1>1, <1>2, <2>1
<1>5. CASE FlushFails(item)
  <2>1. kept' = kept \union Retried(item) /\ PostFails(item.alert)
    BY <1>5 DEF FlushFails
  <2>2. Retried(item) = {} => Settled(item.alert)'
    BY <1>5 DEF FlushFails, Settled
  <2> QED
    BY <1>1, <1>2, <2>1, <2>2, RetriedFacts
<1> QED
  BY <1>3, <1>4, <1>5 DEF FlushItem

LEMMA QueueInductive ==
  ASSUME TypeOK, FileInv, PhaseInv, QueueInv, [Next]_vars
  PROVE  QueueInv'
<1> USE DEF reporter
<1>1. CASE UNCHANGED <<queue, left, kept, phase>>
  BY <1>1, SettledKept DEF QueueInv, AlertsOf, UniqueIds
<1>2. CASE Sensing \/ UNCHANGED vars
  BY <1>1, <1>2, SensorFrame DEF vars
<1>3. CASE Ignore \/ Submit
  BY <1>1, <1>3 DEF Ignore, Submit
<1>4. CASE ReadLog \/ SubmitDone \/ SkipFlush
  BY <1>4 DEF ReadLog, SubmitDone, SkipFlush, QueueInv, PhaseInv, UniqueIds
<1>5. CASE RemoveSent
  BY <1>5 DEF RemoveSent, InHand, QueueInv, UniqueIds
<1>6. CASE SubmitFails
  <2>1. phase = "submit" /\ log[hand] \in Events /\ queue \subseteq Sightings
    <3>1. hand \in 1 .. Len(log) /\ phase = "submit"
      BY <1>6 DEF SubmitFails, InHand, TypeOK
    <3> QED
      BY <3>1 DEF TypeOK
  <2>2. PICK item \in Failing(log[hand]) :
          queue' = (queue \ SameId(item.id)) \union Retried(item)
    BY <1>6 DEF SubmitFails
  <2>3. item \in Tried /\ SameId(item.id) \subseteq {item}
    BY <2>1, FailingFacts DEF QueueInv
  <2>4. /\ \A x \in queue \ SameId(item.id) : x \in queue /\ x.id # item.id
        /\ \A x \in Retried(item) : x.id = item.id
        /\ \A x, y \in Retried(item) : x = y
    BY <2>3, RetriedFacts DEF SameId
  <2>5. UniqueIds(queue')
    BY <2>2, <2>4 DEF QueueInv, UniqueIds
  <2>6. phase' # "flush" /\ UNCHANGED <<left, kept>>
    BY <1>6, <2>1 DEF SubmitFails
  <2> QED
    BY <2>5, <2>6 DEF QueueInv, UniqueIds
<1>7. CASE StartFlush
  <2>1. left' = queue /\ queue' = queue /\ kept' = {}
    BY <1>7 DEF StartFlush, PhaseInv
  <2> QED
    BY <2>1 DEF QueueInv, UniqueIds, AlertsOf
<1>8. CASE \E item \in left : FlushItem(item)
  <2>1. PICK item \in left : FlushItem(item)
    BY <1>8
  <2>2. /\ left' = left \ {item} /\ phase = "flush" /\ phase' = "flush" /\ queue' = queue
    BY <2>1, FlushItemFacts
  <2>3. PICK back \in SUBSET Sightings :
          /\ kept' = kept \union back
          /\ \A x \in back : x.alert = item.alert /\ x.id = item.id
          /\ \A x, y \in back : x = y
          /\ back = {} => Settled(item.alert)'
    BY <2>1, FlushItemFacts
  <2>4. \A x \in (left \ {item}) \union kept : x.id # item.id
    BY <2>1 DEF QueueInv, UniqueIds
  <2>5. UniqueIds(left' \union kept')
    BY <2>2, <2>3, <2>4 DEF QueueInv, UniqueIds
  <2>6. left' \intersect kept' = {}
    BY <2>2, <2>3, <2>4 DEF QueueInv
  <2>7. ASSUME NEW n \in AlertsOf(queue')
        PROVE  n \in AlertsOf(left') \union AlertsOf(kept') \/ Settled(n)'
    <3>1. CASE Settled(n)
      BY <3>1, SettledKept
    <3>2. CASE n \in AlertsOf(kept)
      BY <3>2, <2>3 DEF AlertsOf
    <3>3. CASE n \in AlertsOf(left) /\ n # item.alert
      BY <3>3, <2>2 DEF AlertsOf
    <3>4. CASE n = item.alert
      BY <3>4, <2>3 DEF AlertsOf
    <3> QED
      BY <2>2, <2>7, <3>1, <3>2, <3>3, <3>4 DEF QueueInv
  <2> QED
    BY <2>2, <2>5, <2>6, <2>7 DEF QueueInv, UniqueIds
<1>9. CASE Rewrite
  BY <1>9 DEF Rewrite, QueueInv, UniqueIds
<1>10. CASE KillAgent
  BY <1>10 DEF KillAgent, QueueInv, UniqueIds
<1> QED
  BY <1>2, <1>3, <1>4, <1>5, <1>6, <1>7, <1>8, <1>9, <1>10 DEF Next, Cycle, Sensing

LEMMA SightingsInductive ==
  ASSUME SightingsInv, [Next]_vars
  PROVE  SightingsInv'
BY TypeInductive, FileInductive, PhaseInductive, QueueInductive DEF SightingsInv

LEMMA SightingsInitial ==
  ASSUME Init
  PROVE  SightingsInv
<1>1. TypeOK
  <2>1. /\ raised \in 0 .. MaxAlerts /\ rotations \in 0 .. Rotations /\ seq \in 0 .. MaxAlerts
        /\ srcOffset \in Nat /\ srcSaved \in Nat /\ consumed \in Nat
        /\ sensorKills \in 0 .. Kills /\ agentKills \in 0 .. Kills
    BY ConstantsAssumption DEF Init
  <2>2. /\ eve \in Seq(Alerts) /\ log \in Seq(Events) /\ offset \in 0 .. Len(log)
        /\ hand \in 1 .. offset + 1
    BY DEF Init
  <2>3. /\ phase \in {"tail", "submit", "due", "flush"} /\ sent \in BOOLEAN
        /\ {queue, left, kept} \subseteq SUBSET Sightings
        /\ {received, repeated, unconfirmed, suppressed, gaveUp, masked, inHand}
             \subseteq SUBSET Alerts
    BY DEF Init
  <2> QED
    BY <2>1, <2>2, <2>3 DEF TypeOK
<1>2. FileInv
  BY DEF Init, FileInv, ReadOfFile, Position
<1> QED
  BY <1>1, <1>2 DEF Init, SightingsInv, PhaseInv, QueueInv, UniqueIds

\* The invariant, type correctness included, for any number of alerts, rotations, kills and
\* attempts: the sensor's mapper, the reporter's offset and queue, and its flush.
THEOREM SightingsTypeCorrect == Spec => []SightingsInv
<1>1. Init => SightingsInv
  BY SightingsInitial
<1>2. SightingsInv /\ [Next]_vars => SightingsInv'
  BY SightingsInductive
<1> QED
  BY <1>1, <1>2, PTL DEF Spec

-----------------------------------------------------------------------------
\* Sightings: what the sensor has read is in the events file.

LEMMA SourceInductive ==
  ASSUME SightingsInv, SourceInv, [Next]_vars
  PROVE  SourceInv'
<1> USE DEF engine, source, SightingsInv
<1>0. /\ Len(eve) \in Nat /\ srcSaved \in Nat /\ srcOffset \in Nat /\ consumed \in Nat
      /\ Position \in Nat /\ eve \in Seq(Alerts)
  BY DEF TypeOK, Position
<1>1. Logged \subseteq Logged'
  BY LogGrows DEF Logged
<1>2. CASE RaiseAlert
  <2>1. /\ Len(eve') = Len(eve) + 1 /\ \A i \in 1 .. Len(eve) : eve'[i] = eve[i]
        /\ UNCHANGED <<rotations, srcSaved, srcOffset, consumed, log>>
    BY <1>0, <1>2 DEF RaiseAlert
  <2>2. Position' = Position /\ Logged' = Logged
    BY <2>1 DEF Position, Logged
  <2>3. ASSUME rotations = 0, NEW i \in 1 .. Len(eve), i <= Position
        PROVE  eve'[i] \in Logged
    BY <2>1, <2>3 DEF SourceInv
  <2> QED
    BY <1>0, <2>1, <2>2, <2>3 DEF SourceInv
<1>3. CASE Rotate
  BY <1>3 DEF Rotate, TypeOK, SourceInv
<1>4. CASE PollAppend
  <2>1. SUFFICES ASSUME rotations = 0
                 PROVE  /\ srcSaved' <= Len(eve)
                        /\ \A i \in 1 .. Len(eve) : eve[i] \in Logged'
    <3>1. Position' = Len(eve) /\ UNCHANGED <<rotations, eve>>
      BY <1>4, PollAppendFacts DEF PollAppend
    <3> QED
      BY <1>0, <3>1 DEF SourceInv
  <2>2. Position = srcOffset /\ srcSaved <= Position /\ Position <= Len(eve)
    BY <1>0, <1>4, <2>1 DEF PollAppend, Position, SourceInv
  <2>3. From = Position
    BY <1>0, <2>2 DEF From
  <2>4. ASSUME NEW i \in 1 .. Len(eve), ~(i <= Position)
        PROVE  eve[i] \in Logged'
    <3>1. /\ i - From \in 1 .. Len(eve) - From /\ From + (i - From) = i
          /\ Len(log) \in Nat /\ Len(log') = Len(log) + Len(eve) - From
      BY <1>0, <1>4, <2>3, <2>4, PollAppendFacts, SMTT(60) DEF TypeOK
    <3>2. /\ log'[Len(log) + (i - From)].alert = eve[i]
          /\ Len(log) + (i - From) \in 1 .. Len(log')
      <4>1. log'[Len(log) + (i - From)] = [alert |-> eve[From + (i - From)], id |-> seq + (i - From)]
        BY <1>4, <3>1, PollAppendFacts
      <4>2. From \in Nat /\ Len(log) + (i - From) \in 1 .. Len(log')
        BY <1>0, <1>4, <3>1, PollAppendFacts
      <4> QED
        BY <3>1, <4>1, <4>2
    <3> QED
      BY <3>2 DEF Logged
  <2> QED
    BY <1>0, <1>1, <1>4, <2>1, <2>2, <2>4 DEF PollAppend, SourceInv
<1>5. CASE PollSave
  <2>1. Position' = Position /\ srcSaved' = Position /\ UNCHANGED <<rotations, eve, log>>
    BY <1>0, <1>5 DEF PollSave, Position
  <2> QED
    BY <1>0, <2>1 DEF SourceInv, Logged
<1>6. CASE KillSensor
  <2>1. UNCHANGED <<rotations, eve, log>> /\ srcSaved' <= Position' /\ Position' \in {srcSaved, 0}
    BY <1>0, <1>6 DEF KillSensor, Position
  <2> QED
    BY <1>0, <2>1 DEF SourceInv, Logged
<1>7. CASE Cycle \/ KillAgent \/ UNCHANGED vars
  <2>1. UNCHANGED <<rotations, eve, log, srcSaved, srcOffset, consumed>>
    BY <1>7, ReporterFrame DEF vars
  <2> QED
    BY <2>1 DEF SourceInv, Position, Logged
<1> QED
  BY <1>2, <1>3, <1>4, <1>5, <1>6, <1>7 DEF Next, Poll

\* The sensor passes over no line of the engine's file before a rotation, whatever is killed
\* between the append and the save of the offset: poll_once of the external sources.
THEOREM NothingSkippedCorrect == Spec => []NothingSkipped
<1>1. Init => SourceInv
  BY DEF Init, SourceInv, Position
<1>2. SightingsInv /\ SourceInv /\ [Next]_vars => SourceInv'
  BY SourceInductive
<1>3. SightingsInv /\ SourceInv => NothingSkipped
  BY DEF SightingsInv, TypeOK, SourceInv, Position, NothingSkipped
<1> QED
  BY <1>1, <1>2, <1>3, SightingsTypeCorrect, PTL DEF Spec

-----------------------------------------------------------------------------
\* Sightings: the reporter loses no sighting.

\* The alerts whose sighting is settled.
Fate == received \union suppressed \union gaveUp \union masked \union inHand

LEMMA FateFacts ==
  ASSUME [Next]_vars
  PROVE  Fate \subseteq Fate'
BY SettledKept DEF Fate, Settled

\* Accounted, of the alerts as sets.
AccountedInv ==
  \A i \in 1 .. offset :
    log[i].alert \in Cti => i >= hand \/ log[i].alert \in AlertsOf(queue) \union Fate

LEMMA AccountedInductive ==
  ASSUME SightingsInv, AccountedInv, [Next]_vars
  PROVE  AccountedInv'
<1> USE DEF SightingsInv, reporter
<1>0. /\ offset \in Nat /\ hand \in Nat /\ Len(log) \in Nat /\ offset <= Len(log)
      /\ InHand => hand \in 1 .. Len(log) /\ log[hand] \in Events
  <2>1. /\ offset \in Nat /\ hand \in Nat /\ Len(log) \in Nat /\ offset <= Len(log)
        /\ InHand => hand \in 1 .. Len(log)
    BY DEF TypeOK, InHand
  <2> QED
    BY <2>1 DEF TypeOK
<1>1. ASSUME NEW i \in 1 .. offset
      PROVE  i \in 1 .. Len(log) /\ log'[i] = log[i] /\ log[i] \in Events
  BY <1>0, LogGrows
<1>2. ASSUME NEW i \in 1 .. offset, log[i].alert \in Cti
      PROVE  i >= hand \/ log[i].alert \in AlertsOf(queue) \/ log[i].alert \in Fate'
  BY <1>2, FateFacts DEF AccountedInv
<1>3. CASE UNCHANGED <<offset, hand, queue>>
  BY <1>1, <1>2, <1>3 DEF AccountedInv, AlertsOf
<1>4. CASE Sensing \/ UNCHANGED vars
  BY <1>3, <1>4, SensorFrame DEF vars
<1>5. CASE ReadLog
  <2>1. hand = offset + 1 /\ hand' = offset + 1 /\ log' = log /\ queue' = queue
    BY <1>5 DEF ReadLog, PhaseInv, source
  <2>2. ASSUME NEW i \in 1 .. offset', log'[i].alert \in Cti
        PROVE  i >= hand' \/ log'[i].alert \in AlertsOf(queue') \/ log'[i].alert \in Fate'
    <3>1. i \in 1 .. offset \/ i >= hand'
      BY <1>0, <2>1
    <3> QED
      BY <1>0, <1>2, <2>1, <2>2, <3>1 DEF AlertsOf
  <2> QED
    BY <2>2 DEF AccountedInv
<1>6. ASSUME UNCHANGED <<offset, log>>, hand' = hand + 1,
             log[hand].alert \in Cti => \/ log[hand].alert \in AlertsOf(queue')
                                        \/ log[hand].alert \in Fate',
             \A n \in AlertsOf(queue) : n \in AlertsOf(queue') \/ n \in Fate'
      PROVE  AccountedInv'
  <2>1. ASSUME NEW i \in 1 .. offset, log[i].alert \in Cti
        PROVE  i >= hand' \/ log[i].alert \in AlertsOf(queue') \/ log[i].alert \in Fate'
    BY <1>0, <1>2, <1>6, <2>1
  <2> QED
    BY <1>6, <2>1 DEF AccountedInv
<1>7. CASE Ignore
  BY <1>6, <1>7 DEF Ignore, Whitelisted, Fate, AlertsOf, source
<1>8. CASE RemoveSent
  <2>1. log[hand].alert \in Fate'
    BY <1>8 DEF RemoveSent, PhaseInv, arrivals, Fate
  <2>2. ASSUME NEW n \in AlertsOf(queue)
        PROVE  n \in AlertsOf(queue') \/ n \in Fate'
    <3>1. PICK item \in queue : item.alert = n
      BY <2>2 DEF AlertsOf
    <3>2. CASE item \in SameId(log[hand].id)
      BY <1>8, <2>1, <3>1, <3>2 DEF RemoveSent, AlertsOf, Fate
    <3>3. CASE item \notin SameId(log[hand].id)
      BY <1>8, <3>1, <3>3 DEF RemoveSent, AlertsOf
    <3> QED
      BY <3>2, <3>3
  <2> QED
    BY <1>6, <1>8, <2>1, <2>2 DEF RemoveSent, source
<1>9. CASE SubmitFails
  <2>1. log[hand] \in Events /\ queue \subseteq Sightings
    BY <1>0, <1>9 DEF SubmitFails, TypeOK
  <2>2. PICK item \in Failing(log[hand]) :
          /\ queue' = (queue \ SameId(item.id)) \union Retried(item)
          /\ gaveUp' = gaveUp \union (IF Retried(item) = {} THEN {item.alert} ELSE {})
          /\ masked' = masked \union ({log[hand].alert} \ {item.alert})
    BY <1>9 DEF SubmitFails
  <2>3. item \in Tried /\ SameId(item.id) \subseteq {item}
    BY <2>1, FailingFacts DEF QueueInv
  <2>4. item.alert \in AlertsOf(queue') \/ item.alert \in Fate'
    <3>1. CASE Retried(item) = {}
      BY <2>2, <3>1 DEF Fate
    <3>2. CASE Retried(item) # {}
      BY <2>2, <2>3, <3>2, RetriedFacts DEF AlertsOf
    <3> QED
      BY <3>1, <3>2
  <2>5. log[hand].alert = item.alert \/ log[hand].alert \in Fate'
    BY <2>2 DEF Fate
  <2>6. ASSUME NEW n \in AlertsOf(queue)
        PROVE  n \in AlertsOf(queue') \/ n \in Fate'
    <3>1. PICK x \in queue : x.alert = n
      BY <2>6 DEF AlertsOf
    <3>2. x = item \/ x \in queue'
      BY <2>2, <2>3
    <3> QED
      BY <2>4, <3>1, <3>2 DEF AlertsOf
  <2> QED
    BY <1>6, <1>9, <2>4, <2>5, <2>6 DEF SubmitFails, source
<1>10. CASE Submit \/ SubmitDone \/ SkipFlush \/ StartFlush
  BY <1>3, <1>10 DEF Submit, SubmitDone, SkipFlush, StartFlush
<1>11. CASE \E item \in left : FlushItem(item)
  BY <1>3, <1>11 DEF FlushItem
<1>12. CASE Rewrite
  <2>1. /\ \A n \in AlertsOf(queue) : n \in AlertsOf(kept) \/ n \in Fate
        /\ AlertsOf(queue') = AlertsOf(kept)
    BY <1>12 DEF Rewrite, QueueInv, AlertsOf, Fate, Settled
  <2>2. UNCHANGED <<offset, hand, log>>
    BY <1>12 DEF Rewrite, source
  <2> QED
    BY <1>2, <2>1, <2>2, FateFacts DEF AccountedInv
<1>13. CASE KillAgent
  <2>1. log' = log /\ queue' = queue /\ (offset' = offset \/ offset' = 0)
    BY <1>13 DEF KillAgent, source
  <2>2. ASSUME NEW i \in 1 .. offset, i >= hand
        PROVE  log[i].alert \in Fate'
    <3>1. i \in hand .. offset
      BY <1>0, <2>2
    <3> QED
      BY <1>13, <3>1 DEF KillAgent, Fate
  <2>3. ASSUME NEW i \in 1 .. offset', log[i].alert \in Cti
        PROVE  log[i].alert \in AlertsOf(queue) \/ log[i].alert \in Fate'
    <3>1. i \in 1 .. offset
      BY <1>0, <2>1
    <3> QED
      BY <1>2, <2>2, <2>3, <3>1
  <2> QED
    BY <2>1, <2>3 DEF AccountedInv, AlertsOf
<1> QED
  BY <1>4, <1>5, <1>7, <1>8, <1>9, <1>10, <1>11, <1>12, <1>13 DEF Next, Cycle, Sensing

\* Every CTI event the reporter has consumed is in hand, queued or settled, through failed
\* posts, flushes, repeated event_ids and kills: process_new_events, flush_queue, the queue.
THEOREM AccountedCorrect == Spec => []Accounted
<1>1. Init => AccountedInv
  BY DEF Init, AccountedInv
<1>2. SightingsInv /\ AccountedInv /\ [Next]_vars => AccountedInv'
  BY AccountedInductive
<1>3. AccountedInv => Accounted
  BY DEF AccountedInv, Accounted, Fate, Settled
<1> QED
  BY <1>1, <1>2, <1>3, SightingsTypeCorrect, PTL DEF Spec

-----------------------------------------------------------------------------
\* Sightings: nothing arrives twice without a cause.

(***************************************************************************)
(* Until the first kill the number of a line is its event_id, so a failure *)
(* is always counted for the event's own sighting, and an alert posted is  *)
(* one that no other line and no queued sighting stands for.               *)
(***************************************************************************)
Unkilled == LoggedOnce /\ QueuedOnce /\ SentOnce

LEMMA LoggedOnceInductive ==
  ASSUME SightingsInv, LoggedOnce, [Next]_vars, NotKilled'
  PROVE  LoggedOnce'
<1> USE DEF engine, source, SightingsInv
<1>0. /\ Len(eve) \in Nat /\ Position \in Nat /\ ReadOfFile \in 0 .. Len(eve)
      /\ raised \in Nat /\ Len(log) \in Nat /\ seq \in Nat
  BY DEF TypeOK, Position, ReadOfFile
<1>1. \A i \in 1 .. Len(log) : log[i].alert \in Nat
  <2>1. \A i \in 1 .. Len(log) : log[i] \in Events
    BY DEF TypeOK
  <2> QED
    BY <2>1, ConstantsAssumption DEF Events, Alerts
<1>2. ASSUME UNCHANGED <<seq, log>>, raised' - Len(eve') + ReadOfFile' >= raised - Len(eve) + ReadOfFile,
             raised' - Len(eve') + ReadOfFile' \in Int
      PROVE  LoggedOnce'
  BY <1>0, <1>1, <1>2 DEF LoggedOnce
<1>3. CASE RaiseAlert
  <2>1. /\ raised' = raised + 1 /\ Len(eve') = Len(eve) + 1
        /\ UNCHANGED <<seq, log, srcOffset, consumed>>
    BY <1>0, <1>3 DEF RaiseAlert, TypeOK
  <2>2. ReadOfFile' >= ReadOfFile /\ ReadOfFile' \in Nat
    BY <1>0, <2>1 DEF ReadOfFile, Position
  <2> QED
    BY <1>0, <1>2, <2>1, <2>2
<1>4. CASE Rotate
  <2>1. Len(eve') = 0 /\ UNCHANGED <<raised, seq, log, srcOffset, consumed>>
    BY <1>4 DEF Rotate
  <2>2. ReadOfFile' = 0
    BY <1>0, <2>1 DEF ReadOfFile, Position
  <2> QED
    BY <1>0, <1>2, <2>1, <2>2
<1>5. CASE PollAppend
  <2> DEFINE k == Len(eve) - From
  <2>1. /\ From \in Nat /\ From = ReadOfFile /\ k \in Nat /\ Position' = Len(eve)
        /\ seq' = seq + k /\ Len(log') = Len(log) + k
        /\ \A i \in 1 .. Len(log) : log'[i] = log[i]
        /\ \A i \in 1 .. k : log'[Len(log) + i] = [alert |-> eve[From + i], id |-> seq + i]
        /\ UNCHANGED <<raised, eve>>
    BY <1>0, <1>5, PollAppendFacts DEF PollAppend
  <2>2. ReadOfFile' = Len(eve)
    BY <1>0, <2>1 DEF ReadOfFile
  <2>3. ASSUME NEW i \in 1 .. k
        PROVE  /\ log'[Len(log) + i].alert = raised - Len(eve) + From + i
               /\ log'[Len(log) + i].id = Len(log) + i
    <3>1. From + i \in 1 .. Len(eve) /\ From \in Nat
      BY <1>0, <2>1
    <3>2. log'[Len(log) + i].alert = eve[From + i] /\ log'[Len(log) + i].id = seq + i
      <4>1. log'[Len(log) + i] = [alert |-> eve[From + i], id |-> seq + i]
        <5> HIDE DEF k
        <5> QED
          BY <2>1, Zenon
      <4> QED
        BY <4>1
    <3>3. eve[From + i] = raised - Len(eve) + (From + i)
      BY <3>1 DEF FileInv
    <3> QED
      BY <1>0, <3>1, <3>2, <3>3 DEF LoggedOnce
  <2>4. ASSUME NEW i \in 1 .. Len(log'), i > Len(log)
        PROVE  log'[i].alert = raised - Len(eve) + From + (i - Len(log)) /\ log'[i].id = i
    <3>1. i - Len(log) \in 1 .. k /\ Len(log) + (i - Len(log)) = i
      BY <1>0, <2>1, <2>4
    <3> HIDE DEF k
    <3> QED
      BY <2>3, <3>1
  <2>5. \A i \in 1 .. Len(log) :
          log'[i] = log[i] /\ log'[i].id = i /\ log'[i].alert <= raised - Len(eve) + From
    BY <2>1 DEF LoggedOnce
  <2>6. \A i, j \in 1 .. Len(log') : i < j => log'[i].alert < log'[j].alert
    <3>1. SUFFICES ASSUME NEW i \in 1 .. Len(log'), NEW j \in 1 .. Len(log'), i < j
                   PROVE  log'[i].alert < log'[j].alert
      OBVIOUS
    <3>2. CASE j <= Len(log)
      BY <1>0, <2>5, <3>1, <3>2 DEF LoggedOnce
    <3>3. CASE i <= Len(log) /\ j > Len(log)
      <4>1. i \in 1 .. Len(log) /\ log[i].alert \in Nat /\ log'[i].alert = log[i].alert
            /\ log[i].alert <= raised - Len(eve) + From
        BY <1>0, <1>1, <2>5, <3>1, <3>3
      <4>2. log'[j].alert = raised - Len(eve) + From + (j - Len(log)) /\ j - Len(log) > 0
        BY <1>0, <2>1, <2>4, <3>1, <3>3
      <4>3. Len(log') \in Nat /\ j \in Nat /\ From \in Nat
        BY <1>0, <2>1, <3>1
      <4> HIDE DEF k
      <4> QED
        BY <1>0, <4>1, <4>2, <4>3
    <3>4. CASE i > Len(log)
      BY <1>0, <2>1, <2>4, <3>1, <3>4
    <3> QED
      BY <1>0, <3>1, <3>2, <3>3, <3>4
  <2>7. \A i \in 1 .. Len(log') : log'[i].id = i /\ log'[i].alert <= raised
    BY <1>0, <1>1, <2>1, <2>4, <2>5, SMTT(60)
  <2> QED
    BY <1>0, <2>1, <2>2, <2>6, <2>7 DEF LoggedOnce
<1>6. CASE PollSave
  <2>1. Position' = Position /\ UNCHANGED <<raised, eve, seq, log>>
    BY <1>6 DEF PollSave, Position, TypeOK
  <2>2. ReadOfFile' = ReadOfFile
    BY <2>1 DEF ReadOfFile
  <2> QED
    BY <1>0, <1>2, <2>1, <2>2
<1>7. CASE KillSensor
  BY <1>7 DEF KillSensor, NotKilled, TypeOK
<1>8. CASE Cycle \/ KillAgent \/ UNCHANGED vars
  <2>1. UNCHANGED <<raised, eve, seq, log, srcOffset, consumed>>
    BY <1>8, ReporterFrame DEF vars
  <2>2. ReadOfFile' = ReadOfFile
    BY <2>1 DEF ReadOfFile, Position
  <2> QED
    BY <1>0, <1>2, <2>1, <2>2
<1> QED
  BY <1>3, <1>4, <1>5, <1>6, <1>7, <1>8 DEF Next, Poll

LEMMA QueuedOnceInductive ==
  ASSUME SightingsInv, LoggedOnce, QueuedOnce, [Next]_vars, NotKilled'
  PROVE  QueuedOnce'
<1> USE DEF reporter, SightingsInv
<1>0. /\ hand \in Nat /\ offset \in Nat /\ Len(log) \in Nat /\ hand <= offset + 1 /\ offset <= Len(log)
      /\ InHand => hand \in 1 .. Len(log) /\ log[hand] \in Events /\ log[hand].id = hand
  <2>1. /\ hand \in Nat /\ offset \in Nat /\ Len(log) \in Nat /\ hand <= offset + 1 /\ offset <= Len(log)
        /\ InHand => hand \in 1 .. Len(log)
    BY DEF TypeOK, InHand
  <2> QED
    BY <2>1 DEF TypeOK, LoggedOnce
<1>1. ASSUME NEW item \in queue \union left \union kept
      PROVE  item.id \in Nat /\ item.id < hand /\ item.alert = log[item.id].alert /\ log'[item.id] = log[item.id]
  <2>1. item.id \in 1 .. MaxAlerts /\ item.id < hand /\ item.alert = log[item.id].alert
    BY <1>1 DEF QueuedOnce, TypeOK, Sightings
  <2>2. item.id \in 1 .. Len(log)
    BY <1>0, <2>1, ConstantsAssumption
  <2> QED
    BY <2>1, <2>2, LogGrows
<1>2. ASSUME (queue \union left \union kept)' \subseteq queue \union left \union kept, hand' \in Nat, hand' >= hand
      PROVE  QueuedOnce'
  BY <1>0, <1>1, <1>2 DEF QueuedOnce
<1>3. CASE Sensing \/ UNCHANGED vars
  BY <1>0, <1>2, <1>3, SensorFrame DEF vars
<1>4. CASE ReadLog
  BY <1>0, <1>2, <1>4 DEF ReadLog, PhaseInv
<1>5. CASE Ignore \/ Submit
  BY <1>0, <1>2, <1>5 DEF Ignore, Submit
<1>6. CASE RemoveSent
  BY <1>0, <1>2, <1>6 DEF RemoveSent
<1>7. CASE SubmitDone \/ SkipFlush \/ StartFlush \/ Rewrite
  BY <1>0, <1>2, <1>7 DEF SubmitDone, SkipFlush, StartFlush, Rewrite
<1>8. CASE KillAgent
  BY <1>8 DEF KillAgent, NotKilled, TypeOK
<1>9. CASE SubmitFails
  <2>1. queue \subseteq Sightings /\ log[hand] \in Events /\ log[hand].id = hand /\ phase = "submit"
    BY <1>0, <1>9 DEF SubmitFails, InHand, TypeOK
  <2>2. PICK item \in Failing(log[hand]) :
          queue' = (queue \ SameId(item.id)) \union Retried(item)
    BY <1>9 DEF SubmitFails
  <2>3. item \in Tried /\ item.id = hand /\ (item \in queue \/ item.alert = log[hand].alert)
    BY <2>1, <2>2, FailingFacts DEF QueueInv
  <2>4. item \notin queue
    BY <1>0, <1>1, <2>3
  <2>5. \A x \in Retried(item) : x.id = hand /\ x.alert = log[hand].alert
    BY <2>3, <2>4, RetriedFacts
  <2>6. UNCHANGED <<left, kept, log>> /\ hand' = hand + 1
    BY <1>9 DEF SubmitFails, source
  <2>7. ASSUME NEW x \in (queue \union left \union kept)'
        PROVE  x.id < hand' /\ x.alert = log'[x.id].alert
    <3>1. CASE x \in queue \union left \union kept
      BY <1>0, <1>1, <2>6, <3>1
    <3>2. CASE x \in Retried(item)
      BY <1>0, <2>5, <2>6, <3>2
    <3> QED
      BY <2>2, <2>6, <2>7, <3>1, <3>2
  <2> QED
    BY <2>7 DEF QueuedOnce
<1>10. CASE \E item \in left : FlushItem(item)
  <2>1. PICK item \in left : FlushItem(item)
    BY <1>10
  <2>2. left' = left \ {item} /\ queue' = queue /\ hand' = hand
    BY <2>1, FlushItemFacts
  <2>3. PICK back \in SUBSET Sightings :
          /\ kept' = kept \union back
          /\ \A x \in back : x.alert = item.alert /\ x.id = item.id
    BY <2>1, FlushItemFacts
  <2>4. item.id < hand /\ item.alert = log[item.id].alert /\ log'[item.id] = log[item.id]
    BY <1>1
  <2>5. ASSUME NEW x \in (queue \union left \union kept)'
        PROVE  x.id < hand' /\ x.alert = log'[x.id].alert
    <3>1. CASE x \in queue \union left \union kept
      BY <1>1, <2>2, <3>1
    <3>2. CASE x \in back
      BY <2>2, <2>3, <2>4, <3>2
    <3> QED
      BY <2>2, <2>3, <2>5, <3>1, <3>2
  <2> QED
    BY <2>5 DEF QueuedOnce
<1> QED
  BY <1>3, <1>4, <1>5, <1>6, <1>7, <1>8, <1>9, <1>10 DEF Next, Cycle, Sensing

LEMMA LinesDiffer ==
  ASSUME TypeOK, LoggedOnce,
         NEW i \in 1 .. Len(log), NEW j \in 1 .. Len(log), log[i].alert = log[j].alert
  PROVE  i = j
<1>1. log[i] \in Events /\ log[j] \in Events
  BY DEF TypeOK
<1>2. log[i].alert \in Int /\ log[j].alert \in Int
  BY <1>1, ConstantsAssumption DEF Events, Alerts
<1> QED
  BY <1>2 DEF LoggedOnce

LEMMA SentOnceInductive ==
  ASSUME SightingsInv, Unkilled, LoggedOnce', [Next]_vars, NotKilled'
  PROVE  SentOnce'
<1> USE DEF reporter, arrivals, fates, SightingsInv, Unkilled
<1>0. /\ hand \in Nat /\ offset \in Nat /\ Len(log) \in Nat /\ offset <= Len(log)
      /\ InHand => hand \in 1 .. Len(log) /\ log[hand] \in Events /\ log[hand].id = hand
  <2>1. /\ hand \in Nat /\ offset \in Nat /\ Len(log) \in Nat /\ offset <= Len(log)
        /\ InHand => hand \in 1 .. Len(log)
    BY DEF TypeOK, InHand
  <2> QED
    BY <2>1 DEF TypeOK, LoggedOnce
<1>1. ASSUME NEW item \in queue \union left \union kept
      PROVE  /\ item.id \in 1 .. Len(log) /\ item.id < hand
             /\ item.alert = log[item.id].alert /\ item.alert \in Logged
  <2>1. item.id \in 1 .. MaxAlerts /\ item.id < hand /\ item.alert = log[item.id].alert
    BY <1>1 DEF QueuedOnce, TypeOK, Sightings
  <2>2. item.id \in 1 .. Len(log)
    <3>1. hand <= offset + 1
      BY DEF TypeOK
    <3> QED
      BY <1>0, <2>1, <3>1, ConstantsAssumption
  <2> QED
    BY <2>1, <2>2 DEF Logged
<1>2. Logged \subseteq Logged'
  BY LogGrows DEF Logged
<1>3. \A i, j \in 1 .. Len(log) : log[i].alert = log[j].alert => i = j
  BY LinesDiffer
<1>4. ASSUME NEW n \in received \ unconfirmed
      PROVE  /\ \A i \in 1 .. Len(log) : log[i].alert = n => i < hand \/ (i = hand /\ sent)
             /\ n \notin AlertsOf(left \union kept)
             /\ phase # "flush" => n \notin AlertsOf(queue)
  BY <1>4 DEF SentOnce
<1>5. CASE Sensing \/ UNCHANGED vars
  <2>1. UNCHANGED <<reporter, queue, received, unconfirmed>>
    BY <1>5, SensorFrame DEF vars
  <2>2. ASSUME NEW n \in received \ unconfirmed, NEW i \in 1 .. Len(log'), log'[i].alert = n
        PROVE  i < hand \/ (i = hand /\ sent)
    <3>1. PICK j \in 1 .. Len(log) : log[j].alert = n
      BY <2>2 DEF SentOnce, Logged
    <3>2. j \in 1 .. Len(log') /\ log'[j] = log[j]
      BY <1>0, LogGrows
    <3>3. log' \in Seq(Events) /\ Len(log') \in Nat
      BY LogGrows
    <3>4. i = j
      <4>1. log'[i] \in Events /\ log'[j] \in Events
        BY <2>2, <3>2, <3>3
      <4>2. log'[i].alert \in Int /\ log'[j].alert \in Int
        BY <4>1, ConstantsAssumption DEF Events, Alerts
      <4> QED
        BY <2>2, <3>1, <3>2, <3>3, <4>2 DEF LoggedOnce
    <3> QED
      BY <1>4, <2>2, <3>1, <3>4
  <2> QED
    BY <1>2, <1>4, <2>1, <2>2 DEF SentOnce, AlertsOf
<1>6. ASSUME log' = log, UNCHANGED <<received, unconfirmed>>,
             \A n \in received \ unconfirmed :
               /\ \A i \in 1 .. Len(log) : log[i].alert = n => i < hand' \/ (i = hand' /\ sent')
               /\ n \notin AlertsOf((left \union kept)')
               /\ phase' # "flush" => n \notin AlertsOf(queue')
      PROVE  SentOnce'
  BY <1>6 DEF SentOnce, Logged
<1>7. CASE ReadLog \/ Ignore \/ RemoveSent \/ SubmitDone \/ SkipFlush
  <2>1. /\ log' = log /\ UNCHANGED <<received, unconfirmed, left, kept>>
        /\ phase # "flush" /\ queue' \subseteq queue
        /\ \A i \in 1 .. Len(log) : i < hand \/ (i = hand /\ sent) => i < hand' \/ (i = hand' /\ sent')
    BY <1>0, <1>7 DEF ReadLog, Ignore, RemoveSent, SubmitDone, SkipFlush, InHand, PhaseInv, source
  <2>2. AlertsOf(queue') \subseteq AlertsOf(queue)
    BY <2>1 DEF AlertsOf
  <2> QED
    BY <1>4, <1>6, <2>1, <2>2
<1>8. CASE StartFlush
  <2>1. /\ log' = log /\ UNCHANGED <<received, unconfirmed, hand, sent, queue>>
        /\ phase # "flush" /\ phase' = "flush" /\ (left \union kept)' = queue
    BY <1>8 DEF StartFlush, PhaseInv, source
  <2> QED
    BY <1>4, <1>6, <2>1
<1>9. CASE Rewrite
  <2>1. /\ log' = log /\ UNCHANGED <<received, unconfirmed, hand, sent>>
        /\ queue' = kept /\ (left \union kept)' = {}
    BY <1>9 DEF Rewrite, source
  <2>2. AlertsOf({}) = {} /\ AlertsOf(kept) \subseteq AlertsOf(left \union kept)
    BY DEF AlertsOf
  <2> QED
    BY <1>4, <1>6, <2>1, <2>2
<1>10. CASE KillAgent
  BY <1>10 DEF KillAgent, NotKilled, TypeOK
\* A post that succeeds: its alert has arrived, and no line after it and no sighting stands for it.
<1>11. ASSUME log' = log, UNCHANGED unconfirmed, NEW n \in Logged,
              received' = received \union {n}, hand' = hand, phase' = phase, queue' = queue,
              sent => sent', (left \union kept)' \subseteq left \union kept,
              \A i \in 1 .. Len(log) : log[i].alert = n => i < hand \/ (i = hand /\ sent'),
              n \notin AlertsOf((left \union kept)'),
              phase # "flush" => n \notin AlertsOf(queue)
       PROVE  SentOnce'
  <2>1. AlertsOf((left \union kept)') \subseteq AlertsOf(left \union kept)
    BY <1>11 DEF AlertsOf
  <2>2. received' \subseteq Logged'
    BY <1>2, <1>11 DEF SentOnce
  <2>3. ASSUME NEW m \in (received \ unconfirmed)'
        PROVE  /\ \A i \in 1 .. Len(log) : log[i].alert = m => i < hand \/ (i = hand /\ sent')
               /\ m \notin AlertsOf((left \union kept)')
               /\ phase # "flush" => m \notin AlertsOf(queue)
    <3>1. CASE m = n
      BY <1>11, <3>1
    <3>2. CASE m # n
      <4>1. m \in received \ unconfirmed
        BY <1>11, <2>3, <3>2
      <4> QED
        BY <1>4, <1>11, <2>1, <4>1
    <3> QED
      BY <3>1, <3>2
  <2> QED
    BY <1>11, <2>2, <2>3 DEF SentOnce
<1>12. CASE Submit
  <2> DEFINE n == log[hand].alert
  <2>1. /\ log' = log /\ UNCHANGED <<unconfirmed, hand, phase, queue, left, kept>>
        /\ received' = received \union {n} /\ sent' = TRUE
        /\ InHand /\ phase = "submit"
    BY <1>12 DEF Submit, PostSucceeds, Arrives, InHand, source
  <2>2. n \in Logged
    BY <1>0, <2>1 DEF Logged
  <2>3. \A i \in 1 .. Len(log) : log[i].alert = n => i = hand
    BY <1>0, <1>3, <2>1
  <2>4. n \notin AlertsOf(queue)
    <3>1. \A item \in queue : item.alert # n
      BY <1>0, <1>1, <2>3
    <3> QED
      BY <3>1 DEF AlertsOf
  <2>5. left \union kept = {} /\ AlertsOf({}) = {}
    BY <2>1 DEF PhaseInv, AlertsOf
  <2> HIDE DEF n
  <2> QED
    BY <1>11, <2>1, <2>2, <2>3, <2>4, <2>5
\* A post that fails: if its alert has arrived it is unconfirmed.
<1>13. ASSUME log' = log, NEW n \in Logged, n \notin received \ unconfirmed, PostFails(n),
              \A i \in 1 .. Len(log) : i < hand \/ (i = hand /\ sent) => i < hand' \/ (i = hand' /\ sent'),
              AlertsOf((left \union kept)') \subseteq AlertsOf(left \union kept) \union {n},
              phase' = phase,
              phase # "flush" => AlertsOf(queue') \subseteq AlertsOf(queue) \union {n}
       PROVE  SentOnce'
  <2>1. /\ received' \subseteq received \union {n}
        /\ (received \ unconfirmed)' \subseteq received \ unconfirmed
        /\ n \notin (received \ unconfirmed)'
    BY <1>13 DEF PostFails, Arrives
  <2>2. received' \subseteq Logged'
    BY <1>2, <1>13, <2>1 DEF SentOnce
  <2>3. ASSUME NEW m \in (received \ unconfirmed)'
        PROVE  /\ \A i \in 1 .. Len(log) : log[i].alert = m => i < hand' \/ (i = hand' /\ sent')
               /\ m \notin AlertsOf((left \union kept)')
               /\ phase # "flush" => m \notin AlertsOf(queue')
    <3>1. m # n /\ m \in received \ unconfirmed
      BY <2>1, <2>3
    <3> QED
      BY <1>4, <1>13, <3>1
  <2> QED
    BY <1>13, <2>2, <2>3 DEF SentOnce
<1>14. CASE SubmitFails
  <2> DEFINE n == log[hand].alert
  <2>1. /\ log' = log /\ UNCHANGED <<phase, left, kept>> /\ hand' = hand + 1 /\ sent' = sent
        /\ PostFails(n) /\ InHand /\ ~sent /\ phase = "submit"
    BY <1>14 DEF SubmitFails, InHand, source
  <2>2. n \in Logged /\ n \notin received \ unconfirmed
    <3>1. hand \in 1 .. Len(log) /\ ~sent /\ ~(hand < hand)
      BY <1>0, <2>1
    <3> QED
      BY <1>4, <3>1 DEF Logged
  <2>3. queue \subseteq Sightings /\ log[hand] \in Events
    BY <1>0, <2>1 DEF TypeOK
  <2>4. PICK item \in Failing(log[hand]) :
          queue' = (queue \ SameId(item.id)) \union Retried(item)
    BY <1>14 DEF SubmitFails
  <2>5. item \in Tried /\ item.id = hand /\ (item \in queue \/ item.alert = n)
    BY <1>0, <2>1, <2>3, <2>4, FailingFacts DEF QueueInv
  <2>6. item.alert = n
    BY <1>0, <1>1, <2>5
  <2>7. AlertsOf(queue') \subseteq AlertsOf(queue) \union {n}
    BY <2>4, <2>5, <2>6, RetriedFacts DEF AlertsOf
  <2>8. \A i \in 1 .. Len(log) : i < hand \/ (i = hand /\ sent) => i < hand' \/ (i = hand' /\ sent')
    BY <1>0, <2>1
  <2>9. AlertsOf((left \union kept)') = AlertsOf(left \union kept)
    BY <2>1
  <2> HIDE DEF n
  <2> QED
    BY <1>13, <2>1, <2>2, <2>7, <2>8, <2>9
<1>15. CASE \E item \in left : FlushItem(item)
  <2>1. PICK item \in left : FlushItem(item)
    BY <1>15
  <2>2. /\ left' = left \ {item} /\ phase = "flush"
        /\ UNCHANGED <<log, phase, hand, sent, queue>>
    BY <2>1, FlushItemFacts DEF source
  <2>3. /\ item.alert \in Logged /\ item.id \in 1 .. Len(log) /\ item.id < hand
        /\ item.alert = log[item.id].alert
    BY <1>1
  <2>4. item.alert \notin received \ unconfirmed
    BY <1>4 DEF AlertsOf
  <2>5. CASE NotDue(item)
    <3>1. UNCHANGED <<received, unconfirmed>> /\ (left \union kept)' = left \union kept
      BY <2>2, <2>5 DEF NotDue
    <3> QED
      BY <1>4, <1>6, <2>2, <3>1
  <2>6. CASE Flushed(item)
    <3>1. /\ received' = received \union {item.alert} /\ UNCHANGED <<unconfirmed, kept>>
      BY <2>6 DEF Flushed, PostSucceeds, Arrives
    <3>2. ASSUME NEW x \in (left \ {item}) \union kept
          PROVE  x.alert # item.alert
      <4>1. x.id # item.id
        BY <3>2 DEF QueueInv, UniqueIds
      <4> QED
        BY <1>1, <1>3, <2>3, <3>2, <4>1
    <3>3. item.alert \notin AlertsOf((left \union kept)') /\ (left \union kept)' \subseteq left \union kept
      BY <2>2, <3>1, <3>2 DEF AlertsOf
    <3>4. \A i \in 1 .. Len(log) : log[i].alert = item.alert => i < hand
      BY <1>3, <2>3
    <3> QED
      BY <1>11, <2>2, <2>3, <3>1, <3>3, <3>4
  <2>7. CASE FlushFails(item)
    <3>1. PostFails(item.alert) /\ kept' = kept \union Retried(item)
      BY <2>7 DEF FlushFails
    <3>2. \A x \in Retried(item) : x.alert = item.alert
      BY <2>1, FlushItemFacts, RetriedFacts
    <3>3. AlertsOf((left \union kept)') \subseteq AlertsOf(left \union kept) \union {item.alert}
      BY <2>2, <3>1, <3>2 DEF AlertsOf
    <3> QED
      BY <1>13, <2>2, <2>3, <2>4, <3>1, <3>3
  <2> QED
    BY <2>1, <2>5, <2>6, <2>7 DEF FlushItem
<1> QED
  BY <1>5, <1>7, <1>8, <1>9, <1>10, <1>12, <1>14, <1>15 DEF Next, Cycle, Sensing

LEMMA DuplicatesInductive ==
  ASSUME SightingsInv, NotKilled => Unkilled, DuplicatesExplained, [Next]_vars
  PROVE  DuplicatesExplained'
<1> USE DEF arrivals, fates
<1>1. /\ agentKills' >= agentKills /\ sensorKills' >= sensorKills
      /\ agentKills \in Nat /\ sensorKills \in Nat /\ agentKills' \in Nat /\ sensorKills' \in Nat
  <2>1. UNCHANGED <<agentKills, sensorKills>> \/ KillSensor \/ KillAgent
    <3>1. CASE \E item \in left : FlushItem(item)
      BY <3>1 DEF FlushItem, source
    <3> QED
      BY <3>1 DEF Next, Poll, Cycle, RaiseAlert, Rotate, PollAppend, PollSave, ReadLog, Ignore, Submit,
           RemoveSent, SubmitFails, SubmitDone, SkipFlush, StartFlush, Rewrite, source, vars
  <2>2. agentKills \in Nat /\ sensorKills \in Nat
    BY DEF SightingsInv, TypeOK
  <2> QED
    BY <2>1, <2>2 DEF KillSensor, KillAgent, source
<1>2. ASSUME unconfirmed \subseteq unconfirmed',
             \A n \in repeated' : n \in repeated \/ n \in unconfirmed' \/ ~NotKilled
      PROVE  DuplicatesExplained'
  BY <1>1, <1>2 DEF DuplicatesExplained, NotKilled
<1>3. CASE UNCHANGED <<repeated, unconfirmed>>
  BY <1>2, <1>3
<1>4. CASE Sensing \/ UNCHANGED vars
  BY <1>3, <1>4, SensorFrame DEF vars
<1>5. ASSUME NEW n, PostFails(n)
      PROVE  DuplicatesExplained'
  BY <1>2, <1>5 DEF PostFails, Arrives
<1>6. ASSUME NEW n, PostSucceeds(n), NotKilled => n \notin received \ unconfirmed
      PROVE  DuplicatesExplained'
  <2>1. ASSUME NEW m \in repeated'
        PROVE  m \in repeated \/ m \in unconfirmed' \/ ~NotKilled
    BY <1>6, <2>1 DEF PostSucceeds, Arrives
  <2> QED
    BY <1>2, <1>6, <2>1 DEF PostSucceeds
<1>7. CASE Submit
  <2>1. NotKilled => log[hand].alert \notin received \ unconfirmed
    <3>1. hand \in 1 .. Len(log) /\ ~sent /\ ~(hand < hand)
      BY <1>7 DEF Submit, InHand, SightingsInv, TypeOK
    <3> QED
      BY <3>1 DEF Unkilled, SentOnce
  <2> QED
    BY <1>6, <1>7, <2>1 DEF Submit
<1>8. CASE SubmitFails
  BY <1>5, <1>8 DEF SubmitFails
<1>9. CASE \E item \in left : FlushItem(item)
  <2>1. PICK item \in left : FlushItem(item)
    BY <1>9
  <2>2. NotKilled => item.alert \notin received \ unconfirmed
    BY <2>1 DEF Unkilled, SentOnce, AlertsOf
  <2>3. CASE NotDue(item)
    BY <1>3, <2>3 DEF NotDue
  <2>4. CASE Flushed(item)
    BY <1>6, <2>2, <2>4 DEF Flushed
  <2>5. CASE FlushFails(item)
    BY <1>5, <2>5 DEF FlushFails
  <2> QED
    BY <2>1, <2>3, <2>4, <2>5 DEF FlushItem
<1>10. CASE ReadLog \/ Ignore \/ RemoveSent \/ SubmitDone \/ SkipFlush \/ StartFlush \/ Rewrite \/ KillAgent
  BY <1>3, <1>10 DEF ReadLog, Ignore, RemoveSent, SubmitDone, SkipFlush, StartFlush, Rewrite, KillAgent
<1> QED
  BY <1>4, <1>7, <1>8, <1>9, <1>10 DEF Next, Cycle, Sensing

LEMMA OnceInductive ==
  ASSUME SightingsInv, OnceInv, [Next]_vars
  PROVE  OnceInv'
<1>1. NotKilled' => NotKilled
  <2>1. CASE \E item \in left : FlushItem(item)
    BY <2>1 DEF FlushItem, source, NotKilled
  <2> QED
    BY <2>1 DEF NotKilled, SightingsInv, TypeOK, Next, Poll, Cycle, RaiseAlert, Rotate, PollAppend,
         PollSave, KillSensor, ReadLog, Ignore, Submit, RemoveSent, SubmitFails, SubmitDone,
         SkipFlush, StartFlush, Rewrite, KillAgent, source, vars
<1>2. ASSUME NotKilled'
      PROVE  LoggedOnce' /\ QueuedOnce' /\ SentOnce'
  <2>1. LoggedOnce /\ QueuedOnce /\ SentOnce
    BY <1>1, <1>2 DEF OnceInv
  <2>2. LoggedOnce' /\ QueuedOnce'
    BY <1>2, <2>1, LoggedOnceInductive, QueuedOnceInductive
  <2> QED
    BY <1>2, <2>1, <2>2, SentOnceInductive DEF Unkilled
<1>3. DuplicatesExplained'
  BY DuplicatesInductive DEF OnceInv, Unkilled
<1> QED
  BY <1>2, <1>3 DEF OnceInv

\* A sighting reaches the service twice only if a post reported as failed had arrived or a
\* kill repeated what was done: the reporter's posts, its queue's event_ids and its flush.
THEOREM DuplicatesExplainedCorrect == Spec => []DuplicatesExplained
<1>1. Init => OnceInv
  BY DEF Init, OnceInv, LoggedOnce, QueuedOnce, SentOnce, DuplicatesExplained, ReadOfFile, Position
<1>2. SightingsInv /\ OnceInv /\ [Next]_vars => OnceInv'
  BY OnceInductive
<1>3. OnceInv => DuplicatesExplained
  BY DEF OnceInv
<1> QED
  BY <1>1, <1>2, <1>3, SightingsTypeCorrect, PTL DEF Spec

-----------------------------------------------------------------------------
\* RuleUpdate: proofs.

LEMMA OutcomeFacts ==
  ASSUME NEW v \in 0 .. MaxUpdates, NEW ok \in BOOLEAN
  PROVE  [version |-> v, ok |-> ok] \in Outcomes
BY DEF Outcomes

LEMMA ReportFacts ==
  /\ \A o \in Outcomes : [about |-> "update", result |-> o] \in Reports
  /\ \A ok \in BOOLEAN : [about |-> "bundle", ok |-> ok] \in Reports
  /\ \A r \in Reports : r.about = "update" => r.result \in Outcomes
BY DEF Reports

LEMMA EndsFacts ==
  ASSUME NEW ok \in BOOLEAN, NEW at, updates \in 0 .. MaxUpdates, Ends(ok, at)
  PROVE  outcome' \in Outcomes /\ updAt' = at
BY OutcomeFacts DEF Ends

\* Type correctness of the rule update, its runner, the bundles and the reports.
THEOREM UpdateTypeCorrect == UpdateSpec => []UpdateTypeOK
<1>1. UpdateInit => UpdateTypeInv
  <2> SUFFICES ASSUME UpdateInit
               PROVE  UpdateTypeInv
    OBVIOUS
  <2>1. outcome \in Outcomes /\ updStatus \in Outcomes /\ heard \in Reports
    <3>1. 0 \in 0 .. MaxUpdates
      BY UpdateAssumption
    <3>2. outcome \in Outcomes /\ updStatus = outcome
      BY <3>1, OutcomeFacts DEF UpdateInit
    <3> QED
      BY <3>2, ReportFacts DEF UpdateInit
  <2>2. /\ {community, running} \subseteq {0, Torn} \cup Updates
        /\ {healthCmd, reloadCmd, lateReload, spoiled} \subseteq BOOLEAN
        /\ late \subseteq Updates
    BY DEF UpdateInit
  <2>3. /\ updAt = "idle" /\ updates \in 0 .. MaxUpdates
        /\ bundleAt = "idle" /\ bundles \in 0 .. MaxBundles
        /\ updaterKills \in 0 .. MaxUpdaterKills
    BY UpdateAssumption DEF UpdateInit
  <2> QED
    BY <2>1, <2>2, <2>3 DEF UpdateTypeInv, UpdateTypeOK
<1>2. UpdateTypeInv /\ [UpdateNext]_updateVars => UpdateTypeInv'
  <2> SUFFICES ASSUME UpdateTypeInv, [UpdateNext]_updateVars
               PROVE  UpdateTypeInv'
    OBVIOUS
  <2> USE UpdateAssumption DEF UpdateTypeInv, UpdateTypeOK, Updates, runner, rules, bundle, commands
  <2>1. CASE RunBegins
    BY <2>1 DEF RunBegins
  <2>2. CASE CommandWrites
    BY <2>2 DEF CommandWrites
  <2>3. CASE CommandSucceeds
    <3>1. outcome' \in Outcomes /\ updAt' \in {"reload", "write"}
      BY <2>3, EndsFacts DEF CommandSucceeds
    <3>2. updates \in Updates /\ community' = updates /\ spoiled' = FALSE
      BY <2>3 DEF CommandSucceeds
    <3>3. UNCHANGED <<updates, updStatus, running, late, lateReload, bundle, commands, heard,
                      updaterKills>>
      BY <2>3 DEF CommandSucceeds
    <3>4. {community', running'} \subseteq {0, Torn} \cup Updates
      BY <3>2, <3>3
    <3>5. updAt' # "idle" => updates' > 0
      BY <3>2, <3>3
    <3> QED
      BY <3>1, <3>2, <3>3, <3>4, <3>5
  <2>4. CASE CommandFails
    <3>1. outcome' \in Outcomes /\ updAt' = "write"
      BY <2>4, EndsFacts DEF CommandFails
    <3>2. updates \in Updates
      BY <2>4 DEF CommandFails
    <3> QED
      BY <2>4, <3>1, <3>2 DEF CommandFails
  <2>5. CASE LateWrite
    BY <2>5 DEF LateWrite
  <2>6. CASE UpdateReloads
    BY <2>6 DEF UpdateReloads, Reloaded, EngineLoads
  <2>7. CASE UpdateReloadFails
    <3>1. outcome' \in Outcomes
      BY <2>7, EndsFacts DEF UpdateReloadFails
    <3> QED
      BY <2>7, <3>1 DEF UpdateReloadFails, Ends
  <2>8. CASE LateReload
    BY <2>8 DEF LateReload, EngineLoads
  <2>9. CASE UpdateChecked
    <3>1. PICK ok \in {Loadable(community), FALSE} : Ends(ok, "write")
      BY <2>9 DEF UpdateChecked
    <3>2. ok \in BOOLEAN
      BY <3>1 DEF Loadable
    <3>3. outcome' \in Outcomes /\ updAt' = "write"
      BY <3>1, <3>2, EndsFacts
    <3> QED
      BY <2>9, <3>3 DEF UpdateChecked
  <2>10. CASE WriteUpdStatus
    BY <2>10 DEF WriteUpdStatus
  <2>11. CASE EmitReport
    BY <2>11, ReportFacts DEF EmitReport
  <2>12. CASE BundleComes
    BY <2>12 DEF BundleComes
  <2>13. CASE BundleReloads
    BY <2>13 DEF BundleReloads, Reloaded, EngineLoads
  <2>14. CASE BundleChecked
    BY <2>14, ReportFacts DEF BundleChecked, Acknowledges
  <2>15. CASE BundleUndone
    BY <2>15, ReportFacts DEF BundleUndone, Reloaded, EngineLoads, Acknowledges
  <2>16. CASE KillUpdater
    <3>1. lateReload' \in BOOLEAN /\ spoiled' \in BOOLEAN
      BY <2>16 DEF KillUpdater
    <3> QED
      BY <2>16, <3>1 DEF KillUpdater
  <2>17. CASE UNCHANGED updateVars
    BY <2>17 DEF updateVars
  <2> QED
    BY <2>1, <2>2, <2>3, <2>4, <2>5, <2>6, <2>7, <2>8, <2>9, <2>10, <2>11, <2>12, <2>13, <2>14,
       <2>15, <2>16, <2>17 DEF UpdateNext
<1>3. UpdateTypeInv => UpdateTypeOK
  BY DEF UpdateTypeInv
<1> QED
  BY <1>1, <1>2, <1>3, PTL DEF UpdateSpec

(***************************************************************************)
(* The argument for UpdateVouched.  Only a late write or a kill takes the  *)
(* rules away from a run once its command has succeeded, and both spoil    *)
(* the update; a load of the engine, whoever asked for it, changes nothing *)
(* while the rules in the directory are the ones it runs and can load.     *)
(***************************************************************************)
LEMMA LoadsKeep ==
  ASSUME RunsLast, EngineLoads, UNCHANGED <<community, updates, reloadCmd>>
  PROVE  RunsLast'
BY DEF RunsLast, EngineLoads, Loadable

LEMMA RunnerInductive ==
  ASSUME UpdateTypeOK, RunnerInv, [UpdateNext]_updateVars
  PROVE  RunnerInv'
<1> USE UpdateAssumption DEF UpdateTypeOK, Outcomes, RunnerInv, runner, rules, bundle, commands
<1>1. CASE RunBegins
  BY <1>1 DEF RunBegins
<1>2. CASE CommandWrites
  BY <1>2 DEF CommandWrites
<1>3. CASE CommandSucceeds
  BY <1>3 DEF CommandSucceeds, Ends
<1>4. CASE CommandFails
  BY <1>4 DEF CommandFails, Ends
<1>5. CASE LateWrite
  BY <1>5 DEF LateWrite
<1>6. CASE UpdateReloads
  BY <1>6 DEF UpdateReloads, Reloaded, EngineLoads, Loadable
<1>7. CASE UpdateReloadFails
  BY <1>7 DEF UpdateReloadFails, Ends
<1>8. CASE LateReload
  BY <1>8, LoadsKeep DEF LateReload, EngineLoads, Loadable, RunsLast
<1>9. CASE UpdateChecked
  <2>1. PICK ok \in {Loadable(community), FALSE} : Ends(ok, "write")
    BY <1>9 DEF UpdateChecked
  <2>2. /\ outcome'.version = updates /\ outcome'.ok = ok /\ updAt' = "write"
        /\ ok => Loadable(community)
    BY <2>1 DEF Ends
  <2> QED
    BY <1>9, <2>2 DEF UpdateChecked, RunsLast, Loadable
<1>10. CASE WriteUpdStatus
  BY <1>10 DEF WriteUpdStatus, RunsLast, Loadable
<1>11. CASE EmitReport
  BY <1>11 DEF EmitReport, RunsLast, Loadable
<1>12. CASE BundleComes
  BY <1>12 DEF BundleComes, RunsLast, Loadable
<1>13. CASE BundleReloads
  BY <1>13, LoadsKeep DEF BundleReloads, Reloaded, EngineLoads, Loadable, RunsLast
<1>14. CASE BundleChecked
  BY <1>14 DEF BundleChecked, RunsLast, Loadable
<1>15. CASE BundleUndone
  BY <1>15, LoadsKeep DEF BundleUndone, Reloaded, EngineLoads, Loadable, RunsLast
<1>16. CASE KillUpdater
  BY <1>16 DEF KillUpdater, RunsLast, Loadable
<1>17. CASE UNCHANGED updateVars
  BY <1>17 DEF updateVars, RunsLast, Loadable
<1> QED
  BY <1>1, <1>2, <1>3, <1>4, <1>5, <1>6, <1>7, <1>8, <1>9, <1>10, <1>11, <1>12, <1>13, <1>14,
     <1>15, <1>16, <1>17 DEF UpdateNext

LEMMA HeardInductive ==
  ASSUME UpdateTypeOK, RunnerInv, HeardInv, [UpdateNext]_updateVars
  PROVE  HeardInv'
<1>0. outcome \in Outcomes /\ updates \in Nat /\ heard \in Reports
  BY UpdateAssumption DEF UpdateTypeOK
<1> USE DEF UpdateTypeOK, HeardInv, runner, rules, bundle, commands
<1>1. CASE RunBegins
  <2>1. heard.about = "update" => heard.result.version \in Nat
    BY <1>0, ReportFacts, UpdateAssumption DEF Outcomes
  <2>2. outcome.version \in Nat
    BY <1>0, UpdateAssumption DEF Outcomes
  <2> QED
    BY <1>0, <1>1, <2>1, <2>2 DEF RunBegins
<1>2. CASE EmitReport
  <2>1. CASE heard' = heard
    <3>1. heard.about = "update" => heard.result.version \in Nat
      BY <1>0, ReportFacts, UpdateAssumption DEF Outcomes
    <3> QED
      BY <1>0, <1>2, <2>1, <3>1 DEF EmitReport
  <2>2. CASE heard' = [about |-> "update", result |-> outcome]
    <3>1. heard'.result = outcome
      BY <2>2
    <3>2. ~spoiled => updStatus = outcome
      BY <1>2 DEF EmitReport, RunnerInv
    <3> QED
      BY <1>2, <3>1, <3>2 DEF EmitReport
  <2> QED
    BY <1>2, <2>1, <2>2 DEF EmitReport
<1>3. CASE BundleChecked \/ BundleUndone
  <2>1. heard' = heard \/ heard'.about = "bundle"
    BY <1>3 DEF BundleChecked, BundleUndone, Acknowledges
  <2> QED
    BY <1>3, <2>1 DEF BundleChecked, BundleUndone
<1>4. CASE KillUpdater
  BY <1>4 DEF KillUpdater
<1>5. CASE CommandWrites \/ CommandSucceeds \/ CommandFails \/ LateWrite \/ WriteUpdStatus
  BY <1>5 DEF CommandWrites, CommandSucceeds, CommandFails, LateWrite, WriteUpdStatus, Ends
<1>6. CASE UpdateReloads \/ UpdateReloadFails \/ LateReload \/ UpdateChecked
  BY <1>6 DEF UpdateReloads, UpdateReloadFails, LateReload, UpdateChecked, Ends
<1>7. CASE BundleComes \/ BundleReloads
  BY <1>7 DEF BundleComes, BundleReloads
<1>8. CASE UNCHANGED updateVars
  BY <1>8 DEF updateVars
<1> QED
  BY <1>1, <1>2, <1>3, <1>4, <1>5, <1>6, <1>7, <1>8 DEF UpdateNext

\* An update the status file or its report calls good is in the engine's directory and can be
\* loaded, and is what the engine runs if there is a command that reloads, unless something
\* spoiled it since: SuricataUpdateRunner.run beside the bundles' reloads.
THEOREM UpdateVouchedCorrect == UpdateSpec => []UpdateVouched
<1>1. UpdateInit => RunnerInv /\ HeardInv
  BY UpdateAssumption DEF UpdateInit, RunnerInv, HeardInv
<1>2. UpdateTypeOK /\ RunnerInv /\ HeardInv /\ [UpdateNext]_updateVars => RunnerInv' /\ HeardInv'
  BY RunnerInductive, HeardInductive
<1>3. UpdateTypeOK /\ RunnerInv /\ HeardInv => UpdateVouched
  BY DEF RunnerInv, HeardInv, RunsLast, UpdateVouched, Vouches
<1> QED
  BY <1>1, <1>2, <1>3, UpdateTypeCorrect, PTL DEF UpdateSpec
=============================================================================
