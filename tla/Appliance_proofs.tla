--------------------------- MODULE Appliance_proofs ---------------------------
(***************************************************************************)
(* Proofs about the parts of Appliance, each under its own specification,  *)
(* for any number of requests, changes and failures: the VPN client, the   *)
(* capture of the packet sensor, the name of the unit, the drivers of the  *)
(* field devices, the jobs in the sensor's container and the interfaces of *)
(* the host.                                                               *)
(***************************************************************************)
EXTENDS VpnClient, Capture, SensorJobs, Identity, DeviceDrivers, HostNetwork,
        FiniteSetTheorems, SequenceTheorems, TLAPS

USE DEF console, memory, supervisor, Epochs

\* No epoch on its way to desired.json is larger than the number of requests.
EpochBound ==
  /\ desired.epoch <= handled
  /\ desiredTmp.epoch <= handled
  /\ \A r \in Requests : request[r].payload.epoch <= handled

TypeInv == TypeOK /\ EpochBound

\* The constructors of the typed records.
LEMMA RecordTypes ==
  /\ NoDesired \in Desired
  /\ NoTmp \notin Desired
  /\ Idle \in Request
  /\ Nothing \in [profile : Profiles \union {None}, epoch : Epochs]
  /\ NoDesired.epoch = 0
  /\ NoTmp.epoch = -1
  /\ Idle.payload = NoDesired
<1>1. NoDesired \in Desired /\ NoDesired.epoch = 0
  BY ConstantsAssumption DEF NoDesired, Desired
<1>2. NoTmp.epoch = -1
  BY DEF NoTmp, NoDesired
<1>3. NoTmp \notin Desired
  BY <1>2, ConstantsAssumption DEF Desired
<1>4. Idle \in Request /\ Idle.payload = NoDesired
  BY <1>1 DEF Idle, Request
<1>5. Nothing \in [profile : Profiles \union {None}, epoch : Epochs]
  BY ConstantsAssumption DEF Nothing
<1>6. QED
  BY <1>1, <1>2, <1>3, <1>4, <1>5

LEMMA TypeInit == Init => TypeInv
<1> SUFFICES ASSUME Init PROVE TypeInv
  OBVIOUS
<1> USE DEF Init
<1>1. desired \in Desired /\ want \in Desired /\ desiredTmp = NoTmp
  BY RecordTypes
<1>2. request \in [Requests -> Request]
  BY RecordTypes
<1>3. handled \in 0 .. MaxRequests /\ gaveUp \in Epochs /\ restarts \in 0 .. MaxRestarts
  BY ConstantsAssumption
<1>4. lastError \in BOOLEAN /\ waiting \in BOOLEAN
  OBVIOUS
<1>5. status \in Status
  BY DEF Status
<1>6. TypeOK
  BY <1>1, <1>2, <1>3, <1>4, <1>5, RecordTypes DEF TypeOK
<1>7. EpochBound
  BY RecordTypes DEF EpochBound
<1>8. QED
  BY <1>6, <1>7 DEF TypeInv

\* A request begins with a payload whose epoch is at most one past desired's.
LEMMA TypeBegin ==
  ASSUME TypeInv, NEW r \in Requests,
         NEW op \in {"connect", "toggle", "disconnect", "delete"},
         NEW at \in {"write", "unlink"},
         NEW prof \in Profiles \union {None},
         NEW payload \in [connect : BOOLEAN, profile : Profiles \union {None},
                          auto : BOOLEAN, epoch : Nat],
         payload.epoch <= desired.epoch + 1,
         Begin(r, op, at, prof, payload)
  PROVE  TypeInv'
<1>1. /\ handled \in Nat /\ handled + 1 <= MaxRequests /\ handled' = handled + 1
      /\ desired \in Desired /\ desired.epoch \in Nat
  BY ConstantsAssumption DEF TypeInv, TypeOK, Begin, Desired
<1>2. payload.epoch <= handled' /\ payload \in Desired
  BY <1>1, ConstantsAssumption DEF TypeInv, EpochBound, Desired
<1>3. [op |-> op, at |-> at, profile |-> prof, payload |-> payload] \in Request
  BY <1>2 DEF Request
<1>4. request' = [request EXCEPT ![r] =
         [op |-> op, at |-> at, profile |-> prof, payload |-> payload]]
  BY DEF Begin
<1>5. TypeOK'
  BY <1>1, <1>3, <1>4, ConstantsAssumption DEF TypeInv, TypeOK, Begin
<1>6. EpochBound'
  <2>1. desired.epoch <= handled' /\ desired' = desired
    BY <1>1, ConstantsAssumption DEF TypeInv, EpochBound, Begin
  <2>2. desiredTmp.epoch <= handled' /\ desiredTmp' = desiredTmp
    <3>1. desiredTmp.epoch \in Int
      BY ConstantsAssumption, RecordTypes DEF TypeInv, TypeOK, Desired
    <3>2. QED
      BY <1>1, <3>1 DEF TypeInv, EpochBound, Begin
  <2>3. ASSUME NEW s \in Requests PROVE request'[s].payload.epoch <= handled'
    <3>1. request[s].payload.epoch \in Nat
      BY ConstantsAssumption DEF TypeInv, TypeOK, Request, Desired
    <3>2. QED
      BY <1>1, <1>2, <1>4, <3>1 DEF TypeInv, TypeOK, EpochBound
  <2>4. QED
    BY <2>1, <2>2, <2>3 DEF EpochBound
<1>7. QED
  BY <1>5, <1>6 DEF TypeInv

\* The requests that write desired.json or delete a profile begin well typed.
LEMMA TypeRequests ==
  ASSUME TypeInv, NEW r \in Requests,
         \/ \E p \in Profiles, auto \in BOOLEAN : Connect(r, p, auto)
         \/ \E on \in BOOLEAN : SetAutoReconnect(r, on)
         \/ Disconnect(r)
         \/ \E p \in Profiles : DeleteProfile(r, p)
  PROVE  TypeInv'
<1> DEFINE Payload == [connect : BOOLEAN, profile : Profiles \union {None},
                       auto : BOOLEAN, epoch : Nat]
<1>1. desired \in Payload /\ desired.epoch \in Nat
  BY ConstantsAssumption DEF TypeInv, TypeOK, Desired
<1>2. ASSUME NEW p \in Profiles, NEW auto \in BOOLEAN, Connect(r, p, auto)
      PROVE  TypeInv'
  <2> DEFINE payload == [connect |-> TRUE, profile |-> p, auto |-> auto,
                         epoch |-> desired.epoch + 1]
  <2>1. payload \in Payload /\ payload.epoch <= desired.epoch + 1
    BY <1>1
  <2>2. Begin(r, "connect", "write", p, payload)
    BY <1>2 DEF Connect
  <2>3. QED
    BY <2>1, <2>2, TypeBegin
<1>3. ASSUME NEW on \in BOOLEAN, SetAutoReconnect(r, on) PROVE TypeInv'
  <2> DEFINE payload == [desired EXCEPT !.auto = on]
  <2>1. payload \in Payload /\ payload.epoch <= desired.epoch + 1
    BY <1>1
  <2>2. Begin(r, "toggle", "write", None, payload)
    BY <1>3 DEF SetAutoReconnect
  <2>3. QED
    BY <2>1, <2>2, TypeBegin
<1>4. CASE Disconnect(r)
  <2> DEFINE payload == [connect |-> FALSE, profile |-> desired.profile,
                         auto |-> TRUE, epoch |-> desired.epoch + 1]
  <2>1. payload \in Payload /\ payload.epoch <= desired.epoch + 1
    BY <1>1
  <2>2. Begin(r, "disconnect", "write", None, payload)
    BY <1>4 DEF Disconnect
  <2>3. QED
    BY <2>1, <2>2, TypeBegin
<1>5. ASSUME NEW p \in Profiles, DeleteProfile(r, p) PROVE TypeInv'
  <2>1. NoDesired \in Payload /\ NoDesired.epoch <= desired.epoch + 1
    BY <1>1, RecordTypes DEF NoDesired
  <2>2. Begin(r, "delete", "unlink", p, NoDesired)
    BY <1>5 DEF DeleteProfile
  <2>3. QED
    BY <2>1, <2>2, TypeBegin
<1>6. QED
  BY <1>2, <1>3, <1>4, <1>5

\* A request ends, or reaches its rename.
LEMMA TypeFinish ==
  ASSUME TypeInv, NEW r \in Requests, Finish(r)
  PROVE  TypeInv'
<1>1. /\ request \in [Requests -> Request] /\ request[r] \in Request
      /\ request[r].payload \in Desired
      /\ handled \in Nat /\ handled' = handled
  BY ConstantsAssumption
  DEF TypeInv, TypeOK, Request, Finish, Unlink, WriteTmp, Replace, ReplaceFails
<1>2. CASE Unlink(r)
  BY <1>1, <1>2, RecordTypes DEF Unlink, TypeInv, TypeOK, EpochBound
<1>3. CASE WriteTmp(r)
  <2> DEFINE next == [Idle EXCEPT !.op = request[r].op, !.at = "replace"]
  <2>1. next \in Request /\ next.payload = NoDesired
    BY <1>1, RecordTypes DEF Request, Idle
  <2>2. request' = [request EXCEPT ![r] = next] /\ desiredTmp' = request[r].payload
    BY <1>3 DEF WriteTmp
  <2>3. TypeOK'
    BY <1>1, <1>3, <2>1, <2>2 DEF WriteTmp, TypeInv, TypeOK
  <2>4. EpochBound'
    BY <1>1, <1>3, <2>1, <2>2, RecordTypes DEF WriteTmp, TypeInv, TypeOK, EpochBound
  <2>5. QED
    BY <2>3, <2>4 DEF TypeInv
<1>4. CASE Replace(r)
  <2>1. desired' = desiredTmp /\ desiredTmp' = NoTmp /\ desired' \in Desired
    BY <1>4 DEF Replace, TypeInv, TypeOK
  <2>2. request' = [request EXCEPT ![r] = Idle]
    BY <1>4 DEF Replace
  <2>3. TypeOK'
    BY <1>1, <1>4, <2>1, <2>2, RecordTypes DEF Replace, TypeInv, TypeOK
  <2>4. EpochBound'
    BY <1>1, <2>1, <2>2, RecordTypes DEF TypeInv, TypeOK, EpochBound
  <2>5. QED
    BY <2>3, <2>4 DEF TypeInv
<1>5. CASE ReplaceFails(r)
  BY <1>1, <1>5, RecordTypes DEF ReplaceFails, TypeInv, TypeOK, EpochBound
<1>6. QED
  BY <1>2, <1>3, <1>4, <1>5 DEF Finish

\* The supervisor, OpenVPN and the clock leave the console's part alone.
LEMMA TypeReconcile ==
  ASSUME TypeInv, Reconcile \/ OpenVpnExits \/ BackoffElapses \/ Restart
  PROVE  TypeInv'
<1> USE DEF TypeOK
<1>1. UNCHANGED console
  BY DEF Reconcile, OpenVpnExits, BackoffElapses, Restart, ReadDesired, Decide,
         StopMissing, StopDisconnected, KeepRunning, GiveUp, BackOff, StayDown,
         Wait, StartDue, Start, StartFails, WriteStatus
<1>2. EpochBound'
  BY <1>1 DEF TypeInv, EpochBound
<1> SUFFICES TypeOK'
  BY <1>2 DEF TypeInv
<1>3. /\ active \in [profile : Profiles \union {None}, epoch : Epochs]
      /\ want \in Desired
      /\ want.epoch \in Epochs /\ want.profile \in Profiles \union {None}
      /\ 0 \in Epochs
  BY ConstantsAssumption DEF TypeInv, Desired
<1>4. Latch \in Epochs
  BY <1>3 DEF Latch, TypeInv
<1>5. CASE ReadDesired
  BY <1>1, <1>5 DEF ReadDesired, TypeInv
<1>6. CASE StopMissing \/ StopDisconnected
  BY <1>1, <1>6, RecordTypes DEF StopMissing, StopDisconnected, StopProc, Decide, TypeInv
<1>7. CASE KeepRunning \/ Wait
  BY <1>1, <1>4, <1>7 DEF KeepRunning, Wait, Decide, TypeInv
<1>8. CASE GiveUp \/ BackOff
  <2>1. active' \in [profile : Profiles \union {None}, epoch : Epochs]
    BY <1>3, <1>8 DEF GiveUp, BackOff
  <2>2. QED
    BY <1>1, <1>3, <1>4, <1>8, <2>1 DEF GiveUp, BackOff, Decide, TypeInv
<1>9. CASE StayDown
  BY <1>1, <1>4, <1>9, RecordTypes DEF StayDown, StopProc, Decide, TypeInv
<1>10. CASE Start
  <2>1. active' \in [profile : Profiles \union {None}, epoch : Epochs]
    BY <1>3, <1>10 DEF Start
  <2>2. QED
    BY <1>1, <1>4, <1>10, <2>1 DEF Start, StartDue, Decide, TypeInv
<1>11. CASE StartFails
  BY <1>1, <1>4, <1>11, RecordTypes DEF StartFails, StartDue, Decide, TypeInv
<1>12. CASE WriteStatus
  <2>1. status' \in Status
    BY <1>3, <1>12 DEF WriteStatus, Status, TypeInv
  <2>2. QED
    BY <1>1, <1>12, <2>1 DEF WriteStatus, TypeInv
<1>13. CASE OpenVpnExits
  BY <1>1, <1>13 DEF OpenVpnExits, TypeInv
<1>14. CASE BackoffElapses
  BY <1>1, <1>14 DEF BackoffElapses, TypeInv
<1>15. CASE Restart
  <2>1. restarts' \in 0 .. MaxRestarts
    BY <1>15, ConstantsAssumption DEF Restart, TypeInv
  <2>2. want' \in Desired /\ gaveUp' \in Epochs
    BY <1>3, <1>15, RecordTypes DEF Restart
  <2>3. active' \in [profile : Profiles \union {None}, epoch : Epochs]
    BY <1>15, RecordTypes DEF Restart
  <2>4. QED
    BY <1>1, <1>15, <2>1, <2>2, <2>3 DEF Restart, TypeInv
<1>16. QED
  BY <1>5, <1>6, <1>7, <1>8, <1>9, <1>10, <1>11, <1>12, <1>13, <1>14, <1>15
  DEF Reconcile

LEMMA TypeNext == TypeInv /\ [Next]_vars => TypeInv'
<1> SUFFICES ASSUME TypeInv, [Next]_vars PROVE TypeInv'
  OBVIOUS
<1>1. ASSUME NEW p \in Profiles, SaveProfile(p) PROVE TypeInv'
  BY <1>1 DEF SaveProfile, TypeInv, TypeOK, EpochBound
<1>2. CASE UNCHANGED vars
  BY <1>2 DEF vars, TypeInv, TypeOK, EpochBound
<1>3. QED
  BY <1>1, <1>2, TypeRequests, TypeFinish, TypeReconcile DEF Next

\* TypeOK: every variable keeps its type; in particular an epoch the console
\* writes never exceeds the number of requests, however the requests overlap.
THEOREM TypeCorrect == Spec => []TypeOK
<1>1. TypeInv => TypeOK
  BY DEF TypeInv
<1>2. QED
  BY <1>1, TypeInit, TypeNext, PTL DEF Spec

-----------------------------------------------------------------------------
\* A running process has a profile: _start sets it, _stop_proc clears both.
RunningHasProfile == proc = "running" => active.profile # None

RunInv == RunsWhatWasAsked /\ RunningHasProfile

LEMMA RunInit == Init => RunInv
  BY DEF Init, RunInv, RunsWhatWasAsked, RunningHasProfile

LEMMA RunNext == TypeOK /\ RunInv /\ [Next]_vars => RunInv'
<1> SUFFICES ASSUME TypeOK, RunInv, [Next]_vars PROVE RunInv'
  OBVIOUS
<1> USE DEF RunInv, RunsWhatWasAsked, RunningHasProfile
<1>1. /\ active \in [profile : Profiles \union {None}, epoch : Epochs]
      /\ files \subseteq Profiles
  BY DEF TypeOK
<1>2. CASE UNCHANGED supervisor
  BY <1>2
<1>3. CASE ReadDesired
  BY <1>3 DEF ReadDesired
<1>4. CASE StopMissing \/ StopDisconnected
  BY <1>4 DEF StopMissing, StopDisconnected, StopProc, Decide
<1>5. CASE KeepRunning
  <2>1. active.profile = want.profile /\ active.epoch = want.epoch
    BY <1>5 DEF KeepRunning, MustRestart
  <2>2. active = [profile |-> want.profile, epoch |-> want.epoch]
    BY <1>1, <2>1
  <2>3. QED
    BY <1>5, <2>2 DEF KeepRunning, Wanted, Decide
<1>6. CASE GiveUp \/ BackOff \/ Wait
  BY <1>6 DEF GiveUp, BackOff, Wait, Decide
<1>7. CASE StayDown
  BY <1>7 DEF StayDown, StopProc, Decide
<1>8. CASE Start
  BY <1>1, <1>8, ConstantsAssumption DEF Start, StartDue, Wanted, Decide
<1>9. CASE StartFails
  BY <1>9 DEF StartFails, StartDue, Decide
<1>10. CASE WriteStatus
  BY <1>10 DEF WriteStatus
<1>11. CASE OpenVpnExits
  BY <1>11 DEF OpenVpnExits
<1>12. CASE BackoffElapses
  BY <1>12 DEF BackoffElapses
<1>13. CASE Restart
  BY <1>13 DEF Restart
<1>14. ASSUME \/ \E p \in Profiles : SaveProfile(p)
              \/ \E r \in Requests :
                    \/ \E p \in Profiles, auto \in BOOLEAN : Connect(r, p, auto)
                    \/ \E on \in BOOLEAN : SetAutoReconnect(r, on)
                    \/ Disconnect(r)
                    \/ \E p \in Profiles : DeleteProfile(r, p)
                    \/ Finish(r)
       PROVE  UNCHANGED supervisor
  BY <1>14 DEF SaveProfile, Connect, SetAutoReconnect, Disconnect, DeleteProfile,
               Begin, Finish, Unlink, WriteTmp, Replace, ReplaceFails
<1>15. QED
  BY <1>2, <1>3, <1>4, <1>5, <1>6, <1>7, <1>8, <1>9, <1>10, <1>11, <1>12, <1>13, <1>14
  DEF Next, Reconcile, vars

\* RunsWhatWasAsked: between two passes of the supervisor, a running OpenVPN
\* carries the profile and the epoch of the desired state it read last.
THEOREM RunsCorrect == Spec => []RunsWhatWasAsked
<1>1. RunInv => RunsWhatWasAsked
  BY DEF RunInv
<1>2. QED
  BY <1>1, RunInit, RunNext, TypeCorrect, PTL DEF Spec
-----------------------------------------------------------------------------
\* The capture of the packet sensor (Capture).

\* Unless it was left to itself, the capture thread is waited for before anything of its
\* session is closed, and whoever frees the session forgets it.
Receiving == {"poll", "receive", "handle", "tally", "close", "free"}

Joined ==
  \/ unjoined
  \/ main = "exited" /\ capture = "gone"
  \/ /\ main # "exited" /\ main \notin Closing
     /\ main \in {"close", "flush"} => capture \in Ended
     /\ capture # "gone"
     /\ capture \in Receiving <=> session = "open"
     /\ handle <=> capture \in Receiving \union {"forget"}

\* The main thread calls the library with an open session, unless its snapshot overlaps the
\* moment in which the capture thread has freed the session and not forgotten it.
Ordered ==
  \/ unjoined
  \/ /\ ~misused /\ (misread => raced)
     /\ main = "count" => session = "open" \/ raced
     /\ main \in Snapshot /\ capture = "forget" => raced

CaptureInv == CaptureTypeOK /\ Joined /\ Ordered /\ ProgramReleased

\* A count below its bound may go up.
LEMMA Counts ==
  ASSUME NEW bound \in Nat, NEW n \in 0 .. bound, n < bound
  PROVE  n + 1 \in 0 .. bound
OBVIOUS

LEMMA CaptureInvInit == CaptureInit => CaptureInv
<1> SUFFICES ASSUME CaptureInit PROVE CaptureInv
  OBVIOUS
<1> USE DEF CaptureInit, Modes, Snapshot
<1>0. MaxErrors \in Nat /\ MaxSensorKills \in Nat /\ MaxStops \in Nat /\ MaxUnplugs \in Nat
  BY CaptureAssumption
<1>1. CaptureTypeOK
  <2>1. errors \in 0 .. MaxErrors /\ sensorKills \in 0 .. MaxSensorKills
      /\ stops \in 0 .. MaxStops /\ unplugs \in 0 .. MaxUnplugs
    BY <1>0
  <2>2. QED
    BY <2>1 DEF CaptureTypeOK
<1>2. Joined /\ Ordered /\ ProgramReleased
  BY DEF Joined, Ordered, ProgramReleased, Closing, Receiving
<1>3. QED
  BY <1>1, <1>2 DEF CaptureInv

\* The steps keep the types,
LEMMA CaptureTypeNext == CaptureInv /\ [CaptureNext]_captureVars => CaptureTypeOK'
<1> SUFFICES ASSUME CaptureInv, [CaptureNext]_captureVars
             PROVE  CaptureTypeOK'
  OBVIOUS
<1>0. MaxErrors \in Nat /\ MaxSensorKills \in Nat /\ MaxStops \in Nat /\ MaxUnplugs \in Nat
  BY CaptureAssumption
<1> USE
    DEF CaptureInv, CaptureTypeOK, Modes, Closing, Ended, Goes, Moves, NextMode, Creating, Free,
        Snapshot, hostSide, captureSide, mainSide, sessionSide, past
<1>1. ASSUME NEW mode \in Modes, Attach(mode) PROVE CaptureTypeOK'
  BY <1>1, ZenonT(60) DEF Attach
<1>2. ASSUME NEW mode \in Modes, AttachFails(mode) PROVE CaptureTypeOK'
  BY <1>2, ZenonT(60) DEF AttachFails
<1>3. ASSUME NEW mode \in Modes, Opened(mode) PROVE CaptureTypeOK'
  BY <1>3, ZenonT(60) DEF Opened
<1>4. ASSUME NEW mode \in Modes, OpenFails(mode) PROVE CaptureTypeOK'
  BY <1>4, ZenonT(60) DEF OpenFails
<1>5. CASE Poll
  BY <1>5, ZenonT(60) DEF Poll
<1>6. CASE Receive
  BY <1>6, ZenonT(60) DEF Receive
<1>31. CASE Tally
  BY <1>31 DEF Tally
<1>7. CASE Handled
  BY <1>7, SMTT(60) DEF Handled
<1>8. CASE CloseOwn
  BY <1>8, SMTT(60) DEF CloseOwn
<1>9. CASE FreeOwn
  BY <1>9, SMTT(60) DEF FreeOwn
<1>10. CASE ForgetOwn
  BY <1>10, ZenonT(60) DEF ForgetOwn
<1>11. CASE DropOwn
  BY <1>11, ZenonT(60) DEF DropOwn
<1>12. CASE Sniff
  BY <1>12, ZenonT(60) DEF Sniff
<1>13. CASE HandlingRaises
  <2>1. errors \in 0 .. MaxErrors /\ errors < MaxErrors /\ errors' = errors + 1
    BY <1>13 DEF HandlingRaises
  <2>2. errors' \in 0 .. MaxErrors
    BY <1>0, <2>1, Counts
  <2>3. QED
    BY <2>2, <1>13 DEF HandlingRaises
<1>14. CASE SniffStops
  BY <1>14, SMTT(60) DEF SniffStops
<1>15. CASE SniffFails
  <2>1. errors \in 0 .. MaxErrors /\ errors < MaxErrors /\ errors' = errors + 1
    BY <1>15 DEF SniffFails
  <2>2. errors' \in 0 .. MaxErrors
    BY <1>0, <2>1, Counts
  <2>3. QED
    BY <2>2, <1>15 DEF SniffFails
<1>16. CASE Pass
  BY <1>16, ZenonT(60) DEF Pass
<1>17. CASE Look
  BY <1>17, ZenonT(60) DEF Look
<1>18. CASE Count
  BY <1>18, ZenonT(60) DEF Count
<1>19. CASE Join
  BY <1>19, ZenonT(60) DEF Join
<1>20. CASE CloseLeft
  BY <1>20, ZenonT(60) DEF CloseLeft
<1>21. CASE FreeLeft
  BY <1>21, ZenonT(60) DEF FreeLeft
<1>22. CASE ForgetLeft
  BY <1>22, ZenonT(60) DEF ForgetLeft
<1>23. CASE Exit
  BY <1>23, ZenonT(60) DEF Exit
<1>24. CASE Stop
  <2>1. stops \in 0 .. MaxStops /\ stops < MaxStops /\ stops' = stops + 1
    BY <1>24 DEF Stop
  <2>2. stops' \in 0 .. MaxStops
    BY <1>0, <2>1, Counts
  <2>3. QED
    BY <2>2, <1>24, ZenonT(60) DEF Stop
<1>25. CASE KillSensor
  <2>1. sensorKills \in 0 .. MaxSensorKills /\ sensorKills < MaxSensorKills /\ sensorKills' = sensorKills + 1
    BY <1>25 DEF KillSensor
  <2>2. sensorKills' \in 0 .. MaxSensorKills
    BY <1>0, <2>1, Counts
  <2>3. QED
    BY <2>2, <1>25 DEF KillSensor
<1>26. CASE RestartSensor
  BY <1>26, ZenonT(60) DEF RestartSensor
<1>27. CASE Unplug
  <2>1. unplugs \in 0 .. MaxUnplugs /\ unplugs < MaxUnplugs /\ unplugs' = unplugs + 1
    BY <1>27 DEF Unplug
  <2>2. unplugs' \in 0 .. MaxUnplugs
    BY <1>0, <2>1, Counts
  <2>3. QED
    BY <2>2, <1>27 DEF Unplug
<1>28. CASE Replug
  BY <1>28, ZenonT(60) DEF Replug
<1>29. CASE UNCHANGED captureVars
  <2>1. /\ UNCHANGED <<backend, plugged, program, capture, main, session, failing, stopping>>
        /\ UNCHANGED <<captureError, xdp, handle, killed, unjoined, raced, deaf, misused, misread>>
        /\ UNCHANGED <<errors, sensorKills, stops, unplugs>>
    BY <1>29 DEF captureVars
  <2>2. QED
    BY <2>1, ZenonT(60)
<1>30. QED
  BY <1>1, <1>2, <1>3, <1>4, <1>5, <1>6, <1>7, <1>8, <1>9, <1>10, <1>11, <1>12, <1>13, <1>14, <1>15,
     <1>16, <1>17, <1>18, <1>19, <1>20, <1>21, <1>22, <1>23, <1>24, <1>25, <1>26, <1>27, <1>28, <1>29, <1>31
  DEF CaptureNext, CaptureStep, MainStep

\* what the two threads know of each other,
LEMMA JoinedNext == CaptureInv /\ [CaptureNext]_captureVars => Joined'
<1> SUFFICES ASSUME CaptureInv, [CaptureNext]_captureVars
             PROVE  Joined'
  OBVIOUS
<1>0. backend \in Modes \union {"scapy"}
  BY DEF CaptureInv, CaptureTypeOK
<1> USE
    DEF CaptureInv, Joined, Modes, Closing, Ended, Receiving, Goes, Moves, NextMode, Creating,
        Free, Snapshot, hostSide, captureSide, mainSide, sessionSide, past
<1>1. ASSUME NEW mode \in Modes, Attach(mode) PROVE Joined'
  BY <1>1 DEF Attach
<1>2. ASSUME NEW mode \in Modes, AttachFails(mode) PROVE Joined'
  BY <1>2 DEF AttachFails
<1>3. ASSUME NEW mode \in Modes, Opened(mode) PROVE Joined'
  BY <1>3 DEF Opened
<1>4. ASSUME NEW mode \in Modes, OpenFails(mode) PROVE Joined'
  BY <1>4 DEF OpenFails
<1>5. CASE Poll
  BY <1>5 DEF Poll
<1>6. CASE Receive
  BY <1>6 DEF Receive
<1>31. CASE Tally
  BY <1>31 DEF Tally
<1>7. CASE Handled
  BY <1>7 DEF Handled
<1>8. CASE CloseOwn
  BY <1>8 DEF CloseOwn
<1>9. CASE FreeOwn
  BY <1>9 DEF FreeOwn
<1>10. CASE ForgetOwn
  BY <1>10 DEF ForgetOwn
<1>11. CASE DropOwn
  BY <1>11 DEF DropOwn
<1>12. CASE Sniff
  BY <1>12 DEF Sniff
<1>13. CASE HandlingRaises
  BY <1>13 DEF HandlingRaises
<1>14. CASE SniffStops
  BY <1>14 DEF SniffStops
<1>15. CASE SniffFails
  BY <1>15 DEF SniffFails
<1>16. CASE Pass
  BY <1>16 DEF Pass
<1>17. CASE Look
  BY <1>17 DEF Look
<1>18. CASE Count
  BY <1>18 DEF Count
<1>19. CASE Join
  BY <1>19 DEF Join
<1>20. CASE CloseLeft
  BY <1>20 DEF CloseLeft
<1>21. CASE FreeLeft
  BY <1>21 DEF FreeLeft
<1>22. CASE ForgetLeft
  BY <1>22 DEF ForgetLeft
<1>23. CASE Exit
  BY <1>23 DEF Exit
<1>24. CASE Stop
  BY <1>24 DEF Stop
<1>25. CASE KillSensor
  BY <1>25 DEF KillSensor
<1>26. CASE RestartSensor
  BY <1>0, <1>26 DEF RestartSensor
<1>27. CASE Unplug
  BY <1>27 DEF Unplug
<1>28. CASE Replug
  BY <1>28 DEF Replug
<1>29. CASE UNCHANGED captureVars
  BY <1>29 DEF captureVars
<1>30. QED
  BY <1>1, <1>2, <1>3, <1>4, <1>5, <1>6, <1>7, <1>8, <1>9, <1>10, <1>11, <1>12, <1>13, <1>14, <1>15,
     <1>16, <1>17, <1>18, <1>19, <1>20, <1>21, <1>22, <1>23, <1>24, <1>25, <1>26, <1>27, <1>28, <1>29, <1>31
  DEF CaptureNext, CaptureStep, MainStep

\* the order in which the session is freed,
LEMMA OrderedNext == CaptureInv /\ [CaptureNext]_captureVars => Ordered'
<1> SUFFICES ASSUME CaptureInv, [CaptureNext]_captureVars
             PROVE  Ordered'
  OBVIOUS
<1>0. backend \in Modes \union {"scapy"}
  BY DEF CaptureInv, CaptureTypeOK
<1> USE
    DEF CaptureInv, Joined, Ordered, Modes, Closing, Ended, Receiving, Goes, Moves, NextMode,
        Creating, Free, Snapshot, hostSide, captureSide, mainSide, sessionSide, past
<1>1. ASSUME NEW mode \in Modes, Attach(mode) PROVE Ordered'
  BY <1>1 DEF Attach
<1>2. ASSUME NEW mode \in Modes, AttachFails(mode) PROVE Ordered'
  BY <1>2 DEF AttachFails
<1>3. ASSUME NEW mode \in Modes, Opened(mode) PROVE Ordered'
  BY <1>3 DEF Opened
<1>4. ASSUME NEW mode \in Modes, OpenFails(mode) PROVE Ordered'
  BY <1>4 DEF OpenFails
<1>5. CASE Poll
  BY <1>5 DEF Poll
<1>6. CASE Receive
  BY <1>6 DEF Receive
<1>31. CASE Tally
  BY <1>31 DEF Tally
<1>7. CASE Handled
  BY <1>7 DEF Handled
<1>8. CASE CloseOwn
  BY <1>8 DEF CloseOwn
<1>9. CASE FreeOwn
  BY <1>9 DEF FreeOwn
<1>10. CASE ForgetOwn
  BY <1>10 DEF ForgetOwn
<1>11. CASE DropOwn
  BY <1>11 DEF DropOwn
<1>12. CASE Sniff
  BY <1>12 DEF Sniff
<1>13. CASE HandlingRaises
  BY <1>13 DEF HandlingRaises
<1>14. CASE SniffStops
  BY <1>14 DEF SniffStops
<1>15. CASE SniffFails
  BY <1>15 DEF SniffFails
<1>16. CASE Pass
  BY <1>16 DEF Pass
<1>17. CASE Look
  BY <1>17 DEF Look
<1>18. CASE Count
  BY <1>18 DEF Count
<1>19. CASE Join
  BY <1>19 DEF Join
<1>20. CASE CloseLeft
  BY <1>20 DEF CloseLeft
<1>21. CASE FreeLeft
  BY <1>21 DEF FreeLeft
<1>22. CASE ForgetLeft
  BY <1>22 DEF ForgetLeft
<1>23. CASE Exit
  BY <1>23 DEF Exit
<1>24. CASE Stop
  BY <1>24 DEF Stop
<1>25. CASE KillSensor
  BY <1>25 DEF KillSensor
<1>26. CASE RestartSensor
  BY <1>0, <1>26 DEF RestartSensor
<1>27. CASE Unplug
  BY <1>27 DEF Unplug
<1>28. CASE Replug
  BY <1>28 DEF Replug
<1>29. CASE UNCHANGED captureVars
  BY <1>29 DEF captureVars
<1>30. QED
  BY <1>1, <1>2, <1>3, <1>4, <1>5, <1>6, <1>7, <1>8, <1>9, <1>10, <1>11, <1>12, <1>13, <1>14, <1>15,
     <1>16, <1>17, <1>18, <1>19, <1>20, <1>21, <1>22, <1>23, <1>24, <1>25, <1>26, <1>27, <1>28, <1>29, <1>31
  DEF CaptureNext, CaptureStep, MainStep

\* and the program's end with it.
LEMMA ReleasedNext == CaptureInv /\ [CaptureNext]_captureVars => ProgramReleased'
<1> SUFFICES ASSUME CaptureInv, [CaptureNext]_captureVars
             PROVE  ProgramReleased'
  OBVIOUS
<1> USE
    DEF CaptureInv, Joined, ProgramReleased, Modes, Closing, Ended, Receiving, Goes, Moves,
        NextMode, Creating, Free, Snapshot, hostSide, captureSide, mainSide, sessionSide, past
<1>1. ASSUME NEW mode \in Modes, Attach(mode) PROVE ProgramReleased'
  BY <1>1 DEF Attach
<1>2. ASSUME NEW mode \in Modes, AttachFails(mode) PROVE ProgramReleased'
  BY <1>2 DEF AttachFails
<1>3. ASSUME NEW mode \in Modes, Opened(mode) PROVE ProgramReleased'
  BY <1>3 DEF Opened
<1>4. ASSUME NEW mode \in Modes, OpenFails(mode) PROVE ProgramReleased'
  BY <1>4 DEF OpenFails
<1>5. CASE Poll
  BY <1>5 DEF Poll
<1>6. CASE Receive
  BY <1>6 DEF Receive
<1>31. CASE Tally
  BY <1>31 DEF Tally
<1>7. CASE Handled
  BY <1>7 DEF Handled
<1>8. CASE CloseOwn
  BY <1>8 DEF CloseOwn
<1>9. CASE FreeOwn
  BY <1>9 DEF FreeOwn
<1>10. CASE ForgetOwn
  BY <1>10 DEF ForgetOwn
<1>11. CASE DropOwn
  BY <1>11 DEF DropOwn
<1>12. CASE Sniff
  BY <1>12 DEF Sniff
<1>13. CASE HandlingRaises
  BY <1>13 DEF HandlingRaises
<1>14. CASE SniffStops
  BY <1>14 DEF SniffStops
<1>15. CASE SniffFails
  BY <1>15 DEF SniffFails
<1>16. CASE Pass
  BY <1>16 DEF Pass
<1>17. CASE Look
  BY <1>17 DEF Look
<1>18. CASE Count
  BY <1>18 DEF Count
<1>19. CASE Join
  BY <1>19 DEF Join
<1>20. CASE CloseLeft
  BY <1>20 DEF CloseLeft
<1>21. CASE FreeLeft
  BY <1>21 DEF FreeLeft
<1>22. CASE ForgetLeft
  BY <1>22 DEF ForgetLeft
<1>23. CASE Exit
  BY <1>23 DEF Exit
<1>24. CASE Stop
  BY <1>24 DEF Stop
<1>25. CASE KillSensor
  BY <1>25 DEF KillSensor
<1>26. CASE RestartSensor
  BY <1>26 DEF RestartSensor
<1>27. CASE Unplug
  BY <1>27 DEF Unplug
<1>28. CASE Replug
  BY <1>28 DEF Replug
<1>29. CASE UNCHANGED captureVars
  BY <1>29 DEF captureVars
<1>30. QED
  BY <1>1, <1>2, <1>3, <1>4, <1>5, <1>6, <1>7, <1>8, <1>9, <1>10, <1>11, <1>12, <1>13, <1>14, <1>15,
     <1>16, <1>17, <1>18, <1>19, <1>20, <1>21, <1>22, <1>23, <1>24, <1>25, <1>26, <1>27, <1>28, <1>29, <1>31
  DEF CaptureNext, CaptureStep, MainStep

LEMMA CaptureInvNext == CaptureInv /\ [CaptureNext]_captureVars => CaptureInv'
BY CaptureTypeNext, JoinedNext, OrderedNext, ReleasedNext DEF CaptureInv

\* The types of the capture's variables.
THEOREM CaptureTypeCorrect == CaptureSpec => []CaptureTypeOK
<1>1. CaptureInv => CaptureTypeOK
  BY DEF CaptureInv
<1>2. QED
  BY <1>1, CaptureInvInit, CaptureInvNext, PTL DEF CaptureSpec

\* SessionAlive: no session is freed twice or received from once freed, unless join gave up;
\* and the main thread asks a freed one for its statistics only in a snapshot that overlaps
\* the capture thread's own close (XdpCaptureSession.close, CaptureSession.snapshot).
THEOREM SessionAliveCorrect == CaptureSpec => []SessionAlive
<1>1. CaptureInv => SessionAlive
  BY DEF CaptureInv, Ordered, SessionAlive
<1>2. QED
  BY <1>1, CaptureInvInit, CaptureInvNext, PTL DEF CaptureSpec

\* ProgramReleased: an XDP program is on the interface only while a session is opened or
\* open, but for what a killed process or a thread left to itself leaves (xdp_cap_close).
THEOREM ProgramReleasedCorrect == CaptureSpec => []ProgramReleased
<1>1. CaptureInv => ProgramReleased
  BY DEF CaptureInv
<1>2. QED
  BY <1>1, CaptureInvInit, CaptureInvNext, PTL DEF CaptureSpec

-----------------------------------------------------------------------------
\* The name of the unit (Identity).

\* Without the ID of the image anywhere but in .env, before first boot has assigned one.
NotGolden ==
  /\ boot = "assign" => machineIds > 0
  /\ boot \in {"mark", "up"} \/ marker => envId # Golden
  /\ captureEnv # Golden /\ SavedId # Golden
  /\ \A s \in Containers :
       sensorId[s] # Golden /\ (box[s] # Missing => box[s].env # Golden /\ box[s].host # Golden)

InForce ==
  /\ \A s \in fresh : box[s] # Missing
  /\ box["sensor"] # Missing /\ Names(SavedId) /\ box["sensor"].synced =>
       box["sensor"].env = SavedId

IdentityInv == IdTypeOK /\ NotGolden /\ InForce /\ SameIdentity

\* IdOf gives a service a name of the unit's own, if its container has been given one.
LEMMA IdOfTypes ==
  ASSUME NEW s \in Containers, NEW b \in Boxes, IdTypeOK, SavedId # Golden,
         b.env # Golden, b.host # Golden
  PROVE  IdOf(s, b) \in Ids /\ IdOf(s, b) # Golden
<1>1. SavedId \in Ids \union {Placeholder, Missing}
  BY DEF IdTypeOK, SavedId, Platforms
<1>2. b.env \in Ids \union {Placeholder, NoLine} /\ b.host \in Ids
  BY DEF Boxes
<1>3. QED
  BY <1>1, <1>2 DEF IdOf, Resolve, Names, Containers

\* What IdOf gives the agent and the sensor once platform.json names the unit.
LEMMA IdOfNamed ==
  ASSUME NEW b, Names(SavedId)
  PROVE  /\ IdOf("agent", b) = SavedId
         /\ IdOf("sensor", b) = IF Names(b.env) THEN b.env ELSE SavedId
BY DEF IdOf, Resolve

\* The names a unit has of its own.
LEMMA OwnNames ==
  /\ Chosen \subseteq Own /\ HostName \in Own /\ Own \subseteq Ids
  /\ \A n \in 1 .. MaxMade : NameOf(n) \in Own
  /\ \A n \in 1 .. MaxBoots : MachineName(n) \in Own
  /\ \A id \in Own : id # Golden
BY IdentityAssumption DEF Own, Ids

\* What the console loads names nobody wrongly.
LEMMA LoadedTypes ==
  IdentityInv /\ box["console"] # Missing => LoadedId \in Platforms /\ LoadedId.id # Golden
<1> SUFFICES ASSUME IdentityInv, box["console"] # Missing
             PROVE  LoadedId \in Platforms /\ LoadedId.id # Golden
  OBVIOUS
<1> DEFINE config == IF platform = Missing THEN Defaults ELSE platform
<1>1. box["console"].host \in Ids /\ box["console"].host # Golden
  BY DEF IdentityInv, IdTypeOK, NotGolden, Containers, Boxes
<1>2. Defaults \in Platforms /\ Defaults.id # Golden
  BY IdentityAssumption DEF Defaults, Platforms
<1>3. config \in Platforms /\ config.id # Golden
  BY <1>2 DEF IdentityInv, IdTypeOK, NotGolden, SavedId
<1> HIDE DEF config
<1>4. LoadedId = IF Names(config.id) \/ (config.configured /\ config.registered) THEN config
                 ELSE [config EXCEPT !.id = box["console"].host]
  BY DEF LoadedId, WithDefaults, config
<1>5. [config EXCEPT !.id = box["console"].host] \in Platforms
  BY <1>1, <1>3 DEF Platforms
<1>6. [config EXCEPT !.id = box["console"].host].id = box["console"].host
  BY <1>3 DEF Platforms
<1>7. QED
  BY <1>1, <1>3, <1>4, <1>5, <1>6

\* What the requests of the console have in common: platform.json is replaced, and a changed
\* ID leaves the containers behind.
Saved(config) ==
  /\ saves < MaxSaves /\ saves' = saves + 1 /\ platform' = config
  /\ fresh' = IF config.id = SavedId THEN fresh ELSE {}
  /\ box' = [s \in Containers |-> IF box[s] = Missing THEN Missing
                                ELSE [box[s] EXCEPT !.synced = @ /\ config.id = SavedId]]
  /\ UNCHANGED <<unitFiles, sensorId, made>>

LEMMA SavedKeeps ==
  ASSUME IdentityInv, NEW config \in Platforms, config.id # Golden, Saved(config),
         captureEnv' \in Ids \union {Placeholder, NoLine, Missing}, captureEnv' # Golden
  PROVE  IdentityInv'
<1> USE DEF IdentityInv, unitFiles
<1>1. SavedId' = config.id
  BY IdentityAssumption DEF SavedId, Saved
<1>2. saves' \in 0 .. MaxSaves
  BY IdentityAssumption DEF Saved, IdTypeOK
<1>3. ASSUME NEW s \in Containers, box[s] # Missing
      PROVE  /\ box'[s] \in Boxes /\ box'[s] # Missing
             /\ box'[s].env = box[s].env /\ box'[s].host = box[s].host
             /\ box'[s].synced <=> box[s].synced /\ config.id = SavedId
  <2>1. box[s] \in Boxes /\ box'[s] = [box[s] EXCEPT !.synced = @ /\ config.id = SavedId]
    BY <1>3 DEF IdTypeOK, Saved
  <2>2. box'[s] \in Boxes
    BY <2>1 DEF Boxes
  <2>3. QED
    BY <2>1, <2>2, IdentityAssumption DEF Boxes
<1>4. ASSUME NEW s \in Containers, box[s] = Missing PROVE box'[s] = Missing
  BY <1>4 DEF Saved
<1>5. box' \in [Containers -> Boxes \union {Missing}]
  <2>1. \A s \in Containers : box'[s] \in Boxes \union {Missing}
    BY <1>3, <1>4
  <2>2. DOMAIN box' = Containers /\ box' = [s \in Containers |-> box'[s]]
    BY DEF Saved
  <2>3. QED
    BY <2>1, <2>2
<1>6. IdTypeOK'
  BY <1>2, <1>5 DEF IdTypeOK, Saved
<1>7. NotGolden'
  BY <1>1, <1>3, <1>4 DEF NotGolden, Saved
<1>8. InForce'
  BY <1>1, <1>3, <1>4 DEF InForce, Saved, Containers, IdTypeOK
<1>9. SameIdentity'
  BY <1>1, <1>3, <1>7 DEF SameIdentity, NotGolden, InForce, Saved, Containers
<1>10. QED
  BY <1>6, <1>7, <1>8, <1>9

LEMMA IdentityInit == IdInit => IdentityInv
<1> SUFFICES ASSUME IdInit PROVE IdentityInv
  OBVIOUS
<1> USE IdentityAssumption, OwnNames DEF IdInit
<1>1. IdTypeOK
  <2>1. 0 \in 0 .. MaxBoots /\ 0 \in 0 .. MaxSaves /\ 0 \in 0 .. MaxMade
    OBVIOUS
  <2>2. envId \in Ids \union {Placeholder, NoLine}
    BY DEF Ids
  <2>3. box \in [Containers -> Boxes \union {Missing}]
    OBVIOUS
  <2>4. sensorId \in [Containers -> Ids \union {Missing}]
    OBVIOUS
  <2>5. QED
    BY <2>1, <2>2, <2>3, <2>4 DEF IdTypeOK
<1>2. NotGolden
  BY DEF NotGolden, SavedId
<1>3. InForce /\ SameIdentity
  BY DEF InForce, SameIdentity, SavedId, Names, Containers
<1>4. QED
  BY <1>1, <1>2, <1>3 DEF IdentityInv

LEMMA IdentityNext == IdentityInv /\ [IdNext]_idVars => IdentityInv'
<1> SUFFICES ASSUME IdentityInv, [IdNext]_idVars
             PROVE  IdentityInv'
  OBVIOUS
<1> USE DEF IdentityInv, unitFiles
<1>1. CASE MakeMachineId
  <2>1. IdTypeOK'
    BY <1>1, IdentityAssumption DEF MakeMachineId, IdTypeOK
  <2>2. machineIds' > 0
    BY <1>1, IdentityAssumption DEF MakeMachineId, IdTypeOK
  <2>3. QED
    BY <2>1, <2>2, <1>1 DEF MakeMachineId, NotGolden, InForce, SameIdentity, SavedId
<1>2. CASE AssignId
  <2>1. envId = Golden => MachineName(machineIds) \in Own
    BY <1>2, OwnNames DEF AssignId, NotGolden, IdTypeOK
  <2>2. envId' \in Ids \union {Placeholder, NoLine}
    BY <1>2, <2>1, OwnNames DEF AssignId, IdTypeOK
  <2>3. IdTypeOK'
    BY <1>2, <2>2 DEF AssignId, IdTypeOK
  <2>4. NotGolden'
    BY <1>2, <2>1, OwnNames, IdentityAssumption DEF AssignId, NotGolden, SavedId
  <2>5. QED
    BY <2>3, <2>4, <1>2 DEF AssignId, InForce, SameIdentity, SavedId
<1>3. CASE SetMarker
  <2>1. IdTypeOK' /\ NotGolden'
    BY <1>3 DEF SetMarker, IdTypeOK, NotGolden, SavedId
  <2>2. QED
    BY <2>1, <1>3 DEF SetMarker, InForce, SameIdentity, SavedId
<1>4. CASE Reboot
  <2>1. /\ boot' \in {"machine", "up"} /\ (boot' = "up" => marker)
        /\ SavedId' = SavedId
        /\ UNCHANGED <<marker, machineIds, envId, captureEnv, platform, saves, made>>
    BY <1>4 DEF Reboot, SavedId
  <2>2. CASE /\ box' = [s \in Containers |-> Missing]
             /\ sensorId' = [s \in Containers |-> Missing] /\ fresh' = {}
    <3>1. IdTypeOK'
      BY <2>1, <2>2 DEF IdTypeOK
    <3>2. NotGolden'
      BY <2>1, <2>2, IdentityAssumption DEF NotGolden
    <3>3. InForce'
      BY <2>2 DEF InForce, Containers
    <3>4. QED
      BY <3>1, <3>2, <3>3, <2>2 DEF NotGolden, SameIdentity
  <2>3. CASE /\ sensorId' = [s \in Containers |->
                              IF box[s] = Missing THEN Missing ELSE IdOf(s, box[s])]
             /\ fresh' = {s \in Containers : box[s] # Missing} /\ box' = box
    <3>1. ASSUME NEW s \in Containers, box[s] # Missing
          PROVE  IdOf(s, box[s]) \in Ids /\ IdOf(s, box[s]) # Golden
      <4>1. box[s] \in Boxes
        BY <3>1 DEF IdTypeOK
      <4>2. QED
        BY <4>1, <3>1, IdOfTypes DEF NotGolden
    <3>2. sensorId' \in [Containers -> Ids \union {Missing}]
      BY <2>3, <3>1
    <3>3. IdTypeOK'
      BY <2>1, <2>3, <3>2 DEF IdTypeOK
    <3>4. NotGolden'
      BY <2>1, <2>3, <3>1, IdentityAssumption DEF NotGolden
    <3>5. InForce'
      BY <2>1, <2>3 DEF InForce
    <3>6. SameIdentity'
      BY <2>1, <2>3, <3>4, IdOfNamed DEF InForce, SameIdentity, NotGolden, Containers
    <3>7. QED
      BY <3>3, <3>4, <3>5, <3>6
  <2>4. QED
    BY <1>4, <2>2, <2>3 DEF Reboot
<1>5. CASE ProvideCaptureEnv
  <2>1. IdTypeOK' /\ NotGolden'
    BY <1>5, IdentityAssumption DEF ProvideCaptureEnv, IdTypeOK, NotGolden, SavedId
  <2>2. QED
    BY <2>1, <1>5 DEF ProvideCaptureEnv, InForce, SameIdentity, SavedId
<1>6. ASSUME NEW s \in Containers, ComposeUp(s) PROVE IdentityInv'
  <2> DEFINE b == [env |-> Environment(s),
                   host |-> IF s = "sensor" THEN HostName ELSE NameOf(made'),
                   synced |-> captureEnv = SavedId]
  <2>1. /\ boot = "up" /\ captureEnv # Missing /\ made < MaxMade /\ made' = made + 1
        /\ box' = [box EXCEPT ![s] = b]
        /\ sensorId' = [sensorId EXCEPT ![s] = IdOf(s, box'[s])]
        /\ fresh' = fresh \union {s} /\ SavedId' = SavedId
        /\ UNCHANGED <<unitFiles, captureEnv, platform, saves>>
    BY <1>6 DEF ComposeUp, SavedId
  <2>2. Environment(s) \in Ids \union {Placeholder, NoLine} /\ Environment(s) # Golden
    BY <2>1, IdentityAssumption DEF Environment, IdTypeOK, NotGolden, Containers
  <2>3. made' \in 1 .. MaxMade /\ made' \in 0 .. MaxMade
    BY <2>1, IdentityAssumption DEF IdTypeOK
  <2>4. b.host \in Own
    BY <2>3, OwnNames
  <2>5. b \in Boxes /\ b.env # Golden /\ b.host # Golden /\ b # Missing
    <3>1. b \in Boxes
      BY <2>2, <2>4, OwnNames DEF Boxes
    <3>2. b.env = Environment(s) /\ b.host # Golden
      BY <2>4, OwnNames
    <3>3. QED
      BY <3>1, <3>2, <2>2, IdentityAssumption
  <2>6. box'[s] = b /\ box' \in [Containers -> Boxes \union {Missing}]
    BY <2>1, <2>5 DEF IdTypeOK
  <2>7. sensorId'[s] = IdOf(s, b) /\ IdOf(s, b) \in Ids /\ IdOf(s, b) # Golden
    BY <2>1, <2>5, <2>6, IdOfTypes DEF IdTypeOK, NotGolden
  <2>8. sensorId' \in [Containers -> Ids \union {Missing}]
    BY <2>1, <2>6, <2>7 DEF IdTypeOK
  <2>9. IdTypeOK'
    BY <2>1, <2>3, <2>6, <2>8 DEF IdTypeOK
  <2>10. NotGolden'
    BY <2>1, <2>5, <2>6, <2>7 DEF NotGolden, IdTypeOK
  <2>11. b.synced /\ Names(SavedId) /\ s = "sensor" => b.env = SavedId
    BY <2>1 DEF Environment, Names
  <2>12. \A c \in Containers \ {s} : box'[c] = box[c] /\ sensorId'[c] = sensorId[c]
    BY <2>1 DEF IdTypeOK
  <2> HIDE DEF b
  <2>13. InForce'
    BY <2>1, <2>5, <2>6, <2>11, <2>12 DEF InForce, Containers, IdTypeOK
  <2>14. SameIdentity'
    BY <2>1, <2>6, <2>7, <2>10, <2>11, <2>12, IdOfNamed
    DEF SameIdentity, NotGolden, Containers
  <2>15. QED
    BY <2>9, <2>10, <2>13, <2>14
<1>7. ASSUME NEW s \in Containers, RestartContainer(s) PROVE IdentityInv'
  <2>1. /\ box[s] # Missing
        /\ sensorId' = [sensorId EXCEPT ![s] = IdOf(s, box[s])]
        /\ fresh' = fresh \union {s} /\ SavedId' = SavedId
        /\ UNCHANGED <<unitFiles, captureEnv, platform, box, saves, made>>
    BY <1>7 DEF RestartContainer, Started, SavedId
  <2>2. box[s] \in Boxes
    BY <2>1 DEF IdTypeOK
  <2>3. sensorId'[s] = IdOf(s, box[s]) /\ IdOf(s, box[s]) \in Ids /\ IdOf(s, box[s]) # Golden
    BY <2>1, <2>2, IdOfTypes DEF IdTypeOK, NotGolden
  <2>4. sensorId' \in [Containers -> Ids \union {Missing}]
    BY <2>1, <2>3 DEF IdTypeOK
  <2>5. IdTypeOK'
    BY <2>1, <2>4 DEF IdTypeOK
  <2>6. \A c \in Containers \ {s} : sensorId'[c] = sensorId[c]
    BY <2>1 DEF IdTypeOK
  <2>7. NotGolden'
    BY <2>1, <2>3, <2>6 DEF NotGolden
  <2>8. InForce'
    BY <2>1 DEF InForce
  <2>9. SameIdentity'
    BY <2>1, <2>3, <2>6, <2>7, IdOfNamed DEF SameIdentity, InForce, NotGolden, Containers
  <2>10. QED
    BY <2>5, <2>7, <2>8, <2>9
<1>8. ASSUME NEW id \in Chosen \union {Placeholder, LoadedId.id}, box["console"] # Missing,
             SaveConfig(id)
      PROVE  IdentityInv'
  <2> DEFINE config == [LoadedId EXCEPT !.id = id, !.configured = TRUE]
  <2>1. id \in Ids \union {Placeholder} /\ id # Golden
    <3>1. LoadedId.id \in Ids \union {Placeholder} /\ LoadedId.id # Golden
      BY <1>8, LoadedTypes DEF Platforms
    <3>2. QED
      BY <3>1, OwnNames, IdentityAssumption
  <2>2. config \in Platforms /\ config.id = id
    BY <1>8, <2>1, LoadedTypes DEF Platforms
  <2> HIDE DEF config
  <2>3. Saved(config) /\ captureEnv' = id
    BY <1>8 DEF SaveConfig, SavesPlatform, Saved, config
  <2>4. QED
    BY <2>1, <2>2, <2>3, SavedKeeps
<1>9. ASSUME NEW ok \in BOOLEAN, box["console"] # Missing, RecordResult(ok) PROVE IdentityInv'
  <2>1. PICK tenant \in {FALSE, ok} :
               SavesPlatform([LoadedId EXCEPT !.registered = ok, !.configured = @ \/ tenant])
    BY <1>9 DEF RecordResult
  <2> DEFINE config == [LoadedId EXCEPT !.registered = ok, !.configured = @ \/ tenant]
  <2>2. config \in Platforms /\ config.id = LoadedId.id
    BY <1>9, LoadedTypes DEF Platforms
  <2> HIDE DEF config
  <2>3. Saved(config) /\ captureEnv' = captureEnv
    BY <1>9, <2>1, <2>2 DEF RecordResult, SavesPlatform, Saved, config
  <2>4. QED
    BY <1>9, <2>2, <2>3, LoadedTypes, SavedKeeps DEF IdTypeOK, NotGolden
<1>10. CASE UNCHANGED idVars
  <2>1. IdTypeOK'
    BY <1>10 DEF idVars, IdTypeOK
  <2>2. QED
    BY <2>1, <1>10 DEF idVars, NotGolden, InForce, SameIdentity, SavedId
<1>11. QED
  BY <1>1, <1>2, <1>3, <1>4, <1>5, <1>6, <1>7, <1>8, <1>9, <1>10 DEF IdNext

\* The types of Identity's variables.
THEOREM IdTypeCorrect == IdSpec => []IdTypeOK
<1>1. IdentityInv => IdTypeOK
  BY DEF IdentityInv
<1>2. QED
  BY <1>1, IdentityInit, IdentityNext, PTL DEF IdSpec

\* SameIdentity: no service goes by the ID of the image, and those started since platform.json
\* was given its name go by it, but for a sensor whose container has another in its environment
\* (firstboot.sh, resolve_sensor_id_with_source).
THEOREM SameIdentityCorrect == IdSpec => []SameIdentity
<1>1. IdentityInv => SameIdentity
  BY DEF IdentityInv
<1>2. QED
  BY <1>1, IdentityInit, IdentityNext, PTL DEF IdSpec

-----------------------------------------------------------------------------
\* The drivers of the field devices (DeviceDrivers).

\* A file that a running driver has not read as it is, is at a request that will restart it.
Pending(d) ==
  \E q \in DrvRequests : work[q].at \in {"write", "inspect", "restart"} /\ work[q].file[1] = d

ReadOrPending ==
  \A d \in Drivers : driver[d] = "up" /\ d \notin unloaded =>
    Pending(d) \/ \A f \in FilesOf(d) : saved[f] # NoFile => loaded[f] = saved[f]

DriversInv == DrvTypeOK /\ ReadOrPending

LEMMA DriversInit == DrvInit => DriversInv
<1> SUFFICES ASSUME DrvInit PROVE DriversInv
  OBVIOUS
<1> USE DrvAssumption DEF DrvInit
<1>1. 0 \in Versions /\ 1 \in Versions
  BY DEF Versions
<1>2. DrvTypeOK
  <2>1. /\ saveCount \in 0 .. MaxDeviceSaves /\ deleteCount \in 0 .. MaxDeletes
        /\ exitCount \in 0 .. MaxDriverExits /\ drvKills \in 0 .. MaxDrvKills
    OBVIOUS
  <2>2. saved \in [Files -> Versions] /\ loaded \in [Files -> Versions]
    BY <1>1 DEF NoFile
  <2>3. QED
    BY <2>1, <2>2 DEF DrvTypeOK
<1>3. ReadOrPending
  BY DEF ReadOrPending
<1>4. QED
  BY <1>2, <1>3 DEF DriversInv

\* The types, action by action.
LEMMA DrvTypeNext == DrvTypeOK /\ [DrvNext]_drvVars => DrvTypeOK'
<1> SUFFICES ASSUME DrvTypeOK, [DrvNext]_drvVars
             PROVE  DrvTypeOK'
  OBVIOUS
<1> DEFINE AnyWork == {NoWork} \union Writing \union Deleting
<1>0. /\ MaxDeviceSaves \in Nat /\ MaxDeletes \in Nat /\ MaxDriverExits \in Nat /\ MaxDrvKills \in Nat
      /\ NoFile \in Versions /\ Torn \in Versions
  BY DrvAssumption DEF Versions, NoFile, Torn
<1>a. ASSUME NEW q \in DrvRequests, work[q].at \in {"write", "inspect", "restart", "start"}
      PROVE  work[q] \in Writing /\ work[q].file \in Files /\ work[q].file[1] \in Drivers
             /\ work[q].version \in Versions
  <2>1. work[q] \in Writing
    BY <1>a DEF DrvTypeOK, NoWork, Deleting
  <2>2. QED
    BY <2>1 DEF Writing, Files
<1>b. ASSUME NEW q \in DrvRequests, NEW from \in {"write", "inspect", "restart", "start"},
             NEW to \in {"write", "inspect", "restart", "start"}, Works(q, from, to)
      PROVE  work' \in [DrvRequests -> AnyWork]
  <2>1. work[q] \in Writing /\ work' = [work EXCEPT ![q] = [work[q] EXCEPT !.at = to]]
    BY <1>a, <1>b DEF Works, DrvTypeOK
  <2>2. [work[q] EXCEPT !.at = to] \in Writing
    BY <2>1 DEF Writing
  <2>3. QED
    BY <2>1, <2>2 DEF DrvTypeOK
<1>c. ASSUME NEW q \in DrvRequests, Ends(q) PROVE work' \in [DrvRequests -> AnyWork]
  BY <1>c DEF Ends, DrvTypeOK
<1>d. ASSUME NEW d \in Drivers, Starting(d)
      PROVE  driver' \in [Drivers -> {"down", "starting", "up"}]
  BY <1>d DEF Starting, DrvTypeOK
<1> HIDE DEF AnyWork
<1>1. ASSUME NEW q \in DrvRequests, NEW f \in Files, Truncate(q, f) PROVE DrvTypeOK'
  <2>1. /\ saveCount < MaxDeviceSaves /\ saveCount' = saveCount + 1
        /\ saved' = [saved EXCEPT ![f] = Torn]
        /\ work' = [work EXCEPT ![q] = [at |-> "write", file |-> f, version |-> 1 + saveCount']]
        /\ UNCHANGED <<driver, loaded, unloaded, deleteCount, exitCount, drvKills>>
    BY <1>1 DEF Truncate
  <2>2. saveCount' \in 0 .. MaxDeviceSaves /\ 1 + saveCount' \in Versions
    BY <2>1, <1>0 DEF DrvTypeOK, Versions
  <2>3. [at |-> "write", file |-> f, version |-> 1 + saveCount'] \in Writing
    BY <2>2 DEF Writing
  <2>4. work' \in [DrvRequests -> {NoWork} \union Writing \union Deleting]
    BY <2>1, <2>3 DEF DrvTypeOK
  <2>5. QED
    BY <2>1, <2>2, <2>4, <1>0 DEF DrvTypeOK
<1>2. ASSUME NEW q \in DrvRequests, NEW n \in Devices, StartDelete(q, n) PROVE DrvTypeOK'
  <2>1. /\ deleteCount < MaxDeletes /\ deleteCount' = deleteCount + 1
        /\ work' = [work EXCEPT ![q] =
                     [at |-> "delete", name |-> n, left |-> {f \in Files : saved[f] # NoFile}]]
        /\ UNCHANGED <<saved, loaded, driver, unloaded, saveCount, exitCount, drvKills>>
    BY <1>2 DEF StartDelete, drvFiles
  <2>2. deleteCount' \in 0 .. MaxDeletes
    BY <2>1, <1>0 DEF DrvTypeOK
  <2>3. [at |-> "delete", name |-> n, left |-> {f \in Files : saved[f] # NoFile}] \in Deleting
    BY DEF Deleting
  <2>4. work' \in [DrvRequests -> {NoWork} \union Writing \union Deleting]
    BY <2>1, <2>3 DEF DrvTypeOK
  <2>5. QED
    BY <2>1, <2>2, <2>4 DEF DrvTypeOK
<1>3. ASSUME NEW q \in DrvRequests, Write(q) PROVE DrvTypeOK'
  <2>1. work' \in [DrvRequests -> AnyWork] /\ work[q].at = "write"
    BY <1>3, <1>b DEF Write, Works
  <2>2. PICK v \in Versions :
             saved' = IF saved[work[q].file] = NoFile THEN saved
                      ELSE [saved EXCEPT ![work[q].file] = v]
    BY <2>1, <1>a, <1>3, <1>0 DEF Write
  <2>3. QED
    BY <2>1, <2>2, <1>3 DEF Write, DrvTypeOK, AnyWork, drvCounts
<1>4. ASSUME NEW q \in DrvRequests, Inspect(q) PROVE DrvTypeOK'
  <2>1. work' \in [DrvRequests -> AnyWork]
    BY <1>4, <1>b DEF Inspect
  <2>2. QED
    BY <2>1, <1>4 DEF Inspect, DrvTypeOK, AnyWork, drvFiles, drvCounts
<1>5. ASSUME NEW q \in DrvRequests, LeaveAlone(q) PROVE DrvTypeOK'
  <2>1. work' \in [DrvRequests -> AnyWork] /\ work[q].file[1] \in Drivers
    BY <1>5, <1>a, <1>c DEF LeaveAlone
  <2>2. QED
    BY <2>1, <1>5, <1>d DEF LeaveAlone, DrvTypeOK, AnyWork, drvFiles, drvCounts
<1>6. ASSUME NEW q \in DrvRequests, StopDriver(q) PROVE DrvTypeOK'
  <2>1. work' \in [DrvRequests -> AnyWork]
    BY <1>6, <1>b DEF StopDriver
  <2>2. QED
    BY <2>1, <1>6 DEF StopDriver, DrvTypeOK, AnyWork, drvFiles, drvCounts
<1>7. ASSUME NEW q \in DrvRequests, RestartRefused(q) PROVE DrvTypeOK'
  <2>1. work' \in [DrvRequests -> AnyWork] /\ work[q].file[1] \in Drivers
    BY <1>7, <1>a, <1>c DEF RestartRefused
  <2>2. QED
    BY <2>1, <1>7, <1>d DEF RestartRefused, DrvTypeOK, AnyWork, drvFiles, drvCounts
<1>8. ASSUME NEW q \in DrvRequests, StartStopped(q) PROVE DrvTypeOK'
  <2>1. work' \in [DrvRequests -> AnyWork] /\ work[q].file[1] \in Drivers
    BY <1>8, <1>a, <1>c DEF StartStopped
  <2>2. QED
    BY <2>1, <1>8, <1>d DEF StartStopped, DrvTypeOK, AnyWork, drvFiles, drvCounts
<1>9. ASSUME NEW q \in DrvRequests, DeleteNext(q) PROVE DrvTypeOK'
  <2>1. CASE Ends(q) /\ UNCHANGED saved
    BY <2>1, <1>9, <1>c DEF DeleteNext, DrvTypeOK, AnyWork, drvCounts
  <2>2. ASSUME NEW f \in work[q].left,
               work' = [work EXCEPT ![q].left = @ \ {f}],
               saved' = saved \/ saved' = [saved EXCEPT ![f] = NoFile]
        PROVE  DrvTypeOK'
    <3>1. work[q] \in Deleting
      BY <1>9 DEF DeleteNext, DrvTypeOK, NoWork, Writing
    <3>2. [work[q] EXCEPT !.left = @ \ {f}] \in Deleting /\ f \in Files
      BY <3>1, <2>2 DEF Deleting
    <3>3. work' \in [DrvRequests -> {NoWork} \union Writing \union Deleting]
      BY <3>2, <2>2 DEF DrvTypeOK
    <3>4. saved' \in [Files -> Versions]
      BY <3>2, <2>2, <1>0 DEF DrvTypeOK
    <3>5. QED
      BY <3>3, <3>4, <1>9 DEF DeleteNext, DrvTypeOK, drvCounts
  <2>3. QED
    BY <2>1, <2>2, <1>9 DEF DeleteNext
<1>10. ASSUME NEW d \in Drivers, LoadFiles(d) PROVE DrvTypeOK'
  BY <1>10 DEF LoadFiles, DrvTypeOK, drvCounts
<1>11. ASSUME NEW d \in Drivers, DriverExits(d) PROVE DrvTypeOK'
  <2>1. exitCount' \in 0 .. MaxDriverExits
    BY <1>11, <1>0 DEF DriverExits, DrvTypeOK
  <2>2. QED
    BY <2>1, <1>11 DEF DriverExits, DrvTypeOK, drvFiles
<1>12. ASSUME NEW d \in Drivers, StartDriver(d) PROVE DrvTypeOK'
  BY <1>12, <1>d DEF StartDriver, DrvTypeOK, drvFiles, drvCounts
<1>13. CASE KillDrvConsole
  <2>1. drvKills' \in 0 .. MaxDrvKills
    BY <1>13, <1>0 DEF KillDrvConsole, DrvTypeOK
  <2>2. unloaded' \subseteq Drivers
    BY <1>13, <1>a DEF KillDrvConsole, DrvTypeOK
  <2>3. work' \in [DrvRequests -> {NoWork} \union Writing \union Deleting]
    BY <1>13 DEF KillDrvConsole
  <2>4. driver' \in [Drivers -> {"down", "starting", "up"}]
    BY <1>13 DEF KillDrvConsole, DrvTypeOK
  <2>5. QED
    BY <2>1, <2>2, <2>3, <2>4, <1>13 DEF KillDrvConsole, DrvTypeOK, drvFiles
<1>14. CASE UNCHANGED drvVars
  BY <1>14 DEF drvVars, drvFiles, drvCounts, DrvTypeOK
<1>15. QED
  BY <1>1, <1>2, <1>3, <1>4, <1>5, <1>6, <1>7, <1>8, <1>9, <1>10, <1>11, <1>12, <1>13, <1>14
  DEF DrvNext

\* A driver that is up, and whose files no step has touched, is as it was.
LEMMA ReadKept ==
  ASSUME DriversInv, NEW d \in Drivers,
         driver'[d] = "up" /\ d \notin unloaded' => driver[d] = "up" /\ d \notin unloaded,
         loaded' = loaded, Pending(d) => Pending(d)',
         \A f \in FilesOf(d) : saved'[f] \in {saved[f], NoFile}
  PROVE  driver'[d] = "up" /\ d \notin unloaded' =>
           Pending(d)' \/ \A f \in FilesOf(d) : saved'[f] # NoFile => loaded'[f] = saved'[f]
BY DEF DriversInv, ReadOrPending

LEMMA ReadOrPendingNext == DriversInv /\ [DrvNext]_drvVars => ReadOrPending'
<1> SUFFICES ASSUME DriversInv, [DrvNext]_drvVars, NEW d \in Drivers,
                    driver'[d] = "up", d \notin unloaded'
             PROVE  Pending(d)' \/ \A f \in FilesOf(d) : saved'[f] # NoFile => loaded'[f] = saved'[f]
  BY DEF ReadOrPending, FilesOf
<1> DEFINE Goal == Pending(d)' \/ \A f \in FilesOf(d) : saved'[f] # NoFile => loaded'[f] = saved'[f]
<1>a. driver \in [Drivers -> {"down", "starting", "up"}] /\ work \in [DrvRequests -> {NoWork} \union Writing \union Deleting]
      /\ saved \in [Files -> Versions]
  BY DEF DriversInv, DrvTypeOK
<1>b. ASSUME NEW q \in DrvRequests, work[q].at \in {"write", "inspect", "restart", "start"}
      PROVE  work[q] \in Writing /\ work[q].file \in Files /\ work[q].file[1] \in Drivers
  <2>1. work[q] \in Writing
    BY <1>a, <1>b DEF NoWork, Deleting
  <2>2. QED
    BY <2>1 DEF Writing, Files
<1>c. ASSUME NEW q \in DrvRequests, \A p \in DrvRequests \ {q} : work'[p] = work[p],
             work[q].at \notin {"write", "inspect", "restart"} \/ work[q].file[1] # d
      PROVE  Pending(d) => Pending(d)'
  BY <1>c DEF Pending
<1>d. ASSUME NEW q \in DrvRequests, NEW from \in {"write", "inspect", "restart", "start"},
             NEW to \in {"write", "inspect", "restart", "start"}, Works(q, from, to)
      PROVE  /\ work[q].at = from /\ work'[q].at = to /\ work'[q].file = work[q].file
             /\ \A p \in DrvRequests \ {q} : work'[p] = work[p]
  <2>1. work[q] \in Writing /\ work' = [work EXCEPT ![q] = [work[q] EXCEPT !.at = to]]
    BY <1>b, <1>d DEF Works
  <2>2. QED
    BY <1>a, <2>1, <1>d DEF Works, Writing
<1>e. ASSUME NEW q \in DrvRequests, Ends(q)
      PROVE  \A p \in DrvRequests \ {q} : work'[p] = work[p]
  BY <1>a, <1>e DEF Ends
<1>f. ASSUME driver[d] = "up", d \notin unloaded, loaded' = loaded,
             Pending(d) => Pending(d)',
             \A f \in FilesOf(d) : saved'[f] \in {saved[f], NoFile}
      PROVE  Goal
  BY <1>f, ReadKept
<1> HIDE DEF Goal
<1>1. ASSUME NEW q \in DrvRequests, NEW f \in Files, Truncate(q, f) PROVE Goal
  <2>1. /\ work[q] = NoWork /\ saved' = [saved EXCEPT ![f] = Torn]
        /\ work' = [work EXCEPT ![q] = [at |-> "write", file |-> f, version |-> 1 + saveCount']]
        /\ UNCHANGED <<driver, loaded, unloaded>>
    BY <1>1 DEF Truncate
  <2>2. CASE f[1] = d
    BY <1>a, <2>1, <2>2 DEF Pending, Goal
  <2>3. CASE f[1] # d
    <3>1. \A g \in FilesOf(d) : saved'[g] = saved[g]
      BY <1>a, <2>1, <2>3 DEF FilesOf
    <3>2. Pending(d) => Pending(d)'
      BY <1>a, <1>c, <2>1 DEF NoWork
    <3>3. QED
      BY <2>1, <3>1, <3>2, <1>f
  <2>4. QED
    BY <2>2, <2>3
<1>2. ASSUME NEW q \in DrvRequests, NEW n \in Devices, StartDelete(q, n) PROVE Goal
  <2>1. /\ work[q] = NoWork /\ \A p \in DrvRequests \ {q} : work'[p] = work[p]
        /\ UNCHANGED <<saved, driver, loaded, unloaded>>
    BY <1>a, <1>2 DEF StartDelete, drvFiles
  <2>2. Pending(d) => Pending(d)'
    BY <1>c, <2>1 DEF NoWork
  <2>3. QED
    BY <2>1, <2>2, <1>f
<1>3. ASSUME NEW q \in DrvRequests, Write(q) PROVE Goal
  <2>1. /\ work[q].at = "write" /\ work'[q].at = "inspect" /\ work'[q].file = work[q].file
        /\ \A p \in DrvRequests \ {q} : work'[p] = work[p]
        /\ UNCHANGED <<driver, loaded, unloaded>>
    BY <1>3, <1>d DEF Write
  <2>2. CASE work[q].file[1] = d
    BY <2>1, <2>2 DEF Pending, Goal
  <2>3. CASE work[q].file[1] # d
    <3>1. \A g \in FilesOf(d) : saved'[g] = saved[g]
      BY <1>a, <1>3, <2>3 DEF Write, FilesOf
    <3>2. Pending(d) => Pending(d)'
      BY <1>c, <2>1, <2>3
    <3>3. QED
      BY <2>1, <3>1, <3>2, <1>f
  <2>4. QED
    BY <2>2, <2>3
<1>4. ASSUME NEW q \in DrvRequests, Inspect(q) PROVE Goal
  <2>1. /\ work[q].at = "inspect" /\ work'[q].at = "restart" /\ work'[q].file = work[q].file
        /\ \A p \in DrvRequests \ {q} : work'[p] = work[p]
        /\ UNCHANGED <<saved, driver, loaded, unloaded>>
    BY <1>4, <1>d DEF Inspect, drvFiles
  <2>2. Pending(d) => Pending(d)'
    BY <2>1 DEF Pending
  <2>3. QED
    BY <2>1, <2>2, <1>f
<1>5. ASSUME NEW q \in DrvRequests, LeaveAlone(q) PROVE Goal
  <2>1. /\ work[q].file[1] # d /\ \A p \in DrvRequests \ {q} : work'[p] = work[p]
        /\ d \notin unloaded /\ UNCHANGED <<saved, driver, loaded>>
    BY <1>5, <1>e DEF LeaveAlone, drvFiles
  <2>2. Pending(d) => Pending(d)'
    BY <1>c, <2>1
  <2>3. QED
    BY <2>1, <2>2, <1>f
<1>6. ASSUME NEW q \in DrvRequests, StopDriver(q) PROVE Goal
  <2>1. /\ work[q].at = "restart" /\ work'[q].at = "start" /\ work'[q].file = work[q].file
        /\ \A p \in DrvRequests \ {q} : work'[p] = work[p]
        /\ UNCHANGED <<saved, loaded, unloaded>>
    BY <1>6, <1>d DEF StopDriver, drvFiles
  <2>2. work[q].file[1] # d /\ driver[d] = "up"
    BY <1>a, <1>6 DEF StopDriver
  <2>3. Pending(d) => Pending(d)'
    BY <1>c, <2>1, <2>2
  <2>4. QED
    BY <2>1, <2>2, <2>3, <1>f
<1>7. ASSUME NEW q \in DrvRequests, RestartRefused(q) PROVE Goal
  <2>1. /\ work[q].file[1] # d /\ \A p \in DrvRequests \ {q} : work'[p] = work[p]
        /\ d \notin unloaded /\ UNCHANGED <<saved, driver, loaded>>
    BY <1>7, <1>e DEF RestartRefused, drvFiles
  <2>2. Pending(d) => Pending(d)'
    BY <1>c, <2>1
  <2>3. QED
    BY <2>1, <2>2, <1>f
<1>8. ASSUME NEW q \in DrvRequests, StartStopped(q) PROVE Goal
  <2>1. /\ work[q].at = "start" /\ \A p \in DrvRequests \ {q} : work'[p] = work[p]
        /\ UNCHANGED <<saved, loaded, unloaded>>
    BY <1>8, <1>e DEF StartStopped, drvFiles
  <2>2. driver[d] = "up"
    BY <1>a, <1>8 DEF StartStopped, Starting
  <2>3. Pending(d) => Pending(d)'
    BY <1>c, <2>1
  <2>4. QED
    BY <2>1, <2>2, <2>3, <1>f
<1>9. ASSUME NEW q \in DrvRequests, DeleteNext(q) PROVE Goal
  <2>1. /\ work[q].at = "delete" /\ UNCHANGED <<driver, loaded, unloaded>>
        /\ \A p \in DrvRequests \ {q} : work'[p] = work[p]
    BY <1>a, <1>9, <1>e DEF DeleteNext
  <2>2. \A f \in FilesOf(d) : saved'[f] \in {saved[f], NoFile}
    BY <1>a, <1>9 DEF DeleteNext, FilesOf
  <2>3. Pending(d) => Pending(d)'
    BY <1>c, <2>1
  <2>4. QED
    BY <2>1, <2>2, <2>3, <1>f
<1>10. ASSUME NEW e \in Drivers, LoadFiles(e) PROVE Goal
  <2>1. CASE e = d
    BY <1>a, <1>10, <2>1 DEF LoadFiles, FilesOf, Goal
  <2>2. CASE e # d
    <3>1. /\ driver[d] = "up" /\ d \notin unloaded
          /\ UNCHANGED <<saved, work>>
      BY <1>a, <1>10, <2>2 DEF LoadFiles
    <3>2. \A f \in FilesOf(d) : loaded'[f] = loaded[f]
      BY <1>10, <2>2 DEF LoadFiles, FilesOf
    <3>3. QED
      BY <3>1, <3>2 DEF Goal, DriversInv, ReadOrPending, Pending
  <2>3. QED
    BY <2>1, <2>2
<1>11. ASSUME NEW e \in Drivers, DriverExits(e) PROVE Goal
  <2>1. driver[d] = "up" /\ UNCHANGED <<saved, loaded, work, unloaded>>
    BY <1>a, <1>11 DEF DriverExits, drvFiles, Starting
  <2>2. QED
    BY <2>1, <1>f DEF Pending
<1>12. ASSUME NEW e \in Drivers, StartDriver(e) PROVE Goal
  <2>1. driver[d] = "up" /\ UNCHANGED <<saved, loaded, work, unloaded>>
    BY <1>a, <1>12 DEF StartDriver, drvFiles, Starting
  <2>2. QED
    BY <2>1, <1>f DEF Pending
<1>13. CASE KillDrvConsole
  <2>1. ~Pending(d) /\ d \notin unloaded /\ driver[d] = "up"
    BY <1>13 DEF KillDrvConsole, Pending
  <2>2. UNCHANGED <<saved, loaded>>
    BY <1>13 DEF KillDrvConsole, drvFiles
  <2>3. QED
    BY <2>1, <2>2, <1>f DEF Goal
<1>14. CASE UNCHANGED drvVars
  BY <1>14 DEF drvVars, drvFiles, drvCounts, DriversInv, ReadOrPending, Pending
<1>15. QED
  BY <1>1, <1>2, <1>3, <1>4, <1>5, <1>6, <1>7, <1>8, <1>9, <1>10, <1>11, <1>12, <1>13, <1>14
  DEF DrvNext, Goal

LEMMA DriversNext == DriversInv /\ [DrvNext]_drvVars => DriversInv'
BY DrvTypeNext, ReadOrPendingNext DEF DriversInv

\* The types of the drivers' variables.
THEOREM DrvTypeCorrect == DrvSpec => []DrvTypeOK
<1>1. DriversInv => DrvTypeOK
  BY DEF DriversInv
<1>2. QED
  BY <1>1, DriversInit, DriversNext, PTL DEF DrvSpec

\* DriversRunSaved: a driver that is up, and that no request is at work for, has read its
\* devices' files as they are, unless a request could not restart it (upsert_config_device,
\* restart_edgex_container).
THEOREM DriversRunSavedCorrect == DrvSpec => []DriversRunSaved
<1>1. DriversInv => DriversRunSaved
  BY DEF DriversInv, ReadOrPending, Pending, DriversRunSaved
<1>2. QED
  BY <1>1, DriversInit, DriversNext, PTL DEF DrvSpec

-----------------------------------------------------------------------------
\* The jobs in the sensor's container (SensorJobs).

\* Whatever learns was given up, or is waited for; and so the candidate.
LearnersKnown ==
  /\ learning = "exec" => uploads > 0
  /\ learners \subseteq overdue \union {u \in {uploads} : learning = "exec"}
  /\ learning = "read" => candidate \in overdue \union {uploads}
  /\ LearnAnswersOwn

\* Unless documents crossed, one that is held has the identities of the one that is kept.
HeldAsKept ==
  ~crossed =>
    /\ \A r \in JobRequests, ip \in Ips :
         job[r].at = "save" => job[r].doc[ip].manual = inventory[ip].manual
    /\ \A ip \in Ips : inventory[ip].manual = entered[ip]

\* What a list of steps has for a container.
About(todo, t) == {i \in DOMAIN todo : todo[i][2] = t}

\* What is wanted of a container is so, or the one request at work will see to it.
WantedOrToDo ==
  /\ \A r \in JobRequests : job[r].at \in {"inspect", "act"} => Len(job[r].todo) > 0
  /\ \A t \in Targets : wanted[t] # "any" =>
       /\ \A r, q \in Controlling : r = q
       /\ \A r \in Controlling : \A i \in About(job[r].todo, t) :
            (job[r].todo[i][1] = "stop") = (wanted[t] = "stop")
       /\ (\A r \in Controlling : About(job[r].todo, t) = {}) =>
            containers[t] = (wanted[t] = "start")

JobsInv == JobsTypeOK /\ LearnersKnown /\ HeldAsKept /\ WantedOrToDo

LEMMA JobsNat == MaxUploads \in Nat /\ MaxJobs \in Nat /\ MaxSensorEnds \in Nat
BY JobsAssumption

\* The constructors of a request's records.
LEMMA JobKinds ==
  ASSUME JobsTypeOK, NEW r \in JobRequests
  PROVE  /\ job[r].at \in {"exec", "read"} => job[r] \in Probing
         /\ job[r].at = "load" => job[r] \in Loading
         /\ job[r].at = "save" => job[r] \in Saving
         /\ job[r].at \in {"inspect", "act"} => job[r] \in Controls
BY DEF JobsTypeOK, NoJob, Probing, Loading, Saving, Controls

\* Tuples of one and two.
LEMMA Tuples ==
  ASSUME NEW S, NEW x \in S, NEW y \in S
  PROVE  /\ <<x>> \o <<y>> = <<x, y>>
         /\ <<x>> \in Seq(S) /\ <<x, y>> \in Seq(S) /\ Len(<<x>>) = 1 /\ Len(<<x, y>>) = 2
<1>1. <<x>> \in Seq(S) /\ Len(<<x>>) = 1 /\ <<y>> \in Seq(S) /\ Len(<<y>>) = 1
  OBVIOUS
<1>2. <<x, y>> \in Seq(S) /\ Len(<<x, y>>) = 2
  OBVIOUS
<1> DEFINE both == <<x>> \o <<y>>
<1>3. both \in Seq(S) /\ Len(both) = 2
  BY <1>1
<1>4. both[1] = x /\ both[2] = y
  OBVIOUS
<1>5. both = <<x, y>>
  <2> HIDE DEF both
  <2>1. \A i \in 1 .. 2 : both[i] = <<x, y>>[i]
    BY <1>4
  <2>2. QED
    BY <1>2, <1>3, <2>1, SeqEqual
<1>6. QED
  BY <1>1, <1>2, <1>5

\* A preset has something to do, and of each container one thing.
LEMMA PresetShape ==
  ASSUME NEW todo \in Presets
  PROVE  /\ todo \in Seq(Steps) /\ Len(todo) > 0
         /\ \A i, j \in DOMAIN todo : todo[i][2] = todo[j][2] => todo[i] = todo[j]
<1>1. /\ <<"stop", "capture">> \in Steps /\ <<"stop", "goose">> \in Steps
      /\ <<"start", "capture">> \in Steps /\ <<"start", "goose">> \in Steps
      /\ <<"restart", "capture">> \in Steps
  BY DEF Steps, Targets
<1>2. ASSUME NEW a \in Targets, NEW b \in Targets
      PROVE  InOrder(<<a>>, <<b>>) = << <<"stop", a>>, <<"start", b>> >>
  <2>1. [i \in DOMAIN <<a>> |-> <<"stop", <<a>>[i]>>] = << <<"stop", a>> >>
    OBVIOUS
  <2>2. [i \in DOMAIN <<b>> |-> <<"start", <<b>>[i]>>] = << <<"start", b>> >>
    OBVIOUS
  <2> DEFINE x == <<"stop", a>>
             y == <<"start", b>>
             S == {x, y}
  <2>3. x \in S /\ y \in S
    OBVIOUS
  <2> HIDE DEF x, y, S
  <2>4. <<x>> \o <<y>> = <<x, y>>
    BY <2>3, Tuples
  <2>5. QED
    BY <2>1, <2>2, <2>4 DEF InOrder, x, y
<1>3. InOrder(<<>>, <<"goose", "capture">>) = << <<"start", "goose">>, <<"start", "capture">> >>
  BY DEF InOrder
<1>4. InOrder(<<"goose", "capture">>, <<>>) = << <<"stop", "goose">>, <<"stop", "capture">> >>
  BY DEF InOrder
<1>5. \/ todo = << <<"stop", "capture">>, <<"start", "goose">> >>
      \/ todo = << <<"stop", "goose">>, <<"start", "capture">> >>
      \/ todo = << <<"start", "goose">>, <<"start", "capture">> >>
      \/ todo = << <<"stop", "goose">>, <<"stop", "capture">> >>
      \/ todo = << <<"restart", "capture">> >>
  BY <1>2, <1>3, <1>4 DEF Presets, Targets
<1>6. \/ \E x, y \in Steps : todo = <<x, y>>
      \/ \E x \in Steps : todo = <<x>>
  BY <1>1, <1>5
<1>7. todo \in Seq(Steps) /\ Len(todo) > 0
  <2>1. ASSUME NEW x \in Steps, NEW y \in Steps
        PROVE  <<x>> \in Seq(Steps) /\ <<x, y>> \in Seq(Steps) /\ Len(<<x>>) > 0 /\ Len(<<x, y>>) > 0
    BY Tuples
  <2>2. QED
    BY <1>6, <2>1
<1>8. \A i, j \in DOMAIN todo : todo[i][2] = todo[j][2] => todo[i] = todo[j]
  BY <1>5
<1>9. QED
  BY <1>7, <1>8

AllJobs == {NoJob} \union Probing \union Loading \union Saving \union Controls

\* A sequence without its head.
LEMMA Rest ==
  ASSUME NEW S, NEW s \in Seq(S), Len(s) > 0
  PROVE  /\ s[1] \in S /\ Len(s) \in Nat
         /\ Tail(s) \in Seq(S) /\ Len(Tail(s)) = Len(s) - 1
         /\ \A i \in 1 .. Len(s) - 1 : Tail(s)[i] = s[i + 1]
         /\ Len(s) # 1 => Len(Tail(s)) > 0
<1>1. s # <<>> /\ Len(s) \in Nat
  BY EmptySeq
<1>2. /\ s[1] \in S /\ Tail(s) \in Seq(S) /\ Len(Tail(s)) = Len(s) - 1
      /\ \A i \in 1 .. Len(Tail(s)) : Tail(s)[i] = s[i + 1]
  BY <1>1, HeadTailProperties
<1>3. QED
  BY <1>1, <1>2

\* What is left of a list of steps once its head is done.
LEMMA AdvancedKind ==
  ASSUME JobsInv, NEW r \in Controlling
  PROVE  /\ job[r] \in Controls /\ job[r].todo \in Seq(Steps) /\ Len(job[r].todo) > 0
         /\ Target(r) \in Targets /\ Verb(r) \in {"stop", "start", "restart"}
         /\ Advanced(r) \in {NoJob} \union Controls
         /\ \/ Advanced(r) = NoJob /\ Len(job[r].todo) = 1
            \/ /\ Advanced(r).at = "inspect" /\ Advanced(r).todo = Tail(job[r].todo)
               /\ Len(Advanced(r).todo) > 0
         /\ [job[r] EXCEPT !.at = "act"] \in Controls
<1>1. r \in JobRequests /\ job[r].at \in {"inspect", "act"}
  BY DEF Controlling
<1>2. job[r] \in Controls /\ Len(job[r].todo) > 0
  BY <1>1, JobKinds DEF JobsInv, WantedOrToDo
<1>3. job[r].todo \in Seq(Steps)
  BY <1>2 DEF Controls
<1>4. job[r].todo[1] \in Steps /\ Len(job[r].todo) \in Nat
  BY <1>2, <1>3, Rest
<1>5. Target(r) \in Targets /\ Verb(r) \in {"stop", "start", "restart"}
  BY <1>4 DEF Target, Verb, Steps
<1>6. Len(job[r].todo) # 1 =>
        Tail(job[r].todo) \in Seq(Steps) /\ Len(Tail(job[r].todo)) > 0
  BY <1>2, <1>3, Rest
<1>7. [job[r] EXCEPT !.at = "act"] \in Controls
  BY <1>2 DEF Controls
<1>8. CASE Len(job[r].todo) = 1
  <2>1. Advanced(r) = NoJob
    BY <1>8 DEF Advanced
  <2>2. QED
    BY <2>1, <1>8, <1>2, <1>3, <1>5, <1>7
<1>9. CASE Len(job[r].todo) # 1
  <2>1. Advanced(r) = [at |-> "inspect", todo |-> Tail(job[r].todo)]
    BY <1>9 DEF Advanced
  <2>2. Advanced(r) \in Controls
    BY <2>1, <1>6, <1>9 DEF Controls
  <2>3. QED
    BY <2>1, <2>2, <1>2, <1>3, <1>5, <1>6, <1>7, <1>9
<1>10. QED
  BY <1>8, <1>9

\* What one step does to the learning side, and to the probes.
LEMMA LearnTypes ==
  ASSUME JobsTypeOK, LearnersKnown,
         StartLearning \/ LearningTimesOut \/ AnswerLearning
           \/ \E u \in learners : LearnerWrites(u) \/ LearnerFails(u)
  PROVE  JobsTypeOK'
<1>1. /\ uploads \in Nat /\ uploads <= MaxUploads /\ MaxUploads \in Nat
      /\ learners \subseteq 1 .. uploads /\ overdue \subseteq 1 .. uploads
      /\ candidate \in 0 .. uploads /\ learnt \in [asked : 0 .. uploads, given : 0 .. uploads]
  BY JobsNat DEF JobsTypeOK
<1>2. /\ probeSide' = probeSide /\ entrySide' = entrySide /\ boxSide' = boxSide
      /\ job' = job /\ jobs' = jobs /\ sensorEnds' = sensorEnds
  BY DEF StartLearning, LearningTimesOut, AnswerLearning, LearnerWrites, LearnerFails
<1>3. ASSUME /\ learning' \in {"idle", "exec", "read"} /\ uploads' \in 0 .. MaxUploads
             /\ learners' \subseteq 1 .. uploads' /\ overdue' \subseteq 1 .. uploads'
             /\ candidate' \in 0 .. uploads'
             /\ learnt' \in [asked : 0 .. uploads', given : 0 .. uploads']
      PROVE  JobsTypeOK'
  BY <1>2, <1>3 DEF JobsTypeOK, probeSide, entrySide, boxSide
<1>4. CASE StartLearning
  <2>1. uploads' = uploads + 1 /\ uploads' \in 0 .. MaxUploads
    BY <1>1, <1>4 DEF StartLearning
  <2>2. /\ 1 .. uploads \subseteq 1 .. uploads' /\ 0 .. uploads \subseteq 0 .. uploads'
        /\ uploads' \in 1 .. uploads'
    BY <1>1, <2>1
  <2>3. learners' \subseteq 1 .. uploads' /\ overdue' \subseteq 1 .. uploads' /\ candidate' \in 0 .. uploads'
    BY <1>1, <1>4, <2>2 DEF StartLearning
  <2>4. learnt' = learnt /\ learnt' \in [asked : 0 .. uploads', given : 0 .. uploads']
    BY <1>1, <1>4, <2>2 DEF StartLearning
  <2>5. QED
    BY <1>3, <1>4, <2>1, <2>3, <2>4 DEF StartLearning, JobsTypeOK
<1>5. CASE LearningTimesOut
  <2>1. uploads \in 1 .. uploads
    BY <1>1, <1>5 DEF LearningTimesOut, LearnersKnown
  <2>2. QED
    BY <1>1, <1>3, <1>5, <2>1 DEF LearningTimesOut, JobsTypeOK
<1>6. CASE AnswerLearning
  <2>1. learnt' \in [asked : 0 .. uploads, given : 0 .. uploads]
    BY <1>1, <1>6 DEF AnswerLearning
  <2>2. QED
    BY <1>3, <1>6, <2>1 DEF AnswerLearning, JobsTypeOK
<1>7. ASSUME NEW u \in learners, LearnerWrites(u) \/ LearnerFails(u) PROVE JobsTypeOK'
  <2>1. u \in 0 .. uploads
    BY <1>1
  <2>2. /\ learners' \subseteq learners /\ candidate' \in {u, candidate}
        /\ learning' \in {"idle", "read", learning} /\ UNCHANGED <<uploads, overdue, learnt>>
    BY <1>7 DEF LearnerWrites, LearnerFails
  <2>3. /\ learners' \subseteq 1 .. uploads /\ candidate' \in 0 .. uploads
        /\ learning' \in {"idle", "exec", "read"} /\ uploads \in 0 .. MaxUploads
    BY <1>1, <2>1, <2>2 DEF JobsTypeOK
  <2>4. QED
    BY <1>1, <1>3, <2>2, <2>3
<1>8. QED
  BY <1>4, <1>5, <1>6, <1>7

\* A request is taken on.
LEMMA TakenOnTypes ==
  ASSUME JobsTypeOK, NEW r \in JobRequests, NEW first, TakenOn(r, first)
  PROVE  /\ jobs' \in 1 .. MaxJobs /\ jobs' \in 1 .. jobs' /\ jobs' \in Numbers
         /\ (1 .. jobs) \subseteq 1 .. jobs'
         /\ first \in AllJobs => job' \in [JobRequests -> AllJobs]
<1>1. /\ jobs \in 0 .. MaxJobs /\ jobs < MaxJobs /\ jobs' = jobs + 1 /\ MaxJobs \in Nat
      /\ job' = [job EXCEPT ![r] = first] /\ job \in [JobRequests -> AllJobs]
  BY JobsNat DEF JobsTypeOK, TakenOn, AllJobs
<1>2. QED
  BY <1>1 DEF Numbers

\* A patch replaces one field.
LEMMA PatchedEntries ==
  ASSUME NEW entry \in Entries, NEW field \in Fields, NEW value \in Numbers
  PROVE  /\ Patched(entry, field, value) \in Entries
         /\ Patched(entry, field, value).manual = IF field = "manual" THEN value ELSE entry.manual
<1>1. CASE field = "manual"
  <2>1. Patched(entry, field, value) = [entry EXCEPT !.manual = value]
    BY <1>1 DEF Patched
  <2>2. QED
    BY <1>1, <2>1 DEF Entries
<1>2. CASE field = "probe"
  <2>1. Patched(entry, field, value) = [entry EXCEPT !.probe = value]
    BY <1>2 DEF Patched
  <2>2. QED
    BY <1>2, <2>1 DEF Entries
<1>3. QED
  BY <1>1, <1>2 DEF Fields

\* The steps of the probes and of the inventory keep the types,
LEMMA EntryTypes ==
  ASSUME JobsTypeOK,
         \/ \E r \in JobRequests, ip \in Ips : StartProbe(r, ip) \/ EnterIdentity(r, ip)
         \/ \E p \in probers : ProberWrites(p)
         \/ \E r \in JobRequests :
               ProbeTimesOut(r) \/ ReadProbe(r) \/ LoadInventory(r) \/ SaveInventory(r)
  PROVE  JobsTypeOK'
<1>1. learnSide' = learnSide /\ boxSide' = boxSide /\ sensorEnds' = sensorEnds
  BY DEF StartProbe, EnterIdentity, ProberWrites, ProbeTimesOut, ReadProbe, LoadInventory, SaveInventory
<1>2. ASSUME /\ probers' \subseteq (1 .. jobs') \X Ips /\ probeFile' \in [Ips -> Numbers]
             /\ inventory' \in [Ips -> Entries] /\ entered' \in [Ips -> Numbers]
             /\ crossed' \in BOOLEAN /\ jobs' \in 0 .. MaxJobs
             /\ job' \in [JobRequests -> AllJobs]
      PROVE  JobsTypeOK'
  BY <1>1, <1>2 DEF JobsTypeOK, learnSide, boxSide, AllJobs
<1>3. /\ probers \subseteq (1 .. jobs) \X Ips /\ probeFile \in [Ips -> Numbers]
      /\ inventory \in [Ips -> Entries] /\ entered \in [Ips -> Numbers]
      /\ crossed \in BOOLEAN /\ jobs \in 0 .. MaxJobs
      /\ job \in [JobRequests -> AllJobs] /\ NoJob \in AllJobs
      /\ jobs \in Nat /\ MaxJobs \in Nat
  BY JobsNat DEF JobsTypeOK, AllJobs
<1>4. ASSUME NEW r \in JobRequests, NEW ip \in Ips, StartProbe(r, ip) PROVE JobsTypeOK'
  <2>1. TakenOn(r, [at |-> "exec", ip |-> ip, number |-> jobs'])
    BY <1>4 DEF StartProbe
  <2>2. jobs' \in Numbers
    BY <2>1, TakenOnTypes
  <2>3. [at |-> "exec", ip |-> ip, number |-> jobs'] \in Probing
    BY <2>2 DEF Probing
  <2>4. job' \in [JobRequests -> AllJobs] /\ jobs' \in 1 .. jobs' /\ (1 .. jobs) \subseteq 1 .. jobs'
        /\ jobs' \in 1 .. MaxJobs
    BY <2>1, <2>3, TakenOnTypes DEF AllJobs
  <2>5. probers' \subseteq (1 .. jobs') \X Ips
    BY <1>3, <1>4, <2>4 DEF StartProbe
  <2>6. jobs' \in 0 .. MaxJobs
    BY <1>3, <2>4
  <2>7. QED
    BY <1>2, <1>3, <1>4, <2>4, <2>5, <2>6 DEF StartProbe, entrySide
<1>5. ASSUME NEW r \in JobRequests, NEW ip \in Ips, EnterIdentity(r, ip) PROVE JobsTypeOK'
  <2>1. TakenOn(r, [at |-> "load", ip |-> ip, field |-> "manual", value |-> jobs'])
    BY <1>5 DEF EnterIdentity
  <2>2. jobs' \in Numbers
    BY <2>1, TakenOnTypes
  <2>3. [at |-> "load", ip |-> ip, field |-> "manual", value |-> jobs'] \in Loading
    BY <2>2 DEF Loading, Fields
  <2>4. job' \in [JobRequests -> AllJobs] /\ (1 .. jobs) \subseteq 1 .. jobs'
        /\ jobs' \in 1 .. MaxJobs
    BY <2>1, <2>3, TakenOnTypes DEF AllJobs
  <2>5. probers' \subseteq (1 .. jobs') \X Ips
    BY <1>3, <1>5, <2>4 DEF EnterIdentity, probeSide
  <2>6. jobs' \in 0 .. MaxJobs
    BY <1>3, <2>4
  <2>7. QED
    BY <1>2, <1>3, <1>5, <2>4, <2>5, <2>6 DEF EnterIdentity, entrySide, probeSide
<1>6. ASSUME NEW p \in probers, ProberWrites(p) PROVE JobsTypeOK'
  <2>1. p[1] \in Numbers /\ p[2] \in Ips
    BY <1>3 DEF Numbers
  <2>2. ASSUME NEW r \in JobRequests, job[r].at = "exec"
        PROVE  [job[r] EXCEPT !.at = "read"] \in AllJobs
    BY <2>2, JobKinds DEF Probing, AllJobs
  <2>3. job' \in [JobRequests -> AllJobs]
    BY <1>3, <1>6, <2>2 DEF ProberWrites
  <2>4. QED
    BY <1>2, <1>3, <1>6, <2>1, <2>3 DEF ProberWrites, entrySide
<1>7. ASSUME NEW r \in JobRequests, ProbeTimesOut(r) PROVE JobsTypeOK'
  BY <1>2, <1>3, <1>7 DEF ProbeTimesOut, probeSide, entrySide
<1>8. ASSUME NEW r \in JobRequests, ReadProbe(r) PROVE JobsTypeOK'
  <2>1. job[r].ip \in Ips
    BY <1>8, JobKinds DEF ReadProbe, Probing
  <2>2. [at |-> "load", ip |-> job[r].ip, field |-> "probe", value |-> probeFile[job[r].ip]] \in AllJobs
    BY <1>3, <2>1 DEF Loading, Fields, AllJobs
  <2>3. QED
    BY <1>2, <1>3, <1>8, <2>2 DEF ReadProbe, probeSide, entrySide
<1>9. ASSUME NEW r \in JobRequests, LoadInventory(r) PROVE JobsTypeOK'
  <2>1. job[r] \in Loading
    BY <1>9, JobKinds DEF LoadInventory
  <2>2. [at |-> "save", ip |-> job[r].ip, field |-> job[r].field, value |-> job[r].value,
         doc |-> inventory] \in AllJobs
    BY <1>3, <2>1 DEF Loading, Saving, AllJobs
  <2>3. QED
    BY <1>2, <1>3, <1>9, <2>2 DEF LoadInventory, probeSide, entrySide
<1>10. ASSUME NEW r \in JobRequests, SaveInventory(r) PROVE JobsTypeOK'
  <2>1. job[r] \in Saving
    BY <1>10, JobKinds DEF SaveInventory
  <2>2. /\ job[r].ip \in Ips /\ job[r].value \in Numbers /\ job[r].doc \in [Ips -> Entries]
        /\ Patched(job[r].doc[job[r].ip], job[r].field, job[r].value) \in Entries
    BY <2>1, PatchedEntries DEF Saving
  <2>3. inventory' \in [Ips -> Entries]
    BY <1>10, <2>2 DEF SaveInventory
  <2>4. entered' \in [Ips -> Numbers]
    BY <1>3, <1>10, <2>2 DEF SaveInventory
  <2>5. QED
    BY <1>2, <1>3, <1>10, <2>3, <2>4 DEF SaveInventory, probeSide
<1>11. QED
  BY <1>4, <1>5, <1>6, <1>7, <1>8, <1>9, <1>10

\* ... and so do those of the containers.
LEMMA BoxTypes ==
  ASSUME JobsInv,
         \/ \E r \in JobRequests, todo \in Presets : ApplyAction(r, todo)
         \/ \E r \in JobRequests :
               InspectBox(r) \/ InspectBoxFails(r) \/ Act(r) \/ ActFails(r) \/ ActTimesOut(r)
         \/ SensorEnds
  PROVE  JobsTypeOK'
<1>1. JobsTypeOK
  BY DEF JobsInv
<1>2. entrySide' = entrySide
  BY DEF ApplyAction, InspectBox, InspectBoxFails, Act, ActFails, ActTimesOut, SensorEnds
<1>3. UNCHANGED <<learnSide, probeSide>> \/ ProcessesEnd
  BY DEF ApplyAction, InspectBox, InspectBoxFails, Act, ActFails, ActTimesOut, SensorEnds, Does
<1>4. /\ uploads' = uploads /\ overdue' = overdue /\ candidate' = candidate /\ learnt' = learnt
      /\ learners' \subseteq learners /\ learning' \in {"idle", learning}
      /\ probers' \subseteq probers /\ probeFile' = probeFile
  BY <1>3 DEF ProcessesEnd, learnSide, probeSide
<1>5. /\ job \in [JobRequests -> AllJobs] /\ NoJob \in AllJobs /\ Controls \subseteq AllJobs
      /\ jobs \in 0 .. MaxJobs /\ sensorEnds \in 0 .. MaxSensorEnds
      /\ containers \in [Targets -> BOOLEAN] /\ wanted \in [Targets -> {"start", "stop", "any"}]
  BY <1>1 DEF JobsTypeOK, AllJobs
<1>6. ASSUME /\ jobs' \in 0 .. MaxJobs /\ (1 .. jobs) \subseteq 1 .. jobs'
             /\ sensorEnds' \in 0 .. MaxSensorEnds
             /\ containers' \in [Targets -> BOOLEAN]
             /\ wanted' \in [Targets -> {"start", "stop", "any"}]
             /\ job' \in [JobRequests -> AllJobs]
      PROVE  JobsTypeOK'
  <2>1. probers' \subseteq (1 .. jobs') \X Ips
    BY <1>1, <1>4, <1>6 DEF JobsTypeOK
  <2>2. QED
    BY <1>1, <1>2, <1>4, <1>6, <2>1 DEF JobsTypeOK, entrySide, AllJobs
<1>7. ASSUME NEW r \in JobRequests, NEW todo \in Presets, ApplyAction(r, todo) PROVE JobsTypeOK'
  <2>1. TakenOn(r, [at |-> "inspect", todo |-> todo])
    BY <1>7 DEF ApplyAction
  <2>2. [at |-> "inspect", todo |-> todo] \in Controls
    BY PresetShape DEF Controls
  <2>3. job' \in [JobRequests -> AllJobs] /\ (1 .. jobs) \subseteq 1 .. jobs' /\ jobs' \in Numbers
    BY <1>1, <1>5, <2>1, <2>2, TakenOnTypes
  <2>4. wanted' \in [Targets -> {"start", "stop", "any"}]
    BY <1>5, <1>7 DEF ApplyAction
  <2>5. containers' = containers /\ sensorEnds' = sensorEnds
    BY <1>7 DEF ApplyAction
  <2>6. QED
    BY <1>5, <1>6, <2>3, <2>4, <2>5 DEF Numbers
<1>8. ASSUME NEW r \in JobRequests, NEW k \in {NoJob} \union Controls, Does(r, k),
             r \in Controlling
      PROVE  containers' \in [Targets -> BOOLEAN] /\ job' \in [JobRequests -> AllJobs]
  <2>1. containers' \in [Targets -> BOOLEAN]
    BY <1>5, <1>8 DEF Does
  <2>2. [job EXCEPT ![r] = k] \in [JobRequests -> AllJobs]
    BY <1>5, <1>8
  <2>3. Reported([job EXCEPT ![r] = k]) \in [JobRequests -> AllJobs]
    BY <1>5, <2>2 DEF Reported
  <2>4. QED
    BY <1>8, <2>1, <2>2, <2>3 DEF Does
<1>9. ASSUME NEW r \in JobRequests,
             InspectBox(r) \/ InspectBoxFails(r) \/ Act(r) \/ ActFails(r) \/ ActTimesOut(r)
      PROVE  JobsTypeOK'
  <2>1. r \in Controlling
    BY <1>9 DEF Controlling, InspectBox, InspectBoxFails, Act, ActFails, ActTimesOut
  <2>2. /\ Advanced(r) \in {NoJob} \union Controls /\ [job[r] EXCEPT !.at = "act"] \in Controls
    BY <2>1, AdvancedKind
  <2>3. jobs' = jobs /\ sensorEnds' = sensorEnds
    BY <1>9 DEF InspectBox, InspectBoxFails, Act, ActFails, ActTimesOut
  <2>4. wanted' \in [Targets -> {"start", "stop", "any"}]
    BY <1>5, <1>9 DEF InspectBox, InspectBoxFails, Act, ActFails, ActTimesOut, boxSide
  <2>5. containers' \in [Targets -> BOOLEAN] /\ job' \in [JobRequests -> AllJobs]
    <3>1. CASE InspectBox(r)
      BY <1>5, <2>2, <3>1 DEF InspectBox, boxSide
    <3>2. CASE InspectBoxFails(r)
      BY <1>5, <2>2, <3>2 DEF InspectBoxFails
    <3>3. CASE Act(r)
      BY <1>8, <2>1, <2>2, <3>3 DEF Act
    <3>4. CASE ActFails(r)
      BY <1>5, <2>2, <3>4 DEF ActFails
    <3>5. CASE ActTimesOut(r)
      BY <1>5, <1>8, <2>1, <3>5 DEF ActTimesOut
    <3>6. QED
      BY <1>9, <3>1, <3>2, <3>3, <3>4, <3>5
  <2>6. QED
    BY <1>5, <1>6, <2>3, <2>4, <2>5
<1>10. CASE SensorEnds
  <2>1. sensorEnds' \in 0 .. MaxSensorEnds
    BY <1>5, <1>10, JobsNat DEF SensorEnds
  <2>2. job' \in [JobRequests -> AllJobs]
    BY <1>5, <1>10 DEF SensorEnds, Reported
  <2>3. QED
    BY <1>5, <1>6, <1>10, <2>1, <2>2 DEF SensorEnds, boxSide
<1>11. QED
  BY <1>7, <1>9, <1>10

LEMMA JobsTypeNext == JobsInv /\ [JobsNext]_jobsVars => JobsTypeOK'
<1> SUFFICES ASSUME JobsInv, [JobsNext]_jobsVars PROVE JobsTypeOK'
  OBVIOUS
<1>1. JobsTypeOK /\ LearnersKnown
  BY DEF JobsInv
<1>2. CASE UNCHANGED jobsVars
  BY <1>1, <1>2 DEF jobsVars, learnSide, probeSide, entrySide, boxSide, JobsTypeOK
<1>3. QED
  BY <1>1, <1>2, LearnTypes, EntryTypes, BoxTypes DEF JobsNext

LEMMA JobsInvInit == JobsInit => JobsInv
<1> SUFFICES ASSUME JobsInit PROVE JobsInv
  OBVIOUS
<1> USE DEF JobsInit
<1>1. JobsTypeOK
  <2>1. /\ 0 \in 0 .. MaxUploads /\ 0 \in 0 .. MaxJobs /\ 0 \in 0 .. MaxSensorEnds /\ 0 \in Numbers
        /\ [asked |-> 0, given |-> 0] \in [asked : 0 .. uploads, given : 0 .. uploads]
    BY JobsNat DEF Numbers
  <2>2. [manual |-> 0, probe |-> 0] \in Entries
    BY <2>1 DEF Entries
  <2>3. /\ inventory \in [Ips -> Entries] /\ probeFile \in [Ips -> Numbers]
        /\ entered \in [Ips -> Numbers] /\ containers \in [Targets -> BOOLEAN]
        /\ wanted \in [Targets -> {"start", "stop", "any"}]
    BY <2>1, <2>2
  <2>4. QED
    BY <2>1, <2>3 DEF JobsTypeOK
<1>2. LearnersKnown /\ HeldAsKept
  BY DEF LearnersKnown, LearnAnswersOwn, HeldAsKept, NoJob
<1>3. WantedOrToDo
  BY DEF WantedOrToDo, Controlling, NoJob
<1>4. QED
  BY <1>1, <1>2, <1>3 DEF JobsInv

\* What is shown as learnt: a learner that was given up stays one of those.
LEMMA LearnersNext == JobsInv /\ [JobsNext]_jobsVars => LearnersKnown'
<1> SUFFICES ASSUME JobsInv, [JobsNext]_jobsVars PROVE LearnersKnown'
  OBVIOUS
<1> USE DEF LearnersKnown, LearnAnswersOwn
<1>1. LearnersKnown /\ uploads \in Nat
  BY JobsNat DEF JobsInv, JobsTypeOK
<1>2. \/ StartLearning \/ LearningTimesOut \/ AnswerLearning
      \/ \E u \in learners : LearnerWrites(u) \/ LearnerFails(u)
      \/ ProcessesEnd \/ UNCHANGED learnSide
  BY DEF JobsNext, jobsVars, StartProbe, ProberWrites, ProbeTimesOut, ReadProbe, EnterIdentity,
         LoadInventory, SaveInventory, ApplyAction, InspectBox, InspectBoxFails, Act, ActFails,
         ActTimesOut, Does, SensorEnds
<1>3. CASE StartLearning
  BY <1>1, <1>3 DEF StartLearning
<1>4. CASE LearningTimesOut
  BY <1>1, <1>4 DEF LearningTimesOut
<1>5. CASE AnswerLearning
  BY <1>1, <1>5 DEF AnswerLearning
<1>6. ASSUME NEW u \in learners, LearnerWrites(u) \/ LearnerFails(u) PROVE LearnersKnown'
  BY <1>1, <1>6 DEF LearnerWrites, LearnerFails
<1>7. CASE ProcessesEnd
  BY <1>1, <1>7 DEF ProcessesEnd
<1>8. CASE UNCHANGED learnSide
  BY <1>1, <1>8 DEF learnSide
<1>9. QED
  BY <1>2, <1>3, <1>4, <1>5, <1>6, <1>7, <1>8

\* What is held of the inventory: a document is read as it is, and saved when no other is held.
LEMMA HeldNext == JobsInv /\ [JobsNext]_jobsVars => HeldAsKept'
<1> SUFFICES ASSUME JobsInv, [JobsNext]_jobsVars, ~crossed' PROVE HeldAsKept'
  BY DEF HeldAsKept
<1>1. HeldAsKept /\ JobsTypeOK /\ job \in [JobRequests -> AllJobs] /\ inventory \in [Ips -> Entries]
      /\ entered \in [Ips -> Numbers]
  BY DEF JobsInv, JobsTypeOK, AllJobs
<1>2. ASSUME UNCHANGED entrySide,
             \A r \in JobRequests : job'[r].at = "save" => job'[r] = job[r]
      PROVE  HeldAsKept'
  BY <1>1, <1>2 DEF HeldAsKept, entrySide
<1>3. ASSUME NEW r \in JobRequests, SaveInventory(r) PROVE HeldAsKept'
  <2> DEFINE j == job[r]
  <2>1. /\ j \in Saving /\ j.at = "save" /\ ~crossed
        /\ \A q \in JobRequests \ {r} : job[q].at # "save"
    BY <1>1, <1>3, JobKinds DEF SaveInventory
  <2>2. /\ j.ip \in Ips /\ j.field \in Fields /\ j.value \in Numbers /\ j.doc \in [Ips -> Entries]
    BY <2>1 DEF Saving
  <2>3. /\ inventory' = [j.doc EXCEPT ![j.ip] = Patched(j.doc[j.ip], j.field, j.value)]
        /\ entered' = IF j.field = "manual" THEN [entered EXCEPT ![j.ip] = j.value] ELSE entered
        /\ job' = [job EXCEPT ![r] = NoJob]
    BY <1>3 DEF SaveInventory
  <2>4. \A q \in JobRequests : job'[q].at # "save"
    BY <1>1, <2>1, <2>3 DEF NoJob
  <2>5. \A ip \in Ips : j.doc[ip].manual = inventory[ip].manual /\ inventory[ip].manual = entered[ip]
    BY <1>1, <2>1 DEF HeldAsKept
  <2>6. Patched(j.doc[j.ip], j.field, j.value).manual =
          IF j.field = "manual" THEN j.value ELSE j.doc[j.ip].manual
    BY <2>2, PatchedEntries
  <2> HIDE DEF j
  <2>7. \A ip \in Ips : inventory'[ip].manual = entered'[ip]
    BY <1>1, <2>2, <2>3, <2>5, <2>6
  <2>8. QED
    BY <2>4, <2>7 DEF HeldAsKept
<1>4. ASSUME NEW r \in JobRequests, LoadInventory(r) PROVE HeldAsKept'
  <2>1. /\ job' = [job EXCEPT ![r] = [at |-> "save", ip |-> job[r].ip, field |-> job[r].field,
                                      value |-> job[r].value, doc |-> inventory]]
        /\ inventory' = inventory /\ entered' = entered /\ crossed' = crossed
    BY <1>4 DEF LoadInventory, entrySide
  <2>2. QED
    BY <1>1, <2>1 DEF HeldAsKept
<1>5. CASE StartLearning \/ LearningTimesOut \/ AnswerLearning
             \/ \E u \in learners : LearnerWrites(u) \/ LearnerFails(u)
  BY <1>2, <1>5 DEF StartLearning, LearningTimesOut, AnswerLearning, LearnerWrites, LearnerFails
<1>6. ASSUME NEW p \in probers, ProberWrites(p) PROVE HeldAsKept'
  <2>1. ASSUME NEW r \in JobRequests, job'[r].at = "save" PROVE job'[r] = job[r]
    <3>1. CASE job[r].at = "exec"
      <4>1. [job[r] EXCEPT !.at = "read"].at = "read"
        BY <1>1, <3>1, JobKinds DEF Probing
      <4>2. QED
        BY <1>6, <2>1, <4>1 DEF ProberWrites
    <3>2. CASE job[r].at # "exec"
      BY <1>6, <3>2 DEF ProberWrites
    <3>3. QED
      BY <3>1, <3>2
  <2>2. QED
    BY <1>2, <1>6, <2>1 DEF ProberWrites
<1>7. ASSUME NEW r \in JobRequests, NEW first, TakenOn(r, first), first.at # "save"
      PROVE  \A q \in JobRequests : job'[q].at = "save" => job'[q] = job[q]
  BY <1>1, <1>7 DEF TakenOn
<1>8. ASSUME NEW r \in JobRequests, NEW ip \in Ips, StartProbe(r, ip) \/ EnterIdentity(r, ip)
      PROVE  HeldAsKept'
  BY <1>2, <1>7, <1>8 DEF StartProbe, EnterIdentity
<1>9. ASSUME NEW r \in JobRequests, NEW todo \in Presets, ApplyAction(r, todo) PROVE HeldAsKept'
  BY <1>2, <1>7, <1>9 DEF ApplyAction
<1>10. ASSUME NEW r \in JobRequests, ProbeTimesOut(r) \/ ReadProbe(r) PROVE HeldAsKept'
  BY <1>1, <1>2, <1>10 DEF ProbeTimesOut, ReadProbe, NoJob
<1>11. ASSUME NEW r \in JobRequests,
              InspectBox(r) \/ InspectBoxFails(r) \/ Act(r) \/ ActFails(r) \/ ActTimesOut(r)
       PROVE  HeldAsKept'
  <2>1. r \in Controlling /\ entrySide' = entrySide
    BY <1>11 DEF Controlling, InspectBox, InspectBoxFails, Act, ActFails, ActTimesOut
  <2>2. Advanced(r).at # "save" /\ NoJob.at # "save" /\ [job[r] EXCEPT !.at = "act"].at = "act"
    <3>1. job[r] \in Controls /\ Advanced(r) \in {NoJob} \union Controls
      BY <2>1, AdvancedKind
    <3>2. QED
      BY <3>1 DEF Controls, NoJob
  <2>3. \A q \in JobRequests :
          job'[q] \in {job[q], NoJob, Advanced(r), [job[r] EXCEPT !.at = "act"]}
    BY <1>1, <1>11 DEF InspectBox, InspectBoxFails, Act, ActFails, ActTimesOut, Does, Reported
  <2>4. QED
    BY <1>2, <2>1, <2>2, <2>3
<1>12. CASE SensorEnds
  BY <1>1, <1>2, <1>12 DEF SensorEnds, Reported, NoJob
<1>13. CASE UNCHANGED jobsVars
  BY <1>2, <1>13 DEF jobsVars
<1>14. QED
  BY <1>3, <1>4, <1>5, <1>6, <1>8, <1>9, <1>10, <1>11, <1>12, <1>13 DEF JobsNext

\* The requests that control containers, but for those of a set, are where they were.
ControlKept(except) ==
  \A q \in JobRequests \ except :
    /\ job'[q].at \in {"inspect", "act"} <=> job[q].at \in {"inspect", "act"}
    /\ job[q].at \in {"inspect", "act"} => job'[q].todo = job[q].todo

LEMMA WantedSame ==
  ASSUME WantedOrToDo, ControlKept({}), UNCHANGED boxSide
  PROVE  WantedOrToDo'
<1>1. Controlling' = Controlling
  BY DEF Controlling, ControlKept
<1>2. \A q \in Controlling : job'[q].todo = job[q].todo
  BY DEF Controlling, ControlKept
<1>3. \A q \in Controlling, t \in Targets : About(job'[q].todo, t) = About(job[q].todo, t)
  BY <1>2 DEF About
<1>4. \A q \in JobRequests : job'[q].at \in {"inspect", "act"} => Len(job'[q].todo) > 0
  BY DEF ControlKept, WantedOrToDo
<1>5. QED
  BY <1>1, <1>2, <1>3, <1>4 DEF WantedOrToDo, boxSide

LEMMA Before ==
  ASSUME NEW n \in Nat, NEW i \in 1 .. n, i # 1
  PROVE  i - 1 \in 1 .. n - 1 /\ (i - 1) + 1 = i /\ n # 1
OBVIOUS

\* The head of a list is done, or nothing is wanted any more of its container.
LEMMA HeadDone ==
  ASSUME JobsInv, NEW r \in Controlling, ControlKept({r}), job'[r] = Advanced(r),
         \A t \in Targets : wanted'[t] \in {wanted[t], "any"},
         \A t \in Targets \ {Target(r)} : containers'[t] = containers[t],
         wanted'[Target(r)] = "any" \/ containers'[Target(r)] = (Verb(r) # "stop")
  PROVE  WantedOrToDo'
<1>1. /\ r \in JobRequests /\ WantedOrToDo /\ wanted \in [Targets -> {"start", "stop", "any"}]
      /\ containers \in [Targets -> BOOLEAN]
  BY DEF JobsInv, JobsTypeOK, Controlling
<1> DEFINE todo == job[r].todo
           rest == job'[r].todo
<1>2. /\ todo \in Seq(Steps) /\ Len(todo) > 0 /\ Len(todo) \in Nat
      /\ Target(r) \in Targets /\ todo[1] = <<Verb(r), Target(r)>>
      /\ Verb(r) \in {"stop", "start", "restart"}
  <2>1. todo \in Seq(Steps) /\ Len(todo) > 0 /\ Target(r) \in Targets
        /\ Verb(r) \in {"stop", "start", "restart"}
    BY AdvancedKind
  <2>2. todo[1] \in Steps /\ Len(todo) \in Nat
    BY <2>1, Rest
  <2>3. QED
    BY <2>1, <2>2 DEF Steps, Verb, Target
<1>3. \/ job'[r].at = "idle" /\ Len(todo) = 1
      \/ /\ job'[r].at = "inspect" /\ rest = Tail(todo) /\ Len(rest) > 0
         /\ Len(rest) = Len(todo) - 1 /\ \A i \in 1 .. Len(todo) - 1 : rest[i] = todo[i + 1]
         /\ DOMAIN rest = 1 .. Len(rest)
  <2>1. \/ job'[r] = NoJob /\ Len(todo) = 1
        \/ job'[r].at = "inspect" /\ rest = Tail(todo) /\ Len(rest) > 0
    BY AdvancedKind
  <2>2. /\ Len(Tail(todo)) = Len(todo) - 1 /\ Tail(todo) \in Seq(Steps)
        /\ \A i \in 1 .. Len(todo) - 1 : Tail(todo)[i] = todo[i + 1]
    BY <1>2, Rest
  <2>3. DOMAIN Tail(todo) = 1 .. Len(Tail(todo))
    BY <2>2
  <2>4. CASE job'[r] = NoJob /\ Len(todo) = 1
    BY <2>4 DEF NoJob
  <2>5. CASE job'[r].at = "inspect" /\ rest = Tail(todo) /\ Len(rest) > 0
    <3> HIDE DEF rest, todo
    <3>1. QED
      BY <2>2, <2>3, <2>5
  <2>6. QED
    BY <2>1, <2>4, <2>5
<1>4. DOMAIN todo = 1 .. Len(todo)
  BY <1>2
<1>5. ASSUME NEW q \in JobRequests, job'[q].at \in {"inspect", "act"} PROVE Len(job'[q].todo) > 0
  <2>1. CASE q = r
    BY <1>3, <1>5, <2>1
  <2>2. CASE q # r
    BY <1>1, <1>5, <2>2 DEF ControlKept, WantedOrToDo
  <2>3. QED
    BY <2>1, <2>2
<1>6. ASSUME NEW t \in Targets, wanted'[t] # "any"
      PROVE  /\ \A p, q \in Controlling' : p = q
             /\ \A q \in Controlling' : \A i \in About(job'[q].todo, t) :
                  (job'[q].todo[i][1] = "stop") = (wanted'[t] = "stop")
             /\ (\A q \in Controlling' : About(job'[q].todo, t) = {}) =>
                  containers'[t] = (wanted'[t] = "start")
  <2>1. wanted'[t] = wanted[t] /\ wanted[t] # "any" /\ wanted[t] \in {"start", "stop"}
    BY <1>1, <1>6
  <2>2. \A q \in Controlling : q = r
    BY <1>1, <2>1 DEF WantedOrToDo
  <2>3. \A q \in Controlling' : q = r
    BY <2>2 DEF Controlling, ControlKept
  <2>4. \A i \in 1 .. Len(todo) : todo[i][2] = t => (todo[i][1] = "stop") = (wanted[t] = "stop")
    BY <1>1, <1>4, <2>1 DEF WantedOrToDo, About
  <2>5. ASSUME NEW q \in Controlling', NEW i \in About(job'[q].todo, t)
        PROVE  (job'[q].todo[i][1] = "stop") = (wanted'[t] = "stop")
    <3>1. q = r /\ job'[r].at \in {"inspect", "act"}
      BY <2>3 DEF Controlling
    <3>2. i \in 1 .. Len(todo) - 1 /\ rest[i] = todo[i + 1] /\ rest[i][2] = t
      BY <1>3, <3>1 DEF About
    <3>3. i + 1 \in 1 .. Len(todo)
      BY <1>2, <3>2
    <3>4. QED
      BY <2>1, <2>4, <3>1, <3>2, <3>3
  <2>6. ASSUME \A q \in Controlling' : About(job'[q].todo, t) = {}
        PROVE  containers'[t] = (wanted'[t] = "start")
    <3>1. CASE t = Target(r)
      <4>1. (Verb(r) = "stop") = (wanted[t] = "stop")
        BY <1>2, <2>4, <3>1
      <4>2. containers'[t] = (Verb(r) # "stop")
        BY <1>6, <3>1
      <4>3. QED
        BY <2>1, <4>1, <4>2
    <3>2. CASE t # Target(r)
      <4>1. ASSUME NEW i \in 1 .. Len(todo), todo[i][2] = t PROVE FALSE
        <5>1. i # 1
          BY <1>2, <3>2, <4>1
        <5>2. i - 1 \in 1 .. Len(todo) - 1 /\ (i - 1) + 1 = i /\ Len(todo) # 1
          BY <1>2, <5>1, Before
        <5>3. r \in Controlling' /\ i - 1 \in DOMAIN rest /\ rest[i - 1] = todo[i]
          BY <1>1, <1>3, <5>2 DEF Controlling
        <5>4. i - 1 \in About(rest, t)
          BY <4>1, <5>3 DEF About
        <5>5. QED
          BY <2>6, <5>3, <5>4
      <4>2. About(todo, t) = {}
        BY <1>4, <4>1 DEF About
      <4>3. containers[t] = (wanted[t] = "start")
        BY <1>1, <2>1, <2>2, <4>2 DEF WantedOrToDo
      <4>4. QED
        BY <2>1, <3>2, <4>3
    <3>3. QED
      BY <3>1, <3>2
  <2>7. QED
    BY <2>3, <2>5, <2>6
<1>7. QED
  BY <1>5, <1>6 DEF WantedOrToDo

\* What is wanted of the containers.
LEMMA WantedNext == JobsInv /\ [JobsNext]_jobsVars => WantedOrToDo'
<1> SUFFICES ASSUME JobsInv, [JobsNext]_jobsVars PROVE WantedOrToDo'
  OBVIOUS
<1>1. /\ WantedOrToDo /\ JobsTypeOK /\ job \in [JobRequests -> AllJobs]
      /\ wanted \in [Targets -> {"start", "stop", "any"}] /\ containers \in [Targets -> BOOLEAN]
  BY DEF JobsInv, JobsTypeOK, AllJobs
<1>2. ASSUME UNCHANGED boxSide, UNCHANGED job PROVE WantedOrToDo'
  BY <1>1, <1>2, WantedSame DEF ControlKept
<1>3. CASE StartLearning \/ LearningTimesOut \/ AnswerLearning
             \/ \E u \in learners : LearnerWrites(u) \/ LearnerFails(u)
  BY <1>2, <1>3 DEF StartLearning, LearningTimesOut, AnswerLearning, LearnerWrites, LearnerFails
<1>4. ASSUME NEW p \in probers, ProberWrites(p) PROVE WantedOrToDo'
  <2>1. ASSUME NEW q \in JobRequests
        PROVE  /\ job'[q].at \in {"inspect", "act"} <=> job[q].at \in {"inspect", "act"}
               /\ job[q].at \in {"inspect", "act"} => job'[q].todo = job[q].todo
    <3>1. CASE job[q].at = "exec"
      <4>1. [job[q] EXCEPT !.at = "read"].at = "read"
        BY <1>1, <3>1, JobKinds DEF Probing
      <4>2. QED
        BY <1>4, <3>1, <4>1 DEF ProberWrites
    <3>2. CASE job[q].at # "exec"
      BY <1>4, <3>2 DEF ProberWrites
    <3>3. QED
      BY <3>1, <3>2
  <2>2. boxSide' = boxSide
    BY <1>4 DEF ProberWrites
  <2>3. QED
    BY <1>1, <2>1, <2>2, WantedSame DEF ControlKept
<1>5. ASSUME NEW r \in JobRequests, NEW k, job' = [job EXCEPT ![r] = k], UNCHANGED boxSide,
             k.at \notin {"inspect", "act"}, job[r].at \notin {"inspect", "act"}
      PROVE  WantedOrToDo'
  <2>1. ControlKept({})
    BY <1>1, <1>5 DEF ControlKept
  <2>2. QED
    BY <1>1, <1>5, <2>1, WantedSame
<1>6. ASSUME NEW r \in JobRequests, NEW ip \in Ips, StartProbe(r, ip) \/ EnterIdentity(r, ip)
      PROVE  WantedOrToDo'
  BY <1>5, <1>6 DEF StartProbe, EnterIdentity, TakenOn, NoJob
<1>7. ASSUME NEW r \in JobRequests,
             ProbeTimesOut(r) \/ ReadProbe(r) \/ LoadInventory(r) \/ SaveInventory(r)
      PROVE  WantedOrToDo'
  BY <1>5, <1>7 DEF ProbeTimesOut, ReadProbe, LoadInventory, SaveInventory, NoJob
<1>8. ASSUME NEW r \in JobRequests, NEW todo \in Presets, ApplyAction(r, todo)
      PROVE  WantedOrToDo'
  <2> DEFINE about(t) == {v \in {"stop", "start", "restart"} :
                            \E i \in DOMAIN todo : todo[i] = <<v, t>>}
  <2>1. /\ job[r] = NoJob /\ job' = [job EXCEPT ![r] = [at |-> "inspect", todo |-> todo]]
        /\ containers' = containers
        /\ wanted' = [t \in Targets |-> IF Controlling # {} THEN "any"
                                        ELSE IF about(t) = {} THEN wanted[t]
                                        ELSE IF "stop" \in about(t) THEN "stop" ELSE "start"]
    BY <1>8 DEF ApplyAction, TakenOn
  <2>2. job'[r].at = "inspect" /\ job'[r].todo = todo /\ \A q \in JobRequests \ {r} : job'[q] = job[q]
    BY <1>1, <2>1
  <2>3. /\ todo \in Seq(Steps) /\ Len(todo) > 0
        /\ \A i, j \in DOMAIN todo : todo[i][2] = todo[j][2] => todo[i] = todo[j]
    BY PresetShape
  <2>4. ASSUME NEW i \in DOMAIN todo
        PROVE  /\ todo[i] = <<todo[i][1], todo[i][2]>>
               /\ todo[i][1] \in {"stop", "start", "restart"} /\ todo[i][2] \in Targets
    <3>1. todo[i] \in Steps
      BY <2>3
    <3>2. QED
      BY <3>1 DEF Steps
  <2>5. ASSUME NEW q \in JobRequests, job'[q].at \in {"inspect", "act"} PROVE Len(job'[q].todo) > 0
    BY <1>1, <2>2, <2>3, <2>5 DEF WantedOrToDo
  <2>6. ASSUME NEW t \in Targets, wanted'[t] # "any"
        PROVE  /\ \A p, q \in Controlling' : p = q
               /\ \A q \in Controlling' : \A i \in About(job'[q].todo, t) :
                    (job'[q].todo[i][1] = "stop") = (wanted'[t] = "stop")
               /\ (\A q \in Controlling' : About(job'[q].todo, t) = {}) =>
                    containers'[t] = (wanted'[t] = "start")
    <3>1. Controlling = {}
      BY <2>1, <2>6
    <3>2. Controlling' = {r}
      BY <2>2, <3>1 DEF Controlling
    <3>3. wanted'[t] = IF about(t) = {} THEN wanted[t]
                       ELSE IF "stop" \in about(t) THEN "stop" ELSE "start"
      BY <2>1, <3>1
    <3>4. ASSUME NEW i \in About(todo, t)
          PROVE  (todo[i][1] = "stop") = (wanted'[t] = "stop")
      <4>1. i \in DOMAIN todo /\ todo[i] = <<todo[i][1], t>> /\ todo[i][1] \in about(t)
        BY <2>4, <3>4 DEF About
      <4>2. \A v \in about(t) : v = todo[i][1]
        BY <2>3, <4>1
      <4>3. QED
        BY <3>3, <4>1, <4>2
    <3>5. ASSUME About(todo, t) = {} PROVE containers'[t] = (wanted'[t] = "start")
      <4>1. about(t) = {}
        BY <3>5 DEF About
      <4>2. wanted[t] # "any" /\ wanted'[t] = wanted[t]
        BY <2>6, <3>3, <4>1
      <4>3. containers[t] = (wanted[t] = "start")
        BY <1>1, <3>1, <4>2 DEF WantedOrToDo
      <4>4. QED
        BY <2>1, <4>2, <4>3
    <3>6. QED
      BY <2>2, <3>2, <3>4, <3>5
  <2>7. QED
    BY <2>5, <2>6 DEF WantedOrToDo
<1>9. ASSUME NEW r \in JobRequests, NEW k,
             job' = [job EXCEPT ![r] = k] \/ job' = Reported([job EXCEPT ![r] = k]),
             r \in Controlling
      PROVE  ControlKept({r}) /\ job'[r] = k
  <2>1. job[r].at # "exec"
    BY <1>9 DEF Controlling
  <2>2. QED
    BY <1>1, <1>9, <2>1 DEF ControlKept, Reported, NoJob
<1>10. ASSUME NEW r \in JobRequests, InspectBox(r) PROVE WantedOrToDo'
  <2>1. r \in Controlling /\ UNCHANGED boxSide
    BY <1>10 DEF InspectBox, Controlling
  <2>2. CASE AsWanted(r)
    <3>1. job' = [job EXCEPT ![r] = Advanced(r)]
      BY <1>10, <2>2 DEF InspectBox
    <3>2. ControlKept({r}) /\ job'[r] = Advanced(r)
      BY <1>9, <2>1, <3>1
    <3>3. containers[Target(r)] = (Verb(r) # "stop")
      BY <2>1, <2>2, AdvancedKind DEF AsWanted
    <3>4. QED
      BY <2>1, <3>2, <3>3, HeadDone DEF boxSide
  <2>3. CASE ~AsWanted(r)
    <3>1. job' = [job EXCEPT ![r] = [job[r] EXCEPT !.at = "act"]]
      BY <1>10, <2>3 DEF InspectBox
    <3>2. [job[r] EXCEPT !.at = "act"].at = "act" /\ [job[r] EXCEPT !.at = "act"].todo = job[r].todo
      BY <2>1, AdvancedKind DEF Controls
    <3>3. QED
      BY <1>1, <1>10, <2>1, <3>1, <3>2, WantedSame DEF ControlKept, InspectBox
  <2>4. QED
    BY <2>2, <2>3
<1>11. ASSUME NEW r \in JobRequests, InspectBoxFails(r) PROVE WantedOrToDo'
  <2>1. r \in Controlling /\ containers' = containers
    BY <1>11 DEF InspectBoxFails, Controlling
  <2>2. CASE Verb(r) = "start"
    <3>1. job' = [job EXCEPT ![r] = [job[r] EXCEPT !.at = "act"]] /\ wanted' = wanted
      BY <1>11, <2>2 DEF InspectBoxFails
    <3>2. [job[r] EXCEPT !.at = "act"].at = "act" /\ [job[r] EXCEPT !.at = "act"].todo = job[r].todo
      BY <2>1, AdvancedKind DEF Controls
    <3>3. QED
      BY <1>1, <1>11, <2>1, <3>1, <3>2, WantedSame DEF ControlKept, InspectBoxFails, boxSide
  <2>3. CASE Verb(r) # "start"
    <3>1. job' = [job EXCEPT ![r] = Advanced(r)] /\ wanted' = [wanted EXCEPT ![Target(r)] = "any"]
      BY <1>11, <2>3 DEF InspectBoxFails
    <3>2. ControlKept({r}) /\ job'[r] = Advanced(r) /\ Target(r) \in Targets
      BY <1>9, <2>1, <3>1, AdvancedKind
    <3>3. QED
      BY <1>1, <2>1, <3>1, <3>2, HeadDone
  <2>4. QED
    BY <2>2, <2>3
<1>12. ASSUME NEW r \in JobRequests, Act(r) PROVE WantedOrToDo'
  <2>1. r \in Controlling /\ wanted' = wanted /\ Does(r, Advanced(r))
    BY <1>12 DEF Act, Controlling
  <2>2. ControlKept({r}) /\ job'[r] = Advanced(r) /\ Target(r) \in Targets
    BY <1>9, <2>1, AdvancedKind DEF Does
  <2>3. containers' = [containers EXCEPT ![Target(r)] = (Verb(r) # "stop")]
    BY <2>1 DEF Does
  <2>4. QED
    BY <1>1, <2>1, <2>2, <2>3, HeadDone
<1>13. ASSUME NEW r \in JobRequests, ActFails(r) PROVE WantedOrToDo'
  <2>1. /\ r \in Controlling /\ containers' = containers
        /\ job' = [job EXCEPT ![r] = Advanced(r)] /\ wanted' = [wanted EXCEPT ![Target(r)] = "any"]
    BY <1>13 DEF ActFails, Controlling
  <2>2. ControlKept({r}) /\ job'[r] = Advanced(r) /\ Target(r) \in Targets
    BY <1>9, <2>1, AdvancedKind
  <2>3. QED
    BY <1>1, <2>1, <2>2, HeadDone
<1>14. ASSUME NEW r \in JobRequests, ActTimesOut(r) PROVE WantedOrToDo'
  <2>1. r \in Controlling
    BY <1>14 DEF ActTimesOut, Controlling
  <2>2. job' = [job EXCEPT ![r] = NoJob] \/ job' = Reported([job EXCEPT ![r] = NoJob])
    BY <1>14 DEF ActTimesOut, Does
  <2>3. ControlKept({r}) /\ job'[r].at = "idle"
    BY <1>9, <2>1, <2>2 DEF NoJob
  <2>4. /\ Target(r) \in Targets /\ 1 \in DOMAIN job[r].todo /\ job[r].todo[1][2] = Target(r)
    <3>1. job[r].todo \in Seq(Steps) /\ Len(job[r].todo) > 0 /\ Target(r) \in Targets
      BY <2>1, AdvancedKind
    <3>2. Len(job[r].todo) \in Nat
      BY <3>1, Rest
    <3>3. QED
      BY <3>1, <3>2 DEF Target
  <2>5. \A t \in Targets : About(job[r].todo, t) # {} => wanted'[t] = "any"
    BY <1>14 DEF ActTimesOut, About
  <2>6. \A t \in Targets : wanted'[t] \in {wanted[t], "any"}
    BY <1>14 DEF ActTimesOut
  <2>7. \A t \in Targets : wanted'[t] # "any" => containers'[t] = containers[t]
    <3>1. wanted'[Target(r)] = "any"
      BY <2>4, <2>5 DEF About
    <3>2. \A t \in Targets \ {Target(r)} : containers'[t] = containers[t]
      BY <1>1, <1>14 DEF ActTimesOut, Does
    <3>3. QED
      BY <3>1, <3>2
  <2>8. ASSUME NEW t \in Targets, wanted'[t] # "any"
        PROVE  Controlling' = {} /\ containers'[t] = (wanted'[t] = "start")
    <3>1. wanted'[t] = wanted[t] /\ wanted[t] # "any" /\ About(job[r].todo, t) = {}
      BY <2>5, <2>6, <2>8
    <3>2. \A q \in Controlling : q = r
      BY <1>1, <2>1, <3>1 DEF WantedOrToDo
    <3>3. containers[t] = (wanted[t] = "start")
      BY <1>1, <3>1, <3>2 DEF WantedOrToDo
    <3>4. Controlling' = {}
      BY <2>3, <3>2 DEF ControlKept, Controlling
    <3>5. QED
      BY <2>7, <2>8, <3>1, <3>3, <3>4
  <2>9. ASSUME NEW q \in JobRequests, job'[q].at \in {"inspect", "act"} PROVE Len(job'[q].todo) > 0
    BY <1>1, <2>3, <2>9 DEF ControlKept, WantedOrToDo
  <2>10. QED
    BY <2>8, <2>9 DEF WantedOrToDo
<1>15. CASE SensorEnds
  BY <1>1, <1>15, WantedSame DEF SensorEnds, ControlKept, Reported, NoJob
<1>16. CASE UNCHANGED jobsVars
  BY <1>2, <1>16 DEF jobsVars
<1>17. QED
  BY <1>3, <1>4, <1>6, <1>7, <1>8, <1>10, <1>11, <1>12, <1>13, <1>14, <1>15, <1>16 DEF JobsNext

LEMMA JobsInvNext == JobsInv /\ [JobsNext]_jobsVars => JobsInv'
BY JobsTypeNext, LearnersNext, HeldNext, WantedNext DEF JobsInv

\* The types of the jobs' variables.
THEOREM JobsTypeCorrect == JobsSpec => []JobsTypeOK
<1>1. JobsInv => JobsTypeOK
  BY DEF JobsInv
<1>2. QED
  BY <1>1, JobsInvInit, JobsInvNext, PTL DEF JobsSpec

\* JobsTellTruth: the candidate shown is that of the capture uploaded, unless learning was given
\* up; an identity entered by hand stays, unless documents crossed; and a preset that was carried
\* out holds, unless requests met or Docker failed (run_learn, _save_entry,
\* apply_lab_traffic_action).
THEOREM JobsTellTruthCorrect == JobsSpec => []JobsTellTruth
<1>1. JobsInv => JobsTellTruth
  BY DEF JobsInv, LearnersKnown, HeldAsKept, WantedOrToDo, JobsTellTruth, IdentityKept, PresetHolds
<1>2. QED
  BY <1>1, JobsInvInit, JobsInvNext, PTL DEF JobsSpec

-----------------------------------------------------------------------------
\* The interfaces of the host (HostNetwork).

Doing == {"modify", "reapply"}

\* What a request that has met no change knows of the host is still so.
Known(r) ==
  ~r.met =>
    /\ r.at = "set" /\ ~r.on => r.if \notin Uplinks \union {captured}
    /\ r.at = "reapply" => (r.todo[1].card \in profile <=> r.todo[1].never)
    /\ r.at \in Doing /\ r.op = "primary" /\ r.todo[1].never => r.if \in Uplinks
    /\ r.at \in Doing /\ r.op = "connect" /\ r.todo[1].never =>
         \E c \in (linked \intersect Cards) \ {r.if} : c \notin profile

\* A card is demoted only for another one.
Deals(r) ==
  /\ r.op \in {"connect", "primary"} => r.if \in Cards
  /\ r.at = "others" => r.op = "connect"
  /\ r.at = "list" => r.op = "primary"
  /\ r.at \in Doing =>
       /\ r.op \in {"connect", "primary"} /\ Len(r.todo) > 0
       /\ r.op = "connect" => Len(r.todo) = 1 /\ r.todo[1].card = r.if
       /\ r.op = "primary" =>
            \A k \in 1 .. Len(r.todo) : r.todo[k].never <=> r.todo[k].card # r.if

NetKnown == \A q \in NetRequests : Known(net[q]) /\ Deals(net[q])

HostInv == HostTypeOK /\ NetKnown

LEMMA HostBounds == MaxAsked \in Nat /\ MaxHostChanges \in Nat
BY HostAssumption

LEMMA NoAskType ==
  /\ NoAsk \in Asks /\ NoAsk.at = "idle" /\ NoAsk.op = "none"
  /\ Deals(NoAsk) /\ Known(NoAsk)
<1>1. (CHOOSE i \in Ifs : TRUE) \in Ifs
  BY HostAssumption DEF Ifs
<1>2. <<>> \in Seq(CardStep)
  OBVIOUS
<1>3. QED
  BY <1>1, <1>2 DEF NoAsk, Asks, Deals, Known, Doing

\* The cards of a set in a sequence.
LEMMA CardsInSeq ==
  ASSUME NEW S \in SUBSET Cards
  PROVE  SetToSeq(S) \in Seq(S)
<1>1. IsFiniteSet(S)
  BY HostAssumption, FS_Subset
<1>2. Cardinality(S) \in Nat /\ ExistsBijection(1 .. Cardinality(S), S)
  BY <1>1, FS_CardinalityType
<1>3. \E f \in [1 .. Cardinality(S) -> S] : IsInjective(f)
  BY <1>2 DEF ExistsBijection, Bijection, Injection
<1>4. SetToSeq(S) \in [1 .. Cardinality(S) -> S]
  BY <1>3 DEF SetToSeq
<1>5. QED
  BY <1>2, <1>4

\* A sequence with one more head.
LEMMA Prepended ==
  ASSUME NEW S, NEW a \in Seq(S), NEW b \in Seq(S), Len(a) = 1
  PROVE  /\ a \o b \in Seq(S) /\ Len(b) \in Nat /\ Len(a \o b) = 1 + Len(b)
         /\ \A i \in 1 .. 1 + Len(b) : (a \o b)[i] = IF i <= 1 THEN a[i] ELSE b[i - 1]
<1> DEFINE both == a \o b
<1>1. /\ both \in Seq(S) /\ Len(both) = Len(a) + Len(b)
      /\ \A i \in 1 .. Len(a) + Len(b) : both[i] = IF i <= Len(a) THEN a[i] ELSE b[i - Len(a)]
  BY ConcatProperties
<1>2. Len(b) \in Nat
  OBVIOUS
<1> HIDE DEF both
<1>3. QED
  BY <1>1, <1>2 DEF both

\* The card is promoted first, and the others are demoted.
LEMMA PromotionShape ==
  ASSUME NEW card \in Cards, NEW S \in SUBSET (Cards \ {card})
  PROVE  LET todo == Promotion(card, SetToSeq(S)) IN
         /\ todo \in Seq(CardStep) /\ Len(todo) > 0 /\ ~todo[1].never
         /\ \A k \in 1 .. Len(todo) : todo[k].never <=> todo[k].card # card
<1> DEFINE others == SetToSeq(S)
           head == <<[card |-> card, never |-> FALSE]>>
           rest == [i \in DOMAIN others |-> [card |-> others[i], never |-> TRUE]]
<1>1. others \in Seq(S)
  BY CardsInSeq
<1>2. Len(others) \in Nat /\ DOMAIN others = 1 .. Len(others)
      /\ \A i \in 1 .. Len(others) : others[i] \in S
  BY <1>1, ElementOfSeq
<1>3. Promotion(card, others) = head \o rest
  BY DEF Promotion
<1> HIDE DEF others
<1>4. \A i \in 1 .. Len(others) : rest[i] \in CardStep /\ rest[i].never /\ rest[i].card \in S
  BY <1>2 DEF CardStep
<1>5. rest \in Seq(CardStep) /\ Len(rest) = Len(others)
  BY <1>2, <1>4
<1>6. head \in Seq(CardStep) /\ Len(head) = 1 /\ head[1].card = card /\ ~head[1].never
  BY DEF CardStep
<1> HIDE DEF head, rest
<1> DEFINE both == head \o rest
<1>7. /\ both \in Seq(CardStep) /\ Len(both) = 1 + Len(others)
      /\ \A i \in 1 .. 1 + Len(others) : both[i] = IF i <= 1 THEN head[i] ELSE rest[i - 1]
  BY <1>5, <1>6, Prepended
<1> HIDE DEF both
<1>8. Len(both) > 0 /\ both[1] = head[1]
  BY <1>7, <1>2
<1>9. ASSUME NEW k \in 1 .. Len(both), k # 1
      PROVE  both[k].never /\ both[k].card # card
  <2>1. k - 1 \in 1 .. Len(others) /\ both[k] = rest[k - 1]
    BY <1>9, <1>7, <1>2
  <2>2. QED
    BY <2>1, <1>4
<1>10. \A k \in 1 .. Len(both) : both[k].never <=> both[k].card # card
  BY <1>6, <1>8, <1>9
<1>11. both = Promotion(card, SetToSeq(S))
  BY <1>3 DEF both, others
<1>12. QED
  BY <1>6, <1>7, <1>8, <1>10, <1>11

\* The head of a request's list, and what AfterHead leaves of it.
LEMMA HeadOf ==
  ASSUME HostInv, NEW q \in NetRequests, net[q].at \in Doing
  PROVE  /\ net[q] \in Asks /\ net[q].todo \in Seq(CardStep) /\ Len(net[q].todo) > 0
         /\ Head(net[q].todo) = net[q].todo[1] /\ net[q].todo[1] \in CardStep
         /\ net[q].op \in {"connect", "primary"} /\ net[q].if \in Cards
<1>1. net[q] \in Asks /\ Len(net[q].todo) > 0 /\ net[q].op \in {"connect", "primary"}
      /\ net[q].if \in Cards
  BY DEF HostInv, HostTypeOK, NetKnown, Deals
<1>2. net[q].todo \in Seq(CardStep)
  BY <1>1 DEF Asks
<1>3. net[q].todo[1] \in CardStep /\ Head(net[q].todo) = net[q].todo[1]
  BY <1>1, <1>2, Rest
<1>4. QED
  BY <1>1, <1>2, <1>3

LEMMA AfterHeadShape ==
  ASSUME HostInv, NEW q \in NetRequests, net[q].at \in Doing, NEW done \in BOOLEAN
  PROVE  LET r == AfterHead(q, done) IN
         /\ r \in Asks /\ Deals(r)
         /\ \/ r = NoAsk
            \/ r.at = "prune"
            \/ /\ r.at = "modify" /\ r.op = "primary" /\ net[q].op = "primary"
               /\ r.if = net[q].if /\ r.met = net[q].met
<1> DEFINE todo == net[q].todo
           gone == Len(todo) = 1 \/ (~done /\ ~Head(todo).never)
<1>1. /\ net[q] \in Asks /\ todo \in Seq(CardStep) /\ Len(todo) > 0
      /\ net[q].op \in {"connect", "primary"} /\ net[q].if \in Cards
  BY HeadOf
<1>2. CASE net[q].op = "connect"
  <2> DEFINE r == [net[q] EXCEPT !.at = "prune", !.todo = <<>>]
  <2>1. AfterHead(q, done) = r
    BY <1>2 DEF AfterHead
  <2>2. <<>> \in Seq(CardStep)
    OBVIOUS
  <2>3. r \in Asks /\ r.at = "prune" /\ r.op = "connect" /\ r.if = net[q].if
    BY <1>1, <1>2, <2>2 DEF Asks
  <2> HIDE DEF r
  <2>4. Deals(r)
    BY <1>1, <2>3 DEF Deals, Doing
  <2>5. QED
    BY <2>1, <2>3, <2>4
<1>3. CASE net[q].op # "connect" /\ gone
  BY <1>3, NoAskType DEF AfterHead
<1>4. CASE net[q].op # "connect" /\ ~gone
  <2> DEFINE r == [net[q] EXCEPT !.at = "modify", !.todo = Tail(@)]
  <2>1. AfterHead(q, done) = r
    BY <1>4 DEF AfterHead
  <2>2. net[q].op = "primary"
    BY <1>1, <1>4
  <2>3. Deals(net[q])
    BY DEF HostInv, NetKnown
  <2>4. /\ Tail(todo) \in Seq(CardStep) /\ Len(todo) \in Nat
        /\ Len(Tail(todo)) = Len(todo) - 1 /\ Len(Tail(todo)) > 0
        /\ \A i \in 1 .. Len(todo) - 1 : Tail(todo)[i] = todo[i + 1]
    BY <1>4, <1>1, Rest
  <2>5. /\ r \in Asks /\ r.at = "modify" /\ r.op = "primary" /\ r.if = net[q].if
        /\ r.met = net[q].met /\ r.todo = Tail(todo)
    BY <1>1, <2>2, <2>4 DEF Asks
  <2>6. ASSUME NEW k \in 1 .. Len(Tail(todo))
        PROVE  Tail(todo)[k].never <=> Tail(todo)[k].card # net[q].if
    <3>1. k + 1 \in 1 .. Len(todo) /\ Tail(todo)[k] = todo[k + 1]
      BY <2>4
    <3>2. QED
      BY <3>1, <2>2, <2>3 DEF Deals
  <2>7. Deals(r)
    <3> HIDE DEF r
    <3>1. QED
      BY <1>1, <2>4, <2>5, <2>6 DEF Deals, Doing
  <2> HIDE DEF r
  <2>8. QED
    BY <2>1, <2>2, <2>5, <2>7
<1>5. QED
  BY <1>2, <1>3, <1>4

LEMMA HostInvInit == HostInit => HostInv
<1> SUFFICES ASSUME HostInit PROVE HostInv
  OBVIOUS
<1>1. \A q \in NetRequests : net[q] = NoAsk
  BY DEF HostInit
<1>2. NetKnown
  BY <1>1, NoAskType DEF NetKnown
<1>3. net \in [NetRequests -> Asks]
  BY NoAskType DEF HostInit
<1>4. asked \in 0 .. MaxAsked /\ hostChanges \in 0 .. MaxHostChanges
  BY HostBounds DEF HostInit
<1>5. QED
  BY <1>2, <1>3, <1>4 DEF HostInv, HostTypeOK, HostInit, Ifs

\* A request that has met a change deals with what it dealt with.
LEMMA MetDeals ==
  ASSUME NEW r \in Asks, Deals(r)
  PROVE  LET m == [r EXCEPT !.met = TRUE] IN m \in Asks /\ m.met /\ Deals(m)
<1> DEFINE m == [r EXCEPT !.met = TRUE]
<1>1. /\ m \in Asks /\ m.met /\ m.at = r.at /\ m.op = r.op /\ m.if = r.if /\ m.todo = r.todo
  BY DEF Asks
<1> HIDE DEF m
<1>2. Deals(m)
  BY <1>1 DEF Deals
<1>3. QED
  BY <1>1, <1>2 DEF m

\* A request goes on and has changed the host, or the host changes by itself: the other
\* requests have met the change.
LEMMA MetKept ==
  ASSUME HostInv, NEW p \in NetRequests,
         net'[p] = IF net[p] = NoAsk THEN NoAsk ELSE [net[p] EXCEPT !.met = TRUE]
  PROVE  net'[p] \in Asks /\ Known(net[p])' /\ Deals(net[p])'
<1>1. net[p] \in Asks /\ Deals(net[p])
  BY DEF HostInv, HostTypeOK, NetKnown
<1>2. CASE net[p] = NoAsk
  <2>1. net'[p] = NoAsk
    BY <1>2
  <2>2. QED
    BY <2>1, NoAskType DEF Known, Deals, Doing
<1>3. CASE net[p] # NoAsk
  <2>1. net'[p] = [net[p] EXCEPT !.met = TRUE]
    BY <1>3
  <2>2. net'[p] \in Asks /\ net'[p].met /\ Deals(net'[p])
    BY <1>1, <2>1, MetDeals
  <2>3. Deals(net[p])'
    BY <2>2 DEF Deals
  <2>4. QED
    BY <2>2, <2>3 DEF Known
<1>4. QED
  BY <1>2, <1>3

LEMMA ChangesKept ==
  ASSUME HostInv, NEW q \in NetRequests, Changes(q, net'[q]),
         net'[q] \in Asks, Known(net[q])', Deals(net[q])'
  PROVE  net' \in [NetRequests -> Asks] /\ NetKnown'
<1>1. ASSUME NEW p \in NetRequests
      PROVE  net'[p] \in Asks /\ Known(net[p])' /\ Deals(net[p])'
  <2>1. CASE p = q
    BY <2>1
  <2>2. CASE p # q
    <3>1. net'[p] = IF net[p] = NoAsk THEN NoAsk ELSE [net[p] EXCEPT !.met = TRUE]
      BY <2>2 DEF Changes
    <3>2. QED
      BY <3>1, MetKept
  <2>3. QED
    BY <2>1, <2>2
<1>2. net' \in [NetRequests -> Asks]
  BY <1>1 DEF Changes
<1>3. QED
  BY <1>1, <1>2 DEF NetKnown

\* The host changes by itself.
LEMMA HostChangeKept ==
  ASSUME HostInv, HostChange
  PROVE  net' \in [NetRequests -> Asks] /\ NetKnown'
<1>1. ASSUME NEW p \in NetRequests
      PROVE  net'[p] \in Asks /\ Known(net[p])' /\ Deals(net[p])'
  <2>1. net'[p] = IF net[p] = NoAsk THEN NoAsk ELSE [net[p] EXCEPT !.met = TRUE]
    BY DEF HostChange
  <2>2. QED
    BY <2>1, MetKept
<1>2. net' \in [NetRequests -> Asks]
  BY <1>1 DEF HostChange
<1>3. QED
  BY <1>1, <1>2 DEF NetKnown

\* A request goes on, and the host is as it was.
LEMMA GoesOnKept ==
  ASSUME HostInv, NEW q \in NetRequests, GoesOn(q, net'[q]),
         UNCHANGED <<linked, profile, applied, captured>>,
         net'[q] \in Asks, Known(net[q])', Deals(net[q])'
  PROVE  net' \in [NetRequests -> Asks] /\ NetKnown'
<1>1. ASSUME NEW p \in NetRequests
      PROVE  net'[p] \in Asks /\ Known(net[p])' /\ Deals(net[p])'
  <2>1. CASE p = q
    BY <2>1
  <2>2. CASE p # q
    <3>1. net'[p] = net[p] /\ net[p] \in Asks /\ Known(net[p]) /\ Deals(net[p])
      BY <2>2 DEF GoesOn, HostInv, HostTypeOK, NetKnown
    <3>2. QED
      BY <3>1 DEF Known, Deals, Uplinks
  <2>3. QED
    BY <2>1, <2>2
<1>2. net' \in [NetRequests -> Asks]
  BY <1>1 DEF GoesOn, HostInv, HostTypeOK
<1>3. QED
  BY <1>1, <1>2 DEF NetKnown

\* It goes on with nothing more to do.
LEMMA IdleAfter ==
  ASSUME NEW q \in NetRequests, net'[q] = NoAsk
  PROVE  net'[q] \in Asks /\ Known(net[q])' /\ Deals(net[q])'
BY NoAskType DEF Known, Deals, Doing

\* A request that begins.
LEMMA AskKept ==
  ASSUME HostInv, NEW q \in NetRequests, NEW i \in Ifs, NEW on \in BOOLEAN,
         NEW op \in {"toggle", "connect", "primary", "disconnect", "radio"},
         NEW at \in {"probe", "call", "list"},
         at = "list" => op = "primary", op \in {"connect", "primary"} => i \in Cards,
         Ask(q, op, at, i, on)
  PROVE  HostInv'
<1> DEFINE r == [NoAsk EXCEPT !.op = op, !.at = at, !.if = i, !.on = on]
<1>1. r \in Asks /\ r.op = op /\ r.at = at /\ r.if = i
  BY NoAskType DEF Asks
<1>2. net' = [net EXCEPT ![q] = r] /\ asked' = asked + 1 /\ asked < MaxAsked
      /\ UNCHANGED <<up, linked, profile, applied, radio, captured, sensorUp, hostChanges>>
  BY DEF Ask
<1> HIDE DEF r
<1>3. net'[q] = r /\ GoesOn(q, net'[q])
  BY <1>2 DEF GoesOn, HostInv, HostTypeOK
<1>4. net'[q] \in Asks /\ Known(net[q])' /\ Deals(net[q])'
  BY <1>1, <1>3 DEF Known, Deals, Doing
<1>5. net' \in [NetRequests -> Asks] /\ NetKnown'
  BY <1>2, <1>3, <1>4, GoesOnKept
<1>6. asked' \in 0 .. MaxAsked
  BY <1>2, HostBounds DEF HostInv, HostTypeOK
<1>7. QED
  BY <1>2, <1>5, <1>6 DEF HostInv, HostTypeOK

\* The switching of an interface.
LEMMA ToggleKept ==
  ASSUME HostInv, NEW q \in NetRequests, Probe(q) \/ SetState(q)
  PROVE  HostInv'
<1>1. net[q] \in Asks /\ Deals(net[q])
  BY DEF HostInv, HostTypeOK, NetKnown
<1>2. CASE Probe(q)
  <2> DEFINE barred == net[q].if \in Uplinks \union {captured}
             r == [net[q] EXCEPT !.at = "set"]
  <2>1. /\ GoesOn(q, IF ~sensorUp \/ (~net[q].on /\ barred) THEN NoAsk ELSE r)
        /\ UnchangedHost /\ net[q].at = "probe"
    BY <1>2 DEF Probe
  <2>2. /\ r \in Asks /\ r.at = "set" /\ r.op = net[q].op /\ r.if = net[q].if
        /\ r.on = net[q].on
    BY <1>1 DEF Asks
  <2> HIDE DEF r
  <2>3. net'[q] = (IF ~sensorUp \/ (~net[q].on /\ barred) THEN NoAsk ELSE r)
        /\ GoesOn(q, net'[q])
    BY <2>1 DEF GoesOn, HostInv, HostTypeOK
  <2>4. net'[q] \in Asks /\ Known(net[q])' /\ Deals(net[q])'
    <3>1. CASE net'[q] = NoAsk
      BY <3>1, IdleAfter
    <3>2. CASE net'[q] = r /\ (net[q].on \/ ~barred)
      BY <3>2, <2>1, <2>2, <1>1 DEF Known, Deals, Doing, UnchangedHost, Uplinks
    <3>3. QED
      BY <2>3, <3>1, <3>2
  <2>5. net' \in [NetRequests -> Asks] /\ NetKnown'
    BY <2>1, <2>3, <2>4, GoesOnKept DEF UnchangedHost
  <2>6. QED
    BY <2>1, <2>5 DEF HostInv, HostTypeOK, UnchangedHost
<1>3. CASE SetState(q)
  <2>1. Changes(q, NoAsk) /\ net'[q] = NoAsk
    BY <1>3 DEF SetState, Changes
  <2>2. net' \in [NetRequests -> Asks] /\ NetKnown'
    BY <2>1, IdleAfter, ChangesKept
  <2>3. up' \subseteq Ifs /\ linked' \subseteq up'
    BY <1>3, <1>1 DEF SetState, HostInv, HostTypeOK, Asks
  <2>4. QED
    BY <1>3, <2>2, <2>3 DEF SetState, HostInv, HostTypeOK
<1>4. QED
  BY <1>2, <1>3

\* A card is connected, or is not.
LEMMA ConnectKept ==
  ASSUME HostInv, NEW q \in NetRequests, CallConnect(q) \/ ConnectFails(q) \/ Others(q)
  PROVE  HostInv'
<1>1. net[q] \in Asks /\ Deals(net[q])
  BY DEF HostInv, HostTypeOK, NetKnown
<1>2. CASE CallConnect(q)
  <2> DEFINE next == IF net[q].on THEN "others" ELSE "prune"
             r == [net[q] EXCEPT !.at = next]
  <2>1. Changes(q, r) /\ net[q].op = "connect" /\ net[q].if \in Cards /\ net[q].if \in up
    BY <1>2, <1>1 DEF CallConnect, Deals
  <2>2. r \in Asks /\ r.at \in {"others", "prune"} /\ r.op = "connect" /\ r.if = net[q].if
    BY <1>1, <2>1 DEF Asks
  <2> HIDE DEF r
  <2>3. net'[q] = r /\ Changes(q, net'[q])
    BY <2>1 DEF Changes
  <2>4. net'[q] \in Asks /\ Known(net[q])' /\ Deals(net[q])'
    BY <2>1, <2>2, <2>3 DEF Known, Deals, Doing
  <2>5. net' \in [NetRequests -> Asks] /\ NetKnown'
    BY <2>3, <2>4, ChangesKept
  <2>6. profile' \subseteq Cards /\ applied' \subseteq Cards /\ linked' \subseteq up
    BY <1>2, <2>1 DEF CallConnect, HostInv, HostTypeOK
  <2>7. QED
    BY <1>2, <2>5, <2>6 DEF CallConnect, HostInv, HostTypeOK
<1>3. CASE ConnectFails(q)
  <2>1. Changes(q, net'[q]) /\ net'[q] = NoAsk
    BY <1>3 DEF ConnectFails, Changes
  <2>2. net' \in [NetRequests -> Asks] /\ NetKnown'
    BY <2>1, IdleAfter, ChangesKept
  <2>3. linked' \subseteq up /\ radio' \in BOOLEAN
    BY <1>3 DEF ConnectFails, HostInv, HostTypeOK
  <2>4. QED
    BY <1>3, <2>2, <2>3 DEF ConnectFails, HostInv, HostTypeOK
<1>4. CASE Others(q)
  <2> DEFINE seen == (linked \intersect Cards) \ {net[q].if}
             other == \E c \in seen : c \notin profile
  <2>0. PICK told \in {other, FALSE, seen # {}} :
          GoesOn(q, [net[q] EXCEPT !.at = "modify", !.met = @ \/ (told /\ ~other),
                                   !.todo = <<[card |-> net[q].if, never |-> told]>>])
    BY <1>4 DEF Others
  <2> DEFINE step == [card |-> net[q].if, never |-> told]
             r == [net[q] EXCEPT !.at = "modify", !.met = @ \/ (told /\ ~other),
                                 !.todo = <<step>>]
  <2>1. GoesOn(q, r) /\ UnchangedHost /\ net[q].op = "connect" /\ net[q].if \in Cards
        /\ told \in BOOLEAN
    BY <1>4, <1>1, <2>0 DEF Others, Deals
  <2>2. step \in CardStep /\ step.card = net[q].if /\ step.never = told
    BY <2>1 DEF CardStep
  <2> HIDE DEF step
  <2>3. <<step>> \in Seq(CardStep) /\ Len(<<step>>) = 1 /\ <<step>>[1] = step
    BY <2>2
  <2>4. /\ r \in Asks /\ r.at = "modify" /\ r.op = "connect" /\ r.if = net[q].if
        /\ r.todo = <<step>> /\ (~r.met /\ told => other)
    BY <1>1, <2>1, <2>3 DEF Asks
  <2> HIDE DEF r
  <2>5. net'[q] = r /\ GoesOn(q, net'[q])
    BY <2>1 DEF GoesOn, HostInv, HostTypeOK
  <2>6. Deals(net[q])'
    <3>1. /\ net'[q].at = "modify" /\ net'[q].op = "connect" /\ net'[q].if = net[q].if
          /\ Len(net'[q].todo) = 1 /\ net'[q].todo[1].card = net[q].if
      BY <2>2, <2>3, <2>4, <2>5
    <3>2. QED
      BY <2>1, <3>1 DEF Deals, Doing
  <2>7. Known(net[q])'
    BY <2>1, <2>2, <2>3, <2>4, <2>5 DEF Known, Doing, UnchangedHost
  <2>8. net' \in [NetRequests -> Asks] /\ NetKnown'
    BY <2>1, <2>4, <2>5, <2>6, <2>7, GoesOnKept DEF UnchangedHost
  <2>9. QED
    BY <2>1, <2>8 DEF HostInv, HostTypeOK, UnchangedHost
<1>5. QED
  BY <1>2, <1>3, <1>4

\* The list of a new primary card.
LEMMA ListKept ==
  ASSUME HostInv, NEW q \in NetRequests, ListDevices(q)
  PROVE  HostInv'
<1> DEFINE others == (linked \intersect Cards) \ {net[q].if}
           todo == Promotion(net[q].if, SetToSeq(others))
           r == [net[q] EXCEPT !.at = "modify", !.todo = todo]
<1>1. net[q] \in Asks /\ net[q].op = "primary" /\ net[q].if \in Cards
  BY DEF ListDevices, HostInv, HostTypeOK, NetKnown, Deals
<1>2. UnchangedHost /\ GoesOn(q, IF net[q].if \notin linked THEN NoAsk ELSE r)
  BY DEF ListDevices
<1>3. /\ todo \in Seq(CardStep) /\ Len(todo) > 0 /\ ~todo[1].never
      /\ \A k \in 1 .. Len(todo) : todo[k].never <=> todo[k].card # net[q].if
  BY <1>1, PromotionShape
<1> HIDE DEF todo
<1>4. /\ r \in Asks /\ r.at = "modify" /\ r.op = "primary" /\ r.if = net[q].if
      /\ r.todo = todo
  BY <1>1, <1>3 DEF Asks
<1> HIDE DEF r
<1>5. GoesOn(q, net'[q]) /\ (net'[q] = NoAsk \/ net'[q] = r)
  BY <1>2 DEF GoesOn, HostInv, HostTypeOK
<1>6. net'[q] \in Asks /\ Known(net[q])' /\ Deals(net[q])'
  <2>1. CASE net'[q] = NoAsk
    BY <2>1, IdleAfter
  <2>2. CASE net'[q] = r
    BY <2>2, <1>1, <1>3, <1>4 DEF Known, Deals, Doing
  <2>3. QED
    BY <1>5, <2>1, <2>2
<1>7. net' \in [NetRequests -> Asks] /\ NetKnown'
  BY <1>2, <1>5, <1>6, GoesOnKept DEF UnchangedHost
<1>8. QED
  BY <1>2, <1>7 DEF HostInv, HostTypeOK, UnchangedHost

\* The setting of the card at the head of the list.
LEMMA ModifyKept ==
  ASSUME HostInv, NEW q \in NetRequests, Modify(q) \/ ModifyFails(q)
  PROVE  HostInv'
<1>1. /\ net[q] \in Asks /\ Deals(net[q]) /\ Known(net[q]) /\ net[q].at = "modify"
      /\ net[q].at \in Doing
  BY DEF HostInv, HostTypeOK, NetKnown, Modify, ModifyFails, Doing
<1>2. /\ Head(net[q].todo) = net[q].todo[1] /\ net[q].todo[1] \in CardStep
      /\ Len(net[q].todo) > 0 /\ net[q].if \in Cards
      /\ net[q].todo[1].card \in Cards /\ net[q].todo[1].never \in BOOLEAN
  BY <1>1, HeadOf DEF CardStep
<1>3. CASE Modify(q)
  <2> DEFINE c == net[q].todo[1]
             r == [net[q] EXCEPT !.at = "reapply"]
  <2>1. /\ profile' = (IF c.never THEN profile \union {c.card} ELSE profile \ {c.card})
        /\ Changes(q, r)
        /\ UNCHANGED <<up, linked, applied, radio, captured, sensorUp, asked, hostChanges>>
    BY <1>2, <1>3 DEF Modify
  <2>2. /\ r \in Asks /\ r.at = "reapply" /\ r.op = net[q].op /\ r.if = net[q].if
        /\ r.todo = net[q].todo /\ r.met = net[q].met
    BY <1>1 DEF Asks
  <2> HIDE DEF r
  <2>3. net'[q] = r /\ Changes(q, net'[q])
    BY <2>1 DEF Changes
  <2>4. Deals(net[q])'
    BY <1>1, <2>2, <2>3 DEF Deals, Doing
  <2>5. Known(net[q])'
    <3>1. c.card \in profile' <=> c.never
      BY <2>1, <1>2
    <3>2. ASSUME ~net[q].met, net[q].op = "primary", c.never
          PROVE  net[q].if \in Uplinks'
      BY <3>2, <1>1, <2>1 DEF Known, Uplinks
    <3>3. ASSUME ~net[q].met, net[q].op = "connect", c.never
          PROVE  \E d \in (linked' \intersect Cards) \ {net[q].if} : d \notin profile'
      <4>1. c.card = net[q].if
        BY <3>3, <1>1 DEF Deals
      <4>2. PICK d \in (linked \intersect Cards) \ {net[q].if} : d \notin profile
        BY <3>3, <1>1 DEF Known
      <4>3. QED
        BY <4>1, <4>2, <2>1
    <3>4. QED
      BY <2>2, <2>3, <3>1, <3>2, <3>3 DEF Known
  <2>6. net' \in [NetRequests -> Asks] /\ NetKnown'
    BY <2>2, <2>3, <2>4, <2>5, ChangesKept
  <2>7. profile' \subseteq Cards
    BY <2>1, <1>2 DEF HostInv, HostTypeOK
  <2>8. QED
    BY <2>1, <2>6, <2>7 DEF HostInv, HostTypeOK
<1>4. CASE ModifyFails(q)
  <2> DEFINE r == AfterHead(q, FALSE)
  <2>1. GoesOn(q, r) /\ UnchangedHost
    BY <1>4 DEF ModifyFails
  <2>2. /\ r \in Asks /\ Deals(r)
        /\ \/ r = NoAsk
           \/ r.at = "prune"
           \/ /\ r.at = "modify" /\ r.op = "primary" /\ net[q].op = "primary"
              /\ r.if = net[q].if /\ r.met = net[q].met
    BY <1>1, AfterHeadShape
  <2>3. ASSUME r.op = "primary", net[q].op = "primary", r.at = "modify",
               r.met = net[q].met, r.if = net[q].if, ~r.met, r.todo[1].never
        PROVE  net[q].if \in Uplinks
    <3>1. CASE net[q].todo[1].never
      BY <1>1, <2>3, <3>1 DEF Known
    <3>2. CASE ~net[q].todo[1].never
      <4>1. r = NoAsk
        BY <1>2, <2>3, <3>2 DEF AfterHead
      <4>2. QED
        BY <4>1, <2>3, NoAskType
    <3>3. QED
      BY <3>1, <3>2
  <2> HIDE DEF r
  <2>4. net'[q] = r /\ GoesOn(q, net'[q])
    BY <2>1 DEF GoesOn, HostInv, HostTypeOK
  <2>5. net'[q] \in Asks /\ Known(net[q])' /\ Deals(net[q])'
    <3>1. CASE r = NoAsk
      BY <3>1, <2>4, IdleAfter
    <3>2. CASE r.at = "prune"
      BY <3>2, <2>2, <2>4 DEF Known, Deals, Doing
    <3>3. CASE /\ r.at = "modify" /\ r.op = "primary" /\ net[q].op = "primary"
               /\ r.if = net[q].if /\ r.met = net[q].met
      BY <3>3, <2>1, <2>2, <2>3, <2>4 DEF Known, Deals, Doing, UnchangedHost, Uplinks
    <3>4. QED
      BY <2>2, <3>1, <3>2, <3>3
  <2>6. net' \in [NetRequests -> Asks] /\ NetKnown'
    BY <2>1, <2>4, <2>5, GoesOnKept DEF UnchangedHost
  <2>7. QED
    BY <2>1, <2>6 DEF HostInv, HostTypeOK, UnchangedHost
<1>5. QED
  BY <1>3, <1>4

\* Its connection is brought up again.
LEMMA ReapplyKept ==
  ASSUME HostInv, NEW q \in NetRequests, Reapply(q) \/ ReapplyFails(q)
  PROVE  HostInv'
<1>1. /\ net[q] \in Asks /\ Deals(net[q]) /\ Known(net[q]) /\ net[q].at = "reapply"
      /\ net[q].at \in Doing
  BY DEF HostInv, HostTypeOK, NetKnown, Reapply, ReapplyFails, Doing
<1>2. /\ Head(net[q].todo) = net[q].todo[1] /\ net[q].todo[1] \in CardStep
      /\ Len(net[q].todo) > 0 /\ net[q].todo \in Seq(CardStep) /\ net[q].if \in Cards
      /\ net[q].todo[1].card \in Cards /\ net[q].todo[1].never \in BOOLEAN
  BY <1>1, HeadOf DEF CardStep
<1>3. CASE Reapply(q)
  <2> DEFINE c == net[q].todo[1].card
             r == AfterHead(q, TRUE)
  <2>1. /\ CanLink(c) /\ linked' = linked \union {c}
        /\ applied' = (IF c \in profile THEN applied \union {c} ELSE applied \ {c})
        /\ Changes(q, r)
        /\ UNCHANGED <<up, profile, radio, captured, sensorUp, asked, hostChanges>>
    BY <1>2, <1>3 DEF Reapply
  <2>2. /\ r \in Asks /\ Deals(r)
        /\ \/ r = NoAsk
           \/ r.at = "prune"
           \/ /\ r.at = "modify" /\ r.op = "primary" /\ net[q].op = "primary"
              /\ r.if = net[q].if /\ r.met = net[q].met
    <3>1. TRUE \in BOOLEAN
      OBVIOUS
    <3>2. QED
      BY <1>1, <3>1, AfterHeadShape, Zenon
  <2> HIDE DEF r
  <2>3. net'[q] = r /\ Changes(q, net'[q])
    BY <2>1 DEF Changes
  <2>4. net'[q] \in Asks /\ Known(net[q])' /\ Deals(net[q])'
    <3>1. CASE r = NoAsk
      BY <3>1, <2>3, IdleAfter
    <3>2. CASE /\ r.at = "modify" /\ r.op = "primary" /\ net[q].op = "primary"
               /\ r.if = net[q].if /\ r.met = net[q].met
      <4>1. ASSUME ~net[q].met PROVE net[q].if \in Uplinks'
        <5>1. net[q].todo[1].never <=> c # net[q].if
          <6>1. 1 \in 1 .. Len(net[q].todo)
            BY <1>2
          <6>2. QED
            BY <6>1, <1>1, <3>2 DEF Deals
        <5>2. c \in profile <=> net[q].todo[1].never
          BY <1>1, <4>1 DEF Known
        <5>3. CASE c = net[q].if
          BY <5>1, <5>2, <5>3, <2>1 DEF Uplinks
        <5>4. CASE c # net[q].if
          <6>1. net[q].if \in Uplinks
            BY <1>1, <4>1, <5>1, <5>4, <3>2 DEF Known
          <6>2. QED
            BY <6>1, <5>4, <2>1 DEF Uplinks
        <5>5. QED
          BY <5>3, <5>4
      <4>2. QED
        BY <2>2, <2>3, <3>2, <4>1 DEF Known, Deals, Doing
    <3>3. CASE r.at = "prune"
      BY <3>3, <2>2, <2>3 DEF Known, Deals, Doing
    <3>4. QED
      BY <2>2, <3>1, <3>2, <3>3
  <2>5. net' \in [NetRequests -> Asks] /\ NetKnown'
    BY <2>3, <2>4, ChangesKept
  <2>6. linked' \subseteq up /\ applied' \subseteq Cards
    BY <2>1, <1>2 DEF CanLink, HostInv, HostTypeOK
  <2>7. QED
    BY <2>1, <2>5, <2>6 DEF HostInv, HostTypeOK
<1>4. CASE ReapplyFails(q)
  <2> DEFINE c == net[q].todo[1]
  <2>1. PICK done \in BOOLEAN, lost \in SUBSET (linked \intersect {c.card}) :
          LET r == AfterHead(q, done)
              next == IF r = NoAsk \/ c.never THEN r ELSE [r EXCEPT !.met = TRUE]
          IN  /\ linked' = linked \ lost
              /\ IF lost = {} THEN GoesOn(q, next) ELSE Changes(q, next)
    BY <1>2, <1>4 DEF ReapplyFails
  <2> DEFINE r == AfterHead(q, done)
             next == IF r = NoAsk \/ c.never THEN r ELSE [r EXCEPT !.met = TRUE]
  <2>2. /\ r \in Asks /\ Deals(r)
        /\ \/ r = NoAsk
           \/ r.at = "prune"
           \/ /\ r.at = "modify" /\ r.op = "primary" /\ net[q].op = "primary"
              /\ r.if = net[q].if /\ r.met = net[q].met
    BY <1>1, AfterHeadShape
  <2>3. /\ linked' = linked \ lost
        /\ IF lost = {} THEN GoesOn(q, next) ELSE Changes(q, next)
    BY <2>1
  <2> HIDE DEF r
  <2>4. UNCHANGED <<up, profile, applied, radio, captured, sensorUp, asked, hostChanges>>
    BY <1>4 DEF ReapplyFails
  <2>5. /\ net'[q] = next
        /\ (lost = {} /\ GoesOn(q, net'[q])) \/ Changes(q, net'[q])
    BY <2>3 DEF GoesOn, Changes, HostInv, HostTypeOK
  <2>6. net'[q] \in Asks /\ Known(net[q])' /\ Deals(net[q])'
    <3>1. CASE r = NoAsk
      BY <3>1, <2>5, IdleAfter
    <3>2. CASE r # NoAsk /\ ~c.never
      <4>1. net'[q] = [r EXCEPT !.met = TRUE]
        BY <3>2, <2>5
      <4>2. net'[q] \in Asks /\ net'[q].met /\ Deals(net'[q])
        BY <2>2, <4>1, MetDeals
      <4>3. QED
        BY <4>2 DEF Known, Deals
    <3>3. CASE r.at = "prune" /\ c.never
      <4>1. net'[q] = r
        BY <3>3, <2>5
      <4>2. QED
        BY <3>3, <4>1, <2>2 DEF Known, Deals, Doing
    <3>4. CASE /\ r.at = "modify" /\ r.op = "primary" /\ net[q].op = "primary"
               /\ r.if = net[q].if /\ r.met = net[q].met /\ c.never
      <4>1. net'[q] = r
        BY <3>4, <2>5
      <4>2. ASSUME ~net[q].met PROVE net[q].if \in Uplinks'
        <5>1. net[q].if \in Uplinks
          BY <1>1, <3>4, <4>2 DEF Known
        <5>2. 1 \in 1 .. Len(net[q].todo)
          BY <1>2
        <5>3. c.card # net[q].if
          BY <5>2, <1>1, <3>4 DEF Deals
        <5>4. QED
          BY <5>1, <5>3, <2>3, <2>4 DEF Uplinks
      <4>3. QED
        BY <2>2, <3>4, <4>1, <4>2 DEF Known, Deals, Doing
    <3>5. QED
      BY <2>2, <3>1, <3>2, <3>3, <3>4
  <2> HIDE DEF next
  <2>7. net' \in [NetRequests -> Asks] /\ NetKnown'
    <3>1. CASE lost = {} /\ GoesOn(q, net'[q])
      <4>1. UNCHANGED <<linked, profile, applied, captured>>
        BY <3>1, <2>3, <2>4
      <4>2. QED
        BY <3>1, <4>1, <2>6, GoesOnKept
    <3>2. CASE Changes(q, net'[q])
      BY <3>2, <2>6, ChangesKept
    <3>3. QED
      BY <3>1, <3>2, <2>5
  <2>8. linked' \subseteq up
    BY <2>3 DEF HostInv, HostTypeOK
  <2>9. QED
    BY <2>4, <2>7, <2>8 DEF HostInv, HostTypeOK
<1>5. QED
  BY <1>3, <1>4

\* Other profiles are deleted.
LEMMA PruneKept ==
  ASSUME HostInv, NEW q \in NetRequests, Prune(q)
  PROVE  HostInv'
<1>1. PICK deleted \in SUBSET (Cards \ {net[q].if}) :
        /\ linked' = linked \ deleted
        /\ profile' = profile \ deleted /\ applied' = applied \ deleted
        /\ IF deleted = {} THEN GoesOn(q, NoAsk) ELSE Changes(q, NoAsk)
  BY DEF Prune
<1>2. /\ net'[q] = NoAsk
      /\ (deleted = {} /\ GoesOn(q, net'[q])) \/ Changes(q, net'[q])
  BY <1>1 DEF GoesOn, Changes, HostInv, HostTypeOK
<1>3. UNCHANGED <<up, radio, captured, sensorUp, asked, hostChanges>>
  BY DEF Prune
<1>4. net' \in [NetRequests -> Asks] /\ NetKnown'
  <2>1. CASE deleted = {} /\ GoesOn(q, net'[q])
    <3>1. UNCHANGED <<linked, profile, applied, captured>>
      BY <2>1, <1>1, <1>3
    <3>2. QED
      BY <2>1, <3>1, <1>2, IdleAfter, GoesOnKept
  <2>2. CASE Changes(q, net'[q])
    BY <2>2, <1>2, IdleAfter, ChangesKept
  <2>3. QED
    BY <1>2, <2>1, <2>2
<1>5. linked' \subseteq up /\ profile' \subseteq Cards /\ applied' \subseteq Cards
  BY <1>1 DEF HostInv, HostTypeOK
<1>6. QED
  BY <1>3, <1>4, <1>5 DEF HostInv, HostTypeOK

\* The calls that only end.
LEMMA CallsKept ==
  ASSUME HostInv, NEW q \in NetRequests, DisconnectCard(q) \/ SetRadio(q) \/ CallFails(q)
  PROVE  HostInv'
<1>1. net[q] \in Asks
  BY DEF HostInv, HostTypeOK
<1>2. CASE DisconnectCard(q) \/ SetRadio(q)
  <2>1. Changes(q, net'[q]) /\ net'[q] = NoAsk
    BY <1>2 DEF DisconnectCard, SetRadio, Changes
  <2>2. net' \in [NetRequests -> Asks] /\ NetKnown'
    BY <2>1, IdleAfter, ChangesKept
  <2>3. linked' \subseteq linked /\ radio' \in BOOLEAN
    BY <1>1, <1>2 DEF DisconnectCard, SetRadio, HostInv, HostTypeOK, Asks
  <2>4. QED
    BY <1>2, <2>2, <2>3 DEF DisconnectCard, SetRadio, HostInv, HostTypeOK
<1>3. CASE CallFails(q)
  <2>1. GoesOn(q, net'[q]) /\ net'[q] = NoAsk /\ UnchangedHost
    BY <1>3 DEF CallFails, GoesOn, HostInv, HostTypeOK
  <2>2. net' \in [NetRequests -> Asks] /\ NetKnown'
    BY <2>1, IdleAfter, GoesOnKept DEF UnchangedHost
  <2>3. QED
    BY <2>1, <2>2 DEF HostInv, HostTypeOK, UnchangedHost
<1>4. QED
  BY <1>2, <1>3

\* What nobody asked for.
LEMMA HostMoves ==
  ASSUME HostInv,
         (\E i \in Ifs : LinkLost(i) \/ LinkBack(i) \/ CaptureChosen(i)) \/ SensorComesOrGoes
  PROVE  HostInv'
<1>1. ASSUME NEW i \in Ifs, LinkLost(i) \/ LinkBack(i) \/ CaptureChosen(i)
      PROVE  HostInv'
  <2>1. HostChange
    BY <1>1 DEF LinkLost, LinkBack, CaptureChosen
  <2>2. net' \in [NetRequests -> Asks] /\ NetKnown'
    BY <2>1, HostChangeKept
  <2>3. hostChanges' \in 0 .. MaxHostChanges
    <3>1. hostChanges \in 0 .. MaxHostChanges
      BY DEF HostInv, HostTypeOK
    <3>2. hostChanges < MaxHostChanges /\ hostChanges' = hostChanges + 1
      BY <2>1 DEF HostChange
    <3>3. QED
      BY <3>1, <3>2, HostBounds
  <2>4. linked' \subseteq up' /\ up' = up /\ applied' \subseteq Cards /\ captured' \in Ifs
    BY <1>1 DEF LinkLost, LinkBack, CaptureChosen, CanLink, HostInv, HostTypeOK
  <2>5. UNCHANGED <<profile, radio, sensorUp, asked>>
    BY <1>1 DEF LinkLost, LinkBack, CaptureChosen
  <2>6. QED
    BY <2>2, <2>3, <2>4, <2>5 DEF HostInv, HostTypeOK
<1>2. CASE SensorComesOrGoes
  <2>1. UNCHANGED <<up, linked, profile, applied, radio, captured, net, asked, hostChanges>>
        /\ sensorUp' \in BOOLEAN
    BY <1>2 DEF SensorComesOrGoes, HostInv, HostTypeOK
  <2>2. NetKnown'
    BY <2>1 DEF HostInv, NetKnown, Known, Deals, Uplinks
  <2>3. QED
    BY <2>1, <2>2 DEF HostInv, HostTypeOK
<1>3. QED
  BY <1>1, <1>2

LEMMA HostInvNext == HostInv /\ [HostNext]_hostVars => HostInv'
<1> SUFFICES ASSUME HostInv, [HostNext]_hostVars PROVE HostInv'
  OBVIOUS
<1>1. ASSUME NEW q \in NetRequests, RequestNext(q) PROVE HostInv'
  <2>1. ASSUME NEW i \in Ifs, NEW on \in BOOLEAN, Ask(q, "toggle", "probe", i, on)
        PROVE  HostInv'
    BY <2>1, AskKept
  <2>2. ASSUME NEW c \in Cards,
               \/ \E named \in BOOLEAN : Ask(q, "connect", "call", c, named)
               \/ Ask(q, "primary", "list", c, TRUE)
               \/ Ask(q, "disconnect", "call", c, FALSE)
        PROVE  HostInv'
    <3>1. c \in Ifs
      BY DEF Ifs
    <3>2. QED
      BY <2>2, <3>1, AskKept
  <2>3. ASSUME NEW on \in BOOLEAN, Ask(q, "radio", "call", NoAsk.if, on) PROVE HostInv'
    <3>1. NoAsk.if \in Ifs
      BY NoAskType DEF Asks
    <3>2. QED
      BY <2>3, <3>1, AskKept
  <2>4. QED
    BY <1>1, <2>1, <2>2, <2>3, ToggleKept, ConnectKept, ListKept, ModifyKept, ReapplyKept,
       PruneKept, CallsKept DEF RequestNext
<1>2. CASE (\E i \in Ifs : LinkLost(i) \/ LinkBack(i) \/ CaptureChosen(i)) \/ SensorComesOrGoes
  BY <1>2, HostMoves
<1>3. CASE UNCHANGED hostVars
  <2>1. UNCHANGED <<up, linked, profile, applied, radio, captured, sensorUp, net, asked,
                    hostChanges>>
    BY <1>3 DEF hostVars
  <2>2. NetKnown'
    BY <2>1 DEF HostInv, NetKnown, Known, Deals, Uplinks
  <2>3. QED
    BY <2>1, <2>2 DEF HostInv, HostTypeOK
<1>4. QED
  BY <1>1, <1>2, <1>3 DEF HostNext

\* The type of every variable of HostNetwork.
THEOREM HostTypeCorrect == HostSpec => []HostTypeOK
<1>1. HostInv => HostTypeOK
  BY DEF HostInv
<1>2. QED
  BY <1>1, HostInvInit, HostInvNext, PTL DEF HostSpec

\* A step of a request that is not excused leaves the host a default route, and its sensor
\* the captured interface.
LEMMA NoneLockedOut ==
  ASSUME HostInv, HostNext, NEW q \in NetRequests, net'[q].at # net[q].at, ~Excused(q),
         ~NotPromoted(q)
  PROVE  /\ Uplinks # {} => Uplinks' # {}
         /\ captured \in up => captured \in up'
<1>1. net[q] \in Asks /\ Known(net[q]) /\ Deals(net[q])
  BY DEF HostInv, HostTypeOK, NetKnown
<1>2. /\ ~net[q].met /\ net[q].op \notin {"disconnect", "radio"}
      /\ net[q].at \notin {"call", "prune"}
      /\ \A c \in linked \intersect Cards :
           c # net[q].if /\ (\A k \in DOMAIN net[q].todo : c # net[q].todo[k].card) =>
             (c \in profile <=> c \in applied)
  BY DEF Excused
<1>3. ASSUME UNCHANGED <<up, linked, applied, captured>>
      PROVE  (Uplinks # {} => Uplinks' # {}) /\ (captured \in up => captured \in up')
  BY <1>3 DEF Uplinks
<1>4. PICK p \in NetRequests : RequestNext(p)
  <2>1. ASSUME HostChange PROVE FALSE
    <3>1. net'[q] = net[q] \/ net'[q] = [net[q] EXCEPT !.met = TRUE]
      BY <2>1 DEF HostChange
    <3>2. QED
      BY <3>1, <1>1 DEF Asks
  <2>2. ~SensorComesOrGoes
    BY DEF SensorComesOrGoes
  <2>3. QED
    BY <2>1, <2>2 DEF HostNext, LinkLost, LinkBack, CaptureChosen
<1>5. ASSUME NEW r, Changes(p, r) \/ GoesOn(p, r) PROVE p = q
  <2>1. p # q => net'[q] = net[q] \/ net'[q] = [net[q] EXCEPT !.met = TRUE]
    BY <1>5 DEF Changes, GoesOn, HostInv, HostTypeOK
  <2>2. QED
    BY <2>1, <1>1 DEF Asks
<1>6. CASE SetState(p)
  <2>1. p = q
    BY <1>5, <1>6 DEF SetState
  <2>2. net[q].on \/ net[q].if \notin Uplinks \union {captured}
    BY <1>1, <1>2, <1>6, <2>1 DEF SetState, Known
  <2>3. /\ up' = (IF net[q].on THEN up \union {net[q].if} ELSE up \ {net[q].if})
        /\ linked' = linked \intersect up' /\ linked \subseteq up
        /\ UNCHANGED <<applied, captured>>
    BY <1>6, <2>1 DEF SetState, HostInv, HostTypeOK
  <2>4. QED
    BY <2>2, <2>3 DEF Uplinks
<1>7. CASE CallConnect(p) \/ ConnectFails(p) \/ DisconnectCard(p) \/ SetRadio(p) \/ Prune(p)
  <2>1. p = q
    BY <1>5, <1>7 DEF CallConnect, ConnectFails, DisconnectCard, SetRadio, Prune
  <2>2. QED
    BY <1>2, <1>7, <2>1 DEF CallConnect, ConnectFails, DisconnectCard, SetRadio, Prune
<1>8. CASE Reapply(p) \/ ReapplyFails(p)
  <2> DEFINE c == net[q].todo[1].card
  <2>1. p = q
    BY <1>5, <1>8 DEF Reapply, ReapplyFails
  <2>2. net[q].at = "reapply" /\ net[q].at \in Doing
    BY <1>8, <2>1 DEF Reapply, ReapplyFails, Doing
  <2>3. /\ Head(net[q].todo) = net[q].todo[1] /\ Len(net[q].todo) > 0
        /\ net[q].todo \in Seq(CardStep) /\ net[q].op \in {"connect", "primary"}
        /\ net[q].todo[1] \in CardStep
    BY <2>2, HeadOf
  <2>4. /\ linked \ {c} \subseteq linked' /\ linked' \subseteq linked \union {c}
        /\ applied' \ {c} = applied \ {c} /\ UNCHANGED <<up, captured>>
    BY <1>8, <2>1, <2>3 DEF Reapply, ReapplyFails
  <2>5. c \in profile <=> net[q].todo[1].never
    BY <1>1, <1>2, <2>2 DEF Known
  <2>6. Len(net[q].todo) \in Nat /\ 1 \in 1 .. Len(net[q].todo)
        /\ DOMAIN net[q].todo = 1 .. Len(net[q].todo)
    BY <2>3
  <2>7. CASE ~net[q].todo[1].never
    <3>1. c \in linked'
      BY <2>2, <2>3, <2>7 DEF NotPromoted
    <3>2. CASE Reapply(p)
      <4>1. c \in Uplinks'
        BY <3>1, <3>2, <2>1, <2>3, <2>5, <2>7 DEF Reapply, Uplinks
      <4>2. QED
        BY <4>1, <2>4
    <3>3. CASE ReapplyFails(p)
      <4>1. linked' = linked /\ applied' = applied
        BY <3>1, <3>3, <2>1, <2>3 DEF ReapplyFails
      <4>2. QED
        BY <4>1, <2>4, <1>3
    <3>4. QED
      BY <1>8, <3>2, <3>3
  <2>8. CASE net[q].todo[1].never /\ net[q].op = "primary"
    <3>1. net[q].if \in Uplinks
      BY <1>1, <1>2, <2>2, <2>8 DEF Known
    <3>2. c # net[q].if
      BY <1>1, <2>2, <2>6, <2>8 DEF Deals
    <3>3. net[q].if \in Uplinks'
      BY <2>4, <3>1, <3>2 DEF Uplinks
    <3>4. QED
      BY <3>3, <2>4
  <2>9. CASE net[q].todo[1].never /\ net[q].op = "connect"
    <3>1. PICK d \in (linked \intersect Cards) \ {net[q].if} : d \notin profile
      BY <1>1, <1>2, <2>2, <2>9 DEF Known
    <3>2. Len(net[q].todo) = 1 /\ c = net[q].if
      BY <1>1, <2>2, <2>9 DEF Deals
    <3>3. \A k \in DOMAIN net[q].todo : d # net[q].todo[k].card
      BY <2>6, <3>1, <3>2
    <3>4. d \notin applied
      BY <1>2, <3>1, <3>3
    <3>5. d \in Uplinks'
      BY <2>4, <3>1, <3>2, <3>4 DEF Uplinks
    <3>6. QED
      BY <3>5, <2>4
  <2>10. QED
    BY <2>3, <2>7, <2>8, <2>9
<1>9. CASE \/ \E i \in Ifs, on \in BOOLEAN : Ask(p, "toggle", "probe", i, on)
           \/ \E d \in Cards : \/ \E named \in BOOLEAN : Ask(p, "connect", "call", d, named)
                             \/ Ask(p, "primary", "list", d, TRUE)
                             \/ Ask(p, "disconnect", "call", d, FALSE)
           \/ \E on \in BOOLEAN : Ask(p, "radio", "call", NoAsk.if, on)
  <2>1. UNCHANGED <<up, linked, applied, captured>>
    BY <1>9 DEF Ask
  <2>2. QED
    BY <2>1, <1>3
<1>10. CASE Probe(p) \/ Others(p) \/ ListDevices(p) \/ ModifyFails(p)
            \/ CallFails(p)
  <2>1. UNCHANGED <<up, linked, applied, captured>>
    BY <1>10 DEF Probe, Others, ListDevices, ModifyFails, CallFails, UnchangedHost
  <2>2. QED
    BY <2>1, <1>3
<1>11. CASE Modify(p)
  <2>1. UNCHANGED <<up, linked, applied, captured>>
    BY <1>11 DEF Modify
  <2>2. QED
    BY <2>1, <1>3
<1>12. QED
  BY <1>4, <1>6, <1>7, <1>8, <1>9, <1>10, <1>11 DEF RequestNext

\* NotLockedOut: no step of a request takes the last default route from the host or the
\* captured interface from the sensor (_toggle_block_reason, set_primary,
\* _has_other_primary), for any cards and requests, but for the cases its definition excuses:
\* a change met, what a connect's own call and its prune take away, a promotion that did not
\* come up, a query that failed and was taken for another card with the route.
THEOREM NotLockedOutCorrect == HostSpec => NotLockedOut
<1> DEFINE Stays ==
      \A q \in NetRequests :
        net'[q].at # net[q].at /\ ~Excused(q) /\ ~NotPromoted(q) =>
          /\ Uplinks # {} => Uplinks' # {}
          /\ captured \in up => captured \in up'
<1>1. HostInv /\ [HostNext]_hostVars => [Stays]_hostVars
  <2>1. ASSUME HostInv, HostNext PROVE Stays
    BY <2>1, NoneLockedOut
  <2>2. QED
    BY <2>1
<1>2. QED
  BY <1>1, HostInvInit, HostInvNext, PTL DEF HostSpec, NotLockedOut
=============================================================================
