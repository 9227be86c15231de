-------------------------- MODULE ModeControl_proofs --------------------------
(***************************************************************************)
(* Proofs about ModeControl for any artifacts, messages and kills, and     *)
(* about IocMatch, whose alerts that mode lets pass, for any hosts, lists  *)
(* and times.                                                              *)
(***************************************************************************)
EXTENDS ModeControl, IocMatch, TLAPS

USE DEF agentMode, sensorMode, modeVars

\* The texts and session files of artifacts, and those that are none.
LEMMA Texts ==
  /\ \A a \in ModeArtifacts \union {DefaultMode} : Content(a) \in ModeContents
  /\ \A c \in ModeContents : c # Empty /\ c # Missing
  /\ \A a \in ModeArtifacts : a.mode \in Modes /\ Active(a) # NoSessionFile
<1>1. \A a \in ModeArtifacts \union {DefaultMode} : Content(a) \in ModeContents
  BY DEF ModeContents
<1>2. ASSUME NEW a \in ModeArtifacts \union {DefaultMode}
      PROVE  Content(a) # Empty /\ Content(a) # Missing
  <2>1. a.version # 0
    BY ModeAssumption
  <2>2. Content(a).version # Empty.version /\ Content(a).version # Missing.version
    BY <2>1 DEF Content, Empty, Missing
  <2>3. QED
    BY <2>2
<1>3. \A c \in ModeContents : c # Empty /\ c # Missing
  BY <1>2 DEF ModeContents
<1>4. ASSUME NEW a \in ModeArtifacts
      PROVE  a.mode \in Modes /\ Active(a) # NoSessionFile
  <2>1. a.mode \in Modes
    BY ModeAssumption
  <2>2. Active(a).mode # NoSessionFile.mode
    BY <2>1 DEF Active, NoSessionFile, Modes
  <2>3. QED
    BY <2>1, <2>2
<1>5. QED
  BY <1>1, <1>3, <1>4

-----------------------------------------------------------------------------
\* What the session file becomes is a session file.
LEMMA SessionType ==
  ASSUME NEW a \in ModeArtifacts \union {DefaultMode},
         sessionFile \in {Active(b) : b \in ModeArtifacts} \union {NoSessionFile}
  PROVE  SessionAfter(a) \in {Active(b) : b \in ModeArtifacts} \union {NoSessionFile}
<1>1. CASE a = DefaultMode
  BY <1>1, ModeAssumption DEF SessionAfter
<1>2. CASE a \in ModeArtifacts
  BY <1>2 DEF SessionAfter
<1>3. QED
  BY <1>1, <1>2

LEMMA TypeInit == ModeInit => ModeTypeOK
<1> SUFFICES ASSUME ModeInit PROVE ModeTypeOK
  OBVIOUS
<1> USE DEF ModeInit
<1>1. /\ lastStamp \in Nat /\ modeStamp \in 0 .. lastStamp /\ knownStamp \in 0 .. lastStamp
      /\ readStamp \in -1 .. lastStamp
  OBVIOUS
<1>2. delivered \in 0 .. ModeDeliveries /\ modeKills \in 0 .. ModeKills
  BY ModeAssumption
<1>3. QED
  BY <1>1, <1>2 DEF ModeTypeOK, Steps

LEMMA TypeNext == ModeTypeOK /\ [ModeNext]_modeVars => ModeTypeOK'
<1> SUFFICES ASSUME ModeTypeOK, [ModeNext]_modeVars PROVE ModeTypeOK'
  OBVIOUS
<1> USE DEF ModeTypeOK, Steps
<1>1. CASE UNCHANGED modeVars
  BY <1>1
<1>2. CASE EnsureDefaults
  BY <1>2 DEF EnsureDefaults, BeginWrite
<1>3. CASE \E a \in ModeArtifacts : Receive(a)
  <2> PICK a \in ModeArtifacts : Receive(a)
    BY <1>3
  <2> QED
    BY ModeAssumption DEF Receive, BeginWrite
<1>4. CASE WriteMode
  BY <1>4, Texts DEF WriteMode
<1>5. CASE ClearStamp
  BY <1>5 DEF ClearStamp
<1>6. CASE WriteStamp
  <2>1. /\ lastStamp' \in Nat /\ modeStamp' \in 0 .. lastStamp'
        /\ knownStamp' \in 0 .. lastStamp' /\ readStamp' \in -1 .. lastStamp'
    BY <1>6 DEF WriteStamp
  <2>2. /\ modeJob' = "session" /\ unstamped' \in BOOLEAN
        /\ UNCHANGED <<modeFile, sessionFile, applied, delivered, knownMode, modeKills>>
    BY <1>6 DEF WriteStamp
  <2>3. QED
    BY <2>1, <2>2
<1>7. CASE WriteSession
  <2>1. SessionAfter(applied) \in {Active(b) : b \in ModeArtifacts} \union {NoSessionFile}
    BY SessionType
  <2>2. QED
    BY <1>7, <2>1 DEF WriteSession
<1>8. CASE KillModeAgent
  BY <1>8, ModeAssumption DEF KillModeAgent
<1>9. CASE ReadStamp
  BY <1>9 DEF ReadStamp
<1>10. CASE ReadMode
  <2>1. Read(modeFile) \in ModeContents \union {Missing}
    BY DEF Read
  <2>2. QED
    BY <1>10, <2>1 DEF ReadMode
<1>11. CASE KillModeSensor
  BY <1>11, ModeAssumption DEF KillModeSensor
<1>12. QED
  BY <1>1, <1>2, <1>3, <1>4, <1>5, <1>6, <1>7, <1>8, <1>9, <1>10, <1>11
  DEF ModeNext, ApplyMode, Reload

\* The files, the agent's job and the sensor's memory are well typed in every
\* reachable state, for any artifacts and any number of messages and kills.
THEOREM ModeTypeCorrect == ModeSpec => []ModeTypeOK
BY TypeInit, TypeNext, PTL DEF ModeSpec

-----------------------------------------------------------------------------
\* SessionAgrees holds between two artifacts; while one is applied, the mode file
\* says what it says from the write on.
SessionInv ==
  modeKills = 0 =>
    /\ modeJob = "boot" => modeFile = Missing
    /\ modeJob \in {"clear", "stamp", "session"} => modeFile = Content(applied)
    /\ SessionAgrees

\* The session file agrees with the artifact that has just been applied.
LEMMA SessionAfterAgrees ==
  ASSUME NEW a \in ModeArtifacts \union {DefaultMode}, SessionAfter(a) # NoSessionFile
  PROVE  \/ a.abort # NoSession /\ SessionAfter(a).session # a.abort
         \/ /\ a.abort = NoSession
            /\ a.mode \notin {"detect", "idle"}
            /\ a.session # NoSession => SessionAfter(a) = Active(a)
<1>1. a.mode \in Modes
  BY ModeAssumption
<1>2. CASE a.abort # NoSession
  <2>1. SessionAfter(a) = IF sessionFile.session = a.abort THEN NoSessionFile ELSE sessionFile
    BY <1>2 DEF SessionAfter
  <2>2. QED
    BY <1>2, <2>1
<1>3. CASE a.abort = NoSession /\ a.mode \in {"listen", "learning"}
  BY <1>3 DEF SessionAfter
<1>4. CASE a.abort = NoSession /\ a.mode \notin {"listen", "learning"}
  BY <1>4 DEF SessionAfter
<1>5. QED
  BY <1>2, <1>3, <1>4

LEMMA SessionInit == ModeInit => SessionInv
BY DEF ModeInit, SessionInv, SessionAgrees

LEMMA SessionNext == ModeTypeOK /\ SessionInv /\ [ModeNext]_modeVars => SessionInv'
<1> SUFFICES ASSUME ModeTypeOK, SessionInv, [ModeNext]_modeVars, modeKills' = 0
             PROVE  /\ modeJob' = "boot" => modeFile' = Missing
                    /\ modeJob' \in {"clear", "stamp", "session"} => modeFile' = Content(applied')
                    /\ SessionAgrees'
  BY DEF SessionInv
<1> USE DEF SessionInv, SessionAgrees
<1>1. CASE UNCHANGED modeVars
  BY <1>1
<1>2. CASE EnsureDefaults
  BY <1>2 DEF EnsureDefaults, BeginWrite
<1>3. CASE \E a \in ModeArtifacts : Receive(a)
  BY <1>3 DEF Receive, BeginWrite
<1>4. CASE WriteMode
  BY <1>4 DEF WriteMode
<1>5. CASE ClearStamp
  BY <1>5 DEF ClearStamp
<1>6. CASE WriteStamp
  BY <1>6 DEF WriteStamp
<1>7. CASE WriteSession
  <2>1. applied \in ModeArtifacts \union {DefaultMode} /\ modeFile = Content(applied)
    BY <1>7 DEF WriteSession, ModeTypeOK
  <2>2. /\ modeFile.mode = applied.mode /\ modeFile.session = applied.session
        /\ Active(modeFile) = Active(applied)
    BY <2>1 DEF Content, Active
  <2>3. /\ sessionFile' = SessionAfter(applied) /\ modeFile' = modeFile /\ applied' = applied
        /\ modeJob' = "idle"
    BY <1>7 DEF WriteSession
  <2>4. SessionAgrees'
    BY <2>1, <2>2, <2>3, SessionAfterAgrees
  <2>5. QED
    BY <2>3, <2>4
<1>8. CASE KillModeAgent
  <2>1. modeKills' # 0
    BY <1>8 DEF KillModeAgent, ModeTypeOK
  <2>2. QED
    BY <2>1
<1>9. CASE ReadStamp \/ ReadMode
  BY <1>9 DEF ReadStamp, ReadMode
<1>10. CASE KillModeSensor
  <2>1. modeKills' # 0
    BY <1>10 DEF KillModeSensor, ModeTypeOK
  <2>2. QED
    BY <2>1
<1>11. QED
  BY <1>1, <1>2, <1>3, <1>4, <1>5, <1>6, <1>7, <1>8, <1>9, <1>10
  DEF ModeNext, ApplyMode, Reload

\* SessionAgrees: until the first kill, and with no artifact being applied, the
\* session file is of the session and the mode the mode file says, or the last artifact
\* was an abort, and the session it names is over.
THEOREM SessionCorrect == ModeSpec => []SessionAgrees
<1>1. SessionInv => SessionAgrees
  BY DEF SessionInv, SessionAgrees
<1>2. QED
  BY <1>1, SessionInit, SessionNext, ModeTypeCorrect, PTL DEF ModeSpec

-----------------------------------------------------------------------------
\* The look-ups in the blacklist (IocMatch).

\* The last load would hold the host of the list as it is if and only if it has held it.
Faithful(host) == loaded[host] > loadedAt <=> iocFile[host] > loadedAt

\* The sensor holds what had not expired at the last load.  That is of the list as it is if
\* the stamps agree, and as it was when the sensor last looked if it could read it.
HeldIsListed ==
  /\ loadedAt <= lookedAt /\ lookedAt <= clock /\ heldStamp <= iocStamp
  /\ \A host \in Hosts : host \in held <=> loaded[host] > loadedAt
  /\ heldStamp = iocStamp => loaded = iocFile
  /\ heldStamp # Never /\ ~blind =>
       \A host \in Hosts : since[host] < lookedAt => Faithful(host)

\* The time of the last alert of each key is that of an alert raised, and none is later.
AlertsKept ==
  /\ \A c \in contacts : c.at <= clock
  /\ \A host \in Hosts, dir \in Directions :
       LET last == lastAlert[<<host, dir>>] IN
       /\ last <= clock
       /\ last # Never =>
            \E c \in contacts : c.host = host /\ c.dir = dir /\ c.fate # "quiet" /\ c.at = last
  /\ \A c \in contacts : c.fate # "quiet" => c.at <= lastAlert[<<c.host, c.dir>>]

IocInv == IocTypeOK /\ HeldIsListed /\ AlertsKept /\ ContactsReported

LEMMA IocNats ==
  /\ ReloadCheck \in Nat /\ Cooldown \in Nat /\ MaxTime \in Nat /\ MaxWrites \in Nat
  /\ MaxContacts \in Nat
BY IocAssumption

LEMMA KeysOf == \A host \in Hosts, dir \in Directions : <<host, dir>> \in Keys
BY DEF Keys

LEMMA Expiries == \A list \in Lists, host \in Hosts : list[host] \in Nat
BY IocAssumption

LEMMA IocInvInit == IocInit => IocInv
<1> SUFFICES ASSUME IocInit PROVE IocInv
  OBVIOUS
<1> USE IocNats DEF IocInit, Never
<1>1. IocTypeOK
  <2>1. since \in [Hosts -> -ReloadCheck .. MaxTime]
    <3>1. -ReloadCheck \in -ReloadCheck .. MaxTime
      OBVIOUS
    <3>2. QED
      BY <3>1
  <2>2. lastAlert \in [Keys -> Never .. MaxTime] /\ heldStamp \in Never .. MaxWrites
    OBVIOUS
  <2>3. clock \in 0 .. MaxTime /\ lookedAt \in 0 .. MaxTime /\ iocStamp \in 0 .. MaxWrites
        /\ lookups \in 0 .. MaxContacts
    OBVIOUS
  <2>4. iocFile \in Lists /\ held \subseteq Hosts /\ exempt \subseteq Hosts /\ blind \in BOOLEAN
        /\ contacts = {}
    OBVIOUS
  <2>5. loaded \in [Hosts -> Nat] /\ loadedAt \in 0 .. MaxTime
    OBVIOUS
  <2>6. QED
    BY <2>1, <2>2, <2>3, <2>4, <2>5 DEF IocTypeOK
<1>2. HeldIsListed
  BY DEF HeldIsListed
<1>3. AlertsKept
  BY KeysOf DEF AlertsKept
<1>4. ContactsReported
  BY DEF ContactsReported
<1>5. QED
  BY <1>1, <1>2, <1>3, <1>4 DEF IocInv

\* The clock goes on: an entry that expires is held all the same.
LEMMA TickKept ==
  ASSUME IocInv, Tick
  PROVE  IocInv'
<1> USE IocNats DEF Never
<1>1. clock \in Nat /\ clock' = clock + 1 /\ clock' \in 0 .. MaxTime
      /\ UNCHANGED <<iocFile, iocStamp, sensorLooks, exempt, lastAlert, lookups, since, contacts>>
  BY DEF Tick, IocInv, IocTypeOK
<1>2. IocTypeOK'
  BY <1>1 DEF IocInv, IocTypeOK, sensorLooks
<1>3. lookedAt <= clock => lookedAt <= clock'
  BY <1>1 DEF IocInv, IocTypeOK
<1>4. HeldIsListed'
  BY <1>1, <1>3 DEF IocInv, HeldIsListed, Faithful, sensorLooks
<1>5. AlertsKept'
  <2>1. \A c \in contacts : c.at <= clock'
    BY <1>1 DEF IocInv, IocTypeOK, AlertsKept
  <2>2. ASSUME NEW host \in Hosts, NEW dir \in Directions
        PROVE  lastAlert[<<host, dir>>] <= clock'
    <3>1. lastAlert[<<host, dir>>] \in Never .. MaxTime
      BY KeysOf DEF IocInv, IocTypeOK
    <3>2. QED
      BY <3>1, <1>1 DEF IocInv, AlertsKept, Never
  <2>3. QED
    BY <1>1, <2>1, <2>2 DEF IocInv, AlertsKept
<1>6. ContactsReported'
  BY <1>1 DEF IocInv, ContactsReported, Explains
<1>7. QED
  BY <1>2, <1>4, <1>5, <1>6 DEF IocInv

\* The agent writes a list: what it says anew, it says from now on.
LEMMA WriteListKept ==
  ASSUME IocInv, NEW list \in Lists, WriteList(list)
  PROVE  IocInv'
<1> USE IocNats DEF Never
<1>1. /\ clock \in 0 .. MaxTime /\ iocStamp \in 0 .. MaxWrites /\ lookedAt \in 0 .. MaxTime
      /\ heldStamp \in Never .. MaxWrites /\ lookedAt <= clock /\ heldStamp <= iocStamp
      /\ iocFile \in Lists /\ loadedAt \in 0 .. MaxTime /\ loadedAt <= lookedAt
  BY DEF IocInv, IocTypeOK, HeldIsListed
<1>2. iocStamp < MaxWrites /\ iocStamp' = iocStamp + 1 /\ iocFile' = list
      /\ UNCHANGED <<clock, sensorLooks, exempt, lastAlert, lookups, contacts>>
  BY DEF WriteList
<1>3. iocStamp' \in 0 .. MaxWrites /\ heldStamp < iocStamp'
  BY <1>1, <1>2 DEF Never
<1>4. since' \in [Hosts -> -ReloadCheck .. MaxTime]
  <2>1. clock \in -ReloadCheck .. MaxTime
    BY <1>1
  <2>2. since \in [Hosts -> -ReloadCheck .. MaxTime]
    BY DEF IocInv, IocTypeOK
  <2>3. since' = [host \in Hosts |->
                   IF list[host] = iocFile[host] \/ (Names(list, host) /\ Names(iocFile, host))
                   THEN since[host] ELSE clock]
    BY DEF WriteList
  <2>4. QED
    BY <2>1, <2>2, <2>3
<1>5. IocTypeOK'
  BY <1>2, <1>3, <1>4 DEF IocInv, IocTypeOK, sensorLooks
<1>6. ASSUME heldStamp # Never, ~blind, NEW host \in Hosts, since'[host] < lookedAt
      PROVE  Faithful(host)'
  <2>1. /\ list[host] = iocFile[host] \/ (Names(list, host) /\ Names(iocFile, host))
        /\ since'[host] = since[host]
    <3>1. since'[host] # clock
      BY <1>1, <1>6
    <3>2. QED
      BY <3>1 DEF WriteList
  <2>2. Faithful(host)
    BY <1>6, <2>1 DEF IocInv, HeldIsListed
  <2>3. list[host] \in Nat /\ iocFile[host] \in Nat /\ loadedAt \in Nat /\ loadedAt <= clock
    BY <1>1, Expiries
  <2>4. iocFile[host] > loadedAt <=> list[host] > loadedAt
    BY <2>1, <2>3, <1>1 DEF Names
  <2>5. QED
    BY <2>2, <2>4, <1>2 DEF Faithful, sensorLooks
<1>7. HeldIsListed'
  <2>1. \A host \in Hosts : host \in held <=> loaded[host] > loadedAt
    BY DEF IocInv, HeldIsListed
  <2>2. QED
    BY <1>1, <1>2, <1>3, <1>6, <2>1 DEF HeldIsListed, sensorLooks, Never
<1>8. AlertsKept' /\ ContactsReported'
  BY <1>2 DEF IocInv, AlertsKept, ContactsReported, Explains
<1>9. QED
  BY <1>5, <1>7, <1>8 DEF IocInv

\* The sensor looks for a new list, and what it holds then is what the list says.
LEMMA LookKept ==
  ASSUME IocInv, Look, UNCHANGED <<clock, iocFile, iocStamp, since>>
  PROVE  /\ HeldIsListed'
         /\ held' \subseteq Hosts /\ heldStamp' \in Never .. MaxWrites
         /\ lookedAt' \in 0 .. MaxTime /\ blind' \in BOOLEAN
         /\ loaded' \in [Hosts -> Nat] /\ loadedAt' \in 0 .. MaxTime
         /\ \A host \in Hosts :
              ~blind' /\ clock - since[host] >= ReloadCheck => Faithful(host)'
<1> USE IocNats DEF Never
<1>1. /\ clock \in 0 .. MaxTime /\ iocStamp \in 0 .. MaxWrites /\ lookedAt \in 0 .. MaxTime
      /\ heldStamp \in Never .. MaxWrites /\ lookedAt <= clock /\ heldStamp <= iocStamp
      /\ held \subseteq Hosts /\ blind \in BOOLEAN
      /\ since \in [Hosts -> -ReloadCheck .. MaxTime]
      /\ loaded \in [Hosts -> Nat] /\ loadedAt \in 0 .. MaxTime /\ loadedAt <= lookedAt
      /\ iocFile \in Lists /\ HeldIsListed
  BY DEF IocInv, IocTypeOK, HeldIsListed
<1>2. CASE ~LookDue /\ UNCHANGED sensorLooks
  <2>1. heldStamp # Never /\ clock - lookedAt < ReloadCheck
    BY <1>1, <1>2 DEF LookDue
  <2>2. ASSUME NEW host \in Hosts PROVE Faithful(host)' <=> Faithful(host)
    BY <1>2 DEF Faithful, sensorLooks
  <2>3. HeldIsListed'
    BY <1>1, <1>2, <2>2 DEF HeldIsListed, sensorLooks
  <2>4. ASSUME NEW host \in Hosts, ~blind', clock - since[host] >= ReloadCheck
        PROVE  Faithful(host)'
    <3>1. since[host] < lookedAt
      BY <1>1, <2>1, <2>4
    <3>2. ~blind
      BY <1>2, <2>4 DEF sensorLooks
    <3>3. QED
      BY <1>1, <2>1, <2>2, <3>1, <3>2 DEF HeldIsListed
  <2>5. QED
    BY <1>1, <1>2, <2>3, <2>4 DEF sensorLooks
<1>3. CASE LookDue /\ lookedAt' = clock /\ heldStamp = iocStamp /\ blind' = FALSE
           /\ UNCHANGED <<held, heldStamp, loaded, loadedAt>>
  <2>1. loaded = iocFile
    BY <1>1, <1>3 DEF HeldIsListed
  <2>2. \A host \in Hosts : Faithful(host)'
    BY <1>3, <2>1 DEF Faithful
  <2>3. HeldIsListed'
    BY <1>1, <1>3, <2>1, <2>2 DEF HeldIsListed
  <2>4. QED
    BY <1>1, <1>3, <2>2, <2>3
<1>4. CASE LookDue /\ lookedAt' = clock /\ Load
  <2>1. /\ held' = {host \in Hosts : Names(iocFile, host)} /\ heldStamp' = iocStamp
        /\ blind' = FALSE /\ loaded' = iocFile /\ loadedAt' = clock
    BY <1>4 DEF Load
  <2>2. \A host \in Hosts : Faithful(host)'
    BY <2>1 DEF Faithful
  <2>3. loaded' \in [Hosts -> Nat]
    BY <1>1, <2>1, IocAssumption
  <2>4. HeldIsListed'
    BY <1>1, <1>4, <2>1, <2>2 DEF HeldIsListed, Names
  <2>5. heldStamp' \in Never .. MaxWrites
    BY <1>1, <2>1 DEF Never
  <2>6. QED
    BY <1>1, <1>4, <2>1, <2>2, <2>3, <2>4, <2>5
<1>5. CASE LookDue /\ lookedAt' = clock /\ LoadFails
  <2>1. /\ heldStamp # iocStamp /\ blind' = TRUE
        /\ UNCHANGED <<held, heldStamp, loaded, loadedAt>>
    BY <1>5 DEF LoadFails
  <2>2. HeldIsListed'
    BY <1>1, <1>5, <2>1 DEF HeldIsListed
  <2>3. QED
    BY <1>1, <1>5, <2>1, <2>2
<1>6. QED
  BY <1>2, <1>3, <1>4, <1>5 DEF Look

\* A host is looked up.
LEMMA LookUpKept ==
  ASSUME IocInv, NEW host \in Hosts, NEW dir \in Directions, NEW detecting \in BOOLEAN,
         LookUp(host, dir, detecting)
  PROVE  IocInv'
<1> USE IocNats DEF Never
<1> DEFINE key == <<host, dir>>
           alert == host \in held' /\ ~Cooling(key)
           fate == IF ~alert THEN "quiet" ELSE IF detecting THEN "reported" ELSE "dropped"
           says == FileSays(host)
           new == [host |-> host, dir |-> dir, at |-> clock, file |-> says, fate |-> fate]
<1>1. /\ lookups < MaxContacts /\ lookups' = lookups + 1 /\ Look
      /\ lastAlert' = (IF alert THEN [lastAlert EXCEPT ![key] = clock] ELSE lastAlert)
      /\ contacts' = contacts \union {new}
      /\ UNCHANGED <<clock, iocFile, iocStamp, exempt, since>>
  BY DEF LookUp, Key
<1>2. /\ clock \in 0 .. MaxTime /\ lookups \in 0 .. MaxContacts
      /\ lastAlert \in [Keys -> Never .. MaxTime]
      /\ contacts \subseteq [host : Hosts, dir : Directions, at : 0 .. MaxTime, fate : Fates,
                             file : {"names", "omits", "changes"}]
      /\ iocFile \in Lists /\ since \in [Hosts -> -ReloadCheck .. MaxTime]
      /\ key \in Keys /\ iocFile[host] \in Nat
  BY Expiries, KeysOf DEF IocInv, IocTypeOK
<1>3. /\ HeldIsListed'
      /\ held' \subseteq Hosts /\ heldStamp' \in Never .. MaxWrites
      /\ lookedAt' \in 0 .. MaxTime /\ blind' \in BOOLEAN
      /\ loaded' \in [Hosts -> Nat] /\ loadedAt' \in 0 .. MaxTime
      /\ ~blind' /\ clock - since[host] >= ReloadCheck => Faithful(host)'
  BY <1>1, LookKept
<1>4. /\ says \in {"names", "omits", "changes"}
      /\ says = "names" => iocFile[host] > loadedAt'
      /\ says = "omits" => ~(iocFile[host] > loadedAt')
      /\ says # "changes" => /\ clock - since[host] >= ReloadCheck
                             /\ ~blind' \/ loaded'[host] = iocFile[host]
  <2>1. since[host] \in Int /\ clock \in Int
    BY <1>2
  <2>2. ~(clock - since[host] < ReloadCheck) <=> clock - since[host] >= ReloadCheck
    BY <2>1
  <2>3. QED
    BY <2>2 DEF FileSays
<1>5. (says = "names" => host \in held') /\ (says = "omits" => host \notin held')
  <2>1. host \in held' <=> loaded'[host] > loadedAt'
    BY <1>3 DEF HeldIsListed
  <2>2. says # "changes" => (loaded'[host] > loadedAt' <=> iocFile[host] > loadedAt')
    BY <1>1, <1>3, <1>4 DEF Faithful
  <2>3. QED
    BY <1>4, <2>1, <2>2
<1>6. fate \in Fates /\ (fate = "quiet" <=> ~alert)
  BY DEF Fates
<1> HIDE DEF says, fate
<1>7. /\ new \in [host : Hosts, dir : Directions, at : 0 .. MaxTime, fate : Fates,
                  file : {"names", "omits", "changes"}]
      /\ new.host = host /\ new.dir = dir /\ new.at = clock /\ new.fate = fate
      /\ new.file = says
  BY <1>2, <1>4, <1>6
<1> HIDE DEF new
<1>8. lastAlert' \in [Keys -> Never .. MaxTime]
  <2>1. clock \in Never .. MaxTime
    BY <1>2 DEF Never
  <2>2. QED
    BY <1>1, <1>2, <2>1
<1>9. lookups' \in 0 .. MaxContacts
  BY <1>1, <1>2
<1>10. IocTypeOK'
  BY <1>1, <1>3, <1>7, <1>8, <1>9 DEF IocInv, IocTypeOK
<1>11. /\ \A c \in contacts : c.at <= clock /\ c.at \in Nat
       /\ \A h \in Hosts, d \in Directions :
            /\ lastAlert[<<h, d>>] <= clock /\ lastAlert[<<h, d>>] \in Never .. MaxTime
            /\ lastAlert[<<h, d>>] # Never =>
                 \E c \in contacts : /\ c.host = h /\ c.dir = d /\ c.fate # "quiet"
                                     /\ c.at = lastAlert[<<h, d>>]
       /\ \A c \in contacts :
            c.fate # "quiet" => c.at <= lastAlert[<<c.host, c.dir>>]
  BY <1>2, KeysOf DEF IocInv, AlertsKept
<1> HIDE DEF alert
<1>12. /\ alert => lastAlert'[key] = clock
       /\ ~alert => lastAlert' = lastAlert
       /\ \A h \in Hosts, d \in Directions :
            <<h, d>> # key => lastAlert'[<<h, d>>] = lastAlert[<<h, d>>]
  BY <1>1, <1>2, KeysOf
<1>13. AlertsKept'
  <2>1. \A c \in contacts' : c.at <= clock'
    BY <1>1, <1>2, <1>7, <1>11
  <2>2. ASSUME NEW h \in Hosts, NEW d \in Directions
        PROVE  LET last == lastAlert'[<<h, d>>] IN
               /\ last <= clock
               /\ last # Never =>
                    \E c \in contacts' : c.host = h /\ c.dir = d /\ c.fate # "quiet" /\ c.at = last
    <3>1. CASE <<h, d>> = key /\ alert
      <4>1. h = host /\ d = dir /\ lastAlert'[<<h, d>>] = clock
        BY <3>1, <1>12
      <4>2. new.fate # "quiet"
        BY <3>1, <1>6, <1>7
      <4>3. QED
        BY <1>1, <1>2, <1>7, <4>1, <4>2
    <3>2. CASE ~(<<h, d>> = key /\ alert)
      <4>1. lastAlert'[<<h, d>>] = lastAlert[<<h, d>>]
        BY <3>2, <1>12
      <4>2. QED
        BY <1>1, <1>11, <4>1
    <3>3. QED
      BY <3>1, <3>2
  <2>3. ASSUME NEW c \in contacts', c.fate # "quiet"
        PROVE  c.at <= lastAlert'[<<c.host, c.dir>>]
    <3>1. CASE c = new
      BY <3>1, <2>3, <1>2, <1>6, <1>7, <1>12
    <3>2. CASE c \in contacts
      <4>1. c.host \in Hosts /\ c.dir \in Directions
        BY <3>2, <1>2
      <4>2. CASE <<c.host, c.dir>> = key /\ alert
        BY <3>2, <4>2, <1>11, <1>12
      <4>3. CASE ~(<<c.host, c.dir>> = key /\ alert)
        <5>1. lastAlert'[<<c.host, c.dir>>] = lastAlert[<<c.host, c.dir>>]
          BY <4>1, <4>3, <1>12
        <5>2. QED
          BY <2>3, <3>2, <5>1, <1>11
      <4>4. QED
        BY <4>2, <4>3
    <3>3. QED
      BY <3>1, <3>2, <1>1
  <2>4. QED
    BY <1>1, <2>1, <2>2, <2>3 DEF AlertsKept
<1>14. ~alert <=> host \notin held' \/ Cooling(key)
  BY DEF alert
<1>15. ASSUME alert, NEW e \in contacts, e.host = host, e.dir = dir, e.fate # "quiet"
       PROVE  clock - e.at >= Cooldown
  <2>1. e.at <= lastAlert[key] /\ e.at \in Nat /\ lastAlert[key] \in Never .. MaxTime
    BY <1>11, <1>15
  <2>2. clock - lastAlert[key] >= Cooldown
    <3>1. lastAlert[key] # Never
      BY <2>1 DEF Never
    <3>2. ~(clock - lastAlert[key] < Cooldown)
      BY <1>14, <1>15, <3>1 DEF Cooling
    <3>3. QED
      BY <2>1, <3>2, <1>2 DEF Never
  <2>3. QED
    BY <1>2, <2>1, <2>2 DEF Never
<1>16. ContactsReported'
  <2>1. ASSUME NEW c \in contacts', c.fate = "quiet", c.file = "names"
        PROVE  \E e \in contacts' : Explains(e, c)
    <3>1. CASE c \in contacts
      BY <2>1, <3>1, <1>1 DEF IocInv, ContactsReported
    <3>2. CASE c = new
      <4>1. Cooling(key)
        BY <2>1, <3>2, <1>5, <1>6, <1>7, <1>14
      <4>2. lastAlert[key] # Never /\ clock - lastAlert[key] < Cooldown
        BY <4>1 DEF Cooling
      <4>3. PICK e \in contacts : /\ e.host = host /\ e.dir = dir /\ e.fate # "quiet"
                                  /\ e.at = lastAlert[key]
        BY <4>2, <1>11
      <4>4. Explains(e, new)
        BY <4>2, <4>3, <1>7, <1>11 DEF Explains
      <4>5. QED
        BY <3>2, <4>3, <4>4, <1>1
    <3>3. QED
      BY <3>1, <3>2, <1>1
  <2>2. ASSUME NEW c \in contacts', c.fate # "quiet" PROVE c.file # "omits"
    <3>1. CASE c \in contacts
      BY <2>2, <3>1 DEF IocInv, ContactsReported
    <3>2. CASE c = new
      BY <2>2, <3>2, <1>5, <1>6, <1>7, <1>14
    <3>3. QED
      BY <3>1, <3>2, <1>1
  <2>3. ASSUME NEW c \in contacts', c.fate # "quiet", NEW e \in contacts', Explains(e, c)
        PROVE  e = c
    <3>1. /\ e.host = c.host /\ e.dir = c.dir /\ e.fate # "quiet" /\ e.at <= c.at
          /\ c.at - e.at < Cooldown
      BY <2>3 DEF Explains
    <3>2. CASE c \in contacts /\ e \in contacts
      BY <2>3, <3>2 DEF IocInv, ContactsReported
    <3>3. CASE c = new /\ e \in contacts
      <4>1. clock - e.at >= Cooldown
        BY <2>3, <3>1, <3>3, <1>6, <1>7, <1>15
      <4>2. QED
        BY <3>1, <3>3, <4>1, <1>2, <1>7, <1>11
    <3>4. CASE c \in contacts /\ e = new
      <4>1. clock - c.at >= Cooldown
        BY <2>3, <3>1, <3>4, <1>6, <1>7, <1>15
      <4>2. c.at = clock
        BY <3>1, <3>4, <1>2, <1>7, <1>11
      <4>3. QED
        BY <3>1, <3>4, <4>1, <4>2, <1>2, <1>7
    <3>5. QED
      BY <3>2, <3>3, <3>4, <1>1
  <2>4. QED
    <3>1. \A c \in contacts' :
            /\ c.fate = "quiet" /\ c.file = "names" => \E e \in contacts' : Explains(e, c)
            /\ c.fate # "quiet" => c.file # "omits" /\ \A e \in contacts' : Explains(e, c) => e = c
      BY <2>1, <2>2, <2>3
    <3>2. QED
      BY <3>1 DEF ContactsReported, Explains
<1>17. QED
  BY <1>3, <1>10, <1>13, <1>16 DEF IocInv

LEMMA IocInvNext == IocInv /\ [IocNext]_iocVars => IocInv'
<1> SUFFICES ASSUME IocInv, [IocNext]_iocVars PROVE IocInv'
  OBVIOUS
<1>1. CASE Reconfigure
  <2>1. /\ exempt' \subseteq Hosts
        /\ UNCHANGED <<clock, iocFile, iocStamp, sensorLooks, lastAlert, lookups, since, contacts>>
    BY <1>1 DEF Reconfigure
  <2>2. QED
    BY <2>1 DEF IocInv, IocTypeOK, HeldIsListed, Faithful, AlertsKept, ContactsReported,
       Explains, sensorLooks
<1>2. CASE UNCHANGED iocVars
  BY <1>2 DEF IocInv, IocTypeOK, HeldIsListed, Faithful, AlertsKept, ContactsReported,
     Explains, sensorLooks, iocVars
<1>3. QED
  BY <1>1, <1>2, TickKept, WriteListKept, LookUpKept DEF IocNext

\* The type of every variable of IocMatch.
THEOREM IocTypeCorrect == IocSpec => []IocTypeOK
<1>1. IocInv => IocTypeOK
  BY DEF IocInv
<1>2. QED
  BY <1>1, IocInvInit, IocInvNext, PTL DEF IocSpec

\* A look-up (IocMatcher.evaluate, maybe_reload) of a host the agent's list names is an
\* alert unless one of that direction was raised within the cooldown; a host that the list has
\* ceased to name for the reload interval, or whose entry had expired when it was last loaded,
\* is none; and no two alerts come within a cooldown.
THEOREM ContactsReportedCorrect == IocSpec => []ContactsReported
<1>1. IocInv => ContactsReported
  BY DEF IocInv
<1>2. QED
  BY <1>1, IocInvInit, IocInvNext, PTL DEF IocSpec
=============================================================================
