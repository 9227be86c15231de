------------------------------ MODULE ModeControl ------------------------------
(***************************************************************************)
(* The operational mode on its way from the portal to the packet sensor.   *)
(* The agent's MQTT thread takes an artifact and writes, in place and one  *)
(* after the other, the mode file, its stamp and the learning session      *)
(* (policy/operational_mode_sync.py); the sensor looks at the stamp, and   *)
(* reads the mode file when it has changed (operational_mode_store.py).    *)
(*                                                                         *)
(* An artifact is its mode, session, aborted session and version.  A stamp *)
(* holds the time to the microsecond: it is a number never used before.    *)
(* Agent and sensor may be killed at any point and are started again.      *)
(***************************************************************************)
EXTENDS Integers

CONSTANTS
  ModeArtifacts,  \* the artifacts the portal sends, in any order and repeatedly
  DefaultMode,    \* the artifact ensure_defaults writes
  NoSession,      \* no session
  ModeDeliveries, \* bound: the messages delivered
  ModeKills       \* bound: how often agent and sensor are killed, in all

Modes == {"listen", "learning", "detect", "idle"}

ASSUME ModeAssumption ==
  /\ \A a \in ModeArtifacts \union {DefaultMode} :
       a.mode \in Modes /\ a.version # 0
  /\ DefaultMode.mode = "listen"
  /\ DefaultMode.session = NoSession /\ DefaultMode.abort = NoSession
  /\ ModeDeliveries \in Nat
  /\ ModeKills \in Nat

\* What the mode file says of an artifact.
Content(a) == [mode |-> a.mode, session |-> a.session, version |-> a.version]

ModeContents == {Content(a) : a \in ModeArtifacts \union {DefaultMode}}

\* A file that is not there, and one that is empty; a reader makes {} of both.
Missing == [mode |-> "missing", session |-> NoSession, version |-> 0]
Empty   == [mode |-> "empty", session |-> NoSession, version |-> 0]
Read(text) == IF text = Empty THEN Missing ELSE text

\* What the session file says of an artifact, and that it is not there.
Active(a)     == [mode |-> a.mode, session |-> a.session]
NoSessionFile == [mode |-> "missing", session |-> NoSession]

VARIABLES
  modeFile,      \* operational-mode.json
  modeStamp,     \* operational-mode.stamp: 0 is missing or empty
  lastStamp,     \* the number of the last stamp written
  sessionFile,   \* learning-session.json: its session and mode, or NoSessionFile
  modeJob,       \* the agent is at: "boot", "idle", or the write it has to do next
  applied,       \* the artifact it is applying
  delivered,     \* how many messages have been delivered
  knownStamp,    \* _last_stamp of the sensor
  knownMode,     \* _artifact of the sensor
  readStamp,     \* the stamp maybe_reload has just read, or -1
  modeKills,     \* how often agent and sensor have been killed
  unstamped      \* history: the mode file was written to and no stamp since, by a kill

agentMode  == <<modeFile, modeStamp, lastStamp, sessionFile, modeJob, applied, delivered>>
sensorMode == <<knownStamp, knownMode, readStamp>>
modeVars   == <<agentMode, sensorMode, modeKills, unstamped>>

Steps == {"boot", "idle", "mode", "clear", "stamp", "session"}

ModeTypeOK ==
  /\ modeFile \in ModeContents \union {Missing, Empty}
  /\ lastStamp \in Nat /\ modeStamp \in 0 .. lastStamp
  /\ sessionFile \in {Active(a) : a \in ModeArtifacts} \union {NoSessionFile}
  /\ modeJob \in Steps
  /\ applied \in ModeArtifacts \union {DefaultMode}
  /\ delivered \in 0 .. ModeDeliveries
  /\ knownStamp \in 0 .. lastStamp
  /\ knownMode \in ModeContents \union {Missing}
  /\ readStamp \in -1 .. lastStamp
  /\ modeKills \in 0 .. ModeKills
  /\ unstamped \in BOOLEAN

ModeInit ==
  /\ modeFile = Missing /\ modeStamp = 0 /\ lastStamp = 0
  /\ sessionFile = NoSessionFile
  /\ modeJob = "boot" /\ applied = DefaultMode /\ delivered = 0
  /\ knownStamp = 0 /\ knownMode = Missing /\ readStamp = -1
  /\ modeKills = 0 /\ unstamped = FALSE

-----------------------------------------------------------------------------
\* The agent.

\* write_text truncates the mode file first.
BeginWrite(a) ==
  /\ modeFile' = Empty
  /\ applied' = a
  /\ modeJob' = "mode"

\* ensure_defaults, before the subscriber is started: a file that is there is
\* left alone, even an empty one.
EnsureDefaults ==
  /\ modeJob = "boot"
  /\ IF modeFile = Missing THEN BeginWrite(DefaultMode)
     ELSE modeJob' = "idle" /\ UNCHANGED <<modeFile, applied>>
  /\ UNCHANGED <<modeStamp, lastStamp, sessionFile, delivered, sensorMode, modeKills, unstamped>>

\* The file says what the artifact says, and there is no session to abort.
Unchanged(a) == modeFile = Content(a) /\ a.abort = NoSession

Receive(a) ==
  /\ modeJob = "idle"
  /\ delivered < ModeDeliveries
  /\ delivered' = delivered + 1
  /\ IF Unchanged(a) THEN UNCHANGED <<modeFile, applied, modeJob>> ELSE BeginWrite(a)
  /\ UNCHANGED <<modeStamp, lastStamp, sessionFile, sensorMode, modeKills, unstamped>>

WriteMode ==
  /\ modeJob = "mode"
  /\ modeFile' = Content(applied)
  /\ modeJob' = "clear"
  /\ UNCHANGED <<modeStamp, lastStamp, sessionFile, applied, delivered, sensorMode, modeKills, unstamped>>

\* write_stamp truncates the stamp, ...
ClearStamp ==
  /\ modeJob = "clear"
  /\ modeStamp' = 0
  /\ modeJob' = "stamp"
  /\ UNCHANGED <<modeFile, lastStamp, sessionFile, applied, delivered, sensorMode, modeKills, unstamped>>

\* Mutant: a stamp without the time, the version alone.
WriteStamp_SameText ==
  /\ modeJob = "stamp"
  /\ modeStamp' = 1
  /\ lastStamp' = lastStamp + 1
  /\ unstamped' = FALSE
  /\ modeJob' = "session"
  /\ UNCHANGED <<modeFile, sessionFile, applied, delivered, sensorMode, modeKills>>

\* ... and writes it.
WriteStamp ==
  /\ modeJob = "stamp"
  /\ lastStamp' = lastStamp + 1
  /\ modeStamp' = lastStamp'
  /\ unstamped' = FALSE
  /\ modeJob' = "session"
  /\ UNCHANGED <<modeFile, sessionFile, applied, delivered, sensorMode, modeKills>>

\* Mutant: the session goes on in detect mode.
SessionAfter_KeptInDetect(a) ==
  CASE a.abort # NoSession -> IF sessionFile.session = a.abort THEN NoSessionFile ELSE sessionFile
    [] a.abort = NoSession /\ a.mode \in {"listen", "learning"} ->
         IF a.session # NoSession THEN Active(a) ELSE sessionFile
    [] a.abort = NoSession /\ a.mode = "detect" -> sessionFile
    [] OTHER -> NoSessionFile

\* _write_session, _clear_session, or neither.
SessionAfter(a) ==
  CASE a.abort # NoSession -> IF sessionFile.session = a.abort THEN NoSessionFile ELSE sessionFile
    [] a.abort = NoSession /\ a.mode \in {"listen", "learning"} ->
         IF a.session # NoSession THEN Active(a) ELSE sessionFile
    [] OTHER -> NoSessionFile

WriteSession ==
  /\ modeJob = "session"
  /\ sessionFile' = SessionAfter(applied)
  /\ modeJob' = "idle"
  /\ UNCHANGED <<modeFile, modeStamp, lastStamp, applied, delivered, sensorMode, modeKills, unstamped>>

\* The agent is killed and started again.
KillModeAgent ==
  /\ modeKills < ModeKills
  /\ modeKills' = modeKills + 1
  /\ unstamped' = (unstamped \/ modeJob \in {"mode", "clear", "stamp"})
  /\ modeJob' = "boot"
  /\ UNCHANGED <<modeFile, modeStamp, lastStamp, sessionFile, applied, delivered, sensorMode>>

-----------------------------------------------------------------------------
\* The sensor: maybe_reload.

\* The stamp is read; if it is the one known, there is nothing to reload.
ReadStamp ==
  /\ readStamp = -1
  /\ modeStamp # knownStamp \/ knownMode = Missing
  /\ readStamp' = modeStamp
  /\ UNCHANGED <<agentMode, knownStamp, knownMode, modeKills, unstamped>>

ReadMode ==
  /\ readStamp # -1
  /\ knownStamp' = readStamp
  /\ knownMode' = Read(modeFile)
  /\ readStamp' = -1
  /\ UNCHANGED <<agentMode, modeKills, unstamped>>

\* The sensor is killed and started again.
KillModeSensor ==
  /\ modeKills < ModeKills
  /\ modeKills' = modeKills + 1
  /\ knownStamp' = 0 /\ knownMode' = Missing /\ readStamp' = -1
  /\ UNCHANGED <<agentMode, unstamped>>

-----------------------------------------------------------------------------
ApplyMode == EnsureDefaults \/ WriteMode \/ ClearStamp \/ WriteStamp \/ WriteSession

Reload == ReadStamp \/ ReadMode

ModeNext ==
  \/ ApplyMode \/ (\E a \in ModeArtifacts : Receive(a)) \/ KillModeAgent
  \/ Reload \/ KillModeSensor

ModeSpec == ModeInit /\ [][ModeNext]_modeVars

(***************************************************************************)
(* Fairness: the agent goes on with what it has begun, and the sensor      *)
(* looks at the stamp again every few seconds.                             *)
(***************************************************************************)
ModeFairSpec == ModeSpec /\ WF_modeVars(ApplyMode) /\ WF_modeVars(Reload)

-----------------------------------------------------------------------------
\* In the end the sensor works in the mode the agent's file says and the agent
\* reports, whatever order artifacts come in and whatever a reload reads half
\* written: only a kill between the writes of mode and stamp may leave it behind
\* (OperationalModeStore.maybe_reload).
SensorFollows == <>[](knownMode = Read(modeFile) \/ unstamped)

\* Until the first kill, when no artifact is being applied: after one that aborts a
\* session, whatever its mode and session, that session is over, and no other; after
\* any other, the session file is of the session and the mode in the mode file, if that
\* has one, and is gone when the sensor detects or idles (apply_artifact).
SessionAgrees ==
  modeJob = "idle" /\ modeKills = 0 /\ sessionFile # NoSessionFile =>
    \/ applied.abort # NoSession /\ sessionFile.session # applied.abort
    \/ /\ applied.abort = NoSession
       /\ modeFile.mode \notin {"detect", "idle"}
       /\ modeFile.session # NoSession => sessionFile = Active(modeFile)
=============================================================================
