----------------------------- MODULE IdsRuleSync -----------------------------
(***************************************************************************)
(* The edge agent's IDS rule synchronisation (policy/ids_rule_sync.py and  *)
(* policy/ids_rule_mqtt_subscriber.py): per engine, pull the rule bundle   *)
(* the control plane has activated, put it in place of the rule file,      *)
(* reload the IDS, check its health, and keep or roll back the bundle.     *)
(*                                                                         *)
(* pull_http_feed runs in the agent's main loop and, for a manifest that   *)
(* arrives over MQTT, in the MQTT client's thread.  The two share the rule *)
(* file, its backup, its .tmp file and the status file, and no lock.       *)
(* Every file operation and every command is a step of its own, and the    *)
(* agent process may die between any two of them.                          *)
(*                                                                         *)
(* A bundle is its version number: the version orders bundles              *)
(* (_version_sort_key) and names one content, hence one etag.  0 is "no    *)
(* version", "no etag" or "no file"; Torn is a file left half copied.      *)
(***************************************************************************)
EXTENDS Integers

CONSTANTS
  Engines,       \* the IDS engines (SUPPORTED_ENGINES)
  MaxVersion,    \* bundles are 1..MaxVersion
  Good,          \* the bundles the IDS can run: the health check accepts them
  MqttEnabled,   \* is the MQTT subscriber running (config.policy_sync.mqtt_enabled)
  CrashEnabled,  \* may the agent process be killed
  MaxPublish     \* bound: how often the control plane changes a bundle

Versions == 1 .. MaxVersion

ASSUME ConstantsAssumption ==
  /\ Engines # {}
  /\ MaxVersion \in Nat
  /\ Good \subseteq Versions
  /\ MqttEnabled \in BOOLEAN
  /\ CrashEnabled \in BOOLEAN
  /\ MaxPublish \in Nat

Absent  == 0
Torn    == -1
Content == Versions \union {Absent, Torn}

Threads == IF MqttEnabled THEN {"main", "mqtt"} ELSE {"main"}

VARIABLES
  active,         \* active[e]: the bundle the control plane serves for e
  published,      \* how often the control plane has changed a bundle
  mail,           \* engines with a manifest waiting for the MQTT thread
  healthcheckCmd, \* is ids_rule_healthcheck_cmd configured
  target,         \* target[e]: content of <engine>.rules
  backup,         \* backup[e]: content of <engine>.rules.bak
  tmp,            \* tmp[e]: content of <engine>.rules.tmp
  status,         \* status[e]: the engine's entry of the status file
  statusTmp,      \* the status file's .tmp
  loaded,         \* loaded[e]: the rules the IDS process runs
  acked,          \* acked[e]: the last bundle acknowledged as applied
  initial,        \* engines the start-up pass (force=True) has still to pull
  killed,         \* has the agent process ever been killed (history)
  pc,             \* pc[t]: where thread t is in pull_http_feed
  job             \* job[t]: the locals of that call

control == <<active, published, healthcheckCmd>>
rules   == <<target, backup, tmp>>
records == <<status, statusTmp>>
process == <<mail, initial>>
vars    == <<control, process, rules, records, loaded, acked, killed, pc, job>>

Entry       == [version : Versions \union {0}, ok : BOOLEAN]
NoEntry     == [version |-> 0, ok |-> FALSE]
StatusFile  == [Engines -> Entry]
NoStatusTmp == [e \in Engines |-> [version |-> Torn, ok |-> FALSE]]

Labels == {"idle", "requested", "received", "backup", "writeTmp", "replace",
           "reload", "health", "restore", "reloadOld", "readStatus",
           "writeStatus", "replaceStatus", "ack", "dead"}

Job == [engine  : Engines,
        etag    : Versions \union {0},   \* If-None-Match
        version : Versions \union {0},   \* the bundle received
        current : Entry,                 \* the entry read by apply_artifact
        had     : BOOLEAN,               \* had_previous
        applied : BOOLEAN,               \* the outcome to acknowledge
        entry   : Entry,                 \* the entry to write
        seen    : StatusFile]            \* the status file _write_status read

NoJob == [engine  |-> CHOOSE e \in Engines : TRUE,
          etag    |-> 0,
          version |-> 0,
          current |-> NoEntry,
          had     |-> FALSE,
          applied |-> FALSE,
          entry   |-> NoEntry,
          seen    |-> [e \in Engines |-> NoEntry]]

TypeOK ==
  /\ active \in [Engines -> Versions \union {0}]
  /\ published \in 0 .. MaxPublish
  /\ mail \in SUBSET Engines
  /\ healthcheckCmd \in BOOLEAN
  /\ target \in [Engines -> Content]
  /\ backup \in [Engines -> Content]
  /\ tmp \in [Engines -> Versions \union {Absent}]
  /\ status \in StatusFile
  /\ statusTmp \in StatusFile \union {NoStatusTmp}
  /\ loaded \in [Engines -> Content]
  /\ acked \in [Engines -> Versions \union {0}]
  /\ initial \in SUBSET Engines
  /\ killed \in BOOLEAN
  /\ pc \in [Threads -> Labels]
  /\ job \in [Threads -> Job]

Init ==
  /\ active = [e \in Engines |-> 0]
  /\ published = 0
  /\ mail = {}
  /\ healthcheckCmd \in BOOLEAN
  /\ target = [e \in Engines |-> Absent]
  /\ backup = [e \in Engines |-> Absent]
  /\ tmp = [e \in Engines |-> Absent]
  /\ status = [e \in Engines |-> NoEntry]
  /\ statusTmp = NoStatusTmp
  /\ loaded = [e \in Engines |-> Absent]
  /\ acked = [e \in Engines |-> 0]
  /\ initial = Engines
  /\ killed = FALSE
  /\ pc = [t \in Threads |-> "idle"]
  /\ job = [t \in Threads |-> NoJob]

-----------------------------------------------------------------------------
\* Control flow of one thread.

At(t, label) == pc[t] = label

\* Thread t moves to `label` with its locals set to `locals`.
Go(t, label, locals) ==
  /\ pc' = [pc EXCEPT ![t] = label]
  /\ job' = [job EXCEPT ![t] = locals]

\* Nothing but the outcome is used once it is known: the entry to write and,
\* for an applied bundle, the version to acknowledge.
Applied(j) == [NoJob EXCEPT !.engine  = j.engine,
                            !.version = j.version,
                            !.entry   = [version |-> j.version, ok |-> TRUE],
                            !.applied = TRUE]
NotApplied(j, entry) == [NoJob EXCEPT !.engine = j.engine, !.entry = entry]

\* The call returns.
Return(t) == Go(t, "idle", NoJob)

\* The agent starts again: no call in progress, the start-up pass ahead.
\* Manifests not yet handled are gone with the MQTT session.
Restart ==
  /\ pc' = [t \in Threads |-> "idle"]
  /\ job' = [t \in Threads |-> NoJob]
  /\ initial' = Engines
  /\ mail' = {}

\* Mutant: an exception in the main loop only ends its thread.
Raise_NoRestart(t) ==
  /\ Go(t, "dead", NoJob)
  /\ UNCHANGED process

\* An exception in thread t: the main loop has no handler, so the process
\* exits and is started again; in the MQTT client's thread the thread ends.
Raise(t) ==
  \/ /\ t = "main"
     /\ Restart
  \/ /\ t = "mqtt"
     /\ Go(t, "dead", NoJob)
     /\ UNCHANGED process

-----------------------------------------------------------------------------
\* The control plane activates another bundle (newer, older or none) and
\* publishes a manifest, which reaches the subscriber or is lost.
Publish(e) ==
  /\ published < MaxPublish
  /\ published' = published + 1
  /\ \E v \in (Versions \union {0}) \ {active[e]} :
        active' = [active EXCEPT ![e] = v]
  /\ mail' \in {mail, mail \union (IF MqttEnabled THEN {e} ELSE {})}
  /\ UNCHANGED <<healthcheckCmd, rules, records, loaded, acked, initial, killed, pc, job>>

\* pull_http_feed: read the etag of the active bundle and send the request.
\* The main loop pulls every engine at start-up without If-None-Match, then
\* periodically; the MQTT thread pulls the engine of a manifest.
PullRequest(t, e) ==
  /\ At(t, "idle")
  /\ \/ /\ t = "main"
        /\ initial = {} \/ e \in initial
        /\ initial' = initial \ {e}
        /\ mail' = mail
     \/ /\ t = "mqtt"
        /\ e \in mail
        /\ mail' = mail \ {e}
        /\ initial' = initial
  /\ LET force == t = "main" /\ initial # {}
     IN  Go(t, "requested",
            [NoJob EXCEPT !.engine = e,
                          !.etag = IF force THEN 0 ELSE status[e].version])
  /\ UNCHANGED <<control, rules, records, loaded, acked, killed>>

\* The request fails, or the bundle's signature does not verify (NACK).
PullFails(t) ==
  /\ At(t, "requested")
  /\ Return(t)
  /\ UNCHANGED <<control, process, rules, records, loaded, acked, killed>>

\* 304 Not Modified, or 404 when no bundle is active.
PullNothingNew(t) ==
  /\ At(t, "requested")
  /\ active[job[t].engine] \in {0, job[t].etag}
  /\ Return(t)
  /\ UNCHANGED <<control, process, rules, records, loaded, acked, killed>>

\* 200 with a bundle whose signature verifies.
PullReceives(t) ==
  /\ At(t, "requested")
  /\ active[job[t].engine] \notin {0, job[t].etag}
  /\ LET e == job[t].engine
     IN  Go(t, "received", [NoJob EXCEPT !.engine = e, !.version = active[e]])
  /\ UNCHANGED <<control, process, rules, records, loaded, acked, killed>>

-----------------------------------------------------------------------------
\* apply_artifact: compare the bundle with the engine's status entry.

\* The same bundle is recorded as applied: nothing to do, nothing to report.
ApplyUnchanged(t) ==
  /\ At(t, "received")
  /\ status[job[t].engine] = [version |-> job[t].version, ok |-> TRUE]
  /\ Return(t)
  /\ UNCHANGED <<control, process, rules, records, loaded, acked, killed>>

\* A new bundle, but no health check command is configured (NACK).
ApplyBlocked(t) ==
  /\ At(t, "received")
  /\ status[job[t].engine] # [version |-> job[t].version, ok |-> TRUE]
  /\ ~healthcheckCmd
  /\ Return(t)
  /\ UNCHANGED <<control, process, rules, records, loaded, acked, killed>>

\* The bundle is older than the recorded one: keep the entry, note the refusal.
ApplyStale(t) ==
  LET current == status[job[t].engine] IN
  /\ At(t, "received")
  /\ healthcheckCmd
  /\ job[t].version < current.version
  /\ Go(t, "readStatus", NotApplied(job[t], current))
  /\ UNCHANGED <<control, process, rules, records, loaded, acked, killed>>

\* Mutant: no version check.
ApplyBegin_AnyVersion(t) ==
  LET current == status[job[t].engine] IN
  /\ At(t, "received")
  /\ healthcheckCmd
  /\ current # [version |-> job[t].version, ok |-> TRUE]
  /\ Go(t, "backup", [job[t] EXCEPT !.current = current])
  /\ UNCHANGED <<control, process, rules, records, loaded, acked, killed>>

ApplyBegin(t) ==
  LET current == status[job[t].engine] IN
  /\ At(t, "received")
  /\ healthcheckCmd
  /\ current # [version |-> job[t].version, ok |-> TRUE]
  /\ job[t].version >= current.version
  /\ Go(t, "backup", [job[t] EXCEPT !.current = current])
  /\ UNCHANGED <<control, process, rules, records, loaded, acked, killed>>

-----------------------------------------------------------------------------
\* apply_artifact: back up the rule file, put the bundle in its place, try it.

Backup(t) ==
  LET e   == job[t].engine
      had == target[e] # Absent
  IN
  /\ At(t, "backup")
  /\ backup' = IF had THEN [backup EXCEPT ![e] = target[e]] ELSE backup
  /\ Go(t, "writeTmp", [job[t] EXCEPT !.had = had])
  /\ UNCHANGED <<control, process, target, tmp, records, loaded, acked, killed>>

WriteTmp(t) ==
  /\ At(t, "writeTmp")
  /\ tmp' = [tmp EXCEPT ![job[t].engine] = job[t].version]
  /\ Go(t, "replace", job[t])
  /\ UNCHANGED <<control, process, target, backup, records, loaded, acked, killed>>

Replace(t) ==
  LET e == job[t].engine IN
  /\ At(t, "replace")
  /\ tmp[e] # Absent
  /\ target' = [target EXCEPT ![e] = tmp[e]]
  /\ tmp' = [tmp EXCEPT ![e] = Absent]
  /\ Go(t, "reload", job[t])
  /\ UNCHANGED <<control, process, backup, records, loaded, acked, killed>>

\* The other thread has renamed the shared .tmp away: FileNotFoundError.
ReplaceRaises(t) ==
  /\ At(t, "replace")
  /\ tmp[job[t].engine] = Absent
  /\ Raise(t)
  /\ UNCHANGED <<control, rules, records, loaded, acked, killed>>

\* The reload command makes the IDS read the rule file.
ReloadSucceeds(t) ==
  LET e == job[t].engine IN
  /\ At(t, "reload")
  /\ loaded' = [loaded EXCEPT ![e] = target[e]]
  /\ Go(t, "health", job[t])
  /\ UNCHANGED <<control, process, rules, records, acked, killed>>

\* Mutant: the outcome of the reload command is not looked at.
ReloadFails_Ignored(t) ==
  /\ At(t, "reload")
  /\ Go(t, "health", job[t])
  /\ UNCHANGED <<control, process, rules, records, loaded, acked, killed>>

ReloadFails(t) ==
  /\ At(t, "reload")
  /\ Go(t, "restore", job[t])
  /\ UNCHANGED <<control, process, rules, records, loaded, acked, killed>>

\* Mutant: the ACK is sent before the status is written.
HealthSucceeds_AckFirst(t) ==
  /\ At(t, "health")
  /\ target[job[t].engine] \in Good
  /\ acked' = [acked EXCEPT ![job[t].engine] = job[t].version]
  /\ Go(t, "readStatus", Applied(job[t]))
  /\ UNCHANGED <<control, process, rules, records, loaded, killed>>

\* The health check command tests the rule file as it is now; it accepts no
\* bundle the IDS cannot run, and may fail or time out on any.
HealthSucceeds(t) ==
  /\ At(t, "health")
  /\ target[job[t].engine] \in Good
  /\ Go(t, "readStatus", Applied(job[t]))
  /\ UNCHANGED <<control, process, rules, records, loaded, acked, killed>>

\* Mutant: a failed health check reports the failure but does not roll back.
HealthFails_NoRollback(t) ==
  /\ At(t, "health")
  /\ Go(t, "readStatus", NotApplied(job[t], [version |-> job[t].current.version,
                                             ok |-> FALSE]))
  /\ UNCHANGED <<control, process, rules, records, loaded, acked, killed>>

HealthFails(t) ==
  /\ At(t, "health")
  /\ Go(t, "restore", job[t])
  /\ UNCHANGED <<control, process, rules, records, loaded, acked, killed>>

\* Roll back: the backup, or no rule file when there was none.  The entry
\* keeps the version that was active, marked as failed.
Failed(j) == NotApplied(j, [version |-> j.current.version, ok |-> FALSE])

RestoreBackup(t) ==
  LET e == job[t].engine IN
  /\ At(t, "restore")
  /\ job[t].had /\ backup[e] # Absent
  /\ target' = [target EXCEPT ![e] = backup[e]]
  /\ Go(t, "reloadOld", Failed(job[t]))
  /\ UNCHANGED <<control, process, backup, tmp, records, loaded, acked, killed>>

RemoveRules(t) ==
  LET e == job[t].engine IN
  /\ At(t, "restore")
  /\ ~(job[t].had /\ backup[e] # Absent)
  /\ target' = [target EXCEPT ![e] = Absent]
  /\ Go(t, "readStatus", Failed(job[t]))
  /\ UNCHANGED <<control, process, backup, tmp, records, loaded, acked, killed>>

\* The outcome of reloading the restored rules is not looked at.
ReloadOld(t) ==
  LET e == job[t].engine IN
  /\ At(t, "reloadOld")
  /\ loaded' \in {loaded, [loaded EXCEPT ![e] = target[e]]}
  /\ Go(t, "readStatus", job[t])
  /\ UNCHANGED <<control, process, rules, records, acked, killed>>

-----------------------------------------------------------------------------
\* _write_status: read the whole status file, set one entry, replace the file.

ReadStatus(t) ==
  /\ At(t, "readStatus")
  /\ Go(t, "writeStatus", [job[t] EXCEPT !.seen = status])
  /\ UNCHANGED <<control, process, rules, records, loaded, acked, killed>>

WriteStatus(t) ==
  /\ At(t, "writeStatus")
  /\ statusTmp' = [job[t].seen EXCEPT ![job[t].engine] = job[t].entry]
  /\ Go(t, "replaceStatus", [job[t] EXCEPT !.entry = NoEntry, !.seen = NoJob.seen])
  /\ UNCHANGED <<control, process, rules, status, loaded, acked, killed>>

ReplaceStatus(t) ==
  /\ At(t, "replaceStatus")
  /\ statusTmp # NoStatusTmp
  /\ status' = statusTmp
  /\ statusTmp' = NoStatusTmp
  /\ Go(t, "ack", job[t])
  /\ UNCHANGED <<control, process, rules, loaded, acked, killed>>

ReplaceStatusRaises(t) ==
  /\ At(t, "replaceStatus")
  /\ statusTmp = NoStatusTmp
  /\ Raise(t)
  /\ UNCHANGED <<control, rules, records, loaded, acked, killed>>

\* _emit_ack: an ACK for an applied bundle, a NACK otherwise; it is sent once
\* over MQTT or HTTP and may be lost.
EmitAck(t) ==
  /\ At(t, "ack")
  /\ \/ /\ job[t].applied
        /\ acked' = [acked EXCEPT ![job[t].engine] = job[t].version]
     \/ acked' = acked
  /\ Return(t)
  /\ UNCHANGED <<control, process, rules, records, loaded, killed>>

\* The agent is killed; a copy in progress leaves its destination torn.
Tears(t) ==
  LET e == job[t].engine IN
  \/ /\ At(t, "backup")
     /\ target[e] # Absent
     /\ backup' = [backup EXCEPT ![e] = Torn]
     /\ UNCHANGED target
  \/ /\ At(t, "restore")
     /\ job[t].had /\ backup[e] # Absent
     /\ target' = [target EXCEPT ![e] = Torn]
     /\ UNCHANGED backup

Crash ==
  /\ CrashEnabled
  /\ killed' = TRUE
  /\ Restart
  /\ \/ UNCHANGED <<target, backup>>
     \/ \E t \in Threads : Tears(t)
  /\ UNCHANGED <<control, tmp, records, loaded, acked>>

-----------------------------------------------------------------------------
Handle(t) ==
  \/ PullFails(t) \/ PullNothingNew(t) \/ PullReceives(t)
  \/ ApplyUnchanged(t) \/ ApplyBlocked(t) \/ ApplyStale(t) \/ ApplyBegin(t)
  \/ Backup(t) \/ WriteTmp(t) \/ Replace(t) \/ ReplaceRaises(t)
  \/ ReloadSucceeds(t) \/ ReloadFails(t)
  \/ HealthSucceeds(t) \/ HealthFails(t)
  \/ RestoreBackup(t) \/ RemoveRules(t) \/ ReloadOld(t)
  \/ ReadStatus(t) \/ WriteStatus(t) \/ ReplaceStatus(t) \/ ReplaceStatusRaises(t)
  \/ EmitAck(t)

Next ==
  \/ \E e \in Engines : Publish(e)
  \/ \E t \in Threads, e \in Engines : PullRequest(t, e)
  \/ \E t \in Threads : Handle(t)
  \/ Crash

Spec == Init /\ [][Next]_vars

(***************************************************************************)
(* Fairness.  A call runs to its end: every command has a timeout.  The    *)
(* main loop pulls every engine again and again; its requests, its reloads *)
(* and its health checks of a good bundle do not fail for ever.            *)
(***************************************************************************)
Fairness ==
  /\ \A t \in Threads : WF_vars(Handle(t))
  /\ \A e \in Engines : SF_vars(PullRequest("main", e))
  /\ SF_vars(PullReceives("main"))
  /\ SF_vars(ReloadSucceeds("main"))
  /\ SF_vars(HealthSucceeds("main"))

FairSpec == Spec /\ Fairness

-----------------------------------------------------------------------------
\* Properties of one thread: they hold without the MQTT subscriber.

\* While no apply is trying out a bundle, an engine's rule file is one its
\* health check has accepted, or missing; and between two pulls it is the
\* version the status file names.  So a failed apply leaves the engine with
\* the rules it had (apply_artifact's backup and rollback).
OnTrial(e) == \E t \in Threads : /\ job[t].engine = e
                                 /\ pc[t] \in {"reload", "health", "restore"}

LastKnownGood ==
  ~killed => \A e \in Engines :
    /\ OnTrial(e) \/ target[e] \in Good \union {Absent}
    /\ At("main", "idle") => target[e] = status[e].version

\* Between two pulls, an engine whose last apply is reported ok runs the
\* reported version: the reload came after the new file and before the status.
EngineRunsReported ==
  ~killed => \A e \in Engines :
    At("main", "idle") /\ status[e].ok => loaded[e] = status[e].version

\* Even across kills: a bundle acknowledged to the control plane is one the
\* engine can run, and the status file, which outlives the process, knows it
\* (the ACK is sent after the status is on disk, and no older bundle follows).
AckedIsRecorded ==
  \A e \in Engines : acked[e] # 0 => /\ acked[e] \in Good
                                     /\ acked[e] <= status[e].version

\* Even across kills, the status file behaves as a register that moves one
\* engine at a time, only to a bundle the engine can run and never to an
\* older one (the stale-version check, the health check, _write_status).
Register == INSTANCE RuleRegister WITH reg <- status

ImplementsRegister == Register!Spec

\* A bundle recorded as applied is never replaced by an older one recorded as
\* applied (the version check of apply_artifact: "late/old manifest must not
\* downgrade active rules").
NoDowngrade ==
  [][\A e \in Engines :
        status[e].ok /\ status'[e].ok => status[e].version <= status'[e].version]_vars

\* What a rollback puts back is a bundle the engine can run ("so the engine
\* keeps serving the last-known-good ruleset").
RollbackRestoresGood ==
  \A t \in Threads : At(t, "reloadOld") => target[job[t].engine] \in Good

\* With both threads pulling, losing each other's updates and even losing a
\* thread to an exception: once the control plane settles on a good bundle
\* no older than what the agent records, the agent comes to record it.
CatchesUp ==
  \A e \in Engines, v \in Good :
    <>[](healthcheckCmd /\ active[e] = v /\ status[e].version <= v)
      => <>[](status[e].version = v)
=============================================================================
