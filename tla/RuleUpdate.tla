------------------------------- MODULE RuleUpdate -------------------------------
(***************************************************************************)
(* The community rules of the IDS engine, which the edge agent updates on  *)
(* the appliance itself: SuricataUpdateRunner.run in the main loop, its    *)
(* status file and its report (PolicyAckReporter).                         *)
(*                                                                         *)
(* The rule bundles of the portal (IdsRuleSync) come in on another thread  *)
(* and reload and check the same engine with the same two commands; of a   *)
(* bundle this module has just that.  Without a health check nothing is    *)
(* applied; the command that reloads may be left empty, and is then taken  *)
(* to have succeeded: what is called good has been tested, no more.        *)
(*                                                                         *)
(* subprocess.run(shell=True) kills the shell when the time is up, not     *)
(* what the shell has started: an update that timed out may still write    *)
(* its rules, and a reload that timed out may still take place.            *)
(***************************************************************************)
EXTENDS Integers, FiniteSets

CONSTANTS
  Refused,        \* the updates whose rules the engine cannot load
  Torn,           \* the rule files, half written
  MaxUpdates,     \* bound: runs of the updater
  MaxBundles,     \* bound: bundles of the portal
  MaxUpdaterKills \* bound: how often the agent is killed under an update or a bundle

Updates == 1 .. MaxUpdates

ASSUME UpdateAssumption ==
  /\ MaxUpdates \in Nat /\ MaxBundles \in Nat /\ MaxUpdaterKills \in Nat
  /\ Refused \subseteq Updates /\ Torn \notin Int

VARIABLES
  community,   \* the update whose rules lie in the engine's directory (0: those shipped)
  running,     \* the update whose rules the engine has loaded
  healthCmd,   \* a health check is configured
  reloadCmd,   \* a command that reloads the engine is configured
  updAt,       \* the runner is at: "idle", "command", "reload", "check", "write" or "emit"
  updates,     \* how many runs there were: the version of the last one
  outcome,     \* the result of the run under way
  updStatus,   \* suricata-update-status.json
  heard,       \* the last report of the agent that reached the portal
  late,        \* the timed-out updates that still write
  lateReload,  \* a timed-out reload is still to take place
  bundleAt,    \* the MQTT thread is at: "idle", "reload", "check" or "undo"
  bundles, updaterKills,
  spoiled      \* history: since the update last wrote the rules, a late one wrote too, the
               \* runner was killed or its status could not be written

runner     == <<updAt, updates, outcome, updStatus, spoiled>>
rules      == <<community, running, late, lateReload>>
bundle     == <<bundleAt, bundles>>
commands   == <<healthCmd, reloadCmd>>
updateVars == <<runner, rules, bundle, commands, heard, updaterKills>>

Outcomes == [version : 0 .. MaxUpdates, ok : BOOLEAN]
Reports  == [about : {"update"}, result : Outcomes] \cup [about : {"bundle"}, ok : BOOLEAN]

UpdateTypeOK ==
  /\ {community, running} \subseteq {0, Torn} \cup Updates
  /\ {healthCmd, reloadCmd, lateReload, spoiled} \subseteq BOOLEAN
  /\ updAt \in {"idle", "command", "reload", "check", "write", "emit"}
  /\ updates \in 0 .. MaxUpdates
  /\ outcome \in Outcomes /\ updStatus \in Outcomes /\ heard \in Reports
  /\ late \subseteq Updates
  /\ bundleAt \in {"idle", "reload", "check", "undo"}
  /\ bundles \in 0 .. MaxBundles /\ updaterKills \in 0 .. MaxUpdaterKills

UpdateInit ==
  /\ community = 0 /\ running = 0 /\ late = {} /\ lateReload = FALSE
  /\ healthCmd \in BOOLEAN /\ reloadCmd \in BOOLEAN
  /\ updAt = "idle" /\ updates = 0 /\ spoiled = FALSE
  /\ outcome = [version |-> 0, ok |-> FALSE] /\ updStatus = outcome
  /\ heard = [about |-> "update", result |-> outcome]
  /\ bundleAt = "idle" /\ bundles = 0 /\ updaterKills = 0

Loadable(files) == files # Torn /\ files \notin Refused

\* The engine loads what lies in its directory; what it cannot load it takes up or leaves.
EngineLoads ==
  running' \in IF Loadable(community) THEN {community} ELSE {community, running}

\* The reload succeeds, which one that is not configured always does.
Reloaded == IF reloadCmd THEN EngineLoads ELSE UNCHANGED running

Ends(ok, at) == outcome' = [version |-> updates, ok |-> ok] /\ updAt' = at

-----------------------------------------------------------------------------
\* run: the update starts ...
RunBegins ==
  /\ updAt = "idle" /\ updates < MaxUpdates
  /\ updates' = updates + 1 /\ updAt' = "command"
  /\ UNCHANGED <<outcome, updStatus, spoiled, rules, bundle, commands, heard, updaterKills>>

\* ... its command goes over the files ...
CommandWrites ==
  /\ updAt = "command" /\ community' = Torn
  /\ UNCHANGED <<runner, running, late, lateReload, bundle, commands, heard, updaterKills>>

\* ... and is done.  Without a health check the run ends as failed, with the rules in place.
CommandSucceeds ==
  /\ updAt = "command"
  /\ community' = updates /\ spoiled' = FALSE
  /\ \/ healthCmd /\ updAt' = "reload" /\ UNCHANGED outcome
     \/ ~healthCmd /\ Ends(FALSE, "write")
  /\ UNCHANGED <<updates, updStatus, running, late, lateReload, bundle, commands, heard,
                 updaterKills>>

\* It fails, or its time is up: then what the shell has started may go on.
CommandFails ==
  /\ updAt = "command"
  /\ Ends(FALSE, "write")
  /\ late' \in {late, late \cup {updates}}
  /\ UNCHANGED <<updates, updStatus, spoiled, community, running, lateReload, bundle, commands,
                 heard, updaterKills>>

LateWrite == \E u \in late :
  /\ \/ community' = Torn /\ UNCHANGED late
     \/ community' = u /\ late' = late \ {u}
  /\ spoiled' = TRUE
  /\ UNCHANGED <<updAt, updates, outcome, updStatus, running, lateReload, bundle, commands,
                 heard, updaterKills>>

UpdateReloads ==
  /\ updAt = "reload"
  /\ Reloaded /\ updAt' = "check"
  /\ UNCHANGED <<updates, outcome, updStatus, spoiled, community, late, lateReload, bundle,
                 commands, heard, updaterKills>>

\* Mutant: the reload's exit status is not looked at, the check alone decides.
UpdateReloadFails_Ignored ==
  /\ updAt = "reload" /\ reloadCmd
  /\ UNCHANGED running /\ lateReload' \in BOOLEAN
  /\ updAt' = "check"
  /\ UNCHANGED <<updates, outcome, updStatus, spoiled, community, late, bundle, commands, heard,
                 updaterKills>>

\* There is no way back: the rules stay in place.
UpdateReloadFails ==
  /\ updAt = "reload" /\ reloadCmd
  /\ UNCHANGED running /\ lateReload' \in BOOLEAN
  /\ Ends(FALSE, "write")
  /\ UNCHANGED <<updates, updStatus, spoiled, community, late, bundle, commands, heard,
                 updaterKills>>

LateReload ==
  /\ lateReload /\ lateReload' = FALSE
  /\ EngineLoads
  /\ UNCHANGED <<runner, community, late, bundle, commands, heard, updaterKills>>

\* The health check tests the rules in the directory; it may also run out of time.
UpdateChecked ==
  /\ updAt = "check"
  /\ \E ok \in {Loadable(community), FALSE} : Ends(ok, "write")
  /\ UNCHANGED <<updates, updStatus, spoiled, rules, bundle, commands, heard, updaterKills>>

\* _write_status: a file that cannot be written is logged and left as it was.
WriteUpdStatus ==
  /\ updAt = "write" /\ updAt' = "emit"
  /\ \/ updStatus' = outcome /\ UNCHANGED spoiled
     \/ spoiled' = TRUE /\ UNCHANGED updStatus
  /\ UNCHANGED <<updates, outcome, rules, bundle, commands, heard, updaterKills>>

\* _emit: by HTTP alone, once; what does not arrive is not sent again.
EmitReport ==
  /\ updAt = "emit" /\ updAt' = "idle"
  /\ heard' \in {heard, [about |-> "update", result |-> outcome]}
  /\ UNCHANGED <<updates, outcome, updStatus, spoiled, rules, bundle, commands, updaterKills>>

-----------------------------------------------------------------------------
\* A bundle of the portal, in the MQTT thread.  None is applied without a health check.
BundleComes ==
  /\ healthCmd /\ bundleAt = "idle" /\ bundles < MaxBundles
  /\ bundleAt' = "reload" /\ bundles' = bundles + 1
  /\ UNCHANGED <<runner, rules, commands, heard, updaterKills>>

BundleReloads ==
  /\ bundleAt = "reload"
  /\ \/ Reloaded /\ bundleAt' = "check"
     \/ reloadCmd /\ UNCHANGED running /\ bundleAt' = "undo"
  /\ UNCHANGED <<runner, community, late, lateReload, bundles, commands, heard, updaterKills>>

\* PolicyAckReporter.report: by MQTT, else by HTTP; lost when neither goes through.
Acknowledges(ok) == heard' \in {heard, [about |-> "bundle", ok |-> ok]}

BundleChecked ==
  /\ bundleAt = "check"
  /\ \/ Loadable(community) /\ bundleAt' = "idle" /\ Acknowledges(TRUE)
     \/ bundleAt' = "undo" /\ UNCHANGED heard
  /\ UNCHANGED <<runner, rules, bundles, commands, updaterKills>>

BundleUndone ==
  /\ bundleAt = "undo" /\ bundleAt' = "idle"
  /\ (Reloaded \/ UNCHANGED running)
  /\ Acknowledges(FALSE)
  /\ UNCHANGED <<runner, community, late, lateReload, bundles, commands, updaterKills>>

-----------------------------------------------------------------------------
\* The container ends with all it runs; a reload the engine has been told of takes place.
KillUpdater ==
  /\ updaterKills < MaxUpdaterKills /\ (updAt # "idle" \/ bundleAt # "idle" \/ late # {})
  /\ updaterKills' = updaterKills + 1
  /\ spoiled' = (spoiled \/ updAt # "idle")
  /\ updAt' = "idle" /\ bundleAt' = "idle" /\ late' = {}
  /\ LET reloading == reloadCmd /\ (updAt = "reload" \/ bundleAt \in {"reload", "undo"}) IN
     lateReload' \in {lateReload, lateReload \/ reloading}
  /\ UNCHANGED <<updates, outcome, updStatus, community, running, bundles, commands, heard>>

UpdateNext ==
  \/ RunBegins \/ CommandWrites \/ CommandSucceeds \/ CommandFails \/ LateWrite
  \/ UpdateReloads \/ UpdateReloadFails \/ LateReload \/ UpdateChecked
  \/ WriteUpdStatus \/ EmitReport
  \/ BundleComes \/ BundleReloads \/ BundleChecked \/ BundleUndone
  \/ KillUpdater

UpdateSpec == UpdateInit /\ [][UpdateNext]_updateVars

-----------------------------------------------------------------------------
\* The rules are those of the update and can be loaded; if they are reloaded at all, the
\* engine runs them.
Vouches(r) ==
  r.ok => community = r.version /\ Loadable(community) /\ (reloadCmd => running = community)

\* While no run is under way, an update the status file calls good, or the last report heard
\* of that same run, is the one in the engine's directory, one it can load, and, with a
\* command that reloads, the one it runs: whatever bundles were reloaded, undone or timed
\* out meanwhile.  Not so once a timed-out update wrote after it, the runner was killed, or
\* the status could not be written (SuricataUpdateRunner.run).
UpdateVouched ==
  updAt = "idle" /\ ~spoiled =>
    /\ Vouches(updStatus)
    /\ heard.about = "update" /\ heard.result.version = updStatus.version
         => Vouches(heard.result)
=============================================================================
