# A formal model of the SenseL OT edge sensor

TLA+ specifications of the parts of the edge sensor where order, concurrency
and failure matter, TLC runs that check them on small instances, and proofs,
checked by TLAPS, of what should hold for every instance. Every definition is
read off the source; `PROJECT.json` maps each one to its lines.

Paths below are relative to `src/services/` unless they start with `src/`.

## 1. The system

An appliance runs a handful of containers that share a data volume. Most of
what they say to each other they say through files.

```
 network --> packet-sensor --security-events.jsonl--> edge agent --MQTT/HTTP--> control plane
                  ^                                   |      ^                       |
                  +----- policy artifacts + stamps ---+      +--- feeds, manifests --+
 IDS (Suricata, Snort) <-- rule files, reload, health check --+
 operator --> Edge Console --desired.json--> vpn-client supervisor --> OpenVPN
                  |  ^---------status.json-------------+
                  +--> platform.json, policy, device files, nmcli, docker
```

| Component | State | Hard behaviour | Modules |
| --- | --- | --- | --- |
| **IDS rule synchronisation** `sensel-edge-agent/src/policy/ids_rule_sync.py` | per engine a rule file, `.bak`, `.tmp`; one status file | two threads without a lock; kills between file operations; commands that fail or time out | `IdsRuleSync`, `RuleRegister` |
| **Community rules** `sensel-edge-agent/src/policy/suricata_update.py`, `policy_ack.py` | status file, report | time-outs that leave the command running; bundles reloading the same engine; no reload command | `RuleUpdate` |
| **Packet sensor: capture** `packet-sensor/src/capture/`, `native/` | the C session, the XDP program, two threads | memory freed while the other thread uses it; a signal at any point; kills that leave the program attached | `Capture` |
| **Packet sensor: pipeline, detection, coverage** `packet-sensor/src/pipeline/`, `detection/`, `coverage/` | alert-once sets, ID counters, coverage counter | two threads in one detector | `Pipeline` |
| **Baseline, classification** `packet-sensor/src/baseline/`, `topology/` | the collector's tables | read by one thread while the other fills them; expiry | `LiveBaseline` |
| **External IDS events, sightings** `packet-sensor/src/detection/external_engine/`, `sensel-edge-agent/src/sighting/` | offsets, events file, JSONL retry queue | append before the offset is saved; rewrite at the end of a flush; IDs that repeat | `Sightings` |
| **Event upload** `sensel-edge-agent/src/upload/`, `main.py` | offset, bounded SQLite buffer | unconfirmed and repeated deliveries, kills, a full buffer, a database that refuses | `Upload` |
| **Operational mode** `policy/operational_mode_sync.py`, the sensor's store | mode, stamp and session files | files written in turn, messages out of order | `ModeControl` |
| **Observe ticks** `northbound/observe_tick_publisher.py` | minute index, counts | kills, unconfirmed and repeated ticks, sessions that change | `ObserveTicks` |
| **Detection policy, profiles** `policy/detection_policy_sync.py`, `edge-console/src/baseline_service.py`, the sensor's stores | policy, stamp, history | two writers of one file; a reload between file and stamp | `PolicyControl`, `ProfileReload` |
| **Lists of the feed** `policy/sync.py`, `listfile_sync.py` | cache, stamp, ETag | HTTP and MQTT deliver the same list | `FeedCache` |
| **Hosts of the blacklist** `packet-sensor/src/detection/ioc.py`, `policy/ioc_cache.py` | hosts held, last look, last alerts | a list that changes between two looks; alerts dropped by the mode | `IocMatch` |
| **Registration, MQTT clients** `runtime/registration.py`, seven subscribers | tenant, credentials, clients | clients older than their credentials or tenant | `Registration` |
| **Agent status** `runtime/agent_snapshot.py`, `edge-console/src/agent_runtime.py`, `main.py` | `agent-runtime.json`, coverage tally | two threads rewrite one file in place | `AgentStatus` |
| **Topology** `northbound/topology_*.py`, `policy/topology_override_*.py` | snapshot, overrides | overrides half written while read | `TopologySync` |
| **Console configuration** `edge-console/src/config_store.py` | `platform.json`, `capture.env` | read-modify-write by concurrent requests; two files that say the same | `PlatformConfig` |
| **Identity** `sensor_id_resolve.py`, `src/deploy/appliance/` | `.env`, `capture.env`, container environments | what each service read when | `Identity` |
| **Wi-Fi** `edge-console/src/wifi_service.py`, `network_service.py`, `src/deploy/netwatch/net-failover.sh` | NetworkManager profiles, pinned list | console and timer on the same profiles; calls that fail and are not noticed | `WifiFailover`, `HostNetwork` |
| **VPN control** `edge-console/src/vpn_service.py`, `vpn-client/supervisor.py` | `desired.json`, `status.json`; process, epoch latch, back-off | concurrent requests on one file; exits noticed late | `VpnClient` |
| **Field devices** `edge-console/src/edgex_config_service.py`, `edgex_service.py` | device files, driver containers | restarts that meet | `DeviceDrivers` |
| **Jobs in the sensor's container** `baseline_service.py`, `asset_probe_service.py`, `lab_traffic_service.py` | containers, inventory, candidate | timed-out processes that go on | `SensorJobs` |
| Agent main loop, settings, health, web pages, lab, scripts | little | input and output | see section 7 |

What makes the most important of them correct:

* *Rule sync*: a bundle the IDS cannot run never stays; the rule file, the
  running engine, the status file and the control plane's record agree;
  versions never go back; a good bundle arrives in the end.
* *Events*: every alert is raised once, keeps its ID, and is either received,
  or lost for a reason the design names; it arrives twice only if an arrival is
  not on the agent's records.
* *Artifacts* (mode, policy, lists, overrides): the reader ends up with what the
  writer wrote last, and two writers do not undo each other.
* *Console*: what runs (tunnel, drivers, network, capture) is what was asked
  for, and an answer that says so is true.

`PROJECT.json` lists all components with their status, and under `hazards` every
place where this code is hard to test, with the property that would catch it.

## 2. The modules

A definition marked "Mutant" is not part of a specification: it is a plausible
bug of the definition that follows it, and the run named with it in
`PROJECT.json` fails when it is put in its place. A variable called history is
written by no code: it remembers that something happened which the code does
not claim to survive (two requests met, a kill between two writes), and the
properties say for which of these they make an exception.

The modules that compose others (`EventPath`, `Northbound`, `Edge`,
`Appliance`) let one part move per behaviour, chosen at the start. The parts
share no variable and no file (where they do, the module that reads takes every
content of the file as it comes), so interleaving their steps would reach the
same states of each part, and TLC checks the sum of their state spaces and not
the product. Choices a part makes at the start are fixed while another moves.

### The agent and the IDS

**`IdsRuleSync`**. `target`, `backup`, `tmp` are the contents of
`<engine>.rules`, `.bak` and `.tmp`; `status` and `statusTmp` the status file and
its `.tmp`; `loaded` the rules the IDS process runs. `active` is what the control
plane serves and `acked` what it has last been told was applied. `pc[t]` and
`job[t]` are thread `t`'s place in `pull_http_feed` and its locals. Every file
operation and every command is a step: the version check reads the status,
`Backup`, `WriteTmp`, `Replace`, the reload, the health check, and
`_write_status` as read, write, replace. The five outcomes of `apply_artifact`
are five paths: unchanged, blocked, stale, applied, rolled back. A rename whose
source is gone raises: the main loop has no handler, so the agent restarts; in
the MQTT thread the thread ends (`Raise`). `Crash` kills the process at any step;
a copy under way leaves its destination `Torn`. A bundle is its version, which
orders it and names its content; the reload command is configured and makes the
IDS read the rule file; the health check accepts only bundles in `Good`, not
necessarily all of them each time. **`RuleRegister`** is what it promises of its
status file.

**`RuleUpdate`**. A run of the community-rules updater: the update command, the
reload, the health check, the status file and its report, beside bundles of the
portal (of which it has the reload, the check and the rollback). A command that
times out is a process that may still have its effect later. `running` is what
the engine has loaded. Whether there is a health check and a reload command is chosen at the
start (`ids_rule_reload_cmd` is empty by default): without the latter a reload succeeds and
loads nothing (`Reloaded`).

**`Registration`**. The main loop's registration and what it lands; the northbound
client and the subscribers as records of tenant, credentials, connection and
subscription. `Trait` is all that sets the seven subscribers apart: whether one knows
the tenant of its cache, falls back on the northbound credentials, and is told of
a tenant change.
`MCRegistration` instantiates it with two of different traits.

**`FeedCache`**. The blacklist or the managed lists: pull with ETag, message,
`.tmp` and cache, stamp, the sensor's reload. `Pullers` are the main loop and the
MQTT thread, which may both be applying.

**`TopologySync`**. The overrides file, truncated then written; the snapshot in
learning mode, read from the sensor's file and merged with the overrides;
publications that may be unconfirmed.

**`ObserveTicks`**. `tickState` is the state file, `confirmed` the publisher's
memory, `received` the last tick of the portal. A tick reads mode, assets, boot;
publishing and saving are separate steps, and before the saving the MQTT client may have sent
the tick again (`ResendTick`): a publish is at QoS 1, and a connection that is lost with the
acknowledgement may be back within the ten seconds the agent waits for it.

### The way of an event

**`Pipeline`**. The capture thread's `Frame`/`Process`, the main thread's `Window`,
both through one detector. An event passes `Bump` (the counter is incremented),
`Number` (the counter is read), `Emit` or `Drop`, and the coverage counter is
flushed by the main thread in the steps `Snapshot`, `File`, `Clean`. Rules with the
same shape share a representative; thresholds are free choices.

**`ModeControl`**. An artifact is applied file by file (mode, stamp, session, each
truncated and then written); the sensor looks at the stamp and reads the mode
file if it changed. An artifact has any mode, with or without a session, and may abort a
session, its own or another.

**`Upload`**. `log[n]` is the event_id of the n-th event; `offset` and `batch` belong
to the tailer; `buffer` is the SQLite table in the order of its keys; `phase` and
`step` are the main loop's place. For the item in hand: whitelist check, MQTT,
then HTTP, then removal from the buffer or insertion into it. `step` "sent" and
"posted" are after the confirmation and before the removal.
`remove_by_event_id` deletes its rows one by one (`UploadRemove`) before the next
event is in hand (`UploadNext`). An attempt reported as failed may have arrived
(`Unconfirmed`), one that MQTT confirms may have arrived twice (`ArrivesTwice`, as in
`ObserveTicks`), and the database may refuse to delete: a flush then ends with the row in
place (`FlushRemoveFails`, `SuppressFails`), a posted event counts as one that could not be
posted (`UploadRemoveFails`), and after a publish in `_upload_pending_events`, where nothing
catches the exception, the agent ends, which is a `Kill`. `unrecorded` holds the
events that have an arrival of which the agent keeps no record.
`Kill` loses the batch, whose offset is already saved, and may empty the offset
file, which is written in place. One of three logs, one counter, one day.

**`IocMatch`**. A look-up of a host, as source or destination: the list is looked at
if `ReloadCheck` has passed, loaded if its stamp has changed (or not, if it cannot be read),
and a host it holds raises an alert unless it is exempt or `Cooling`, even if
the mode then drops the event. The agent's writes are `WriteList`, whole lists; how they come
about is `FeedCache`'s matter. An entry expires only at a load: `loaded` and `loadedAt` are
the list the sensor loaded last, and when. `contacts` is the history of the look-ups, each with what
the agent's file has said of the host for as long as the sensor may go without looking.

**`EventPath`** composes the four.

**`Sightings`**. The engine's file with its rotation, the sensor's offset, the events
file, the reporter's offset, its queue, and what the service has received. The
append and the save of an offset are separate steps, and so are a post and what
becomes of the queue.

**`LiveBaseline`**. The collector's tables as sets of identities, in or out of the
window; the classifier's evidence; a snapshot that goes through the hosts in
order while frames arrive.

**`AgentStatus`**. `agent-runtime.json` as the text it holds (whole, empty, or two texts
over one another); `merge[w]` is the call of `write_agent_runtime` that thread `w` is
in: read, truncate, write. `turn` is the main loop's place from the registration to the
coverage tally; `connected` is the client's flag and `linked` the connection itself,
which the flag follows late. The console is a reader (`Shown`).

**`Northbound`** composes `Sightings`, `LiveBaseline`, `RuleUpdate` and `AgentStatus`.

### Artifacts and configuration

**`PolicyControl`**. The policy file, its stamp and the history, written by the
agent's MQTT thread (in place) and by console requests (rename); the sensor's
reload. `accepted` is the artifact the agent is applying, which the portal may have
replaced by then. **`ProfileReload`**: profile and policy with a stamp each, as the sensor's
policy store polls them. **`PlatformConfig`**: `platform.json` as loaded, changed,
truncated and written by each request, and `capture.env`, which holds the settings and the
tenant and which only edits write: `registered` says that a tenant was recorded since. **`WifiFailover`**: one
connect and one pin request of the console and the timer's script, command by
command, over NetworkManager's profiles; a list that cannot be had ends a connect's
pruning, and leaves a pin request with no network to pin. `Chosen` is a filtered list,
given by what it holds and in which order (a set of one sequence), so that it can be
reasoned about without induction. **`Edge`** composes `ObserveTicks`,
`PolicyControl`, `PlatformConfig`, `WifiFailover`, `Registration`, `FeedCache` and
`TopologySync`.

### The console and the containers beside it

**`VpnClient`**. `desired`, `desiredTmp`, `files` (the profiles) and `status` are
files; `request[r]` is a request thread of the console; `proc`, `active`,
`gaveUp`, `lastError`, `waiting` are the supervisor's attributes, `want` the
desired state its pass has read. A request reads and decides in one step, then
writes the shared `.tmp`, then renames it, or unlinks the profile. A pass is
`ReadDesired`, one action for each branch of `reconcile_once`, `WriteStatus`.
OpenVPN may exit at any time and is noticed only when polled. The length of the
back-off is not modelled.

**`Capture`**. `xdp` and `handle` as the two threads see them, the C session as
memory that is live or freed, the XDP program on the interface, the backends as
tried in turn. `Stop`, the signal, may come at any point of the main thread, and the capture
thread may see it first. `raced` says that the capture thread's close fell into a snapshot.
**`Identity`**. `.env`, `capture.env` and `platform.json`, the
environment each container was made with, the ID each service goes by.
**`DeviceDrivers`**. Device files in steps of truncate and write, a driver container
that stops, starts and reads. **`HostNetwork`**. Interfaces, profiles with their
never-default setting as set and as applied. A connect ends with the pruning of profiles,
which may be those of other cards (`Prune`); a query of `nmcli` that fails reads as another
card with the route, or hides one (`Others`). **`SensorJobs`**. `docker exec`
processes that outlive their client, the candidate, the inventory document, the
containers of a preset. **`Appliance`** composes these with `VpnClient`.

## 3. The runs

| Run | Instance | Checks | States |
| --- | --- | --- | --- |
| `ids_apply` | one engine, bundles 1..3 with 2 bad, main thread only, kills, 5 changes | `LastKnownGood`, `EngineRunsReported`, `AckedIsRecorded`, refinement of `RuleRegister` | 269 000 |
| `ids_threads` | one engine, bundles 1..2 good, both threads, 2 changes | `CatchesUp` | 244 000 |
| `events` | `EventPath` | of `ModeControl`: `SessionAgrees`, `SensorFollows`; of `Upload`: `Accounted`, `DuplicatesExplained`, `TrimsOldest`, `EventuallySettled`; of `Pipeline`: `AlertedOnce`, `CoverageComplete`; of `IocMatch`: `ContactsReported` | 772 000 |
| `northbound` | `Northbound` | of `Sightings`: `NothingSkipped`, `Accounted`, `DuplicatesExplained`, `EventuallySettled`; `UpdateVouched`; `LevelIsMostConfident`; `StatusFollows` | 335 000 |
| `edge` | `Edge` | of `ObserveTicks`: `DeltasAddUp`, `TickContinuity`; of `PolicyControl`: `NothingOverwritten`, `PolicyFollows`; of `PlatformConfig`: `ConfigKept`; of `WifiFailover`: `FallbacksInOrder`, `ConnectivityRestored`; `ListEnforced`; `OverridesShown`; `SubscribersFollow` | 935 000 |
| `appliance` | `Appliance` | of `VpnClient`: `RunsWhatWasAsked`, `TunnelObeys`; of `Capture`: `SessionAlive`, `ProgramReleased`, `CaptureKept`; `SameIdentity`; `DriversRunSaved`; `JobsTellTruth`; `NotLockedOut` | 1 188 000 |
| `ids_downgrade` | as `ids_threads` | `NoDowngrade` | violated |
| `ids_rollback` | as `ids_apply` | `RollbackRestoresGood` | violated |
| `vpn_latch` | one request at a time, two in all | `ReconnectStarts` | violated |
| `vpn_toggle` | two requests at a time | `ToggleLeavesTunnel` | violated |
| `profile_reload` | two profiles, two policies | `ProfileHotReloads` | violated |
| `registration` | two subscribers, one outage, no kill | `NorthboundReconnects` | violated |

The composed runs and `profile_reload` and `registration` set
`CHECK_DEADLOCK FALSE`: bounded numbers of messages, requests, ticks and
restarts come to an end, and then nothing need happen any more.

*What the properties say.* In one sentence each, above the definition. Six are
conjunctions of what one run asks of one module: `ConfigKept` (`NothingReverted`: nothing
that was set or registered is undone; `EnvFollowsConfig`: `capture.env` has the settings of
`platform.json`, and its tenant if no registration has recorded one since the last edit), `ListEnforced` (the portal's list
reaches the cache, and the cache the sensor), `StatusFollows` (the console ends up
showing the connection and no outdated error, the portal has the last coverage
tally), `TunnelObeys` (a wanted tunnel comes back, an unwanted one ends, one
without auto-reconnect stays down), `JobsTellTruth` (a candidate shown as learnt
from an upload is of that upload; what an operator entered of a device survives
probes; a preset's "ok" is so) and `NotLockedOut` over both ways of changing the
network.

*Why the bounds are enough.* Each bound is a guard of the action it bounds.

* Rule sync: three bundles with a bad one in the middle give an upgrade, a
  refusal, a rollback and a stale bundle; five changes let each happen after each
  other. Engines share only the status file, and the proofs cover any number of
  them. Two bundles suffice for one thread to overtake the other.
* `EventPath`: three events against a buffer of two rows fill and overflow it
  (health rows come on top), one restart of the sensor makes the first event's ID
  come back, one kill hits any step; the second event is whitelisted or not. Two
  packets of three kinds under two policies, and one window, bring both threads
  into the detector at once, with a rule that alerts once seen before and after
  its party is allowed. One host in either direction, looked up three times in five units
  of time with a cooldown and a reload interval of two, and one new list on which it
  expires never, soon, or is missing: every look-up may come before, within and after either. Three deliveries of five artifacts with
  two kills cover every order of two sessions, a detection, an abort on its own and one that
  comes with the mode "detect", each redelivered.
* `Northbound`: three alerts of which two are threats, one of them whitelisted at times, one
  rotation, one kill, `MaxAttempts` 2 (a sighting is queued, retried and given
  up). Three frames between four hosts of seven kinds and one snapshot: evidence
  for one host arrives before, during and after its turn, in both orders. Two
  updates of which the second is refused, two bundles, one kill, with and without a health
  check and a reload command. Two tallies, of which
  the second may be older by the clock, and one outage, refusal, late answer or kill
  (two in all hold as well, in a run of `AgentStatus` by itself).
* `Edge`: three ticks with two agents' lives, one new asset and two sessions; one
  artifact of the portal against two console requests within two seconds; two
  edits and one registration on two settings, one kill; two networks, one of
  which `Keep` = 1 prunes and both of which may be pinned, two connects, two pin requests and one change of the
  air; two subscribers of different traits, one outage, one kill; two versions of
  a list, one kill, one restart of the sensor; two assets, two overrides of one
  of them, one kill.
* `Appliance`: two requests at a time and a third that tells the outcome from the
  start, one profile (the restart on a changed profile is covered, for any
  profiles, by `RunsCorrect`), one restart; one of each failure of the capture;
  two job requests, uploads and jobs; two IDs, saves and boots; two drivers that
  may be given the same device; two Wi-Fi cards beside a wired one, two requests
  and one change of the host by itself.

*What the violations show.*

* `ids_downgrade`: the version check and the status entry are many steps apart.
  The main loop receives bundle 1 and passes the check, the MQTT thread applies
  bundle 2, the main loop goes on and records 1. The test in
  `sensel-edge-agent/tests/test_ids_rule_sync.py:156` says a late manifest must
  not downgrade.
* `ids_rollback`: killed between the new rule file and its health check, the
  agent later backs that file up and a rollback puts it back, where the
  module's text promises the last-known-good rules.
* `vpn_latch`: auto-reconnect off; the process exits and the operator
  reconnects before the supervisor's next pass; that pass latches the *new*
  epoch as given up.
* `vpn_toggle`: the toggle writes back all it has read, and renames whatever
  the shared `.tmp` holds: a disconnect made meanwhile is undone.
* `profile_reload`: `maybe_reload` of the policy store returns while the policy's
  own stamp is unchanged, before it asks the profile store.
* `registration`: the issued credentials are put into the very object the
  northbound client compares them with, so a client built before the answer
  keeps its old ones.

*Met on the way, and allowed for in the models.*

* Rule OT-003 never fires: the inventory records the MAC address before the
  detector compares it. Alert-once sets are also consumed outside detect mode.
* IDs repeat after a restart of the sensor, and `remove_by_event_id` then removes
  another event's buffered row (`upload/buffer.py:77`).
* A portal policy delivered again undoes a baseline the console has approved.
* An asset that turns up while a tick is published is counted by the state file
  and reported by no tick (`unseen`). A restarted host may repeat a boot ID.
* Modbus clients, IT hints and MAC addresses never age out of the collector,
  though `to_candidate` says so; a host's type follows its last evidence, its
  level the most confident.
* A sensor killed while AF_XDP is open leaves its program attached, and later
  starts fall back to Scapy. A capture lost under Scapy ends without an error.
* A timed-out `docker exec` leaves the learner running; what it writes may be
  shown for a later upload. While it waits, the console's event loop takes on no
  other request.
* A restarted container keeps its environment: a `capture.env` written later is
  not read by it.
* The result of `connection up` is not looked at (`wifi_service.py:162`): the other cards are
  demoted although bringing up the chosen one has failed, and two connects at once may demote
  each other. A query that fails says of another card that it has the default route
  (`wifi_service.py:139-144`), and the only uplink is demoted. The pruning after a connect
  deletes profiles that are not pinned, that of another card's active connection among them.
  All are excuses of `NotLockedOut`.
* `snapshot` may ask the AF_XDP session for its statistics after the capture thread has freed
  it (`capture/interface.py:239-240`), when a signal or an exception ends that thread
  meanwhile: no lock is held (`misread`, excused as `raced`).
* A publish at QoS 1 that is acknowledged may have arrived twice: an event, or a tick.
* The sensor goes on alerting on an entry of the blacklist that has expired, until the next
  load leaves it out (`packet-sensor/src/policy/ioc_cache.py:116-120`).
* With no reload command, which the agent's README calls an optional no-op, a community update
  is reported as good though the engine has loaded nothing of it
  (`suricata_update.py:99-102`).
* A registration changes the tenant in `platform.json` and leaves `MQTT_TENANT_ID` in
  `capture.env` as it was until the next edit (`config_store.py:143`, `185-187`).
* An artifact that aborts one session, with mode "detect", leaves the file of another session.
* The thread of the MQTT client may restore a `last_error` that the registration has
  just cleared, and the console then shows it until the next connection (`crossed`).
  A tally written after the clock was set back is not published until the clock has
  passed the last one, or the agent starts again (`setBack`); a connection shown by an
  agent that has gone stays shown.
* A pin request that gets no list of the profiles (`_saved_wifi_connections` returns an
  empty one when `nmcli` times out) pins nothing: the order is emptied, and the
  networks keep the priorities of pinned ones. `FallbacksInOrder` excuses it as a failed call.
* Nothing rolls a community update back; bundles of the portal that are checked
  after it are blamed for its rules. Its report is sent once.

## 4. Fairness

* *Rule sync*: each thread's call goes on (commands and requests have
  timeouts, `_cmd_timeout` and 30 s); the main loop pulls again and again
  (`ids_rule_interval_sec`); requests, reloads and health checks of a good
  bundle do not fail for ever. Nothing is assumed of MQTT.
* *Upload, sightings*: the loops go on (requests have timeouts); posting the
  oldest row does not fail for ever, nor does removing it from the database, and a flush gets to every queued sighting
  again and again. Nothing is assumed of a row the control plane always rejects,
  which blocks the buffer: `hazards` lists it.
* *Mode, policy, lists*: a writer that has begun goes on; the sensor looks at the
  stamp every few seconds; the portal answers pulls again and again.
* *Registration*: the main loop goes on, paho reconnects clients, a broker that is
  gone comes back. The portal need never answer.
* *Agent status*: the main loop and paho's thread go on; the broker need never return, and
  a publish may time out within the bound.
* *Topology*: the overrides' writer goes on, the loop publishes again and again.
* *Wi-Fi*: the timer runs the script every 30 s, and a request begun goes on. The
  air may change at any time within its bound.
* *VPN*: a request begun is finished; `run` catches every exception, so the
  supervisor's passes go on; time passes; launching OpenVPN does not fail for
  ever. Nothing is assumed of the operator or of OpenVPN's exits.
* *Capture*: both threads go on, Docker starts the container again, an interface
  that is gone comes back.
* `Pipeline`, `ObserveTicks`, `PlatformConfig`, `LiveBaseline`, `RuleUpdate`,
  `Identity`, `DeviceDrivers`, `HostNetwork`, `SensorJobs`, `IocMatch`: safety only,
  no fairness.

## 5. What is proved

For all values of the constants that satisfy the assumption of the module (and,
in `IdsRuleSync`, without the MQTT thread except for the first):

| Theorem | Statement |
| --- | --- |
| `IdsRuleSync_proofs!TypeCorrect` | `Spec => []TypeOK`, both threads |
| `RegisterRefinement` | `Spec => Register!Spec`: the status file never goes back and holds only good bundles, across kills |
| `AckCorrect`, `LastKnownGoodCorrect`, `EngineRunsCorrect` | `AckedIsRecorded` across kills; `LastKnownGood` and `EngineRunsReported` until the first |
| `Appliance_proofs!TypeCorrect`, `RunsCorrect` | of `VpnClient`: `TypeOK`, `RunsWhatWasAsked` |
| `CaptureTypeCorrect`, `SessionAliveCorrect`, `ProgramReleasedCorrect` | of `Capture`: `CaptureTypeOK`, `SessionAlive`, `ProgramReleased` |
| `IdTypeCorrect`, `SameIdentityCorrect` | of `Identity`: `IdTypeOK`, `SameIdentity` |
| `DrvTypeCorrect`, `DriversRunSavedCorrect` | of `DeviceDrivers`: `DrvTypeOK`, `DriversRunSaved` |
| `JobsTypeCorrect`, `JobsTellTruthCorrect` | of `SensorJobs`: `JobsTypeOK`, `JobsTellTruth` |
| `HostTypeCorrect`, `NotLockedOutCorrect` | of `HostNetwork`: `HostTypeOK`, and the action property `NotLockedOut` |
| `Upload_proofs!TypeCorrect`, `AccountedCorrect`, `TrimsOldestCorrect`, `DuplicatesCorrect` | `TypeOK` and the three safety invariants, across kills and restarts |
| `Northbound_proofs!SightingsTypeCorrect`, `NothingSkippedCorrect`, `AccountedCorrect`, `DuplicatesExplainedCorrect` | of `Sightings`: `TypeOK` and the three safety invariants, across rotations, kills and failures |
| `UpdateTypeCorrect`, `UpdateVouchedCorrect` | of `RuleUpdate`: `UpdateTypeOK`, `UpdateVouched` |
| `ModeTypeCorrect`, `SessionCorrect` | of `ModeControl`: `ModeTypeOK`, `SessionAgrees` |
| `IocTypeCorrect`, `ContactsReportedCorrect` | of `IocMatch` (`ModeControl_proofs`): `IocTypeOK`, `ContactsReported` |
| `TickTypeCorrect`, `DeltasCorrect`, `ContinuityCorrect` | of `ObserveTicks`: `TickTypeOK`, `DeltasAddUp`, and the action property `TickContinuity` |
| `PipeTypeCorrect`, `IdsCorrect`, `AlertsCorrect`, `CoverageCorrect` | of `Pipeline`: `PipeTypeOK`, `IdsGoUp`, `AlertedOnce`, `CoverageComplete` |
| `ConfigTypeCorrect`, `ConfigKeptCorrect` | of `PlatformConfig` (`Console_proofs`): `ConfigTypeOK`, `ConfigKept`, from `NothingRevertedCorrect` and `EnvFollowsCorrect` |
| `PolicyTypeCorrect`, `NothingOverwrittenCorrect` | of `PolicyControl` (`Console_proofs`): `PolicyTypeOK`, `NothingOverwritten` |
| `WifiTypeCorrect`, `FallbacksInOrderCorrect` | of `WifiFailover` (`Console_proofs`): `WifiTypeOK`, `FallbacksInOrder` |

The type invariants and `IdsGoUp` are proved and not run.

*Arguments.*

* `TypeOK` of `IdsRuleSync` is strengthened by what is true of the `.tmp` files
  and of the locals at each label. The refinement needs `RegInv`: while an entry
  is on its way to disk, the status the thread has read is still the one on disk
  (one thread), the entry is either the recorded version or a good one that
  passed the version check, and only `ReplaceStatus` changes the register. The
  other two rest on `IInv`, one conjunct per label: where the rule file, the
  backup, the loaded rules and the locals are known at that point of
  `apply_artifact`. They are stated for `~MqttEnabled` because they are false with
  two threads, as `ids_downgrade` shows for the register; and until the first
  kill, as `ids_rollback` shows.
* `RunInv` of `VpnClient` says what `active` is in each state of the process and
  that a running process outside a decision is the wanted one.
* `Upload`: `SafeInv` adds to `TypeOK` and `Accounted` that all numbers in use are
  positions in the log, and where the main loop is: a batch is held only while
  uploading (so reading the log overwrites none), and an item marked as sent has
  arrived (so removing it, or a row with its ID, settles it). `OrderInv` adds, until
  the first kill, the order of everything that is held: dropped rows, then the
  buffer, then the batch (`InOrder`), whence `TrimsOldest`. `OnceInv` adds `HeldOnce` (no
  event is in two of the places it could be sent from, unless a torn offset has brought it
  back) and `Recorded` (an event that has arrived and is still to be sent is the one just
  confirmed, or one of `unrecorded` and `reread`), which is why a repeated arrival needs an
  arrival without a record.
* `ModeControl`: `SessionInv` adds what the mode file holds at each step of an
  apply until the first kill. After a kill the session may be another's. The assumption asks
  no more of the artifacts than that each has a mode the agent accepts.
* `ObserveTicks`: `DeltaInv` also bounds the counts of the tick just published, which
  the save will store; `ContinuityInv` relates the tick that was received, the one
  confirmed in memory and the one in the file, for each boot.
* `Pipeline`: in `IdInv` every ID in the log and in a thread's hands is below the
  counter, and below the number the thread is about to read (`Below`), so that
  what a thread appends rises (`Rising`), although the other increments the same
  counter between its two steps. `AlertInv` places every party of an alert-once set:
  it waits in one thread's hands, is in the log, or was silenced, in one place
  only (`Placed`, `WaitOnce`, `RaiseOnce`). `CoverInv` counts what has been recorded
  while a flush is writing.
* `PlatformConfig`: while no request loads what another is about to save
  (`~overlap`), at most one request is saving, the file is torn only under its
  write, and what it writes is what was last wanted (`SavingInv`); with `~together`
  the same for the settings in `capture.env` (`EnvInv`), and while no tenant is recorded for
  its tenant (`EnvTenantInv`).
* `PolicyControl`: `WriterInv` says what the file and the agent's payload hold while no
  writer has read the policy as another was about to write it: the agent is about to
  write what its artifact gives and, for the rest, what was written last, and a
  request about to replace the file is alone.
* `WifiFailover`: as long as nothing was disturbed, `Calm`. Either no pin request is at
  work, the pinned networks have the priorities 200, 199, ... and the others at most 100
  (`InBands`), and what a connect has still to do is about none of the pinned (`Spares`);
  or the calls a pin request has still to make are those that lack for the order it is
  to write (`PinsUnderWay`): every network without its priority is among them. The bands
  do not meet because at most 100 networks can be pinned (`WifiAssumption`; the code
  allows 10).
* `Sightings`: `FileInv` relates the alerts raised, the engine's file and the numbers the
  mapper has given; `PhaseInv` and `QueueInv` say what the reporter holds and that a
  flush comes to every sighting of the queue, whence `Accounted`. `SourceInv` is
  `NothingSkipped` for the part of the file that has been read but not saved. `OnceInv`
  adds, until the first kill, that an alert is in the events file once, that what is
  queued was submitted before, and that what is still to be sent has not arrived unless
  a post was reported as failed.
* `RuleUpdate`: `RunnerInv` follows an update that nothing has spoiled from the command
  to the report: what of a good outcome still holds is `RunsLast`; `HeardInv` keeps the reports of earlier runs apart.
* `Capture`: `Joined` ties the session and the handle to the place of the capture thread
  until the main thread has given up waiting for it; `Ordered` says that the main thread asks
  an open session for its statistics, unless its snapshot overlaps the moment in which the
  capture thread has freed the session and not yet forgotten it.
* `Identity`: `NotGolden` follows the image's ID from `.env` through first boot, `capture.env`
  and every container's environment; `InForce` is what a restart of the sensor relies on.
* `DeviceDrivers`: `ReadOrPending`: a file that a running driver has not read as it is lies
  with a request that is still going to restart that driver.
* `SensorJobs`: `LearnersKnown` (whatever is still learning was given up or is waited
  for), `HeldAsKept` (a document in hand has the operator's entries of the one on disk,
  unless documents crossed) and `WantedOrToDo` (a container is as wanted or among the
  steps of the one request at work).
* `HostNetwork`: `Known`: what a request that has met no change has learnt of the host is
  still so when it acts on it; `Deals`: it demotes a card only for another. From these
  each step that is not excused leaves a default route and the captured interface alone.
* `IocMatch`: `HeldIsListed`: the sensor holds what had not expired when it last loaded, and
  that is what the list as it is would give it (`Faithful`), if the entry has not changed since
  it last looked and could read; `AlertsKept` says that the times the cooldown is measured from are those of alerts
  raised.

*Only model-checked*: liveness (`CatchesUp`, `TunnelObeys`, `CaptureKept`,
`EventuallySettled`, `SensorFollows`, `PolicyFollows`, `OverridesShown`,
`SubscribersFollow`, `ListEnforced`, `StatusFollows`, `ConnectivityRestored`),
which needs fairness, out of the prover's reach; and of safety `LevelIsMostConfident`, which
compares the collector's level with a fold over the evidence: that takes induction
over data. The theorems about the parts of `EventPath`, `Northbound`, `Edge` and
`Appliance` are of the parts' own specifications, which are what these let move. The
properties of the six violated runs are false, so there is nothing to prove of them.

## 6. Plan

1. An abstract register with a delayed reader, and `ModeControl`, `PolicyControl` and
   `FeedCache` shown to implement it.
2. An abstract delivery (received at least once, in order of detection, or dropped
   for a named reason), and `Upload` and `Sightings` shown to implement it.
3. The topology deltas of detect mode; three tailers and a truncated log in `Upload`.

## 7. Not modelled

* The control plane, the brokers, NetworkManager, EdgeX, OpenVPN, Docker, the IDS
  engines, the kernel and Scapy are external: they do what the code in `src/` can
  observe of them.
* The AF_XDP rings, packet decoding and the feature windows: data, no control
  that these properties depend on.
* The content of the health report, the read-only pages of the console (drift, state,
  diagnostics), its sessions and audit log; the settings read once at start.
* The GOOSE publishers of the collector, the ring buffer of the evidence, conduits and
  external entities of the topology.
* `feed_signing`: a pure HMAC; a list whose signature is wrong is refused.
* Artifacts of a list that come without an ETag (`policy/sync.py:211` keeps the one of before);
  a topology file torn inside a multi-byte character, on which `read_state` raises.
* The lab's generators, the mock control plane, the scripts under `src/scripts`
  and the documentation.
