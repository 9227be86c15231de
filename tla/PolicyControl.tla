----------------------------- MODULE PolicyControl -----------------------------
(***************************************************************************)
(* The detection policy of an edge sensor and who writes it.  The agent's  *)
(* MQTT thread applies the portal's policies (detection_policy_sync.py);   *)
(* requests to the Edge Console approve a learned baseline, or return to   *)
(* an earlier one (baseline_service.py); the packet sensor reloads the     *)
(* file when its stamp changes (detection_policy_store.py).                *)
(*                                                                         *)
(* Rules and baselines are model values.  The console names versions and   *)
(* writes stamps by the second; the agent's stamps hold microseconds and   *)
(* are numbers.  The agent truncates the policy file and writes it in      *)
(* place, the console renames a new file over it.                          *)
(***************************************************************************)
EXTENDS Integers, Sequences

CONSTANTS
  Rulesets,      \* lists of enabled rules
  Baselines,     \* baselines: of the portal, or learned at the site
  NotGiven,      \* a part an artifact or a file does not have
  PolicyContents,      \* what the portal publishes: rules, base, and v2, the schema's version 2
  Requests,      \* the console's requests that approve or roll back, each made once
  Observed,      \* for each, the baseline learned or seen live when it is made
  MaxPublished,  \* bound: the policies the portal publishes
  PolicyDeliveries, \* bound: how often one is delivered
  MaxSeconds,    \* bound: the seconds that pass
  HistoryLength  \* how many versions baseline-state.json keeps: 20

ASSUME PolicyAssumption ==
  /\ NotGiven \notin Rulesets \union Baselines
  /\ PolicyContents \subseteq [rules : Rulesets \union {NotGiven}, base : Baselines \union {NotGiven},
                         v2 : BOOLEAN]
  /\ Observed \in [Requests -> Baselines]
  /\ {MaxPublished, PolicyDeliveries, MaxSeconds} \subseteq Nat
  /\ HistoryLength \in Nat \ {0}

VARIABLES
  portal,        \* the policy the portal has published last
  deliveries,    \* how many deliveries there were
  file,          \* detection-policy.json, NoPolicy if it is not there or empty
  stamp,         \* detection-policy.stamp
  agentAt,       \* the agent's thread is at: "idle", "truncate", "write", "stamp"
  accepted,      \* the artifact it applies, Unpublished when idle
  payload,       \* the policy it is about to write
  unlinked,      \* the file it has opened has been replaced by the console
  stamps,        \* how many stamps it has written
  now,           \* the second
  req,           \* each request: where it is, and what it has read or made
  history,       \* baseline-state.json: the versions, and which is active
  usedStamp,     \* _last_stamp of the sensor's policy store
  usedPolicy,    \* its _artifact
  usedRules,     \* its _rules_enabled
  readAt,        \* the stamp a reload has read, NoReload outside of one
  lastRules,     \* history: the rules written last, by intention
  lastBase,      \* history: the baseline written last, by intention
  clash          \* history: a writer read the policy while another was about to write

agentState  == <<portal, deliveries, agentAt, accepted, payload, unlinked, stamps>>
consoleVars == <<req, history>>
sensorVars  == <<usedStamp, usedPolicy, usedRules, readAt>>
intents     == <<lastRules, lastBase, clash>>
policyVars  == <<file, stamp, now, agentState, consoleVars, sensorVars,
                 intents>>

\* Versions: <<"p", n>> of the portal, <<"c", second>> of the console, <<>> none.
Versions == ({"p"} \X (1 .. MaxPublished)) \union ({"c"} \X (0 .. MaxSeconds)) \union {<<>>}

PolicyTexts == [version : Versions, rules : Rulesets \union {NotGiven},
             base : Baselines \union {NotGiven}]
NoPolicy == [version |-> <<>>, rules |-> NotGiven, base |-> NotGiven]

\* The portal's policies.
Artifacts == [version : 1 .. MaxPublished, content : PolicyContents]
Unpublished == [version |-> 0]

\* Stamps: <<"a", n>> of the agent, <<"c", second, version>> of the console.
NoReload == <<"none">>

NewRequest == [at |-> "new", base |-> NotGiven, policy |-> NoPolicy, version |-> <<>>,
               doc |-> <<>>]

PolicyTypeOK ==
  /\ {portal, accepted} \subseteq Artifacts \union {Unpublished}
  /\ deliveries \in 0 .. PolicyDeliveries /\ stamps \in Nat /\ now \in 0 .. MaxSeconds
  /\ {file, payload, usedPolicy} \subseteq PolicyTexts
  /\ agentAt \in {"idle", "truncate", "write", "stamp"}
  /\ DOMAIN req = Requests
  /\ \A r \in Requests :
       /\ req[r].at \in {"new", "read", "replace", "stamp", "history", "record", "done"}
       /\ req[r].policy \in PolicyTexts /\ req[r].version \in Versions
       /\ req[r].base \in Baselines \union {NotGiven}
  /\ Len(history) <= HistoryLength
  /\ usedRules \in Rulesets \union {NotGiven}
  /\ {unlinked, clash} \subseteq BOOLEAN

PolicyInit ==
  /\ portal = Unpublished /\ deliveries = 0
  /\ file = NoPolicy /\ stamp = <<>>
  /\ agentAt = "idle" /\ accepted = Unpublished /\ payload = NoPolicy /\ unlinked = FALSE /\ stamps = 0
  /\ now = 0 /\ req = [r \in Requests |-> NewRequest] /\ history = <<>>
  /\ usedStamp = <<>> /\ usedPolicy = NoPolicy /\ usedRules = NotGiven
  /\ readAt = NoReload
  /\ lastRules = NotGiven /\ lastBase = NotGiven /\ clash = FALSE

SecondPasses ==
  /\ now < MaxSeconds
  /\ now' = now + 1
  /\ UNCHANGED <<file, stamp, agentState, consoleVars, sensorVars, intents>>

Given(part, otherwise) == IF part # NotGiven THEN part ELSE otherwise

-----------------------------------------------------------------------------
\* The agent: apply_artifact of a policy.

\* The next version, retained by the broker.
PortalPublishes(content) ==
  /\ portal.version < MaxPublished
  /\ portal' = [version |-> portal.version + 1, content |-> content]
  /\ UNCHANGED <<deliveries, agentAt, accepted, payload, unlinked, stamps, file, stamp, now,
                 consoleVars, sensorVars, intents>>

\* Mutant: only what the artifact gives is written.
Merge_NoCarryOver(c) == [rules |-> c.rules, base |-> IF c.v2 THEN NotGiven ELSE c.base]

\* What is written: what the artifact does not give is taken from the file, but for
\* the baseline, which version 2 of the schema does not have.
Merge(c) ==
  [rules |-> Given(c.rules, file.rules),
   base |-> IF c.v2 THEN NotGiven ELSE Given(c.base, file.base)]

\* A delivery of the last policy, for the first time or again: the file is read,
\* and with its version the artifact's there is nothing to do.
Deliver ==
  /\ agentAt = "idle" /\ portal # Unpublished
  /\ deliveries < PolicyDeliveries
  /\ deliveries' = deliveries + 1
  /\ IF file.version = <<"p", portal.version>> THEN UNCHANGED <<agentAt, accepted, payload, clash>>
     ELSE /\ accepted' = portal
          /\ payload' = [version |-> <<"p", portal.version>>, rules |-> Merge(portal.content).rules,
                         base |-> Merge(portal.content).base]
          /\ agentAt' = "truncate"
          /\ clash' = (clash \/ \E r \in Requests : req[r].at = "replace")
  /\ UNCHANGED <<portal, unlinked, stamps, file, stamp, now, consoleVars, sensorVars,
                 lastRules, lastBase>>

TruncateFile ==
  /\ agentAt = "truncate"
  /\ file' = NoPolicy
  /\ agentAt' = "write"
  /\ unlinked' = FALSE
  /\ UNCHANGED <<portal, deliveries, accepted, payload, stamps, stamp, now, consoleVars,
                 sensorVars, intents>>

\* If the console has renamed its file over the one opened, the text is lost.
WriteFile ==
  /\ agentAt = "write"
  /\ file' = IF unlinked THEN file ELSE payload
  /\ lastRules' = Given(accepted.content.rules, lastRules)
  /\ lastBase' = IF accepted.content.v2 THEN NotGiven ELSE Given(accepted.content.base, lastBase)
  /\ agentAt' = "stamp"
  /\ accepted' = Unpublished /\ payload' = NoPolicy /\ unlinked' = FALSE
  /\ UNCHANGED <<portal, deliveries, stamps, stamp, now, consoleVars,
                 sensorVars, clash>>

StampFile ==
  /\ agentAt = "stamp"
  /\ stamps' = stamps + 1
  /\ stamp' = <<"a", stamps'>>
  /\ agentAt' = "idle"
  /\ UNCHANGED <<portal, deliveries, accepted, payload, unlinked, file, now, consoleVars,
                 sensorVars, intents>>

-----------------------------------------------------------------------------
\* The console: approve_candidate, approve_drift, rollback; _apply_iec61850 and
\* _record_history, in a thread per request.

Begin(r, base) ==
  /\ req[r].at = "new"
  /\ req' = [req EXCEPT ![r].at = "read", ![r].base = base]
  /\ UNCHANGED <<history, file, stamp, now, agentState, sensorVars, intents>>

\* The candidate, or the live observation, is approved.
Approve(r) == Begin(r, Observed[r])

\* The snapshot of an earlier version is looked up and applied.
Rollback(r, i) == Begin(r, history[i].base)

ReadPolicy(r) ==
  /\ req[r].at = "read"
  /\ req' = [req EXCEPT ![r].at = "replace", ![r].policy = file]
  /\ clash' = (clash \/ agentAt \in {"truncate", "write"}
                     \/ \E q \in Requests \ {r} : req[q].at = "replace")
  /\ UNCHANGED <<history, file, stamp, now, agentState, sensorVars, lastRules, lastBase>>

\* The baseline is put into the policy read, under a version of this second.
ReplacePolicy(r) ==
  /\ req[r].at = "replace"
  /\ req' = [req EXCEPT ![r].at = "stamp", ![r].version = <<"c", now>>,
                         ![r].policy = NoPolicy]
  /\ file' = [req[r].policy EXCEPT !.base = req[r].base, !.version = <<"c", now>>]
  /\ unlinked' = (unlinked \/ agentAt = "write")
  /\ lastBase' = req[r].base
  /\ UNCHANGED <<history, stamp, now, portal, deliveries, agentAt, accepted, payload,
                 stamps, sensorVars, lastRules, clash>>

\* Mutant: the console leaves the stamp to the agent.
StampPolicy_LeftAlone(r) ==
  /\ req[r].at = "stamp"
  /\ req' = [req EXCEPT ![r].at = "history"]
  /\ UNCHANGED <<stamp, history, file, now, agentState, sensorVars, intents>>

StampPolicy(r) ==
  /\ req[r].at = "stamp"
  /\ req' = [req EXCEPT ![r].at = "history"]
  /\ stamp' = <<"c", now, req[r].version>>
  /\ UNCHANGED <<history, file, now, agentState, sensorVars, intents>>

ReadHistory(r) ==
  /\ req[r].at = "history"
  /\ req' = [req EXCEPT ![r].at = "record", ![r].doc = history]
  /\ UNCHANGED <<history, file, stamp, now, agentState, sensorVars, intents>>

\* The new version comes first and is the active one; the oldest goes.
Recorded(r) ==
  LET versions == <<[version |-> req[r].version, base |-> req[r].base]>> \o req[r].doc IN
  SubSeq(versions, 1, IF Len(versions) < HistoryLength THEN Len(versions) ELSE HistoryLength)

WriteHistory(r) ==
  /\ req[r].at = "record"
  /\ req' = [req EXCEPT ![r] = [NewRequest EXCEPT !.at = "done", !.version = req[r].version]]
  /\ history' = Recorded(r)
  /\ UNCHANGED <<file, stamp, now, agentState, sensorVars, intents>>

-----------------------------------------------------------------------------
\* The sensor: maybe_reload.

\* The stamp is not the one known, or there is no policy yet.
LooksNew == stamp # usedStamp \/ usedPolicy = NoPolicy

ReadPolicyStamp ==
  /\ readAt = NoReload
  /\ LooksNew
  /\ readAt' = stamp
  /\ UNCHANGED <<usedStamp, usedPolicy, usedRules, file, stamp, now, agentState,
                 consoleVars, intents>>

\* The rules stay if the file has none, as when it is just being written.
ReloadPolicy ==
  /\ readAt # NoReload
  /\ usedStamp' = readAt
  /\ usedPolicy' = file
  /\ usedRules' = Given(file.rules, usedRules)
  /\ readAt' = NoReload
  /\ UNCHANGED <<file, stamp, now, agentState, consoleVars, intents>>

-----------------------------------------------------------------------------
AgentStep == TruncateFile \/ WriteFile \/ StampFile

RequestStep(r) ==
  ReadPolicy(r) \/ ReplacePolicy(r) \/ StampPolicy(r) \/ ReadHistory(r) \/ WriteHistory(r)

SensorStep == ReadPolicyStamp \/ ReloadPolicy

PolicyNext ==
  \/ SecondPasses \/ (\E c \in PolicyContents : PortalPublishes(c)) \/ Deliver
  \/ AgentStep
  \/ \E r \in Requests :
       \/ Approve(r)
       \/ \E i \in 1 .. Len(history) : Rollback(r, i)
       \/ RequestStep(r)
  \/ SensorStep

PolicySpec == PolicyInit /\ [][PolicyNext]_policyVars

(***************************************************************************)
(* Fairness: a thread goes on with what it has begun, and the sensor looks *)
(* at the stamp again every few seconds.                                   *)
(***************************************************************************)
PolicyFairSpec ==
  /\ PolicySpec
  /\ WF_policyVars(AgentStep)
  /\ \A r \in Requests : WF_policyVars(RequestStep(r))
  /\ WF_policyVars(SensorStep)

-----------------------------------------------------------------------------
AtRest == agentAt = "idle" /\ \A r \in Requests : req[r].at \in {"new", "done"}

\* Two requests gave their policy the same version and stamp.
SameSecond ==
  \E r, q \in Requests : r # q /\ req[r].version = req[q].version /\ req[r].version # <<>>

\* In the end the sensor uses the policy in the file, whoever wrote it and
\* whatever a reload reads half written; two approvals in one second may leave it
\* on the first (DetectionPolicyStore.maybe_reload).
PolicyFollows == <>[](usedPolicy = file \/ SameSecond)

\* The portal's rules and the approved baseline survive each other: at rest, the
\* file holds the last of both, unless one writer read it while another was about
\* to write.  The baseline is the one approved last, or, after it, given by an artifact;
\* one of version 2 of the schema leaves none (apply_artifact, _apply_iec61850).
NothingOverwritten == AtRest /\ ~clash => file.rules = lastRules /\ file.base = lastBase
=============================================================================
