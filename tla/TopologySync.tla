----------------------------- MODULE TopologySync -----------------------------
(***************************************************************************)
(* The topology on its way to the portal.  In learning mode the agent      *)
(* publishes what the sensor has learnt, with the overrides an operator    *)
(* has made at the portal (northbound/topology_snapshot_publisher.py); the *)
(* overrides come over MQTT, one asset at a time, and are kept in one file *)
(* (policy/topology_override_sync.py, topology_override_merge.py).         *)
(*                                                                         *)
(* Two threads of the agent: the main loop publishes, the MQTT thread      *)
(* applies the overrides.  The file is truncated and then written, in      *)
(* place; one that is not whole reads as one without overrides.  The       *)
(* interval between publications is a free choice.  The counts of detect   *)
(* mode are left out: they say nothing of the overrides (ObserveTicks has  *)
(* them).  So is the file's stamp, which has no reader.                    *)
(***************************************************************************)
EXTENDS Naturals

CONSTANTS
  TopoAssets,       \* assets
  Patched,          \* fields an operator may override
  Overrides,        \* what the portal sends: an asset and the fields it sets
  NotSet,           \* a field that is not overridden
  NotShown,         \* an asset the portal does not show
  MaxOverrides,     \* bound: overrides delivered
  MaxTopoChanges,   \* bound: changes of the mode or of the assets seen
  MaxTopoKills,     \* bound: kills of the agent
  MaxUnconfirmed    \* bound: publications not confirmed

NoPatch == [f \in Patched |-> NotSet]
NoOverrides == [a \in TopoAssets |-> NoPatch]

ASSUME TopoAssumption ==
  /\ {MaxOverrides, MaxTopoChanges, MaxTopoKills, MaxUnconfirmed} \subseteq Nat
  /\ \A o \in Overrides : o.asset \in TopoAssets /\ DOMAIN o.patch = Patched /\ o.patch # NoPatch

Texts == {o.patch[f] : o \in Overrides, f \in Patched} \union {NotSet}
Patches == [Patched -> Texts]
TopoModes == {"learning", "detect"}

VARIABLES
  topoMode,      \* the mode in the agent's file
  seen,          \* the assets in live-observed.json
  overrides,     \* what topology-asset-overrides.json is to hold
  storeFile,     \* whether it does: it is whole, being written, or left half-written
  publishing,    \* the main loop: where it is and what it has read
  shown,         \* the assets at the portal, with their overrides
  overridesSent, topoChanges, topoKills, refusals,
  ordered,       \* history: for each field, the value of the last override that sets it
  tornOnce       \* history: the agent was killed while it wrote the file

overrideVars == <<overrides, storeFile, overridesSent, ordered>>
publishVars == <<publishing, shown, refusals>>
worldVars == <<topoMode, seen, topoChanges>>
topoVars == <<worldVars, overrideVars, publishVars, topoKills, tornOnce>>

NotPublishing == [at |-> "idle", assets |-> {}, patches |-> NoOverrides]

TopoTypeOK ==
  /\ topoMode \in TopoModes /\ seen \subseteq TopoAssets
  /\ overrides \in [TopoAssets -> Patches] /\ ordered \in [TopoAssets -> Patches]
  /\ storeFile \in {"whole", "writing", "torn"} /\ tornOnce \in BOOLEAN
  /\ publishing \in [at : {"idle", "overrides", "send"},
                     assets : SUBSET TopoAssets, patches : [TopoAssets -> Patches]]
  /\ shown \in [TopoAssets -> Patches \union {NotShown}]
  /\ overridesSent \in 0 .. MaxOverrides /\ topoChanges \in 0 .. MaxTopoChanges
  /\ topoKills \in 0 .. MaxTopoKills /\ refusals \in 0 .. MaxUnconfirmed

TopoInit ==
  /\ topoMode \in TopoModes /\ seen = {} /\ topoChanges = 0
  /\ overrides = NoOverrides /\ storeFile = "whole" /\ overridesSent = 0 /\ ordered = NoOverrides
  /\ publishing = NotPublishing /\ shown = [a \in TopoAssets |-> NotShown]
  /\ topoKills = 0 /\ refusals = 0 /\ tornOnce = FALSE

\* The sensor writes another snapshot, or the portal sets another mode.
TopologyChanges ==
  /\ topoChanges < MaxTopoChanges /\ topoChanges' = topoChanges + 1
  /\ \/ seen' \in SUBSET TopoAssets \ {seen} /\ UNCHANGED topoMode
     \/ topoMode' \in TopoModes \ {topoMode} /\ UNCHANGED seen
  /\ UNCHANGED <<overrideVars, publishVars, topoKills, tornOnce>>

-----------------------------------------------------------------------------
(* The MQTT thread. *)

\* read_state
StoreRead == IF storeFile = "whole" THEN overrides ELSE NoOverrides

\* Mutant: the new patch takes the place of the fields set before.
Merged_Replaces(store, o) == [store EXCEPT ![o.asset] = o.patch]

\* An override adds its fields to those set before.
Merged(store, o) ==
  [store EXCEPT ![o.asset] = [f \in Patched |-> IF o.patch[f] # NotSet THEN o.patch[f] ELSE @[f]]]

\* apply_artifact: the file is truncated, or left alone when it holds this very entry (the
\* same override, delivered again).
ApplyOverride(o) ==
  /\ storeFile # "writing"
  /\ overridesSent < MaxOverrides /\ overridesSent' = overridesSent + 1
  /\ overrides' = Merged(StoreRead, o)
  /\ ordered' = [a \in TopoAssets |-> [f \in Patched |->
                  IF a = o.asset /\ o.patch[f] # NotSet THEN o.patch[f] ELSE ordered[a][f]]]
  /\ \/ storeFile' = "writing"
     \/ storeFile = "whole" /\ overrides' = overrides /\ UNCHANGED storeFile
  /\ UNCHANGED <<worldVars, publishVars, topoKills, tornOnce>>

\* write_text is over.
OverridesWritten ==
  /\ storeFile = "writing" /\ storeFile' = "whole"
  /\ UNCHANGED <<worldVars, overrides, overridesSent, ordered, publishVars, topoKills, tornOnce>>

-----------------------------------------------------------------------------
(* The main loop. *)

\* _publish_learning_snapshot: the topology is read, and then the overrides.
ReadTopology ==
  /\ publishing.at = "idle" /\ topoMode = "learning" /\ seen # {}
  /\ publishing' = [publishing EXCEPT !.at = "overrides", !.assets = seen]
  /\ UNCHANGED <<worldVars, overrideVars, shown, refusals, topoKills, tornOnce>>

ReadOverrides ==
  /\ publishing.at = "overrides"
  /\ publishing' = [publishing EXCEPT !.at = "send", !.patches = StoreRead]
  /\ UNCHANGED <<worldVars, overrideVars, shown, refusals, topoKills, tornOnce>>

\* _apply_manual_overrides_to_topology: those of the assets there are.
Overridden(assets, patches) ==
  [a \in TopoAssets |-> IF a \in assets THEN patches[a] ELSE NotShown]

ToPublish == Overridden(publishing.assets, publishing.patches)

PublishSnapshot ==
  /\ publishing.at = "send" /\ publishing' = NotPublishing
  /\ shown' = ToPublish
  /\ UNCHANGED <<worldVars, overrideVars, refusals, topoKills, tornOnce>>

\* Not confirmed in time: it may have arrived.
PublishFails ==
  /\ refusals < MaxUnconfirmed /\ refusals' = refusals + 1
  /\ publishing.at = "send" /\ publishing' = NotPublishing
  /\ shown' \in {shown, ToPublish}
  /\ UNCHANGED <<worldVars, overrideVars, topoKills, tornOnce>>

KillTopology ==
  /\ topoKills < MaxTopoKills /\ topoKills' = topoKills + 1
  /\ publishing' = NotPublishing
  /\ storeFile' = IF storeFile = "writing" THEN "torn" ELSE storeFile
  /\ tornOnce' = (tornOnce \/ storeFile = "writing")
  /\ UNCHANGED <<worldVars, overrides, overridesSent, ordered, shown, refusals>>

TopoNext ==
  \/ TopologyChanges \/ OverridesWritten
  \/ \E o \in Overrides : ApplyOverride(o)
  \/ ReadTopology \/ ReadOverrides \/ PublishSnapshot \/ PublishFails \/ KillTopology

TopoSpec == TopoInit /\ [][TopoNext]_topoVars

(***************************************************************************)
(* Fairness: both threads go on, the loop comes back to the publication    *)
(* (topology_snapshot_interval_sec), and the broker does not refuse for    *)
(* ever.  Nothing is assumed of the portal.                                *)
(***************************************************************************)
TopoFairSpec ==
  /\ TopoSpec
  /\ WF_topoVars(OverridesWritten)
  /\ WF_topoVars(ReadTopology) /\ WF_topoVars(ReadOverrides)
  /\ WF_topoVars(PublishSnapshot)

-----------------------------------------------------------------------------
\* While the agent learns, the portal ends up with the assets seen and every field an operator
\* has overridden, whatever was read half-written, unconfirmed or published late; only an
\* agent killed while it wrote the file loses overrides (apply_artifact,
\* _publish_learning_snapshot, build_manual_override_list).
OverridesShown ==
  <>[](topoMode = "learning" /\ seen # {} /\ ~tornOnce => shown = Overridden(seen, ordered))
=============================================================================
