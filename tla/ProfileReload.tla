----------------------------- MODULE ProfileReload -----------------------------
(***************************************************************************)
(* How a baseline profile of the portal reaches the detectors.  One of the *)
(* agent's MQTT threads writes the profile and then its stamp              *)
(* (baseline_profile_sync.py), another the detection policy and its stamp  *)
(* (detection_policy_sync.py); the sensor's policy store holds the profile *)
(* store and reloads both (detection_policy_store.py), and the pipeline    *)
(* gives the detectors what the stores hold (processor.py).                *)
(*                                                                         *)
(* A profile is its version, and a policy too, none of them with a         *)
(* baseline or thresholds of its own; 0 is a file that is not there.       *)
(***************************************************************************)
EXTENDS Integers

CONSTANTS
  MaxProfiles,   \* bound: the profiles the portal publishes
  MaxPolicies    \* bound: the policies it publishes

VARIABLES
  profile,        \* the version in baseline-profile.json
  profileStamp,   \* baseline-profile.stamp
  profileUnstamped, \* the agent has written the profile and not its stamp
  policyText,     \* the version in detection-policy.json
  policyStamp,    \* detection-policy.stamp
  policyUnstamped,\* the agent has written the policy and not its stamp
  profileStore,   \* the profile store: the stamp and the version it has loaded
  policyStore,    \* the policy store: likewise
  detectors       \* the profile whose baseline the detectors use

written == <<profile, profileStamp, profileUnstamped, policyText, policyStamp, policyUnstamped>>
loaded  == <<profileStore, policyStore, detectors>>
profileVars == <<written, loaded>>

Versions(n) == 0 .. n
Store(n) == [stamp : Versions(n), version : Versions(n)]

ProfileTypeOK ==
  /\ {profile, profileStamp, detectors} \subseteq Versions(MaxProfiles)
  /\ {policyText, policyStamp} \subseteq Versions(MaxPolicies)
  /\ {profileUnstamped, policyUnstamped} \subseteq BOOLEAN
  /\ profileStore \in Store(MaxProfiles) /\ policyStore \in Store(MaxPolicies)

ProfileInit ==
  /\ profile = 0 /\ profileStamp = 0 /\ profileUnstamped = FALSE
  /\ policyText = 0 /\ policyStamp = 0 /\ policyUnstamped = FALSE
  /\ profileStore = [stamp |-> 0, version |-> 0]
  /\ policyStore = [stamp |-> 0, version |-> 0]
  /\ detectors = 0

-----------------------------------------------------------------------------
\* The agent's two threads: each handles one message after the other.

\* A profile of a new version; the version known already is not written again.
WriteProfile ==
  /\ ~profileUnstamped /\ profile < MaxProfiles
  /\ profile' = profile + 1
  /\ profileUnstamped' = TRUE
  /\ UNCHANGED <<profileStamp, policyText, policyStamp, policyUnstamped, loaded>>

StampProfile ==
  /\ profileUnstamped
  /\ profileStamp' = profile
  /\ profileUnstamped' = FALSE
  /\ UNCHANGED <<profile, policyText, policyStamp, policyUnstamped, loaded>>

WritePolicy ==
  /\ ~policyUnstamped /\ policyText < MaxPolicies
  /\ policyText' = policyText + 1
  /\ policyUnstamped' = TRUE
  /\ UNCHANGED <<profile, profileStamp, profileUnstamped, policyStamp, loaded>>

StampPolicyText ==
  /\ policyUnstamped
  /\ policyStamp' = policyText
  /\ policyUnstamped' = FALSE
  /\ UNCHANGED <<profile, profileStamp, profileUnstamped, policyText, loaded>>

-----------------------------------------------------------------------------
\* The sensor.

\* A store reloads if the stamp is another one, or it has nothing.
Stale(store, newStamp) == store.stamp # newStamp \/ store.version = 0

Loaded(store, newStamp, version) ==
  IF Stale(store, newStamp) THEN [stamp |-> newStamp, version |-> version] ELSE store

\* reload_detection_policy: the profile store is asked only when the policy store
\* reloads, and the detectors are told only when the policy has changed.
ReloadAll ==
  /\ Stale(policyStore, policyStamp)
  /\ policyStore' = [stamp |-> policyStamp, version |-> policyText]
  /\ profileStore' = Loaded(profileStore, profileStamp, profile)
  /\ detectors' = IF policyStore' # policyStore THEN profileStore'.version ELSE detectors
  /\ UNCHANGED written

-----------------------------------------------------------------------------
ProfileNext == WriteProfile \/ StampProfile \/ WritePolicy \/ StampPolicyText \/ ReloadAll

(***************************************************************************)
(* Fairness: the agent finishes a message it has begun, and the sensor     *)
(* looks at the stamps with every packet.                                  *)
(***************************************************************************)
ProfileSpec ==
  /\ ProfileInit /\ [][ProfileNext]_profileVars
  /\ WF_profileVars(StampProfile) /\ WF_profileVars(StampPolicyText)
  /\ WF_profileVars(ReloadAll)

\* "Hot-reload baseline profile artifact pushed by edge-agent via MQTT"
\* (baseline_profile_store.py): in the end the detectors use the profile that is
\* there.  Once a policy is loaded, they keep the profile of that moment until the
\* policy's own stamp changes.
ProfileHotReloads == <>[](detectors = profile)
=============================================================================
