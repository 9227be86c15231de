--------------------------------- MODULE Edge ---------------------------------
(***************************************************************************)
(* The parts of the edge that go on beside one another: the observe ticks, *)
(* the detection policy, the console's configuration, the fallback         *)
(* networks, the registration, the lists of the feed and the topology.     *)
(*                                                                         *)
(* The modules share no variable, and each has the steps of all the        *)
(* processes that touch its own files.  A behaviour is one of a single     *)
(* part, chosen at the start: interleaving the steps of two parts would    *)
(* reach the same states of each.                                          *)
(***************************************************************************)
EXTENDS ObserveTicks, PolicyControl, PlatformConfig, WifiFailover,
        MCRegistration, FeedCache, TopologySync

CONSTANTS
  r1, b1, b2,    \* a list of rules and two baselines
  q1, q2,        \* two requests to the console
  ta, tb         \* assets of the topology

VARIABLE part    \* the part that moves

\* The portal gives the rules alone, in either version of the schema.
MCPolicyContents == {[rules |-> r1, base |-> NotGiven, v2 |-> v] : v \in BOOLEAN}

\* The operator sets two fields of one asset, one of them twice, and one of another.
MCOverrides ==
  LET O(a, l, t) == [asset |-> a, patch |-> [level |-> l, type |-> t]] IN
  {O(ta, "L2", NotSet), O(ta, "L3", NotSet), O(ta, NotSet, "hmi"), O(tb, "L3", NotSet)}

MCPatched == {"level", "type"}

MCObserved == [r \in {q1, q2} |-> IF r = q1 THEN b1 ELSE b2]

Parts == {"ticks", "policy", "config", "wifi", "registration", "feed", "topology"}

edgeVars ==
  <<part, tickVars, policyVars, configVars, wifiVars, regVars, feedVars, topoVars>>

\* The choices at the start matter in the behaviours of their part alone.
EdgeInit ==
  /\ part \in Parts
  /\ TickInit /\ PolicyInit /\ ConfigInit /\ WifiInit /\ RegInit /\ FeedInit
  /\ TopoInit
  /\ part # "wifi" => \A a \in APs : air[a] = "gone"
  /\ part # "registration" =>
       strict /\ boundTenant = Unbound /\ northCreds = NoCredentials /\ feedCreds = NoCredentials
  /\ part # "feed" => feed = "blacklist"
  /\ part # "topology" => topoMode = "learning"

TickPart ==
  part = "ticks" /\ UNCHANGED <<part, policyVars, configVars, wifiVars, regVars, feedVars, topoVars>>
PolicyPart ==
  part = "policy" /\ UNCHANGED <<part, tickVars, configVars, wifiVars, regVars, feedVars, topoVars>>
ConfigPart ==
  part = "config" /\ UNCHANGED <<part, tickVars, policyVars, wifiVars, regVars, feedVars, topoVars>>
WifiPart ==
  part = "wifi" /\ UNCHANGED <<part, tickVars, policyVars, configVars, regVars, feedVars, topoVars>>
RegPart ==
  part = "registration" /\ UNCHANGED <<part, tickVars, policyVars, configVars, wifiVars, feedVars, topoVars>>
FeedPart ==
  part = "feed" /\ UNCHANGED <<part, tickVars, policyVars, configVars, wifiVars, regVars, topoVars>>
TopoPart ==
  part = "topology" /\ UNCHANGED <<part, tickVars, policyVars, configVars, wifiVars, regVars, feedVars>>

EdgeNext ==
  \/ TickPart /\ TickNext
  \/ PolicyPart /\ PolicyNext
  \/ ConfigPart /\ ConfigNext
  \/ WifiPart /\ WifiNext
  \/ RegPart /\ RegNext
  \/ FeedPart /\ FeedNext
  \/ TopoPart /\ TopoNext

(***************************************************************************)
(* Fairness: that of the parts (PolicyFairSpec, WifiFairSpec,              *)
(* RegFairSpec, FeedFairSpec and TopoFairSpec), for the behaviours that    *)
(* are theirs.                                                             *)
(***************************************************************************)
EdgeSpec ==
  /\ EdgeInit /\ [][EdgeNext]_edgeVars
  /\ WF_policyVars(part = "policy" /\ AgentStep) /\ WF_policyVars(part = "policy" /\ SensorStep)
  /\ \A r \in Requests : WF_policyVars(part = "policy" /\ RequestStep(r))
  /\ WF_wifiVars(part = "wifi" /\ ScriptStep) /\ WF_wifiVars(part = "wifi" /\ ConsoleStep)
  /\ WF_regVars(part = "registration" /\ LoopStep)
  /\ WF_regVars(part = "registration" /\ BrokerReturns)
  /\ \A s \in Subscribers :
       /\ WF_regVars(part = "registration" /\ Connect(s))
       /\ WF_regVars(part = "registration" /\ OnConnectSubscribes(s))
  /\ WF_feedVars(part = "feed" /\ PullAnswered) /\ WF_feedVars(part = "feed" /\ MessageArrives)
  /\ WF_feedVars(part = "feed" /\ ExitAgent) /\ WF_feedVars(part = "feed" /\ SensorReloads)
  /\ \A t \in Pullers : WF_feedVars(part = "feed" /\ ApplyStep(t))
  /\ WF_topoVars(part = "topology" /\ OverridesWritten)
  /\ WF_topoVars(part = "topology" /\ ReadTopology)
  /\ WF_topoVars(part = "topology" /\ ReadOverrides)
  /\ WF_topoVars(part = "topology" /\ PublishSnapshot)
=============================================================================
