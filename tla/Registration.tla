----------------------------- MODULE Registration -----------------------------
(***************************************************************************)
(* The agent's registration with the portal and the MQTT clients that      *)
(* depend on it: the northbound client and the background subscribers.     *)
(*                                                                         *)
(* The main loop registers, retries until it succeeds once, lands the      *)
(* tenant and the credentials of the answer in the live configuration and  *)
(* in a file, and starts the clients that are not there yet.  paho's       *)
(* threads connect them, again after every outage, and their on_connect    *)
(* callbacks subscribe to the topic of the tenant they read.               *)
(*                                                                         *)
(* The seven subscribers are classes of their own, written alike: start,   *)
(* ensure_connected, on_connect and on_disconnect of each are the actions  *)
(* below for that subscriber, and its Trait is all that sets it apart.     *)
(* What its on_message does is in the module of the artifact.  All clients *)
(* are enabled, with a broker and no feed_tenant_id configured.            *)
(***************************************************************************)
EXTENDS Naturals, SequencesExt

CONSTANTS
  SubscriberOrder, \* the subscribers in the order the main loop sees to them
  Granted,        \* the tenant the portal binds the sensor to
  OtherTenant,    \* one it was bound to before
  Unbound,        \* the tenant "default"
  Unresolved,     \* no tenant, or no topic
  Issued,         \* the credentials the portal issues, the ones the broker accepts
  Outdated,       \* credentials it does not accept
  NoCredentials,  \* an empty user name
  NoClient,       \* no MQTT client
  MaxOutages,     \* bound: outages of the broker
  MaxAgentKills   \* bound: kills of the agent

Subscribers == ToSet(SubscriberOrder)

\* What sets the classes of the subscribers apart: whether one knows the tenant of its
\* cache, falls back on the northbound credentials, and is told of a tenant change.  The
\* rest of a class is the actions for that subscriber, the same for all.
Trait(cached, fallback, refreshed) ==
  [cached |-> cached, fallback |-> fallback, refreshed |-> refreshed]

PolicyMqttSubscriber == Trait(TRUE, FALSE, TRUE)
OperationalModeMqttSubscriber == Trait(FALSE, TRUE, FALSE)
DetectionPolicyMqttSubscriber == Trait(FALSE, FALSE, FALSE)
BaselineProfileMqttSubscriber == Trait(FALSE, FALSE, FALSE)
TopologyOverrideMqttSubscriber == Trait(FALSE, FALSE, FALSE)
IdsRuleMqttSubscriber == Trait(FALSE, FALSE, FALSE)
ListfileMqttSubscriber == Trait(FALSE, FALSE, FALSE)

Traits ==
  [policy |-> PolicyMqttSubscriber, detection |-> DetectionPolicyMqttSubscriber,
   operational |-> OperationalModeMqttSubscriber, baseline |-> BaselineProfileMqttSubscriber,
   topology |-> TopologyOverrideMqttSubscriber, rules |-> IdsRuleMqttSubscriber,
   listfile |-> ListfileMqttSubscriber]

ASSUME RegistrationAssumption ==
  /\ IsInjective(SubscriberOrder) /\ Head(SubscriberOrder) = "policy"
  /\ Subscribers \subseteq DOMAIN Traits
  /\ {MaxOutages, MaxAgentKills} \subseteq Nat

PortalTenants == {Granted, OtherTenant, Unbound}
Credentials == {Issued, Outdated, NoCredentials}

VARIABLES
  boundTenant,    \* northbound_mqtt.tenant_id in the live configuration
  strict,         \* require_tenant
  cachedTenant,   \* the tenant of the blacklist's cache file
  northCreds,     \* northbound_mqtt.username and password
  feedCreds,      \* policy_sync.mqtt_username and mqtt_password
  savedCreds,     \* mqtt-credentials.json
  regDone,        \* RegistrationState.complete
  duty,           \* where the main loop is
  answer,         \* the credentials in the portal's answer
  northClient,    \* the credentials the northbound client was built with
  northUp,        \* its _connected
  subClient,      \* the credentials each subscriber's client was built with
  subUp,          \* its _connected
  subTopic,       \* the tenant in its _topic
  subscribed,     \* the tenants the broker has for its connection
  callback,       \* the tenant its on_connect has read, until it subscribes
  early,          \* history: it connected before the tenant was bound
  brokerUp, outages, agentKills

northSide == <<northClient, northUp>>
subSide == <<subClient, subUp, subTopic, subscribed, callback, early>>
brokerSide == <<brokerUp, outages>>
configSide == <<boundTenant, northCreds, feedCreds>>
fileSide == <<strict, cachedTenant, savedCreds>>
loopSide == <<regDone, duty, answer, agentKills>>
regVars == <<configSide, fileSide, loopSide, northSide, subSide, brokerSide>>

\* The order of the main loop: register, with what follows a success, then see to the
\* subscribers, then publish the state northbound.
Duties == {"register", "land", "start policy", "refresh", "resubscribe", "announce",
           "pull", "publish"} \union Subscribers

RegTypeOK ==
  /\ boundTenant \in PortalTenants /\ strict \in BOOLEAN
  /\ cachedTenant \in PortalTenants \union {Unresolved}
  /\ {northCreds, feedCreds, savedCreds, answer} \subseteq Credentials
  /\ regDone \in BOOLEAN /\ duty \in Duties
  /\ northClient \in Credentials \union {NoClient} /\ northUp \in BOOLEAN
  /\ subClient \in [Subscribers -> Credentials \union {NoClient}]
  /\ subUp \in [Subscribers -> BOOLEAN]
  /\ subTopic \in [Subscribers -> PortalTenants \union {Unresolved}]
  /\ subscribed \in [Subscribers -> SUBSET PortalTenants]
  /\ callback \in [Subscribers -> PortalTenants \union {Unresolved, "idle"}]
  /\ early \in [Subscribers -> BOOLEAN]
  /\ brokerUp \in BOOLEAN /\ outages \in 0 .. MaxOutages /\ agentKills \in 0 .. MaxAgentKills

-----------------------------------------------------------------------------
\* A new process: load_config puts the saved credentials over the configured ones.
AtBoot(configured, saved) == IF saved = NoCredentials THEN configured ELSE saved

\* An appliance that was never registered, with the tenant and the credentials somebody
\* has configured.
RegInit ==
  /\ savedCreds = NoCredentials /\ cachedTenant = Unresolved /\ strict \in BOOLEAN
  /\ boundTenant \in PortalTenants
  /\ \E north, feed \in {Outdated, NoCredentials} :
       northCreds = AtBoot(north, savedCreds) /\ feedCreds = AtBoot(feed, savedCreds)
  /\ regDone = FALSE /\ duty = "register" /\ answer = NoCredentials
  /\ northClient = NoClient /\ northUp = FALSE
  /\ subClient = [s \in Subscribers |-> NoClient] /\ subUp = [s \in Subscribers |-> FALSE]
  /\ subTopic = [s \in Subscribers |-> Unresolved] /\ subscribed = [s \in Subscribers |-> {}]
  /\ callback = [s \in Subscribers |-> "idle"] /\ early = [s \in Subscribers |-> FALSE]
  /\ brokerUp = TRUE /\ outages = 0 /\ agentKills = 0

\* resolve_feed_tenant_id and the _resolve_tenant_id of the others.
ResolveTenant(s) ==
  IF boundTenant # Unbound THEN boundTenant
  ELSE IF Traits[s].cached /\ cachedTenant \notin {Unresolved, Unbound} THEN cachedTenant
  ELSE IF strict THEN Unresolved ELSE boundTenant

\* _broker_config: what a client is given when it is built.
BrokerCredentials(s) ==
  IF Traits[s].fallback /\ feedCreds = NoCredentials THEN northCreds ELSE feedCreds

-----------------------------------------------------------------------------
\* The main loop.

\* attempt_registration is not due, or done, or the portal does not answer.
SkipRegistration ==
  /\ duty = "register" /\ duty' = "policy"
  /\ UNCHANGED <<regDone, answer, agentKills, configSide, fileSide, northSide, subSide, brokerSide>>

\* The portal answers, with credentials unless provisioning is disabled.
Register(issued) ==
  /\ duty = "register" /\ ~regDone
  /\ regDone' = TRUE /\ boundTenant' = Granted
  /\ answer' = issued /\ duty' = "land"
  /\ UNCHANGED <<northCreds, feedCreds, agentKills, fileSide, northSide, subSide, brokerSide>>

\* update_credentials: the client is given up when the credentials differ from those in
\* its configuration, which is the live one.
UpdateCredentials(given) ==
  IF given = northCreds' THEN UNCHANGED northSide
  ELSE northClient' = NoClient /\ northUp' = FALSE

\* _apply_mqtt_credentials: into the live configuration first; the file may not be written.
LandCredentials ==
  /\ duty = "land" /\ duty' = "start policy"
  /\ IF answer = NoCredentials THEN UNCHANGED <<northCreds, feedCreds, savedCreds, northSide>>
     ELSE /\ northCreds' = answer /\ feedCreds' = answer
          /\ UpdateCredentials(answer)
          /\ savedCreds' \in {answer, savedCreds}
  /\ UNCHANGED <<boundTenant, strict, cachedTenant, regDone, answer, agentKills, subSide, brokerSide>>

\* start: a client that is there stays as it is; one is built when the tenant is known and
\* the broker can be reached.
StartClient(s) ==
  IF subClient[s] = NoClient /\ ResolveTenant(s) # Unresolved /\ brokerUp
  THEN subClient' = [subClient EXCEPT ![s] = BrokerCredentials(s)]
  ELSE UNCHANGED subClient

\* The subscriber after s, or the pull of the blacklist after the last.
AfterDuty(s) ==
  LET i == CHOOSE i \in DOMAIN SubscriberOrder : SubscriberOrder[i] = s IN
  IF i < Len(SubscriberOrder) THEN SubscriberOrder[i + 1] ELSE "pull"

\* start at boot and ensure_connected in the loop, which does nothing more than start.
EnsureConnected(s) ==
  /\ duty = s /\ duty' = AfterDuty(s)
  /\ StartClient(s)
  /\ UNCHANGED <<subUp, subTopic, subscribed, callback, early, regDone, answer, agentKills,
                 configSide, fileSide, northSide, brokerSide>>

StartPolicy ==
  /\ duty = "start policy" /\ duty' = "refresh"
  /\ StartClient("policy")
  /\ UNCHANGED <<subUp, subTopic, subscribed, callback, early, regDone, answer, agentKills,
                 configSide, fileSide, northSide, brokerSide>>

\* refresh_subscription: nothing to do without a client or when the topic is the tenant's;
\* otherwise the old topic is given up, and in the next step the new one subscribed to.
RefreshSubscription ==
  /\ duty = "refresh"
  /\ IF subClient["policy"] = NoClient \/ ResolveTenant("policy") \in {Unresolved, subTopic["policy"]}
     THEN duty' = "announce" /\ UNCHANGED subscribed
     ELSE /\ duty' = "resubscribe"
          /\ subscribed' = [subscribed EXCEPT !["policy"] = @ \ {subTopic["policy"]}]
  /\ UNCHANGED <<subClient, subUp, subTopic, callback, early, regDone, answer, agentKills,
                 configSide, fileSide, northSide, brokerSide>>

\* A request to subscribe takes effect on a connection alone; _topic is set anyway.
Subscribe(s, tenant) ==
  /\ subscribed' = IF subUp[s] THEN [subscribed EXCEPT ![s] = @ \union {tenant}] ELSE subscribed
  /\ subTopic' = [subTopic EXCEPT ![s] = tenant]

Resubscribe ==
  /\ duty = "resubscribe" /\ duty' = "announce"
  /\ Subscribe("policy", ResolveTenant("policy"))
  /\ UNCHANGED <<subClient, subUp, callback, early, regDone, answer, agentKills,
                 configSide, fileSide, northSide, brokerSide>>

\* publish_state, at the end of a registration and of every pass: _ensure_client builds a
\* client when there is none.
PublishState ==
  /\ duty \in {"announce", "publish"}
  /\ duty' = IF duty = "announce" THEN "policy" ELSE "register"
  /\ northClient' = IF northClient = NoClient THEN northCreds ELSE northClient
  /\ UNCHANGED <<northUp, regDone, answer, agentKills, configSide, fileSide, subSide, brokerSide>>

\* pull_http_feed: a list for the tenant is cached, or there is none or no new one.
PullFeed ==
  /\ duty = "pull" /\ duty' = "publish"
  /\ cachedTenant' \in {cachedTenant, IF ResolveTenant("policy") = Unresolved THEN cachedTenant
                                       ELSE ResolveTenant("policy")}
  /\ UNCHANGED <<strict, savedCreds, regDone, answer, agentKills, configSide, northSide, subSide, brokerSide>>

-----------------------------------------------------------------------------
\* paho's threads and the broker.

\* The broker accepts a client of the issued credentials; it refuses the others, which
\* try again for ever.  on_connect reads the tenant, then subscribes.
Connect(s) ==
  /\ subClient[s] = Issued /\ brokerUp /\ ~subUp[s] /\ callback[s] = "idle"
  /\ subUp' = [subUp EXCEPT ![s] = TRUE]
  /\ callback' = [callback EXCEPT ![s] = ResolveTenant(s)]
  /\ early' = [early EXCEPT ![s] = (ResolveTenant(s) # Granted)]
  /\ UNCHANGED <<subClient, subTopic, subscribed, configSide, fileSide, loopSide, northSide, brokerSide>>

\* Mutant: a subscriber that has a topic does not subscribe again.
OnConnectSubscribes_Once(s) ==
  /\ callback[s] # "idle"
  /\ callback' = [callback EXCEPT ![s] = "idle"]
  /\ IF callback[s] = Unresolved \/ subTopic[s] # Unresolved
     THEN UNCHANGED <<subscribed, subTopic>> ELSE Subscribe(s, callback[s])
  /\ UNCHANGED <<subClient, subUp, early, configSide, fileSide, loopSide, northSide, brokerSide>>

OnConnectSubscribes(s) ==
  /\ callback[s] # "idle"
  /\ callback' = [callback EXCEPT ![s] = "idle"]
  /\ IF callback[s] = Unresolved THEN UNCHANGED <<subscribed, subTopic>> ELSE Subscribe(s, callback[s])
  /\ UNCHANGED <<subClient, subUp, early, configSide, fileSide, loopSide, northSide, brokerSide>>

\* A blacklist arrives on a topic and is cached for its tenant.
ListArrives(tenant) ==
  /\ tenant \in subscribed["policy"]
  /\ cachedTenant' = tenant
  /\ UNCHANGED <<strict, savedCreds, configSide, loopSide, northSide, subSide, brokerSide>>

NorthboundConnects ==
  /\ northClient = Issued /\ brokerUp /\ ~northUp
  /\ northUp' = TRUE
  /\ UNCHANGED <<northClient, configSide, fileSide, loopSide, subSide, brokerSide>>

\* Every connection is lost, with its subscriptions; the clients stay.
BrokerFails ==
  /\ brokerUp /\ outages < MaxOutages
  /\ brokerUp' = FALSE /\ outages' = outages + 1
  /\ northUp' = FALSE /\ subUp' = [s \in Subscribers |-> FALSE]
  /\ subscribed' = [s \in Subscribers |-> {}] /\ early' = [s \in Subscribers |-> FALSE]
  /\ UNCHANGED <<northClient, subClient, subTopic, callback, configSide, fileSide, loopSide>>

BrokerReturns ==
  /\ ~brokerUp /\ brokerUp' = TRUE
  /\ UNCHANGED <<outages, configSide, fileSide, loopSide, northSide, subSide>>

-----------------------------------------------------------------------------
\* The agent is killed and started again, with the configuration there is by then.
KillAgent ==
  /\ agentKills < MaxAgentKills /\ agentKills' = agentKills + 1
  /\ UNCHANGED <<fileSide, brokerSide>>
  /\ boundTenant' \in PortalTenants
  /\ \E north, feed \in {Outdated, NoCredentials} :
       northCreds' = AtBoot(north, savedCreds) /\ feedCreds' = AtBoot(feed, savedCreds)
  /\ regDone' = FALSE /\ duty' = "register" /\ answer' = NoCredentials
  /\ northClient' = NoClient /\ northUp' = FALSE
  /\ subClient' = [s \in Subscribers |-> NoClient] /\ subUp' = [s \in Subscribers |-> FALSE]
  /\ subTopic' = [s \in Subscribers |-> Unresolved] /\ subscribed' = [s \in Subscribers |-> {}]
  /\ callback' = [s \in Subscribers |-> "idle"] /\ early' = [s \in Subscribers |-> FALSE]

LoopStep ==
  \/ SkipRegistration \/ LandCredentials \/ StartPolicy \/ RefreshSubscription \/ Resubscribe
  \/ PublishState \/ PullFeed
  \/ \E issued \in {Issued, NoCredentials} : Register(issued)
  \/ \E s \in Subscribers : EnsureConnected(s)

RegNext ==
  \/ LoopStep \/ KillAgent \/ NorthboundConnects \/ BrokerFails \/ BrokerReturns
  \/ \E s \in Subscribers : Connect(s) \/ OnConnectSubscribes(s)
  \/ \E tenant \in PortalTenants : ListArrives(tenant)

RegSpec == RegInit /\ [][RegNext]_regVars

(***************************************************************************)
(* Fairness: the main loop goes on, paho's threads reconnect, and the      *)
(* broker comes back.  The portal need never answer.                       *)
(***************************************************************************)
RegFairSpec ==
  /\ RegSpec
  /\ WF_regVars(LoopStep) /\ WF_regVars(NorthboundConnects) /\ WF_regVars(BrokerReturns)
  /\ \A s \in Subscribers : WF_regVars(Connect(s)) /\ WF_regVars(OnConnectSubscribes(s))

-----------------------------------------------------------------------------
\* Once the sensor is registered, a subscriber whose client has the issued credentials ends
\* up subscribed to the tenant the portal bound: the one that is refreshed whatever its
\* callback read meanwhile, another unless its connection is from before the registration
\* (refresh_subscription, _on_connect).
SubscribersFollow ==
  <>[](\A s \in Subscribers : regDone /\ subClient[s] = Issued =>
         subUp[s] /\ (Granted \in subscribed[s] \/ (~Traits[s].refreshed /\ early[s])))

\* Credentials issued at a registration are taken over by the northbound client, which ends
\* up connected with them: "Apply Control-Plane-issued credentials, reconnecting if they
\* changed" (northbound/mqtt.py:56).
NorthboundReconnects == <>[](regDone /\ answer = Issued => northUp)
=============================================================================
