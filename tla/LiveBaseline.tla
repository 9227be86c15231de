----------------------------- MODULE LiveBaseline -----------------------------
(***************************************************************************)
(* What the sensor learns of the network and how it reads roles from it:   *)
(* baseline/collector.py, topology/purdue_classifier.py and the snapshot   *)
(* that main.py writes once a window (baseline/snapshot.py).               *)
(*                                                                         *)
(* The capture thread feeds the collector while the sensor is in learning  *)
(* mode; the main thread reads it table by table, without a lock.  An      *)
(* identity not seen within the window is left out of the snapshot, but    *)
(* for a Modbus server's clients and for the hints of the ports, which     *)
(* are kept for good.                                                      *)
(*                                                                         *)
(* A time stamp is whether it is within the window.  Confidences are in    *)
(* hundredths.  Units, function codes, MAC addresses, GOOSE publishers,    *)
(* conduits and the names of protocols are left out: no role rests on      *)
(* them.  The sensor has a tenant and an ID, without which no topology is  *)
(* built.                                                                  *)
(***************************************************************************)
EXTENDS Integers, SequencesExt, FiniteSetsExt

CONSTANTS
  HostOrder,   \* the addresses, in the order they are sorted in
  Internet,    \* those that are not private (_is_rfc1918)
  Frames,      \* the frames seen: client, server, protocol, and whether it is a reply
  NoLevel,     \* the Purdue level of an asset nothing is known of
  MaxFrames,   \* bound: frames learnt from
  MaxSnapshots \* bound: snapshots tried

Hosts == Range(HostOrder)
ItPorts == {"smb", "ldap", "dns"}

ASSUME BaseAssumption ==
  /\ HostOrder \in Seq(Hosts) /\ Internet \subseteq Hosts
  /\ Frames \subseteq [client : Hosts, server : Hosts, reply : BOOLEAN,
                       proto : {"ip", "modbus", "mms"} \union ItPorts]
  /\ {MaxFrames, MaxSnapshots} \subseteq Nat

VARIABLES
  roles,          \* the tables read first: Modbus servers, their clients, IEDs and pairs
  hints,          \* _ip_hints with its keys in the order they came in
  itClients,      \* _ldap_clients and _dns_clients within the window
  taken,          \* to_candidate under way: the roles it has read
  liveTopology,   \* observed.topology of live-observed.json
  framesSeen, snapshots

learnt == <<roles, hints, itClients>>
baseVars == <<learnt, taken, liveTopology, framesSeen, snapshots>>

NoRoles ==
  [servers |-> {}, clients |-> [h \in Hosts |-> {}], ieds |-> {}, pairs |-> {}]
Reading(r) == [reading |-> TRUE, roles |-> r]
NotReading == [reading |-> FALSE, roles |-> NoRoles]

Levels == {"L1", "L2", "L4", NoLevel}
Types == {"plc", "hmi", "ied", "ad_server", "dns_server", "unknown"}
Rows == [type : Types, level : Levels, confidence : 0 .. 100]

RolesTypeOK(r) ==
  /\ r.servers \subseteq Hosts /\ r.ieds \subseteq Hosts
  /\ r.clients \in [Hosts -> SUBSET Hosts] /\ r.pairs \subseteq Hosts \X Hosts

BaseTypeOK ==
  /\ framesSeen \in 0 .. MaxFrames /\ snapshots \in 0 .. MaxSnapshots
  /\ RolesTypeOK(roles) /\ taken.reading \in BOOLEAN /\ RolesTypeOK(taken.roles)
  /\ \A i \in DOMAIN hints : hints[i].host \in Hosts /\ hints[i].hints \subseteq ItPorts
  /\ itClients \in [{"ldap", "dns"} -> [Hosts -> SUBSET Hosts]]
  /\ DOMAIN liveTopology \subseteq Hosts /\ Range(liveTopology) \subseteq Rows

BaseInit ==
  /\ roles = NoRoles /\ hints = <<>>
  /\ itClients = [p \in {"ldap", "dns"} |-> [h \in Hosts |-> {}]]
  /\ taken = NotReading
  /\ liveTopology = <<>>
  /\ framesSeen = 0 /\ snapshots = 0

-----------------------------------------------------------------------------
(* The collector. *)

\* feed_endpoints, feed_modbus and feed_mms: the pair, and who serves whom.
RolesWith(f) ==
  LET pair == IF f.reply THEN <<f.server, f.client>> ELSE <<f.client, f.server>> IN
  [roles EXCEPT
     !.pairs = @ \union {pair},
     !.servers = @ \union (IF f.proto = "modbus" THEN {f.server} ELSE {}),
     !.clients[f.server] = @ \union (IF f.proto = "modbus" THEN {f.client} ELSE {}),
     !.ieds = @ \union (IF f.proto = "mms" THEN {f.server} ELSE {})]

\* setdefault(host, set()).add(hint)
Hinted(hs, host, hint) ==
  IF \E i \in DOMAIN hs : hs[i].host = host
  THEN [i \in DOMAIN hs |->
          IF hs[i].host = host THEN [hs[i] EXCEPT !.hints = @ \union {hint}] ELSE hs[i]]
  ELSE Append(hs, [host |-> host, hints |-> {hint}])

\* feed_transport: the port of the destination tells, so a reply gives no hint.
Hints(f) ==
  IF f.proto \in ItPorts /\ ~f.reply
  THEN Hinted(Hinted(hints, f.server, f.proto), f.client, f.proto)
  ELSE hints

\* process: a frame that comes in learning mode (baseline_accumulation_enabled); others
\* leave the collector as it is.
LearnFrame(f) ==
  /\ framesSeen < MaxFrames /\ framesSeen' = framesSeen + 1
  /\ roles' = RolesWith(f) /\ hints' = Hints(f)
  /\ itClients' = IF f.proto \in {"ldap", "dns"} /\ ~f.reply
                  THEN [itClients EXCEPT ![f.proto][f.server] = @ \union {f.client}]
                  ELSE itClients
  /\ UNCHANGED <<taken, liveTopology, snapshots>>

\* What has not been seen within the window: a pair, a server, an IED, or a client of a
\* directory or name server.
AgesOut ==
  /\ \/ /\ \/ \E p \in roles.pairs : roles' = [roles EXCEPT !.pairs = @ \ {p}]
           \/ \E h \in roles.servers : roles' = [roles EXCEPT !.servers = @ \ {h}]
           \/ \E h \in roles.ieds : roles' = [roles EXCEPT !.ieds = @ \ {h}]
        /\ UNCHANGED itClients
     \/ /\ \E p \in {"ldap", "dns"}, h \in Hosts : \E c \in itClients[p][h] :
             itClients' = [itClients EXCEPT ![p][h] = @ \ {c}]
        /\ UNCHANGED roles
  /\ UNCHANGED <<hints, taken, liveTopology, framesSeen, snapshots>>

-----------------------------------------------------------------------------
(* The classifier. *)

\* Mutant: the confidence of the row is that of the last touch.
TouchAsset_LastConfidence(rows, t) ==
  LET claim == [type |-> t.type, level |-> t.level, confidence |-> t.confidence] IN
  IF t.host \notin DOMAIN rows THEN rows @@ (t.host :> claim)
  ELSE [rows EXCEPT ![t.host] =
          [type |-> IF claim.type = "unknown" THEN @.type ELSE claim.type,
           level |-> IF claim.level # NoLevel
                        /\ (@.level = NoLevel \/ claim.confidence > @.confidence)
                     THEN claim.level ELSE @.level,
           confidence |-> claim.confidence]]

\* _touch_asset: the first touch makes the row; a later one changes the level if it is more
\* confident, and the type whenever it has one.
TouchAsset(rows, t) ==
  LET claim == [type |-> t.type, level |-> t.level, confidence |-> t.confidence] IN
  IF t.host \notin DOMAIN rows THEN rows @@ (t.host :> claim)
  ELSE [rows EXCEPT ![t.host] =
          [type |-> IF claim.type = "unknown" THEN @.type ELSE claim.type,
           level |-> IF claim.level # NoLevel
                        /\ (@.level = NoLevel \/ claim.confidence > @.confidence)
                     THEN claim.level ELSE @.level,
           confidence |-> Max({@.confidence, claim.confidence})]]

Claim(host, type, level, confidence) ==
  [host |-> host, type |-> type, level |-> level, confidence |-> confidence]

InOrder(S) == SelectSeq(HostOrder, LAMBDA h : h \in S)

\* smb stands for all the ports of Windows, msrpc and netbios among them.
Windows(hs, host) == \E i \in DOMAIN hs : hs[i].host = host /\ "smb" \in hs[i].hints

\* The clients of a Modbus server.
ModbusClient(hs, host) == Claim(host, "hmi", "L2", IF Windows(hs, host) THEN 78 ELSE 75)

ModbusTouches(r, hs) ==
  FlattenSeq([i \in DOMAIN HostOrder |->
    IF HostOrder[i] \notin r.servers THEN <<>>
    ELSE LET clients == InOrder(r.clients[HostOrder[i]]) IN
         <<Claim(HostOrder[i], "plc", "L1", 85)>>
           \o [j \in DOMAIN clients |-> ModbusClient(hs, clients[j])]])

IedTouches(r) ==
  LET ieds == InOrder(r.ieds) IN [i \in DOMAIN ieds |-> Claim(ieds[i], "ied", "L1", 80)]

\* LDAP_SERVER_MIN_CLIENTS and DNS_SERVER_MIN_CLIENTS.
Directory(it, host) == Cardinality(it["ldap"][host]) >= 2
NameServer(it, host) == ~Directory(it, host) /\ it["dns"][host] # {}

ServerTouches(host, type, clients) ==
  LET cs == InOrder(clients) IN
  <<Claim(host, type, "L4", 75)>> \o [j \in DOMAIN cs |-> Claim(cs[j], "hmi", "L2", 70)]

HintTouches(hs, it) ==
  FlattenSeq([i \in DOMAIN hs |->
    LET h == hs[i].host IN
    IF Directory(it, h) THEN ServerTouches(h, "ad_server", it["ldap"][h])
    ELSE IF NameServer(it, h) THEN ServerTouches(h, "dns_server", it["dns"][h])
    ELSE IF Windows(hs, h) THEN <<Claim(h, "hmi", "L2", 78)>>
    ELSE <<>>])

\* Both ends of a pair; an address of the Internet is an external entity, not an asset.
PairTouches(r) ==
  LET hosts == InOrder({p[1] : p \in r.pairs} \union ({p[2] : p \in r.pairs} \ Internet)) IN
  [i \in DOMAIN hosts |-> Claim(hosts[i], "unknown", NoLevel, 40)]

\* build_observed_topology
ObservedTopology(r, hs, it) ==
  FoldLeft(TouchAsset, <<>>,
    ModbusTouches(r, hs) \o IedTouches(r) \o HintTouches(hs, it) \o PairTouches(r))

-----------------------------------------------------------------------------
(* The snapshot. *)

\* to_candidate reads the servers, the IEDs and the pairs ...
TakeRoles ==
  /\ ~taken.reading /\ snapshots < MaxSnapshots /\ snapshots' = snapshots + 1
  /\ taken' = Reading(roles)
  /\ UNCHANGED <<learnt, liveTopology, framesSeen>>

\* ... and then the hints; the file is replaced.
WriteLiveObserved ==
  /\ taken.reading
  /\ liveTopology' = ObservedTopology(taken.roles, hints, itClients)
  /\ taken' = NotReading
  /\ UNCHANGED <<learnt, framesSeen, snapshots>>

\* A frame has added a key to a table while it was read: RuntimeError, and the old file stays.
SnapshotFails ==
  /\ taken.reading /\ taken' = NotReading
  /\ UNCHANGED <<learnt, liveTopology, framesSeen, snapshots>>

BaseNext ==
  \/ \E f \in Frames : LearnFrame(f)
  \/ AgesOut \/ TakeRoles \/ WriteLiveObserved \/ SnapshotFails

BaseSpec == BaseInit /\ [][BaseNext]_baseVars

-----------------------------------------------------------------------------
\* All that speaks for a role of host h, in no order.
Evidence(r, hs, it, h) ==
  (IF h \in r.servers THEN {<<"L1", 85>>} ELSE {})
  \union (IF \E s \in r.servers : h \in r.clients[s]
          THEN {<<"L2", ModbusClient(hs, h).confidence>>} ELSE {})
  \union (IF h \in r.ieds THEN {<<"L1", 80>>} ELSE {})
  \union (IF Directory(it, h) \/ NameServer(it, h) THEN {<<"L4", 75>>}
          ELSE IF Windows(hs, h) THEN {<<"L2", 78>>} ELSE {})
  \union (IF \E s \in Hosts : \/ Directory(it, s) /\ h \in it["ldap"][s]
                              \/ NameServer(it, s) /\ h \in it["dns"][s]
          THEN {<<"L2", 70>>} ELSE {})
  \union (IF \E p \in r.pairs : p[1] = h \/ (p[2] = h /\ h \notin Internet)
          THEN {<<NoLevel, 40>>} ELSE {})

MostConfident(E) == {e \in E : \A d \in E : d[2] <= e[2]}

\* A snapshot lists the hosts there is evidence of, each at the level of its strongest
\* evidence and with its confidence, in whatever order the evidence came in and is gone
\* through (_touch_asset, build_observed_topology).
LevelIsMostConfident ==
  [][WriteLiveObserved =>
       \A h \in Hosts :
         LET E == Evidence(taken.roles, hints, itClients, h) IN
         IF h \in DOMAIN liveTopology'
         THEN <<liveTopology'[h].level, liveTopology'[h].confidence>> \in MostConfident(E)
         ELSE E = {}]_baseVars
=============================================================================
