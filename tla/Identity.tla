------------------------------- MODULE Identity -------------------------------
(***************************************************************************)
(* The name a unit goes by, its sensor_id: where console, agent and packet *)
(* sensor each take it from (sensor_id_resolve.py in all three,            *)
(* platform_overlay.py, config_store.py), and what first boot puts there   *)
(* (deploy/appliance/).                                                    *)
(*                                                                         *)
(* A container is given its environment when Compose makes it: the agent's *)
(* from .env, the sensor's from .env and capture.env, the console's        *)
(* without a SENSOR_ID.  A restart keeps the environment and reads         *)
(* platform.json again.  The sensor shares the network, and so the name,   *)
(* of the host; the others' host names are those of their containers.      *)
(*                                                                         *)
(* A request of the console is one step; how requests meet on              *)
(* platform.json is PlatformConfig's matter.                               *)
(***************************************************************************)
EXTENDS Naturals

CONSTANTS
  Chosen,      \* the IDs an operator may give
  Golden,      \* the ID in the image that is copied
  Placeholder, \* "" or "ot-edge-001", which name nobody
  NoLine,      \* the file has no such line
  Missing,     \* there is no such file, or no such container
  MaxSaves,    \* bound: changes of platform.json
  MaxBoots,    \* bound: machine IDs made, one by a first boot
  MaxMade      \* bound: containers made

HostName == <<"host", 0>>
NameOf(n) == <<"container", n>>
MachineName(n) == <<"machine", n>>

\* The IDs a unit may rightly go by, and the one of the image.
Own == Chosen \union {HostName} \union {NameOf(n) : n \in 1 .. MaxMade}
              \union {MachineName(n) : n \in 1 .. MaxBoots}
Ids == Own \union {Golden}

Platforms == [id : Ids \union {Placeholder}, configured : BOOLEAN, registered : BOOLEAN]
Boxes == [env : Ids \union {Placeholder, NoLine}, host : Ids, synced : BOOLEAN]

ASSUME IdentityAssumption ==
  /\ {MaxSaves, MaxBoots, MaxMade} \subseteq Nat
  /\ Golden \notin Own \union {Placeholder, NoLine, Missing}
  /\ Missing \notin Platforms \union Boxes

VARIABLES
  boot,       \* where first boot is: "machine", "assign", "mark" or "up"
  marker,     \* firstboot.done
  machineIds, \* how many machine IDs were made, the last of them in force
  envId,      \* SENSOR_ID of .env
  captureEnv, \* SENSOR_ID of capture.env
  platform,   \* platform.json
  box,        \* box[s]: the container of service s
  sensorId,   \* sensorId[s]: what the service goes by since its last start
  fresh,      \* the services started since the ID of platform.json last changed
  saves, made

unitFiles == <<boot, marker, machineIds, envId>>
idVars == <<unitFiles, captureEnv, platform, box, sensorId, fresh, saves, made>>

Containers == {"console", "agent", "sensor"}

IdTypeOK ==
  /\ boot \in {"machine", "assign", "mark", "up"} /\ marker \in BOOLEAN
  /\ machineIds \in 0 .. MaxBoots
  /\ envId \in Ids \union {Placeholder, NoLine}
  /\ captureEnv \in Ids \union {Placeholder, NoLine, Missing}
  /\ platform \in Platforms \union {Missing}
  /\ box \in [Containers -> Boxes \union {Missing}]
  /\ sensorId \in [Containers -> Ids \union {Missing}]
  /\ fresh \subseteq Containers /\ saves \in 0 .. MaxSaves /\ made \in 0 .. MaxMade

-----------------------------------------------------------------------------
\* Who a service is.

\* is_placeholder_sensor_id
Names(id) == id \notin {Placeholder, NoLine, Missing}

\* resolve_sensor_id_with_source: the environment, then platform.json, then the host name;
\* sensor.yaml has the placeholder.
Resolve(env, saved, host) ==
  CASE Names(env) -> env
    [] ~Names(env) /\ Names(saved) -> saved
    [] OTHER -> host

\* load_platform_sensor_id, which the sensor finds at the second path.
SavedId == IF platform = Missing THEN Missing ELSE platform.id

\* Mutant: the sensor has no second path.
IdOf_OnePath(s, b) ==
  CASE s = "sensor" -> Resolve(b.env, Missing, b.host)
    [] s = "agent" -> IF Names(SavedId) THEN SavedId ELSE Resolve(b.env, SavedId, b.host)
    [] s = "console" -> Resolve(Missing, Missing, b.host)

\* load_config of the sensor and of the agent, whose overlay puts platform.json first; the
\* console has nothing but its host name to suggest.
IdOf(s, b) ==
  CASE s = "sensor" -> Resolve(b.env, SavedId, b.host)
    [] s = "agent" -> IF Names(SavedId) THEN SavedId ELSE Resolve(b.env, SavedId, b.host)
    [] s = "console" -> Resolve(Missing, Missing, b.host)

-----------------------------------------------------------------------------
\* A unit is an appliance made of the prepared image, or was installed by hand, when a
\* script has written capture.env or nobody has.
IdInit ==
  /\ \/ /\ boot = "machine" /\ marker = FALSE /\ envId \in {Golden, NoLine}
        /\ captureEnv = Missing
     \/ /\ boot = "up" /\ marker = TRUE /\ envId \in Chosen \union {Placeholder}
        /\ captureEnv \in {NoLine, Missing}
  /\ machineIds = 0 /\ platform = Missing
  /\ box = [s \in Containers |-> Missing] /\ sensorId = [s \in Containers |-> Missing]
  /\ fresh = {} /\ saves = 0 /\ made = 0

\* First boot.

MakeMachineId ==
  /\ boot = "machine" /\ machineIds < MaxBoots
  /\ machineIds' = machineIds + 1 /\ boot' = "assign"
  /\ UNCHANGED <<marker, envId, captureEnv, platform, box, sensorId, fresh, saves, made>>

\* With no line in .env grep fails, and with it the script: it never sets its marker, and
\* the stack is started all the same.
AssignId ==
  /\ boot = "assign"
  /\ IF envId = NoLine THEN boot' = "up" /\ UNCHANGED envId
     ELSE /\ boot' = "mark"
          /\ envId' = IF envId = Golden THEN MachineName(machineIds) ELSE envId
  /\ UNCHANGED <<marker, machineIds, captureEnv, platform, box, sensorId, fresh, saves, made>>

SetMarker ==
  /\ boot = "mark" /\ boot' = "up" /\ marker' = TRUE
  /\ UNCHANGED <<machineIds, envId, captureEnv, platform, box, sensorId, fresh, saves, made>>

\* The unit boots again: in an orderly way, which takes the containers down, or after a loss
\* of power, when Docker starts those there are.
Reboot ==
  /\ ~marker => machineIds < MaxBoots
  /\ boot' = IF marker THEN "up" ELSE "machine"
  /\ \/ /\ boot = "up" /\ \E s \in Containers : box[s] # Missing
        /\ box' = [s \in Containers |-> Missing] /\ sensorId' = [s \in Containers |-> Missing]
        /\ fresh' = {}
     \/ /\ sensorId' = [s \in Containers |-> IF box[s] = Missing THEN Missing ELSE IdOf(s, box[s])]
        /\ fresh' = {s \in Containers : box[s] # Missing}
        /\ UNCHANGED box
  /\ UNCHANGED <<marker, machineIds, envId, captureEnv, platform, saves, made>>

-----------------------------------------------------------------------------
\* Docker.

\* The environment Compose gives a container that it makes now.
Environment(s) ==
  CASE s = "agent" -> envId
    [] s = "sensor" -> IF captureEnv = NoLine THEN envId ELSE captureEnv
    [] s = "console" -> NoLine

\* docker compose up makes the containers that are missing or have changed; without
\* capture.env it does nothing at all.
ComposeUp(s) ==
  /\ boot = "up" /\ captureEnv # Missing
  /\ box[s] # Missing => box[s].env # Environment(s)
  /\ made < MaxMade /\ made' = made + 1
  /\ box' = [box EXCEPT ![s] =
               [env |-> Environment(s), host |-> IF s = "sensor" THEN HostName ELSE NameOf(made'),
                synced |-> captureEnv = SavedId]]
  /\ sensorId' = [sensorId EXCEPT ![s] = IdOf(s, box'[s])]
  /\ fresh' = fresh \union {s}
  /\ UNCHANGED <<unitFiles, captureEnv, platform, saves>>

Started(s) ==
  /\ sensorId' = [sensorId EXCEPT ![s] = IdOf(s, box[s])]
  /\ fresh' = fresh \union {s}

\* docker restart, from a page of the console, and after an exit.
RestartContainer(s) ==
  /\ box[s] # Missing /\ Started(s)
  /\ UNCHANGED <<unitFiles, captureEnv, platform, box, saves, made>>

\* Somebody makes the capture.env Compose asks for, with no ID in it.
ProvideCaptureEnv ==
  /\ captureEnv = Missing /\ captureEnv' = NoLine
  /\ UNCHANGED <<unitFiles, platform, box, sensorId, fresh, saves, made>>

-----------------------------------------------------------------------------
\* The console.

Defaults == [id |-> Placeholder, configured |-> FALSE, registered |-> FALSE]

\* _apply_sensor_id_defaults: the console names a unit nobody has named or registered.
WithDefaults(config) ==
  IF Names(config.id) \/ (config.configured /\ config.registered) THEN config
  ELSE [config EXCEPT !.id = box["console"].host]

LoadedId == WithDefaults(IF platform = Missing THEN Defaults ELSE platform)

\* A changed ID leaves those who started before with the old one.
SavesPlatform(config) ==
  /\ saves < MaxSaves /\ saves' = saves + 1
  /\ platform' = config

\* merge_update and sync_env_file
SaveConfig(id) ==
  /\ SavesPlatform([LoadedId EXCEPT !.id = id, !.configured = TRUE])
  /\ captureEnv' = id
  /\ fresh' = IF id = SavedId THEN fresh ELSE {}
  /\ box' = [s \in Containers |-> IF box[s] = Missing THEN Missing
                                ELSE [box[s] EXCEPT !.synced = @ /\ id = SavedId]]
  /\ UNCHANGED <<unitFiles, sensorId, made>>

\* register_test: the result is recorded, and with it the tenant if there is one; capture.env
\* is not written.  The restart of the agent that may follow is RestartContainer's.
RecordResult(ok) ==
  /\ \E tenant \in {FALSE, ok} :
       SavesPlatform([LoadedId EXCEPT !.registered = ok, !.configured = @ \/ tenant])
  /\ box' = [s \in Containers |-> IF box[s] = Missing THEN Missing
                                ELSE [box[s] EXCEPT !.synced = @ /\ LoadedId.id = SavedId]]
  /\ fresh' = IF LoadedId.id = SavedId THEN fresh ELSE {}
  /\ UNCHANGED <<unitFiles, captureEnv, sensorId, made>>

IdNext ==
  \/ MakeMachineId \/ AssignId \/ SetMarker \/ Reboot \/ ProvideCaptureEnv
  \/ \E s \in Containers : ComposeUp(s) \/ RestartContainer(s)
  \/ /\ box["console"] # Missing
     /\ \/ \E id \in Chosen \union {Placeholder, LoadedId.id} : SaveConfig(id)
        \/ \E ok \in BOOLEAN : RecordResult(ok)

IdSpec == IdInit /\ [][IdNext]_idVars

-----------------------------------------------------------------------------
\* No service goes by the ID of the image the unit was copied from, wherever first boot was
\* cut off (firstboot.sh).  Once platform.json names the unit, an agent and a sensor that were
\* started since both go by that name (sensor_id_resolve.py), but for a sensor whose container
\* was made with another SENSOR_ID before the name was in capture.env: neither a restart nor
\* the console's reload cures that.
SameIdentity ==
  /\ \A s \in Containers : sensorId[s] # Golden
  /\ Names(SavedId) =>
       /\ "agent" \in fresh => sensorId["agent"] = SavedId
       /\ "sensor" \in fresh =>
            \/ sensorId["sensor"] = SavedId
            \/ Names(box["sensor"].env) /\ ~box["sensor"].synced
=============================================================================
