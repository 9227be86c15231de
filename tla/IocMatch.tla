------------------------------- MODULE IocMatch --------------------------------
(***************************************************************************)
(* The packet sensor's look-up of hosts in the CTI blacklist               *)
(* (detection/ioc.py, policy/ioc_cache.py): rule OT-019 reports a host of  *)
(* the list once per cooldown as a source and once as a destination.       *)
(*                                                                         *)
(* A look-up first reloads the list the agent keeps for the sensor, if it  *)
(* has not looked for a while and the stamp has changed.  evaluate takes   *)
(* the two addresses of a packet one after the other: each is a step, down *)
(* to _emit, which drops the event unless the mode is "detect".  How the   *)
(* agent writes cache and stamp is FeedCache's matter.                     *)
(***************************************************************************)
EXTENDS Integers

CONSTANTS
  Hosts,        \* the addresses in the packets
  Lists,        \* the lists: the time each host expires, 0 if it is not named
  ReloadCheck,  \* reload_check_sec
  Cooldown,     \* cooldown_sec
  MaxTime,      \* bound: the clock
  MaxWrites,    \* bound: the lists written by the agent
  MaxContacts   \* bound: the look-ups

ASSUME IocAssumption ==
  /\ Lists \subseteq [Hosts -> Nat] /\ Lists # {}
  /\ {ReloadCheck, Cooldown, MaxTime, MaxWrites, MaxContacts} \subseteq Nat

Directions == {"src", "dst"}
Keys == Hosts \X Directions
Fates == {"reported", "dropped", "quiet"}
Never == -1

VARIABLES
  clock,      \* the time, which is that of the agent, too
  iocFile,    \* ioc-cache.json
  iocStamp,   \* its stamp: how often the list has been written
  held,       \* _ipv4: the hosts looked up
  heldStamp,  \* _last_stamp_mtime, Never until a list is loaded
  lookedAt,   \* _last_check_monotonic
  exempt,     \* the hosts of the policy's allowlist and of the managed whitelist;
              \* all of them when OT-019 is not enabled
  lastAlert,  \* _last_alert
  lookups,    \* how many addresses have been looked up
  since,      \* history: when the file has begun, or ceased, to name the host
  blind,      \* history: the file could not be read when last looked at
  loaded,     \* history: the list last loaded
  loadedAt,   \* history: and when it was
  contacts    \* history: what became of each look-up, and what the file said

sensorLooks == <<held, heldStamp, lookedAt, blind, loaded, loadedAt>>
iocVars == <<clock, iocFile, iocStamp, sensorLooks, exempt, lastAlert, lookups,
             since, contacts>>

IocTypeOK ==
  /\ clock \in 0 .. MaxTime /\ lookedAt \in 0 .. MaxTime /\ loadedAt \in 0 .. MaxTime
  /\ iocFile \in Lists /\ iocStamp \in 0 .. MaxWrites /\ heldStamp \in Never .. MaxWrites
  /\ held \subseteq Hosts /\ exempt \subseteq Hosts
  /\ blind \in BOOLEAN /\ loaded \in [Hosts -> Nat]
  /\ lastAlert \in [Keys -> Never .. MaxTime]
  /\ lookups \in 0 .. MaxContacts
  /\ since \in [Hosts -> -ReloadCheck .. MaxTime]
  /\ contacts \subseteq [host : Hosts, dir : Directions, at : 0 .. MaxTime, fate : Fates,
                         file : {"names", "omits", "changes"}]

IocInit ==
  /\ clock = 0 /\ iocFile \in Lists /\ iocStamp = 0
  /\ held = {} /\ heldStamp = Never /\ lookedAt = 0 /\ blind = FALSE
  /\ loaded = [host \in Hosts |-> 0] /\ loadedAt = 0
  /\ exempt = {}
  /\ lastAlert = [key \in Keys |-> Never]
  /\ lookups = 0 /\ contacts = {}
  /\ since = [host \in Hosts |-> -ReloadCheck]

-----------------------------------------------------------------------------
Tick ==
  /\ clock < MaxTime
  /\ clock' = clock + 1
  /\ UNCHANGED <<iocFile, iocStamp, sensorLooks, exempt, lastAlert, lookups, since, contacts>>

\* The list names the host, and it has not expired.
Names(list, host) == list[host] > clock

\* The agent makes a list of an artifact (build_cache_from_artifact): what is
\* revoked is left out, and no entry expires at once.
WriteList(list) ==
  /\ iocStamp < MaxWrites
  /\ \A host \in Hosts : list[host] = 0 \/ Names(list, host)
  /\ iocFile' = list
  /\ iocStamp' = iocStamp + 1
  /\ since' = [host \in Hosts |->
                 IF list[host] = iocFile[host] \/ (Names(list, host) /\ Names(iocFile, host))
                 THEN since[host] ELSE clock]
  /\ UNCHANGED <<clock, sensorLooks, exempt, lastAlert, lookups, contacts>>

Exempt(host) == host \in exempt

\* The policy or the managed whitelist is reloaded.
Reconfigure ==
  /\ exempt' \in SUBSET Hosts
  /\ UNCHANGED <<clock, iocFile, iocStamp, sensorLooks, lastAlert, lookups, since, contacts>>

-----------------------------------------------------------------------------
\* maybe_reload, and what it leaves out: an entry that has expired by now.
LookDue == heldStamp = Never \/ clock - lookedAt >= ReloadCheck

\* Mutant: the stamp is remembered before the file is read.
LoadFails_StampFirst ==
  /\ heldStamp # iocStamp
  /\ heldStamp' = iocStamp
  /\ blind' = TRUE
  /\ UNCHANGED <<held, loaded, loadedAt>>

LoadFails ==
  /\ heldStamp # iocStamp
  /\ blind' = TRUE
  /\ UNCHANGED <<held, heldStamp, loaded, loadedAt>>

Load ==
  /\ heldStamp # iocStamp
  /\ held' = {host \in Hosts : Names(iocFile, host)}
  /\ heldStamp' = iocStamp
  /\ blind' = FALSE
  /\ loaded' = iocFile /\ loadedAt' = clock

Look ==
  \/ ~LookDue /\ UNCHANGED sensorLooks
  \/ /\ LookDue
     /\ lookedAt' = clock
     /\ \/ /\ heldStamp = iocStamp /\ blind' = FALSE
           /\ UNCHANGED <<held, heldStamp, loaded, loadedAt>>
        \/ Load
        \/ LoadFails

\* Mutant: the cooldown is that of the host.
Key_OfHost(host, dir) == <<host, "src">>

Key(host, dir) == <<host, dir>>

Cooling(key) == lastAlert[key] # Never /\ clock - lastAlert[key] < Cooldown

\* What the agent's list has said of the host for as long as the sensor may go without
\* looking.  An entry that expires stays in the file, and only a load leaves it out: the
\* one it has to expire before is the last.  A failed read matters only if it has kept
\* another entry from the sensor.
FileSays(host) ==
  IF clock - since[host] < ReloadCheck \/ (blind' /\ loaded'[host] # iocFile[host])
  THEN "changes"
  ELSE IF iocFile[host] > loadedAt' THEN "names" ELSE "omits"

\* The alert is marked whether or not the mode lets _emit write it.
LookUp(host, dir, detecting) ==
  /\ lookups < MaxContacts
  /\ lookups' = lookups + 1
  /\ ~Exempt(host)
  /\ Look
  /\ LET alert == host \in held' /\ ~Cooling(Key(host, dir)) IN
     /\ lastAlert' = IF alert THEN [lastAlert EXCEPT ![Key(host, dir)] = clock] ELSE lastAlert
     /\ contacts' = contacts \union
          {[host |-> host, dir |-> dir, at |-> clock, file |-> FileSays(host),
            fate |-> IF ~alert THEN "quiet" ELSE IF detecting THEN "reported" ELSE "dropped"]}
  /\ UNCHANGED <<clock, iocFile, iocStamp, exempt, since>>

IocNext ==
  \/ Tick \/ Reconfigure
  \/ \E list \in Lists : WriteList(list)
  \/ \E host \in Hosts, dir \in Directions, detecting \in BOOLEAN : LookUp(host, dir, detecting)

IocSpec == IocInit /\ [][IocNext]_iocVars

-----------------------------------------------------------------------------
\* The alerts the cooldown of this look-up goes back to.
Explains(e, c) ==
  e.host = c.host /\ e.dir = c.dir /\ e.fate # "quiet" /\ e.at <= c.at /\ c.at - e.at < Cooldown

\* A host the agent's list names, for as long as the sensor may go without looking, is
\* reported in either direction, unless an alert of that direction was raised within the
\* cooldown (and dropped, perhaps, in another mode): after it has expired, too, until the
\* next load.  One the list has ceased to name for as long, or whose entry had expired at
\* the last load, is not; and no two alerts come within a cooldown.
ContactsReported ==
  \A c \in contacts :
    /\ c.fate = "quiet" /\ c.file = "names" => \E e \in contacts : Explains(e, c)
    /\ c.fate # "quiet" => c.file # "omits" /\ \A e \in contacts : Explains(e, c) => e = c
=============================================================================
