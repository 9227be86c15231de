---------------------------- MODULE DeviceDrivers ----------------------------
(***************************************************************************)
(* The field devices of an EdgeX edge.  The Edge Console writes a file for *)
(* each device (edgex_config_service.py), which the container of the       *)
(* device's driver reads when it starts, and so restarts that container    *)
(* (edgex_service.py).  A file of the same directory that somebody wrote   *)
(* by hand may hold several devices.                                       *)
(*                                                                         *)
(* Requests run beside one another, in threads of the console.  A file is  *)
(* truncated and then written; Docker stops a container and starts it, and *)
(* the driver reads its files some time after.                             *)
(***************************************************************************)
EXTENDS Integers, FiniteSets

CONSTANTS
  Drivers,         \* the protocols that have a driver
  Edited,          \* the driver that has a file written by hand
  Devices,         \* names of devices
  HandMade,        \* stands for the name of a file that holds every device
  DrvRequests,     \* requests that may be under way at a time
  MaxDeviceSaves,  \* bound: writes of a file
  MaxDeletes,      \* bound: deletions
  MaxDriverExits,  \* bound: exits of a driver
  MaxDrvKills      \* bound: kills of the console

ASSUME DrvAssumption ==
  /\ HandMade \notin Devices /\ Edited \in Drivers
  /\ {MaxDeviceSaves, MaxDeletes, MaxDriverExits, MaxDrvKills} \subseteq Nat

VARIABLES
  saved,     \* the version of each file, NoFile, or Torn
  driver,    \* each container: "down", "starting", or "up" with its files read
  loaded,    \* the versions a driver read when it started
  work,      \* what each request is doing
  unloaded,  \* history: the drivers a request could not restart since they last started
  saveCount, deleteCount, exitCount, drvKills

drvFiles == <<saved, loaded>>
drvCounts == <<saveCount, deleteCount, exitCount, drvKills>>
drvVars == <<drvFiles, driver, work, unloaded, drvCounts>>

Files == Drivers \X (Devices \union {HandMade})
FilesOf(d) == {f \in Files : f[1] = d}

NoFile == 0
Torn == -1

\* The devices a file names.
Named(f) ==
  IF saved[f] \in {NoFile, Torn} THEN {} ELSE IF f[2] = HandMade THEN Devices ELSE {f[2]}

NoWork == [at |-> "idle"]

Versions == -1 .. 1 + MaxDeviceSaves

\* What a request that writes a file, or deletes a device, is at.
Writing == [at : {"write", "inspect", "restart", "start"}, file : Files, version : Versions]
Deleting == [at : {"delete"}, name : Devices, left : SUBSET Files]

DrvTypeOK ==
  /\ saved \in [Files -> Versions] /\ loaded \in [Files -> Versions]
  /\ driver \in [Drivers -> {"down", "starting", "up"}] /\ unloaded \subseteq Drivers
  /\ work \in [DrvRequests -> {NoWork} \union Writing \union Deleting]
  /\ saveCount \in 0 .. MaxDeviceSaves /\ deleteCount \in 0 .. MaxDeletes
  /\ exitCount \in 0 .. MaxDriverExits /\ drvKills \in 0 .. MaxDrvKills

\* Nothing runs yet.
DrvInit ==
  /\ saved = [f \in Files |-> IF f = <<Edited, HandMade>> THEN 1 ELSE NoFile]
  /\ loaded = [f \in Files |-> NoFile]
  /\ driver = [d \in Drivers |-> "down"]
  /\ work = [q \in DrvRequests |-> NoWork] /\ unloaded = {}
  /\ saveCount = 0 /\ deleteCount = 0 /\ exitCount = 0 /\ drvKills = 0

\* Request q was at one place and is at another now.
Works(q, from, to) == work[q].at = from /\ work' = [work EXCEPT ![q].at = to]
Ends(q) == work' = [work EXCEPT ![q] = NoWork]

-----------------------------------------------------------------------------
\* upsert_config_device: the file is opened, written, and the driver's container restarted
\* if it runs.

Truncate(q, f) ==
  /\ work[q] = NoWork /\ f[2] \in Devices
  /\ saveCount < MaxDeviceSaves /\ saveCount' = saveCount + 1
  /\ saved' = [saved EXCEPT ![f] = Torn]
  /\ work' = [work EXCEPT ![q] = [at |-> "write", file |-> f, version |-> 1 + saveCount']]
  /\ UNCHANGED <<driver, loaded, unloaded, deleteCount, exitCount, drvKills>>

\* Over what another request has written meanwhile, the text may come out mixed; a file
\* deleted meanwhile is written to, and gone.
Write(q) ==
  /\ Works(q, "write", "inspect")
  /\ LET f == work[q].file IN
     \E v \in {work[q].version} \union {w \in {Torn} : saved[f] # Torn} :
       saved' = IF saved[f] = NoFile THEN saved ELSE [saved EXCEPT ![f] = v]
  /\ UNCHANGED <<driver, loaded, unloaded, drvCounts>>

\* _docker_status: a container that does not run is left alone, and so is one that cannot
\* be asked about.
Inspect(q) ==
  /\ Works(q, "inspect", "restart") /\ driver[work[q].file[1]] # "down"
  /\ UNCHANGED <<drvFiles, driver, unloaded, drvCounts>>

LeaveAlone(q) ==
  /\ work[q].at = "inspect" /\ Ends(q)
  /\ LET d == work[q].file[1] IN
     unloaded' = IF driver[d] = "down" THEN unloaded ELSE unloaded \union {d}
  /\ UNCHANGED <<drvFiles, driver, drvCounts>>

\* Mutant: docker start, which does nothing to a container that runs.
StopDriver_NotAtAll(q) ==
  /\ Works(q, "restart", "start")
  /\ UNCHANGED <<drvFiles, driver, unloaded, drvCounts>>

\* restart_edgex_container
StopDriver(q) ==
  /\ Works(q, "restart", "start")
  /\ driver' = [driver EXCEPT ![work[q].file[1]] = "down"]
  /\ UNCHANGED <<drvFiles, unloaded, drvCounts>>

\* Docker control is switched off, or Docker refuses.
RestartRefused(q) ==
  /\ work[q].at = "restart" /\ Ends(q)
  /\ unloaded' = unloaded \union {work[q].file[1]}
  /\ UNCHANGED <<drvFiles, driver, drvCounts>>

Starting(d) == driver' = [driver EXCEPT ![d] = IF @ = "down" THEN "starting" ELSE @]

StartStopped(q) ==
  /\ work[q].at = "start" /\ Ends(q)
  /\ Starting(work[q].file[1])
  /\ UNCHANGED <<drvFiles, unloaded, drvCounts>>

-----------------------------------------------------------------------------
\* delete_config_device: the files there are, one after another; no driver is restarted.

StartDelete(q, n) ==
  /\ work[q] = NoWork /\ deleteCount < MaxDeletes /\ deleteCount' = deleteCount + 1
  /\ work' = [work EXCEPT ![q] =
                [at |-> "delete", name |-> n, left |-> {f \in Files : saved[f] # NoFile}]]
  /\ UNCHANGED <<drvFiles, driver, unloaded, saveCount, exitCount, drvKills>>

\* A file that names the device alone is removed, any other one that names it, or has gone,
\* ends the request.
DeleteNext(q) ==
  /\ work[q].at = "delete"
  /\ IF work[q].left = {} THEN Ends(q) /\ UNCHANGED saved
     ELSE \E f \in work[q].left :
            LET names == work[q].name \in Named(f)
                alone == names /\ Cardinality(Named(f)) = 1 /\ f[2] # HandMade
            IN IF saved[f] = NoFile \/ (names /\ ~alone) THEN Ends(q) /\ UNCHANGED saved
               ELSE /\ work' = [work EXCEPT ![q].left = @ \ {f}]
                    /\ saved' = IF alone THEN [saved EXCEPT ![f] = NoFile] ELSE saved
  /\ UNCHANGED <<driver, loaded, unloaded, drvCounts>>

-----------------------------------------------------------------------------
\* The drivers.

\* Having started, a driver reads its files.
LoadFiles(d) ==
  /\ driver[d] = "starting" /\ driver' = [driver EXCEPT ![d] = "up"]
  /\ loaded' = [f \in Files |-> IF f[1] = d THEN saved[f] ELSE loaded[f]]
  /\ unloaded' = unloaded \ {d}
  /\ UNCHANGED <<saved, work, drvCounts>>

DriverExits(d) ==
  /\ driver[d] # "down" /\ exitCount < MaxDriverExits /\ exitCount' = exitCount + 1
  /\ driver' = [driver EXCEPT ![d] = "down"]
  /\ UNCHANGED <<drvFiles, work, unloaded, saveCount, deleteCount, drvKills>>

\* start_edgex_container or enable_phase2_services, from a page of the console, or Docker
\* after an exit.
StartDriver(d) ==
  /\ driver[d] = "down" /\ Starting(d)
  /\ UNCHANGED <<drvFiles, work, unloaded, drvCounts>>

\* The console is killed: Docker goes on with what it was asked.
KillDrvConsole ==
  /\ drvKills < MaxDrvKills /\ drvKills' = drvKills + 1
  /\ \E q \in DrvRequests : work[q] # NoWork
  /\ unloaded' = unloaded \union
       {work[q].file[1] : q \in {p \in DrvRequests : work[p].at \in {"write", "inspect", "restart"}}}
  /\ driver' = [d \in Drivers |->
       IF driver[d] = "down" /\ \E q \in DrvRequests : work[q].at = "start" /\ work[q].file[1] = d
       THEN "starting" ELSE driver[d]]
  /\ work' = [q \in DrvRequests |-> NoWork]
  /\ UNCHANGED <<drvFiles, saveCount, deleteCount, exitCount>>

DrvNext ==
  \/ \E q \in DrvRequests :
       \/ \E f \in Files : Truncate(q, f)
       \/ \E n \in Devices : StartDelete(q, n)
       \/ Write(q) \/ Inspect(q) \/ LeaveAlone(q) \/ StopDriver(q) \/ RestartRefused(q)
       \/ StartStopped(q) \/ DeleteNext(q)
  \/ \E d \in Drivers : LoadFiles(d) \/ DriverExits(d) \/ StartDriver(d)
  \/ KillDrvConsole

DrvSpec == DrvInit /\ [][DrvNext]_drvVars

-----------------------------------------------------------------------------
\* However requests, exits and starts meet, a driver that is up has read each device's file
\* as it is, once no request is at work for that driver - unless a request could not restart
\* it (upsert_config_device).  Of a file that was deleted nothing is said: no driver is
\* restarted for it, and the device stays until one is.
DriversRunSaved ==
  \A d \in Drivers :
    driver[d] = "up" /\ d \notin unloaded
    /\ (\A q \in DrvRequests : work[q].at \in {"idle", "delete"} \/ work[q].file[1] # d) =>
      \A f \in FilesOf(d) : saved[f] # NoFile => loaded[f] = saved[f]
=============================================================================
