------------------------------- MODULE SensorJobs -------------------------------
(***************************************************************************)
(* What the Edge Console has done in and to the container of the packet    *)
(* sensor on request: learning a baseline from an uploaded capture         *)
(* (baseline_service, baseline/learn.py), probing a device and keeping     *)
(* what is known of it (asset_probe_service, probe/device_probe.py), and   *)
(* starting and stopping the capture and the lab's publishers              *)
(* (lab_traffic_service).                                                  *)
(*                                                                         *)
(* Learning and probing are processes started with docker exec: when the   *)
(* console's patience ends the docker client is killed, not the process.   *)
(* The learning handler is a coroutine that waits for its process without  *)
(* giving up the event loop: meanwhile no request is taken on, though      *)
(* those that run in threads go on.  Container control is enabled, the     *)
(* containers exist, and "mms" is controlled like "goose".                 *)
(***************************************************************************)
EXTENDS Naturals, Sequences

CONSTANTS
  Ips,           \* the devices
  JobRequests,   \* requests in threads, at a time
  MaxUploads,    \* bound: captures uploaded
  MaxJobs,       \* bound: requests in threads, in all
  MaxSensorEnds  \* bound: how often the container is restarted otherwise

ASSUME JobsAssumption ==
  {MaxUploads, MaxJobs, MaxSensorEnds} \subseteq Nat

VARIABLES
  learning,   \* the learning request is at: "idle", "exec" or "read"
  uploads,    \* the captures uploaded so far: the number of the last one
  learners,   \* the captures some process of the container learns from
  candidate,  \* candidate.json: the capture it was learnt from, or 0
  learnt,     \* the last answer: the capture asked for and the candidate's
  probers,    \* the probes under way in the container: number and device
  probeFile,  \* probe/<ip>.json: the probe that wrote it, or 0
  inventory,  \* asset-inventory.json: of each device the last identity entered and probe
  containers, \* which containers run
  job,        \* what each request in a thread is at
  jobs,       \* how many requests in threads there were: the number of the last one
  sensorEnds,
  overdue,    \* history: the captures whose learning was given up
  entered,    \* history: the last identity entered for a device
  crossed,    \* history: a document was saved while another request held an older one
  wanted      \* history: what was last asked of each container, if nothing came between

learnSide == <<learning, uploads, learners, candidate, learnt, overdue>>
probeSide == <<probers, probeFile>>
entrySide == <<inventory, entered, crossed>>
boxSide   == <<containers, wanted>>
jobsVars  == <<learnSide, probeSide, entrySide, boxSide, job, jobs, sensorEnds>>

Targets == {"goose", "capture"}
NoJob == [at |-> "idle"]
Numbers == 0 .. MaxJobs
Entries == [manual : Numbers, probe : Numbers]
Steps == {"stop", "start", "restart"} \X Targets

\* What a request in a thread is at: a probe, a patch of the inventory, or containers.
Fields == {"manual", "probe"}
Probing == [at : {"exec", "read"}, ip : Ips, number : Numbers]
Loading == [at : {"load"}, ip : Ips, field : Fields, value : Numbers]
Saving == [at : {"save"}, ip : Ips, field : Fields, value : Numbers, doc : [Ips -> Entries]]
Controls == [at : {"inspect", "act"}, todo : Seq(Steps)]

JobsTypeOK ==
  /\ learning \in {"idle", "exec", "read"} /\ uploads \in 0 .. MaxUploads
  /\ learners \subseteq 1 .. uploads /\ overdue \subseteq 1 .. uploads
  /\ candidate \in 0 .. uploads /\ learnt \in [asked : 0 .. uploads, given : 0 .. uploads]
  /\ probers \subseteq (1 .. jobs) \X Ips /\ probeFile \in [Ips -> Numbers]
  /\ inventory \in [Ips -> Entries] /\ entered \in [Ips -> Numbers]
  /\ crossed \in BOOLEAN
  /\ containers \in [Targets -> BOOLEAN] /\ wanted \in [Targets -> {"start", "stop", "any"}]
  /\ jobs \in 0 .. MaxJobs /\ sensorEnds \in 0 .. MaxSensorEnds
  /\ job \in [JobRequests -> {NoJob} \union Probing \union Loading \union Saving \union Controls]

JobsInit ==
  /\ learning = "idle" /\ uploads = 0 /\ learners = {} /\ candidate = 0
  /\ learnt = [asked |-> 0, given |-> 0] /\ overdue = {}
  /\ probers = {} /\ probeFile = [ip \in Ips |-> 0]
  /\ inventory = [ip \in Ips |-> [manual |-> 0, probe |-> 0]]
  /\ entered = [ip \in Ips |-> 0] /\ crossed = FALSE
  /\ containers = [t \in Targets |-> TRUE]
  /\ wanted = [t \in Targets |-> "any"]
  /\ job = [r \in JobRequests |-> NoJob] /\ jobs = 0 /\ sensorEnds = 0

\* A request is taken on by the event loop, which a learning request holds.
TakenOn(r, first) ==
  /\ learning = "idle" /\ job[r] = NoJob
  /\ jobs < MaxJobs /\ jobs' = jobs + 1
  /\ job' = [job EXCEPT ![r] = first]

-----------------------------------------------------------------------------
\* baseline_learn and run_learn: the capture is saved, a process started and waited for.
StartLearning ==
  /\ learning = "idle" /\ uploads < MaxUploads
  /\ uploads' = uploads + 1
  /\ IF containers["capture"] THEN learning' = "exec" /\ learners' = learners \union {uploads'}
     ELSE UNCHANGED <<learning, learners>>
  /\ UNCHANGED <<candidate, learnt, overdue, probeSide, entrySide, boxSide, job, jobs, sensorEnds>>

\* learn.main writes its candidate by a rename and ends.
LearnerWrites(u) ==
  /\ u \in learners /\ learners' = learners \ {u}
  /\ candidate' = u
  /\ learning' = IF learning = "exec" /\ u = uploads THEN "read" ELSE learning
  /\ UNCHANGED <<uploads, learnt, overdue, probeSide, entrySide, boxSide, job, jobs, sensorEnds>>

\* It cannot read the capture: exit 1, or 2.
LearnerFails(u) ==
  /\ u \in learners /\ learners' = learners \ {u}
  /\ learning' = IF learning = "exec" /\ u = uploads THEN "idle" ELSE learning
  /\ UNCHANGED <<uploads, candidate, learnt, overdue, probeSide, entrySide, boxSide, job, jobs, sensorEnds>>

\* The process is left to itself.
LearningTimesOut ==
  /\ learning = "exec" /\ learning' = "idle"
  /\ overdue' = overdue \union {uploads}
  /\ UNCHANGED <<uploads, learners, candidate, learnt, probeSide, entrySide, boxSide, job, jobs, sensorEnds>>

\* Mutant: the exit status is not looked at, and neither is whether it has ended.
AnswerLearning_Early ==
  /\ learning \in {"exec", "read"} /\ learning' = "idle"
  /\ learnt' = [asked |-> uploads, given |-> candidate]
  /\ UNCHANGED <<uploads, learners, candidate, overdue, probeSide, entrySide, boxSide, job, jobs, sensorEnds>>

\* The answer shows the candidate that is there by now.
AnswerLearning ==
  /\ learning = "read" /\ learning' = "idle"
  /\ learnt' = [asked |-> uploads, given |-> candidate]
  /\ UNCHANGED <<uploads, learners, candidate, overdue, probeSide, entrySide, boxSide, job, jobs, sensorEnds>>

-----------------------------------------------------------------------------
\* probe: a process that connects to the device.
StartProbe(r, ip) ==
  /\ containers["capture"]
  /\ TakenOn(r, [at |-> "exec", ip |-> ip, number |-> jobs'])
  /\ probers' = probers \union {<<jobs', ip>>}
  /\ UNCHANGED <<probeFile, learnSide, entrySide, boxSide, sensorEnds>>

ProberWrites(p) ==
  /\ p \in probers /\ probers' = probers \ {p}
  /\ probeFile' = [probeFile EXCEPT ![p[2]] = p[1]]
  /\ job' = [r \in JobRequests |->
               IF job[r].at = "exec" /\ job[r].number = p[1] THEN [job[r] EXCEPT !.at = "read"]
               ELSE job[r]]
  /\ UNCHANGED <<learnSide, entrySide, boxSide, jobs, sensorEnds>>

ProbeTimesOut(r) ==
  /\ job[r].at = "exec" /\ job' = [job EXCEPT ![r] = NoJob]
  /\ UNCHANGED <<learnSide, probeSide, entrySide, boxSide, jobs, sensorEnds>>

\* The result is taken from the device's file, and goes into the inventory.
ReadProbe(r) ==
  /\ job[r].at = "read"
  /\ job' = [job EXCEPT ![r] = [at |-> "load", ip |-> job[r].ip, field |-> "probe",
                                 value |-> probeFile[job[r].ip]]]
  /\ UNCHANGED <<learnSide, probeSide, entrySide, boxSide, jobs, sensorEnds>>

\* set_identity
EnterIdentity(r, ip) ==
  /\ TakenOn(r, [at |-> "load", ip |-> ip, field |-> "manual", value |-> jobs'])
  /\ UNCHANGED <<entrySide, learnSide, probeSide, boxSide, sensorEnds>>

\* _save_entry: the document is read ...
LoadInventory(r) ==
  /\ job[r].at = "load"
  /\ job' = [job EXCEPT ![r] = [at |-> "save", ip |-> job[r].ip, field |-> job[r].field,
                                 value |-> job[r].value, doc |-> inventory]]
  /\ UNCHANGED <<learnSide, probeSide, entrySide, boxSide, jobs, sensorEnds>>

\* Mutant: the entry is the patch.
Patched_Replaced(entry, field, value) ==
  [[f \in {"manual", "probe"} |-> 0] EXCEPT ![field] = value]

\* The patch replaces what it names and leaves the rest of the entry.
Patched(entry, field, value) == [entry EXCEPT ![field] = value]

\* ... and the whole of it replaced.
SaveInventory(r) ==
  /\ job[r].at = "save" /\ job' = [job EXCEPT ![r] = NoJob]
  /\ LET j == job[r] IN
     /\ inventory' = [j.doc EXCEPT ![j.ip] = Patched(@, j.field, j.value)]
     /\ entered' = IF j.field = "manual" THEN [entered EXCEPT ![j.ip] = j.value] ELSE entered
  /\ crossed' = (crossed \/ \E q \in JobRequests \ {r} : job[q].at = "save")
  /\ UNCHANGED <<learnSide, probeSide, boxSide, jobs, sensorEnds>>

-----------------------------------------------------------------------------
InOrder(stop, start) ==
  [i \in DOMAIN stop |-> <<"stop", stop[i]>>] \o [i \in DOMAIN start |-> <<"start", start[i]>>]

\* The presets lab_only, mirror_only, all_on and all_off, and a restart of the capture.
Presets ==
  {InOrder(<<"capture">>, <<"goose">>), InOrder(<<"goose">>, <<"capture">>),
   InOrder(<<>>, <<"goose", "capture">>), InOrder(<<"goose", "capture">>, <<>>),
   <<<<"restart", "capture">>>>}

Controlling == {r \in JobRequests : job[r].at \in {"inspect", "act"}}
Verb(r) == job[r].todo[1][1]
Target(r) == job[r].todo[1][2]

\* apply_lab_traffic_action: what is to be stopped first.
ApplyAction(r, todo) ==
  /\ TakenOn(r, [at |-> "inspect", todo |-> todo])
  /\ LET about(t) == {v \in {"stop", "start", "restart"} :
                        \E i \in DOMAIN todo : todo[i] = <<v, t>>}
     IN wanted' = [t \in Targets |-> IF Controlling # {} THEN "any"
                                     ELSE IF about(t) = {} THEN wanted[t]
                                     ELSE IF "stop" \in about(t) THEN "stop" ELSE "start"]
  /\ UNCHANGED <<containers, learnSide, probeSide, entrySide, sensorEnds>>

\* The next container, or the answer.
Advanced(r) ==
  IF Len(job[r].todo) = 1 THEN NoJob ELSE [at |-> "inspect", todo |-> Tail(job[r].todo)]

\* _docker_status: what is as it should be is left alone; a restart asks nothing.
AsWanted(r) == Verb(r) # "restart" /\ containers[Target(r)] = (Verb(r) = "start")

InspectBox(r) ==
  /\ job[r].at = "inspect"
  /\ job' = [job EXCEPT ![r] = IF AsWanted(r) THEN Advanced(r) ELSE [@ EXCEPT !.at = "act"]]
  /\ UNCHANGED <<learnSide, probeSide, entrySide, boxSide, jobs, sensorEnds>>

\* A container that cannot be inspected counts as one that does not run: "already stopped".
InspectBoxFails(r) ==
  /\ job[r].at = "inspect" /\ Verb(r) # "restart"
  /\ IF Verb(r) = "start" THEN job' = [job EXCEPT ![r].at = "act"] /\ UNCHANGED wanted
     ELSE /\ job' = [job EXCEPT ![r] = Advanced(r)]
          /\ wanted' = [wanted EXCEPT ![Target(r)] = "any"]
  /\ UNCHANGED <<containers, learnSide, probeSide, entrySide, jobs, sensorEnds>>

\* With the container of the sensor all its processes end, and docker exec reports it.
ProcessesEnd ==
  /\ learners' = {} /\ probers' = {}
  /\ learning' = IF learning = "exec" THEN "idle" ELSE learning
  /\ UNCHANGED <<uploads, candidate, learnt, overdue, probeFile>>

Reported(after) == [r \in JobRequests |-> IF job[r].at = "exec" THEN NoJob ELSE after[r]]

Does(r, next) ==
  /\ containers' = [containers EXCEPT ![Target(r)] = (Verb(r) # "stop")]
  /\ IF Target(r) = "capture" /\ Verb(r) # "start"
     THEN ProcessesEnd /\ job' = Reported([job EXCEPT ![r] = next])
     ELSE UNCHANGED <<learnSide, probeSide>> /\ job' = [job EXCEPT ![r] = next]

\* Mutant: the request is answered as soon as one container is as wanted.
Act_LeavesRest(r) ==
  /\ job[r].at = "act"
  /\ Does(r, NoJob)
  /\ UNCHANGED <<wanted, entrySide, jobs, sensorEnds>>

\* docker start, stop or restart
Act(r) ==
  /\ job[r].at = "act"
  /\ Does(r, Advanced(r))
  /\ UNCHANGED <<wanted, entrySide, jobs, sensorEnds>>

\* It fails, and the request goes on: the answer says so in the end.
ActFails(r) ==
  /\ job[r].at = "act"
  /\ job' = [job EXCEPT ![r] = Advanced(r)]
  /\ wanted' = [wanted EXCEPT ![Target(r)] = "any"]
  /\ UNCHANGED <<containers, learnSide, probeSide, entrySide, jobs, sensorEnds>>

\* It takes too long: TimeoutExpired ends the request, whether or not Docker goes on.
ActTimesOut(r) ==
  /\ job[r].at = "act"
  /\ \/ Does(r, NoJob)
     \/ job' = [job EXCEPT ![r] = NoJob] /\ UNCHANGED <<containers, learnSide, probeSide>>
  /\ wanted' = [t \in Targets |-> IF \E i \in DOMAIN job[r].todo : job[r].todo[i][2] = t
                                  THEN "any" ELSE wanted[t]]
  /\ UNCHANGED <<entrySide, jobs, sensorEnds>>

\* The sensor is restarted by the console's settings, or ends and is started again.
SensorEnds ==
  /\ containers["capture"] /\ sensorEnds < MaxSensorEnds /\ sensorEnds' = sensorEnds + 1
  /\ ProcessesEnd /\ job' = Reported(job)
  /\ UNCHANGED <<entrySide, boxSide, jobs>>

-----------------------------------------------------------------------------
JobsNext ==
  \/ StartLearning \/ LearningTimesOut \/ AnswerLearning
  \/ \E u \in learners : LearnerWrites(u) \/ LearnerFails(u)
  \/ \E p \in probers : ProberWrites(p)
  \/ \E r \in JobRequests, ip \in Ips : StartProbe(r, ip) \/ EnterIdentity(r, ip)
  \/ \E r \in JobRequests, todo \in Presets : ApplyAction(r, todo)
  \/ \E r \in JobRequests :
       \/ ProbeTimesOut(r) \/ ReadProbe(r) \/ LoadInventory(r) \/ SaveInventory(r)
       \/ InspectBox(r) \/ InspectBoxFails(r) \/ Act(r) \/ ActFails(r) \/ ActTimesOut(r)
  \/ SensorEnds

JobsSpec == JobsInit /\ [][JobsNext]_jobsVars

-----------------------------------------------------------------------------
\* The candidate shown to the operator was learnt from the capture just uploaded, or from
\* one whose learning was given up too early.
LearnAnswersOwn == learnt.given \in overdue \union {learnt.asked}

\* What was entered by hand for a device stays, whatever is probed, unless two requests
\* held the document at once ("Precedence: manual > probe").
IdentityKept == ~crossed => \A ip \in Ips : inventory[ip].manual = entered[ip]

\* A preset that was carried out leaves the containers as it says, unless requests met,
\* Docker failed, or could not be asked.
PresetHolds ==
  Controlling = {} =>
    \A t \in Targets : wanted[t] # "any" => containers[t] = (wanted[t] = "start")

\* The console's answers about the sensor's container hold, though timeouts leave processes
\* behind, requests rewrite one document and containers end under what runs in them
\* (run_learn, _save_entry, apply_lab_traffic_action).
JobsTellTruth == LearnAnswersOwn /\ IdentityKept /\ PresetHolds
=============================================================================
