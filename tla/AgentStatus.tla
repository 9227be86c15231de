------------------------------ MODULE AgentStatus ------------------------------
(***************************************************************************)
(* What others learn of the agent: agent-runtime.json, which the console   *)
(* shows (runtime/agent_snapshot.py, agent_runtime.py), and the coverage   *)
(* tally that main.py publishes.                                           *)
(*                                                                         *)
(* The main loop and the thread of the northbound MQTT client read, merge  *)
(* and rewrite the file without a lock: the text is empty for a moment,    *)
(* one writer may restore what the other has replaced, and two texts of    *)
(* different length written over one another are no JSON, which the next   *)
(* writer takes for an empty file.                                         *)
(*                                                                         *)
(* Of the fields only mqtt_connected and whether last_error is set are     *)
(* kept; the numbers of the health report are rewritten every turn.        *)
(* Publishing the state stands for every publish_json of a turn.  The      *)
(* tenant is bound by the registration.                                    *)
(***************************************************************************)
EXTENDS Integers

CONSTANTS
  MaxTroubles,  \* bound: outages, refusals, unanswered publishes and kills
  MaxTallies    \* bound: tallies the sensor writes

ASSUME StatusAssumption == {MaxTroubles, MaxTallies} \subseteq Nat

VARIABLES
  network,    \* whether the broker is there, and takes the agent's credentials
  linked,     \* the connection of the client to the broker
  connected,  \* _connected
  runtime,    \* agent-runtime.json
  merge,      \* write_agent_runtime of each thread: where it is, its fields, what it has read
  turn,       \* where the main loop is
  enrolled,   \* RegistrationState.complete
  tally,      \* coverage-counters.json: its version and time
  seenTime,   \* mtime of the turn, then last_coverage_mtime
  arrived,    \* the version the portal has
  troubles, setBack, crossed  \* the clock was set back; the two writers have met

busVars == <<network, linked, connected>>
statusVars ==
  <<busVars, runtime, merge, turn, enrolled, tally, seenTime, arrived, troubles, setBack, crossed>>

Writers == {"loop", "paho"}
Other(w) == IF w = "loop" THEN "paho" ELSE "loop"

Whole(conn, error) == [text |-> "whole", connected |-> conn, error |-> error]
NoText == [text |-> "empty", connected |-> FALSE, error |-> FALSE]
Garbled == [text |-> "garbled", connected |-> FALSE, error |-> FALSE]
Texts == [text : {"whole", "empty", "garbled"}, connected : BOOLEAN, error : BOOLEAN]

\* The fields of a call; a field that is None is not among them.
Field == {"none", "yes", "no"}
AsField(b) == IF b THEN "yes" ELSE "no"
Set(field, old) == IF field = "none" THEN old ELSE field = "yes"

NoMerge == [at |-> "idle", connected |-> "none", error |-> "none", body |-> NoText]
Writing(conn, error) == [NoMerge EXCEPT !.at = "read", !.connected = conn, !.error = error]
Idle(w) == merge[w].at = "idle"
Begin(w, conn, error) == merge' = [merge EXCEPT ![w] = Writing(conn, error)]

Turns == {"register", "announce", "enrolled", "health", "state", "coverage", "tally"}

StatusTypeOK ==
  /\ network \in {"up", "refusing", "down"} /\ linked \in BOOLEAN /\ connected \in BOOLEAN
  /\ runtime \in Texts
  /\ merge \in [Writers -> [at : {"idle", "read", "truncate", "put"}, connected : Field,
                            error : Field, body : Texts]]
  /\ turn \in Turns /\ enrolled \in BOOLEAN
  /\ tally \in [version : 0 .. MaxTallies, time : 0 .. MaxTallies]
  /\ seenTime \in [now : 0 .. MaxTallies, last : 0 .. MaxTallies]
  /\ arrived \in 0 .. MaxTallies /\ troubles \in 0 .. MaxTroubles
  /\ setBack \in BOOLEAN /\ crossed \in BOOLEAN

\* There may be a file of an earlier agent.
StatusInit ==
  /\ network \in {"up", "down"} /\ linked = FALSE /\ connected = FALSE
  /\ runtime \in {NoText} \union {Whole(c, FALSE) : c \in BOOLEAN}
  /\ merge = [w \in Writers |-> NoMerge]
  /\ turn = "register" /\ enrolled = FALSE
  /\ tally = [version |-> 0, time |-> 0] /\ seenTime = [now |-> 0, last |-> 0] /\ arrived = 0
  /\ troubles = 0 /\ setBack = FALSE /\ crossed = FALSE

Trouble == troubles < MaxTroubles /\ troubles' = troubles + 1

-----------------------------------------------------------------------------
\* The broker, or the way to it, goes and comes; it may refuse the credentials.
NetworkFails ==
  /\ network = "up" /\ Trouble
  /\ network' \in {"refusing", "down"} /\ linked' = FALSE
  /\ UNCHANGED <<connected, runtime, merge, turn, enrolled, tally, seenTime, arrived, setBack, crossed>>

NetworkReturns ==
  /\ network # "up" /\ network' = "up"
  /\ UNCHANGED <<linked, connected, runtime, merge, turn, enrolled, tally, seenTime, arrived,
                 troubles, setBack, crossed>>

\* The sensor replaces the tally, as a rule with a later time, unless the clock was set back.
TallyWritten ==
  /\ tally.version < MaxTallies
  /\ \E time \in {tally.time + 1, 1} :
       /\ tally' = [version |-> tally.version + 1, time |-> time]
       /\ setBack' = (setBack \/ time <= tally.time)
  /\ UNCHANGED <<busVars, runtime, merge, turn, enrolled, seenTime, arrived, troubles, crossed>>

-----------------------------------------------------------------------------
\* _on_connect: the flag, then the file; an error shown is cleared.
OnConnected ==
  /\ Idle("paho") /\ ~linked /\ ~connected /\ network = "up"
  /\ linked' = TRUE /\ connected' = TRUE
  /\ Begin("paho", "yes", "no")
  /\ UNCHANGED <<network, runtime, turn, enrolled, tally, seenTime, arrived, troubles, setBack, crossed>>

\* _on_connect with a failure only logs; _on_disconnect follows it.
OnRefused ==
  /\ Idle("paho") /\ network = "refusing" /\ ~connected
  /\ Begin("paho", "no", "none")
  /\ UNCHANGED <<busVars, runtime, turn, enrolled, tally, seenTime, arrived, troubles, setBack, crossed>>

OnDisconnected ==
  /\ Idle("paho") /\ ~linked /\ connected
  /\ connected' = FALSE
  /\ Begin("paho", "no", "none")
  /\ UNCHANGED <<network, linked, runtime, turn, enrolled, tally, seenTime, arrived, troubles,
                 setBack, crossed>>

-----------------------------------------------------------------------------
\* write_agent_runtime reads the file; a text that is no JSON counts as an empty object.
ReadRuntime(w) ==
  /\ merge[w].at = "read"
  /\ merge' = [merge EXCEPT ![w].at = "truncate",
                            ![w].body = IF runtime.text = "whole" THEN runtime
                                        ELSE Whole(FALSE, FALSE)]
  /\ crossed' = (crossed \/ merge[Other(w)].at \in {"truncate", "put"})
  /\ UNCHANGED <<busVars, runtime, turn, enrolled, tally, seenTime, arrived, troubles, setBack>>

\* write_text opens the file, which empties it,
TruncateRuntime(w) ==
  /\ merge[w].at = "truncate"
  /\ merge' = [merge EXCEPT ![w].at = "put"] /\ runtime' = NoText
  /\ UNCHANGED <<busVars, turn, enrolled, tally, seenTime, arrived, troubles, setBack, crossed>>

\* and writes from its start: over a text the other thread has put there meanwhile.
PutRuntime(w) ==
  LET m == merge[w]
      text == Whole(Set(m.connected, m.body.connected), Set(m.error, m.body.error))
  IN
  /\ m.at = "put"
  /\ runtime' \in IF runtime.text = "empty" THEN {text} ELSE {text, Garbled}
  /\ merge' = [merge EXCEPT ![w] = NoMerge]
  /\ UNCHANGED <<busVars, turn, enrolled, tally, seenTime, arrived, troubles, setBack, crossed>>

MergeStep(w) == ReadRuntime(w) \/ TruncateRuntime(w) \/ PutRuntime(w)

-----------------------------------------------------------------------------
\* The main loop is at a part of its turn, and not writing the file.
At(part) == turn = part /\ Idle("loop")

AlreadyEnrolled ==
  /\ At("register") /\ enrolled /\ turn' = "health"
  /\ UNCHANGED <<busVars, runtime, merge, enrolled, tally, seenTime, arrived, troubles, setBack, crossed>>

\* attempt_registration: the portal does not register the sensor,
RegisterFails ==
  /\ At("register") /\ ~enrolled /\ turn' = "health"
  /\ Begin("loop", AsField(connected), "yes")
  /\ UNCHANGED <<busVars, runtime, enrolled, tally, seenTime, arrived, troubles, setBack, crossed>>

\* or does; the state is published before the file is written.
RegisterSucceeds ==
  /\ At("register") /\ ~enrolled /\ turn' = "announce" /\ enrolled' = TRUE
  /\ UNCHANGED <<busVars, runtime, merge, tally, seenTime, arrived, troubles, setBack, crossed>>

RecordEnrolled ==
  /\ At("enrolled") /\ turn' = "health"
  /\ Begin("loop", AsField(connected), "no") /\ crossed' = (crossed /\ ~Idle("paho"))
  /\ UNCHANGED <<busVars, runtime, enrolled, tally, seenTime, arrived, troubles, setBack>>

\* Mutant: the state of the connection is left to the callbacks.
ReportHealth_NoFlag ==
  /\ At("health") /\ turn' = "state"
  /\ Begin("loop", "none", "none")
  /\ UNCHANGED <<busVars, runtime, enrolled, tally, seenTime, arrived, troubles, setBack, crossed>>

\* The health report goes into the file with the flag of this moment.
ReportHealth ==
  /\ At("health") /\ turn' = "state"
  /\ Begin("loop", AsField(connected), "none")
  /\ UNCHANGED <<busVars, runtime, enrolled, tally, seenTime, arrived, troubles, setBack, crossed>>

\* publish_json: the broker's answer is written to the file,
Published == connected /\ linked /\ Begin("loop", "yes", "none") /\ UNCHANGED troubles

\* or there is none: the client knows it is not connected, or the time is up.
Unpublished ==
  /\ UNCHANGED merge
  /\ \/ (~connected \/ ~linked) /\ UNCHANGED troubles
     \/ connected /\ linked /\ Trouble

AfterState(part) == IF part = "announce" THEN "enrolled" ELSE "coverage"

PublishState ==
  /\ At("announce") \/ At("state")
  /\ turn' = AfterState(turn)
  /\ Published \/ Unpublished
  /\ UNCHANGED <<busVars, runtime, enrolled, tally, seenTime, arrived, setBack, crossed>>

\* _maybe_publish_coverage: the time of the file is compared first,
LookAtTally ==
  /\ At("coverage")
  /\ IF tally.time <= seenTime.last THEN turn' = "register" /\ UNCHANGED seenTime
     ELSE turn' = "tally" /\ seenTime' = [seenTime EXCEPT !.now = tally.time]
  /\ UNCHANGED <<busVars, runtime, merge, enrolled, tally, arrived, troubles, setBack, crossed>>

SeenNothing == seenTime' = [seenTime EXCEPT !.now = seenTime.last]

\* Mutant: the tally counts as sent whether the broker has answered or not.
PublishTally_Once ==
  /\ At("tally") /\ turn' = "register"
  /\ \/ Published /\ enrolled /\ arrived' = tally.version
     \/ Unpublished /\ arrived' \in {arrived, IF linked THEN tally.version ELSE arrived}
     \/ ~enrolled /\ UNCHANGED <<merge, troubles, arrived>>
  /\ seenTime' = [seenTime EXCEPT !.last = seenTime.now]
  /\ UNCHANGED <<busVars, runtime, enrolled, tally, setBack, crossed>>

\* then the file is read and published, once there is a tenant; what was not answered may
\* have arrived, and is sent again.
PublishTally ==
  /\ At("tally") /\ turn' = "register"
  /\ \/ /\ Published /\ enrolled /\ arrived' = tally.version
        /\ seenTime' = [seenTime EXCEPT !.last = seenTime.now]
     \/ /\ Unpublished /\ SeenNothing
        /\ arrived' \in {arrived, IF linked /\ enrolled THEN tally.version ELSE arrived}
     \/ ~enrolled /\ SeenNothing /\ UNCHANGED <<merge, troubles, arrived>>
  /\ UNCHANGED <<busVars, runtime, enrolled, tally, setBack, crossed>>

\* Killed, the agent starts again; the file stays as it is, whole or not.
KillStatus ==
  /\ Trouble
  /\ linked' = FALSE /\ connected' = FALSE /\ merge' = [w \in Writers |-> NoMerge]
  /\ turn' = "register" /\ enrolled' = FALSE
  /\ seenTime' = [now |-> 0, last |-> 0] /\ setBack' = FALSE
  /\ UNCHANGED <<network, runtime, tally, arrived, crossed>>

TurnStep ==
  \/ AlreadyEnrolled \/ RegisterFails \/ RegisterSucceeds \/ RecordEnrolled \/ ReportHealth
  \/ PublishState \/ LookAtTally \/ PublishTally

LoopWorks == TurnStep \/ MergeStep("loop")
PahoWorks == OnConnected \/ OnDisconnected \/ MergeStep("paho")

StatusNext ==
  \/ NetworkFails \/ NetworkReturns \/ TallyWritten \/ OnRefused
  \/ LoopWorks \/ PahoWorks \/ KillStatus

StatusSpec == StatusInit /\ [][StatusNext]_statusVars

\* Fairness: both threads go on; the broker need never return.
StatusFairSpec ==
  /\ StatusSpec
  /\ WF_statusVars(LoopWorks) /\ WF_statusVars(PahoWorks)

-----------------------------------------------------------------------------
\* load_agent_runtime and northbound_mqtt_ok: a text that is no JSON shows nothing, and an
\* old one is shown all the same.
Shown == runtime.text = "whole" /\ runtime.connected

\* The console and the portal end up with the truth whatever calls have met: in the end there
\* is a file to show whenever nobody is writing it, though a refused client goes on writing; it
\* shows the connection that there is, and no error of a registration that has since succeeded
\* unless the two writers have met (write_agent_runtime, _on_connect, _on_disconnect); and a
\* broker that stays has the last tally of a registered sensor, unless the clock was set back
\* (_maybe_publish_coverage).
StatusFollows ==
  <>[](/\ (network # "refusing" /\ \A w \in Writers : Idle(w)) => runtime.text = "whole"
       /\ runtime.text = "whole" => (Shown <=> linked)
       /\ (runtime.text = "whole" /\ enrolled /\ ~crossed) => ~runtime.error
       /\ (network = "up" /\ enrolled) => (arrived = tally.version \/ setBack))
=============================================================================
