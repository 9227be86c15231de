------------------------------ MODULE ObserveTicks ------------------------------
(***************************************************************************)
(* The minute ticks the agent publishes while a session is observed or     *)
(* learned (northbound/observe_tick_publisher.py).  A tick carries an      *)
(* index that goes on from the saved state, says whether it continues the  *)
(* tick before ("ok") or not ("reset"), and, in listen mode, how many      *)
(* assets are new since the counts in that state (topology_delta.py).      *)
(*                                                                         *)
(* The mode file is written by another thread: what it says is free.  A    *)
(* tick reported as failed may have arrived, one that is confirmed may     *)
(* arrive again.  A boot ID is int() of the monotonic clock, which a       *)
(* restart of the host sets back.                                          *)
(***************************************************************************)
EXTENDS Integers

CONSTANTS
  TickSessions,   \* the sessions
  MaxTicks,       \* bound: the ticks tried
  MaxAssets,      \* bound: the assets the sensor sees
  MaxBoots        \* bound: how often the agent is started

ASSUME TickAssumption ==
  MaxTicks \in Nat /\ MaxAssets \in Nat /\ MaxBoots \in Nat \ {0}

\* What the publisher makes of the mode file: the kind of session and the session;
\* NoTick if the mode has none, the file has no session, or cannot be read.
NoTick == [kind |-> "none"]
Asked  == {NoTick} \union [kind : {"observe", "learn"}, session : TickSessions]

\* The state file: NoState if it is missing or cannot be read.
NoState == [index |-> 0, counts |-> 0]
States  == [session : TickSessions, index : Nat, boot : 1 .. MaxBoots, counts : 0 .. MaxAssets]
Ticks   == [session : TickSessions, index : Nat, boot : 1 .. MaxBoots,
            continuity : {"ok", "reset"}, delta : Int]

\* A tick without topology_delta.
NoDelta == -1

VARIABLES
  asked,       \* what operational-mode.json says
  assets,      \* the assets in live-observed.json
  boot,        \* the boot ID of the agent
  boots,       \* how often the agent has been started
  tickState,   \* observe-tick-state.json
  confirmed,   \* the tick just published, while its state is not saved
  counted,     \* the assets it was computed from
  tries,       \* how many ticks have been tried
  received,    \* history: the last tick the portal has received
  arrivals,    \* history: how many it has received, repetitions included
  reported,    \* history: the sum of their deltas, each tick's counted once
  unseen,      \* history: the assets that came between the count of a tick and its save
  doubtful,    \* history: a tick has arrived though reported as failed, none saved since
  setBack      \* history: the host has been restarted

tickVars == <<asked, assets, boot, boots, tickState, confirmed, counted, tries,
              received, arrivals, reported, unseen, doubtful, setBack>>

NoTicks == [session |-> "none"]

TickTypeOK ==
  /\ asked \in Asked
  /\ assets \in 0 .. MaxAssets /\ counted \in 0 .. MaxAssets
  /\ boots \in 1 .. MaxBoots /\ boot \in 1 .. boots
  /\ tickState = NoState \/ tickState \in States
  /\ confirmed = NoTicks \/ confirmed \in Ticks
  /\ received = NoTicks \/ received \in Ticks
  /\ tries \in 0 .. MaxTicks /\ arrivals \in 0 .. 2 * tries
  /\ reported \in Nat /\ unseen \in Nat
  /\ doubtful \in BOOLEAN /\ setBack \in BOOLEAN

TickInit ==
  /\ asked = NoTick /\ assets = 0 /\ boot = 1 /\ boots = 1
  /\ tickState = NoState /\ confirmed = NoTicks /\ counted = 0 /\ tries = 0
  /\ received = NoTicks /\ arrivals = 0 /\ reported = 0 /\ unseen = 0
  /\ doubtful = FALSE /\ setBack = FALSE

-----------------------------------------------------------------------------
\* The mode file is rewritten by the MQTT thread.
ChangeAsked ==
  /\ asked' \in Asked \ {asked}
  /\ UNCHANGED <<assets, boot, boots, tickState, confirmed, counted, tries,
                 received, arrivals, reported, unseen, doubtful, setBack>>

\* The sensor sees an asset more, or starts anew with none.
ChangeAssets ==
  /\ assets' \in {0, assets + 1} \intersect 0 .. MaxAssets
  /\ UNCHANGED <<asked, boot, boots, tickState, confirmed, counted, tries,
                 received, arrivals, reported, unseen, doubtful, setBack>>

\* Mutant: the boot ID is not compared.
Continues_SessionOnly == tickState # NoState /\ tickState.session = asked.session

\* The state is of the same session and the same start of the agent.
Continues ==
  /\ tickState # NoState
  /\ tickState.session = asked.session
  /\ tickState.boot = boot

\* compute_topology_delta, in listen mode only.
Delta ==
  IF asked.kind # "observe" \/ assets = 0 THEN NoDelta
  ELSE IF assets > tickState.counts THEN assets - tickState.counts ELSE 0

Tick == [session |-> asked.session, index |-> tickState.index + 1, boot |-> boot,
         continuity |-> IF Continues THEN "ok" ELSE "reset", delta |-> Delta]

\* maybe_publish up to the publish: there is a session to report on.
Due == confirmed = NoTicks /\ asked # NoTick /\ tries < MaxTicks

TickArrives ==
  /\ received' = Tick
  /\ arrivals' = arrivals + 1
  /\ reported' = reported + (IF Delta > 0 THEN Delta ELSE 0)

PublishTick ==
  /\ Due
  /\ tries' = tries + 1
  /\ TickArrives
  /\ confirmed' = Tick
  /\ counted' = assets
  /\ UNCHANGED <<asked, assets, boot, boots, tickState, unseen, doubtful, setBack>>

\* The acknowledgement of the tick is lost with the connection; the client reconnects
\* while wait_for_publish waits, and sends the tick again (QoS 1).
ResendTick ==
  /\ confirmed # NoTicks
  /\ arrivals < 2 * tries   \* bound: how often it does
  /\ received' = confirmed
  /\ arrivals' = arrivals + 1
  /\ UNCHANGED <<asked, assets, boot, boots, tickState, confirmed, counted, tries,
                 reported, unseen, doubtful, setBack>>

\* Mutant: the state is saved whatever the outcome.
TickFails_Saves ==
  /\ Due
  /\ tries' = tries + 1
  /\ confirmed' = Tick
  /\ counted' = assets
  /\ UNCHANGED <<asked, assets, boot, boots, tickState, received, arrivals, reported,
                 unseen, doubtful, setBack>>

\* Nothing is saved; the tick may have arrived, or arrive before the next.
TickFails ==
  /\ Due
  /\ tries' = tries + 1
  /\ \/ TickArrives /\ doubtful' = TRUE
     \/ UNCHANGED <<received, arrivals, reported, doubtful>>
  /\ UNCHANGED <<asked, assets, boot, boots, tickState, confirmed, counted, unseen, setBack>>

\* _save_state.  The counts are read anew.
SaveTick ==
  /\ confirmed # NoTicks
  /\ LET counts == IF confirmed.delta = NoDelta THEN 0 ELSE assets IN
     /\ tickState' = [session |-> confirmed.session, index |-> confirmed.index,
                      boot |-> boot, counts |-> counts]
     /\ unseen' = unseen + (IF counts > counted THEN counts - counted ELSE 0)
  /\ doubtful' = FALSE
  /\ confirmed' = NoTicks
  /\ counted' = 0
  /\ UNCHANGED <<asked, assets, boot, boots, tries, received, arrivals, reported, setBack>>

\* The agent is started anew: the state file, written in place, may be left empty.
\* If the host is, too, the monotonic clock may come to a value it had before.
RestartAgent ==
  /\ boots < MaxBoots
  /\ boots' = boots + 1
  /\ \/ boot' = boots + 1 /\ UNCHANGED setBack
     \/ boot' \in 1 .. boots /\ setBack' = TRUE
  /\ tickState' \in {tickState} \union (IF confirmed # NoTicks THEN {NoState} ELSE {})
  /\ confirmed' = NoTicks /\ counted' = 0
  /\ UNCHANGED <<asked, assets, tries, received, arrivals, reported, unseen, doubtful>>

TickNext ==
  \/ ChangeAsked \/ ChangeAssets
  \/ PublishTick \/ ResendTick \/ TickFails \/ SaveTick \/ RestartAgent

TickSpec == TickInit /\ [][TickNext]_tickVars

-----------------------------------------------------------------------------
\* A tick that says it continues the session does: the tick the portal received
\* before it is of the same session and start of the agent and has the index
\* before, whatever was lost, killed or switched in between; or it is that tick, sent
\* a second time by the MQTT client within one attempt.  Excepted are ticks after one
\* wrongly reported as failed, and a host restarted (maybe_publish).
TickContinuity ==
  [][ arrivals' # arrivals /\ received'.continuity = "ok" /\ ~doubtful /\ ~setBack =>
        IF tries' = tries
        THEN received' = received
        ELSE /\ received # NoTicks
             /\ received.session = received'.session
             /\ received.boot = received'.boot
             /\ received'.index = received.index + 1 ]_tickVars

\* The deltas add up: every asset the state file counts has been in a tick the
\* portal received, but for those that came while one was being published, which
\* _save_state counts and no tick ever reports.
DeltasAddUp == tickState.counts <= reported + unseen
=============================================================================
