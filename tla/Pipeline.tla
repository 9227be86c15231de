------------------------------- MODULE Pipeline -------------------------------
(***************************************************************************)
(* The packet sensor's pipeline (pipeline/processor.py): the capture       *)
(* thread evaluates every packet, the main thread every window, and both   *)
(* raise events through one MvpDetector (detection/mvp.py), append them to *)
(* one log and count them in one CoverageCounter (coverage/counter.py).    *)
(*                                                                         *)
(* A packet is sent by a peer to the one asset of the policy.  Most rules  *)
(* alert once per peer and remember that in sets; what an evaluation only  *)
(* the capture thread does is one step, down to the IDs of its events:     *)
(* _next_event_id increments the counter of the detector, then reads it.   *)
(***************************************************************************)
EXTENDS Integers, Sequences

CONSTANTS
  Peers,        \* the hosts that talk to the asset
  Asset,        \* the asset
  Packets,      \* the packets: peer, proto, and a flag: a write, or GOOSE's test bit
  Policies,     \* the policies: allowed peers, rules enabled
  MaxPackets,   \* bound: the packets processed
  MaxWindows    \* bound: the windows flushed

\* The rules of the two detectors; OT-008 and OT-009 are those of a window.
MvpRules == {"OT-004", "OT-007", "OT-008", "OT-009", "OT-010"}
IecRules == {"OT-011", "OT-012", "OT-014", "OT-016", "OT-018"}
Rules    == MvpRules \union IecRules

\* The rules that alert once per peer, or once for the asset.
OnceRules == {"OT-004", "OT-009", "OT-010", "OT-011", "OT-014", "OT-018"}

ASSUME PipelineAssumption ==
  /\ Asset \notin Peers
  /\ Packets \subseteq [peer : Peers, proto : {"modbus", "goose", "mms"}, flag : BOOLEAN]
  /\ Policies \subseteq [allowed : SUBSET Peers, rules : (SUBSET Rules) \ {{}}]
  /\ Packets # {} /\ Policies # {}
  /\ MaxPackets \in Nat /\ MaxWindows \in Nat

Threads == {"capture", "main"}
Seqs    == {"mvp", "61850"}

VARIABLES
  detecting,   \* the mode store says "detect"
  policy,      \* the policy of the detectors
  marked,      \* the alert-once sets: rule and peer
  eventSeq,    \* _event_seq of the two detectors
  at,          \* where each thread is
  packet,      \* the packet being processed
  todo,        \* the events of an evaluation that have no ID yet: rule and peer
  bumped,      \* the counter has been incremented for the first of them
  out,         \* the events evaluated, with IDs, not yet emitted
  emitting,    \* _emit has found the mode to be "detect"
  events,      \* security-events.jsonl
  recorded,    \* the events the coverage counter has counted
  dirty,       \* _dirty of the counter
  snapped,     \* the snapshot being written
  filed,       \* the count in coverage-counters.json
  packets,     \* how many packets have been processed
  windows,     \* how many windows have been flushed
  silenced,    \* history: marks without an event, for a reason
  late         \* history: the events recorded since the last snapshot, while it was written

threads  == <<at, packet, todo, bumped, out, emitting>>
coverage == <<recorded, dirty, snapped, filed, late>>
pipeVars == <<detecting, policy, marked, eventSeq, threads, events, coverage,
              packets, windows, silenced>>

Alerts == Rules \X (Peers \union {Asset})
EventRows == [rule : Rules, peer : Peers \union {Asset}, id : Nat, by : Threads]

PipeTypeOK ==
  /\ detecting \in BOOLEAN
  /\ policy \in Policies
  /\ marked \subseteq OnceRules \X (Peers \union {Asset})
  /\ eventSeq \in [Seqs -> Nat]
  /\ at \in [Threads -> {"idle", "observe", "frame", "window", "coverage", "clean"}]
  /\ packet \in Packets
  /\ todo \in [Threads -> Seq(Alerts)]
  /\ bumped \in [Threads -> BOOLEAN]
  /\ out \in [Threads -> Seq(EventRows)]
  /\ emitting \in [Threads -> BOOLEAN]
  /\ events \in Seq(EventRows)
  /\ {recorded, snapped, filed, late} \subseteq Nat
  /\ dirty \in BOOLEAN
  /\ packets \in 0 .. MaxPackets /\ windows \in 0 .. MaxWindows
  /\ silenced \subseteq Alerts

PipeInit ==
  /\ detecting \in BOOLEAN /\ policy \in Policies
  /\ marked = {} /\ eventSeq = [s \in Seqs |-> 0]
  /\ at = [t \in Threads |-> "idle"] /\ packet = (CHOOSE p \in Packets : TRUE)
  /\ todo = [t \in Threads |-> <<>>] /\ bumped = [t \in Threads |-> FALSE]
  /\ out = [t \in Threads |-> <<>>] /\ emitting = [t \in Threads |-> FALSE]
  /\ events = <<>> /\ recorded = 0 /\ dirty = FALSE /\ snapped = 0 /\ filed = 0
  /\ packets = 0 /\ windows = 0 /\ silenced = {} /\ late = 0

-----------------------------------------------------------------------------
\* The operational mode changes; every look at the mode store may see it.
ChangeMode ==
  /\ detecting' = ~detecting
  /\ UNCHANGED <<policy, marked, eventSeq, threads, events, coverage, packets, windows, silenced>>

Enabled(rule) == rule \in policy.rules

Allowed(peer) == peer \in policy.allowed

Unmarked(rule, peer) == <<rule, peer>> \notin marked

\* The rule has not alerted on the peer and the policy does not allow it.
Newcomer(rule, peer) == Unmarked(rule, peer) /\ ~Allowed(peer)

When(rule, fires) == IF fires THEN <<rule>> ELSE <<>>

-----------------------------------------------------------------------------
\* The rules an evaluation finds, in the order it raises their events, and the
\* peers it enters in the alert-once sets.  A pair it knows from before, or that
\* the policy allows when first seen, raises none.

\* evaluate_observation.  OT-004 stands for OT-001, OT-002 and OT-005, which mark
\* whom they see, too, and OT-010 for OT-006, which marks whom it reports.
ObserveFires(p) ==
  When("OT-004", Enabled("OT-004") /\ Newcomer("OT-004", p))
    \o When("OT-010", Enabled("OT-010") /\ Newcomer("OT-010", p))

\* Mutant: the sets are filled whether the rule is enabled or not.
ObserveMarks_Always(p) ==
  {"OT-004"} \union {rule \in {"OT-010"} : ~Allowed(p)}

ObserveMarks(p) ==
  {rule \in {"OT-004", "OT-010"} : Enabled(rule) /\ (rule = "OT-010" => ~Allowed(p))}

\* evaluate_modbus
ModbusFires(p, write) == When("OT-007", Enabled("OT-007") /\ write /\ ~Allowed(p))

\* evaluate_goose: a test bit is reported of a known publisher, too.  Rules that are
\* not enabled are evaluated, marked and numbered like the others; their events are
\* dropped at the end.
GooseFires(p, test) == When("OT-011", Newcomer("OT-011", p)) \o When("OT-012", test)

\* evaluate_mms
MmsFires(p, write) ==
  When("OT-014", Newcomer("OT-014", p)) \o When("OT-016", write /\ ~Allowed(p))
    \o When("OT-018", Newcomer("OT-018", p))

MmsMarks(p) == {"OT-014"} \union {rule \in {"OT-018"} : ~Allowed(p)}

\* Thread t goes to stage s with these rules found for peer p, and marks made.
Evaluate(t, s, fires, marks, p) ==
  /\ at' = [at EXCEPT ![t] = s]
  /\ todo' = [todo EXCEPT ![t] = [i \in 1 .. Len(fires) |-> <<fires[i], p>>]]
  /\ marked' = marked \union (marks \X {p})
  /\ silenced' = silenced \union
       {<<rule, p>> : rule \in {r \in marks : Unmarked(r, p) /\ Allowed(p)}}

-----------------------------------------------------------------------------
\* The capture thread: process.

\* Thread t has no event in hand.
NothingInHand(t) == todo[t] = <<>> /\ out[t] = <<>>

\* A packet: the policy may be reloaded, and the addresses are looked at.
Process(p) ==
  /\ at["capture"] = "idle" /\ NothingInHand("capture")
  /\ packets < MaxPackets
  /\ packets' = packets + 1
  /\ packet' = p
  /\ policy' \in Policies
  /\ at' = [at EXCEPT !["capture"] = "observe"]
  /\ UNCHANGED <<detecting, marked, eventSeq, todo, bumped, out, emitting, events, coverage,
                 windows, silenced>>

Observe ==
  /\ at["capture"] = "observe" /\ NothingInHand("capture")
  /\ Evaluate("capture", "frame", ObserveFires(packet.peer), ObserveMarks(packet.peer), packet.peer)
  /\ UNCHANGED <<detecting, policy, eventSeq, packet, bumped, out, emitting, events, coverage,
                 packets, windows>>

\* Its frame is parsed once the events so far have been emitted.
Frame ==
  /\ at["capture"] = "frame" /\ NothingInHand("capture")
  /\ LET p == packet.peer IN
     \/ /\ packet.proto = "modbus"
        /\ Evaluate("capture", "idle", ModbusFires(p, packet.flag), {}, p)
     \/ /\ packet.proto = "goose"
        /\ Evaluate("capture", "idle", GooseFires(p, packet.flag), {"OT-011"}, p)
     \/ /\ packet.proto = "mms"
        /\ Evaluate("capture", "idle", MmsFires(p, packet.flag), MmsMarks(p), p)
  /\ UNCHANGED <<detecting, policy, eventSeq, packet, bumped, out, emitting, events, coverage,
                 packets, windows>>

-----------------------------------------------------------------------------
\* The main thread: flush_features.

\* The rules of evaluate_window: whether the rate is exceeded, and whether the
\* asset has been silent, is a free choice.
WindowFires(high, silent) ==
  When("OT-008", Enabled("OT-008") /\ high)
    \o When("OT-009", Enabled("OT-009") /\ silent /\ Unmarked("OT-009", Asset))

Window(high, silent) ==
  /\ at["main"] = "idle" /\ NothingInHand("main")
  /\ windows < MaxWindows
  /\ windows' = windows + 1
  /\ Evaluate("main", "window", WindowFires(high, silent),
              {rule \in {"OT-009"} : Enabled(rule) /\ silent}, Asset)
  /\ UNCHANGED <<detecting, policy, eventSeq, packet, bumped, out, emitting, events, coverage, packets>>

\* The coverage is flushed in detect mode and when there is something new.
SkipCoverage ==
  /\ at["main"] = "window" /\ NothingInHand("main")
  /\ ~detecting \/ ~dirty
  /\ at' = [at EXCEPT !["main"] = "idle"]
  /\ UNCHANGED <<detecting, policy, marked, eventSeq, packet, todo, bumped, out, emitting,
                 events, coverage, packets, windows, silenced>>

Snapshot ==
  /\ at["main"] = "window" /\ NothingInHand("main")
  /\ detecting /\ dirty
  /\ snapped' = recorded
  /\ late' = 0
  /\ at' = [at EXCEPT !["main"] = "coverage"]
  /\ UNCHANGED <<detecting, policy, marked, eventSeq, packet, todo, bumped, out, emitting,
                 events, recorded, dirty, filed, packets, windows, silenced>>

\* Mutant: the counter is clean whether or not the file could be written.
FileFails_Clean ==
  /\ at["main"] = "coverage"
  /\ at' = [at EXCEPT !["main"] = "clean"]
  /\ UNCHANGED <<detecting, policy, marked, eventSeq, packet, todo, bumped, out, emitting,
                 events, coverage, packets, windows, silenced>>

\* The dictionaries change while they are sorted, or the file cannot be written.
FileFails ==
  /\ at["main"] = "coverage"
  /\ at' = [at EXCEPT !["main"] = "idle"]
  /\ UNCHANGED <<detecting, policy, marked, eventSeq, packet, todo, bumped, out, emitting,
                 events, coverage, packets, windows, silenced>>

\* The file is replaced, ...
File ==
  /\ at["main"] = "coverage"
  /\ filed' = snapped
  /\ at' = [at EXCEPT !["main"] = "clean"]
  /\ UNCHANGED <<detecting, policy, marked, eventSeq, packet, todo, bumped, out, emitting,
                 events, recorded, dirty, snapped, late, packets, windows, silenced>>

\* ... then the counter is no longer dirty.
Clean ==
  /\ at["main"] = "clean"
  /\ dirty' = FALSE
  /\ at' = [at EXCEPT !["main"] = "idle"]
  /\ UNCHANGED <<detecting, policy, marked, eventSeq, packet, todo, bumped, out, emitting,
                 events, recorded, snapped, filed, late, packets, windows, silenced>>

-----------------------------------------------------------------------------
\* Both threads: numbering and emitting.

CounterOf(rule) == IF rule \in MvpRules THEN "mvp" ELSE "61850"

\* _next_event_id increments the counter ...
Bump(t) ==
  /\ todo[t] # <<>> /\ ~bumped[t]
  /\ eventSeq' = [eventSeq EXCEPT ![CounterOf(Head(todo[t])[1])] = @ + 1]
  /\ bumped' = [bumped EXCEPT ![t] = TRUE]
  /\ UNCHANGED <<detecting, policy, marked, at, packet, todo, out, emitting, events, coverage,
                 packets, windows, silenced>>

\* The first event of thread t that has no ID, numbered.
Numbered(t) ==
  [rule |-> Head(todo[t])[1], peer |-> Head(todo[t])[2],
   id |-> eventSeq[CounterOf(Head(todo[t])[1])], by |-> t]

\* ... and reads it.  An event of the IEC 61850 detector whose rule is not enabled
\* has had its ID and is dropped.
Number(t) ==
  /\ bumped[t]
  /\ todo' = [todo EXCEPT ![t] = Tail(@)]
  /\ IF Enabled(Numbered(t).rule) \/ Numbered(t).rule \in MvpRules
     THEN out' = [out EXCEPT ![t] = Append(@, Numbered(t))] /\ UNCHANGED silenced
     ELSE silenced' = silenced \union {Head(todo[t])} /\ UNCHANGED out
  /\ bumped' = [bumped EXCEPT ![t] = FALSE]
  /\ UNCHANGED <<detecting, policy, marked, eventSeq, at, packet, emitting, events, coverage,
                 packets, windows>>

Ready(t) == todo[t] = <<>> /\ out[t] # <<>> /\ ~emitting[t]

\* _emit drops all events of the evaluation unless the mode is "detect" now.
Drop(t) ==
  /\ Ready(t) /\ ~detecting
  /\ silenced' = silenced \union {<<out[t][i].rule, out[t][i].peer>> : i \in 1 .. Len(out[t])}
  /\ out' = [out EXCEPT ![t] = <<>>]
  /\ UNCHANGED <<detecting, policy, marked, eventSeq, at, packet, todo, bumped, emitting,
                 events, coverage, packets, windows>>

BeginEmit(t) ==
  /\ Ready(t) /\ detecting
  /\ emitting' = [emitting EXCEPT ![t] = TRUE]
  /\ UNCHANGED <<detecting, policy, marked, eventSeq, at, packet, todo, bumped, out,
                 events, coverage, packets, windows, silenced>>

\* An event is appended to the log and counted.
Emit(t) ==
  /\ emitting[t]
  /\ events' = Append(events, Head(out[t]))
  /\ recorded' = recorded + 1
  /\ dirty' = TRUE
  /\ late' = late + (IF at["main"] \in {"coverage", "clean"} THEN 1 ELSE 0)
  /\ out' = [out EXCEPT ![t] = Tail(@)]
  /\ emitting' = [emitting EXCEPT ![t] = Len(out[t]) > 1]
  /\ UNCHANGED <<detecting, policy, marked, eventSeq, at, packet, todo, bumped, snapped, filed,
                 packets, windows, silenced>>

-----------------------------------------------------------------------------
CaptureStep == (\E p \in Packets : Process(p)) \/ Observe \/ Frame

MainStep ==
  (\E high, silent \in BOOLEAN : Window(high, silent))
    \/ SkipCoverage \/ Snapshot \/ FileFails \/ File \/ Clean

EventStep(t) == Bump(t) \/ Number(t) \/ Drop(t) \/ BeginEmit(t) \/ Emit(t)

PipeNext == ChangeMode \/ CaptureStep \/ MainStep \/ (\E t \in Threads : EventStep(t))

PipeSpec == PipeInit /\ [][PipeNext]_pipeVars

-----------------------------------------------------------------------------
InLog(rule, peer) == {i \in 1 .. Len(events) : events[i].rule = rule /\ events[i].peer = peer}

InHand(rule, peer) ==
  \E t \in Threads :
    \/ \E i \in 1 .. Len(todo[t]) : todo[t][i] = <<rule, peer>>
    \/ \E i \in 1 .. Len(out[t]) : out[t][i].rule = rule /\ out[t][i].peer = peer

\* Event IDs: in the log, the IDs one detector gives the events of one thread go
\* up.  Two events have the same ID only if the threads met between the increment
\* and the read of the counter (_next_event_id).
IdsGoUp ==
  \A i, j \in 1 .. Len(events) :
    i < j /\ events[i].by = events[j].by /\ CounterOf(events[i].rule) = CounterOf(events[j].rule)
      => events[i].id < events[j].id

\* A rule that alerts once per peer does so: whoever is in its set has been
\* alerted on once, is about to be, or was passed over for a reason (allowed when
\* first seen, the rule not enabled, the mode not "detect"), and never twice.
AlertedOnce ==
  \A rule \in OnceRules : \A peer \in Peers \union {Asset} :
    /\ <<rule, peer>> \in marked =>
         InLog(rule, peer) # {} \/ InHand(rule, peer) \/ <<rule, peer>> \in silenced
    /\ \A i, j \in InLog(rule, peer) : i = j

\* A counter that is not dirty has nothing to flush but what was recorded while
\* the last flush was writing, and that stays out of the file until the next
\* event (CoverageCounter.flush resets _dirty after the write).
CoverageComplete == ~dirty => recorded = filed + late
=============================================================================
