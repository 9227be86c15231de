----------------------------- MODULE WifiFailover -----------------------------
(***************************************************************************)
(* The fallback Wi-Fi networks of an appliance.  The Edge Console connects *)
(* to a network, which prunes the remembered ones, and lets the operator   *)
(* pin networks in an order of priority (wifi_service.py); a systemd timer *)
(* runs a script that tries the pinned ones when there is no Internet      *)
(* (net-failover.sh).                                                      *)
(*                                                                         *)
(* A network is an AP with a profile in NetworkManager, which keeps its    *)
(* last activation and its autoconnect priority.  Each nmcli call and each *)
(* step of a write to wifi-priority.json is a command of its own.  One     *)
(* connect and one pin request may run at a time; there is one Wi-Fi card. *)
(***************************************************************************)
EXTENDS Integers, SequencesExt

CONSTANTS
  APs,            \* networks
  NoLink,         \* connected to none
  Keep,           \* _WIFI_HISTORY_KEEP, remembered networks that are not pinned: 3
  MaxPinned,      \* _WIFI_PINNED_MAX, networks that may be pinned: 10
  FailThreshold,  \* NETWATCH_FAIL_THRESHOLD, offline checks before acting: 2
  MaxConnects,    \* bound: connect requests
  MaxPins,        \* bound: pin requests
  MaxNetChanges   \* bound: how often a network changes

\* There are 100 priorities between the pinned networks' and the others'.
ASSUME WifiAssumption ==
  /\ NoLink \notin APs
  /\ {Keep, FailThreshold} \subseteq Nat \ {0}
  /\ MaxPinned \in 1 .. 100
  /\ {MaxConnects, MaxPins, MaxNetChanges} \subseteq Nat

VARIABLES
  profiles,       \* the saved networks, the one activated last first
  priority,       \* the autoconnect priority of each network's profile
  pinFile,        \* "order" in wifi-priority.json, empty while it is being written
  commands,       \* what the "connect" and the "pin" request still have to do
  wifiRequests,   \* how many there were of each
  disturbed,      \* history: a nmcli call failed, or a connect met a pin request
  air,            \* each network: "gone", "there" without Internet, or "good"
  netChanges,     \* how many changes there were
  link,           \* the network the appliance is connected to
  failcount,      \* failcount in the script's state directory
  candidates      \* the networks the script still has to try

consoleSide == <<priority, pinFile, commands, wifiRequests, disturbed>>
scriptSide  == <<failcount, candidates>>
netSide     == <<air, netChanges>>
wifiVars    == <<profiles, link, consoleSide, scriptSide, netSide>>

\* The orders a pin request may ask for.
Orders == {s \in BoundedSeq(APs, MaxPinned) : IsInjective(s)}

Calls == [do : {"modify"}, ap : APs, to : Int] \union [do : {"delete"}, ap : APs]
Command == Calls \union [do : {"list"}, ap : APs] \union [do : {"pins"}, seen : Seq(APs)]
           \union [do : {"truncate"}] \union [do : {"write"}, order : Orders]

WifiTypeOK ==
  /\ profiles \in Seq(APs) /\ IsInjective(profiles)
  /\ priority \in [APs -> Int] /\ pinFile \in Orders
  /\ commands \in [{"connect", "pin"} -> Seq(Command)]
  /\ disturbed \in BOOLEAN
  /\ wifiRequests \in [{"connect", "pin"} -> Nat]
  /\ wifiRequests["connect"] <= MaxConnects /\ wifiRequests["pin"] <= MaxPins
  /\ air \in [APs -> {"gone", "there", "good"}] /\ netChanges \in 0 .. MaxNetChanges
  /\ link \in APs \union {NoLink} /\ failcount \in Nat
  /\ candidates \in Seq(APs)

WifiInit ==
  /\ profiles = <<>> /\ priority = [a \in APs |-> 0] /\ pinFile = <<>>
  /\ commands = [t \in {"connect", "pin"} |-> <<>>]
  /\ wifiRequests = [t \in {"connect", "pin"} |-> 0] /\ disturbed = FALSE
  /\ air \in [APs -> {"gone", "good"}] /\ netChanges = 0 /\ link = NoLink
  /\ failcount = 0 /\ candidates = <<>>

Saved(ap) == ap \in ToSet(profiles)

\* The members of a list that are in S, in its order: there is one such sequence.
Chosen(list, S) ==
  {t \in BoundedSeq(S, Len(list)) :
     /\ IsInjective(t) /\ ToSet(t) = ToSet(list) \intersect S
     /\ \A i, j \in DOMAIN t, k, l \in DOMAIN list :
          i < j /\ list[k] = t[i] /\ list[l] = t[j] => k < l}

\* The list with the network first.
Foremost(ap, list) == {<<ap>> \o rest : rest \in Chosen(list, APs \ {ap})}

-----------------------------------------------------------------------------
\* Networks come and go; a link to one that goes is lost.
NetworkChanges(ap, state) ==
  /\ netChanges < MaxNetChanges /\ air[ap] # state
  /\ netChanges' = netChanges + 1
  /\ air' = [air EXCEPT ![ap] = state]
  /\ link' = IF link = ap /\ state = "gone" THEN NoLink ELSE link
  /\ UNCHANGED <<profiles, consoleSide, scriptSide>>

-----------------------------------------------------------------------------
\* The console.

Idle(t) == commands[t] = <<>>

\* connect: once it is up, the profile is there, a new one with priority 0.
ConnectTo(ap) ==
  /\ Idle("connect") /\ wifiRequests["connect"] < MaxConnects
  /\ air[ap] # "gone"
  /\ link' = ap
  /\ profiles' \in Foremost(ap, profiles)
  /\ priority' = IF Saved(ap) THEN priority ELSE [priority EXCEPT ![ap] = 0]
  /\ commands' = [commands EXCEPT !["connect"] = <<[do |-> "list", ap |-> ap]>>]
  /\ wifiRequests' = [wifiRequests EXCEPT !["connect"] = @ + 1]
  /\ disturbed' = (disturbed \/ ~Idle("pin"))
  /\ UNCHANGED <<pinFile, scriptSide, netSide>>

Modify(order, base) ==
  [i \in 1 .. Len(order) |-> [do |-> "modify", ap |-> order[i], to |-> base - (i - 1)]]
Delete(order) == [i \in 1 .. Len(order) |-> [do |-> "delete", ap |-> order[i]]]

\* promote_and_prune_wifi: the profiles are listed, the active one first, then the
\* pins are read.  It returns at once when it gets no list.
ListProfiles ==
  /\ ~Idle("connect") /\ Head(commands["connect"]).do = "list"
  /\ \/ \E list \in Foremost(Head(commands["connect"]).ap, profiles) :
          commands' = [commands EXCEPT !["connect"] = <<[do |-> "pins", seen |-> list]>>]
     \/ commands' = [commands EXCEPT !["connect"] = <<>>]
  /\ UNCHANGED <<profiles, link, priority, pinFile, wifiRequests, disturbed, scriptSide, netSide>>

\* Mutant: the pins are not looked at.
Managed_All == APs

\* The networks whose order is that of their use: those that are not pinned.
Managed == APs \ ToSet(pinFile)

\* The last ones used are kept and the others deleted.
Pruning(others) ==
  LET kept == IF Len(others) < Keep THEN Len(others) ELSE Keep IN
  Modify(SubSeq(others, 1, kept), 100) \o Delete(SubSeq(others, kept + 1, Len(others)))

ReadPins ==
  /\ ~Idle("connect") /\ Head(commands["connect"]).do = "pins"
  /\ \E others \in Chosen(Head(commands["connect"]).seen, Managed) :
       commands' = [commands EXCEPT !["connect"] = Pruning(others)]
  /\ UNCHANGED <<profiles, link, priority, pinFile, wifiRequests, disturbed, scriptSide, netSide>>

\* The pinned ones get their priorities, those that were pinned get priority 0, and
\* the order is written.
Repin(order, old) ==
  Modify(order, 200)
  \o [i \in 1 .. Len(old) |-> [do |-> "modify", ap |-> old[i], to |-> 0]]
  \o <<[do |-> "truncate"], [do |-> "write", order |-> order]>>

\* set_wifi_priority: only networks with a profile are accepted.  When it gets no
\* list of the profiles, none is.
SetPriority(order) ==
  /\ Idle("pin") /\ wifiRequests["pin"] < MaxPins
  /\ \/ \E new \in Chosen(order, ToSet(profiles)) :
          /\ \E old \in Chosen(pinFile, ToSet(profiles) \ ToSet(new)) :
               commands' = [commands EXCEPT !["pin"] = Repin(new, old)]
          /\ disturbed' = (disturbed \/ ~Idle("connect"))
     \/ /\ commands' = [commands EXCEPT !["pin"] = Repin(<<>>, <<>>)]
        /\ disturbed' = TRUE
  /\ wifiRequests' = [wifiRequests EXCEPT !["pin"] = @ + 1]
  /\ UNCHANGED <<profiles, link, priority, pinFile, scriptSide, netSide>>

Done(t) == commands' = [commands EXCEPT ![t] = Tail(@)]

ModifyProfile(t) ==
  /\ ~Idle(t) /\ Head(commands[t]).do = "modify"
  /\ LET c == Head(commands[t]) IN
     priority' = IF Saved(c.ap) THEN [priority EXCEPT ![c.ap] = c.to] ELSE priority
  /\ Done(t)
  /\ UNCHANGED <<profiles, link, pinFile, wifiRequests, disturbed, scriptSide, netSide>>

\* A link to a deleted profile goes down.
DeleteProfile(t) ==
  /\ ~Idle(t) /\ Head(commands[t]).do = "delete"
  /\ LET ap == Head(commands[t]).ap IN
     /\ profiles' \in Chosen(profiles, APs \ {ap})
     /\ link' = IF link = ap THEN NoLink ELSE link
  /\ Done(t)
  /\ UNCHANGED <<priority, pinFile, wifiRequests, disturbed, scriptSide, netSide>>

\* A call that times out is passed over.
CallFails(t) ==
  /\ ~Idle(t) /\ Head(commands[t]).do \in {"modify", "delete"}
  /\ Done(t)
  /\ disturbed' = TRUE
  /\ UNCHANGED <<profiles, link, priority, pinFile, wifiRequests, scriptSide, netSide>>

\* _save_pinned truncates the file and writes it.
WritePins ==
  /\ ~Idle("pin") /\ Head(commands["pin"]).do \in {"truncate", "write"}
  /\ pinFile' = IF Head(commands["pin"]).do = "truncate" THEN <<>> ELSE Head(commands["pin"]).order
  /\ Done("pin")
  /\ UNCHANGED <<profiles, link, priority, wifiRequests, disturbed, scriptSide, netSide>>

ConsoleStep ==
  \/ ListProfiles \/ ReadPins \/ WritePins
  \/ \E t \in {"connect", "pin"} : ModifyProfile(t) \/ DeleteProfile(t) \/ CallFails(t)

-----------------------------------------------------------------------------
\* The script.

Online == link # NoLink /\ air[link] = "good"

FindOnline ==
  /\ candidates = <<>> /\ Online
  /\ failcount' = 0
  /\ UNCHANGED <<profiles, link, candidates, consoleSide, netSide>>

\* Enough checks in a row: the pinned networks are read, to be tried in their order.
\* The count is not needed above the threshold.
FindOffline ==
  /\ candidates = <<>> /\ ~Online
  /\ failcount' = IF failcount < FailThreshold THEN failcount + 1 ELSE failcount
  /\ candidates' = IF failcount' < FailThreshold THEN <<>> ELSE pinFile
  /\ UNCHANGED <<profiles, link, consoleSide, netSide>>

ComesUp(ap) == Saved(ap) /\ air[ap] # "gone"

\* Mutant: the first network that comes up is taken, with Internet or without.
TryNext_AnyLink ==
  /\ candidates # <<>>
  /\ LET ap == Head(candidates) IN
     /\ link' = IF ComesUp(ap) THEN ap ELSE link
     /\ profiles' \in IF ComesUp(ap) THEN Foremost(ap, profiles) ELSE {profiles}
     /\ candidates' = IF ComesUp(ap) THEN <<>> ELSE Tail(candidates)
     /\ failcount' = IF ComesUp(ap) THEN 0 ELSE failcount
  /\ UNCHANGED <<consoleSide, netSide>>

TryNext ==
  /\ candidates # <<>>
  /\ LET ap == Head(candidates)
         restored == ComesUp(ap) /\ air[ap] = "good"
     IN /\ link' = IF ComesUp(ap) THEN ap ELSE link
        /\ profiles' \in IF ComesUp(ap) THEN Foremost(ap, profiles) ELSE {profiles}
        /\ candidates' = IF restored THEN <<>> ELSE Tail(candidates)
        /\ failcount' = IF restored THEN 0 ELSE failcount
  /\ UNCHANGED <<consoleSide, netSide>>

ScriptStep == FindOnline \/ FindOffline \/ TryNext

-----------------------------------------------------------------------------
WifiNext ==
  \/ \E ap \in APs, state \in {"gone", "there", "good"} : NetworkChanges(ap, state)
  \/ \E ap \in APs : ConnectTo(ap)
  \/ \E order \in Orders : SetPriority(order)
  \/ ConsoleStep
  \/ ScriptStep

WifiSpec == WifiInit /\ [][WifiNext]_wifiVars

(***************************************************************************)
(* Fairness: the timer runs the script every 30 s, and a request that has  *)
(* begun goes on.                                                          *)
(***************************************************************************)
WifiFairSpec == WifiSpec /\ WF_wifiVars(ScriptStep) /\ WF_wifiVars(ConsoleStep)

-----------------------------------------------------------------------------
\* Pinned networks are never pruned and come first, in their order: with no request
\* under way, each has a profile, with a priority above the later ones and above
\* every network that is not pinned - unless a nmcli call failed or a connect met a
\* pin request (promote_and_prune_wifi, set_wifi_priority).
FallbacksInOrder ==
  Idle("connect") /\ Idle("pin") /\ ~disturbed =>
    /\ \A i \in DOMAIN pinFile : Saved(pinFile[i])
    /\ \A i, j \in DOMAIN pinFile : i < j => priority[pinFile[i]] > priority[pinFile[j]]
    /\ \A i \in DOMAIN pinFile, ap \in APs :
         Saved(ap) /\ ap \notin ToSet(pinFile) => priority[pinFile[i]] > priority[ap]

Usable(ap) == Saved(ap) /\ ap \in ToSet(pinFile) /\ air[ap] = "good"

\* As long as a pinned network has Internet, be it one or another, the appliance
\* gets it back, over and over: it does not stay on a network without, nor give up
\* after the first that fails (net-failover.sh).
ConnectivityRestored == []<>(Online \/ \A ap \in APs : ~Usable(ap))
=============================================================================
