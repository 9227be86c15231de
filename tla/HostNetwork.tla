----------------------------- MODULE HostNetwork -----------------------------
(***************************************************************************)
(* The interfaces of the host, which the Edge Console switches through the *)
(* packet sensor's container (network_service.py), and the Wi-Fi cards     *)
(* among them, of which it chooses one to have the default route, through  *)
(* the host's NetworkManager (wifi_service.py).                            *)
(*                                                                         *)
(* Every docker exec and nmcli call is a step, and the requests run beside *)
(* one another.  A card has one profile here: its never-default setting    *)
(* takes effect when the connection comes up.  Which networks are          *)
(* remembered, and in which order, is WifiFailover's matter.               *)
(***************************************************************************)
EXTENDS Naturals, SequencesExt

CONSTANTS
  Cards,          \* Wi-Fi cards
  Wired,          \* wired interfaces
  NetRequests,    \* requests that may be under way at a time
  MaxAsked,       \* bound: requests
  MaxHostChanges  \* bound: changes that nobody asked for

ASSUME HostAssumption ==
  /\ Cards \intersect Wired = {} /\ IsFiniteSet(Cards) /\ Wired # {}
  /\ {MaxAsked, MaxHostChanges} \subseteq Nat

VARIABLES
  up,           \* the interfaces that are switched on
  linked,       \* those of them that are connected
  profile,      \* the cards whose connection is configured never to be the default
  applied,      \* the cards whose connection came up so
  radio,        \* the Wi-Fi radio
  captured,     \* capture_interface of platform.json
  sensorUp,     \* the sensor's container runs
  net,          \* what each request is doing
  asked, hostChanges

hostVars == <<up, linked, profile, applied, radio, captured, sensorUp, net, asked, hostChanges>>

Ifs == Cards \union Wired

\* The interfaces with a default route.
Uplinks == linked \ applied

NoAsk == [at |-> "idle", op |-> "none", if |-> CHOOSE i \in Ifs : TRUE, on |-> FALSE,
          todo |-> <<>>, met |-> FALSE]

CardStep == [card : Cards, never : BOOLEAN]

\* What a request does; on: to switch on, or, of a connect, that it names the card; met
\* (history): the host has changed under it, or a failed call has told it what is not so.
Asks == [at : {"idle", "probe", "set", "call", "others", "list", "modify", "reapply", "prune"},
         op : {"none", "toggle", "connect", "primary", "disconnect", "radio"},
         if : Ifs, on : BOOLEAN, todo : Seq(CardStep), met : BOOLEAN]

HostTypeOK ==
  /\ linked \subseteq up /\ up \subseteq Ifs
  /\ profile \subseteq Cards /\ applied \subseteq Cards
  /\ radio \in BOOLEAN /\ sensorUp \in BOOLEAN /\ captured \in Ifs
  /\ net \in [NetRequests -> Asks]
  /\ asked \in 0 .. MaxAsked /\ hostChanges \in 0 .. MaxHostChanges

HostInit ==
  /\ up = Ifs /\ linked \in SUBSET Ifs
  /\ profile = {} /\ applied = {}
  /\ radio = TRUE /\ captured \in Wired /\ sensorUp = TRUE
  /\ net = [q \in NetRequests |-> NoAsk] /\ asked = 0 /\ hostChanges = 0

\* A request begins.
Ask(q, op, at, i, on) ==
  /\ net[q] = NoAsk /\ asked < MaxAsked /\ asked' = asked + 1
  /\ net' = [net EXCEPT ![q] = [NoAsk EXCEPT !.op = op, !.at = at, !.if = i, !.on = on]]
  /\ UNCHANGED <<up, linked, profile, applied, radio, captured, sensorUp, hostChanges>>

\* Request q goes on as r, having changed the host: the others meet a change.
Changes(q, r) ==
  net' = [p \in NetRequests |->
            IF p = q THEN r ELSE IF net[p] = NoAsk THEN NoAsk ELSE [net[p] EXCEPT !.met = TRUE]]

\* Request q goes on as r, or does so after a call that failed.
GoesOn(q, r) == net' = [net EXCEPT ![q] = r]

UnchangedHost == UNCHANGED <<up, linked, profile, applied, radio, captured, sensorUp, asked, hostChanges>>

-----------------------------------------------------------------------------
\* set_interface_state

\* The probe, and the guards on its result: with a default route, or captured, an interface
\* is not switched off.  Without the sensor the console's own namespace is probed, but
\* nothing done.
Probe(q) ==
  /\ net[q].at = "probe"
  /\ LET barred == net[q].if \in Uplinks \union {captured} IN
     GoesOn(q, IF ~sensorUp \/ (~net[q].on /\ barred) THEN NoAsk ELSE [net[q] EXCEPT !.at = "set"])
  /\ UnchangedHost

SetState(q) ==
  /\ net[q].at = "set" /\ sensorUp
  /\ up' = IF net[q].on THEN up \union {net[q].if} ELSE up \ {net[q].if}
  /\ linked' = linked \intersect up'
  /\ Changes(q, NoAsk)
  /\ UNCHANGED <<profile, applied, radio, captured, sensorUp, asked, hostChanges>>

-----------------------------------------------------------------------------
\* The Wi-Fi cards.

CanLink(i) == i \in up /\ (i \in Cards => radio)

\* connect: the radio is switched on; the card gets a new connection, or that of before.
\* Without a card named, NetworkManager takes one, and nothing is asked of the others.
CallConnect(q) ==
  /\ net[q].at = "call" /\ net[q].op = "connect"
  /\ net[q].if \in up
  /\ radio' = TRUE
  /\ linked' = linked \union {net[q].if}
  /\ \E p \in {profile, profile \ {net[q].if}} :
       /\ profile' = p
       /\ applied' = IF net[q].if \in p THEN applied \union {net[q].if} ELSE applied \ {net[q].if}
  /\ Changes(q, [net[q] EXCEPT !.at = IF net[q].on THEN "others" ELSE "prune"])
  /\ UNCHANGED <<up, captured, sensorUp, asked, hostChanges>>

\* The radio stays off, the network is not found, or the new connection does not come up
\* and the old one is gone.
ConnectFails(q) ==
  /\ net[q].at = "call" /\ net[q].op = "connect"
  /\ linked' \in {linked, linked \ {net[q].if}} /\ radio' \in {radio, TRUE}
  /\ Changes(q, NoAsk)
  /\ UNCHANGED <<up, profile, applied, captured, sensorUp, asked, hostChanges>>

\* _has_other_primary: a card that is connected and configured for it has the default
\* route.  A call that fails hides a card, or counts for a setting that lets it have the route.
Others(q) ==
  /\ net[q].at = "others"
  /\ LET seen == (linked \intersect Cards) \ {net[q].if}
         other == \E c \in seen : c \notin profile
     IN  \E told \in {other, FALSE, seen # {}} :
           GoesOn(q, [net[q] EXCEPT !.at = "modify", !.met = @ \/ (told /\ ~other),
                                    !.todo = <<[card |-> net[q].if, never |-> told]>>])
  /\ UnchangedHost

\* Mutant: the others are demoted before the card is promoted.
Promotion_Last(card, others) ==
  Append([i \in DOMAIN others |-> [card |-> others[i], never |-> TRUE]], [card |-> card, never |-> FALSE])

Promotion(card, others) ==
  <<[card |-> card, never |-> FALSE]>> \o [i \in DOMAIN others |-> [card |-> others[i], never |-> TRUE]]

\* set_primary: the card must be connected; it is promoted, then the others are demoted.
ListDevices(q) ==
  /\ net[q].at = "list"
  /\ GoesOn(q, IF net[q].if \notin linked THEN NoAsk
             ELSE [net[q] EXCEPT !.at = "modify",
                     !.todo = Promotion(net[q].if, SetToSeq((linked \intersect Cards) \ {net[q].if}))])
  /\ UnchangedHost

\* What is left of a request once the head of its list is done or given up: a card that
\* cannot be promoted leaves the others as they are; a connect prunes in any case.
AfterHead(q, done) ==
  IF net[q].op = "connect" THEN [net[q] EXCEPT !.at = "prune", !.todo = <<>>]
  ELSE IF Len(net[q].todo) = 1 \/ (~done /\ ~Head(net[q].todo).never) THEN NoAsk
  ELSE [net[q] EXCEPT !.at = "modify", !.todo = Tail(@)]

\* _set_device_never_default: the profile of the active connection is changed ...
Modify(q) ==
  /\ net[q].at = "modify" /\ Head(net[q].todo).card \in linked
  /\ LET c == Head(net[q].todo) IN
     profile' = IF c.never THEN profile \union {c.card} ELSE profile \ {c.card}
  /\ Changes(q, [net[q] EXCEPT !.at = "reapply"])
  /\ UNCHANGED <<up, linked, applied, radio, captured, sensorUp, asked, hostChanges>>

\* There is none, or the call fails.
ModifyFails(q) ==
  /\ net[q].at = "modify" /\ GoesOn(q, AfterHead(q, FALSE))
  /\ UnchangedHost

\* ... and the connection is brought up again.
Reapply(q) ==
  /\ net[q].at = "reapply" /\ CanLink(Head(net[q].todo).card)
  /\ LET c == Head(net[q].todo).card IN
     /\ linked' = linked \union {c}
     /\ applied' = IF c \in profile THEN applied \union {c} ELSE applied \ {c}
  /\ Changes(q, AfterHead(q, TRUE))
  /\ UNCHANGED <<up, profile, radio, captured, sensorUp, asked, hostChanges>>

\* That it did not come up is not noticed, only that it took too long: the others may be
\* demoted for a card that has no connection any more.
ReapplyFails(q) ==
  /\ net[q].at = "reapply"
  /\ LET c == Head(net[q].todo) IN
     \E done \in BOOLEAN, lost \in SUBSET (linked \intersect {c.card}) :
       LET r == AfterHead(q, done)
           next == IF r = NoAsk \/ c.never THEN r ELSE [r EXCEPT !.met = TRUE]
       IN  /\ linked' = linked \ lost
           /\ IF lost = {} THEN GoesOn(q, next) ELSE Changes(q, next)
  /\ UNCHANGED <<up, profile, applied, radio, captured, sensorUp, asked, hostChanges>>

\* promote_and_prune_wifi: of the profiles that are not pinned only the three used last are
\* kept, that of the new connection among them; another card loses its connection with its
\* profile.
Prune(q) ==
  /\ net[q].at = "prune"
  /\ \E deleted \in SUBSET (Cards \ {net[q].if}) :
       /\ linked' = linked \ deleted
       /\ profile' = profile \ deleted /\ applied' = applied \ deleted
       /\ IF deleted = {} THEN GoesOn(q, NoAsk) ELSE Changes(q, NoAsk)
  /\ UNCHANGED <<up, radio, captured, sensorUp, asked, hostChanges>>

\* disconnect, and set_radio: what was asked for.
DisconnectCard(q) ==
  /\ net[q].at = "call" /\ net[q].op = "disconnect"
  /\ linked' = linked \ {net[q].if}
  /\ Changes(q, NoAsk)
  /\ UNCHANGED <<up, profile, applied, radio, captured, sensorUp, asked, hostChanges>>

SetRadio(q) ==
  /\ net[q].at = "call" /\ net[q].op = "radio"
  /\ radio' = net[q].on
  /\ linked' = IF net[q].on THEN linked ELSE linked \ Cards
  /\ Changes(q, NoAsk)
  /\ UNCHANGED <<up, profile, applied, captured, sensorUp, asked, hostChanges>>

\* A call that does nothing: the sensor is not there, or NetworkManager refuses.
CallFails(q) ==
  /\ net[q].at = "set" \/ (net[q].at = "call" /\ net[q].op # "connect")
  /\ GoesOn(q, NoAsk)
  /\ UnchangedHost

RequestNext(q) ==
  \/ \E i \in Ifs, on \in BOOLEAN : Ask(q, "toggle", "probe", i, on)
  \/ \E c \in Cards : \/ \E named \in BOOLEAN : Ask(q, "connect", "call", c, named)
                      \/ Ask(q, "primary", "list", c, TRUE)
                      \/ Ask(q, "disconnect", "call", c, FALSE)
  \/ \E on \in BOOLEAN : Ask(q, "radio", "call", NoAsk.if, on)
  \/ Probe(q) \/ SetState(q)
  \/ CallConnect(q) \/ ConnectFails(q) \/ Others(q) \/ ListDevices(q)
  \/ Modify(q) \/ ModifyFails(q) \/ Reapply(q) \/ ReapplyFails(q) \/ Prune(q)
  \/ DisconnectCard(q) \/ SetRadio(q) \/ CallFails(q)

-----------------------------------------------------------------------------
\* The host changes by itself: every request that is under way meets the change.
HostChange == hostChanges < MaxHostChanges /\ hostChanges' = hostChanges + 1
              /\ net' = [q \in NetRequests |->
                           IF net[q] = NoAsk THEN NoAsk ELSE [net[q] EXCEPT !.met = TRUE]]

\* A cable is pulled, a network goes out of range; and comes back.
LinkLost(i) ==
  /\ i \in linked /\ linked' = linked \ {i} /\ HostChange
  /\ UNCHANGED <<up, profile, applied, radio, captured, sensorUp, asked>>

LinkBack(i) ==
  /\ i \notin linked /\ CanLink(i) /\ linked' = linked \union {i} /\ HostChange
  /\ applied' = IF i \in profile THEN applied \union {i} ELSE applied \ {i}
  /\ UNCHANGED <<up, profile, radio, captured, sensorUp, asked>>

\* Another capture interface is saved.
CaptureChosen(i) ==
  /\ captured # i /\ captured' = i /\ HostChange
  /\ UNCHANGED <<up, linked, profile, applied, radio, sensorUp, asked>>

\* The sensor's container stops, or starts again.
SensorComesOrGoes ==
  /\ sensorUp' = ~sensorUp
  /\ UNCHANGED <<up, linked, profile, applied, radio, captured, net, asked, hostChanges>>

HostNext ==
  \/ \E q \in NetRequests : RequestNext(q)
  \/ \E i \in Ifs : LinkLost(i) \/ LinkBack(i) \/ CaptureChosen(i)
  \/ SensorComesOrGoes

HostSpec == HostInit /\ [][HostNext]_hostVars

-----------------------------------------------------------------------------
\* A request that is not to disconnect, and meets no change of the host or other request,
\* takes neither the last default route from the host, which is how it is reached, nor the
\* interface that is captured from the sensor (_toggle_block_reason, _has_other_primary,
\* set_primary), although calls of it fail.  This is not so, and excused, where the code
\* takes no care of it:
\* - while the card is being connected, and in what a connect prunes, which may be the
\*   connection of the card that has the route;
\* - when the card to be promoted does not come up again, or a query that failed was taken
\*   for another card with the route;
\* - while a card that it does not deal with has its setting changed but not yet applied.
Excused(q) ==
  \/ net[q].met \/ net[q].op \in {"disconnect", "radio"} \/ net[q].at \in {"call", "prune"}
  \/ \E c \in linked \intersect Cards :
       /\ c # net[q].if /\ \A k \in DOMAIN net[q].todo : c # net[q].todo[k].card
       /\ (c \in profile) # (c \in applied)

NotPromoted(q) ==
  /\ net[q].at = "reapply" /\ ~Head(net[q].todo).never
  /\ Head(net[q].todo).card \notin linked'

NotLockedOut ==
  [][\A q \in NetRequests :
       net'[q].at # net[q].at /\ ~Excused(q) /\ ~NotPromoted(q) =>
         /\ Uplinks # {} => Uplinks' # {}
         /\ captured \in up => captured \in up']_hostVars
=============================================================================
