------------------------------ MODULE Northbound ------------------------------
(***************************************************************************)
(* What the sensor and the agent find out beside the events: sightings of  *)
(* known threats (Sightings), the roles of the hosts (LiveBaseline),       *)
(* whether the engine took up the community rules (RuleUpdate), and what   *)
(* console and portal see of the agent itself (AgentStatus).               *)
(*                                                                         *)
(* A behaviour is one of a single part, chosen at the start: they share no *)
(* file, and interleaving their steps would reach the same states of each. *)
(***************************************************************************)
EXTENDS Sightings, LiveBaseline, RuleUpdate, AgentStatus

CONSTANTS h1, h2, h3, dnsHost   \* addresses, the last one of the Internet

VARIABLE part                   \* the part that moves

\* Modbus between two hosts that are client and server of each other, MMS, and the ports of
\* Windows, of a directory with two clients and of a name server outside.
MCFrames ==
  LET F(c, s, p, r) == [client |-> c, server |-> s, proto |-> p, reply |-> r] IN
  {F(h2, h1, "modbus", FALSE), F(h1, h2, "modbus", TRUE), F(h3, h2, "mms", FALSE),
   F(h1, h3, "smb", FALSE), F(h1, h3, "ldap", FALSE), F(h2, h3, "ldap", FALSE),
   F(h1, dnsHost, "dns", FALSE)}

MCHostOrder == <<h1, h2, h3, dnsHost>>

northVars == <<part, vars, baseVars, updateVars, statusVars>>

\* The choices at the start matter in the behaviours of their part alone.
NorthInit ==
  /\ part \in {"sightings", "baseline", "update", "status"}
  /\ Init /\ BaseInit /\ UpdateInit /\ StatusInit
  /\ part # "update" => healthCmd /\ reloadCmd
  /\ part # "status" => network = "up" /\ runtime = Whole(FALSE, FALSE)

NorthNext ==
  \/ part = "sightings" /\ Next /\ UNCHANGED <<part, baseVars, updateVars, statusVars>>
  \/ part = "baseline" /\ BaseNext /\ UNCHANGED <<part, vars, updateVars, statusVars>>
  \/ part = "update" /\ UpdateNext /\ UNCHANGED <<part, vars, baseVars, statusVars>>
  \/ part = "status" /\ StatusNext /\ UNCHANGED <<part, vars, baseVars, updateVars>>

\* Fairness: that of Sightings and of AgentStatus, for the behaviours that are theirs.
NorthSpec ==
  /\ NorthInit /\ [][NorthNext]_northVars
  /\ WF_vars(part = "sightings" /\ Poll)
  /\ WF_vars(part = "sightings" /\ Cycle)
  /\ SF_vars(part = "sightings" /\ StartFlush)
  /\ \A n \in Alerts : SF_vars(part = "sightings" /\ TriesQueued(n))
  /\ WF_statusVars(part = "status" /\ LoopWorks)
  /\ WF_statusVars(part = "status" /\ PahoWorks)
=============================================================================
