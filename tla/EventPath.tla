------------------------------- MODULE EventPath -------------------------------
(***************************************************************************)
(* The way of an event: from the packet to the sensor's event log          *)
(* (Pipeline), in the mode that decides whether there are events           *)
(* (ModeControl), and from the log to the control plane (Upload).          *)
(*                                                                         *)
(* The first two share the mode, which Pipeline takes as it comes, the     *)
(* last two the log: a file to which the sensor appends, and of which      *)
(* Upload knows that IDs start again with the sensor.  One more part looks *)
(* the packet's hosts up in the blacklist (IocMatch); it takes the mode as *)
(* it comes, too.  A behaviour is one of a single part, chosen at the      *)
(* start: interleaving the steps of two parts would reach the same states  *)
(* of each.                                                                *)
(***************************************************************************)
EXTENDS Upload, Pipeline, ModeControl, IocMatch

CONSTANTS
  peer, plc,   \* a peer and an asset
  s1, s2       \* sessions

VARIABLE part  \* the part that moves

\* A Modbus write, an MMS read and a GOOSE frame with the test bit.
MCPackets ==
  {[peer |-> peer, proto |-> "modbus", flag |-> TRUE],
   [peer |-> peer, proto |-> "mms", flag |-> FALSE],
   [peer |-> peer, proto |-> "goose", flag |-> TRUE]}

\* Nobody is allowed, or the peer is; with rules of both detectors each.
MCPolicies ==
  {[allowed |-> {}, rules |-> {"OT-007", "OT-010", "OT-014", "OT-018"}],
   [allowed |-> {peer}, rules |-> {"OT-004", "OT-009", "OT-012"}]}

\* The portal goes to learning, in one session and then, with the same version, in
\* another; to detection; or it aborts the first session, to listen or, at once, to detect.
MCModeArtifacts ==
  {[mode |-> "learning", session |-> s1, abort |-> NoSession, version |-> 1],
   [mode |-> "learning", session |-> s2, abort |-> NoSession, version |-> 1],
   [mode |-> "detect", session |-> NoSession, abort |-> NoSession, version |-> 2],
   [mode |-> "listen", session |-> NoSession, abort |-> s1, version |-> 3],
   [mode |-> "detect", session |-> NoSession, abort |-> s1, version |-> 4]}

MCDefaultMode == [mode |-> "listen", session |-> NoSession, abort |-> NoSession, version |-> -1]

\* No list, a lasting entry, and one that expires.
MCLists == {[host \in Hosts |-> expiry] : expiry \in {0, 2, MaxTime + 1}}

PathInit ==
  /\ part \in {"pipeline", "mode", "upload", "ioc"}
  /\ Init /\ PipeInit /\ ModeInit /\ IocInit
  /\ part # "ioc" => iocFile = [host \in Hosts |-> 0]
  /\ part # "pipeline" => ~detecting /\ policy = (CHOOSE p \in Policies : TRUE)

PathNext ==
  \/ part = "pipeline" /\ PipeNext /\ UNCHANGED <<part, vars, modeVars, iocVars>>
  \/ part = "mode" /\ ModeNext /\ UNCHANGED <<part, vars, pipeVars, iocVars>>
  \/ part = "upload" /\ Next /\ UNCHANGED <<part, pipeVars, modeVars, iocVars>>
  \/ part = "ioc" /\ IocNext /\ UNCHANGED <<part, vars, pipeVars, modeVars>>

\* Fairness: that of Upload and ModeFairSpec, for the behaviours that are theirs.
PathSpec ==
  /\ PathInit /\ [][PathNext]_<<part, vars, pipeVars, modeVars, iocVars>>
  /\ WF_vars(part = "upload" /\ Turn)
  /\ SF_vars(part = "upload" /\ phase = "flush" /\ Post)
  /\ SF_vars(part = "upload" /\ FlushRemoves)
  /\ WF_modeVars(part = "mode" /\ ApplyMode) /\ WF_modeVars(part = "mode" /\ Reload)
=============================================================================
