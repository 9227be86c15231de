------------------------------- MODULE Appliance -------------------------------
(***************************************************************************)
(* What the Edge Console and the containers beside it do to the appliance  *)
(* they run on: the VPN client, the capture of the packet sensor, the jobs *)
(* done in its container, the name of the unit, the drivers of its field   *)
(* devices and the interfaces of the host.                                 *)
(*                                                                         *)
(* The modules share no variable, and each has the steps of all the        *)
(* processes that touch its own state.  A behaviour is one of a single     *)
(* part, chosen at the start: interleaving the steps of two parts would    *)
(* reach the same states of each.                                          *)
(***************************************************************************)
EXTENDS VpnClient, Capture, SensorJobs, Identity, DeviceDrivers, HostNetwork

VARIABLE moving    \* the part that moves

applianceVars == <<moving, vars, captureVars, jobsVars, idVars, drvVars, hostVars>>

\* The choices at the start matter in the behaviours of their part alone.
ApplianceInit ==
  /\ moving \in {"vpn", "capture", "jobs", "identity", "drivers", "network"}
  /\ Init /\ CaptureInit /\ JobsInit /\ IdInit /\ DrvInit /\ HostInit
  /\ moving # "capture" => backend = "scapy" /\ plugged
  /\ moving # "identity" => envId = Placeholder /\ captureEnv = Missing
  /\ moving # "network" => linked = {} /\ captured = CHOOSE i \in Wired : TRUE

ApplianceNext ==
  \/ /\ moving = "vpn" /\ Next
     /\ UNCHANGED <<moving, captureVars, jobsVars, idVars, drvVars, hostVars>>
  \/ /\ moving = "capture" /\ CaptureNext
     /\ UNCHANGED <<moving, vars, jobsVars, idVars, drvVars, hostVars>>
  \/ /\ moving = "jobs" /\ JobsNext
     /\ UNCHANGED <<moving, vars, captureVars, idVars, drvVars, hostVars>>
  \/ /\ moving = "identity" /\ IdNext
     /\ UNCHANGED <<moving, vars, captureVars, jobsVars, drvVars, hostVars>>
  \/ /\ moving = "drivers" /\ DrvNext
     /\ UNCHANGED <<moving, vars, captureVars, jobsVars, idVars, hostVars>>
  \/ /\ moving = "network" /\ HostNext
     /\ UNCHANGED <<moving, vars, captureVars, jobsVars, idVars, drvVars>>

(***************************************************************************)
(* Fairness: that of the two parts that have any (FairSpec of VpnClient,   *)
(* CaptureFairSpec), for the behaviours that are theirs.                   *)
(***************************************************************************)
ApplianceSpec ==
  /\ ApplianceInit /\ [][ApplianceNext]_applianceVars
  /\ \A r \in Requests : WF_vars(moving = "vpn" /\ Finish(r))
  /\ WF_vars(moving = "vpn" /\ Reconcile)
  /\ WF_vars(moving = "vpn" /\ BackoffElapses)
  /\ SF_vars(moving = "vpn" /\ Start)
  /\ WF_captureVars(moving = "capture" /\ CaptureStep)
  /\ WF_captureVars(moving = "capture" /\ MainStep)
  /\ WF_captureVars(moving = "capture" /\ RestartSensor)
  /\ WF_captureVars(moving = "capture" /\ Replug)

-----------------------------------------------------------------------------
\* AutoReconnects, NotWantedStops and StaysDown, of the behaviours in which the VPN client
\* moves: a tunnel that is wanted with auto-reconnect runs again and again; one that nobody
\* wants, or whose profile was deleted under it, ends, and the status says so; one that keeps
\* dropping without auto-reconnect is not started for ever (VpnSupervisor.reconcile).
TunnelObeys == moving = "vpn" => AutoReconnects /\ NotWantedStops /\ StaysDown

\* KeepsCapturing, of the behaviours in which the capture moves: whatever fails when, in the
\* end frames are captured, unless the interface or Scapy's socket went under a running
\* capture (CaptureSession.run, capture_loop, main of the packet sensor).
CaptureKept == moving = "capture" => KeepsCapturing
=============================================================================
