------------------------------ MODULE VpnClient ------------------------------
(***************************************************************************)
(* The appliance's OpenVPN client: the Edge Console (edge-console/src/     *)
(* vpn_service.py) writes what the operator wants to desired.json, and the *)
(* supervisor (vpn-client/supervisor.py) reconciles the OpenVPN process    *)
(* with it and writes status.json back.                                    *)
(*                                                                         *)
(* The console runs each request in a thread of its pool: a request reads  *)
(* desired.json, writes desired.json.tmp and renames it, with no lock.     *)
(* The supervisor is one loop: read desired.json, reconcile, write the     *)
(* status.  The operator's reconnects are told apart by the epoch, which   *)
(* connect and disconnect increase.  Epoch 0 is "no epoch".                *)
(*                                                                         *)
(* Time is abstract: `waiting` says next_start_at is still ahead.          *)
(***************************************************************************)
EXTENDS Integers

CONSTANTS
  Profiles,     \* the uploaded .ovpn profiles
  None,         \* "no profile"
  Requests,     \* the console's request threads
  MaxRequests,  \* bound: requests that write desired.json or delete a profile
  MaxRestarts   \* bound: restarts of the supervisor's container

ASSUME ConstantsAssumption ==
  /\ None \notin Profiles
  /\ MaxRequests \in Nat
  /\ MaxRestarts \in Nat

Epochs == 0 .. MaxRequests

VARIABLES
  files,      \* the profiles whose file exists
  desired,    \* desired.json
  desiredTmp, \* desired.json.tmp
  request,    \* request[r]: what thread r of the console is doing
  handled,    \* how many requests were begun
  pass,       \* the supervisor's next step: "read", "decide" or "status"
  want,       \* the desired state the current, or the last, pass has read
  proc,       \* the OpenVPN process: "none", "running" or "exited" (not yet reaped)
  active,     \* active_profile and active_epoch
  gaveUp,     \* gave_up_epoch
  lastError,  \* is last_error set
  waiting,    \* is time.time() < next_start_at
  status,     \* status.json
  restarts    \* how often the container has been restarted

console    == <<files, desired, desiredTmp, request, handled>>
memory     == <<proc, active, gaveUp, lastError, waiting>>
supervisor == <<pass, want, memory, status, restarts>>
vars       == <<console, supervisor>>

Desired == [connect : BOOLEAN,
            profile : Profiles \union {None},
            auto    : BOOLEAN,
            epoch   : Epochs]

\* desired.json is missing: auto_reconnect defaults to True.
NoDesired == [connect |-> FALSE, profile |-> None, auto |-> TRUE, epoch |-> 0]

NoTmp == [NoDesired EXCEPT !.epoch = -1]

Nothing == [profile |-> None, epoch |-> 0]

Idle == [op |-> "none", at |-> "idle", profile |-> None, payload |-> NoDesired]

Request == [op      : {"none", "connect", "toggle", "disconnect", "delete"},
            at      : {"idle", "write", "replace", "unlink"},
            profile : Profiles \union {None},
            payload : Desired]

Status == [state   : {"unknown", "disconnected", "connecting", "connected", "reconnecting"},
           profile : Profiles \union {None},
           error   : BOOLEAN]

TypeOK ==
  /\ files \in SUBSET Profiles
  /\ desired \in Desired
  /\ desiredTmp \in Desired \union {NoTmp}
  /\ request \in [Requests -> Request]
  /\ handled \in 0 .. MaxRequests
  /\ pass \in {"read", "decide", "status"}
  /\ want \in Desired
  /\ proc \in {"none", "running", "exited"}
  /\ active \in [profile : Profiles \union {None}, epoch : Epochs]
  /\ gaveUp \in Epochs
  /\ lastError \in BOOLEAN
  /\ waiting \in BOOLEAN
  /\ status \in Status
  /\ restarts \in 0 .. MaxRestarts

Init ==
  /\ files = {}
  /\ desired = NoDesired
  /\ desiredTmp = NoTmp
  /\ request = [r \in Requests |-> Idle]
  /\ handled = 0
  /\ pass = "read"
  /\ want = NoDesired
  /\ proc = "none"
  /\ active = Nothing
  /\ gaveUp = 0
  /\ lastError = FALSE
  /\ waiting = FALSE
  /\ status = [state |-> "unknown", profile |-> None, error |-> FALSE]
  /\ restarts = 0

-----------------------------------------------------------------------------
\* The console.

\* save_profile
SaveProfile(p) ==
  /\ p \notin files
  /\ files' = files \union {p}
  /\ UNCHANGED <<desired, desiredTmp, request, handled, supervisor>>

\* A request begins: it has read desired.json and knows what to write.
Begin(r, op, at, profile, payload) ==
  /\ request[r].at = "idle"
  /\ handled < MaxRequests
  /\ handled' = handled + 1
  /\ request' = [request EXCEPT ![r] =
       [op |-> op, at |-> at, profile |-> profile, payload |-> payload]]
  /\ UNCHANGED <<files, desired, desiredTmp, supervisor>>

\* connect: the profile's file exists; a new epoch.
Connect(r, p, auto) ==
  /\ p \in files
  /\ Begin(r, "connect", "write", p,
           [connect |-> TRUE, profile |-> p, auto |-> auto, epoch |-> desired.epoch + 1])

\* set_auto_reconnect: everything else as it was read.
SetAutoReconnect(r, on) ==
  Begin(r, "toggle", "write", None, [desired EXCEPT !.auto = on])

\* disconnect: a new epoch; auto_reconnect is left out, so True again.
Disconnect(r) ==
  Begin(r, "disconnect", "write", None,
        [connect |-> FALSE, profile |-> desired.profile, auto |-> TRUE,
         epoch |-> desired.epoch + 1])

\* delete_profile: refused for the profile desired.json connects to.
DeleteProfile(r, p) ==
  /\ p \in files
  /\ ~(desired.connect /\ desired.profile = p)
  /\ Begin(r, "delete", "unlink", p, NoDesired)

Unlink(r) ==
  /\ request[r].at = "unlink"
  /\ files' = files \ {request[r].profile}
  /\ request' = [request EXCEPT ![r] = Idle]
  /\ UNCHANGED <<desired, desiredTmp, handled, supervisor>>

\* _atomic_write_json: every request writes the same .tmp ...
WriteTmp(r) ==
  /\ request[r].at = "write"
  /\ desiredTmp' = request[r].payload
  /\ request' = [request EXCEPT ![r] = [Idle EXCEPT !.op = request[r].op, !.at = "replace"]]
  /\ UNCHANGED <<files, desired, handled, supervisor>>

\* ... and renames it over desired.json.
Replace(r) ==
  /\ request[r].at = "replace"
  /\ desiredTmp # NoTmp
  /\ desired' = desiredTmp
  /\ desiredTmp' = NoTmp
  /\ request' = [request EXCEPT ![r] = Idle]
  /\ UNCHANGED <<files, handled, supervisor>>

\* Another request has renamed it: OSError, the answer is 500.
ReplaceFails(r) ==
  /\ request[r].at = "replace"
  /\ desiredTmp = NoTmp
  /\ request' = [request EXCEPT ![r] = Idle]
  /\ UNCHANGED <<files, desired, desiredTmp, handled, supervisor>>

-----------------------------------------------------------------------------
\* The OpenVPN process and the clock.

\* OpenVPN ends by itself: a dead peer, a bad profile, a signal.
OpenVpnExits ==
  /\ proc = "running"
  /\ proc' = "exited"
  /\ UNCHANGED <<console, pass, want, active, gaveUp, lastError, waiting, status, restarts>>

BackoffElapses ==
  /\ waiting
  /\ waiting' = FALSE
  /\ UNCHANGED <<console, pass, want, proc, active, gaveUp, lastError, status, restarts>>

-----------------------------------------------------------------------------
\* The supervisor: reconcile_once.

ReadDesired ==
  /\ pass = "read"
  /\ want' = desired
  /\ pass' = "decide"
  /\ UNCHANGED <<console, memory, status, restarts>>

Decide ==
  /\ pass = "decide"
  /\ pass' = "status"
  /\ UNCHANGED <<console, want, status, restarts>>

\* _stop_proc
StopProc ==
  /\ proc' = "none"
  /\ active' = Nothing

Wanted == want.connect /\ want.profile \in files

\* Mutant: a missing profile is reported, the process is left running.
StopMissing_NoStop ==
  /\ Decide
  /\ want.connect /\ ~Wanted
  /\ lastError' = TRUE
  /\ UNCHANGED <<proc, active, gaveUp, waiting>>

\* The operator wants a profile whose file is gone.
StopMissing ==
  /\ Decide
  /\ want.connect /\ ~Wanted
  /\ StopProc
  /\ lastError' = TRUE
  /\ UNCHANGED <<gaveUp, waiting>>

\* The operator wants no tunnel.
StopDisconnected ==
  /\ Decide
  /\ ~want.connect
  /\ IF proc = "running" \/ active.profile # None THEN StopProc ELSE UNCHANGED <<proc, active>>
  /\ lastError' = FALSE
  /\ UNCHANGED <<gaveUp, waiting>>

\* A new epoch clears the latch.
Latch == IF gaveUp = want.epoch THEN gaveUp ELSE 0

\* With auto-reconnect off, the supervisor has given up on this epoch.
GivenUp == ~want.auto /\ Latch = want.epoch

\* Mutant: only another profile restarts OpenVPN.
MustRestart_ProfileOnly ==
  /\ proc = "running"
  /\ active.profile \notin {None, want.profile}

\* A new epoch, or another profile, restarts a running OpenVPN.
MustRestart ==
  /\ proc = "running"
  /\ \/ active.profile \notin {None, want.profile}
     \/ active.epoch # want.epoch

KeepRunning ==
  /\ Decide
  /\ Wanted
  /\ proc = "running" /\ ~MustRestart
  /\ gaveUp' = Latch
  /\ UNCHANGED <<proc, active, lastError, waiting>>

\* The process has exited and auto-reconnect is off: give up on the epoch.
GiveUp ==
  /\ Decide
  /\ Wanted
  /\ proc = "exited" /\ ~want.auto
  /\ proc' = "none"
  /\ active' = [active EXCEPT !.profile = None]
  /\ gaveUp' = want.epoch
  /\ lastError' = TRUE
  /\ UNCHANGED waiting

\* The process has exited and auto-reconnect is on: start it again later.
BackOff ==
  /\ Decide
  /\ Wanted
  /\ proc = "exited" /\ want.auto
  /\ proc' = "none"
  /\ active' = [active EXCEPT !.profile = None]
  /\ gaveUp' = Latch
  /\ lastError' = TRUE
  /\ waiting' = TRUE

\* No process, or one to restart, but this epoch was given up.
StayDown ==
  /\ Decide
  /\ Wanted
  /\ proc = "none" \/ MustRestart
  /\ GivenUp
  /\ gaveUp' = Latch
  /\ IF MustRestart
     THEN StopProc /\ waiting' = FALSE
     ELSE UNCHANGED <<proc, active, waiting>>
  /\ UNCHANGED lastError

\* No process, and the next start is not due.
Wait ==
  /\ Decide
  /\ Wanted
  /\ proc = "none" /\ ~GivenUp /\ waiting
  /\ gaveUp' = Latch
  /\ UNCHANGED <<proc, active, lastError, waiting>>

StartDue ==
  /\ Decide
  /\ Wanted
  /\ MustRestart \/ (proc = "none" /\ ~waiting)
  /\ ~GivenUp
  /\ gaveUp' = Latch

\* _start, after _stop_proc for a restart.
Start ==
  /\ StartDue
  /\ proc' = "running"
  /\ active' = [profile |-> want.profile, epoch |-> want.epoch]
  /\ lastError' = FALSE
  /\ waiting' = FALSE

\* Popen raises: try again later.
StartFails ==
  /\ StartDue
  /\ proc' = "none"
  /\ active' = IF MustRestart THEN Nothing ELSE active
  /\ lastError' = TRUE
  /\ waiting' = TRUE

\* _write_status: the process is polled again; the management interface or the
\* tun device tells whether a running OpenVPN is connected.
WriteStatus ==
  /\ pass = "status"
  /\ \E state \in
          IF proc = "running"           THEN {"connecting", "connected"}
          ELSE IF ~want.connect \/ (~want.auto /\ gaveUp = want.epoch) THEN {"disconnected"}
          ELSE IF lastError             THEN {"reconnecting"}
                                        ELSE {"connecting"} :
        status' = [state   |-> state,
                   profile |-> IF active.profile # None THEN active.profile
                               ELSE IF want.connect THEN want.profile ELSE None,
                   error   |-> lastError]
  /\ pass' = "read"
  /\ UNCHANGED <<console, want, memory, restarts>>

\* The container is restarted: OpenVPN ends with it, a new supervisor starts.
Restart ==
  /\ restarts < MaxRestarts
  /\ restarts' = restarts + 1
  /\ pass' = "read"
  /\ want' = NoDesired
  /\ proc' = "none"
  /\ active' = Nothing
  /\ gaveUp' = 0
  /\ lastError' = FALSE
  /\ waiting' = FALSE
  /\ UNCHANGED <<console, status>>

-----------------------------------------------------------------------------
Finish(r) == Unlink(r) \/ WriteTmp(r) \/ Replace(r) \/ ReplaceFails(r)

Reconcile ==
  \/ ReadDesired
  \/ StopMissing \/ StopDisconnected \/ KeepRunning \/ GiveUp \/ BackOff
  \/ StayDown \/ Wait \/ Start \/ StartFails
  \/ WriteStatus

Next ==
  \/ \E p \in Profiles : SaveProfile(p)
  \/ \E r \in Requests :
        \/ \E p \in Profiles, auto \in BOOLEAN : Connect(r, p, auto)
        \/ \E on \in BOOLEAN : SetAutoReconnect(r, on)
        \/ Disconnect(r)
        \/ \E p \in Profiles : DeleteProfile(r, p)
        \/ Finish(r)
  \/ OpenVpnExits
  \/ BackoffElapses
  \/ Reconcile
  \/ Restart

Spec == Init /\ [][Next]_vars

(***************************************************************************)
(* Fairness.  A request begun is finished.  The supervisor's loop never    *)
(* stops (run catches every exception), time passes, and launching OpenVPN *)
(* does not fail for ever.                                                 *)
(***************************************************************************)
Fairness ==
  /\ \A r \in Requests : WF_vars(Finish(r))
  /\ WF_vars(Reconcile)
  /\ WF_vars(BackoffElapses)
  /\ SF_vars(Start)

FairSpec == Spec /\ Fairness

-----------------------------------------------------------------------------
\* Between two passes, a running OpenVPN is the one the last desired state the
\* supervisor read asks for: same profile, same epoch (the restart on a new
\* epoch or profile, the stop on a disconnect or a missing profile), however
\* the console's requests, OpenVPN's exits and the restarts interleave.
RunsWhatWasAsked ==
  pass # "decide" /\ proc = "running" =>
    want.connect /\ active = [profile |-> want.profile, epoch |-> want.epoch]

\* "If OpenVPN dies while it is meant to be connected the supervisor restarts
\* it": with auto-reconnect on and the profile there, OpenVPN runs, for the
\* operator's epoch, again and again, whatever it was latched on before.
AutoReconnects ==
  <>[](desired.connect /\ desired.auto /\ desired.profile \in files)
    => []<>(/\ proc = "running"
            /\ active = [profile |-> desired.profile, epoch |-> desired.epoch])

\* A tunnel that is not wanted, or whose profile was deleted under it, ends,
\* and the status file says so.
NotWantedStops ==
  /\ <>[]~desired.connect
       => <>[](proc # "running" /\ status.state = "disconnected")
  /\ <>[](desired.connect /\ desired.profile \notin files)
       => <>[](proc # "running" /\ status.error)

\* With auto-reconnect off a tunnel that keeps dropping is not started for
\* ever: in the end it stays up, or it stays down and the operator is told
\* "disconnected" (gave_up_epoch).
StaysDown ==
  <>[](desired.connect /\ ~desired.auto /\ desired.profile \in files)
    => \/ <>[](proc = "running")
       \/ <>[](proc # "running" /\ status.state = "disconnected")

\* A reconnect is carried out: the supervisor starts OpenVPN for the epoch of
\* a connect that is left alone ("stay down until they explicitly reconnect
\* (new epoch)").
ReconnectStarts ==
  \A e \in Epochs, p \in Profiles :
    <>[](/\ desired.connect /\ desired.epoch = e /\ desired.profile = p
         /\ p \in files)
      => <>(active.epoch = e)

\* Toggling auto-reconnect leaves the rest of desired.json alone ("so the
\* running tunnel is left untouched").
ToggleLeavesTunnel ==
  [][\A r \in Requests :
        request[r].op = "toggle" /\ Replace(r)
          => desired' = [desired EXCEPT !.auto = desired'.auto]]_vars
=============================================================================
