------------------------------- MODULE Capture -------------------------------
(***************************************************************************)
(* The capture of the packet sensor (packet-sensor/src/capture/, main.py   *)
(* and native/xdp_capture.c): a thread that opens an AF_XDP session, first *)
(* in native, then in generic mode, or falls back to Scapy, and delivers   *)
(* frames; and the main thread, which reads the session's statistics every *)
(* second, ends with the capture thread and closes what it finds open.     *)
(*                                                                         *)
(* The C session is memory that xdp_cap_close frees, known to both threads *)
(* by self._xdp and its _handle, neither under a lock.  The XDP program on *)
(* the interface is the kernel's: it stays when the process is killed.     *)
(*                                                                         *)
(* A frame is only a chance that its handling fails; BPF, the rings and    *)
(* Scapy's sniff are what the code calls.                                  *)
(***************************************************************************)
EXTENDS Naturals

CONSTANTS
  MaxErrors,      \* bound: frames whose handling raises
  MaxSensorKills, \* bound: kills of the sensor's process
  MaxStops,       \* bound: orderly stops of it
  MaxUnplugs      \* bound: losses of the interface

ASSUME CaptureAssumption == {MaxErrors, MaxSensorKills, MaxStops, MaxUnplugs} \subseteq Nat

VARIABLES
  backend,      \* capture.backend and xdp_mode: "native" also tries "generic"
  plugged,      \* is the interface there
  program,      \* the mode in which an XDP program is attached to it
  capture,      \* where the capture thread is
  failing,      \* the capture thread is ending with an exception
  main,         \* where the main thread is
  stopping,     \* _shutdown
  captureError, \* capture_error is not empty
  session,      \* the C session
  xdp,          \* self._xdp is not None
  handle,       \* its _handle is not None
  killed,       \* history: a kill left the program attached
  unjoined,     \* history: join gave up waiting for the capture thread
  raced,        \* history: the session was freed and not yet forgotten while main read it
  deaf,         \* history: the interface, or Scapy's socket, went under the capture
  misused,      \* history: a session already freed was received from or freed again
  misread,      \* history: the main thread asked a session already freed for its statistics
  errors, sensorKills, stops, unplugs

hostSide == <<backend, plugged, unplugs>>
captureSide == <<capture, failing, errors>>
mainSide == <<main, stopping, stops, sensorKills, unjoined>>
past == <<misused, misread, raced, deaf>>
sessionSide == <<program, session, xdp, handle, past>>
captureVars == <<hostSide, captureSide, mainSide, sessionSide, captureError, killed>>

Modes == {"native", "generic"}

\* How far either thread is with XdpCaptureSession.close.
Closing == {"free", "forget"}

Ended == {"ended", "gone"}

CaptureTypeOK ==
  /\ backend \in Modes \union {"scapy"} /\ plugged \in BOOLEAN
  /\ program \in Modes \union {"none"}
  /\ capture \in Modes \union Closing \union Ended
       \union {"create native", "create generic", "sniff", "sniffing",
               "poll", "receive", "handle", "tally", "close", "drop"}
  /\ main \in {"loop", "look", "count", "join", "close", "flush", "exited"} \union Closing
  /\ session \in {"none", "open", "freed"}
  /\ {failing, stopping, captureError, xdp, handle, killed, unjoined, deaf, misused, misread,
     raced}
       \subseteq BOOLEAN
  /\ errors \in 0 .. MaxErrors /\ sensorKills \in 0 .. MaxSensorKills
  /\ stops \in 0 .. MaxStops /\ unplugs \in 0 .. MaxUnplugs

-----------------------------------------------------------------------------
\* main and CaptureSession.run: the thread begins with the backend that is configured.
CaptureInit ==
  /\ backend \in Modes \union {"scapy"} /\ plugged \in BOOLEAN /\ program = "none"
  /\ capture = IF backend = "scapy" THEN "sniff" ELSE backend
  /\ main = "loop" /\ session = "none"
  /\ failing = FALSE /\ stopping = FALSE /\ captureError = FALSE /\ xdp = FALSE /\ handle = FALSE
  /\ killed = FALSE /\ unjoined = FALSE /\ deaf = FALSE /\ misused = FALSE
  /\ misread = FALSE /\ raced = FALSE
  /\ errors = 0 /\ sensorKills = 0 /\ stops = 0 /\ unplugs = 0

\* A step of the capture thread.
Goes(from, to) == main # "exited" /\ capture = from /\ capture' = to

\* The mode tried after this one, or Scapy.
NextMode(mode) == IF mode = "native" THEN "generic" ELSE "sniff"

Creating(mode) == IF mode = "native" THEN "create native" ELSE "create generic"

-----------------------------------------------------------------------------
\* The capture thread opens a session.

\* xdp_cap_open has attached the program, which replaces none that is there already.
Attach(mode) ==
  /\ Goes(mode, Creating(mode))
  /\ plugged /\ program = "none"
  /\ program' = mode
  /\ UNCHANGED <<hostSide, mainSide, failing, errors, session, xdp, handle, past,
                 captureError, killed>>

\* No library, no object file, no interface, or a kernel that does not take the program,
\* in this mode or because there is one.
AttachFails(mode) ==
  /\ Goes(mode, NextMode(mode))
  /\ UNCHANGED <<hostSide, mainSide, failing, errors, sessionSide, captureError, killed>>

\* The memory, the socket, the map and the fill ring are set up: the session is known.
Opened(mode) ==
  /\ Goes(Creating(mode), "poll")
  /\ session' = "open" /\ xdp' = TRUE /\ handle' = TRUE
  /\ UNCHANGED <<hostSide, mainSide, failing, errors, program, past,
                 captureError, killed>>

\* Mutant: what fails after the program is attached just returns NULL.
OpenFails_LeavesProgram(mode) ==
  /\ Goes(Creating(mode), NextMode(mode))
  /\ UNCHANGED <<hostSide, mainSide, failing, errors, sessionSide, captureError, killed>>

\* One of them fails: xdp_cap_close takes back what was done.
OpenFails(mode) ==
  /\ Goes(Creating(mode), NextMode(mode))
  /\ program' = "none"
  /\ UNCHANGED <<hostSide, mainSide, failing, errors, session, xdp, handle, past,
                 captureError, killed>>

-----------------------------------------------------------------------------
\* The capture thread receives frames from it.

\* XdpCaptureSession.run: between frames it asks whether to stop; _handle is read for the
\* call, which does nothing with None.
Poll ==
  /\ \/ stopping /\ Goes("poll", IF handle THEN "tally" ELSE "close")
     \/ ~stopping /\ handle /\ Goes("poll", "receive")
  /\ UNCHANGED <<hostSide, mainSide, failing, errors, sessionSide, captureError, killed>>

\* xdp_cap_recv has a frame or none.
Receive ==
  /\ Goes("receive", "poll") \/ (plugged /\ ~deaf /\ Goes("receive", "handle"))
  /\ misused' = (misused \/ session = "freed")
  /\ UNCHANGED <<hostSide, mainSide, failing, errors, program, session, xdp, handle, misread,
                 raced, deaf, captureError, killed>>

\* The loop is over: the statistics are taken a last time.
Tally ==
  /\ Goes("tally", "close")
  /\ misused' = (misused \/ session = "freed")
  /\ UNCHANGED <<hostSide, mainSide, failing, errors, program, session, xdp, handle, misread,
                 raced, deaf, captureError, killed>>

Handled ==
  /\ Goes("handle", "poll")
  /\ UNCHANGED <<hostSide, mainSide, failing, errors, sessionSide, captureError, killed>>

\* _handle_packet raises, as when the event log cannot be written.
HandlingRaises ==
  /\ Goes("handle", "close") /\ errors < MaxErrors /\ errors' = errors + 1
  /\ failing' = TRUE
  /\ UNCHANGED <<hostSide, mainSide, sessionSide, captureError, killed>>

\* finally: close looks at _handle, frees the session and forgets it; _xdp is dropped.
CloseOwn ==
  /\ Goes("close", IF handle THEN "free" ELSE "drop")
  /\ UNCHANGED <<hostSide, mainSide, failing, errors, sessionSide, captureError, killed>>

\* The main thread is within snapshot.
Snapshot == {"look", "count"}

\* xdp_cap_close detaches the program and frees the memory.
Free ==
  /\ misused' = (misused \/ session = "freed")
  /\ session' = "freed" /\ program' = "none"
  /\ raced' = (raced \/ main \in Snapshot)
  /\ UNCHANGED <<xdp, handle, misread, deaf>>

FreeOwn ==
  /\ Goes("free", "forget") /\ Free
  /\ UNCHANGED <<hostSide, mainSide, failing, errors, captureError, killed>>

ForgetOwn ==
  /\ Goes("forget", "drop") /\ handle' = FALSE
  /\ UNCHANGED <<hostSide, mainSide, failing, errors, program, session, xdp, past,
                 captureError, killed>>

\* Mutant: the thread ends without a word.
DropOwn_Quietly ==
  /\ Goes("drop", "ended") /\ xdp' = FALSE
  /\ UNCHANGED <<hostSide, mainSide, failing, errors, program, session, handle, past,
                 captureError, killed>>

\* capture_loop reports the exception the thread ends with.
DropOwn ==
  /\ Goes("drop", "ended") /\ xdp' = FALSE
  /\ captureError' = failing
  /\ UNCHANGED <<hostSide, mainSide, failing, errors, program, session, handle, past, killed>>

-----------------------------------------------------------------------------
\* The capture thread with Scapy.

\* sniff opens its socket on the interface, or raises.
Sniff ==
  /\ IF plugged THEN Goes("sniff", "sniffing") /\ UNCHANGED captureError
     ELSE Goes("sniff", "ended") /\ captureError' = TRUE
  /\ UNCHANGED <<hostSide, mainSide, failing, errors, sessionSide, killed>>

\* stop_filter is asked after a packet.
SniffStops ==
  /\ stopping /\ plugged /\ ~deaf /\ Goes("sniffing", "ended")
  /\ UNCHANGED <<hostSide, mainSide, failing, errors, sessionSide, captureError, killed>>

\* The handling of a packet raises: sniff raises too, or closes its socket and returns.
SniffFails ==
  /\ plugged /\ ~deaf /\ errors < MaxErrors /\ errors' = errors + 1
  /\ Goes("sniffing", "ended")
  /\ \/ captureError' = TRUE /\ UNCHANGED deaf
     \/ deaf' = TRUE /\ UNCHANGED captureError
  /\ UNCHANGED <<hostSide, mainSide, failing, program, session, xdp, handle, misused, misread,
                 raced, killed>>

CaptureStep ==
  \/ \E mode \in Modes : Attach(mode) \/ AttachFails(mode) \/ Opened(mode) \/ OpenFails(mode)
  \/ Poll \/ Receive \/ Handled \/ Tally \/ CloseOwn \/ FreeOwn \/ ForgetOwn \/ DropOwn \/ Sniff

-----------------------------------------------------------------------------
\* The main thread.

Moves(from, to) == main = from /\ main' = to

\* A pass of the loop, which _shutdown or capture_error ends; snapshot asks for _xdp.
Pass ==
  /\ \/ (stopping \/ captureError) /\ Moves("loop", "join") /\ stopping' = TRUE /\ UNCHANGED raced
     \/ /\ ~stopping /\ ~captureError /\ xdp /\ Moves("loop", "look") /\ UNCHANGED stopping
        /\ raced' = (raced \/ capture = "forget")
  /\ UNCHANGED <<hostSide, captureSide, program, session, xdp, handle, misused, misread, deaf,
                 captureError, killed, stops, sensorKills, unjoined>>

\* _xdp is read again: None now is an AttributeError, which ends the loop; _refresh_stats
\* asks for _handle.
Look ==
  /\ \/ ~xdp /\ Moves("look", "join") /\ stopping' = TRUE
     \/ xdp /\ Moves("look", IF handle THEN "count" ELSE "loop") /\ UNCHANGED stopping
  /\ UNCHANGED <<hostSide, captureSide, sessionSide, captureError, killed, stops, sensorKills,
                 unjoined>>

\* xdp_cap_stats
Count ==
  /\ Moves("count", "loop")
  /\ misread' = (misread \/ session = "freed")
  /\ UNCHANGED <<hostSide, captureSide, program, session, xdp, handle, misused, raced, deaf,
                 captureError, killed, stopping, stops, sensorKills, unjoined>>

\* SIGTERM: _shutdown is set wherever the main thread is, and the capture thread may see it
\* before the main thread does.
Stop ==
  /\ stops < MaxStops /\ stops' = stops + 1
  /\ main # "exited" /\ stopping' = TRUE
  /\ UNCHANGED <<hostSide, captureSide, main, sessionSide, captureError, killed, sensorKills,
                 unjoined>>

\* Mutant: the session is closed without waiting for the thread.
Join_NotAtAll ==
  /\ Moves("join", "close")
  /\ UNCHANGED <<hostSide, captureSide, sessionSide, captureError, killed, stopping, stops,
                 sensorKills, unjoined>>

\* thread.join(timeout=5): the thread has ended, or is left to itself.
Join ==
  /\ Moves("join", "close")
  /\ unjoined' = (unjoined \/ capture \notin Ended)
  /\ UNCHANGED <<hostSide, captureSide, sessionSide, captureError, killed, stopping, stops,
                 sensorKills>>

\* CaptureSession.close
CloseLeft ==
  /\ Moves("close", IF xdp /\ handle THEN "free" ELSE "flush")
  /\ UNCHANGED <<hostSide, captureSide, sessionSide, captureError, killed, stopping, stops,
                 sensorKills, unjoined>>

FreeLeft ==
  /\ Moves("free", "forget") /\ Free
  /\ UNCHANGED <<hostSide, captureSide, captureError, killed, stopping, stops, sensorKills,
                 unjoined>>

ForgetLeft ==
  /\ Moves("forget", "flush") /\ handle' = FALSE /\ xdp' = FALSE
  /\ UNCHANGED <<hostSide, captureSide, program, session, past, captureError,
                 killed, stopping, stops, sensorKills, unjoined>>

\* The last window is published; the process ends, and the capture thread with it.
Exit ==
  /\ Moves("flush", "exited") /\ capture' = "gone"
  /\ UNCHANGED <<hostSide, failing, errors, sessionSide, captureError, killed, stopping, stops,
                 sensorKills, unjoined>>

MainStep ==
  Pass \/ Look \/ Count \/ Join \/ CloseLeft \/ FreeLeft \/ ForgetLeft \/ Exit

-----------------------------------------------------------------------------
\* The process is killed: the kernel keeps the program.
KillSensor ==
  /\ sensorKills < MaxSensorKills /\ sensorKills' = sensorKills + 1
  /\ main \notin {"exited"} /\ main' = "exited" /\ capture' = "gone"
  /\ killed' = (killed \/ program # "none")
  /\ UNCHANGED <<hostSide, failing, errors, sessionSide, captureError, stopping, stops, unjoined>>

\* Docker starts the container again.
RestartSensor ==
  /\ Moves("exited", "loop") /\ stopping' = FALSE
  /\ capture' = IF backend = "scapy" THEN "sniff" ELSE backend
  /\ failing' = FALSE /\ captureError' = FALSE /\ deaf' = FALSE
  /\ session' = "none" /\ xdp' = FALSE /\ handle' = FALSE
  /\ UNCHANGED <<hostSide, errors, program, misused, misread, raced, killed, stops, sensorKills,
                 unjoined>>

\* The interface goes, with the program on it: nobody is told, and neither an AF_XDP
\* session nor Scapy's socket receives from the one that comes back.  sniff returns.
Unplug ==
  /\ plugged /\ unplugs < MaxUnplugs /\ unplugs' = unplugs + 1
  /\ plugged' = FALSE /\ program' = "none" /\ killed' = FALSE
  /\ deaf' = (deaf \/ session = "open" \/ capture = "sniffing"
                   \/ capture \in {Creating(mode) : mode \in Modes})
  /\ capture' = IF capture = "sniffing" THEN "ended" ELSE capture
  /\ UNCHANGED <<backend, failing, errors, mainSide, session, xdp, handle, misused, misread,
                 raced, captureError>>

Replug ==
  /\ ~plugged /\ plugged' = TRUE
  /\ UNCHANGED <<backend, unplugs, captureSide, mainSide, sessionSide, captureError, killed>>

CaptureNext ==
  \/ CaptureStep \/ HandlingRaises \/ SniffStops \/ SniffFails
  \/ MainStep \/ Stop \/ KillSensor \/ RestartSensor \/ Unplug \/ Replug

CaptureSpec == CaptureInit /\ [][CaptureNext]_captureVars

(***************************************************************************)
(* Fairness: both threads go on, the container is started again, and the   *)
(* interface comes back.                                                   *)
(***************************************************************************)
CaptureFairSpec ==
  /\ CaptureSpec
  /\ WF_captureVars(CaptureStep) /\ WF_captureVars(MainStep)
  /\ WF_captureVars(RestartSensor) /\ WF_captureVars(Replug)

-----------------------------------------------------------------------------
\* No session is freed twice, and none is received from after it was freed, unless the main
\* thread gave up waiting for the capture thread.  That the main thread asks a freed session
\* for its statistics, which no lock prevents, takes a snapshot that the capture thread's
\* close falls into, between freeing the session and forgetting it: a pass that begins later
\* cannot, whatever ended the capture thread, the signal in the middle of a snapshot included.
SessionAlive ==
  /\ misused => unjoined
  /\ misread => unjoined \/ raced

\* An XDP program is on the interface only while a session is being opened or is open, but
\* for what a killed process, or a thread left to itself, leaves there for good.
ProgramReleased ==
  program # "none" =>
    \/ session = "open" /\ main # "exited"
    \/ capture = Creating(program)
    \/ killed \/ unjoined

\* Whatever fails when, in the end frames are captured, with AF_XDP or with Scapy, unless
\* the interface or Scapy's socket went under a running capture, which nobody notices.
KeepsCapturing == <>[](capture \in {"poll", "receive", "handle", "sniffing"} \/ deaf)
=============================================================================
