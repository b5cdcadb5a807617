---------------------------- MODULE VehicleAgent ----------------------------
(***************************************************************************)
(* run_agent: the tasks of the vehicle process and what happens to the     *)
(* vehicle when one of them fails.  asyncio.gather ends with the first     *)
(* task that raises; the others, the watchdog among them, are cancelled    *)
(* and the process ends.  Docker starts it again (restart: unless-stopped).*)
(*                                                                         *)
(* The session refresh and the token refresh catch every Exception and     *)
(* cannot end the agent; which packets are accepted is the matter of       *)
(* VehicleReceiver.  Here a packet is accepted unless its command is not   *)
(* valid; an invalid one stands for every packet that is refused.          *)
(*                                                                         *)
(* All tasks share one event loop.  open_configured_camera is not awaited: *)
(* while a camera opens nothing else runs, the watchdog included.          *)
(***************************************************************************)
EXTENDS CommandProtocol

CONSTANTS WatchTimeout, CheckInterval,
          AuditInterval, TelemetryInterval,  \* sleeps of audit_loop, telemetry_loop
          PostTimeout,                       \* timeout of their POSTs
          RateLimit,                         \* time between two equal audit events
          Cameras, OpenTime,                 \* of the layout; the longest an open may take
          Offered,                           \* the commands of the packets that arrive
          Outages                            \* what may go wrong in this instance

ASSUME AgentAssumption ==
    /\ WatchTimeout \in Nat /\ CheckInterval \in Nat \ {0}
    /\ AuditInterval \in Nat \ {0} /\ TelemetryInterval \in Nat \ {0}
    /\ PostTimeout \in Nat \ {0} /\ RateLimit \in Nat \ {0}
    /\ Cameras \in Nat /\ OpenTime \in Nat
    /\ Outages \subseteq {"gatewayHangs", "startUp", "liveKit", "noLibrary", "signal"}

Event == {"command_rejected", "emergency_stop", "watchdog_timeout"}

VARIABLES
    phase,        \* of the process
    link,         \* livekit_connect_loop: is the room connected?
    quiet,        \* time since last_valid_cmd_time, counted up to MaxQuiet
    checkIn,      \* time to the next look of the watchdog, 0 when it is due
    cameras,      \* LiveKitVideoPublisher.start: cameras it has not tried to open
    hold,         \* time for which an open still holds up the event loop
    inEmergency,  \* EmergencyBrakeController.in_emergency
    queued,       \* _audit_events
    loggedAgo,    \* time since _last_audit_at of an event, counted up to RateLimit
    stats,        \* there are latencies to report
    audit,        \* audit_loop: events left to post, none when it sleeps; time left
    telemetry,    \* telemetry_loop: likewise
    drive,        \* the vehicle: what it was told last
    silent        \* history: time since it was told, counted up to MaxQuiet

cameraVars == <<cameras, hold>>
process == <<link, quiet, checkIn, cameraVars, inEmergency, queued, loggedAgo, stats, audit,
             telemetry>>
vars == <<phase, process, drive, silent>>

\* The longest time without a command: the watchdog's, and all that may hold it up.
Limit == WatchTimeout + CheckInterval + Cameras * OpenTime
MaxQuiet == Limit + 1
Up(n, max) == IF n < max THEN n + 1 ELSE n
Down(n) == IF n > 0 THEN n - 1 ELSE 0

\* Every variable has its type.
TypeOK ==
    /\ phase \in {"exited", "starting", "running"}
    /\ link \in {"off", "connecting", "up"}
    /\ quiet \in 0 .. MaxQuiet /\ checkIn \in 0 .. CheckInterval
    /\ cameras \in 0 .. Cameras /\ hold \in 0 .. OpenTime
    /\ inEmergency \in BOOLEAN /\ stats \in BOOLEAN
    /\ queued \subseteq Event
    /\ loggedAgo \in [Event -> 0 .. RateLimit]
    /\ audit \in [events : {{}}, left : 0 .. AuditInterval]
                    \cup [events : (SUBSET Event) \ {{}}, left : 0 .. PostTimeout]
    /\ telemetry \in [posting : {FALSE}, left : 0 .. TelemetryInterval]
                        \cup [posting : {TRUE}, left : 0 .. PostTimeout]
    /\ drive \in {"none", "command", "brake"}
    /\ silent \in 0 .. MaxQuiet

\* What the process knows when it starts, and once it is gone.
Blank ==
    /\ link' = "off" /\ quiet' = 0 /\ checkIn' = 0 /\ inEmergency' = FALSE
    /\ cameras' = Cameras /\ hold' = 0
    /\ queued' = {} /\ loggedAgo' = [e \in Event |-> RateLimit] /\ stats' = FALSE
    /\ audit' = [events |-> {}, left |-> 0] /\ telemetry' = [posting |-> FALSE, left |-> 0]

Init ==
    /\ phase = "starting"
    /\ link = "off" /\ quiet = 0 /\ checkIn = 0 /\ inEmergency = FALSE
    /\ cameras = Cameras /\ hold = 0
    /\ queued = {} /\ loggedAgo = [e \in Event |-> RateLimit] /\ stats = FALSE
    /\ audit = [events |-> {}, left |-> 0] /\ telemetry = [posting |-> FALSE, left |-> 0]
    /\ drive = "none" /\ silent = MaxQuiet

-----------------------------------------------------------------------------
(* The process.                                                            *)

\* Mutant: a new process takes itself to be braking.
BootBraking ==
    /\ phase = "exited" /\ phase' = "starting"
    /\ inEmergency' = TRUE
    /\ UNCHANGED <<link, quiet, checkIn, cameraVars, queued, loggedAgo, stats, audit,
                   telemetry, drive, silent>>

Boot == phase = "exited" /\ phase' = "starting" /\ Blank /\ UNCHANGED <<drive, silent>>

\* gather raises or run_agent returns; no task is left.
Exit == phase' = "exited" /\ Blank /\ UNCHANGED <<drive, silent>>

\* _queue_audit_event, for the events of a step.
Queue(events) ==
    LET fresh == {e \in events : loggedAgo[e] >= RateLimit} IN
    /\ queued' = queued \cup fresh
    /\ loggedAgo' = [e \in Event |-> IF e \in fresh THEN 0 ELSE loggedAgo[e]]

\* Mutant: the watchdog is an interval late.
LookLate ==
    LET brakes == quiet > WatchTimeout + CheckInterval /\ ~inEmergency IN
    /\ checkIn' = CheckInterval
    /\ inEmergency' = (inEmergency \/ brakes)
    /\ drive' = IF brakes THEN "brake" ELSE drive
    /\ Queue(IF brakes THEN {"watchdog_timeout"} ELSE {})

\* One look of safety_watchdog.
Look ==
    LET brakes == quiet > WatchTimeout /\ ~inEmergency IN
    /\ checkIn' = CheckInterval
    /\ inEmergency' = (inEmergency \/ brakes)
    /\ drive' = IF brakes THEN "brake" ELSE drive
    /\ Queue(IF brakes THEN {"watchdog_timeout"} ELSE {})

\* The tokens are there and the tasks are started; the watchdog looks before the LiveKit
\* task, which is created after it, gets to run ...
Started ==
    /\ phase = "starting"
    /\ phase' = "running" /\ link' = "connecting"
    /\ Look
    /\ audit' = [events |-> {}, left |-> AuditInterval]
    /\ telemetry' = [posting |-> FALSE, left |-> TelemetryInterval]
    /\ UNCHANGED <<quiet, cameraVars, stats, silent>>

\* ... or the token endpoint or the gateway did not provide them.
StartFails == phase = "starting" /\ "startUp" \in Outages /\ Exit

\* A task may run: no camera is being opened.
Free == phase = "running" /\ hold = 0

\* _shutdown, which the event loop calls.
Shutdown == (phase = "starting" \/ Free) /\ "signal" \in Outages /\ Exit

-----------------------------------------------------------------------------
(* The tasks.                                                              *)

\* open_configured_camera, of the next camera, whether it succeeds or not.
Open == cameras' = cameras - 1 /\ hold' \in 0 .. OpenTime

\* room.connect succeeds, and start opens the first camera before it awaits anything ...
Connected ==
    /\ link = "connecting" /\ Free /\ link' = "up"
    /\ IF cameras = 0 THEN UNCHANGED cameraVars ELSE Open
    /\ UNCHANGED <<phase, quiet, checkIn, inEmergency, queued, loggedAgo, stats, audit,
                   telemetry, drive, silent>>

\* ... and another one when publish_track has ended, or at once when an open has failed.
OpenNext ==
    /\ link = "up" /\ Free /\ cameras > 0
    /\ Open
    /\ UNCHANGED <<phase, link, quiet, checkIn, inEmergency, queued, loggedAgo, stats, audit,
                   telemetry, drive, silent>>

\* There is no livekit library; room.connect raises.
NoLibrary ==
    /\ link = "connecting" /\ Free /\ "noLibrary" \in Outages
    /\ link' = "off"
    /\ UNCHANGED <<phase, quiet, checkIn, cameraVars, inEmergency, queued, loggedAgo, stats,
                   audit, telemetry, drive, silent>>
ConnectFails == link = "connecting" /\ Free /\ "liveKit" \in Outages /\ Exit

\* on_datachannel_message with a packet that is accepted ...
Command(c) ==
    /\ link = "up" /\ Free /\ valid_command(c)
    /\ quiet' = 0 /\ silent' = 0
    /\ inEmergency' = FALSE /\ drive' = "command"
    /\ stats' = TRUE
    /\ Queue(IF FullBrake(c) THEN {"emergency_stop"} ELSE {})
    /\ UNCHANGED <<phase, link, checkIn, cameraVars, audit, telemetry>>

\* ... and with one that is not.
Rejected(c) ==
    /\ link = "up" /\ Free /\ ~valid_command(c)
    /\ Queue({"command_rejected"})
    /\ UNCHANGED <<phase, link, quiet, checkIn, cameraVars, inEmergency, stats, audit,
                   telemetry, drive, silent>>

\* safety_watchdog looks again.
Watchdog ==
    /\ Free /\ checkIn = 0
    /\ Look
    /\ UNCHANGED <<phase, link, quiet, cameraVars, stats, audit, telemetry, silent>>

\* Mutant: the sleep is as long as a POST may take.
NextPostLong(events) == audit' = [events |-> events, left |-> PostTimeout]

\* audit_loop takes the queued events and posts them one by one.
NextPost(events) ==
    audit' = [events |-> events, left |-> IF events = {} THEN AuditInterval ELSE PostTimeout]

AuditWakes ==
    /\ Free /\ audit.events = {} /\ audit.left = 0
    /\ NextPost(queued)
    /\ queued' = {}
    /\ UNCHANGED <<phase, link, quiet, checkIn, cameraVars, inEmergency, loggedAgo, stats,
                   telemetry, drive, silent>>

\* A POST is answered, or fails with a ClientError, which is caught.
AuditPosted(e) ==
    /\ Free /\ e \in audit.events
    /\ NextPost(audit.events \ {e})
    /\ UNCHANGED <<phase, link, quiet, checkIn, cameraVars, inEmergency, queued, loggedAgo,
                   stats, telemetry, drive, silent>>

\* telemetry_loop.
TelemetryWakes ==
    /\ Free /\ ~telemetry.posting /\ telemetry.left = 0
    /\ telemetry' = [posting |-> stats, left |-> IF stats THEN PostTimeout ELSE TelemetryInterval]
    /\ stats' = FALSE
    /\ UNCHANGED <<phase, link, quiet, checkIn, cameraVars, inEmergency, queued, loggedAgo,
                   audit, drive, silent>>

TelemetryPosted ==
    /\ Free /\ telemetry.posting
    /\ telemetry' = [posting |-> FALSE, left |-> TelemetryInterval]
    /\ UNCHANGED <<phase, link, quiet, checkIn, cameraVars, inEmergency, queued, loggedAgo,
                   stats, audit, drive, silent>>

\* A POST that takes too long raises TimeoutError, which is no ClientError.
PostTimesOut ==
    /\ Free /\ "gatewayHangs" \in Outages
    /\ \/ audit.events # {} /\ audit.left = 0
       \/ telemetry.posting /\ telemetry.left = 0
    /\ Exit

-----------------------------------------------------------------------------
\* What is due happens before time goes on, unless an open holds up the event loop.
Tick ==
    /\ Free => checkIn > 0 /\ audit.left > 0 /\ telemetry.left > 0
    /\ quiet' = IF phase = "exited" THEN 0 ELSE Up(quiet, MaxQuiet)
    /\ silent' = Up(silent, MaxQuiet)
    /\ loggedAgo' = [e \in Event |-> Up(loggedAgo[e], RateLimit)]
    /\ hold' = Down(hold)
    /\ IF phase = "running"
       THEN /\ checkIn' = Down(checkIn)
            /\ audit' = [audit EXCEPT !.left = Down(@)]
            /\ telemetry' = [telemetry EXCEPT !.left = Down(@)]
       ELSE UNCHANGED <<checkIn, audit, telemetry>>
    /\ UNCHANGED <<phase, link, cameras, inEmergency, queued, stats, drive>>

Next ==
    \/ Boot \/ Started \/ StartFails \/ Shutdown
    \/ Connected \/ OpenNext \/ NoLibrary \/ ConnectFails
    \/ \E c \in Offered : Command(c) \/ Rejected(c)
    \/ Watchdog
    \/ AuditWakes \/ TelemetryWakes \/ TelemetryPosted \/ PostTimesOut
    \/ \E e \in Event : AuditPosted(e)
    \/ Tick

Spec == Init /\ [][Next]_vars

\* Docker starts the process again, its start and its connection do not fail for ever,
\* its event loop goes on, a POST that cannot hang is answered, and signals are few.
FairSpec ==
    /\ Spec
    /\ WF_vars(Tick) /\ WF_vars(Boot) /\ SF_vars(Started) /\ SF_vars(Connected)
    /\ WF_vars(Watchdog) /\ WF_vars(AuditWakes) /\ WF_vars(TelemetryWakes)
    /\ WF_vars(TelemetryPosted) /\ \A e \in Event : WF_vars(AuditPosted(e))
    /\ <>[][~Shutdown]_vars

-----------------------------------------------------------------------------
(* Properties.                                                             *)

\* A vehicle whose commands stop is braked in time, whatever happens to the gateway,
\* LiveKit and the network.
SilenceStops == drive = "command" => silent <= Limit

\* While the watchdog runs it has the vehicle braked within its timeout, one interval and
\* what the opens of the cameras take together, also after a restart, when the command the
\* vehicle executes is one of the process before.
WatchedStops == phase = "running" /\ drive = "command" => quiet <= Limit

\* However often the gateway ends the process, a vehicle whose commands stop is braked.
EventuallyStops == drive = "command" ~> (drive = "brake" \/ silent = 0)
=============================================================================
