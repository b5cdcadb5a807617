------------------------- MODULE VehicleAgentProofs -------------------------
(***************************************************************************)
(* The watchdog brakes a vehicle whose commands stop, for every choice of  *)
(* the delays and of the cameras that hold up its event loop: always while *)
(* the process runs, and at all times if neither a hanging gateway nor a   *)
(* signal ends the process.  The types of the agent, and what the command  *)
(* protocol lets through, for every command.                               *)
(***************************************************************************)
EXTENDS VehicleAgent, TLAPS

\* The parts of the state the argument is about.
WatchType ==
    /\ phase \in {"exited", "starting", "running"}
    /\ quiet \in 0 .. MaxQuiet /\ silent \in 0 .. MaxQuiet
    /\ checkIn \in 0 .. CheckInterval
    /\ cameras \in 0 .. Cameras /\ hold \in Nat
    /\ inEmergency \in BOOLEAN
    /\ link # "off" \/ hold > 0 => phase = "running"

\* A process that took the vehicle to be braking has braked it.
Braking == inEmergency => drive = "brake"

\* The time for which the opens to come may hold up the event loop.
Pending(n) == n * OpenTime

\* What is left of the limit covers the time to the next look and all that may delay it.
InTime ==
    phase = "running" /\ drive = "command" => quiet + checkIn + hold + Pending(cameras) <= Limit

WatchInv == WatchType /\ Braking /\ InTime

\* What a fresh process is like.
Fresh ==
    /\ link = "off" /\ quiet = 0 /\ checkIn = 0 /\ inEmergency \in BOOLEAN /\ ~inEmergency
    /\ cameras = Cameras /\ hold = 0

LEMMA PendingFits ==
    ASSUME cameras \in 0 .. Cameras
    PROVE  /\ Pending(cameras) \in Nat /\ Limit \in Nat
           /\ WatchTimeout + CheckInterval + Pending(cameras) <= Limit
<1> DEFINE n == cameras
<1>1. n \in Nat /\ Cameras - n \in Nat /\ Cameras = n + (Cameras - n)
    BY AgentAssumption
<1>2. \A i, j, t \in Nat : i * t \in Nat /\ j * t \in Nat /\ (i + j) * t = i * t + j * t
    BY SMT
<1>3. /\ n * OpenTime \in Nat /\ (Cameras - n) * OpenTime \in Nat
      /\ Cameras * OpenTime = n * OpenTime + (Cameras - n) * OpenTime
    BY <1>1, <1>2, AgentAssumption
<1> QED
    BY <1>3, AgentAssumption DEF Pending, Limit

\* An open takes no more than was set aside for it.
LEMMA OpenFits ==
    ASSUME cameras \in 0 .. Cameras, cameras > 0, Open
    PROVE  /\ cameras' \in 0 .. Cameras /\ hold' \in Nat
           /\ Pending(cameras') \in Nat /\ hold' + Pending(cameras') <= Pending(cameras)
<1> DEFINE n == cameras - 1
<1>1. /\ n \in Nat /\ cameras = n + 1 /\ cameras' = n /\ cameras' \in 0 .. Cameras
      /\ hold' \in Nat /\ hold' <= OpenTime
    BY AgentAssumption DEF Open
<1>2. \A i, t \in Nat : i * t \in Nat /\ (i + 1) * t = i * t + t
    BY SMT
<1>3. n * OpenTime \in Nat /\ cameras * OpenTime = n * OpenTime + OpenTime
    BY <1>1, <1>2, AgentAssumption
<1> HIDE DEF n
<1>4. Pending(cameras') \in Nat /\ Pending(cameras) = Pending(cameras') + OpenTime
    BY <1>1, <1>3 DEF Pending
<1> QED
    BY <1>1, <1>4, AgentAssumption

LEMMA FreshInit == Init => Fresh /\ phase = "starting" /\ drive = "none" /\ silent = MaxQuiet
BY DEF Init, Fresh

LEMMA FreshProcess == Blank => Fresh'
BY DEF Blank, Fresh

\* Limit and MaxQuiet are numbers.
LEMMA LimitOK == Limit \in Nat /\ MaxQuiet = Limit + 1
<1>1. \A i, t \in Nat : i * t \in Nat
    BY SMT
<1> QED
    BY <1>1, AgentAssumption DEF Limit, MaxQuiet

LEMMA WatchInit == Init => WatchInv
BY FreshInit, LimitOK, AgentAssumption, SMT DEF Fresh, WatchInv, WatchType, Braking, InTime

LEMMA ExitWatched == WatchInv /\ Exit => WatchInv'
<1> SUFFICES ASSUME WatchInv, Exit PROVE WatchInv'
    OBVIOUS
<1>1. Fresh' /\ phase' = "exited" /\ UNCHANGED <<drive, silent>>
    BY FreshProcess DEF Exit
<1> QED
    BY <1>1, LimitOK, AgentAssumption, SMT DEF Fresh, WatchInv, WatchType, Braking, InTime

LEMMA WatchNext == WatchInv /\ [Next]_vars => WatchInv'
<1> SUFFICES ASSUME WatchInv, [Next]_vars PROVE WatchInv'
    OBVIOUS
<1> USE AgentAssumption, LimitOK DEF WatchInv, WatchType, Braking, InTime
<1>p. Pending(cameras) \in Nat /\ WatchTimeout + CheckInterval + Pending(cameras) <= Limit
    BY PendingFits
<1>1. CASE Boot
  <2>1. Fresh' /\ phase' = "starting" /\ UNCHANGED <<drive, silent>>
      BY <1>1, FreshProcess DEF Boot
  <2> QED
      BY <2>1, SMT DEF Fresh
<1>2. CASE Started
    BY <1>2, <1>p, SMT DEF Started, Look, cameraVars
<1>3. CASE StartFails \/ Shutdown \/ ConnectFails \/ PostTimesOut
    BY <1>3, ExitWatched DEF StartFails, Shutdown, ConnectFails, PostTimesOut
<1>4. CASE NoLibrary \/ (Connected /\ cameras = 0)
    BY <1>4, SMT DEF Connected, NoLibrary, cameraVars, Free
<1>12. CASE OpenNext \/ (Connected /\ cameras # 0)
  <2>1. /\ cameras > 0 /\ Open /\ hold = 0 /\ phase = "running"
        /\ UNCHANGED <<phase, quiet, silent, checkIn, inEmergency, drive>>
      BY <1>12, SMT DEF Connected, OpenNext, Free
  <2>2. /\ cameras' \in 0 .. Cameras /\ hold' \in Nat
        /\ Pending(cameras') \in Nat /\ hold' + Pending(cameras') <= Pending(cameras)
      BY <2>1, OpenFits
  <2>3. WatchType' /\ Braking'
      BY <2>1, <2>2, Zenon
  <2>4. InTime'
      BY <1>p, <2>1, <2>2, SMT
  <2> QED
      BY <2>3, <2>4
<1>5. ASSUME NEW c \in Offered, Command(c) PROVE WatchInv'
  <2>1. /\ link = "up" /\ quiet' = 0 /\ silent' = 0 /\ hold = 0
        /\ inEmergency' \in BOOLEAN /\ ~inEmergency'
        /\ UNCHANGED <<phase, link, checkIn, cameras, hold>>
      BY <1>5 DEF Command, cameraVars, Free
  <2> QED
      BY <2>1, <1>p, SMT
<1>6. ASSUME NEW c \in Offered, Rejected(c) PROVE WatchInv'
    BY <1>6, SMT DEF Rejected, cameraVars
<1>7. CASE Watchdog
    BY <1>7, <1>p, SMT DEF Watchdog, Look, cameraVars, Free
<1>8. CASE AuditWakes \/ TelemetryWakes \/ TelemetryPosted
    BY <1>8, SMT DEF AuditWakes, TelemetryWakes, TelemetryPosted, cameraVars
<1>9. ASSUME NEW e \in Event, AuditPosted(e) PROVE WatchInv'
    BY <1>9, SMT DEF AuditPosted, cameraVars
<1>10. CASE Tick
    BY <1>10, <1>p, SMT DEF Tick, Up, Down, Free
<1>11. CASE UNCHANGED vars
    BY <1>11, SMT DEF vars, process, cameraVars
<1> QED
    BY <1>1, <1>2, <1>3, <1>4, <1>5, <1>6, <1>7, <1>8, <1>9, <1>10, <1>11, <1>12 DEF Next

\* While safety_watchdog runs, a vehicle that executes a command is braked within the
\* timeout, one interval and what the opens of the cameras (open_configured_camera, on the
\* same event loop) may take together, whatever ended the process before.
THEOREM WatchdogWorks == Spec => []WatchedStops
<1>1. WatchInv => WatchedStops
    BY PendingFits, LimitOK, AgentAssumption, SMT DEF WatchInv, WatchType, InTime, WatchedStops
<1> QED
    BY WatchInit, WatchNext, <1>1, PTL DEF Spec

-----------------------------------------------------------------------------
\* Only a process that is connected, and goes on, has the vehicle execute a command.
Driven == drive = "command" => phase = "running" /\ link = "up" /\ silent = quiet

LEMMA DrivenNext ==
    ASSUME Outages \cap {"gatewayHangs", "signal"} = {}, WatchInv, Driven, [Next]_vars
    PROVE  Driven'
<1> USE DEF WatchInv, WatchType, Driven
<1>1. CASE Boot
    BY <1>1 DEF Boot
<1>2. CASE Started
    BY <1>2 DEF Started, Look
<1>3. CASE StartFails
    BY <1>3 DEF StartFails, Exit
<1>4. CASE ConnectFails
    BY <1>4 DEF ConnectFails, Exit
<1>5. ~Shutdown /\ ~PostTimesOut
    BY DEF Shutdown, PostTimesOut
<1>6. CASE Connected \/ OpenNext \/ NoLibrary
    BY <1>6 DEF Connected, OpenNext, NoLibrary
<1>7. ASSUME NEW c \in Offered, Command(c) PROVE Driven'
    BY <1>7 DEF Command, Free
<1>8. ASSUME NEW c \in Offered, Rejected(c) PROVE Driven'
    BY <1>8 DEF Rejected
<1>9. CASE Watchdog
    BY <1>9 DEF Watchdog, Look
<1>10. CASE AuditWakes \/ TelemetryWakes \/ TelemetryPosted
    BY <1>10 DEF AuditWakes, TelemetryWakes, TelemetryPosted
<1>11. ASSUME NEW e \in Event, AuditPosted(e) PROVE Driven'
    BY <1>11 DEF AuditPosted
<1>12. CASE Tick
    BY <1>12 DEF Tick
<1>13. CASE UNCHANGED vars
    BY <1>13 DEF vars, process
<1> QED
    BY <1>1, <1>2, <1>3, <1>4, <1>5, <1>6, <1>7, <1>8, <1>9, <1>10, <1>11, <1>12, <1>13 DEF Next

\* A vehicle whose commands stop is braked within the timeout, one interval and what the
\* opens of the cameras take together, if start-up failures, LiveKit, a slow camera and a
\* gateway that refuses connections are all that goes wrong: none of these ends a process
\* that has let a command through.
THEOREM SurvivesOutages ==
    ASSUME Outages \cap {"gatewayHangs", "signal"} = {}
    PROVE  Spec => []SilenceStops
<1>1. Init => WatchInv /\ Driven
    BY WatchInit, FreshInit DEF Driven
<1>2. WatchInv /\ Driven /\ [Next]_vars => (WatchInv /\ Driven)'
    BY WatchNext, DrivenNext
<1>3. WatchInv /\ Driven => SilenceStops
    BY PendingFits, LimitOK, AgentAssumption, SMT
        DEF WatchInv, WatchType, InTime, Driven, SilenceStops
<1> QED
    BY <1>1, <1>2, <1>3, PTL DEF Spec

-----------------------------------------------------------------------------
(* Types.  A loop that posts has the time of a POST left, one that sleeps  *)
(* the time of its sleep.                                                  *)

AuditType == [events : {{}}, left : 0 .. AuditInterval]
                \cup [events : (SUBSET Event) \ {{}}, left : 0 .. PostTimeout]
TelemetryType == [posting : {FALSE}, left : 0 .. TelemetryInterval]
                    \cup [posting : {TRUE}, left : 0 .. PostTimeout]

LEMMA BlankType ==
    ASSUME Blank, phase' \in {"exited", "starting", "running"}, TypeOK, UNCHANGED <<drive, silent>>
    PROVE  TypeOK'
<1>1. audit' \in AuditType /\ telemetry' \in TelemetryType
    BY AgentAssumption DEF Blank, AuditType, TelemetryType
<1>2. /\ quiet' \in 0 .. MaxQuiet /\ checkIn' \in 0 .. CheckInterval
      /\ cameras' \in 0 .. Cameras /\ hold' \in 0 .. OpenTime
    BY LimitOK, AgentAssumption DEF Blank
<1>3. loggedAgo' \in [Event -> 0 .. RateLimit]
    BY AgentAssumption DEF Blank
<1>4. inEmergency' \in BOOLEAN /\ stats' \in BOOLEAN /\ link' = "off" /\ queued' \subseteq Event
    BY DEF Blank
<1> QED
    BY <1>1, <1>2, <1>3, <1>4 DEF TypeOK, AuditType, TelemetryType

LEMMA QueueType ==
    ASSUME TypeOK, NEW events \in SUBSET Event, Queue(events)
    PROVE  queued' \subseteq Event /\ loggedAgo' \in [Event -> 0 .. RateLimit]
BY AgentAssumption DEF TypeOK, Queue

LEMMA LookType ==
    ASSUME TypeOK, Look
    PROVE  /\ queued' \subseteq Event /\ loggedAgo' \in [Event -> 0 .. RateLimit]
           /\ checkIn' \in 0 .. CheckInterval
           /\ inEmergency' \in BOOLEAN /\ drive' \in {"none", "command", "brake"}
<1>1. queued' \subseteq Event /\ loggedAgo' \in [Event -> 0 .. RateLimit]
    BY QueueType DEF Look, Event
<1>2. checkIn' \in 0 .. CheckInterval
    BY AgentAssumption DEF Look
<1>3. inEmergency' \in BOOLEAN /\ drive' \in {"none", "command", "brake"}
    BY DEF Look, TypeOK
<1> QED
    BY <1>1, <1>2, <1>3

LEMMA PostType ==
    ASSUME NEW events \in SUBSET Event, NextPost(events)
    PROVE  audit' \in AuditType
<1>1. CASE events = {}
    BY <1>1, AgentAssumption DEF NextPost, AuditType
<1>2. CASE events # {}
    BY <1>2, AgentAssumption DEF NextPost, AuditType
<1> QED
    BY <1>1, <1>2

LEMMA PostedType ==
    /\ [posting |-> FALSE, left |-> TelemetryInterval] \in TelemetryType
    /\ [posting |-> TRUE, left |-> PostTimeout] \in TelemetryType
<1>1. TelemetryInterval \in 0 .. TelemetryInterval /\ PostTimeout \in 0 .. PostTimeout
    BY AgentAssumption
<1> QED
    BY <1>1 DEF TelemetryType

LEMMA AgentTypeInit == Init => TypeOK
<1> SUFFICES ASSUME Init PROVE TypeOK
    OBVIOUS
<1>1. audit \in AuditType /\ telemetry \in TelemetryType
    BY AgentAssumption DEF Init, AuditType, TelemetryType
<1>2. /\ quiet \in 0 .. MaxQuiet /\ checkIn \in 0 .. CheckInterval /\ silent \in 0 .. MaxQuiet
      /\ cameras \in 0 .. Cameras /\ hold \in 0 .. OpenTime
      /\ loggedAgo \in [Event -> 0 .. RateLimit]
    BY LimitOK, AgentAssumption DEF Init
<1> QED
    BY <1>1, <1>2 DEF Init, TypeOK, AuditType, TelemetryType

LEMMA AgentTypeNext == TypeOK /\ [Next]_vars => TypeOK'
<1> SUFFICES ASSUME TypeOK, [Next]_vars PROVE TypeOK'
    OBVIOUS
<1>1. CASE Boot \/ StartFails \/ Shutdown \/ ConnectFails \/ PostTimesOut
    BY <1>1, BlankType DEF Boot, StartFails, Shutdown, ConnectFails, PostTimesOut, Exit
<1>2. CASE Started
  <2>1. audit' \in AuditType /\ telemetry' \in TelemetryType
      BY <1>2, AgentAssumption DEF Started, AuditType, TelemetryType
  <2>2. /\ queued' \subseteq Event /\ loggedAgo' \in [Event -> 0 .. RateLimit]
        /\ checkIn' \in 0 .. CheckInterval
        /\ inEmergency' \in BOOLEAN /\ drive' \in {"none", "command", "brake"}
      BY <1>2, LookType DEF Started
  <2>3. /\ phase' = "running" /\ link' = "connecting"
        /\ UNCHANGED <<quiet, cameras, hold, stats, silent>>
      BY <1>2 DEF Started, cameraVars
  <2> QED
      BY <2>1, <2>2, <2>3 DEF TypeOK, AuditType, TelemetryType
<1>3. CASE NoLibrary
    BY <1>3 DEF NoLibrary, cameraVars, TypeOK
<1>12. CASE Connected \/ OpenNext
  <2>1. cameras' \in 0 .. Cameras /\ hold' \in 0 .. OpenTime
      BY <1>12, AgentAssumption DEF Connected, OpenNext, Open, cameraVars, TypeOK
  <2> QED
      BY <1>12, <2>1 DEF Connected, OpenNext, TypeOK
<1>4. ASSUME NEW c \in Offered, Command(c) PROVE TypeOK'
  <2>1. queued' \subseteq Event /\ loggedAgo' \in [Event -> 0 .. RateLimit]
      BY <1>4, QueueType DEF Command, Event
  <2>2. 0 \in 0 .. MaxQuiet
      BY LimitOK
  <2> QED
      BY <1>4, <2>1, <2>2 DEF Command, cameraVars, TypeOK
<1>5. ASSUME NEW c \in Offered, Rejected(c) PROVE TypeOK'
  <2>1. queued' \subseteq Event /\ loggedAgo' \in [Event -> 0 .. RateLimit]
      BY <1>5, QueueType DEF Rejected, Event
  <2> QED
      BY <1>5, <2>1 DEF Rejected, cameraVars, TypeOK
<1>6. CASE Watchdog
  <2>1. /\ queued' \subseteq Event /\ loggedAgo' \in [Event -> 0 .. RateLimit]
        /\ checkIn' \in 0 .. CheckInterval
        /\ inEmergency' \in BOOLEAN /\ drive' \in {"none", "command", "brake"}
      BY <1>6, LookType DEF Watchdog
  <2>2. UNCHANGED <<phase, link, quiet, cameras, hold, stats, audit, telemetry, silent>>
      BY <1>6 DEF Watchdog, cameraVars
  <2> QED
      BY <2>1, <2>2 DEF TypeOK
<1>7. CASE AuditWakes
  <2>1. audit' \in AuditType
      BY <1>7, PostType DEF AuditWakes, TypeOK
  <2> QED
      BY <1>7, <2>1 DEF AuditWakes, cameraVars, TypeOK, AuditType
<1>8. ASSUME NEW e \in Event, AuditPosted(e) PROVE TypeOK'
  <2>1. audit.events \in SUBSET Event
      BY DEF TypeOK
  <2>2. audit' \in AuditType
      BY <1>8, <2>1, PostType DEF AuditPosted
  <2> QED
      BY <1>8, <2>2 DEF AuditPosted, cameraVars, TypeOK, AuditType
<1>9. CASE TelemetryWakes \/ TelemetryPosted
  <2>1. ASSUME TelemetryWakes, stats = TRUE PROVE telemetry' \in TelemetryType
      BY <2>1, PostedType DEF TelemetryWakes
  <2>2. ASSUME TelemetryPosted \/ (TelemetryWakes /\ stats = FALSE)
        PROVE  telemetry' \in TelemetryType
      BY <2>2, PostedType DEF TelemetryWakes, TelemetryPosted
  <2>3. stats = TRUE \/ stats = FALSE
      BY DEF TypeOK
  <2>4. telemetry' \in TelemetryType
      BY <1>9, <2>1, <2>2, <2>3
  <2> QED
      BY <1>9, <2>4 DEF TelemetryWakes, TelemetryPosted, cameraVars, TypeOK, TelemetryType
<1>10. CASE Tick
  <2>1. /\ quiet' \in 0 .. MaxQuiet /\ silent' \in 0 .. MaxQuiet
        /\ checkIn' \in 0 .. CheckInterval /\ hold' \in 0 .. OpenTime
      BY <1>10, LimitOK, AgentAssumption DEF Tick, Up, Down, TypeOK
  <2>2. loggedAgo' \in [Event -> 0 .. RateLimit]
      BY <1>10, AgentAssumption DEF Tick, Up, TypeOK
  <2>3. audit' \in AuditType
      BY <1>10, AgentAssumption DEF Tick, Down, TypeOK, AuditType
  <2>4. telemetry' \in TelemetryType
    <3> DEFINE t == telemetry
               n == Down(t.left)
    <3>1. CASE phase = "running" /\ t \in [posting : {FALSE}, left : 0 .. TelemetryInterval]
      <4>1. n \in 0 .. TelemetryInterval /\ telemetry' = [t EXCEPT !.left = n]
          BY <1>10, <3>1, AgentAssumption DEF Tick, Down
      <4> HIDE DEF n
      <4>2. telemetry' \in [posting : {FALSE}, left : 0 .. TelemetryInterval]
          BY <3>1, <4>1
      <4> QED
          BY <4>2 DEF TelemetryType
    <3>2. CASE phase = "running" /\ t \in [posting : {TRUE}, left : 0 .. PostTimeout]
      <4>1. n \in 0 .. PostTimeout /\ telemetry' = [t EXCEPT !.left = n]
          BY <1>10, <3>2, AgentAssumption DEF Tick, Down
      <4> HIDE DEF n
      <4>2. telemetry' \in [posting : {TRUE}, left : 0 .. PostTimeout]
          BY <3>2, <4>1
      <4> QED
          BY <4>2 DEF TelemetryType
    <3>3. CASE phase # "running"
        BY <1>10, <3>3 DEF Tick, TypeOK, TelemetryType
    <3> QED
        BY <3>1, <3>2, <3>3 DEF TypeOK
  <2> QED
      BY <1>10, <2>1, <2>2, <2>3, <2>4 DEF Tick, TypeOK, AuditType, TelemetryType
<1>11. CASE UNCHANGED vars
    BY <1>11 DEF vars, process, cameraVars, TypeOK
<1> QED
    BY <1>1, <1>2, <1>3, <1>4, <1>5, <1>6, <1>7, <1>8, <1>9, <1>10, <1>11, <1>12 DEF Next

\* The agent keeps its types, for any delays: no timer runs below zero or past its length,
\* and no loop sleeps for as long as a POST may take, or posts for as long as it sleeps.
THEOREM AgentTypeCorrect == Spec => []TypeOK
BY AgentTypeInit, AgentTypeNext, PTL DEF Spec

-----------------------------------------------------------------------------
(* The rules of the command protocol.                                      *)

\* What valid_command lets through stays within what the actuators are made for, with
\* one exception: it checks the direction without its fraction and resolve_command passes
\* it on with it, so that the direction is only known to lie between -2 and 2.
THEOREM ResolvedInRange ==
    ASSUME NEW c, valid_command(c)
    PROVE  LET a == resolve_command(c) IN
           /\ a.steering \in -Unit .. Unit
           /\ a.throttle \in 0 .. Unit
           /\ a.brake \in 0 .. Unit
           /\ -2 * Unit < a.direction /\ a.direction < 2 * Unit
<1>1. CASE HighLevel(c)
  BY <1>1, ProtocolAssumption DEF valid_command, resolve_command, Actuators, HIGH_LEVEL_ACTIONS
<1>2. CASE ~HighLevel(c)
  <2>1. Direction(c) \in Int /\ -2 * Unit < Direction(c) /\ Direction(c) < 2 * Unit
    BY <1>2, ProtocolAssumption DEF valid_command, Truncates
  <2>2. QED
    BY <1>2, <2>1, ProtocolAssumption DEF valid_command, resolve_command, Actuators
<1>3. QED
  BY <1>1, <1>2

\* The signature covers all that the vehicle acts on: two valid commands whose signed
\* texts are equal tell the actuators the same, whatever their modes.
THEOREM SignedDetermines ==
    ASSUME NEW c, NEW d, valid_command(c), valid_command(d),
           build_sign_message(c) = build_sign_message(d)
    PROVE  resolve_command(c) = resolve_command(d)
<1>1. CASE HighLevel(c)
  <2>1. HighLevel(d)
    BY <1>1 DEF build_sign_message
  <2>2. c.action = d.action
    BY <1>1, <2>1 DEF build_sign_message
  <2>3. QED
    BY <1>1, <2>1, <2>2 DEF resolve_command
<1>2. CASE ~HighLevel(c) /\ LowLevel(c)
  <2>1. ~HighLevel(d) /\ LowLevel(d)
    BY <1>2 DEF build_sign_message
  <2>2. QED
    BY <1>2, <2>1 DEF build_sign_message, resolve_command, Direction
<1>3. CASE ~HighLevel(c) /\ ~LowLevel(c)
  <2>1. ~HighLevel(d) /\ ~LowLevel(d)
    BY <1>3 DEF build_sign_message
  <2>2. QED
    BY <1>3, <2>1 DEF build_sign_message, resolve_command, Direction
<1>4. QED
  BY <1>1, <1>2, <1>3
=============================================================================
