# A TLA+ model of the remote driving infrastructure

The repository lets an operator drive a vehicle from a browser. A **gateway** (Go,
`apps/teleop-gateway`) decides who may control which vehicle and keeps that decision in
Redis; a **vehicle agent** (Python, `apps/vehicle-edge`) polls the gateway, checks every
command it receives over LiveKit against the session it was told of, and brakes when
commands stop; an **operator console** (TypeScript, `apps/operator-console`) acquires a
session, renews it, and signs the commands.

This directory holds the specifications of these parts, the TLC configurations that check
them on small instances, and TLAPS proofs of what matters most for every instance.
`PROJECT.json` lists components, runs, mutants, findings, hazards and theorems, and maps
every definition to the lines it models.

## 1. Inventory

| component | source | state it keeps | operations | talks to |
|---|---|---|---|---|
| control lease store | `gateway/control_session.go`, `control_lease.go` | Redis keys `control:<vehicle>`, `control-session:<session>`, both with PX = 30 s | three Lua scripts (acquire, renew, release), the reads around them | control API |
| control API | `gateway/control_session_api.go` | locals of a handler | acquire (with rollback), renew, release, GET by vehicle | both stores, LiveKit tokens, console, vehicle |
| video store and API | `gateway/video_session.go`, `video_session_api.go` | `video_session:<vehicle>` (24 h), `video_viewer:<session>` (grace + 1 h) | Get (ends a grace period), AcquireViewer, ReleaseViewer, SetController, ClearController, all by plain GET/SET | observers, control API |
| command verifier and runtime | `vehicle_edge/control_session_receiver.py` | trusted session, last sequence, last valid command, audit queue | refresh_session, verify_packet, on_datachannel_message, safety_watchdog, audit_loop, telemetry_loop | gateway (poll), LiveKit, vehicle |
| vehicle agent | `vehicle_edge/vehicle_node.py` | its asyncio tasks | start-up, gather, shutdown, LiveKit connection | all of the vehicle's parts, Docker |
| token manager | `vehicle_edge/device_credentials.py` | access token and expiry | refresh, refresh_loop | OAuth endpoint |
| camera publisher | `vehicle_edge/video_publisher.py`, `camera_capture.py` | cameras, frame tasks, publications | start, collect_finished, close, _publish_frames | LiveKit |
| console page and sender | `operator-console/public/index.html`, `src/lib/secure-control-sender.ts` | the page's globals and buttons; a sender's key pair, session, sequence, renewal timer | startTeleop, stopTeleop, sign-out, pagehide, driving buttons; acquire, renew, release, sendCommand | gateway, LiveKit |
| access control | `operator_access.go`, `vehicle_acl.go`, `vehicle_identity.go` | none (configuration) | predicates | control and video API |
| OIDC authentication | `oidc_auth.go` | key cache with its age | verify, keyFor, refreshKeys | every request |
| command protocol | `control_protocol.py` | none | validation, mapping, the text that is signed | verifier |
| legacy receiver and demo | `secure_receiver.py`, `demo_run.py` | one trusted key, last sequence, statistics; a queue of connections | verify_packet, telemetry, watchdog and reconnect loops; ws_server, producer_loop | demo only (`EmergencyBrakeController` also in the agent) |
| LiveKit and TURN tokens, audit, telemetry, webhook, video grid | several | none that another part reads | output, formatting | |

What is hard here, and what makes each part correct:

* **Gateway handlers interleave between Redis commands.** The lease is changed by scripts,
  which are atomic, but the checks before them are separate reads. Correct: one controller
  per vehicle, only its owner changes a lease, its two keys agree, the `expires_at` a
  vehicle is told is never later than the lease, a crash or a lost reply leaves nothing
  behind for ever.
* **The video record is read and written back whole, without a script.** Correct: each
  record is consistent in itself, control and viewing imply active video, unused video
  goes to standby.
* **The vehicle decides on a copy.** It polls every second, with a timeout of two, and
  clears the copy before it asks. Correct: an expired session never controls, a released
  one not for longer than a refresh, no command is applied twice, a new session is taken
  over in the end.
* **One failing task ends the agent, and its tasks share one event loop.** A camera that
  opens holds up all of them. Correct: a vehicle whose commands stop is braked.
* **Sleeps add up in the token loop; cameras fail at every await, and nobody waits for their
  clean-up.** Correct: the vehicle has a valid token unless refreshes fail; every camera is
  released by the time `close` returns, and a dead track is withdrawn if LiveKit does so.

* **The console's page is callbacks over global variables.** After every await `startTeleop`
  reads variables that a second click, a stop, a sign-out or a lost room may have changed.
  Correct: a session that is renewed is kept, no timer outlives its sender, a driving command
  can be ended, an abandoned session ends.
* **All requests share one key cache, whose mutex is held during a fetch.** Correct: withdrawn
  keys are refused in time, published ones are found, every request is answered.
* **The legacy receiver** trusts a key that is loaded again and again, or only half loaded,
  and counts what it receives while it reports. Correct: nothing in order is refused, nothing
  is obeyed again unless a registration was loaded since, everything is counted once.
* **Rules without state** (access control, command validation and mapping) are small, but two
  of them must agree: who may publish commands and who may hold the lease; what is signed
  and what is done.

The hazards in `PROJECT.json` give the lines.

## 2. Modules

| module | models | built on |
|---|---|---|
| `RedisKeys` | time, timestamps, key expiry | |
| `ControlSession` | lease and index keys, the three scripts | `RedisKeys` |
| `VideoSession` | video record and viewer index, the store's operations on a copy | `RedisKeys` |
| `ControlLease` | abstract: who controls a vehicle | |
| `Gateway` | the handlers, failures, crash, time | `ControlSession`, `VideoSession`; refines `ControlLease` |
| `VehicleReceiver` | session refresh and packet verification | `RedisKeys` |
| `Teleop` | lease, vehicle, operators and network together | `ControlSession`, `VehicleReceiver` |
| `CommandProtocol` | valid commands, what they do, what is signed (operators) | |
| `VehicleAgent` | tasks of the process, watchdog, restart | `CommandProtocol` |
| `VehicleToken` | token and refresh loop | |
| `VideoPublisher` | cameras, frame tasks, tracks | |
| `OperatorConsole` | the page and its senders, at every await | |
| `OidcKeys` | the key cache, its mutex, fetches, rotation | |
| `AccessControl` | roles, ACL, LiveKit access (operators) | |
| `LegacyReceiver` | the first receiver: verifier, statistics, loops | |
| `LegacyDemo` | server, producer and network around it | `LegacyReceiver` |
| `MCGateway` (with `AccessControl`), `MCTeleop`, `MCVehicleAgent`, `MCVideoPublisher` | instances for TLC | |
| `GatewayProofs` | theorems on `Gateway` and `AccessControl` | both |
| `TeleopProofs`, `VideoPublisherProofs`, `VehicleTokenProofs`, `OidcProofs`, `LegacyProofs` | theorems on the module of that name (`LegacyDemo`, `OidcKeys`) | it |
| `ConsoleProofs` | theorems on `OperatorConsole` | it |
| `VehicleAgentProofs` | theorems on `VehicleAgent` and `CommandProtocol` | `VehicleAgent` |

**Time.** A timestamp is kept as the time left until it, and one `Tick` brings all of them
closer; there is no absolute time and no bound on it. The code rejects a session when
`now > expires_at`; the model already counts the instant `expires_at` as past, a difference
of a millisecond. All parties share one clock; only a packet's timestamp may be off, by
`SendAge`. Where time is counted up (time since a command, a failure, a release) the
counter stops one above the largest value a property or a guard tells apart.

**Gateway.** A request has a slot: `pc` is its next Redis command, `task` its locals, `res`
its answer. There is one action per command; `getSessionByID` is two (`GetIndex`,
`GetLease`), and a release runs it twice, as the code does. A session id made by
`uuid.NewString` is the name of the request that made it. `StepFails` is a command that
fails without effect, `ReplyLost` one that takes effect and whose reply is lost, `Crash`
the end of the process with every handler in it. An acquire that fails after its script
goes through the rollback, which is the code of a release and may fail too. The status of
a stored session is not kept, because the code only ever stores `ACTIVE`; the public key is
made per session, so the session id stands for it. The constant `Authorized` is the result
of the role and ACL checks; `MCGateway` computes it from claims and an ACL with `MayControl`.
A request to leave a video session (`StartUnview`) may come from anybody, name any id and come
any number of times: the handler looks at neither who leaves nor whether he left before.
`LongRun` lets the keys that live for an hour or a day disappear at any moment, since nothing
but a write renews them.

**Vehicle.** A step ends where the code awaits, and what is due happens before time goes on,
with one exception: `open_configured_camera` is called without an await, once per camera when
the room is connected and then after each `publish_track`. In `VehicleAgent` an open holds up
the event loop for up to `OpenTime` (`hold`), during which time passes and no task runs, the
watchdog included. Releasing a camera and `capture_frame`, which run on the loop as well, are
taken to be immediate, and so is everything in `Teleop`: there a refresh that is due when the
cameras open comes later by what the opens take, and the bound of `ReleaseTakesEffect` grows
by as much. `refresh_session` is `RefreshStart` (which clears
the session), the gateway's answer, then `RefreshDone` or `RefreshFails`; the answer may
arrive ticks after the gateway gave it. The first refresh in `run_agent` is the first round
of the loop. A packet is its session, sequence, age, and whether command and signature are
valid. In `Teleop` the lease changes by the scripts alone: that the handlers around them add
nothing is what the refinement of `ControlLease` and the other theorems on `Gateway` say.
`VehicleAgent` leaves out which packets are accepted and keeps what the process does: the
watchdog, the audit and telemetry loops with their POSTs, the connection and the opens that
follow it, start-up, signals, and what the vehicle was told last (`drive`), which outlives the process. The commands that
arrive there are records of `CommandProtocol`, in which a number is a multiple of `1 / Unit`.

**Cameras.** `VideoPublisher` has the dict of publications (`pubs`) and the tracks LiveKit
has (`live`) apart: `collect_finished` forgets a publication before it asks for the
withdrawal, which may fail. `run_agent` cancels its tasks without awaiting them, and `main`
then closes the event loop, so `LoopCloses` may stop the connect loop anywhere in `close` or
`room.disconnect`, whatever ended the agent; nothing runs any more after it.

**Console.** A click is a `Call`; the sender, the room and the session it leads to are named
after it, and `stage` says where its `startTeleop` is. What follows an await is an action of
its own and reads `page`, the globals, as they are by then. `release` sends its request at
once, and the code that awaits it (`stop`, or a call's catch block) goes on in
`ReleaseReturns`. The gateway is reduced to one lease, since a page asks for one vehicle; the
vehicle id is not changed between clicks. `lost` and `stale` are history: the sessions whose
renewal failed or came too late, and whether an old call or stop went on under the sender of
a newer call. The properties make no claim in these cases, which section 5 describes.

**OIDC.** A handler waits for the mutex, then holds it while it fetches; the provider's answer
and its arrival are two steps, so that keys may be rotated in between. A key set says how many
keys have a name (`kid`), two at most: a name that is not unique is refused, and not fetched
again. `withdrawn` counts the time since the last key of a name was withdrawn, `steady` is
history.

**Legacy.** A packet carries its place in the order of sending, its age when it was first
applied, and whether a registration was loaded since it was last applied, which only
properties read. A registration whose public key is malformed (`LoadFails`) leaves its
`key_id` with the old `verify_key` and sequence. Packets stay in `net` and may be delivered again until
they are too old. Of the latencies only the number is kept. The length of the reconnection
pauses is not modelled, nor is stopping the runtime.

**History variables**: `granted` (sessions ever stored), `highest`, `sinceRelease`, `lapsed`
in `Teleop`, `silent` in `VehicleAgent`, `sinceFail` in `VehicleToken`. No guard reads them
but `granted`, which stands for a client that only names sessions that were handed out and,
in `Teleop`, for the freshness of ids.

## 3. Runs

Every property of a passing run has a mutant in `PROJECT.json`: a plausible error in a
modelled definition that makes TLC find the property violated.

| run | properties | instance |
|---|---|---|
| `control` | `TypeOK`, `LeaseIndexAgree`, `ExpiryWithinLease`, `GrantedIsHeld`, `OnlyOwnerChanges`, `LeaseSpec` | one vehicle, three operators (one not cleared), three requests, two handlers at a time, failures and crashes |
| `serial` | `ControlImpliesVideo`, `WatchedImpliesActive`, `ViewersCovered` | all kinds of request, one handler at a time, failures and crashes |
| `live` | `VideoRecordConsistent`, `LeaseFreed`, `UnusedGoesStandby` | all kinds, two requests and a poller at a time, failures, crashes, keys that expire after hours |
| `teleop` | `TypeOK`, `ExpiredNeverControls`, `ReleaseTakesEffect`, `NoReplayUnlessLapsed`, `TakesOver` | two sessions of one vehicle, two commands in one and one in the other |
| `agent` | `TypeOK`, `WatchedStops`, `EventuallyStops` | all outages; two cameras; valid and invalid commands of every mode |
| `token` | `TypeOK`, `ValidUnlessFailing`, `Recovers` | the code's delays in seconds (300, 30, 1, 5), lives of 301, 600 and 900 s |
| `cameras` | `Owned`, `AllReleased`, `FailedIsWithdrawn` | the three-camera layout |
| `console` | `KeptWhileRenewed`, `RenewsOnlyCurrent`, `MoveIsStoppable`, `AbandonedEnds` | two clicks, a lease of 4, a connection timeout of 2 |
| `oidc` | `TypeOK`, `WithdrawnRefused`, `PublishedFound`, `Answered` | two handlers, two names of keys, one of which may be given twice, every rotation |
| `legacy` | `TypeOK`, `InOrderAccepted`, `Accounted`, `LegacyStops`, `ReplayBounded`, `Served` | three packets, two keys, two loads that may fail, one lost connection at a time, a clock that is ahead |
| `race`, `agent_hangs` | `ControlImpliesVideo`; `SilenceStops`; both violated | see section 5 |

Why these bounds are enough to be of interest:

* Three requests are an acquire and two that interfere with it, or an acquire, its release
  and another acquire; each handler may be overtaken between any two commands. A lease of
  two ticks expires in the middle of a handler and lets `expires_at` and PX drift apart. The
  theorems of section 4 hold for any number of vehicles, operators, requests and handlers.
* `live` uses a lease of one tick and a grace period of one: liveness needs them to end, not
  to be long.
* In `teleop` a lease (4) is longer than a refresh and its timeout together (1 + 1), and a
  packet is not accepted for longer than the pause between two refreshes: the relations
  the code's constants have (30 s, 1 s, 2 s, 100 ms). Without the latter a failed
  refresh, which forgets the sequence, would let a packet in twice.
* In `serial` three requests let a viewer that has left ask again; the number of viewers
  that this may cost is counted in `ViewersCovered`, whose theorem holds for any number.
* In `agent` the watchdog's looks are two ticks apart, so that a command may come between
  them, and a process lives longer than its watchdog needs (350 ms in the code, against a
  second before its first POST and two for the POST). Its two cameras open in a tick at most
  each, one after the other or with a look in between. How long an open takes in the code is
  not bounded; the theorem holds for every `OpenTime` and any number of cameras.
* In `console` the timeout of the connection is half the lease, as in the code (15 s and
  30 s), so a slow connection and the first renewal just miss it. Two calls are enough for
  one to overtake the other; the theorems hold for any number.
* In `legacy` the clock is further ahead than the skew, so that a packet is refused first and
  accepted later; the third packet shows a gap of one. The second load is what lets a packet
  in again, or is the one that fails.
* The bounds on behaviours are `MaxInFlight`, the sets `Request` and `Call`, `MaxSeq`,
  `MaxLoads` and `MaxStale`; no time is bounded.

Symmetry (requests, operators with equal rights) is used for safety properties only.
`CHECK_DEADLOCK FALSE` is set for `cameras` only, where the loop ends.

**Fairness.** `Gateway`: time goes on; net/http runs a handler to its end (WF); a polling
client polls again (WF); Redis does not fail for every poll (SF on the poll's commands,
which only `UnusedGoesStandby` needs). `Teleop`: the refresh loop wakes up (WF) and not every
refresh fails (SF). `VehicleAgent`: Docker restarts the process (`restart: unless-stopped`,
WF); start-up and connection do not fail for ever (SF); the loops go on and a POST that
cannot hang is answered (WF); signals are finitely many. The last two are needed: an agent
whose connection fails every time it starts exits each time before its watchdog's timeout,
and a command of an earlier process would never be followed by a brake. `VehicleToken`: the
endpoint does not refuse for ever (SF). `VideoPublisher`: the loop goes on and LiveKit
answers (WF). `OperatorConsole`: time goes on, timers fire, and `withTimeout` ends an attempt
to connect (WF); no request need ever be answered. `OidcKeys`: the client's timeout ends a
fetch (WF), and Go's mutex passes over no waiting handler for ever (SF). `LegacyDemo`: TCP
finds a lost connection closed in the end, and the producer goes on (WF).

## 4. Proofs

`tlapm` checks all of them; assumptions are the named `ASSUME`s on the constants.

`GatewayProofs`, whose inductive invariants build on one another:

* `TypeCorrect`: `Spec => []TypeOK`. The types alone are not inductive: a script is given the
  vehicle and the operator from a handler's locals, which may be `None`. `TypeInv` adds what a
  handler has filled in at each label of its `pc`.
* `KeysAgree`, `ExpirySound`, `OwnerOnly`, `ImplementsLease`, from one inductive invariant
  `LeaseInv`: the types, the two keys of a session agree, no `expires_at` lies beyond its
  lease, and a request whose acquire script has not run names a session that was never granted
  (`SessionsNew`; without it a session could be stored twice and its index entry would lead to
  two vehicles). What a step may do to the store is stated once (`StoreStep`): nothing, one of
  the scripts for a running handler, or a tick; each of Gateway's actions is shown to be one of
  these and to send no handler back before its script (`NoRebirth`), and the theorems follow
  from the few cases. `ImplementsLease` is the refinement: initial states map to initial
  states, and every step maps to an `Acquire`, an `End` or a stutter.
* `RecordConsistent`: `Spec => []VideoRecordConsistent`, with any number of handlers that
  overwrite each other's records. What a step does to its own handler and to the video store is
  stated once, too (`Course`: it stays the request it is, its copy is what it has just read,
  it gains the lease by its script only, and so on), and every action of a handler is shown to
  be such a course (`Courses`). The invariant `SoundInv` says of every copy under way what the
  property says of the stored record.
* `GrantHolds`: `Spec => []GrantedIsHeld`. `HeldInv` adds that a lease belongs to the acquire
  its session is named after (`Holder`), and that an acquire past its script has the lease for
  at least the time of its `expires_at`, unless its operator has asked for the release
  (`Backed`). A rollback takes the session away before it is answered, and the scripts of
  others refuse.
* `ControlShown`, `WatchShown`, `ViewersCounted`: `ControlImpliesVideo`, `WatchedImpliesActive`
  and `ViewersCovered`, with two hypotheses: `MaxInFlight = 1` and `LongRun = FALSE`. The first
  one is needed: run `race` is the counterexample with two handlers. So is the second: a record
  that runs out after a day takes the viewers it counts with it. Failures, lost replies and
  crashes may happen everywhere. `SerialInv` says that the copy of the one handler that runs is
  the record (`Current`), that a handler that takes or gives up control meets no other lease
  (`Vacant`), that the record names the controller (`Controlled`), and that it counts the
  viewers less the requests to leave that have been handled (`Counted`: each of these, from
  whomever, takes one off the count at most). What is proved is thus a balance: that a
  particular viewer is not counted out by somebody else's request does not hold (section 5).
* `ControlImpliesObserve`, `DataNeedsControl`: how the access checks relate, for all claims and
  ACLs.

The other modules:

* `TeleopProofs!TeleopTypeCorrect`, `ExpiredIsPowerless` (`ExpiredNeverControls`),
  `ReleaseBound` (`ReleaseTakesEffect`) and `NoReplay` (`NoReplayUnlessLapsed`). For the first
  three, `TrustInv` says of every copy of a session, the trusted one and the one in an answer
  under way, that it is covered by the lease or was released (`Covered`), and that a release
  lies no further back than the fetch that followed it allows (`Recent`). For `NoReplay`,
  `MemoryInv` says that the vehicle remembers the highest sequence it applied in a session, or
  that every packet up to it will be outdated by the time the session is trusted again
  (`Remembers`), and that a session which follows another one is new to the vehicle
  (`Successor`). Its hypothesis is `MaxAge + MaxSkew < RefreshInterval`, which the defaults
  satisfy (100 ms and 100 ms against 1 s).
* `VideoPublisherProofs!CamerasOwned`, `CamerasReleased`: `Owned` and `AllReleased` for any
  layout. `close` knows of every task that may still read (`Kept`) and returns when all have
  ended (`Awaited`), and without a signal no task is cancelled before it has entered its `try`
  (`InTry`), which is what releases its camera. That `close` returns is not claimed: nobody
  waits for it. That the cameras of a layout differ is not needed.
* `VehicleAgentProofs!WatchdogWorks`: `Spec => []WatchedStops`, for all delays and any number
  of cameras: the vehicle is braked within `Limit`, which is the timeout, one look and an open
  per camera. The strengthening says that the time since the last command, the time to the next
  look, what is left of an open under way and the opens that are still to come (`Pending`)
  together stay within `Limit` (`InTime`), and that a process that takes the vehicle to be
  braking has braked it (`Braking`). `SurvivesOutages`: if neither a hanging gateway nor a
  signal can end the process, `Spec => []SilenceStops`; run `agent_hangs` shows what happens
  without the hypothesis. The opens cannot be left out of `Limit`: see section 5.
  `AgentTypeCorrect` is `Spec => []TypeOK`. `ResolvedInRange` and `SignedDetermines` are about
  the commands themselves, for all of them.
* `VehicleTokenProofs!TokenCovered`: `Spec => []ValidUnlessFailing` for all delays with
  `RefreshBefore > MinSleep + 2 * PostTimeout`. The invariant relates the remaining life to
  the timer in every stage: either the next refresh is on time, or one has failed within the
  allowance. `TokenTypeCorrect` is `Spec => []TypeOK`.
* `ConsoleProofs!RenewedIsKept`, `TimerEndsWithSender`, `MoveCanBeEnded` (and
  `ConsoleTypeCorrect`), from `ConsoleInv`: unless `stale`, only the page's sender has a timer,
  and while it has, Connect is disabled and the driving buttons are enabled (`Timers`; this is
  what makes a second click harmless); a session belongs to one sender, which has not released
  it (`Sessions`, `Releases`; otherwise the release of one session could end the lease that
  another sender renews). Every way to leave goes through one lemma, `ReleaseInv`.
* `OidcProofs!WithdrawnBound`, `SteadyFound` (and `OidcTypeCorrect`), from `OidcInv`: no key of
  an answer under way was withdrawn before the fetch began (`AnswerRecent`), none of the cache
  for longer than its age and one fetch (`CacheRecent`), and an answer has every name that was
  published since the request (`SteadySeen`).
* `LegacyProofs!InOrderObeyed`, `AllAccounted`, `LegacyBrakes`, `ReplayWithinSkew` (and
  `LegacyTypeCorrect`), from `LegacyInv`: sequences follow the order of sending over all
  connections (`Numbered`), `last_seq` is the latest packet obeyed with this key (`InStep`), a
  packet that was obeyed was fresh the first time and is behind the sequence unless a
  registration was loaded since the last time (`Behind`), the runtime's sequence is the verifier's
  until a key is loaded anew (`Seen`), and the timeout covers the time to the next look
  (`Watched`).

Every safety property of a passing run is a theorem. Only model-checked is what needs fairness
(`LeaseFreed`, `UnusedGoesStandby`, `TakesOver`, `EventuallyStops`, `Recovers`,
`FailedIsWithdrawn`, `AbandonedEnds`, `Answered`, `Served`), which is out of the prover's reach.
The inductive invariants were checked with TLC on the instances of section 3 before they were
proved.

## 5. Where code and documents differ

| run | what it shows |
|---|---|
| `race` | "Control ACTIVE implies Video ACTIVE" (`docs/spec.md`) fails when an acquire and a release or a poll interleave between GET and SET of the video record. `serial` shows that it holds with one request at a time. |
| `agent_hangs` | a POST that times out raises `TimeoutError`, which the loops do not catch: the agent ends, and its watchdog with it |

Others have no run of their own.

* All viewers of a vehicle share the session id and with it the key `video_viewer:<id>`, which
  `ReleaseViewer` deletes: the second viewer to leave is answered 404 and stays counted, and so
  does one who watches for longer than the key lives. `docs/spec.md:1077` says "When an observer
  leaves:" "viewer_count -= 1".
* Nor does `ReleaseViewer` check who leaves, or whether he left before. A views and leaves, B
  views under the same id, A's release is sent again: the count is 0 while B watches, and the
  grace period begins, with one request at a time. `docs/spec.md:1642` says "last viewer ->
  grace". `ViewersCovered` and `WatchedImpliesActive` bound the error by the number of requests
  to leave.
* `docs/spec.md:1122` has "no viewers/controller" lead to standby, but only a release clears the
  controller in the video record. When the lease runs out instead, or the acquire is
  rolled back, the record stays active however often it is polled; `UnusedGoesStandby` makes no claim on such a record.
* `docs/spec.md:878` says "The vehicle MUST have an independent watchdog." It shares its event
  loop with `open_configured_camera`, which is called without an await, and is late by what the
  opens take: `WatchedStops` has them in its bound.
* `secure_receiver.py:5` says "Enforces anti-replay via monotonic seq". A registration that is
  loaded again, with the same key too, sets the sequence to 0, and a packet that is still fresh
  is obeyed again. `ReplayBounded` shows that each time needs another load, and that the last
  time comes within twice the permitted skew of the first.
* When `unpublish_track` raises, the publication has been forgotten already: the track of a
  camera that stopped stays published as long as the room does. `FailedIsWithdrawn` makes no
  claim on such a track.
* When `verify_packet` finds the session expired it forgets the sequence; if the session was
  renewed at the gateway at the last moment it comes back with the sequence at 0, and a packet
  that is still fresh is applied again. `docs/command-security.md:27` says "The sequence is
  strictly newer than the last accepted sequence." `NoReplayUnlessLapsed` shows that this is
  the only way.
* `docs/architecture.md:18` says "The session is released when the page or RTC connection
  closes." An acquire that is answered after a stop or a sign-out is never released, and its
  lease runs out (`AbandonedEnds`). Worse, when the release of an earlier stop or failed call
  is answered late, it enables Connect under a connection that is up, and a click then replaces
  a sender whose timer goes on: its lease is renewed and never released until the page is left.
  The properties of `console` say that this needs a call or stop that goes on under a newer
  sender (`stale`).

Smaller ones: `docs/spec.md:823` wants packets of released
sessions to be invalid; the vehicle accepts them until its next refresh, which
`ReleaseTakesEffect` bounds by the refresh interval and the timeout.
`docs/command-security.md:34` says the watchdog clears the trusted control state; it only
brakes, and the next valid command ends the emergency (`Command` in `VehicleAgent`). The
comment at `device_credentials.py:109` says the refresh is retried before the token expires;
with 30 s or less left the retry comes up to a second after the expiry, which
`ValidUnlessFailing` allows for.

## 6. Not modelled

* LiveKit and TURN tokens, audit and webhook output, the video grid: no state another part
  reads. Issuing a token is one step of the acquire, which may fail.
* OIDC beyond the key cache: signatures, claims and JWT parsing belong to libraries or are
  stateless. The redirect of the console's sign-in, its observer mode and the development
  token are left out as well; a pointer that is let go outside its button, and the emergency
  stop button, which leaves a repeated command going, too.
* `demo_run.main` calls `run_agent` with parameters that it no longer has, and the gateway has
  no `/api/keys/current` any more, so the demo does not run as it is: `LegacyDemo` composes
  receiver, server and producer as that code intends.
* Reading configuration and credential files, frame formats and profiles (`video_state.py`,
  `camera_capture.py` beyond opening and reading): plain I/O.
* `ControlLeaseStore.Acquire`: no caller.

## 7. Plan

Done: gateway, vehicle receiver and their composition, agent, token manager, cameras, console,
key cache, rules, legacy receiver, in this order because the lease is what everything else
relies on.

Next, in order:

1. Theorems beyond the properties of the runs: that `Teleop`'s lease, too, implements
   `ControlLease`, and bounds in place of the liveness properties (how long a lease, a viewer's
   record or a key fetch can last).
2. `OperatorConsole` composed with `Teleop` in place of `Send`, `Renew` and `Release`.
