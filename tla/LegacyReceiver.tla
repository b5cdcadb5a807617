--------------------------- MODULE LegacyReceiver ---------------------------
(***************************************************************************)
(* The vehicle's first command receiver: CommandVerifier, which trusts one *)
(* registered operator key, EmergencyBrakeController, and the loops of     *)
(* VehicleAgentRuntime, which share one asyncio event loop.  A loop that   *)
(* is due runs before time goes on.                                        *)
(***************************************************************************)
EXTENDS Integers

CONSTANTS Key, None,
          MaxSkew,       \* max_skew_ms
          Timeout, Look  \* the watchdog's timeout_ms and check_interval_ms

Report == [latencies : Nat, lost : Nat]

ASSUME LegacyAssumption ==
    /\ None \notin Key \cup Int \cup Report
    /\ MaxSkew \in Nat /\ Timeout \in Nat /\ Look \in Nat \ {0}

VARIABLES
    key,                   \* CommandVerifier: the key_id of current_key, or None
    verifyKey, lastSeq,    \* verify_key, by the key_id that it belongs to, and last_seq
    quiet,                 \* time since last_valid_cmd_time (bounded)
    emergency,             \* in_emergency
    look,                  \* time until the watchdog looks again
    latencies, lostCount,  \* the statistics; of the latencies, how many
    lastSeen,              \* _last_seen_seq, or None
    report,                \* the statistics in the POST under way, or None
    retry                  \* where reconnect_loop is

verifierVars == <<key, verifyKey, lastSeq>>
statVars == <<latencies, lostCount, lastSeen, report>>
receiverVars == <<verifierVars, quiet, emergency, look, statVars, retry>>

\* A packet: its key, its sequence, its age by the vehicle's clock, whether the
\* signature is its key's, and, which the vehicle cannot see, its place in the order
\* of sending, its age when it was first applied, and whether a registration was loaded
\* since it was last applied.
Packet == [key : Key, seq : Nat, age : Int, good : BOOLEAN, order : Nat,
           applied : Int \cup {None}, loaded : BOOLEAN]

\* The watchdog brakes a vehicle that has been quiet for this long (LegacyStops).
StopWithin == Timeout + Look

ReceiverTypeOK ==
    /\ key \in Key \cup {None} /\ verifyKey \in Key \cup {None} /\ lastSeq \in Nat
    /\ quiet \in 0 .. StopWithin + 1
    /\ emergency \in BOOLEAN
    /\ look \in 0 .. Look
    /\ latencies \in Nat /\ lostCount \in Nat
    /\ lastSeen \in Nat \cup {None}
    /\ report \in Report \cup {None}
    /\ retry \in {"trying", "pausing", "done"}

ReceiverInit ==
    /\ key = None /\ verifyKey = None /\ lastSeq = 0
    /\ quiet = 0 /\ emergency = FALSE
    /\ look = 0
    /\ latencies = 0 /\ lostCount = 0 /\ lastSeen = None /\ report = None
    /\ retry = "trying"

-----------------------------------------------------------------------------
(* CommandVerifier.                                                        *)

\* refresh_key has got an answer, or a registration is read from a file.  The sequence
\* starts again, also if the key is the same.  A refresh that gets no answer changes
\* nothing.
LoadRegistration(k) ==
    /\ key' = k /\ verifyKey' = k /\ lastSeq' = 0
    /\ UNCHANGED <<quiet, emergency, look, statVars, retry>>

\* Mutant: the sequence starts again before the public key is decoded.
LoadFailsReset(k) ==
    /\ key' = k /\ lastSeq' = 0
    /\ UNCHANGED <<verifyKey, quiet, emergency, look, statVars, retry>>

\* The registration's public key is malformed: b64decode or VerifyKey raises when
\* current_key is set already, and the rest stays.
LoadFails(k) ==
    /\ key' = k
    /\ UNCHANGED <<verifyKey, lastSeq, quiet, emergency, look, statVars, retry>>

\* Mutant: only packets that are too old are refused.
FreshOneSided(p) == p.age <= MaxSkew

Fresh(p) == p.age \in -MaxSkew .. MaxSkew

\* The checks of verify_packet.  The registration's expires_at_ms is not among them.
Acceptable(p) ==
    /\ key # None /\ verifyKey # None
    /\ p.key = key
    /\ Fresh(p)
    /\ p.seq > lastSeq
    /\ p.good /\ p.key = verifyKey

Refused(p) == ~Acceptable(p) /\ UNCHANGED receiverVars

\* Mutant: a sequence that starts again counts as a negative loss.
GapSigned(seq) == IF lastSeen = None THEN 0 ELSE seq - lastSeen - 1

\* The packets that a new sequence shows to be missing.
Gap(seq) == IF lastSeen = None \/ seq - lastSeen <= 1 THEN 0 ELSE seq - lastSeen - 1

\* on_datachannel_message with a packet that verify_packet accepts.
Accepted(p) ==
    /\ Acceptable(p)
    /\ lastSeq' = p.seq /\ quiet' = 0
    /\ latencies' = latencies + 1
    /\ lostCount' = lostCount + Gap(p.seq)
    /\ lastSeen' = p.seq
    /\ emergency' = FALSE
    /\ UNCHANGED <<key, verifyKey, look, report, retry>>

-----------------------------------------------------------------------------
(* The loops.                                                              *)

\* Mutant: the counters are reset when the report has been posted.
TelemetryWakesUncleared ==
    /\ report = None
    /\ latencies > 0 \/ lostCount > 0
    /\ report' = [latencies |-> latencies, lost |-> lostCount]
    /\ UNCHANGED <<verifierVars, quiet, emergency, look, latencies, lostCount, lastSeen, retry>>

\* telemetry_loop has something to report: it resets the counters and then posts.
TelemetryWakes ==
    /\ report = None
    /\ latencies > 0 \/ lostCount > 0
    /\ report' = [latencies |-> latencies, lost |-> lostCount]
    /\ latencies' = 0 /\ lostCount' = 0
    /\ UNCHANGED <<verifierVars, quiet, emergency, look, lastSeen, retry>>

\* The POST is answered, refused or broken off, all of which is only logged.
TelemetryPosted ==
    /\ report # None
    /\ report' = None
    /\ UNCHANGED <<verifierVars, quiet, emergency, look, latencies, lostCount, lastSeen, retry>>

\* Mutant: the watchdog's timeout counts from its last look.
WatchdogLate ==
    /\ look = 0
    /\ emergency' = (emergency \/ quiet > Timeout + Look)
    /\ look' = Look
    /\ UNCHANGED <<verifierVars, quiet, statVars, retry>>

\* safety_watchdog looks.
Watchdog ==
    /\ look = 0
    /\ emergency' = (emergency \/ quiet > Timeout)
    /\ look' = Look
    /\ UNCHANGED <<verifierVars, quiet, statVars, retry>>

\* reconnect_loop: an attempt fails, the vehicle brakes, and the loop pauses,
AttemptFails ==
    /\ retry = "trying"
    /\ emergency' = TRUE
    /\ retry' = "pausing"
    /\ UNCHANGED <<verifierVars, quiet, look, statVars>>

\* for 0.2 s at first and never more than 5 s.
PauseEnds ==
    /\ retry = "pausing"
    /\ retry' = "trying"
    /\ UNCHANGED <<verifierVars, quiet, emergency, look, statVars>>

AttemptSucceeds ==
    /\ retry = "trying"
    /\ retry' = "done"
    /\ UNCHANGED <<verifierVars, quiet, emergency, look, statVars>>

\* The connection is lost, and reconnect_loop is called anew.
Reconnect ==
    /\ retry = "done"
    /\ retry' = "trying"
    /\ UNCHANGED <<verifierVars, quiet, emergency, look, statVars>>

ReceiverTick ==
    /\ look > 0
    /\ quiet' = IF quiet <= StopWithin THEN quiet + 1 ELSE quiet
    /\ look' = look - 1
    /\ UNCHANGED <<verifierVars, emergency, statVars, retry>>
=============================================================================
