----------------------------- MODULE LegacyDemo -----------------------------
(***************************************************************************)
(* The demo: a WebSocket server whose producer signs commands, and the     *)
(* receiver of LegacyReceiver, which connects to it, loses the connection  *)
(* and connects again.  The server may take a lost connection for open     *)
(* until TCP notices.                                                      *)
(*                                                                         *)
(* Between the two stands a network that delays, repeats and reorders,     *)
(* for on_datachannel_message is written for a data channel.               *)
(***************************************************************************)
EXTENDS LegacyReceiver

CONSTANTS DemoKey,    \* the key of the registration file
          Interval,   \* between two commands
          Ahead,      \* by how much the producer's clock is ahead
          MaxStale,   \* bound: lost connections that the producer has not left
          MaxSeq,     \* bound: how many packets the producer signs
          MaxLoads    \* bound: how often a registration is loaded

ASSUME DemoAssumption ==
    /\ DemoKey \in Key
    /\ Interval \in Nat \ {0} /\ Ahead \in Nat /\ MaxStale \in Nat /\ MaxSeq \in Nat /\ MaxLoads \in Nat

VARIABLES
    link,     \* the vehicle's connection: lost, queued, or served by the producer
    stale,    \* how many lost connections the producer has not left yet
    seq,      \* the producer's next sequence
    pause,    \* what is left of its sleep
    net,      \* packets that may still be delivered, any number of times
    sent,     \* history: how many packets were sent
    latest,   \* history: the latest packet applied since a key was loaded, in the order sent
    loads,    \* how often a registration was loaded, or could not be
    mixed,    \* history: a key was loaded after a command had been applied
    unposted, \* history: how many of the commands applied no report has posted
    from      \* history: the first sequence that no report has accounted for

demoVars == <<link, stale, seq, pause>>
historyVars == <<sent, latest, mixed, unposted, from>>
vars == <<receiverVars, demoVars, net, loads, historyVars>>

Init ==
    /\ ReceiverInit
    /\ link = "lost" /\ stale = 0 /\ seq = 1 /\ pause = 0
    /\ net = {}
    /\ sent = 0 /\ latest = 0 /\ loads = 0
    /\ mixed = FALSE /\ unposted = 0 /\ from = 0

-----------------------------------------------------------------------------
(* The server and its producer.                                            *)

\* The vehicle connects; ws_handler puts the connection into app_queue, behind those
\* that have been lost.
Connect ==
    /\ link = "lost"
    /\ AttemptSucceeds
    /\ link' = "queued"
    /\ UNCHANGED <<stale, seq, pause, net, loads, historyVars>>

\* The vehicle loses its connection.
Disconnect ==
    /\ link # "lost" /\ stale < MaxStale
    /\ Reconnect
    /\ link' = "lost" /\ stale' = stale + 1
    /\ UNCHANGED <<seq, pause, net, loads, historyVars>>

\* Mutant: the sequence starts again with every connection.
TakesRestarting ==
    /\ link = "queued" /\ stale = 0
    /\ link' = "served"
    /\ seq' = 1
    /\ UNCHANGED <<receiverVars, stale, pause, net, loads, historyVars>>

\* producer_loop takes the vehicle's connection out of the queue, however often it has
\* waited for one in vain.
Takes ==
    /\ link = "queued" /\ stale = 0
    /\ link' = "served"
    /\ UNCHANGED <<receiverVars, stale, seq, pause, net, loads, historyVars>>

\* Mutant: a lost connection is never found closed.
LeavesNever == stale < 0 /\ UNCHANGED vars

\* A lost connection is found closed, or sending on it raises, which is swallowed.
Leaves ==
    /\ stale > 0
    /\ stale' = stale - 1
    /\ UNCHANGED <<receiverVars, link, seq, pause, net, loads, historyVars>>

Signed(n) == [key |-> DemoKey, seq |-> n, age |-> -Ahead, good |-> TRUE,
              order |-> sent + 1, applied |-> None, loaded |-> FALSE]

\* The next command is signed and sent, to nobody if the producer has not noticed yet
\* that the connection is lost; then the producer sleeps.
Produce ==
    /\ stale > 0 \/ link = "served"
    /\ pause = 0 /\ sent < MaxSeq
    /\ net' = IF stale = 0 THEN net \cup {Signed(seq)} ELSE net
    /\ seq' = seq + 1 /\ sent' = sent + 1 /\ pause' = Interval
    /\ UNCHANGED <<receiverVars, link, stale, loads, latest, mixed, unposted, from>>

-----------------------------------------------------------------------------
(* The vehicle.                                                            *)

Load(k) ==
    /\ loads < MaxLoads
    /\ LoadRegistration(k)
    /\ loads' = loads + 1 /\ latest' = 0
    /\ net' = {[p EXCEPT !.loaded = (p.applied # None)] : p \in net}
    /\ mixed' = (mixed \/ lastSeen # None)
    /\ UNCHANGED <<demoVars, sent, unposted, from>>

Misload(k) ==
    /\ loads < MaxLoads
    /\ LoadFails(k)
    /\ loads' = loads + 1
    /\ UNCHANGED <<demoVars, net, historyVars>>

\* Some other packet that names the key: its signature does not verify.
Unsigned == [Signed(MaxSeq + 1) EXCEPT !.age = 0, !.good = FALSE]

\* The packet, of which the history notes that it has been applied.
Obeyed(p) == [p EXCEPT !.applied = IF p.applied = None THEN p.age ELSE p.applied,
                       !.loaded = FALSE]

Deliver(p) ==
    /\ \/ /\ Refused(p)
          /\ UNCHANGED <<net, latest, unposted, from>>
       \/ /\ Accepted(p)
          /\ net' = (net \ {p}) \cup {Obeyed(p)}
          /\ latest' = p.order
          /\ unposted' = unposted + 1
          /\ from' = IF lastSeen = None THEN p.seq ELSE from
    /\ UNCHANGED <<demoVars, loads, sent, mixed>>

Hand ==
    /\ TelemetryPosted
    /\ unposted' = unposted - report.latencies
    /\ from' = IF mixed THEN 0 ELSE from + report.latencies + report.lost
    /\ UNCHANGED <<demoVars, net, loads, sent, latest, mixed>>

Quietly(step) == step /\ UNCHANGED <<demoVars, net, loads, historyVars>>

\* Packets past their age are forgotten: they are never accepted any more.
Tick ==
    /\ ReceiverTick
    /\ pause' = IF pause > 0 THEN pause - 1 ELSE 0
    /\ net' = {[p EXCEPT !.age = @ + 1] : p \in {q \in net : q.age < MaxSkew}}
    /\ UNCHANGED <<link, stale, seq, loads, historyVars>>

Next ==
    \/ Connect \/ Disconnect \/ Takes \/ Produce \/ Leaves
    \/ \E k \in Key : Load(k) \/ Misload(k)
    \/ \E p \in net \cup {Unsigned} : Deliver(p)
    \/ Hand
    \/ Quietly(TelemetryWakes \/ Watchdog \/ AttemptFails \/ PauseEnds)
    \/ Tick

Spec == Init /\ [][Next]_vars

\* TCP notices in the end, and the producer goes on.
FairSpec == Spec /\ WF_vars(Takes) /\ WF_vars(Leaves)

-----------------------------------------------------------------------------
(* Properties.                                                             *)

\* Every variable has its type.
TypeOK ==
    /\ ReceiverTypeOK
    /\ link \in {"lost", "queued", "served"} /\ stale \in 0 .. MaxStale
    /\ pause \in 0 .. Interval
    /\ seq \in Nat /\ sent \in 0 .. MaxSeq /\ loads \in 0 .. MaxLoads
    /\ net \subseteq Packet
    /\ latest \in 0 .. MaxSeq /\ mixed \in BOOLEAN
    /\ unposted \in Nat /\ from \in Nat

\* Between any two times that a command is applied a registration was loaded, which
\* resets last_seq, and the last time comes no later than twice the permitted skew after
\* the first.  A load that fails does not count.
ReplayBounded ==
    [][\A p \in net : Accepted(p) /\ p.applied # None
         => p.loaded /\ p.age - p.applied <= 2 * MaxSkew]_vars

\* A signed packet that arrives in time and is not overtaken is obeyed, once its key is
\* loaded: also the first one after a reconnection, after packets that were refused, or
\* after a registration that could not be loaded.
InOrderAccepted ==
    \A p \in net :
        key = p.key /\ verifyKey = p.key /\ Fresh(p) /\ p.order > latest => Acceptable(p)

\* Every command that was applied is counted once, in the statistics, in the report
\* under way or in one before, though commands arrive while a report is posted; and so
\* is every packet that did not arrive, as long as one key is loaded once.
Accounted ==
    LET sending == IF report = None THEN [latencies |-> 0, lost |-> 0] ELSE report IN
    /\ unposted = latencies + sending.latencies
    /\ lastSeen # None /\ ~mixed =>
         lastSeen + 1 = from + unposted + lostCount + sending.lost

\* The watchdog brakes a vehicle that gets no valid command.
LegacyStops == quiet > StopWithin => emergency

\* The producer comes to serve a new connection of the vehicle, unless it is lost
\* again: no earlier connection that the server takes for open holds it up.
Served == link = "queued" ~> link # "queued"
=============================================================================
