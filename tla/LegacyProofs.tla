---------------------------- MODULE LegacyProofs ----------------------------
(***************************************************************************)
(* The first receiver and its producer, for any keys, delays, clocks and   *)
(* bounds: what is obeyed, what is obeyed twice, what is counted, and when *)
(* the vehicle brakes.                                                     *)
(***************************************************************************)
EXTENDS LegacyDemo, TLAPS

\* The producer numbers its packets without a gap, over all connections.
Numbered ==
    /\ seq = sent + 1
    /\ \A p \in net : p.seq = p.order /\ p.seq \in 1 .. sent /\ p.good

\* The verifier's sequence is the latest packet it obeyed with this key.
InStep == lastSeq = latest /\ latest <= sent

\* A packet that was obeyed was fresh the first time, and is behind the sequence now,
\* unless a registration was loaded since the last time.
Behind ==
    \A p \in net : p.applied # None =>
        /\ p.applied >= -MaxSkew
        /\ p.seq <= lastSeq \/ p.loaded

\* Nothing is counted before the first command, and until a key is loaded anew the
\* runtime's sequence is the verifier's.
Seen ==
    /\ lastSeen = None => latencies = 0 /\ lostCount = 0 /\ report = None
    /\ lastSeen # None /\ ~mixed => lastSeen = lastSeq

\* What is left of the timeout covers the time to the next look.
Watched == ~emergency => quiet + look <= StopWithin

LegacyInv == TypeOK /\ Numbered /\ InStep /\ Behind /\ Seen /\ Accounted /\ Watched

USE LegacyAssumption, DemoAssumption

LEMMA StopFacts == StopWithin \in Nat /\ StopWithin = Timeout + Look
BY DEF StopWithin

LEMMA InitInv == Init => LegacyInv
<1> SUFFICES ASSUME Init PROVE LegacyInv
  OBVIOUS
<1>1. ReceiverTypeOK
  <2>1. lastSeq \in Nat /\ quiet \in 0 .. StopWithin + 1 /\ look \in 0 .. Look
        /\ latencies \in Nat /\ lostCount \in Nat
    BY StopFacts DEF Init, ReceiverInit
  <2>2. emergency \in BOOLEAN /\ key \in Key \cup {None} /\ verifyKey \in Key \cup {None} /\ lastSeen \in Nat \cup {None}
        /\ report \in Report \cup {None} /\ retry \in {"trying", "pausing", "done"}
    BY Zenon DEF Init, ReceiverInit
  <2>3. QED
    BY <2>1, <2>2, Zenon DEF ReceiverTypeOK
<1>2. TypeOK
  <2>1. stale \in 0 .. MaxStale /\ pause \in 0 .. Interval /\ seq \in Nat /\ sent \in 0 .. MaxSeq
        /\ loads \in 0 .. MaxLoads /\ latest \in 0 .. MaxSeq /\ unposted \in Nat /\ from \in Nat
    BY DEF Init
  <2>2. link \in {"lost", "queued", "served"} /\ net \subseteq Packet /\ mixed \in BOOLEAN
    BY Zenon DEF Init
  <2>3. QED
    BY <1>1, <2>1, <2>2, Zenon DEF TypeOK
<1>3. Numbered /\ InStep /\ Behind
  BY DEF Init, ReceiverInit, Numbered, InStep, Behind
<1>4. Seen /\ Accounted /\ Watched
  BY StopFacts DEF Init, ReceiverInit, Seen, Accounted, Watched
<1>5. QED
  BY <1>2, <1>3, <1>4 DEF LegacyInv

\* Steps of the connection and the producer: the receiver's state is left alone but for
\* where reconnect_loop is.
LEMMA DemoStep ==
    ASSUME LegacyInv, Connect \/ Disconnect \/ Takes \/ Leaves
    PROVE  LegacyInv'
<1>1. /\ UNCHANGED <<verifierVars, quiet, emergency, look, statVars, seq, pause, net, loads, historyVars>>
      /\ retry' \in {"trying", "pausing", "done"}
      /\ link' \in {"lost", "queued", "served"} /\ stale' \in 0 .. MaxStale
  BY DEF LegacyInv, TypeOK, ReceiverTypeOK, Connect, Disconnect, Takes, Leaves, AttemptSucceeds,
     Reconnect, receiverVars, verifierVars, statVars, historyVars
<1>2. QED
  BY <1>1 DEF LegacyInv, TypeOK, ReceiverTypeOK, Numbered, InStep, Behind, Seen, Accounted, Watched,
     verifierVars, statVars, historyVars

LEMMA ProduceStep == ASSUME LegacyInv, Produce PROVE LegacyInv'
<1> USE DEF LegacyInv
<1>1. UNCHANGED receiverVars /\ UNCHANGED <<link, stale, loads, latest, mixed, unposted, from>>
  BY DEF Produce
<1>2. Signed(seq) \in Packet /\ Signed(seq).seq = seq /\ Signed(seq).order = sent + 1
      /\ Signed(seq).good /\ Signed(seq).applied = None
  BY DEF Signed, Packet, TypeOK
<1>3. \A p \in net' : p \in net \/ p = Signed(seq)
  BY DEF Produce
<1>4. TypeOK'
  BY <1>1, <1>2, <1>3 DEF Produce, TypeOK, ReceiverTypeOK, receiverVars, verifierVars, statVars
<1>5. Numbered'
  BY <1>2, <1>3 DEF Produce, Numbered, TypeOK
<1>6. InStep' /\ Seen' /\ Accounted' /\ Watched'
  BY <1>1 DEF Produce, InStep, Seen, Accounted, Watched, receiverVars, verifierVars, statVars, TypeOK
<1>7. Behind'
  BY <1>1, <1>2, <1>3 DEF Behind, receiverVars, verifierVars, statVars
<1>8. QED
  BY <1>4, <1>5, <1>6, <1>7

\* A registration that is loaded leaves every packet what it is, and marks those that
\* have been applied.
LEMMA LoadStep == ASSUME LegacyInv, NEW k \in Key, Load(k) PROVE LegacyInv'
<1> USE DEF LegacyInv
<1> DEFINE Marked(p) == [p EXCEPT !.loaded = (p.applied # None)]
<1>1. ASSUME NEW q \in net' PROVE \E p \in net : p \in Packet /\ q = Marked(p)
  BY <1>1 DEF Load, TypeOK
<1>2. ASSUME NEW p \in Packet
      PROVE  /\ Marked(p) \in Packet
             /\ Marked(p).seq = p.seq /\ Marked(p).order = p.order /\ Marked(p).good = p.good
             /\ Marked(p).applied = p.applied /\ (p.applied # None => Marked(p).loaded)
  <2>1. (p.applied # None) \in BOOLEAN
    OBVIOUS
  <2>2. QED
    BY <1>2, <2>1 DEF Packet
<1> HIDE DEF Marked
<1>3. net' \subseteq Packet
  BY <1>1, <1>2
<1>4. TypeOK' /\ InStep' /\ Watched'
  BY <1>3 DEF Load, LoadRegistration, TypeOK, ReceiverTypeOK, InStep, Watched, demoVars, statVars
<1>5. Numbered'
  <2>1. ASSUME NEW q \in net' PROVE q.seq = q.order /\ q.seq \in 1 .. sent /\ q.good
    <3>1. PICK p \in net : p \in Packet /\ q = Marked(p)
      BY <1>1, <2>1
    <3>2. QED
      BY <1>2, <3>1 DEF Numbered
  <2>2. QED
    BY <2>1 DEF Load, Numbered, demoVars
<1>6. Behind'
  <2>1. ASSUME NEW q \in net', q.applied # None PROVE q.applied >= -MaxSkew /\ q.loaded
    <3>1. PICK p \in net : p \in Packet /\ q = Marked(p)
      BY <1>1, <2>1
    <3>2. QED
      BY <1>2, <2>1, <3>1 DEF Behind
  <2>2. QED
    BY <2>1 DEF Behind
<1>7. Seen' /\ Accounted'
  BY DEF Load, LoadRegistration, Seen, Accounted, statVars, TypeOK
<1>8. QED
  BY <1>4, <1>5, <1>6, <1>7

\* One that cannot be loaded leaves everything but the name of the key.
LEMMA MisloadStep == ASSUME LegacyInv, NEW k \in Key, Misload(k) PROVE LegacyInv'
<1> USE DEF LegacyInv
<1>1. /\ UNCHANGED <<verifyKey, lastSeq, quiet, emergency, look, statVars, retry>>
      /\ UNCHANGED <<demoVars, net, historyVars>>
      /\ key' \in Key /\ loads' \in 0 .. MaxLoads
  BY DEF Misload, LoadFails, TypeOK
<1>2. TypeOK'
  BY <1>1 DEF TypeOK, ReceiverTypeOK, statVars, demoVars, historyVars
<1>3. Numbered' /\ InStep' /\ Behind' /\ Seen' /\ Accounted' /\ Watched'
  BY <1>1 DEF Numbered, InStep, Behind, Seen, Accounted, Watched, statVars, demoVars, historyVars
<1>4. QED
  BY <1>2, <1>3

LEMMA DeliverStep ==
    ASSUME LegacyInv, NEW p \in net \cup {Unsigned}, Deliver(p) PROVE LegacyInv'
<1> USE DEF LegacyInv
<1>1. CASE Refused(p)
  <2>1. ~Accepted(p)
    BY <1>1 DEF Refused, Accepted
  <2>2. UNCHANGED vars
    BY <1>1, <2>1 DEF Deliver, Refused, vars, historyVars
  <2>3. QED
    BY <2>2 DEF vars, receiverVars, verifierVars, statVars, demoVars, historyVars, TypeOK,
       ReceiverTypeOK, Numbered, InStep, Behind, Seen, Accounted, Watched
<1>2. CASE Accepted(p)
  <2>1. p \in net /\ p \in Packet
    <3>1. ~Unsigned.good
      BY DEF Unsigned, Signed
    <3>2. p.good
      BY <1>2 DEF Accepted, Acceptable
    <3>3. QED
      BY <3>1, <3>2 DEF TypeOK
  <2>2. /\ p.seq \in Nat /\ p.age \in Int /\ p.order \in Nat /\ p.seq > lastSeq
        /\ p.age >= -MaxSkew /\ p.age <= MaxSkew
        /\ p.seq = p.order /\ p.seq \in 1 .. sent
    BY <1>2, <2>1 DEF Accepted, Acceptable, Fresh, Packet, Numbered
  <2>3. /\ lastSeq' = p.seq /\ quiet' = 0 /\ latencies' = latencies + 1
        /\ lostCount' = lostCount + Gap(p.seq) /\ lastSeen' = p.seq /\ emergency' = FALSE
        /\ UNCHANGED <<key, verifyKey, look, report, retry>>
    BY <1>2 DEF Accepted
  <2>4. ~Refused(p)
    BY <1>2 DEF Refused, Accepted
  <2>5. /\ net' = (net \ {p}) \cup {Obeyed(p)}
        /\ latest' = p.order /\ unposted' = unposted + 1
        /\ from' = IF lastSeen = None THEN p.seq ELSE from
        /\ UNCHANGED <<demoVars, loads, sent, mixed>>
    BY <2>4 DEF Deliver
  <2>6. \A q \in net' : q \in net \/ q = Obeyed(p)
    BY <2>5
  <2>7. Gap(p.seq) \in Nat
    BY <2>2 DEF Gap, TypeOK, ReceiverTypeOK
  <2>8. /\ Obeyed(p) \in Packet
        /\ Obeyed(p).seq = p.seq /\ Obeyed(p).order = p.order /\ Obeyed(p).good = p.good
        /\ Obeyed(p).applied = IF p.applied = None THEN p.age ELSE p.applied
    BY <2>1, <2>2 DEF Packet, Obeyed
  <2>9. TypeOK'
    <3>1. net' \subseteq Packet
      BY <2>1, <2>5, <2>8 DEF TypeOK
    <3>2. ReceiverTypeOK'
      <4>1. lastSeq' \in Nat /\ quiet' \in 0 .. StopWithin + 1 /\ latencies' \in Nat
            /\ lostCount' \in Nat /\ lastSeen' \in Nat
        BY <2>2, <2>3, <2>7, StopFacts DEF TypeOK, ReceiverTypeOK
      <4>2. emergency' \in BOOLEAN
        BY <2>3, Zenon
      <4>3. key' \in Key \cup {None} /\ verifyKey' \in Key \cup {None} /\ look' \in 0 .. Look /\ report' \in Report \cup {None}
            /\ retry' \in {"trying", "pausing", "done"}
        BY <2>3, Zenon DEF TypeOK, ReceiverTypeOK
      <4>4. QED
        BY <4>1, <4>2, <4>3, Zenon DEF ReceiverTypeOK
    <3>3. latest' \in 0 .. MaxSeq /\ unposted' \in Nat /\ from' \in Nat
      BY <2>2, <2>5 DEF TypeOK
    <3>4. QED
      BY <2>5, <3>1, <3>2, <3>3 DEF TypeOK, demoVars
  <2>10. Numbered'
    BY <2>1, <2>5, <2>6, <2>8 DEF Numbered, demoVars
  <2>11. InStep' /\ Watched'
    BY <2>2, <2>3, <2>5 DEF InStep, Watched, TypeOK, ReceiverTypeOK, StopWithin
  <2>12. Behind'
    <3>1. ASSUME NEW q \in net', q.applied # None
          PROVE  q.applied >= -MaxSkew /\ (q.seq <= lastSeq' \/ q.loaded)
      <4>1. CASE q \in net
        <5>1. q.applied >= -MaxSkew /\ (q.seq <= lastSeq \/ q.loaded) /\ q.seq \in Nat
          BY <3>1, <4>1 DEF Behind, TypeOK, Packet
        <5>2. QED
          BY <5>1, <2>2, <2>3, <2>5 DEF TypeOK, ReceiverTypeOK
      <4>2. CASE q = Obeyed(p)
        <5>1. p.applied # None => p.applied >= -MaxSkew
          BY <2>1 DEF Behind
        <5>2. QED
          BY <4>2, <5>1, <2>2, <2>3, <2>8
      <4>3. QED
        BY <4>1, <4>2, <2>6
    <3>2. QED
      BY <3>1 DEF Behind
  <2>13. Seen'
    BY <2>2, <2>3, <2>5 DEF Seen
  <2>14. Accounted'
    <3>1. CASE lastSeen = None
      <4>1. latencies = 0 /\ lostCount = 0 /\ report = None /\ Gap(p.seq) = 0 /\ unposted = 0
        BY <3>1 DEF Seen, Gap, Accounted
      <4>2. QED
        BY <2>2, <2>3, <2>5, <3>1, <4>1 DEF Accounted
    <3>2. CASE lastSeen # None
      <4>1. lastSeen \in Nat /\ unposted \in Nat /\ from \in Nat /\ latencies \in Nat
            /\ lostCount \in Nat /\ report \in Report \cup {None}
        BY <3>2 DEF TypeOK, ReceiverTypeOK
      <4>2. ~mixed => Gap(p.seq) = p.seq - lastSeen - 1
        BY <2>2, <3>2, <4>1 DEF Gap, Seen
      <4>3. QED
        BY <2>2, <2>3, <2>5, <2>7, <3>2, <4>1, <4>2 DEF Accounted, Report
    <3>3. QED
      BY <3>1, <3>2
  <2>15. QED
    BY <2>9, <2>10, <2>11, <2>12, <2>13, <2>14
<1>3. QED
  BY <1>1, <1>2 DEF Deliver

LEMMA HandStep == ASSUME LegacyInv, Hand PROVE LegacyInv'
<1> USE DEF LegacyInv
<1>1. report \in Report /\ report.latencies \in Nat /\ report.lost \in Nat
  BY DEF Hand, TelemetryPosted, TypeOK, ReceiverTypeOK, Report
<1>2. unposted = latencies + report.latencies
  BY <1>1 DEF Accounted, Hand, TelemetryPosted
<1>3. TypeOK' /\ Numbered' /\ InStep' /\ Behind' /\ Watched'
  BY <1>1, <1>2 DEF Hand, TelemetryPosted, TypeOK, ReceiverTypeOK, Numbered, InStep, Behind,
     Watched, verifierVars, demoVars
<1>4. Seen'
  BY DEF Hand, TelemetryPosted, Seen, verifierVars
<1>5. Accounted'
  BY <1>1, <1>2 DEF Hand, TelemetryPosted, Accounted, TypeOK, ReceiverTypeOK
<1>6. QED
  BY <1>3, <1>4, <1>5

LEMMA QuietStep ==
    ASSUME LegacyInv, Quietly(TelemetryWakes \/ Watchdog \/ AttemptFails \/ PauseEnds)
    PROVE  LegacyInv'
<1> USE DEF LegacyInv
<1>1. UNCHANGED <<verifierVars, lastSeen, demoVars, net, loads, historyVars>>
  BY DEF Quietly, TelemetryWakes, Watchdog, AttemptFails, PauseEnds, verifierVars, statVars
<1>2. TypeOK' /\ Watched'
  <2>1. emergency' \in BOOLEAN
    BY DEF Quietly, TelemetryWakes, Watchdog, AttemptFails, PauseEnds, TypeOK, ReceiverTypeOK
  <2>2. report' \in Report \cup {None} /\ latencies' \in Nat /\ lostCount' \in Nat
    BY DEF Quietly, TelemetryWakes, Watchdog, AttemptFails, PauseEnds, TypeOK, ReceiverTypeOK,
       statVars, Report
  <2>3. quiet' = quiet /\ look' \in 0 .. Look /\ retry' \in {"trying", "pausing", "done"}
    BY DEF Quietly, TelemetryWakes, Watchdog, AttemptFails, PauseEnds, TypeOK, ReceiverTypeOK
  <2>4. TypeOK'
    BY <1>1, <2>1, <2>2, <2>3 DEF TypeOK, ReceiverTypeOK, verifierVars, demoVars, historyVars
  <2>5. CASE Watchdog
    <3>1. ~emergency' => quiet <= Timeout
      <4>1. quiet > Timeout => emergency'
        BY <2>5, Zenon DEF Watchdog
      <4>2. quiet \in Nat
        BY DEF TypeOK, ReceiverTypeOK
      <4>3. QED
        BY <4>1, <4>2
    <3>2. look' = Look /\ quiet \in Nat
      BY <2>5 DEF Watchdog, TypeOK, ReceiverTypeOK
    <3>3. Watched'
      BY <2>3, <3>1, <3>2, StopFacts DEF Watched
    <3>4. QED
      BY <2>4, <3>3
  <2>6. CASE ~Watchdog
    <3>1. look' = look /\ (emergency' = emergency \/ emergency' = TRUE)
      BY <2>6 DEF Quietly, TelemetryWakes, AttemptFails, PauseEnds
    <3>2. Watched'
      BY <2>3, <3>1 DEF Watched, StopWithin
    <3>3. QED
      BY <2>4, <3>2
  <2>7. QED
    BY <2>5, <2>6
<1>3. Numbered' /\ InStep' /\ Behind'
  BY <1>1 DEF Numbered, InStep, Behind, verifierVars, demoVars, historyVars
<1>4. CASE TelemetryWakes
  <2>1. /\ report = None /\ report' = [latencies |-> latencies, lost |-> lostCount]
        /\ latencies' = 0 /\ lostCount' = 0 /\ (latencies > 0 \/ lostCount > 0)
    BY <1>4 DEF TelemetryWakes
  <2>2. latencies \in Nat /\ lostCount \in Nat
    BY DEF TypeOK, ReceiverTypeOK
  <2>3. report' # None
    BY <2>1, <2>2 DEF Report
  <2>4. Seen'
    BY <1>1, <2>1, <2>2 DEF Seen, verifierVars, historyVars
  <2>5. Accounted'
    BY <1>1, <2>1, <2>2, <2>3 DEF Accounted, historyVars, TypeOK
  <2>6. QED
    BY <1>2, <1>3, <2>4, <2>5
<1>5. CASE ~TelemetryWakes
  <2>1. UNCHANGED statVars
    BY <1>5 DEF Quietly, Watchdog, AttemptFails, PauseEnds
  <2>2. Seen' /\ Accounted'
    BY <1>1, <2>1 DEF Seen, Accounted, statVars, verifierVars, historyVars
  <2>3. QED
    BY <1>2, <1>3, <2>2
<1>6. QED
  BY <1>4, <1>5

LEMMA TickStep == ASSUME LegacyInv, Tick PROVE LegacyInv'
<1> USE DEF LegacyInv
<1>1. ASSUME NEW q \in net' PROVE \E p \in net : p \in Packet /\ q = [p EXCEPT !.age = p.age + 1]
  BY <1>1 DEF Tick, TypeOK
<1>2. ASSUME NEW p \in Packet
      PROVE  LET q == [p EXCEPT !.age = p.age + 1] IN
             /\ q \in Packet
             /\ q.seq = p.seq /\ q.order = p.order /\ q.good = p.good
             /\ q.applied = p.applied /\ q.loaded = p.loaded
  BY <1>2 DEF Packet
<1>3. net' \subseteq Packet
  BY <1>1, <1>2
<1>4. TypeOK'
  BY <1>3 DEF Tick, ReceiverTick, TypeOK, ReceiverTypeOK, verifierVars, statVars, historyVars, StopWithin
<1>5. Numbered'
  <2>1. ASSUME NEW q \in net' PROVE q.seq = q.order /\ q.seq \in 1 .. sent /\ q.good
    <3>1. PICK p \in net : p \in Packet /\ q = [p EXCEPT !.age = p.age + 1]
      BY <1>1, <2>1
    <3>2. QED
      BY <1>2, <3>1 DEF Numbered
  <2>2. QED
    BY <2>1 DEF Tick, Numbered, historyVars
<1>6. Behind'
  <2>1. ASSUME NEW q \in net', q.applied # None
        PROVE  q.applied >= -MaxSkew /\ (q.seq <= lastSeq \/ q.loaded)
    <3>1. PICK p \in net : p \in Packet /\ q = [p EXCEPT !.age = p.age + 1]
      BY <1>1, <2>1
    <3>2. QED
      BY <1>2, <2>1, <3>1 DEF Behind
  <2>2. QED
    BY <2>1 DEF Tick, ReceiverTick, Behind, verifierVars, statVars, historyVars
<1>7. InStep' /\ Seen' /\ Accounted'
  BY DEF Tick, ReceiverTick, InStep, Seen, Accounted, verifierVars, statVars, historyVars
<1>8. Watched'
  BY DEF Tick, ReceiverTick, Watched, TypeOK, ReceiverTypeOK, StopWithin
<1>9. QED
  BY <1>4, <1>5, <1>6, <1>7, <1>8

LEMMA NextInv == LegacyInv /\ [Next]_vars => LegacyInv'
<1> SUFFICES ASSUME LegacyInv, [Next]_vars PROVE LegacyInv'
  OBVIOUS
<1>1. CASE UNCHANGED vars
  BY <1>1 DEF vars, receiverVars, verifierVars, statVars, demoVars, historyVars, LegacyInv, TypeOK,
     ReceiverTypeOK, Numbered, InStep, Behind, Seen, Accounted, Watched
<1>2. QED
  BY <1>1, DemoStep, ProduceStep, LoadStep, MisloadStep, DeliverStep, HandStep, QuietStep, TickStep DEF Next

LEMMA AlwaysInv == Spec => []LegacyInv
BY InitInv, NextInv, PTL DEF Spec

\* Every variable of the receiver and the demo keeps its type; in particular no loss is
\* ever negative, although sequences start again.
THEOREM LegacyTypeCorrect == Spec => []TypeOK
<1>1. LegacyInv => TypeOK
  BY DEF LegacyInv
<1>2. QED
  BY <1>1, AlwaysInv, PTL

\* Every signed packet that arrives in time and not after a later one is obeyed, over all
\* reconnections: the producer's sequence goes on, and a refused packet leaves last_seq.
THEOREM InOrderObeyed == Spec => []InOrderAccepted
<1>1. LegacyInv => InOrderAccepted
  <2> SUFFICES ASSUME LegacyInv, NEW p \in net, key = p.key, verifyKey = p.key, Fresh(p),
                      p.order > latest
               PROVE  Acceptable(p)
    BY DEF InOrderAccepted
  <2>1. p \in Packet /\ p.good /\ p.seq > lastSeq
    BY DEF LegacyInv, TypeOK, Numbered, InStep
  <2>2. QED
    BY <2>1 DEF Acceptable, Packet
<1>2. QED
  BY <1>1, AlwaysInv, PTL

\* No applied command is missing from the reports or in two of them, and no loss either.
THEOREM AllAccounted == Spec => []Accounted
<1>1. LegacyInv => Accounted
  BY DEF LegacyInv
<1>2. QED
  BY <1>1, AlwaysInv, PTL

\* The watchdog and reconnect_loop, which both brake, and the commands, which release the
\* brake, leave no vehicle quiet and unbraked for longer than the timeout and one look.
THEOREM LegacyBrakes == Spec => []LegacyStops
<1>1. LegacyInv => LegacyStops
  BY DEF LegacyInv, Watched, LegacyStops, TypeOK, ReceiverTypeOK, StopWithin
<1>2. QED
  BY <1>1, AlwaysInv, PTL

\* Between two times that a command is obeyed a registration has been loaded, and the last
\* time is within twice the skew of the first, for any number of loads and repetitions: so
\* a command whose registration is loaded once is obeyed once.
THEOREM ReplayWithinSkew == Spec => ReplayBounded
<1>1. ASSUME LegacyInv, [Next]_vars
      PROVE  [\A p \in net : Accepted(p) /\ p.applied # None
                 => p.loaded /\ p.age - p.applied <= 2 * MaxSkew]_vars
  <2> SUFFICES ASSUME NEW p \in net, Accepted(p), p.applied # None
               PROVE  p.loaded /\ p.age - p.applied <= 2 * MaxSkew
    OBVIOUS
  <2>1. p \in Packet /\ p.applied \in Int /\ p.age \in Int /\ p.seq \in Nat
    BY <1>1 DEF LegacyInv, TypeOK, Packet
  <2>2. p.seq > lastSeq /\ p.age <= MaxSkew
    BY <2>1 DEF Accepted, Acceptable, Fresh
  <2>3. p.applied >= -MaxSkew /\ (p.seq <= lastSeq \/ p.loaded)
    BY <1>1 DEF LegacyInv, Behind
  <2>4. QED
    BY <1>1, <2>1, <2>2, <2>3 DEF LegacyInv, TypeOK, ReceiverTypeOK
<1>2. QED
  BY <1>1, AlwaysInv, PTL DEF Spec, ReplayBounded
=============================================================================
