---------------------------- MODULE TeleopProofs ----------------------------
(***************************************************************************)
(* What moves the vehicle, for any number of operators, sessions and       *)
(* packets, and any leases, timeouts and intervals: no expired session, no *)
(* released one for longer than a refresh, and no command twice.           *)
(***************************************************************************)
EXTENDS Teleop, TLAPS

-----------------------------------------------------------------------------
(* The inductive invariant.                                                *)

\* Packets that may be delivered were signed in order and not ahead of the skew.
Flight == \A p \in net : p.good /\ p.seq \in 1 .. sent[p.sid] /\ p.age >= -MaxSkew

TypeInv == TypeOK /\ Flight

\* A session that was not handed out has sent nothing and has not been released; the one
\* that holds the lease has not been released either, and is not told to outlive it.
LeaseFacts ==
    /\ \A s \in Request : s \notin granted => sent[s] = 0 /\ sinceRelease[s] = Held
    /\ lease[Me] # None =>
          /\ lease[Me].sid \in granted
          /\ sinceRelease[lease[Me].sid] = Held
          /\ lease[Me].exp <= lease[Me].px

\* While a refresh is under way the vehicle trusts no session.
Polling ==
    /\ fetch.stage # "sleeping" => session = None
    /\ fetch.stage # "answered" => fetch.data = None
    /\ fetch.left <= IF fetch.stage = "sleeping" THEN RefreshInterval ELSE HttpTimeout

\* A copy of a session that is not yet due belongs to the lease or was released ...
Covered(c) ==
    c # None /\ c.exp > 0 => \/ Controls(c.sid) /\ c.exp <= lease[Me].px
                             \/ sinceRelease[c.sid] # Held

\* ... and if it was released, this is no longer ago than lag when the timer is out.
Recent(c, lag) ==
    c # None => sinceRelease[c.sid] = Held \/ sinceRelease[c.sid] + fetch.left <= lag

Trust ==
    /\ Covered(session) /\ Recent(session, ReleaseLag)
    /\ Covered(fetch.data) /\ Recent(fetch.data, HttpTimeout)

TrustInv == TypeInv /\ LeaseFacts /\ Polling /\ Trust

Names(c, s) == c # None /\ c.sid = s

\* In t units, no packet up to the highest sequence applied will be fresh any more.
Outdated(s, t) == \A p \in net : p.sid = s /\ p.seq <= highest[s] => p.age + t > MaxAge

\* The vehicle remembers how far it came in a session it trusts or is about to trust, or
\* what it has forgotten is outdated: a refresh that fails forgets, and takes its time.
Remembers(s) ==
    /\ Names(session, s) => lastSequence >= highest[s] \/ Outdated(s, 0)
    /\ fetch.stage # "sleeping" /\ (Controls(s) \/ Names(fetch.data, s)) =>
          \/ fetch.prev = s /\ fetch.prevSeq >= highest[s]
          \/ Outdated(s, 0)
    /\ fetch.stage = "sleeping" /\ session = None /\ Controls(s) => Outdated(s, fetch.left)

\* A session that holds the lease while the vehicle still knows another one is new to it.
Successor(s) ==
    Controls(s) => \A c \in {session, fetch.data} : c # None /\ c.sid # s => highest[s] = 0

Memory ==
    /\ \A s \in Request \ lapsed : Remembers(s)
    /\ \A s \in Request : Successor(s)

MemoryInv == TrustInv /\ Memory

-----------------------------------------------------------------------------
(* Types.                                                                  *)

LEMMA ScriptTypes ==
    ASSUME StoreTypeOK, NEW s \in Request, NEW o \in Operator, NEW e \in ExpiresIn,
           \/ AcquireScript(Me, s, o, e)
           \/ RenewReply(Me, s, o) = 1 /\ RenewScript(Me, s, e)
    PROVE  StoreTypeOK'
<1>1. LeaseTTL \in 1 .. LeaseTTL /\ e \in 0 .. LeaseTTL /\ Me \in Vehicle
    BY LeaseAssumption, TeleopAssumption
<1>2. CASE AcquireScript(Me, s, o, e)
    BY <1>1, <1>2 DEF AcquireScript, StoreTypeOK, Session, IndexEntry
<1>3. CASE RenewReply(Me, s, o) = 1 /\ RenewScript(Me, s, e)
    <2>1. lease[Me] \in Session
        BY <1>1, <1>3 DEF RenewReply, StoreTypeOK
    <2>2. [lease[Me] EXCEPT !.exp = e, !.px = LeaseTTL] \in Session
        BY <1>1, <2>1 DEF Session
    <2>3. [veh |-> Me, px |-> LeaseTTL] \in IndexEntry
        BY <1>1 DEF IndexEntry
    <2> QED BY <1>1, <1>3, <2>2, <2>3 DEF RenewScript, StoreTypeOK
<1> QED BY <1>2, <1>3

\* What a key becomes in one unit of time.
LEMMA AgeFacts ==
    /\ \A key \in Session \cup {None} :
          Age(key) # None => /\ key # None /\ key \in Session /\ key.px > 1
                             /\ Age(key) = [key EXCEPT !.px = key.px - 1]
                             /\ Age(key) \in Session
    /\ \A key \in IndexEntry \cup {None} : Age(key) \in IndexEntry \cup {None}
<1>1. ASSUME NEW key \in Session, key.px # 1
      PROVE  /\ key.px > 1 /\ key.px # NoTTL
             /\ [key EXCEPT !.px = key.px - 1] \in Session
    <2>1. key.px - 1 \in 1 .. LeaseTTL /\ key.px > 1 /\ key.px # NoTTL
        BY <1>1, LeaseAssumption DEF Session, NoTTL
    <2> QED BY <2>1 DEF Session
<1>2. ASSUME NEW key \in IndexEntry, key.px # 1
      PROVE  key.px # NoTTL /\ [key EXCEPT !.px = key.px - 1] \in IndexEntry
    <2>1. key.px - 1 \in 1 .. LeaseTTL /\ key.px # NoTTL
        BY <1>2, LeaseAssumption DEF IndexEntry, NoTTL
    <2> QED BY <2>1 DEF IndexEntry
<1> QED BY <1>1, <1>2 DEF Age

LEMMA TickTypes ==
    ASSUME StoreTypeOK, StoreTick
    PROVE  /\ StoreTypeOK'
           /\ \A v \in Vehicle : lease'[v] # None =>
                 /\ lease[v] # None /\ lease[v].px > 1
                 /\ lease'[v].sid = lease[v].sid
                 /\ lease'[v].px = lease[v].px - 1
                 /\ lease'[v].exp = Elapse(lease[v].exp)
<1>1. ASSUME NEW v \in Vehicle, lease'[v] # None
      PROVE  /\ lease'[v] \in Session
             /\ lease[v] # None /\ lease[v].px > 1
             /\ lease'[v].sid = lease[v].sid
             /\ lease'[v].px = lease[v].px - 1
             /\ lease'[v].exp = Elapse(lease[v].exp)
    <2> DEFINE key == Age(lease[v])
               e == Elapse(lease[v].exp)
    <2>1. lease'[v] = [key EXCEPT !.exp = Elapse(@)] /\ key # None
        BY <1>1 DEF StoreTick
    <2>2. lease[v] \in Session \cup {None}
        BY DEF StoreTypeOK
    <2>3. /\ lease[v] \in Session /\ lease[v] # None /\ lease[v].px > 1 /\ key \in Session
          /\ key = [lease[v] EXCEPT !.px = lease[v].px - 1]
        BY <2>1, <2>2, AgeFacts
    <2>4. key.sid = lease[v].sid /\ key.px = lease[v].px - 1 /\ key.exp = lease[v].exp
        BY <2>3 DEF Session
    <2>5. e \in 0 .. LeaseTTL
        BY <2>3, LeaseAssumption DEF Session, Elapse
    <2>6. lease'[v] = [key EXCEPT !.exp = e]
        BY <2>1, <2>4
    <2> HIDE DEF key, e
    <2>7. lease'[v] \in Session /\ lease'[v].sid = key.sid /\ lease'[v].px = key.px /\ lease'[v].exp = e
        BY <2>3, <2>5, <2>6 DEF Session
    <2> QED BY <2>3, <2>4, <2>7 DEF e
<1>2. lease' \in [Vehicle -> Session \cup {None}]
    BY <1>1 DEF StoreTick
<1>3. index' \in [Request -> IndexEntry \cup {None}]
    BY AgeFacts DEF StoreTick, StoreTypeOK
<1> QED BY <1>1, <1>2, <1>3 DEF StoreTick, StoreTypeOK

LEMMA CopyTypes ==
    /\ \A c \in Copy \cup {None} : ElapseCopy(c) \in Copy \cup {None}
    /\ \A c \in Copy : /\ ElapseCopy(c) # None => c # None
                       /\ c # None => ElapseCopy(c).sid = c.sid /\ ElapseCopy(c).exp = Elapse(c.exp)
BY DEF Copy, ElapseCopy, Elapse

\* A packet that is still there after a tick is one that was there before, a unit older.
LEMMA TickNet ==
    ASSUME net \subseteq Packet, Tick, NEW p \in net'
    PROVE  \E q \in net : /\ q.age <= MaxAge
                          /\ p.sid = q.sid /\ p.seq = q.seq /\ p.good = q.good
                          /\ p.age = q.age + 1
                          /\ p \in Packet
<1>1. PICK q \in net : q.age <= MaxAge /\ p = [q EXCEPT !.age = @ + 1]
    BY DEF Tick
<1>2. q \in Packet /\ q.age \in Int
    BY ReceiverAssumption DEF Packet
<1>3. q.age + 1 \in -MaxSkew - 1 .. MaxAge + 1
    BY <1>1, <1>2, ReceiverAssumption DEF Packet
<1> QED BY <1>1, <1>2, <1>3 DEF Packet

LEMMA ForgedRefused ==
    ASSUME TypeInv, NEW p \in net \cup {Forged(s) : s \in granted}
    PROVE  /\ p.sid \in Request /\ p.seq \in Nat
           /\ p.good => p \in net
<1>1. CASE p \in net
    BY <1>1 DEF TypeInv, TypeOK, Packet
<1>2. ASSUME NEW s \in granted, p = Forged(s)
      PROVE  p.sid \in Request /\ p.seq \in Nat /\ ~p.good
    BY <1>2, TeleopAssumption DEF Forged, TypeInv, TypeOK, StoreTypeOK
<1> QED BY <1>1, <1>2
LEMMA AsleepType ==
    ASSUME NEW l \in Nat
    PROVE  /\ Asleep(l) \in Fetch
           /\ Asleep(l).stage = "sleeping" /\ Asleep(l).left = l /\ Asleep(l).data = None
BY DEF Asleep, Fetch

LEMMA TypeInit ==
    Init => TypeInv
<1> SUFFICES ASSUME Init PROVE TypeInv
    OBVIOUS
<1>1. StoreTypeOK
    BY DEF Init, StoreInit, StoreTypeOK
<1>2. ReceiverTypeOK
    BY AsleepType DEF Init, ReceiverInit, ReceiverTypeOK
<1>3. Held \in -1 .. ReleaseLag + 1
    BY ReceiverAssumption DEF Held, ReleaseLag
<1>4. \A s \in Request : MaxSeq[s] \in Nat
    BY TeleopAssumption
<1> QED BY <1>1, <1>2, <1>3, <1>4 DEF Init, TypeInv, TypeOK, Flight

\* The gateway's steps leave vehicle and network alone.
LEMMA GatewayTypes ==
    ASSUME TypeInv, NEW s \in Request, NEW o \in Operator, NEW e \in ExpiresIn,
           Grant(s, o, e) \/ Renew(s, o, e)
    PROVE  TypeInv'
<1>1. StoreTypeOK'
    BY ScriptTypes DEF TypeInv, TypeOK, Grant, Renew
<1>2. UNCHANGED <<receiverVars, networkVars, historyVars>>
    BY DEF Grant, Renew
<1> QED BY <1>1, <1>2
    DEF receiverVars, networkVars, historyVars, TypeInv, TypeOK, ReceiverTypeOK, Flight

LEMMA ReleaseTypes ==
    ASSUME TypeInv, NEW s \in Request, NEW o \in Operator, Release(s, o)
    PROVE  TypeInv'
<1>1. StoreTypeOK'
    BY TeleopAssumption DEF Release, ReleaseScript, TypeInv, TypeOK, StoreTypeOK
<1>2. 0 \in -1 .. ReleaseLag + 1
    BY ReceiverAssumption DEF ReleaseLag
<1> QED BY <1>1, <1>2
    DEF Release, receiverVars, networkVars, TypeInv, TypeOK, ReceiverTypeOK, Flight

LEMMA SendTypes ==
    ASSUME TypeInv, NEW s \in Request, NEW age \in SendAge, Send(s, age)
    PROVE  TypeInv'
<1> DEFINE p == [sid |-> s, seq |-> sent[s] + 1, age |-> age, good |-> TRUE]
<1>1. age \in -MaxSkew .. MaxAge /\ age \in -MaxSkew - 1 .. MaxAge + 1 /\ age >= -MaxSkew
    BY TeleopAssumption, ReceiverAssumption
<1>2. sent[s] \in Nat /\ sent[s] < MaxSeq[s] /\ MaxSeq[s] \in Nat
    BY TeleopAssumption DEF TypeInv, TypeOK, Send
<1>3. p \in Packet
    BY <1>1, <1>2 DEF Packet
<1>4. net' = net \cup {p} /\ sent' = [sent EXCEPT ![s] = sent[s] + 1]
    BY DEF Send
<1>5. \A q \in Request : /\ sent[q] \in Nat /\ sent'[q] \in Nat
                         /\ sent[q] <= sent'[q] /\ sent'[q] <= MaxSeq[q]
    BY <1>2, <1>4 DEF TypeInv, TypeOK
<1>6. sent' \in [Request -> Nat]
    BY <1>2, <1>4 DEF TypeInv, TypeOK
<1>7. TypeOK'
    <2>1. net' \subseteq Packet
        BY <1>3, <1>4 DEF TypeInv, TypeOK
    <2>2. \A q \in Request : highest[q] <= sent'[q]
        BY <1>5 DEF TypeInv, TypeOK
    <2>3. UNCHANGED <<storeVars, receiverVars, historyVars>>
        BY DEF Send
    <2> QED BY <1>5, <1>6, <2>1, <2>2, <2>3
        DEF TypeInv, TypeOK, storeVars, receiverVars, historyVars, StoreTypeOK, ReceiverTypeOK
<1>8. Flight'
    <2> SUFFICES ASSUME NEW q \in net' PROVE q.good /\ q.seq \in 1 .. sent'[q.sid] /\ q.age >= -MaxSkew
        BY DEF Flight
    <2>1. CASE q \in net
        <3>1. q.sid \in Request /\ q.seq \in 1 .. sent[q.sid] /\ q.good /\ q.age >= -MaxSkew
            BY <2>1 DEF TypeInv, TypeOK, Flight, Packet
        <3> QED BY <1>5, <3>1
    <2>2. CASE q = p
        <3>1. sent'[s] = sent[s] + 1
            BY <1>4 DEF TypeInv, TypeOK
        <3> QED BY <1>1, <1>2, <2>2, <3>1
    <2> QED BY <1>4, <2>1, <2>2
<1> QED BY <1>7, <1>8 DEF TypeInv

LEMMA DeliverTypes ==
    ASSUME TypeInv, NEW p \in net \cup {Forged(s) : s \in granted}, Deliver(p)
    PROVE  TypeInv'
<1>1. p.sid \in Request /\ p.seq \in Nat /\ (p.good => p \in net)
    BY ForgedRefused
<1>2. session' \in Copy \cup {None} /\ lastSequence' \in Nat /\ fetch' \in Fetch
    BY <1>1 DEF Deliver, Receive, ClearSession, TypeInv, TypeOK, ReceiverTypeOK
<1>3. highest' \in [Request -> Nat] /\ \A q \in Request : highest'[q] <= sent[q]
    <2>1. CASE Applying /\ p.seq > highest[p.sid]
        <3>1. p.good
            BY <2>1 DEF Applying, Deliver, Receive, ClearSession, Acceptable
        <3>2. p.seq <= sent[p.sid]
            BY <1>1, <3>1 DEF TypeInv, TypeOK, Flight
        <3> QED BY <1>1, <2>1, <3>2 DEF Deliver, TypeInv, TypeOK
    <2>2. CASE ~(Applying /\ p.seq > highest[p.sid])
        BY <2>2 DEF Deliver, TypeInv, TypeOK
    <2> QED BY <2>1, <2>2
<1>4. lapsed' \subseteq Request
    BY <1>1 DEF Deliver, TypeInv, TypeOK
<1>5. UNCHANGED <<storeVars, networkVars, sinceRelease>>
    BY DEF Deliver
<1> QED BY <1>2, <1>3, <1>4, <1>5
    DEF TypeInv, TypeOK, ReceiverTypeOK, storeVars, networkVars, StoreTypeOK, Flight

LEMMA VehicleTypes ==
    ASSUME TypeInv, VehicleStep
    PROVE  TypeInv'
<1>1. session' \in Copy \cup {None} /\ lastSequence' \in Nat /\ fetch' \in Fetch
    <2> HttpTimeout \in Nat /\ RefreshInterval \in Nat
        BY ReceiverAssumption
    <2>1. CASE RefreshStart
        <3>1. (IF session = None THEN None ELSE session.sid) \in Request \cup {None}
            BY DEF TypeInv, TypeOK, ReceiverTypeOK, Copy
        <3> QED BY <2>1, <3>1 DEF RefreshStart, ClearSession, TypeInv, TypeOK, ReceiverTypeOK, Fetch
    <2>2. CASE Lookup
        <3> DEFINE c == IF lease[Me] = None THEN None
                        ELSE [sid |-> lease[Me].sid, exp |-> lease[Me].exp]
        <3>1. c \in Copy \cup {None}
            BY TeleopAssumption, LeaseAssumption
                DEF TypeInv, TypeOK, StoreTypeOK, Session, Copy
        <3>2. fetch' = [fetch EXCEPT !.stage = "answered", !.data = c]
                 /\ UNCHANGED <<session, lastSequence>>
            BY <2>2 DEF Lookup, GatewayAnswers
        <3> HIDE DEF c
        <3> QED BY <3>1, <3>2 DEF TypeInv, TypeOK, ReceiverTypeOK, Fetch
    <2>3. CASE RefreshDone
        BY <2>3, AsleepType DEF RefreshDone, TypeInv, TypeOK, ReceiverTypeOK, Fetch
    <2>4. CASE RefreshFails
        BY <2>4, AsleepType DEF RefreshFails, TypeInv, TypeOK, ReceiverTypeOK
    <2> QED BY <2>1, <2>2, <2>3, <2>4 DEF VehicleStep, Quietly
<1> QED BY <1>1 DEF VehicleStep, Quietly, storeVars, networkVars, historyVars,
                    TypeInv, TypeOK, ReceiverTypeOK, StoreTypeOK, Flight

LEMMA TimeTypes ==
    ASSUME TypeInv, Tick
    PROVE  TypeInv'
<1>1. StoreTypeOK'
    BY TickTypes DEF Tick, TypeInv, TypeOK
<1>2. ReceiverTypeOK'
    <2>1. fetch.left - 1 \in Nat
        BY DEF Tick, ReceiverTick, TypeInv, TypeOK, ReceiverTypeOK, Fetch
    <2>2. ElapseCopy(session) \in Copy \cup {None} /\ ElapseCopy(fetch.data) \in Copy \cup {None}
        BY CopyTypes DEF TypeInv, TypeOK, ReceiverTypeOK, Fetch
    <2> QED BY <2>1, <2>2 DEF Tick, ReceiverTick, TypeInv, TypeOK, ReceiverTypeOK, Fetch
<1>3. net' \subseteq Packet /\ Flight'
    <2> SUFFICES ASSUME NEW p \in net'
                 PROVE  /\ p \in Packet /\ p.good /\ p.seq \in 1 .. sent'[p.sid]
                        /\ p.age >= -MaxSkew
        BY DEF Flight
    <2>1. PICK q \in net : /\ p.sid = q.sid /\ p.seq = q.seq /\ p.good = q.good
                           /\ p.age = q.age + 1 /\ p \in Packet
        BY TickNet DEF TypeInv, TypeOK
    <2>2. q.good /\ q.seq \in 1 .. sent[q.sid] /\ q.age >= -MaxSkew /\ q.age \in Int
        BY ReceiverAssumption DEF TypeInv, TypeOK, Flight, Packet
    <2> QED BY <2>1, <2>2, ReceiverAssumption DEF Tick
<1>4. sinceRelease' \in [Request -> -1 .. ReleaseLag + 1]
    <2>1. ASSUME NEW n \in 0 .. ReleaseLag PROVE n + 1 \in -1 .. ReleaseLag + 1
        BY <2>1, ReceiverAssumption DEF ReleaseLag
    <2> QED BY <2>1 DEF Tick, TypeInv, TypeOK
<1> QED BY <1>1, <1>2, <1>3, <1>4 DEF Tick, TypeInv, TypeOK

LEMMA TypeNext ==
    TypeInv /\ [Next]_vars => TypeInv'
<1> SUFFICES ASSUME TypeInv, [Next]_vars PROVE TypeInv'
    OBVIOUS
<1>1. CASE UNCHANGED vars
    BY <1>1 DEF vars, storeVars, receiverVars, networkVars, historyVars,
                TypeInv, TypeOK, StoreTypeOK, ReceiverTypeOK, Flight
<1> QED BY <1>1, GatewayTypes, ReleaseTypes, SendTypes, DeliverTypes, VehicleTypes, TimeTypes DEF Next

\* Every variable keeps its type; with it, no sequence is applied that was not signed, and
\* none is signed beyond the bound.
THEOREM TeleopTypeCorrect ==
    Spec => []TypeOK
<1>1. TypeInv => TypeOK
    BY DEF TypeInv
<1> QED BY <1>1, TypeInit, TypeNext, PTL DEF Spec
-----------------------------------------------------------------------------
(* Whom the vehicle trusts.                                                *)

LEMMA Typed ==
    ASSUME TypeInv
    PROVE  /\ lease[Me] # None => /\ lease[Me] \in Session /\ lease[Me].sid \in Request
                                  /\ lease[Me].px \in 1 .. LeaseTTL /\ lease[Me].exp \in Nat
           /\ session # None => session.sid \in Request /\ session.exp \in Nat
           /\ fetch.data # None => fetch.data.sid \in Request /\ fetch.data.exp \in Nat
           /\ fetch.left \in Nat /\ fetch.prevSeq \in Nat /\ lastSequence \in Nat
           /\ fetch.stage \in {"sleeping", "asking", "answered"}
           /\ \A s \in Request : /\ sinceRelease[s] \in Int /\ sinceRelease[s] >= -1
                                 /\ sinceRelease[s] <= ReleaseLag + 1
                                 /\ sinceRelease[s] # Held => sinceRelease[s] >= 0
<1>1. \A s \in Request : sinceRelease[s] \in -1 .. ReleaseLag + 1
    BY DEF TypeInv, TypeOK
<1>2. ReleaseLag \in Nat
    BY ReceiverAssumption DEF ReleaseLag
<1>3. lease[Me] # None => /\ lease[Me] \in Session /\ lease[Me].sid \in Request
                          /\ lease[Me].px \in 1 .. LeaseTTL /\ lease[Me].exp \in Nat
    BY TeleopAssumption, LeaseAssumption DEF TypeInv, TypeOK, StoreTypeOK, Session
<1>4. /\ session # None => session.sid \in Request /\ session.exp \in Nat
      /\ fetch.data # None => fetch.data.sid \in Request /\ fetch.data.exp \in Nat
      /\ fetch.left \in Nat /\ fetch.prevSeq \in Nat /\ lastSequence \in Nat
      /\ fetch.stage \in {"sleeping", "asking", "answered"}
    BY DEF TypeInv, TypeOK, ReceiverTypeOK, Copy, Fetch
<1> QED BY <1>1, <1>2, <1>3, <1>4 DEF Held

LEMMA TrustInit ==
    Init => TrustInv
<1> SUFFICES ASSUME Init PROVE TrustInv
    OBVIOUS
<1>1. Me \in Vehicle /\ RefreshInterval \in Nat
    BY TeleopAssumption, ReceiverAssumption
<1>2. fetch.stage = "sleeping" /\ fetch.left = 0 /\ fetch.data = None
    BY AsleepType DEF Init, ReceiverInit
<1>3. LeaseFacts
    BY <1>1 DEF Init, StoreInit, LeaseFacts
<1>4. Polling /\ Trust
    BY <1>1, <1>2 DEF Init, ReceiverInit, Polling, Trust, Covered, Recent
<1> QED BY <1>3, <1>4, TypeInit DEF TrustInv

\* A free vehicle is given to a session: nothing the vehicle trusts depended on the lease.
LEMMA GrantTrust ==
    ASSUME TrustInv, TypeInv', NEW s \in Request, NEW o \in Operator, NEW e \in ExpiresIn,
           Grant(s, o, e)
    PROVE  TrustInv'
<1> DEFINE new == [sid |-> s, op |-> o, exp |-> e, px |-> LeaseTTL]
<1>1. e \in 0 .. LeaseTTL /\ LeaseTTL \in 1 .. LeaseTTL /\ LeaseTTL \in Nat /\ Me \in Vehicle
    BY LeaseAssumption, TeleopAssumption
<1>2. lease[Me] = None /\ s \notin granted
    BY DEF Grant, AcquireReply
<1>3. lease'[Me] = new /\ granted' = granted \cup {s}
    BY <1>1 DEF Grant, AcquireScript, TrustInv, TypeInv, TypeOK, StoreTypeOK
<1>4. UNCHANGED <<session, lastSequence, fetch, sent, sinceRelease>>
    BY DEF Grant, receiverVars, networkVars, historyVars
<1>5. new.sid = s /\ new.exp = e /\ new.px = LeaseTTL
    OBVIOUS
<1> HIDE DEF new
<1>6. LeaseFacts'
    BY <1>1, <1>2, <1>3, <1>4, <1>5 DEF TrustInv, LeaseFacts
<1>7. Polling'
    BY <1>4 DEF TrustInv, Polling
<1>8. Trust'
    BY <1>2, <1>4 DEF TrustInv, Trust, Covered, Recent, Controls
<1> QED BY <1>6, <1>7, <1>8 DEF TrustInv

\* A renewal keeps the session and gives the lease its full life again.
LEMMA RenewTrust ==
    ASSUME TrustInv, TypeInv', NEW s \in Request, NEW o \in Operator, NEW e \in ExpiresIn,
           Renew(s, o, e)
    PROVE  TrustInv'
<1> DEFINE new == [lease[Me] EXCEPT !.exp = e, !.px = LeaseTTL]
<1>1. e \in 0 .. LeaseTTL /\ LeaseTTL \in Nat /\ Me \in Vehicle
    BY LeaseAssumption, TeleopAssumption
<1>2. lease[Me] # None /\ lease[Me] \in Session /\ lease[Me].sid = s /\ lease[Me].px \in 1 .. LeaseTTL
    BY Typed DEF Renew, RenewReply, Mine, TrustInv
<1>3. lease'[Me] = new
    BY <1>1 DEF Renew, RenewScript, TrustInv, TypeInv, TypeOK, StoreTypeOK
<1>4. new.sid = s /\ new.exp = e /\ new.px = LeaseTTL
    BY <1>2 DEF Session
<1>5. new \in Session /\ new # None
    <2>1. LeaseTTL \in 1 .. LeaseTTL
        BY LeaseAssumption
    <2> QED BY <1>1, <1>2, <2>1, NoneAssumption DEF Session
<1> HIDE DEF new
<1>6. UNCHANGED <<granted, session, lastSequence, fetch, sent, sinceRelease>>
    BY DEF Renew, RenewScript, receiverVars, networkVars, historyVars
<1>7. LeaseFacts' /\ Polling'
    BY <1>1, <1>2, <1>3, <1>4, <1>6 DEF TrustInv, LeaseFacts, Polling
<1>8. ASSUME NEW c, Covered(c), c # None => c.exp \in Nat
      PROVE  c # None /\ c.exp > 0 => \/ Controls(c.sid)' /\ c.exp <= lease'[Me].px
                                      \/ sinceRelease'[c.sid] # Held
    BY <1>1, <1>2, <1>3, <1>4, <1>5, <1>6, <1>8 DEF Covered, Controls
<1>9. Covered(session)' /\ Covered(fetch.data)'
    BY <1>6, <1>8, Typed DEF TrustInv, Trust, Covered
<1> QED BY <1>6, <1>7, <1>9 DEF TrustInv, Trust, Recent

\* From its release on, a session is on the vehicle's clock: the refresh that is due.
LEMMA ReleaseTrust ==
    ASSUME TrustInv, TypeInv', NEW s \in Request, NEW o \in Operator, Release(s, o)
    PROVE  TrustInv'
<1>1. lease[Me] # None /\ lease[Me].sid = s /\ s \in granted
    BY DEF Release, ReleaseReply, Mine, TrustInv, LeaseFacts
<1>2. lease'[Me] = None
    BY TeleopAssumption DEF Release, ReleaseScript, TrustInv, TypeInv, TypeOK, StoreTypeOK
<1>3. \A q \in Request : sinceRelease'[q] = IF q = s THEN 0 ELSE sinceRelease[q]
    BY DEF Release, TrustInv, TypeInv, TypeOK
<1>4. UNCHANGED <<granted, session, lastSequence, fetch, sent>>
    BY DEF Release, ReleaseScript, receiverVars, networkVars
<1>5. LeaseFacts' /\ Polling'
    BY <1>1, <1>2, <1>3, <1>4 DEF TrustInv, LeaseFacts, Polling
<1>6. Covered(session)' /\ Covered(fetch.data)'
    BY <1>1, <1>3, <1>4, Typed DEF TrustInv, Trust, Covered, Controls, Held
<1>7. /\ session # None => fetch.left <= ReleaseLag
      /\ fetch.data # None => fetch.left <= HttpTimeout
    BY Typed, ReceiverAssumption DEF TrustInv, Polling, ReleaseLag
<1>8. Recent(session, ReleaseLag)' /\ Recent(fetch.data, HttpTimeout)'
    BY <1>3, <1>4, <1>7, Typed DEF TrustInv, Trust, Recent
<1> QED BY <1>5, <1>6, <1>8 DEF TrustInv, Trust

LEMMA SendTrust ==
    ASSUME TrustInv, TypeInv', NEW s \in Request, NEW age \in SendAge, Send(s, age)
    PROVE  TrustInv'
<1>1. UNCHANGED <<lease, granted, session, fetch, sinceRelease>>
    BY DEF Send, storeVars, receiverVars, historyVars
<1>2. s \in granted /\ \A q \in Request : q # s => sent'[q] = sent[q]
    BY DEF Send, TrustInv, TypeInv, TypeOK
<1> QED BY <1>1, <1>2 DEF TrustInv, LeaseFacts, Polling, Trust, Covered, Recent, Controls

\* A packet changes whom the vehicle trusts only if it finds the session expired.
LEMMA DeliverTrust ==
    ASSUME TrustInv, TypeInv', NEW p, Deliver(p)
    PROVE  TrustInv'
<1>1. UNCHANGED <<lease, granted, sent, fetch, sinceRelease>> /\ session' \in {session, None}
    BY DEF Deliver, Receive, ClearSession, storeVars, networkVars
<1> QED BY <1>1 DEF TrustInv, LeaseFacts, Polling, Trust, Covered, Recent, Controls
LEMMA VehicleTrust ==
    ASSUME TrustInv, TypeInv', VehicleStep
    PROVE  TrustInv'
<1>0. HttpTimeout \in Nat /\ RefreshInterval \in Nat
    BY ReceiverAssumption
<1>1. UNCHANGED <<lease, granted, sent, sinceRelease>>
    BY DEF VehicleStep, Quietly, storeVars, networkVars, historyVars
<1>2. LeaseFacts'
    BY <1>1 DEF TrustInv, LeaseFacts
<1>3. CASE RefreshStart
    <2>1. /\ fetch'.stage = "asking" /\ fetch'.left = HttpTimeout /\ fetch'.data = None
          /\ session' = None
        BY <1>3 DEF RefreshStart, ClearSession
    <2> QED BY <1>0, <1>2, <2>1 DEF TrustInv, Polling, Trust, Covered, Recent
<1>4. CASE Lookup
    <2> DEFINE c == [sid |-> lease[Me].sid, exp |-> lease[Me].exp]
    <2>1. /\ fetch.stage = "asking" /\ session' = session /\ session = None
          /\ fetch'.stage = "answered" /\ fetch'.left = fetch.left
          /\ fetch'.data = IF lease[Me] = None THEN None ELSE c
        BY <1>4 DEF Lookup, GatewayAnswers, TrustInv, Polling, TypeInv, TypeOK, ReceiverTypeOK, Fetch
    <2>2. c.sid = lease[Me].sid /\ c.exp = lease[Me].exp
        OBVIOUS
    <2> HIDE DEF c
    <2>3. Covered(fetch.data)' /\ Recent(fetch.data, HttpTimeout)'
        BY <1>1, <2>1, <2>2, Typed DEF TrustInv, LeaseFacts, Covered, Recent, Controls
    <2>4. Covered(session)' /\ Recent(session, ReleaseLag)' /\ Polling'
        BY <2>1 DEF TrustInv, Polling, Covered, Recent
    <2> QED BY <1>2, <2>3, <2>4 DEF TrustInv, Trust
<1>5. CASE RefreshDone
    <2>1. /\ fetch'.stage = "sleeping" /\ fetch'.left = RefreshInterval /\ fetch'.data = None
          /\ session' = fetch.data /\ fetch.stage = "answered"
        BY <1>0, <1>5, AsleepType DEF RefreshDone
    <2>2. Covered(session)'
        BY <1>1, <2>1 DEF TrustInv, Trust, Covered, Controls
    <2>3. Recent(session, ReleaseLag)'
        BY <1>0, <1>1, <2>1, Typed DEF TrustInv, Trust, Recent, ReleaseLag
    <2> QED BY <1>0, <1>2, <2>1, <2>2, <2>3 DEF TrustInv, Polling, Trust, Covered, Recent
<1>6. CASE RefreshFails
    <2>1. /\ fetch'.stage = "sleeping" /\ fetch'.left = RefreshInterval /\ fetch'.data = None
          /\ session' = None
        BY <1>0, <1>6, AsleepType DEF RefreshFails, TrustInv, Polling
    <2> QED BY <1>0, <1>2, <2>1 DEF TrustInv, Polling, Trust, Covered, Recent
<1> QED BY <1>3, <1>4, <1>5, <1>6 DEF VehicleStep, Quietly

\* A lease that has more than one unit left survives the tick.
LEMMA LeaseStays ==
    ASSUME StoreTypeOK, StoreTick, NEW v \in Vehicle, lease[v] # None, lease[v].px > 1
    PROVE  lease'[v] # None
<1> DEFINE key == [lease[v] EXCEPT !.px = lease[v].px - 1]
           e == Elapse(lease[v].exp)
<1>1. lease[v] \in Session /\ lease[v].px # 1 /\ lease[v].px # NoTTL /\ lease[v].exp \in 0 .. LeaseTTL
    BY LeaseAssumption DEF StoreTypeOK, Session, NoTTL
<1>2. Age(lease[v]) = key
    BY <1>1 DEF Age
<1>3. lease[v].px - 1 \in 1 .. LeaseTTL /\ e \in 0 .. LeaseTTL
    BY <1>1, LeaseAssumption DEF Session, Elapse
<1>4. key \in Session /\ key # None /\ key.exp = lease[v].exp
    BY <1>1, <1>3, NoneAssumption DEF Session
<1>5. lease'[v] = [key EXCEPT !.exp = e]
    BY <1>2, <1>4 DEF StoreTick
<1> HIDE DEF key, e
<1>6. lease'[v] \in Session
    BY <1>3, <1>4, <1>5 DEF Session
<1> QED BY <1>6, NoneAssumption

\* Time passes for the lease, the copies and the timer alike.
LEMMA TickTrust ==
    ASSUME TrustInv, TypeInv', Tick
    PROVE  TrustInv'
<1>0. Me \in Vehicle /\ StoreTypeOK /\ StoreTick /\ ReleaseLag \in Nat
    BY TeleopAssumption, ReceiverAssumption DEF Tick, TrustInv, TypeInv, TypeOK, ReleaseLag
<1>1. lease'[Me] # None => /\ lease[Me] # None /\ lease[Me].px > 1
                           /\ lease'[Me].sid = lease[Me].sid /\ lease'[Me].px = lease[Me].px - 1
                           /\ lease'[Me].exp = Elapse(lease[Me].exp)
    BY <1>0, TickTypes
<1>2. lease[Me] # None /\ lease[Me].px > 1 => lease'[Me] # None
    BY <1>0, LeaseStays
<1>3. \A s \in Request : /\ sinceRelease[s] = Held <=> sinceRelease'[s] = Held
                         /\ sinceRelease'[s] <= sinceRelease[s] + 1
    BY <1>0, Typed DEF Tick, TrustInv, TypeInv, TypeOK, Held
<1>4. /\ fetch.left > 0 /\ fetch'.left = fetch.left - 1 /\ fetch'.stage = fetch.stage
      /\ session' = ElapseCopy(session) /\ fetch'.data = ElapseCopy(fetch.data)
    BY DEF Tick, ReceiverTick, TrustInv, TypeInv, TypeOK, ReceiverTypeOK, Fetch
<1>5. UNCHANGED <<granted, sent>>
    BY DEF Tick, StoreTick
<1>6. LeaseFacts'
    <2>1. \A s \in Request : s \notin granted' => sent'[s] = 0 /\ sinceRelease'[s] = Held
        BY <1>3, <1>5 DEF TrustInv, LeaseFacts
    <2>2. lease'[Me] # None => lease'[Me].exp <= lease'[Me].px
        BY <1>1, Typed DEF TrustInv, LeaseFacts, Elapse
    <2> QED BY <1>1, <1>3, <1>5, <2>1, <2>2, Typed DEF TrustInv, LeaseFacts
<1>7. Polling'
    BY <1>4, Typed, ReceiverAssumption DEF TrustInv, Polling, ElapseCopy
<1>8. ASSUME NEW c \in Copy \cup {None}, Covered(c), ElapseCopy(c) # None, ElapseCopy(c).exp > 0
      PROVE  \/ Controls(ElapseCopy(c).sid)' /\ ElapseCopy(c).exp <= lease'[Me].px
             \/ sinceRelease'[ElapseCopy(c).sid] # Held
    <2>1. /\ c # None /\ c.sid \in Request /\ c.exp \in Nat /\ c.exp > 1
          /\ ElapseCopy(c).sid = c.sid /\ ElapseCopy(c).exp = c.exp - 1
        BY <1>8 DEF Copy, ElapseCopy, Elapse
    <2> QED BY <1>1, <1>2, <1>3, <1>8, <2>1, Typed DEF TrustInv, Covered, Controls
<1>9. ASSUME NEW c \in Copy \cup {None}, NEW lag \in Nat, Recent(c, lag), ElapseCopy(c) # None
      PROVE  LET s == ElapseCopy(c).sid IN
             sinceRelease'[s] = Held \/ sinceRelease'[s] + fetch'.left <= lag
    <2>1. c # None /\ c.sid \in Request /\ ElapseCopy(c).sid = c.sid
        BY <1>9 DEF Copy, ElapseCopy
    <2>2. sinceRelease'[c.sid] \in Int
        BY <2>1 DEF TypeInv, TypeOK
    <2> QED BY <1>3, <1>4, <1>9, <2>1, <2>2, Typed DEF TrustInv, Recent
<1>10. session \in Copy \cup {None} /\ fetch.data \in Copy \cup {None} /\ HttpTimeout \in Nat
    BY ReceiverAssumption DEF TrustInv, TypeInv, TypeOK, ReceiverTypeOK, Fetch
<1>11. Covered(session)' /\ Covered(fetch.data)'
    BY <1>4, <1>8, <1>10 DEF TrustInv, Trust, Covered
<1>12. Recent(session, ReleaseLag)' /\ Recent(fetch.data, HttpTimeout)'
    BY <1>0, <1>4, <1>9, <1>10 DEF TrustInv, Trust, Recent
<1> QED BY <1>6, <1>7, <1>11, <1>12 DEF TrustInv, Trust

LEMMA TrustNext ==
    TrustInv /\ [Next]_vars => TrustInv'
<1> SUFFICES ASSUME TrustInv, [Next]_vars PROVE TrustInv'
    OBVIOUS
<1>1. TypeInv'
    BY TypeNext DEF TrustInv
<1>2. CASE UNCHANGED vars
    BY <1>1, <1>2 DEF vars, storeVars, receiverVars, networkVars, historyVars,
                      TrustInv, LeaseFacts, Polling, Trust, Covered, Recent, Controls
<1> QED BY <1>1, <1>2, GrantTrust, RenewTrust, ReleaseTrust, SendTrust, DeliverTrust,
           VehicleTrust, TickTrust DEF Next

LEMMA TrustInvariant ==
    Spec => []TrustInv
BY TrustInit, TrustNext, PTL DEF Spec

\* The vehicle executes a command only when a packet arrives, of the session it trusts.
LEMMA OnlyPackets ==
    ASSUME TrustInv, [Next]_vars, Applying
    PROVE  /\ session # None /\ session.sid \in Request /\ session.exp > 0
           /\ \E p \in net : /\ p.sid = session.sid /\ Acceptable(p) /\ lastSequence' = p.seq
                              /\ Deliver(p)
<1>1. session # None /\ lastSequence' # lastSequence /\ session' = session
    BY DEF Applying
<1>2. fetch.stage = "sleeping"
    BY <1>1, Typed DEF TrustInv, Polling
<1>3. ASSUME NEW s \in Request, NEW o \in Operator,
             \/ \E e \in ExpiresIn : Grant(s, o, e) \/ Renew(s, o, e)
             \/ Release(s, o)
      PROVE  FALSE
    BY <1>1, <1>3 DEF Grant, Renew, Release, receiverVars
<1>4. ~VehicleStep
    BY <1>1, <1>2 DEF VehicleStep, Quietly, RefreshStart, ClearSession, Lookup, GatewayAnswers,
                      RefreshDone, RefreshFails
<1>5. ~Tick /\ ~UNCHANGED vars
    BY <1>1 DEF Tick, ReceiverTick, vars, receiverVars
<1>6. ~\E s \in Request, age \in SendAge : Send(s, age)
    BY <1>1 DEF Send, receiverVars
<1>7. PICK p \in net \cup {Forged(s) : s \in granted} : Deliver(p)
    BY <1>3, <1>4, <1>5, <1>6 DEF Next
<1>8. session.exp > 0 /\ p.sid = session.sid /\ Acceptable(p) /\ lastSequence' = p.seq
    BY <1>1, <1>7 DEF Deliver, Receive, ClearSession
<1>9. p \in net
    BY <1>8, ForgedRefused DEF Acceptable, TrustInv
<1> QED BY <1>1, <1>7, <1>8, <1>9, Typed DEF TrustInv

\* A session whose lease ran out moves the vehicle no more: verify_packet compares a copy of
\* expires_at, and the copy is never later than the lease that Redis keeps.
THEOREM ExpiredIsPowerless ==
    Spec => ExpiredNeverControls
<1>1. TrustInv /\ [Next]_vars =>
          [Applying => Controls(session.sid) \/ sinceRelease[session.sid] # Held]_vars
    BY OnlyPackets DEF TrustInv, Trust, Covered
<1> QED BY <1>1, TrustInvariant, PTL DEF Spec, ExpiredNeverControls

\* A released session is obeyed for one refresh interval and one timeout at most, also when
\* the answer that named it was under way while it was released.
THEOREM ReleaseBound ==
    Spec => ReleaseTakesEffect
<1>1. TrustInv /\ [Next]_vars => [Applying => sinceRelease[session.sid] <= ReleaseLag]_vars
    <2> SUFFICES ASSUME TrustInv, [Next]_vars, Applying PROVE sinceRelease[session.sid] <= ReleaseLag
        OBVIOUS
    <2>1. session # None /\ session.sid \in Request /\ ReleaseLag \in Nat
        BY OnlyPackets, ReceiverAssumption DEF ReleaseLag
    <2> QED BY <2>1, Typed DEF TrustInv, Trust, Recent, Held
<1> QED BY <1>1, TrustInvariant, PTL DEF Spec, ReleaseTakesEffect

-----------------------------------------------------------------------------
(* What the vehicle has applied before.                                    *)

LEMMA Counted ==
    ASSUME TypeInv
    PROVE  /\ \A s \in Request : highest[s] \in Nat /\ sent[s] \in Nat /\ highest[s] <= sent[s]
           /\ \A p \in net : /\ p.sid \in Request /\ p.seq \in Nat /\ p.seq >= 1
                             /\ p.age \in Int /\ p.age >= -MaxSkew
BY ReceiverAssumption DEF TypeInv, TypeOK, Flight, Packet

LEMMA NothingApplied ==
    ASSUME TypeInv, NEW s \in Request, highest[s] = 0, NEW t
    PROVE  Outdated(s, t)
BY Counted DEF Outdated

LEMMA MemoryInit ==
    Init => MemoryInv
<1> SUFFICES ASSUME Init PROVE MemoryInv
    OBVIOUS
<1>1. TrustInv
    BY TrustInit
<1>2. session = None /\ fetch.stage = "sleeping" /\ lease[Me] = None
    BY AsleepType, TeleopAssumption DEF Init, ReceiverInit, StoreInit
<1>3. \A s \in Request : ~Controls(s)
    BY <1>2 DEF Controls
<1> QED BY <1>1, <1>2, <1>3 DEF MemoryInv, Memory, Remembers, Successor, Names

\* Who holds the lease changes, if at all, to nobody or to a session that is new.
LEMMA GatewayMemory ==
    ASSUME MemoryInv, TrustInv',
           UNCHANGED <<receiverVars, networkVars, highest, lapsed>>,
           \A s \in Request : Controls(s)' => Controls(s) \/ highest[s] = 0
    PROVE  Memory'
<1>1. UNCHANGED <<session, lastSequence, fetch, net, highest, lapsed>>
    BY DEF receiverVars, networkVars
<1>2. ASSUME NEW s \in Request \ lapsed PROVE Remembers(s)'
    <2>1. Remembers(s)
        BY <1>2 DEF MemoryInv, Memory
    <2>2. \A t : Outdated(s, t)' <=> Outdated(s, t)
        BY <1>1 DEF Outdated
    <2>3. highest[s] = 0 => Outdated(s, 0) /\ Outdated(s, fetch.left)
        BY <1>2, NothingApplied DEF MemoryInv, TrustInv
    <2>4. Outdated(s, fetch.left)' <=> Outdated(s, fetch.left)
        BY <1>1 DEF Outdated
    <2> QED BY <1>1, <1>2, <2>1, <2>2, <2>3, <2>4 DEF Remembers, Names
<1>3. \A s \in Request : Successor(s)'
    BY <1>1 DEF MemoryInv, Memory, Successor
<1> QED BY <1>1, <1>2, <1>3 DEF Memory

LEMMA GrantMemory ==
    ASSUME MemoryInv, TrustInv', NEW s \in Request, NEW o \in Operator, NEW e \in ExpiresIn,
           Grant(s, o, e) \/ Renew(s, o, e)
    PROVE  Memory'
<1>1. UNCHANGED <<receiverVars, networkVars, highest, lapsed>>
    BY DEF Grant, Renew, historyVars
<1>2. Me \in Vehicle /\ lease \in [Vehicle -> Session \cup {None}]
    BY TeleopAssumption DEF MemoryInv, TrustInv, TypeInv, TypeOK, StoreTypeOK
<1>3. CASE Grant(s, o, e)
    <2>1. s \notin granted /\ lease'[Me].sid = s
        BY <1>2, <1>3 DEF Grant, AcquireScript
    <2>2. highest[s] = 0
        BY <2>1, Counted DEF MemoryInv, TrustInv, LeaseFacts
    <2> QED BY <1>1, <2>1, <2>2, GatewayMemory DEF Controls
<1>4. CASE Renew(s, o, e)
    <2>1. lease'[Me].sid = lease[Me].sid /\ lease[Me] # None
        BY <1>2, <1>4 DEF Renew, RenewReply, Mine, RenewScript, Session
    <2> QED BY <1>1, <2>1, GatewayMemory DEF Controls
<1> QED BY <1>3, <1>4

LEMMA ReleaseMemory ==
    ASSUME MemoryInv, TrustInv', NEW s \in Request, NEW o \in Operator, Release(s, o)
    PROVE  Memory'
<1>1. UNCHANGED <<receiverVars, networkVars, highest, lapsed>>
    BY DEF Release
<1>2. lease'[Me] = None
    BY TeleopAssumption
        DEF Release, ReleaseScript, MemoryInv, TrustInv, TypeInv, TypeOK, StoreTypeOK
<1> QED BY <1>1, <1>2, GatewayMemory DEF Controls

\* What is signed now comes after all that was applied.
LEMMA SendMemory ==
    ASSUME MemoryInv, TrustInv', NEW s \in Request, NEW age \in SendAge, Send(s, age)
    PROVE  Memory'
<1>1. UNCHANGED <<lease, session, lastSequence, fetch, highest, lapsed>>
    BY DEF Send, storeVars, receiverVars, historyVars
<1>2. ASSUME NEW r \in Request, NEW t, Outdated(r, t) PROVE Outdated(r, t)'
    <2> SUFFICES ASSUME NEW p \in net', p.sid = r, p.seq <= highest[r]
                 PROVE  p.age + t > MaxAge
        BY <1>1 DEF Outdated
    <2>1. CASE p \in net
        BY <1>2, <2>1 DEF Outdated
    <2>2. CASE p = [sid |-> s, seq |-> sent[s] + 1, age |-> age, good |-> TRUE]
        BY <2>2, Counted DEF MemoryInv, TrustInv
    <2> QED BY <2>1, <2>2 DEF Send
<1>3. ASSUME NEW r \in Request \ lapsed PROVE Remembers(r)'
    <2>1. Remembers(r)
        BY <1>3 DEF MemoryInv, Memory
    <2>2. Outdated(r, fetch.left) => Outdated(r, fetch.left)'
        BY <1>1, <1>2 DEF Outdated
    <2>3. Outdated(r, 0) => Outdated(r, 0)'
        BY <1>2
    <2> QED BY <1>1, <2>1, <2>2, <2>3 DEF Remembers, Names, Controls
<1>4. \A r \in Request : Successor(r)'
    BY <1>1 DEF MemoryInv, Memory, Successor, Controls
<1> QED BY <1>1, <1>3, <1>4 DEF Memory

\* A packet that is accepted in a session that never lapsed goes beyond all before it.
LEMMA AcceptedIsNew ==
    ASSUME MemoryInv, NEW p \in net, session # None, p.sid = session.sid, Acceptable(p),
           p.sid \notin lapsed
    PROVE  p.seq > highest[p.sid]
<1>1. p.sid \in Request /\ Remembers(p.sid)
    BY Counted DEF MemoryInv, TrustInv, Memory
<1>2. /\ p.seq \in Nat /\ p.age \in Int /\ highest[p.sid] \in Nat /\ lastSequence \in Nat
      /\ MaxAge \in Nat
    BY <1>1, Counted, Typed, ReceiverAssumption DEF MemoryInv, TrustInv
<1> QED BY <1>1, <1>2 DEF Remembers, Names, Outdated, Acceptable, Fresh

LEMMA DeliverMemory ==
    ASSUME MemoryInv, TrustInv', NEW p \in net \cup {Forged(s) : s \in granted}, Deliver(p)
    PROVE  Memory'
<1>1. /\ UNCHANGED <<lease, fetch, net>> /\ session # None /\ p.sid = session.sid
      /\ fetch.stage = "sleeping" /\ fetch.data = None
      /\ lapsed \subseteq lapsed'
    BY Typed DEF Deliver, Receive, ClearSession, storeVars, networkVars, MemoryInv, TrustInv, Polling
<1>2. p.sid \in Request /\ p.seq \in Nat /\ (p.good => p \in net)
    BY ForgedRefused DEF MemoryInv, TrustInv
<1>3. \A s \in Request : highest[s] \in Nat
    BY Counted DEF MemoryInv, TrustInv
<1>4. CASE session.exp = 0
    <2>1. session' = None /\ p.sid \in lapsed'
        BY <1>4, Typed DEF Deliver, Receive, ClearSession, MemoryInv, TrustInv
    <2>2. highest' = highest
        BY <2>1, <1>1 DEF Deliver, Applying
    <2>3. ASSUME NEW s \in Request \ lapsed' PROVE Remembers(s)'
        <3>1. s # session.sid
            BY <1>1, <2>1, <2>3
        <3>2. Controls(s) => Outdated(s, fetch.left)
            BY <1>1, <2>3, <3>1, NothingApplied DEF MemoryInv, Memory, Successor, TrustInv
        <3> QED BY <1>1, <2>1, <2>2, <3>2 DEF Remembers, Names, Controls, Outdated
    <2> QED BY <1>1, <2>1, <2>2, <2>3 DEF MemoryInv, Memory, Successor, Controls
<1>5. CASE session.exp # 0
    <2>1. /\ session' = session /\ lastSequence' = p.seq /\ Acceptable(p) /\ p \in net
          /\ lapsed' = lapsed /\ lastSequence' # lastSequence
        BY <1>2, <1>5, Typed DEF Deliver, Receive, Acceptable, MemoryInv, TrustInv
    <2>2. \A s \in Request : s # p.sid => highest'[s] = highest[s]
        BY <1>2 DEF Deliver, MemoryInv, TrustInv, TypeInv, TypeOK
    <2>3. p.sid \notin lapsed => highest'[p.sid] = p.seq
        BY <1>1, <1>2, <2>1, AcceptedIsNew
            DEF Deliver, Applying, MemoryInv, TrustInv, TypeInv, TypeOK
    <2>4. ASSUME NEW s \in Request \ lapsed' PROVE Remembers(s)'
        BY <1>1, <1>2, <2>1, <2>3, <2>4 DEF Remembers, Names
    <2>5. \A s \in Request : Successor(s)'
        BY <1>1, <2>1, <2>2 DEF MemoryInv, Memory, Successor, Controls
    <2> QED BY <2>4, <2>5 DEF Memory
<1> QED BY <1>4, <1>5

\* What a refresh that fails forgets is outdated when the next one begins: a packet is
\* fresh for max_age_ms and max_future_skew_ms, less than the sleep between two refreshes.
LEMMA VehicleMemory ==
    ASSUME MaxAge + MaxSkew < RefreshInterval, MemoryInv, TrustInv', VehicleStep
    PROVE  Memory'
<1>0. HttpTimeout \in Nat /\ RefreshInterval \in Nat /\ MaxAge \in Nat /\ MaxSkew \in Nat
    BY ReceiverAssumption
<1>1. UNCHANGED <<lease, net, highest, lapsed>>
    BY DEF VehicleStep, Quietly, storeVars, networkVars, historyVars
<1>2. ASSUME NEW s \in Request
      PROVE  /\ \A t : Outdated(s, t)' <=> Outdated(s, t)
             /\ Controls(s)' <=> Controls(s)
             /\ Successor(s)
             /\ highest[s] \in Nat
    BY <1>1, Counted DEF Outdated, Controls, MemoryInv, Memory, TrustInv
<1>3. \A s \in Request : Outdated(s, RefreshInterval)
    BY <1>0, Counted DEF Outdated, MemoryInv, TrustInv
<1>4. CASE RefreshStart
    <2>1. /\ fetch.stage = "sleeping" /\ fetch.left = 0 /\ fetch.data = None
          /\ fetch'.stage = "asking" /\ fetch'.data = None /\ session' = None
          /\ fetch'.prev = (IF session = None THEN None ELSE session.sid)
          /\ fetch'.prevSeq = lastSequence
        BY <1>4 DEF RefreshStart, ClearSession, MemoryInv, TrustInv, Polling
    <2>2. ASSUME NEW s \in Request \ lapsed, Controls(s)
          PROVE  \/ fetch'.prev = s /\ fetch'.prevSeq >= highest[s]
                 \/ Outdated(s, 0)
        <3>1. Remembers(s)
            BY <2>2 DEF MemoryInv, Memory
        <3>2. session # None /\ session.sid # s => Outdated(s, 0)
            BY <1>2, <2>2, NothingApplied DEF Successor, MemoryInv, TrustInv
        <3> QED BY <2>1, <2>2, <3>1, <3>2 DEF Remembers, Names
    <2>3. ASSUME NEW s \in Request \ lapsed PROVE Remembers(s)'
        BY <1>1, <1>2, <2>1, <2>2, <2>3 DEF Remembers, Names
    <2> QED BY <1>1, <2>1, <2>3 DEF Memory, Successor
<1>5. CASE Lookup
    <2>1. /\ fetch.stage = "asking" /\ session' = session /\ session = None
          /\ fetch'.stage = "answered" /\ fetch'.prev = fetch.prev /\ fetch'.prevSeq = fetch.prevSeq
          /\ fetch'.data # None => lease[Me] # None /\ fetch'.data.sid = lease[Me].sid
        BY <1>5 DEF Lookup, GatewayAnswers, MemoryInv, TrustInv, Polling,
                    TypeInv, TypeOK, ReceiverTypeOK, Fetch
    <2>2. ASSUME NEW s \in Request \ lapsed PROVE Remembers(s)'
        <3>1. Remembers(s) /\ (Names(fetch.data, s)' => Controls(s))
            BY <2>1, <2>2 DEF MemoryInv, Memory, Names, Controls
        <3> QED BY <1>1, <1>2, <2>1, <2>2, <3>1 DEF Remembers, Names
    <2>3. \A s \in Request : Successor(s)'
        BY <1>1, <2>1 DEF Successor, Controls
    <2> QED BY <1>1, <2>2, <2>3 DEF Memory
<1>6. CASE RefreshDone
    <2>1. /\ fetch'.stage = "sleeping" /\ fetch'.left = RefreshInterval /\ fetch'.data = None
          /\ session' = fetch.data /\ fetch.stage = "answered"
          /\ lastSequence' = IF fetch.data # None /\ fetch.data.sid = fetch.prev
                             THEN fetch.prevSeq ELSE 0
        BY <1>0, <1>6, AsleepType DEF RefreshDone
    <2>2. ASSUME NEW s \in Request \ lapsed PROVE Remembers(s)'
        <3>1. Remembers(s)
            BY <2>2 DEF MemoryInv, Memory
        <3>2. Outdated(s, fetch.left)'
            BY <1>1, <1>3, <2>1, <2>2 DEF Outdated
        <3> QED BY <1>1, <1>2, <2>1, <2>2, <3>1, <3>2 DEF Remembers, Names
    <2>3. \A s \in Request : Successor(s)'
        BY <1>1, <1>2, <2>1 DEF Successor
    <2> QED BY <1>1, <2>2, <2>3 DEF Memory
<1>7. CASE RefreshFails
    <2>1. /\ fetch'.stage = "sleeping" /\ fetch'.left = RefreshInterval /\ fetch'.data = None
          /\ session' = None
        BY <1>0, <1>7, AsleepType DEF RefreshFails, MemoryInv, TrustInv, Polling
    <2>2. ASSUME NEW s \in Request \ lapsed PROVE Remembers(s)'
        BY <1>2, <1>3, <2>1, <2>2 DEF Remembers, Names
    <2> QED BY <1>1, <2>1, <2>2 DEF Memory, Successor
<1> QED BY <1>4, <1>5, <1>6, <1>7 DEF VehicleStep, Quietly

LEMMA TickMemory ==
    ASSUME MemoryInv, TrustInv', Tick
    PROVE  Memory'
<1>1. /\ fetch.left > 0 /\ fetch'.left = fetch.left - 1 /\ fetch'.stage = fetch.stage
      /\ fetch'.prev = fetch.prev /\ fetch'.prevSeq = fetch.prevSeq
      /\ session' = ElapseCopy(session) /\ fetch'.data = ElapseCopy(fetch.data)
      /\ fetch.left \in Nat
    BY DEF Tick, ReceiverTick, MemoryInv, TrustInv, TypeInv, TypeOK, ReceiverTypeOK, Fetch
<1>2. UNCHANGED <<lastSequence, highest, lapsed>>
    BY DEF Tick, ReceiverTick
<1>3. /\ session' # None <=> session # None
      /\ session # None => session'.sid = session.sid
      /\ fetch'.data # None => fetch.data # None /\ fetch'.data.sid = fetch.data.sid
    <2>1. ASSUME NEW c \in Copy \cup {None}
          PROVE  /\ ElapseCopy(c) # None <=> c # None
                 /\ c # None => ElapseCopy(c).sid = c.sid
        <3>1. c # None => Elapse(c.exp) \in Nat
            BY <2>1 DEF Copy, Elapse
        <3>2. c # None => ElapseCopy(c) \in Copy /\ ElapseCopy(c).sid = c.sid
            BY <2>1, <3>1 DEF Copy, ElapseCopy
        <3> QED BY <3>2, CopyAssumption DEF ElapseCopy
    <2> QED BY <1>1, <2>1 DEF MemoryInv, TrustInv, TypeInv, TypeOK, ReceiverTypeOK, Fetch
<1>4. \A s \in Request : Controls(s)' => Controls(s)
    BY TickTypes, TeleopAssumption DEF Tick, Controls, MemoryInv, TrustInv, TypeInv, TypeOK
<1>5. ASSUME NEW s \in Request
      PROVE  /\ Outdated(s, 0) => Outdated(s, 0)'
             /\ Outdated(s, fetch.left) => Outdated(s, fetch.left)'
    <2>1. ASSUME NEW t \in Nat, NEW u \in Nat, t <= u + 1, Outdated(s, t), NEW p \in net',
                 p.sid = s, p.seq <= highest'[s]
          PROVE  p.age + u > MaxAge
        <3>1. PICK q \in net : p.sid = q.sid /\ p.seq = q.seq /\ p.age = q.age + 1
            BY TickNet DEF MemoryInv, TrustInv, TypeInv, TypeOK
        <3>2. q.age \in Int /\ MaxAge \in Nat
            BY Counted, ReceiverAssumption DEF MemoryInv, TrustInv
        <3> QED BY <1>2, <2>1, <3>1, <3>2 DEF Outdated
    <2>2. fetch.left - 1 \in Nat /\ fetch.left <= (fetch.left - 1) + 1 /\ 0 <= 0 + 1
        BY <1>1
    <2> QED BY <1>1, <2>1, <2>2 DEF Outdated
<1>6. ASSUME NEW s \in Request \ lapsed PROVE Remembers(s)'
    <2>1. Remembers(s)
        BY <1>6 DEF MemoryInv, Memory
    <2> QED BY <1>1, <1>2, <1>3, <1>4, <1>5, <1>6, <2>1 DEF Remembers, Names
<1>7. \A s \in Request : Successor(s)'
    BY <1>2, <1>3, <1>4 DEF MemoryInv, Memory, Successor
<1> QED BY <1>2, <1>6, <1>7 DEF Memory

LEMMA MemoryNext ==
    ASSUME MaxAge + MaxSkew < RefreshInterval
    PROVE  MemoryInv /\ [Next]_vars => MemoryInv'
<1> SUFFICES ASSUME MemoryInv, [Next]_vars PROVE MemoryInv'
    OBVIOUS
<1>1. TrustInv'
    BY TrustNext DEF MemoryInv
<1>2. CASE UNCHANGED vars
    <2>1. UNCHANGED <<receiverVars, networkVars, highest, lapsed, lease>>
        BY <1>2 DEF vars, historyVars, storeVars
    <2>2. Memory'
        BY <1>1, <2>1, GatewayMemory DEF Controls
    <2> QED BY <1>1, <2>2 DEF MemoryInv
<1>3. ASSUME Next PROVE Memory'
    BY <1>1, <1>3, GrantMemory, ReleaseMemory, SendMemory, DeliverMemory, VehicleMemory,
       TickMemory DEF Next
<1> QED BY <1>1, <1>2, <1>3 DEF MemoryInv

\* A session whose renewals reach the vehicle in time has no command applied twice and none
\* after a later one, however often refresh_session fails and forgets last_sequence: the
\* defaults (100 ms and 100 ms, against 1 s) make a packet outdated before the next refresh.
THEOREM NoReplay ==
    ASSUME MaxAge + MaxSkew < RefreshInterval
    PROVE  Spec => NoReplayUnlessLapsed
<1>1. MemoryInv /\ [Next]_vars =>
          [Applying => lastSequence' > highest[session.sid] \/ session.sid \in lapsed]_vars
    <2> SUFFICES ASSUME MemoryInv, [Next]_vars, Applying, session.sid \notin lapsed
                 PROVE  lastSequence' > highest[session.sid]
        OBVIOUS
    <2>1. PICK p \in net : p.sid = session.sid /\ Acceptable(p) /\ lastSequence' = p.seq
        BY OnlyPackets DEF MemoryInv
    <2>2. session # None
        BY DEF Applying
    <2> QED BY <2>1, <2>2, AcceptedIsNew
<1>2. MemoryInv /\ [Next]_vars => MemoryInv'
    BY MemoryNext
<1> QED BY <1>1, <1>2, MemoryInit, PTL DEF Spec, NoReplayUnlessLapsed
=============================================================================
