------------------------------- MODULE Teleop -------------------------------
(***************************************************************************)
(* One vehicle, its lease at the gateway, and the operators' packets.      *)
(*                                                                         *)
(* The lease changes by the scripts of ControlSession (Gateway shows that  *)
(* the handlers around them add nothing to what happens to the lease); the *)
(* vehicle learns of it by polling; packets travel through LiveKit, which  *)
(* may lose, delay, duplicate and reorder them.                            *)
(***************************************************************************)
EXTENDS ControlSession, VehicleReceiver

CONSTANTS Me,         \* this vehicle
          ExpiresIn,  \* expires_at a script may be given: time passes before it runs
          SendAge,    \* ages of a packet when it is sent: the sender's clock may be off
          MaxSeq      \* session -> bound on the packets an operator signs in it

ASSUME TeleopAssumption ==
    /\ Me \in Vehicle
    /\ ExpiresIn \subseteq 0 .. LeaseTTL
    /\ MaxSeq \in [Request -> Nat]
    /\ SendAge \subseteq -MaxSkew .. MaxAge

VARIABLES
    net,          \* packets that may still be delivered, any number of times
    sent,         \* session -> the last sequence signed in it
    highest,      \* history: session -> the highest sequence the vehicle applied
    sinceRelease, \* history: session -> time since its release (bounded), or Held
    lapsed        \* history: sessions a packet found expired at the vehicle

networkVars == <<net, sent>>
historyVars == <<highest, sinceRelease, lapsed>>
vars == <<storeVars, receiverVars, networkVars, historyVars>>

\* A released session is trusted for at most this long (ReleaseTakesEffect).
ReleaseLag == RefreshInterval + HttpTimeout
Held == -1

Init ==
    /\ StoreInit
    /\ ReceiverInit
    /\ net = {}
    /\ sent = [s \in Request |-> 0]
    /\ highest = [s \in Request |-> 0]
    /\ sinceRelease = [s \in Request |-> Held]
    /\ lapsed = {}

-----------------------------------------------------------------------------
(* The gateway.                                                            *)

Grant(s, o, e) ==
    /\ s \notin granted
    /\ AcquireReply(Me) = 1
    /\ AcquireScript(Me, s, o, e)
    /\ UNCHANGED <<receiverVars, networkVars, historyVars>>

Renew(s, o, e) ==
    /\ RenewReply(Me, s, o) = 1
    /\ RenewScript(Me, s, e)
    /\ UNCHANGED <<receiverVars, networkVars, historyVars>>

Release(s, o) ==
    /\ ReleaseReply(Me, s, o) = 1
    /\ ReleaseScript(Me, s)
    /\ sinceRelease' = [sinceRelease EXCEPT ![s] = 0]
    /\ UNCHANGED <<receiverVars, networkVars, highest, lapsed>>

-----------------------------------------------------------------------------
(* The operator and the network.                                           *)

\* SecureControlSender.sendCommand: the next sequence, signed and published.  A sender
\* goes on until it learns that its session ended.
Send(s, age) ==
    /\ s \in granted /\ sent[s] < MaxSeq[s]
    /\ sent' = [sent EXCEPT ![s] = @ + 1]
    /\ net' = net \cup {[sid |-> s, seq |-> sent[s] + 1, age |-> age, good |-> TRUE]}
    /\ UNCHANGED <<storeVars, receiverVars, historyVars>>

-----------------------------------------------------------------------------
(* The vehicle.                                                            *)

\* A packet of somebody else that names the session: its signature does not verify.
Forged(s) == [sid |-> s, seq |-> MaxSeq[s] + 1, age |-> 0, good |-> FALSE]

Deliver(p) ==
    /\ Receive(p)
    /\ highest' = IF Applying /\ p.seq > highest[p.sid]
                  THEN [highest EXCEPT ![p.sid] = p.seq] ELSE highest
    /\ lapsed' = IF session.exp = 0 THEN lapsed \cup {p.sid} ELSE lapsed
    /\ UNCHANGED <<storeVars, networkVars, sinceRelease>>

Lookup ==
    GatewayAnswers(IF lease[Me] = None THEN None
                   ELSE [sid |-> lease[Me].sid, exp |-> lease[Me].exp])

Quietly(step) == step /\ UNCHANGED <<storeVars, networkVars, historyVars>>

VehicleStep == Quietly(RefreshStart \/ Lookup \/ RefreshDone \/ RefreshFails)

\* Packets past their age are forgotten: they are never accepted any more.
Tick ==
    /\ StoreTick
    /\ ReceiverTick
    /\ net' = {[p EXCEPT !.age = @ + 1] : p \in {q \in net : q.age <= MaxAge}}
    /\ sinceRelease' = [s \in Request |->
          IF sinceRelease[s] \in 0 .. ReleaseLag THEN sinceRelease[s] + 1 ELSE sinceRelease[s]]
    /\ UNCHANGED <<sent, highest, lapsed>>

Next ==
    \/ \E s \in Request, o \in Operator, e \in ExpiresIn : Grant(s, o, e) \/ Renew(s, o, e)
    \/ \E s \in Request, o \in Operator : Release(s, o)
    \/ \E s \in Request, age \in SendAge : Send(s, age)
    \/ \E p \in net \cup {Forged(s) : s \in granted} : Deliver(p)
    \/ VehicleStep
    \/ Tick

Spec == Init /\ [][Next]_vars

\* Time goes on, the loops of the vehicle wake up, and the gateway does not stay out
\* of reach for ever: among all refreshes some are answered.
Fairness ==
    /\ WF_vars(Tick)
    /\ WF_vars(Quietly(RefreshStart))
    /\ SF_vars(Quietly(Lookup)) /\ SF_vars(Quietly(RefreshDone))

FairSpec == Spec /\ Fairness

-----------------------------------------------------------------------------
(* Properties.                                                             *)

TypeOK ==
    /\ StoreTypeOK
    /\ ReceiverTypeOK
    /\ net \subseteq Packet
    /\ sent \in [Request -> Nat] /\ highest \in [Request -> Nat]
    /\ \A s \in Request : highest[s] <= sent[s] /\ sent[s] <= MaxSeq[s]
    /\ sinceRelease \in [Request -> -1 .. ReleaseLag + 1]
    /\ lapsed \subseteq Request

Controls(s) == lease[Me] # None /\ lease[Me].sid = s

\* A session that has expired moves the vehicle no more, although the vehicle polls
\* and only has a copy of expires_at: it applies a command only if the session still
\* holds the lease or its operator has released it.
ExpiredNeverControls ==
    [][Applying => Controls(session.sid) \/ sinceRelease[session.sid] # Held]_vars

\* A released session may still be trusted, until the next refresh at the latest.
ReleaseTakesEffect ==
    [][Applying => sinceRelease[session.sid] <= ReleaseLag]_vars

\* No command is applied twice, and none after a later one of the same session, for all
\* that the network duplicates and the refresh loop forgets, if the session's renewals
\* reached the vehicle in time: only verify_packet, when it finds a session expired, drops
\* a sequence that still counts.
NoReplayUnlessLapsed ==
    [][Applying => lastSequence' > highest[session.sid] \/ session.sid \in lapsed]_vars

\* The vehicle comes to trust a session that goes on holding the lease, also after
\* another one, and however many refreshes fail.
TakesOver ==
    \A s \in Request :
        Controls(s) ~> (session # None /\ session.sid = s) \/ ~Controls(s)
=============================================================================
