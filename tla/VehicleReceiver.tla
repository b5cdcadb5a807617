--------------------------- MODULE VehicleReceiver ---------------------------
(***************************************************************************)
(* Which commands a vehicle obeys: SessionCommandVerifier and the loop     *)
(* that refreshes its session.  All run on one asyncio event loop: a step  *)
(* ends where the code awaits, and the loop is never held up for as long   *)
(* as a tick, so that a sleep or a timeout that is over is acted on before *)
(* time goes on.                                                           *)
(*                                                                         *)
(* The watchdog, the emergency brake, the audit queue and the statistics,  *)
(* which decide nothing here, are in VehicleAgent.                         *)
(***************************************************************************)
EXTENDS RedisKeys

CONSTANTS MaxAge, MaxSkew,         \* max_age_ms, max_future_skew_ms
          RefreshInterval,         \* sleep between two refreshes
          HttpTimeout              \* timeout of the GET in refresh_session

ASSUME ReceiverAssumption ==
    /\ MaxAge \in Nat /\ MaxSkew \in Nat
    /\ RefreshInterval \in Nat \ {0} /\ HttpTimeout \in Nat \ {0}

VARIABLES
    session,       \* the trusted session [sid, exp], or None
    lastSequence,
    fetch          \* refresh_session: stage, time left, previous_*, the answer under way

receiverVars == <<session, lastSequence, fetch>>

\* What refresh_session keeps of an answer.  The operator is not told apart from
\* the session: its packets carry the session's signature.
Copy == [sid : Request, exp : Nat]

ASSUME CopyAssumption == None \notin Copy

\* A packet: its session, sequence and age, and whether the command is valid and the
\* signature verifies.  Packets of other senders are dropped before they matter.
Packet == [sid : Request, seq : Nat, age : -MaxSkew - 1 .. MaxAge + 1, good : BOOLEAN]

Fetch == [stage : {"sleeping", "asking", "answered"}, left : Nat,
          prev : Request \cup {None}, prevSeq : Nat, data : Copy \cup {None}]

ReceiverTypeOK ==
    /\ session \in Copy \cup {None}
    /\ lastSequence \in Nat
    /\ fetch \in Fetch

Asleep(left) == [stage |-> "sleeping", left |-> left, prev |-> None, prevSeq |-> 0, data |-> None]

\* run_agent starts the refresh loop.
ReceiverInit ==
    /\ session = None /\ lastSequence = 0
    /\ fetch = Asleep(0)

ClearSession == session' = None /\ lastSequence' = 0

\* Mutants: the session is kept until the answer is there; a vehicle that has a
\* session does not ask again.
RefreshStartKeeps ==
    /\ fetch.stage = "sleeping" /\ fetch.left = 0
    /\ fetch' = [stage |-> "asking", left |-> HttpTimeout, data |-> None,
                 prev |-> IF session = None THEN None ELSE session.sid,
                 prevSeq |-> lastSequence]
    /\ UNCHANGED <<session, lastSequence>>

RefreshStartOnce ==
    /\ fetch.stage = "sleeping" /\ fetch.left = 0
    /\ fetch' = IF session # None THEN Asleep(RefreshInterval)
                ELSE [stage |-> "asking", left |-> HttpTimeout, data |-> None,
                      prev |-> None, prevSeq |-> lastSequence]
    /\ UNCHANGED <<session, lastSequence>>

\* refresh_session up to the await: the session is dropped before the answer is known.
RefreshStart ==
    /\ fetch.stage = "sleeping" /\ fetch.left = 0
    /\ fetch' = [stage |-> "asking", left |-> HttpTimeout, data |-> None,
                 prev |-> IF session = None THEN None ELSE session.sid,
                 prevSeq |-> lastSequence]
    /\ ClearSession

\* handleGetControl answers with the lease as it is now, None being 404.
GatewayAnswers(current) ==
    /\ fetch.stage = "asking"
    /\ fetch' = [fetch EXCEPT !.stage = "answered", !.data = current]
    /\ UNCHANGED <<session, lastSequence>>

\* Mutant: the sequence starts again after every refresh.
RefreshDoneRestarts ==
    /\ fetch.stage = "answered"
    /\ session' = fetch.data
    /\ lastSequence' = 0
    /\ fetch' = Asleep(RefreshInterval)

\* The answer arrives: the sequence goes on where it was if the session is the same.
RefreshDone ==
    /\ fetch.stage = "answered"
    /\ session' = fetch.data
    /\ lastSequence' = IF fetch.data # None /\ fetch.data.sid = fetch.prev
                       THEN fetch.prevSeq ELSE 0
    /\ fetch' = Asleep(RefreshInterval)

\* The GET times out, breaks or is refused; the exception is logged.
RefreshFails ==
    /\ fetch.stage # "sleeping"
    /\ fetch' = Asleep(RefreshInterval)
    /\ UNCHANGED <<session, lastSequence>>

\* Mutant: the signature is not verified.
AcceptableUnsigned(p) == p.age <= MaxAge /\ -p.age <= MaxSkew /\ p.seq > lastSequence

\* The checks of verify_packet.
Fresh(p) == p.age <= MaxAge /\ -p.age <= MaxSkew
Acceptable(p) == Fresh(p) /\ p.seq > lastSequence /\ p.good

\* Mutant: the session's expires_at is not looked at.
ReceiveExpired(p) ==
    /\ session # None /\ p.sid = session.sid /\ Acceptable(p)
    /\ lastSequence' = p.seq
    /\ UNCHANGED <<session, fetch>>

\* on_datachannel_message with a packet of the trusted session.  A session found
\* expired is dropped; an accepted command is applied.
Receive(p) ==
    /\ session # None /\ p.sid = session.sid
    /\ \/ /\ session.exp = 0
          /\ ClearSession
          /\ UNCHANGED fetch
       \/ /\ session.exp > 0 /\ Acceptable(p)
          /\ lastSequence' = p.seq
          /\ UNCHANGED <<session, fetch>>

\* The vehicle executes a command in this step.
Applying == session # None /\ session' = session /\ lastSequence' # lastSequence

ElapseCopy(c) == IF c = None THEN None ELSE [c EXCEPT !.exp = Elapse(@)]

ReceiverTick ==
    /\ fetch.left > 0
    /\ session' = ElapseCopy(session)
    /\ fetch' = [fetch EXCEPT !.left = @ - 1, !.data = ElapseCopy(@)]
    /\ UNCHANGED lastSequence
=============================================================================
