--------------------------- MODULE OperatorConsole ---------------------------
(***************************************************************************)
(* The page of the operator console in controller mode, and the            *)
(* SecureControlSender it drives.  JavaScript runs one callback at a time: *)
(* a step ends where the code awaits, and whatever follows reads the       *)
(* page's global variables again, which other callbacks may have changed.  *)
(*                                                                         *)
(* Each click on Connect is a Call of startTeleop; it makes a sender and,  *)
(* if it gets that far, a room and a session, all named after it.          *)
(***************************************************************************)
EXTENDS Naturals

CONSTANTS Call, None,
          LeaseTTL,        \* the gateway's lease, of which renew_after_ms is half
          ConnectTimeout   \* withTimeout around room.connect

ASSUME ConsoleAssumption ==
    /\ None \notin Call \cup [sid : Call, left : Nat] /\ "stop" \notin Call \cup {None}
    /\ LeaseTTL \in Nat \ {0, 1} /\ ConnectTimeout \in Nat

VARIABLES
    page,      \* the globals: sender, canControl, room, moving (activeCommand), and
               \* token (accessToken), connect, disconnect, drive (buttons), shown
    stage,     \* call -> where startTeleop is
    on,        \* call -> the sender whose acquireSession it awaits
    wait,      \* call -> what is left of the connection's timeout
    keyed,     \* senders with a key pair
    session,   \* sender -> sessionId
    renewal,   \* sender -> its timer: interval (0: none) and time left
    room,      \* call -> its LiveKit room
    rel,       \* session -> its release request, and the code that awaits it
    lease,     \* the vehicle's lease at the gateway
    lost,      \* history: sessions of which a renewal failed or began too late
    stale      \* history: an old call or stop went on under the sender of a newer call

senderVars == <<keyed, session, renewal>>
historyVars == <<lost, stale>>
vars == <<page, stage, on, wait, senderVars, room, rel, lease, historyVars>>

RenewAfter == LeaseTTL \div 2

NoTimer == [every |-> 0, left |-> 0]
NoRelease == [state |-> "none", then |-> None]

\* A page is loaded and the operator has signed in.
Init ==
    /\ page = [sender |-> None, canControl |-> FALSE, room |-> None, moving |-> FALSE,
               token |-> TRUE, connect |-> TRUE, disconnect |-> FALSE, drive |-> FALSE,
               shown |-> TRUE]
    /\ stage = [c \in Call |-> "idle"]
    /\ on = [c \in Call |-> None]
    /\ wait = [c \in Call |-> 0]
    /\ keyed = {}
    /\ session = [s \in Call |-> None]
    /\ renewal = [s \in Call |-> NoTimer]
    /\ room = [c \in Call |-> "none"]
    /\ rel = [s \in Call |-> NoRelease]
    /\ lease = None
    /\ lost = {} /\ stale = FALSE

-----------------------------------------------------------------------------
(* stopControlSession, and what its callers do after it.                   *)

\* The globals it clears.
Stopped(p) == [p EXCEPT !.sender = None, !.canControl = FALSE, !.moving = FALSE]

\* resetConnectionUi.
Reset(p) == [p EXCEPT !.drive = FALSE, !.connect = TRUE, !.disconnect = FALSE]

\* The session that sender.release has to release, if any.
Held == IF page.sender = None THEN None ELSE session[page.sender]

\* Mutants: the timer goes on; and the session is kept, too.
ReleaseSenderRenewing(next) ==
    LET s == page.sender IN
    IF s = None THEN UNCHANGED <<session, renewal, rel>>
    ELSE /\ session' = [session EXCEPT ![s] = None]
         /\ rel' = IF Held = None THEN rel
                   ELSE [rel EXCEPT ![Held] = [state |-> "sent", then |-> next]]
         /\ UNCHANGED renewal

ReleaseSenderKeeping(next) ==
    /\ rel' = IF Held = None THEN rel
              ELSE [rel EXCEPT ![Held] = [state |-> "sent", then |-> next]]
    /\ UNCHANGED <<session, renewal>>

\* SecureControlSender.release up to its fetch; next says who awaits it.
ReleaseSender(next) ==
    LET s == page.sender IN
    IF s = None THEN UNCHANGED <<session, renewal, rel>>
    ELSE /\ renewal' = [renewal EXCEPT ![s] = NoTimer]
         /\ session' = [session EXCEPT ![s] = None]
         /\ rel' = IF Held = None THEN rel
                   ELSE [rel EXCEPT ![Held] = [state |-> "sent", then |-> next]]

\* room.disconnect, of the room r if there is one.
Left(rooms, r) ==
    [c \in Call |-> IF c = r /\ rooms[c] \in {"connecting", "connected"} THEN "leaving" ELSE rooms[c]]

\* The end of startTeleop's catch block: it leaves the room the page is in by now.
CatchEnds(p) == Reset([p EXCEPT !.room = None])

\* The catch block of startTeleop.
Catch(c) ==
    /\ ReleaseSender(c)
    /\ IF Held = None
       THEN /\ page' = CatchEnds(Stopped(page))
            /\ room' = Left(room, page.room)
            /\ stage' = [stage EXCEPT ![c] = "done"]
       ELSE /\ page' = Stopped(page)
            /\ stage' = [stage EXCEPT ![c] = "failing"]
            /\ UNCHANGED room

-----------------------------------------------------------------------------
(* startTeleop.                                                            *)

\* The operator clicks on Connect; the button stays enabled until the end.
Click(c) ==
    /\ page.shown /\ page.token /\ page.connect
    /\ stage[c] = "idle"
    /\ page' = [page EXCEPT !.sender = c]
    /\ stage' = [stage EXCEPT ![c] = "keying"]
    /\ UNCHANGED <<on, wait, senderVars, room, rel, lease, historyVars>>

\* createKeyPair is done, and the session is requested with the sender of the page,
\* if it has one.
KeysMade(c) ==
    /\ page.shown /\ stage[c] = "keying"
    /\ keyed' = keyed \cup {c}
    /\ IF page.sender = None
       THEN Catch(c) /\ UNCHANGED on
       ELSE /\ stage' = [stage EXCEPT ![c] = "acquiring"]
            /\ on' = [on EXCEPT ![c] = page.sender]
            /\ UNCHANGED <<page, session, renewal, room, rel>>
    /\ UNCHANGED <<wait, lease, historyVars>>

\* handleAcquireControl grants a session to a request with a key.
GatewayGrants(c) ==
    /\ stage[c] = "acquiring" /\ on[c] \in keyed
    /\ lease = None
    /\ lease' = [sid |-> c, left |-> LeaseTTL]
    /\ stage' = [stage EXCEPT ![c] = "granted"]
    /\ UNCHANGED <<page, on, wait, senderVars, room, rel, historyVars>>

\* The key pair, the request or its answer fails, or the gateway refuses.
AcquireFails(c) ==
    /\ page.shown /\ stage[c] \in {"keying", "acquiring", "granted"}
    /\ Catch(c)
    /\ on' = [on EXCEPT ![c] = None]
    /\ UNCHANGED <<wait, keyed, lease, historyVars>>

\* The gateway keeps the lease of a session for longer than left.
Keeps(s, left) == lease # None /\ lease.sid = s /\ lease.left > left

Overtaken(c) == stale \/ page.sender \notin {c, None}

\* The answer arrives: the session is the sender's, and the page connects to LiveKit.
Acquired(c) ==
    /\ page.shown /\ stage[c] = "granted"
    /\ session' = [session EXCEPT ![on[c]] = c]
    /\ page' = [page EXCEPT !.canControl = TRUE, !.drive = FALSE, !.room = c]
    /\ room' = [room EXCEPT ![c] = "connecting"]
    /\ stage' = [stage EXCEPT ![c] = "connecting"]
    /\ wait' = [wait EXCEPT ![c] = ConnectTimeout]
    /\ on' = [on EXCEPT ![c] = None]
    /\ stale' = Overtaken(c)
    /\ lost' = IF Keeps(c, renewal[on[c]].left) THEN lost ELSE lost \cup {c}
    /\ UNCHANGED <<keyed, renewal, rel, lease>>

\* Mutant: it renews when the lease ends.
StartRenewalLate(s) ==
    renewal' = [renewal EXCEPT ![s] = [every |-> LeaseTTL, left |-> LeaseTTL]]

\* startRenewal.  A sender that was never granted a session has renewAfterMs 0: its
\* timer fires all the time.
StartRenewal(s) ==
    LET every == IF session[s] = None THEN 1 ELSE RenewAfter IN
    renewal' = [renewal EXCEPT ![s] = [every |-> every, left |-> every]]

\* The room is connected.  The page takes up control with the sender it has now, which
\* throws if there is none.
Connected(c) ==
    LET s == page.sender IN
    /\ page.shown /\ stage[c] = "connecting" /\ room[c] = "connecting"
    /\ \/ /\ page.canControl /\ s = None
          /\ page' = CatchEnds(Stopped(page))
          /\ room' = Left([room EXCEPT ![c] = "connected"], page.room)
          /\ UNCHANGED <<renewal, lost>>
       \/ /\ page.canControl /\ s # None
          /\ StartRenewal(s)
          /\ page' = [page EXCEPT !.drive = TRUE, !.connect = FALSE, !.disconnect = TRUE]
          /\ room' = [room EXCEPT ![c] = "connected"]
          /\ lost' = IF Keeps(session[s], RenewAfter) THEN lost ELSE lost \cup {session[s]}
       \/ /\ ~page.canControl
          /\ page' = [page EXCEPT !.connect = FALSE, !.disconnect = TRUE]
          /\ room' = [room EXCEPT ![c] = "connected"]
          /\ UNCHANGED <<renewal, lost>>
    /\ stage' = [stage EXCEPT ![c] = "done"]
    /\ wait' = [wait EXCEPT ![c] = 0]
    /\ stale' = Overtaken(c)
    /\ UNCHANGED <<on, keyed, session, rel, lease>>

ConnectFails(c) ==
    /\ page.shown /\ stage[c] = "connecting"
    /\ Catch(c)
    /\ wait' = [wait EXCEPT ![c] = 0]
    /\ UNCHANGED <<on, keyed, lease, historyVars>>

-----------------------------------------------------------------------------
(* Leaving.                                                                *)

\* Mutant: the handler only resets the buttons.
DisconnectedKeeps(c) ==
    /\ page.shown
    /\ room[c] \in {"connected", "leaving"} \/ (room[c] = "connecting" /\ stage[c] # "connecting")
    /\ page' = Reset([page EXCEPT !.room = None])
    /\ room' = [room EXCEPT ![c] = "left"]
    /\ UNCHANGED <<stage, on, wait, keyed, session, renewal, rel, lease, historyVars>>

\* The room is lost, or has been left: the Disconnected handler.  It stops whatever
\* session the page has by now.  A connection that was given up may still come about.
Disconnected(c) ==
    /\ page.shown
    /\ room[c] \in {"connected", "leaving"} \/ (room[c] = "connecting" /\ stage[c] # "connecting")
    /\ ReleaseSender(None)
    /\ page' = Reset([Stopped(page) EXCEPT !.room = None])
    /\ room' = [room EXCEPT ![c] = "left"]
    /\ UNCHANGED <<stage, on, wait, keyed, lease, historyVars>>

\* stopTeleop, by the button Disconnect; its last line waits for the release.
StopTeleop ==
    /\ page.shown /\ page.token /\ page.disconnect
    /\ ReleaseSender("stop")
    /\ page' = LET p == [Stopped(page) EXCEPT !.room = None]
               IN IF Held = None THEN Reset(p) ELSE p
    /\ room' = Left(room, page.room)
    /\ UNCHANGED <<stage, on, wait, keyed, lease, historyVars>>

\* handleAuth: signing out stops control but stays in the room.  To sign in again the
\* page is left (but for development mode).
SignOut ==
    /\ page.shown /\ page.token
    /\ ReleaseSender(None)
    /\ page' = [Stopped(page) EXCEPT !.token = FALSE]
    /\ UNCHANGED <<stage, on, wait, keyed, room, lease, historyVars>>

\* pagehide: the last thing the page does.  What it had in memory is gone; what the
\* gateway was asked it may still do.
PageHide ==
    /\ page.shown
    /\ page' = [Reset(Stopped(page)) EXCEPT !.room = None, !.shown = FALSE]
    /\ rel' = [s \in Call |-> IF s = Held THEN [state |-> "sent", then |-> None]
                             ELSE [rel[s] EXCEPT !.then = None]]
    /\ stage' = [c \in Call |-> IF stage[c] = "acquiring" THEN "acquiring" ELSE "done"]
    /\ session' = [s \in Call |-> None] /\ renewal' = [s \in Call |-> NoTimer]
    /\ room' = [c \in Call |-> "left"] /\ wait' = [c \in Call |-> 0]
    /\ UNCHANGED <<on, keyed, lease, historyVars>>

\* handleReleaseControl.
GatewayReleases(s) ==
    /\ rel[s].state = "sent"
    /\ lease' = IF lease # None /\ lease.sid = s THEN None ELSE lease
    /\ rel' = [rel EXCEPT ![s].state = "served"]
    /\ UNCHANGED <<page, stage, on, wait, senderVars, room, historyVars>>

\* The release is answered, or fails, which is logged, and stopControlSession returns
\* to whoever awaits it.
ReleaseReturns(s) ==
    LET next == rel[s].then IN
    /\ page.shown /\ rel[s].state \in {"sent", "served"}
    /\ rel' = [rel EXCEPT ![s] = [state |-> "over", then |-> None]]
    /\ page' = CASE next = "stop" -> Reset(page)
                 [] next \in Call -> CatchEnds(page)
                 [] OTHER -> page
    /\ room' = IF next \in Call THEN Left(room, page.room) ELSE room
    /\ stale' = (stale \/ (next # None /\ page.sender # None))
    /\ stage' = IF next \in Call THEN [stage EXCEPT ![next] = "done"] ELSE stage
    /\ UNCHANGED <<on, wait, senderVars, lease, lost>>

-----------------------------------------------------------------------------
(* Renewal and time.                                                       *)

\* The timer of a sender fires: the gateway renews the lease of its session, if it is
\* still held, or the request fails, which is logged.
Renew(s, ok) ==
    /\ page.shown /\ renewal[s].every > 0 /\ renewal[s].left = 0
    /\ renewal' = [renewal EXCEPT ![s].left = renewal[s].every]
    /\ lease' = IF ok /\ Keeps(session[s], 0) THEN [lease EXCEPT !.left = LeaseTTL] ELSE lease
    /\ lost' = IF ok THEN lost ELSE lost \cup {session[s]}
    /\ UNCHANGED <<page, stage, on, wait, keyed, session, room, rel, stale>>

\* Timers fire when they are due, and the connection's timeout is kept.
Tick ==
    /\ page.shown => /\ \A s \in Call : renewal[s].every > 0 => renewal[s].left > 0
                    /\ \A c \in Call : stage[c] = "connecting" => wait[c] > 0
    /\ renewal' = [s \in Call |-> IF renewal[s].left > 0 THEN [renewal[s] EXCEPT !.left = @ - 1]
                                 ELSE renewal[s]]
    /\ wait' = [c \in Call |-> IF wait[c] > 0 THEN wait[c] - 1 ELSE 0]
    /\ lease' = IF lease = None \/ lease.left = 1 THEN None ELSE [lease EXCEPT !.left = @ - 1]
    /\ UNCHANGED <<page, stage, on, keyed, session, room, rel, historyVars>>

-----------------------------------------------------------------------------
(* The driving buttons.                                                    *)

\* beginCommand: the command is sent and then repeated every 100 ms ...
Press ==
    /\ page.shown /\ page.token /\ page.drive
    /\ page' = [page EXCEPT !.moving = TRUE]
    /\ UNCHANGED <<stage, on, wait, senderVars, room, rel, lease, historyVars>>

\* ... until the button is let go: endCommand.  A disabled button does not notice.
LetGo ==
    /\ page.shown /\ page.token /\ page.drive
    /\ page' = [page EXCEPT !.moving = FALSE]
    /\ UNCHANGED <<stage, on, wait, senderVars, room, rel, lease, historyVars>>

\* The guards of sendCommand: a repeated command reaches the vehicle.
CanSend == page.canControl /\ page.sender # None /\ session[page.sender] # None
           /\ renewal[page.sender].every > 0

-----------------------------------------------------------------------------
Next ==
    \/ \E c \in Call : \/ Click(c) \/ KeysMade(c) \/ GatewayGrants(c) \/ AcquireFails(c)
                      \/ Acquired(c) \/ Connected(c) \/ ConnectFails(c) \/ Disconnected(c)
    \/ \E s \in Call : GatewayReleases(s) \/ ReleaseReturns(s)
    \/ \E s \in Call, ok \in BOOLEAN : Renew(s, ok)
    \/ StopTeleop \/ SignOut \/ PageHide
    \/ Press \/ LetGo
    \/ Tick

Spec == Init /\ [][Next]_vars

\* Time goes on, timers fire, and withTimeout ends every attempt to connect.
FairSpec ==
    /\ Spec
    /\ WF_vars(Tick)
    /\ \A c \in Call : WF_vars(Connected(c) \/ ConnectFails(c))
    /\ \A s \in Call : WF_vars(\E ok \in BOOLEAN : Renew(s, ok))

-----------------------------------------------------------------------------
(* Properties.                                                             *)

Stages == {"idle", "keying", "acquiring", "granted", "connecting", "failing", "done"}

\* Every variable has its type.
TypeOK ==
    /\ page \in [sender : Call \cup {None}, canControl : BOOLEAN, room : Call \cup {None},
                 moving : BOOLEAN, token : BOOLEAN, connect : BOOLEAN, disconnect : BOOLEAN,
                 drive : BOOLEAN, shown : BOOLEAN]
    /\ stage \in [Call -> Stages]
    /\ on \in [Call -> Call \cup {None}]
    /\ wait \in [Call -> 0 .. ConnectTimeout]
    /\ keyed \subseteq Call
    /\ session \in [Call -> Call \cup {None}]
    /\ renewal \in [Call -> [every : {0, 1, RenewAfter}, left : 0 .. LeaseTTL]]
    /\ room \in [Call -> {"none", "connecting", "connected", "leaving", "left"}]
    /\ rel \in [Call -> [state : {"none", "sent", "served", "over"},
                         then : Call \cup {None, "stop"}]]
    /\ lease \in [sid : Call, left : 1 .. LeaseTTL] \cup {None}
    /\ lost \subseteq Call \cup {None} /\ stale \in BOOLEAN

\* A session that the page renews keeps its lease, unless a renewal fails or the page took
\* too long to connect: startRenewal runs only then, and renews half a lease later.
KeptWhileRenewed ==
    \A s \in Call :
        page.shown /\ renewal[s].every > 0 /\ session[s] \notin lost \cup {None}
        => Keeps(session[s], renewal[s].left)

\* The page renews no lease that it is no longer able to release: the timer of a sender
\* ends with the sender, wherever stop, sign-out, disconnect and failure meet startTeleop.
\* (An old call or stop that goes on under a newer sender can make this fail.)
RenewsOnlyCurrent ==
    \A s \in Call : renewal[s].every > 0 => s = page.sender \/ stale

\* A command that the page repeats can be ended by letting go of its button, which must
\* not have been disabled meanwhile; the same exception.
MoveIsStoppable ==
    page.moving /\ CanSend => page.drive \/ stale

\* A lease that the page no longer has a sender for ends, although an acquire that was
\* answered after a stop is never released and a release may fail.
AbandonedEnds ==
    \A s \in Call :
        lease # None /\ lease.sid = s /\ page.sender = None
            ~> lease = None \/ lease.sid # s \/ page.sender # None \/ stale
=============================================================================
