---------------------------- MODULE ConsoleProofs ----------------------------
(***************************************************************************)
(* The page of the console, for any number of clicks, any lease and any    *)
(* connection timeout.                                                     *)
(***************************************************************************)
EXTENDS OperatorConsole, TLAPS

\* Where startTeleop is once its acquire was answered.
After == {"connecting", "failing", "done"}

\* Unless an old call went on under a newer sender, only the page's sender has a timer,
\* and while it has, Connect is disabled and the driving buttons are enabled.
Timers ==
    ~stale => \A s \in Call : renewal[s].every > 0 =>
                  s = page.sender /\ ~page.connect /\ page.drive /\ stage[s] = "done"

\* A session belongs to one sender, which has not released it.
Sessions ==
    \A x \in Call : session[x] # None =>
        /\ stage[session[x]] \in After /\ rel[session[x]].state = "none"
        /\ \A y \in Call : session[y] = session[x] => y = x

Releases == \A s \in Call : rel[s].state # "none" => stage[s] \in After

ConsoleInv == TypeOK /\ Timers /\ Sessions /\ Releases /\ KeptWhileRenewed
PageType == [sender : Call \cup {None}, canControl : BOOLEAN, room : Call \cup {None},
             moving : BOOLEAN, token : BOOLEAN, connect : BOOLEAN, disconnect : BOOLEAN,
             drive : BOOLEAN, shown : BOOLEAN]
TimerType == [every : {0, 1, RenewAfter}, left : 0 .. LeaseTTL]
RoomType == {"none", "connecting", "connected", "leaving", "left"}
RelType == [state : {"none", "sent", "served", "over"}, then : Call \cup {None, "stop"}]
LeaseType == [sid : Call, left : 1 .. LeaseTTL] \cup {None}

USE ConsoleAssumption

LEMMA RenewFacts == RenewAfter \in Nat /\ RenewAfter >= 1 /\ RenewAfter < LeaseTTL
BY DEF RenewAfter

LEMMA TypeParts ==
    TypeOK <=> /\ page \in PageType /\ stage \in [Call -> Stages] /\ on \in [Call -> Call \cup {None}]
               /\ wait \in [Call -> 0 .. ConnectTimeout] /\ keyed \subseteq Call
               /\ session \in [Call -> Call \cup {None}] /\ renewal \in [Call -> TimerType]
               /\ room \in [Call -> RoomType] /\ rel \in [Call -> RelType] /\ lease \in LeaseType
               /\ lost \subseteq Call \cup {None} /\ stale \in BOOLEAN
BY Zenon DEF TypeOK, PageType, TimerType, RoomType, RelType, LeaseType

LEMMA TypePartsNext ==
    TypeOK' <=> /\ page' \in PageType /\ stage' \in [Call -> Stages] /\ on' \in [Call -> Call \cup {None}]
                /\ wait' \in [Call -> 0 .. ConnectTimeout] /\ keyed' \subseteq Call
                /\ session' \in [Call -> Call \cup {None}] /\ renewal' \in [Call -> TimerType]
                /\ room' \in [Call -> RoomType] /\ rel' \in [Call -> RelType] /\ lease' \in LeaseType
                /\ lost' \subseteq Call \cup {None} /\ stale' \in BOOLEAN
BY Zenon DEF TypeOK, PageType, TimerType, RoomType, RelType, LeaseType

-----------------------------------------------------------------------------
(* The page's helpers.                                                     *)

LEMMA StoppedFacts ==
    ASSUME NEW p \in PageType
    PROVE  Stopped(p) \in PageType /\ Stopped(p).shown = p.shown
BY DEF Stopped, PageType

LEMMA ResetFacts ==
    ASSUME NEW p \in PageType
    PROVE  /\ Reset(p) \in PageType /\ Reset(p).shown = p.shown
           /\ Reset(p).sender = p.sender
BY DEF Reset, PageType

LEMMA RoomLeft ==
    ASSUME NEW p \in PageType
    PROVE  [p EXCEPT !.room = None] \in PageType /\ [p EXCEPT !.room = None].shown = p.shown
           /\ [p EXCEPT !.room = None].sender = p.sender
BY DEF PageType

LEMMA CatchFacts ==
    ASSUME NEW p \in PageType
    PROVE  CatchEnds(p) \in PageType /\ CatchEnds(p).shown = p.shown /\ CatchEnds(p).sender = p.sender
BY RoomLeft, ResetFacts DEF CatchEnds

LEMMA LeftType ==
    ASSUME NEW rooms \in [Call -> RoomType], NEW r
    PROVE  Left(rooms, r) \in [Call -> RoomType]
BY DEF Left, RoomType

LEMMA NoTimerType == NoTimer \in TimerType /\ NoTimer.every = 0 /\ NoTimer.left = 0
BY DEF NoTimer, TimerType

-----------------------------------------------------------------------------
(* Releasing the page's sender.                                            *)

LEMMA ReleaseFacts ==
    ASSUME TypeOK, NEW next \in Call \cup {None, "stop"}, ReleaseSender(next)
    PROVE  /\ session' \in [Call -> Call \cup {None}] /\ renewal' \in [Call -> TimerType]
           /\ rel' \in [Call -> RelType]
           /\ \A s \in Call : renewal'[s].every > 0 => s # page.sender /\ renewal'[s] = renewal[s]
           /\ \A x \in Call : session'[x] # None => x # page.sender /\ session'[x] = session[x]
           /\ \A x \in Call : rel'[x] = rel[x]
                  \/ (page.sender \in Call /\ x = session[page.sender])
<1>1. page.sender \in Call \cup {None} /\ session \in [Call -> Call \cup {None}]
      /\ renewal \in [Call -> TimerType] /\ rel \in [Call -> RelType]
  BY TypeParts DEF PageType
<1>2. CASE page.sender = None
  <2>1. UNCHANGED <<session, renewal, rel>>
    BY <1>2 DEF ReleaseSender
  <2>2. \A s \in Call : s # page.sender
    BY <1>2
  <2>3. session' \in [Call -> Call \cup {None}] /\ renewal' \in [Call -> TimerType] /\ rel' \in [Call -> RelType]
    BY <1>1, <2>1
  <2>4. QED
    BY <2>1, <2>2, <2>3
<1>3. CASE page.sender # None
  <2>1. /\ page.sender \in Call
        /\ renewal' = [renewal EXCEPT ![page.sender] = NoTimer]
        /\ session' = [session EXCEPT ![page.sender] = None]
        /\ rel' = IF Held = None THEN rel
                  ELSE [rel EXCEPT ![Held] = [state |-> "sent", then |-> next]]
        /\ Held = session[page.sender]
    BY <1>1, <1>3 DEF ReleaseSender, Held
  <2>2. [state |-> "sent", then |-> next] \in RelType
    BY DEF RelType
  <2>3. rel' \in [Call -> RelType]
    BY <1>1, <2>1, <2>2
  <2>4. session' \in [Call -> Call \cup {None}] /\ renewal' \in [Call -> TimerType]
    BY <1>1, <2>1, NoTimerType
  <2>5. \A s \in Call : s # page.sender => renewal'[s] = renewal[s] /\ session'[s] = session[s]
    BY <1>1, <2>1
  <2>6. ~(renewal'[page.sender].every > 0) /\ session'[page.sender] = None
    BY <1>1, <2>1, NoTimerType
  <2>7. \A x \in Call : rel'[x] = rel[x] \/ x = session[page.sender]
    BY <1>1, <2>1
  <2>8. \A s \in Call : renewal'[s].every > 0 => s # page.sender /\ renewal'[s] = renewal[s]
    BY <2>5, <2>6, Zenon
  <2>9. \A x \in Call : session'[x] # None => x # page.sender /\ session'[x] = session[x]
    BY <2>5, <2>6, Zenon
  <2>10. QED
    BY <2>1, <2>3, <2>4, <2>7, <2>8, <2>9
<1>4. QED
  BY <1>2, <1>3

\* Whatever releases the page's sender and leaves the gateway's lease to the release keeps
\* the invariant: there is no timer left, unless an old call has started one.
LEMMA ReleaseInv ==
    ASSUME ConsoleInv, NEW next \in Call \cup {None, "stop"}, ReleaseSender(next), TypeOK',
           page'.shown => page.shown, UNCHANGED <<lease, lost, stale>>,
           \A s \in Call : stage[s] \in After => stage'[s] \in After
    PROVE  ConsoleInv'
<1>1. TypeOK /\ Timers /\ Sessions /\ Releases /\ KeptWhileRenewed
  BY DEF ConsoleInv
<1>2. /\ \A s \in Call : renewal'[s].every > 0 => s # page.sender /\ renewal'[s] = renewal[s]
      /\ \A x \in Call : session'[x] # None => x # page.sender /\ session'[x] = session[x]
      /\ \A x \in Call : rel'[x] = rel[x] \/ (page.sender \in Call /\ x = session[page.sender])
  BY <1>1, ReleaseFacts
<1>3. session \in [Call -> Call \cup {None}]
  BY <1>1, TypeParts
<1>4. Timers'
  BY <1>1, <1>2 DEF Timers
<1>5. Sessions'
  BY <1>1, <1>2, <1>3 DEF Sessions
<1>6. Releases'
  BY <1>1, <1>2, <1>3 DEF Releases, Sessions
<1>7. KeptWhileRenewed'
  BY <1>1, <1>2, <1>3 DEF KeptWhileRenewed, Keeps
<1>8. QED
  BY <1>4, <1>5, <1>6, <1>7 DEF ConsoleInv

-----------------------------------------------------------------------------
(* The steps of startTeleop.                                               *)

LEMMA CatchStep ==
    ASSUME ConsoleInv, NEW c \in Call, Catch(c), UNCHANGED <<lease, historyVars>>,
           on' \in [Call -> Call \cup {None}], wait' \in [Call -> 0 .. ConnectTimeout], keyed' \subseteq Call
    PROVE  ConsoleInv'
<1>1. TypeOK
  BY DEF ConsoleInv
<1>2. page \in PageType /\ stage \in [Call -> Stages] /\ room \in [Call -> RoomType]
      /\ lease \in LeaseType /\ lost \subseteq Call \cup {None} /\ stale \in BOOLEAN
  BY <1>1, TypeParts
<1>3. page' \in PageType /\ page'.shown = page.shown
  BY <1>2, StoppedFacts, CatchFacts DEF Catch
<1>4. room' \in [Call -> RoomType]
  BY <1>2, LeftType DEF Catch
<1>5. stage' \in [Call -> Stages] /\ \A s \in Call : stage[s] \in After => stage'[s] \in After
  BY <1>2 DEF Catch, Stages, After
<1>6. ReleaseSender(c)
  BY DEF Catch
<1>7. session' \in [Call -> Call \cup {None}] /\ renewal' \in [Call -> TimerType]
      /\ rel' \in [Call -> RelType]
  BY <1>1, <1>6, ReleaseFacts
<1>8. UNCHANGED <<lease, lost, stale>>
  BY DEF historyVars
<1>9. TypeOK'
  BY <1>2, <1>3, <1>4, <1>5, <1>7, <1>8, TypePartsNext, Zenon
<1>10. QED
  BY <1>3, <1>5, <1>6, <1>8, <1>9, ReleaseInv

\* A step that leaves the sessions, the timers, the releases and the lease alone.
LEMMA QuietInv ==
    ASSUME ConsoleInv, UNCHANGED <<session, renewal, rel, lease, historyVars>>, TypeOK', Timers',
           page'.shown => page.shown, \A s \in Call : stage[s] \in After => stage'[s] \in After
    PROVE  ConsoleInv'
<1>1. Sessions'
  <2>1. session \in [Call -> Call \cup {None}]
    BY TypeParts DEF ConsoleInv
  <2>2. QED
    BY <2>1 DEF ConsoleInv, Sessions
<1>2. Releases' /\ KeptWhileRenewed'
  BY DEF ConsoleInv, Releases, KeptWhileRenewed, Keeps, historyVars
<1>3. QED
  BY <1>1, <1>2 DEF ConsoleInv

LEMMA ClickStep == ASSUME ConsoleInv, NEW c \in Call, Click(c) PROVE ConsoleInv'
<1>1. TypeOK /\ Timers
  BY DEF ConsoleInv
<1>2. page \in PageType /\ stage \in [Call -> Stages]
  BY <1>1, TypeParts
<1>3. UNCHANGED <<on, wait, senderVars, room, rel, lease, historyVars>>
      /\ page.connect /\ stage[c] = "idle" /\ stage' = [stage EXCEPT ![c] = "keying"]
      /\ page' = [page EXCEPT !.sender = c]
  BY DEF Click
<1>4. page' \in PageType /\ page'.shown = page.shown
  BY <1>2, <1>3 DEF PageType
<1>5. stage' \in [Call -> Stages] /\ \A s \in Call : stage[s] \in After => stage'[s] \in After
  BY <1>2, <1>3 DEF Stages, After
<1>6. TypeOK'
  BY <1>1, <1>3, <1>4, <1>5, TypeParts, TypePartsNext, Zenon DEF senderVars, historyVars
<1>7. Timers'
  BY <1>1, <1>3 DEF Timers, senderVars, historyVars
<1>8. QED
  BY <1>3, <1>4, <1>5, <1>6, <1>7, QuietInv DEF senderVars

LEMMA KeysMadeStep == ASSUME ConsoleInv, NEW c \in Call, KeysMade(c) PROVE ConsoleInv'
<1>1. TypeOK /\ Timers
  BY DEF ConsoleInv
<1>2. page \in PageType /\ stage \in [Call -> Stages] /\ on \in [Call -> Call \cup {None}]
      /\ wait \in [Call -> 0 .. ConnectTimeout] /\ keyed \subseteq Call
  BY <1>1, TypeParts
<1>3. keyed' \subseteq Call /\ UNCHANGED <<wait, lease, historyVars>> /\ stage[c] = "keying"
  BY <1>2 DEF KeysMade
<1>4. CASE page.sender = None
  BY <1>2, <1>3, <1>4, CatchStep DEF KeysMade
<1>5. CASE page.sender # None
  <2>1. /\ stage' = [stage EXCEPT ![c] = "acquiring"]
        /\ on' = [on EXCEPT ![c] = page.sender]
        /\ UNCHANGED <<page, session, renewal, room, rel>>
    BY <1>5 DEF KeysMade
  <2>2. on' \in [Call -> Call \cup {None}]
    BY <1>2, <2>1 DEF PageType
  <2>3. stage' \in [Call -> Stages] /\ \A s \in Call : stage[s] \in After => stage'[s] \in After
    BY <1>2, <1>3, <2>1 DEF Stages, After
  <2>4. TypeOK'
    BY <1>1, <1>3, <2>1, <2>2, <2>3, TypeParts, TypePartsNext, Zenon DEF historyVars
  <2>5. Timers'
    BY <1>1, <1>2, <1>3, <2>1 DEF Timers, historyVars
  <2>6. QED
    BY <1>3, <2>1, <2>3, <2>4, <2>5, QuietInv
<1>6. QED
  BY <1>4, <1>5

LEMMA GrantStep == ASSUME ConsoleInv, NEW c \in Call, GatewayGrants(c) PROVE ConsoleInv'
<1>1. TypeOK /\ Timers /\ Sessions /\ Releases /\ KeptWhileRenewed
  BY DEF ConsoleInv
<1>2. stage \in [Call -> Stages] /\ session \in [Call -> Call \cup {None}]
  BY <1>1, TypeParts
<1>3. /\ lease = None /\ lease' = [sid |-> c, left |-> LeaseTTL] /\ stage[c] = "acquiring"
      /\ stage' = [stage EXCEPT ![c] = "granted"]
      /\ UNCHANGED <<page, on, wait, senderVars, room, rel, historyVars>>
  BY DEF GatewayGrants
<1>4. stage' \in [Call -> Stages] /\ \A s \in Call : stage[s] \in After \/ stage[s] = "done" => stage'[s] = stage[s]
  BY <1>2, <1>3 DEF Stages, After
<1>5. lease' \in LeaseType
  BY <1>3 DEF LeaseType
<1>6. TypeOK'
  BY <1>1, <1>3, <1>4, <1>5, TypeParts, TypePartsNext, Zenon DEF senderVars, historyVars
<1>7. Timers'
  BY <1>1, <1>3, <1>4 DEF Timers, senderVars, historyVars
<1>8. Sessions'
  BY <1>1, <1>2, <1>3, <1>4 DEF Sessions, senderVars
<1>9. Releases'
  BY <1>1, <1>3, <1>4 DEF Releases
<1>10. KeptWhileRenewed'
  BY <1>1, <1>3 DEF KeptWhileRenewed, Keeps, senderVars, historyVars
<1>11. QED
  BY <1>6, <1>7, <1>8, <1>9, <1>10 DEF ConsoleInv

LEMMA AcquireFailsStep == ASSUME ConsoleInv, NEW c \in Call, AcquireFails(c) PROVE ConsoleInv'
<1>1. on' \in [Call -> Call \cup {None}] /\ wait' \in [Call -> 0 .. ConnectTimeout] /\ keyed' \subseteq Call
  BY TypeParts DEF ConsoleInv, AcquireFails
<1>2. QED
  BY <1>1, CatchStep DEF AcquireFails

LEMMA ConnectFailsStep == ASSUME ConsoleInv, NEW c \in Call, ConnectFails(c) PROVE ConsoleInv'
<1>1. on' \in [Call -> Call \cup {None}] /\ wait' \in [Call -> 0 .. ConnectTimeout] /\ keyed' \subseteq Call
  BY TypeParts DEF ConsoleInv, ConnectFails
<1>2. QED
  BY <1>1, CatchStep DEF ConnectFails

LEMMA AcquiredStep == ASSUME ConsoleInv, NEW c \in Call, Acquired(c) PROVE ConsoleInv'
<1>1. TypeOK /\ Timers /\ Sessions /\ Releases /\ KeptWhileRenewed
  BY DEF ConsoleInv
<1>2. page \in PageType /\ stage \in [Call -> Stages] /\ session \in [Call -> Call \cup {None}]
      /\ on \in [Call -> Call \cup {None}] /\ wait \in [Call -> 0 .. ConnectTimeout]
      /\ room \in [Call -> RoomType] /\ lost \subseteq Call \cup {None} /\ stale \in BOOLEAN
  BY <1>1, TypeParts
<1>3. /\ session' = [session EXCEPT ![on[c]] = c]
      /\ page' = [page EXCEPT !.canControl = TRUE, !.drive = FALSE, !.room = c]
      /\ room' = [room EXCEPT ![c] = "connecting"]
      /\ stage[c] = "granted" /\ stage' = [stage EXCEPT ![c] = "connecting"]
      /\ wait' = [wait EXCEPT ![c] = ConnectTimeout] /\ on' = [on EXCEPT ![c] = None]
      /\ stale' = (stale \/ page.sender \notin {c, None})
      /\ lost' = IF Keeps(c, renewal[on[c]].left) THEN lost ELSE lost \cup {c}
      /\ UNCHANGED <<keyed, renewal, rel, lease>>
  BY DEF Acquired, Overtaken
<1>4. page' \in PageType /\ page'.shown = page.shown
  BY <1>2, <1>3 DEF PageType
<1>5. stage' \in [Call -> Stages] /\ stage'[c] = "connecting"
      /\ \A s \in Call : s # c => stage'[s] = stage[s]
  BY <1>2, <1>3 DEF Stages
<1>6. session' \in [Call -> Call \cup {None}] /\ on' \in [Call -> Call \cup {None}]
      /\ wait' \in [Call -> 0 .. ConnectTimeout] /\ lost' \subseteq Call \cup {None}
  <2>1. session' \in [Call -> Call \cup {None}]
    BY <1>2, <1>3
  <2>2. on' \in [Call -> Call \cup {None}] /\ wait' \in [Call -> 0 .. ConnectTimeout]
    BY <1>2, <1>3
  <2>3. lost' \subseteq Call \cup {None}
    BY <1>2, <1>3
  <2>4. QED
    BY <2>1, <2>2, <2>3
<1>7. room' \in [Call -> RoomType]
  BY <1>2, <1>3 DEF RoomType
<1>8. stale' \in BOOLEAN
  BY <1>2, <1>3, Zenon
<1>9. TypeOK'
  BY <1>1, <1>3, <1>4, <1>5, <1>6, <1>7, <1>8, TypeParts, TypePartsNext, Zenon
<1>10. Timers'
  <2>1. ~stale' => ~stale /\ page.sender \in {c, None}
    BY <1>3
  <2>2. QED
    BY <1>1, <1>3, <2>1 DEF Timers
<1>11. stage[c] \notin After
  BY <1>3 DEF After
<1>12. \A y \in Call : session[y] # c
  BY <1>1, <1>11 DEF Sessions
<1>13. \A y \in Call : session'[y] = session[y] \/ (y = on[c] /\ session'[y] = c)
  BY <1>2, <1>3
<1>14. rel[c].state = "none"
  BY <1>1, <1>11 DEF Releases
<1>15. Sessions'
  <2> SUFFICES ASSUME NEW x \in Call, session'[x] # None
               PROVE  /\ stage'[session'[x]] \in After /\ rel'[session'[x]].state = "none"
                      /\ \A y \in Call : session'[y] = session'[x] => y = x
    BY DEF Sessions
  <2>1. CASE session'[x] = session[x]
    <3>1. session[x] \in Call /\ session[x] # c
      BY <1>2, <1>12, <2>1
    <3>2. stage[session[x]] \in After /\ rel[session[x]].state = "none"
          /\ \A y \in Call : session[y] = session[x] => y = x
      BY <1>1, <3>1 DEF Sessions
    <3>3. QED
      BY <1>3, <1>5, <1>13, <2>1, <3>1, <3>2
  <2>2. CASE x = on[c] /\ session'[x] = c
    BY <1>3, <1>5, <1>12, <1>13, <1>14, <2>2 DEF After
  <2>3. QED
    BY <1>13, <2>1, <2>2
<1>16. Releases'
  BY <1>1, <1>3, <1>5 DEF Releases, After
<1>17. KeptWhileRenewed'
  <2> SUFFICES ASSUME NEW s \in Call, page.shown, renewal[s].every > 0, session'[s] \notin lost' \cup {None}
               PROVE  lease # None /\ lease.sid = session'[s] /\ lease.left > renewal[s].left
    BY <1>3, <1>4 DEF KeptWhileRenewed, Keeps
  <2>1. CASE session'[s] = session[s]
    BY <1>1, <1>3, <2>1 DEF KeptWhileRenewed, Keeps
  <2>2. CASE s = on[c] /\ session'[s] = c
    BY <1>3, <2>2 DEF Keeps
  <2>3. QED
    BY <1>13, <2>1, <2>2
<1>18. QED
  BY <1>9, <1>10, <1>15, <1>16, <1>17 DEF ConsoleInv

LEMMA ConnectedStep == ASSUME ConsoleInv, NEW c \in Call, Connected(c) PROVE ConsoleInv'
<1>1. TypeOK /\ Timers /\ Sessions /\ Releases /\ KeptWhileRenewed
  BY DEF ConsoleInv
<1>2. page \in PageType /\ stage \in [Call -> Stages] /\ session \in [Call -> Call \cup {None}]
      /\ wait \in [Call -> 0 .. ConnectTimeout] /\ renewal \in [Call -> TimerType]
      /\ room \in [Call -> RoomType] /\ lost \subseteq Call \cup {None} /\ stale \in BOOLEAN
      /\ page.sender \in Call \cup {None}
  BY <1>1, TypeParts DEF PageType
<1>3. /\ stage[c] = "connecting" /\ stage' = [stage EXCEPT ![c] = "done"]
      /\ wait' = [wait EXCEPT ![c] = 0]
      /\ stale' = (stale \/ page.sender \notin {c, None})
      /\ UNCHANGED <<on, keyed, session, rel, lease>>
  BY DEF Connected, Overtaken
<1>4. stage' \in [Call -> Stages] /\ stage'[c] = "done"
      /\ \A s \in Call : s # c => stage'[s] = stage[s]
  BY <1>2, <1>3 DEF Stages
<1>5. \A s \in Call : stage[s] \in After => stage'[s] \in After
  BY <1>4 DEF After
<1>6. wait' \in [Call -> 0 .. ConnectTimeout]
  BY <1>2, <1>3
<1>7. stale' \in BOOLEAN /\ (~stale' => ~stale /\ page.sender \in {c, None})
  BY <1>2, <1>3, Zenon
<1>8. Sessions'
  BY <1>1, <1>2, <1>3, <1>5 DEF Sessions
<1>9. Releases'
  BY <1>1, <1>3, <1>5 DEF Releases
<1>10. [room EXCEPT ![c] = "connected"] \in [Call -> RoomType]
  BY <1>2 DEF RoomType
<1>11. CASE page.sender = None /\ page' = CatchEnds(Stopped(page))
            /\ room' = Left([room EXCEPT ![c] = "connected"], page.room)
            /\ UNCHANGED <<renewal, lost>>
  <2>1. page' \in PageType /\ page'.shown = page.shown
    BY <1>2, <1>11, StoppedFacts, CatchFacts
  <2>2. room' \in [Call -> RoomType]
    BY <1>10, <1>11, LeftType
  <2>3. TypeOK'
    BY <1>1, <1>3, <1>4, <1>6, <1>7, <1>11, <2>1, <2>2, TypeParts, TypePartsNext, Zenon DEF historyVars
  <2>4. Timers'
    BY <1>1, <1>7, <1>11 DEF Timers
  <2>5. KeptWhileRenewed'
    BY <1>1, <1>3, <1>11, <2>1 DEF KeptWhileRenewed, Keeps, historyVars
  <2>6. QED
    BY <1>8, <1>9, <2>3, <2>4, <2>5 DEF ConsoleInv
<1>12. CASE /\ page.sender # None
            /\ StartRenewal(page.sender)
            /\ page' = [page EXCEPT !.drive = TRUE, !.connect = FALSE, !.disconnect = TRUE]
            /\ room' = [room EXCEPT ![c] = "connected"]
            /\ lost' = IF Keeps(session[page.sender], RenewAfter) THEN lost
                       ELSE lost \cup {session[page.sender]}
  <2> DEFINE s == page.sender
             every == IF session[s] = None THEN 1 ELSE RenewAfter
  <2>1. s \in Call /\ renewal' = [renewal EXCEPT ![s] = [every |-> every, left |-> every]]
    BY <1>2, <1>12 DEF StartRenewal
  <2>2. every \in {0, 1, RenewAfter} /\ every \in 0 .. LeaseTTL
    BY RenewFacts
  <2> HIDE DEF every
  <2>3. [every |-> every, left |-> every] \in TimerType
    BY <2>2 DEF TimerType
  <2>4. renewal' \in [Call -> TimerType] /\ renewal'[s].left = every
        /\ \A t \in Call : t # s => renewal'[t] = renewal[t]
    BY <1>2, <2>1, <2>3
  <2>5. page' \in PageType /\ page'.shown = page.shown /\ page'.sender = s /\ ~page'.connect /\ page'.drive
    BY <1>2, <1>12 DEF PageType
  <2>6. lost' \subseteq Call \cup {None} /\ lost \subseteq lost'
    BY <1>2, <1>12, <2>1
  <2>7. TypeOK'
    BY <1>1, <1>3, <1>4, <1>6, <1>7, <1>10, <1>12, <2>4, <2>5, <2>6, TypeParts, TypePartsNext, Zenon
  <2>8. Timers'
    <3> SUFFICES ASSUME ~stale', NEW t \in Call, renewal'[t].every > 0
                 PROVE  t = page'.sender /\ ~page'.connect /\ page'.drive /\ stage'[t] = "done"
      BY DEF Timers
    <3>1. ~stale /\ s = c
      BY <1>7, <2>1
    <3>2. t = s
      BY <1>1, <2>4, <3>1 DEF Timers
    <3>3. QED
      BY <1>4, <2>5, <3>1, <3>2
  <2>9. KeptWhileRenewed'
    <3> SUFFICES ASSUME NEW t \in Call, page.shown, renewal'[t].every > 0, session[t] \notin lost' \cup {None}
                 PROVE  lease # None /\ lease.sid = session[t] /\ lease.left > renewal'[t].left
      BY <1>3, <2>5 DEF KeptWhileRenewed, Keeps
    <3>1. CASE t # s
      BY <1>1, <2>4, <2>6, <3>1 DEF KeptWhileRenewed, Keeps
    <3>2. CASE t = s
      <4>1. Keeps(session[s], RenewAfter)
        BY <1>12, <3>2
      <4>2. every = RenewAfter
        BY <3>2 DEF every
      <4>3. QED
        BY <2>4, <3>2, <4>1, <4>2 DEF Keeps
    <3>3. QED
      BY <3>1, <3>2
  <2>10. QED
    BY <1>8, <1>9, <2>7, <2>8, <2>9 DEF ConsoleInv
<1>13. CASE /\ page' = [page EXCEPT !.connect = FALSE, !.disconnect = TRUE]
            /\ room' = [room EXCEPT ![c] = "connected"]
            /\ UNCHANGED <<renewal, lost>>
  <2>1. page' \in PageType /\ page'.shown = page.shown /\ page'.sender = page.sender
        /\ ~page'.connect /\ page'.drive = page.drive
    BY <1>2, <1>13 DEF PageType
  <2>2. TypeOK'
    BY <1>1, <1>3, <1>4, <1>6, <1>7, <1>10, <1>13, <2>1, TypeParts, TypePartsNext, Zenon DEF historyVars
  <2>3. Timers'
    BY <1>1, <1>4, <1>7, <1>13, <2>1 DEF Timers
  <2>4. KeptWhileRenewed'
    BY <1>1, <1>3, <1>13, <2>1 DEF KeptWhileRenewed, Keeps, historyVars
  <2>5. QED
    BY <1>8, <1>9, <2>2, <2>3, <2>4 DEF ConsoleInv
<1>14. QED
  BY <1>11, <1>12, <1>13 DEF Connected

-----------------------------------------------------------------------------
(* Leaving.                                                                *)

LEMMA LeavingStep ==
    ASSUME ConsoleInv, NEW next \in Call \cup {None, "stop"}, ReleaseSender(next),
           page' \in PageType, page'.shown = page.shown, room' \in [Call -> RoomType],
           UNCHANGED <<stage, on, wait, keyed, lease, historyVars>>
    PROVE  ConsoleInv'
<1>1. TypeOK
  BY DEF ConsoleInv
<1>2. session' \in [Call -> Call \cup {None}] /\ renewal' \in [Call -> TimerType]
      /\ rel' \in [Call -> RelType]
  BY <1>1, ReleaseFacts
<1>3. TypeOK'
  BY <1>1, <1>2, TypeParts, TypePartsNext, Zenon DEF historyVars
<1>4. QED
  BY <1>3, ReleaseInv DEF historyVars

LEMMA DisconnectedStep == ASSUME ConsoleInv, NEW c \in Call, Disconnected(c) PROVE ConsoleInv'
<1>1. page \in PageType /\ room \in [Call -> RoomType]
  BY TypeParts DEF ConsoleInv
<1>2. page' \in PageType /\ page'.shown = page.shown
  BY <1>1, StoppedFacts, RoomLeft, ResetFacts DEF Disconnected
<1>3. room' \in [Call -> RoomType]
  BY <1>1 DEF Disconnected, RoomType
<1>4. QED
  BY <1>2, <1>3, LeavingStep DEF Disconnected

LEMMA StopTeleopStep == ASSUME ConsoleInv, StopTeleop PROVE ConsoleInv'
<1>1. page \in PageType /\ room \in [Call -> RoomType]
  BY TypeParts DEF ConsoleInv
<1>2. page' \in PageType /\ page'.shown = page.shown
  BY <1>1, StoppedFacts, RoomLeft, ResetFacts DEF StopTeleop
<1>3. room' \in [Call -> RoomType]
  BY <1>1, LeftType DEF StopTeleop
<1>4. QED
  BY <1>2, <1>3, LeavingStep DEF StopTeleop

LEMMA SignOutStep == ASSUME ConsoleInv, SignOut PROVE ConsoleInv'
<1>1. page \in PageType /\ room \in [Call -> RoomType]
  BY TypeParts DEF ConsoleInv
<1>2. page' \in PageType /\ page'.shown = page.shown
  <2>1. Stopped(page) \in PageType /\ Stopped(page).shown = page.shown
    BY <1>1, StoppedFacts
  <2>2. page' = [Stopped(page) EXCEPT !.token = FALSE]
    BY DEF SignOut
  <2>3. QED
    BY <2>1, <2>2 DEF PageType
<1>3. QED
  BY <1>1, <1>2, LeavingStep DEF SignOut

\* The page and its timers are gone; what was sent to the gateway is not.
LEMMA PageHideStep == ASSUME ConsoleInv, PageHide PROVE ConsoleInv'
<1>1. TypeOK /\ Sessions /\ Releases
  BY DEF ConsoleInv
<1>2. page \in PageType /\ stage \in [Call -> Stages] /\ rel \in [Call -> RelType]
      /\ page.sender \in Call \cup {None} /\ session \in [Call -> Call \cup {None}]
  BY <1>1, TypeParts DEF PageType
<1>3. page' \in PageType /\ ~page'.shown
  <2>1. Reset(Stopped(page)) \in PageType
    BY <1>2, StoppedFacts, ResetFacts
  <2>2. page' = [Reset(Stopped(page)) EXCEPT !.room = None, !.shown = FALSE]
    BY DEF PageHide
  <2>3. QED
    BY <2>1, <2>2 DEF PageType
<1>4. stage' \in [Call -> Stages] /\ \A s \in Call : stage[s] # "acquiring" => stage'[s] = "done"
  BY <1>2 DEF PageHide, Stages
<1>5. rel' \in [Call -> RelType] /\ \A s \in Call : rel'[s].state = rel[s].state \/ s = Held
  BY <1>2 DEF PageHide, RelType
<1>6. renewal' = [s \in Call |-> NoTimer] /\ session' = [s \in Call |-> None]
      /\ wait' = [c \in Call |-> 0] /\ room' = [c \in Call |-> "left"]
      /\ UNCHANGED <<on, keyed, lease, historyVars>>
  BY DEF PageHide
<1>7. renewal' \in [Call -> TimerType] /\ session' \in [Call -> Call \cup {None}]
      /\ room' \in [Call -> RoomType]
  BY <1>6, NoTimerType DEF RoomType
<1>8. wait' \in [Call -> 0 .. ConnectTimeout]
  BY <1>6
<1>9. TypeOK'
  BY <1>1, <1>3, <1>4, <1>5, <1>6, <1>7, <1>8, TypeParts, TypePartsNext, Zenon DEF historyVars
<1>10. Timers' /\ Sessions'
  BY <1>6, NoTimerType DEF Timers, Sessions
<1>11. Releases'
  <2> SUFFICES ASSUME NEW s \in Call, rel'[s].state # "none" PROVE stage'[s] \in After
    BY DEF Releases
  <2>1. stage[s] \in After
    <3>1. CASE s = Held
      BY <1>1, <1>2, <3>1 DEF Held, Sessions
    <3>2. CASE rel'[s].state = rel[s].state
      BY <1>1, <3>2 DEF Releases
    <3>3. QED
      BY <1>5, <3>1, <3>2
  <2>2. QED
    BY <1>4, <2>1 DEF After
<1>12. KeptWhileRenewed'
  BY <1>3 DEF KeptWhileRenewed
<1>13. QED
  BY <1>9, <1>10, <1>11, <1>12 DEF ConsoleInv

LEMMA GatewayReleasesStep == ASSUME ConsoleInv, NEW s \in Call, GatewayReleases(s) PROVE ConsoleInv'
<1>1. TypeOK /\ Timers /\ Sessions /\ Releases /\ KeptWhileRenewed
  BY DEF ConsoleInv
<1>2. rel \in [Call -> RelType] /\ lease \in LeaseType /\ session \in [Call -> Call \cup {None}]
  BY <1>1, TypeParts
<1>3. /\ rel[s].state = "sent"
      /\ lease' = IF lease # None /\ lease.sid = s THEN None ELSE lease
      /\ rel' = [rel EXCEPT ![s].state = "served"]
      /\ UNCHANGED <<page, stage, on, wait, senderVars, room, historyVars>>
  BY DEF GatewayReleases
<1>4. rel' \in [Call -> RelType] /\ \A t \in Call : t # s => rel'[t] = rel[t]
  BY <1>2, <1>3 DEF RelType
<1>5. lease' \in LeaseType
  BY <1>2, <1>3 DEF LeaseType
<1>6. TypeOK'
  BY <1>1, <1>3, <1>4, <1>5, TypeParts, TypePartsNext, Zenon DEF senderVars, historyVars
<1>7. Timers'
  BY <1>1, <1>3 DEF Timers, senderVars, historyVars
<1>8. \A x \in Call : session[x] # s
  BY <1>1, <1>3 DEF Sessions
<1>9. Sessions'
  BY <1>1, <1>2, <1>3, <1>4, <1>8 DEF Sessions, senderVars
<1>10. Releases'
  <2>1. stage[s] \in After
    BY <1>1, <1>3 DEF Releases
  <2>2. QED
    BY <1>1, <1>3, <1>4, <2>1 DEF Releases
<1>11. KeptWhileRenewed'
  BY <1>1, <1>3, <1>8 DEF KeptWhileRenewed, Keeps, senderVars, historyVars
<1>12. QED
  BY <1>6, <1>7, <1>9, <1>10, <1>11 DEF ConsoleInv

LEMMA ReleaseReturnsStep == ASSUME ConsoleInv, NEW s \in Call, ReleaseReturns(s) PROVE ConsoleInv'
<1>1. TypeOK /\ Timers /\ Sessions /\ Releases /\ KeptWhileRenewed
  BY DEF ConsoleInv
<1>2. page \in PageType /\ stage \in [Call -> Stages] /\ rel \in [Call -> RelType]
      /\ room \in [Call -> RoomType] /\ stale \in BOOLEAN /\ session \in [Call -> Call \cup {None}]
  BY <1>1, TypeParts
<1> DEFINE next == rel[s].then
<1>3. next \in Call \cup {None, "stop"} /\ rel[s].state # "none"
  BY <1>2 DEF ReleaseReturns, RelType
<1>4. /\ rel' = [rel EXCEPT ![s] = [state |-> "over", then |-> None]]
      /\ page' = CASE next = "stop" -> Reset(page) [] next \in Call -> CatchEnds(page) [] OTHER -> page
      /\ room' = IF next \in Call THEN Left(room, page.room) ELSE room
      /\ stale' = (stale \/ (next # None /\ page.sender # None))
      /\ stage' = IF next \in Call THEN [stage EXCEPT ![next] = "done"] ELSE stage
      /\ UNCHANGED <<on, wait, senderVars, lease, lost>>
  BY DEF ReleaseReturns
<1> HIDE DEF next
<1>5. page' \in PageType /\ page'.shown = page.shown /\ page'.sender = page.sender
      /\ (next = None => page' = page)
  BY <1>2, <1>3, <1>4, ResetFacts, CatchFacts
<1>6. room' \in [Call -> RoomType]
  BY <1>2, <1>4, LeftType
<1>7. stage' \in [Call -> Stages] /\ \A t \in Call : stage'[t] = stage[t] \/ stage'[t] = "done"
  BY <1>2, <1>4 DEF Stages
<1>8. rel' \in [Call -> RelType] /\ \A t \in Call : t # s => rel'[t] = rel[t]
  <2>1. [state |-> "over", then |-> None] \in RelType
    BY DEF RelType
  <2>2. QED
    BY <1>2, <1>4, <2>1
<1>9. stale' \in BOOLEAN /\ (~stale' => ~stale /\ (next = None \/ page.sender = None))
  BY <1>2, <1>4, Zenon
<1>10. TypeOK'
  BY <1>1, <1>4, <1>5, <1>6, <1>7, <1>8, <1>9, TypeParts, TypePartsNext, Zenon DEF senderVars
<1>11. Timers'
  <2> SUFFICES ASSUME ~stale', NEW t \in Call, renewal'[t].every > 0
               PROVE  t = page'.sender /\ ~page'.connect /\ page'.drive /\ stage'[t] = "done"
    BY DEF Timers
  <2>1. t = page.sender /\ ~page.connect /\ page.drive /\ stage[t] = "done"
    BY <1>1, <1>4, <1>9 DEF Timers, senderVars
  <2>2. page' = page
    BY <1>5, <1>9, <2>1
  <2>3. QED
    BY <1>7, <2>1, <2>2
<1>12. stage[s] \in After
  BY <1>1, <1>3 DEF Releases
<1>13. \A t \in Call : stage[t] \in After => stage'[t] \in After
  BY <1>7 DEF After
<1>14. \A x \in Call : session[x] # s
  BY <1>1, <1>3 DEF Sessions
<1>15. Sessions'
  BY <1>1, <1>2, <1>4, <1>8, <1>13, <1>14 DEF Sessions, senderVars
<1>16. Releases'
  BY <1>1, <1>8, <1>12, <1>13 DEF Releases
<1>17. KeptWhileRenewed'
  BY <1>1, <1>4, <1>5 DEF KeptWhileRenewed, Keeps, senderVars
<1>18. QED
  BY <1>10, <1>11, <1>15, <1>16, <1>17 DEF ConsoleInv

-----------------------------------------------------------------------------
(* Renewal, time and the driving buttons.                                  *)

LEMMA RenewStep == ASSUME ConsoleInv, NEW s \in Call, NEW ok \in BOOLEAN, Renew(s, ok) PROVE ConsoleInv'
<1>1. TypeOK /\ Timers /\ Sessions /\ Releases /\ KeptWhileRenewed
  BY DEF ConsoleInv
<1>2. renewal \in [Call -> TimerType] /\ lease \in LeaseType /\ session \in [Call -> Call \cup {None}]
      /\ lost \subseteq Call \cup {None}
  BY <1>1, TypeParts
<1>3. /\ page.shown /\ renewal[s].every > 0 /\ renewal[s].left = 0
      /\ renewal' = [renewal EXCEPT ![s].left = renewal[s].every]
      /\ lease' = IF ok /\ Keeps(session[s], 0) THEN [lease EXCEPT !.left = LeaseTTL] ELSE lease
      /\ lost' = IF ok THEN lost ELSE lost \cup {session[s]}
      /\ UNCHANGED <<page, stage, on, wait, keyed, session, room, rel, stale>>
  BY DEF Renew
<1>4. renewal[s].every \in {0, 1, RenewAfter} /\ renewal[s].every \in 0 .. LeaseTTL
      /\ renewal[s].every < LeaseTTL
  BY <1>2, RenewFacts DEF TimerType
<1>5. renewal' \in [Call -> TimerType]
  BY <1>2, <1>3, <1>4 DEF TimerType
<1>6. /\ \A t \in Call : renewal'[t].every = renewal[t].every
      /\ \A t \in Call : t # s => renewal'[t] = renewal[t]
      /\ renewal'[s].left = renewal[s].every
  BY <1>2, <1>3 DEF TimerType
<1>7. lease' \in LeaseType
  BY <1>2, <1>3 DEF LeaseType, Keeps
<1>8. lost' \subseteq Call \cup {None}
  BY <1>2, <1>3
<1>9. TypeOK'
  BY <1>1, <1>3, <1>5, <1>7, <1>8, TypeParts, TypePartsNext, Zenon
<1>10. Timers'
  BY <1>1, <1>3, <1>6 DEF Timers
<1>11. Sessions' /\ Releases'
  BY <1>1, <1>3 DEF Sessions, Releases
<1>12. KeptWhileRenewed'
  <2> SUFFICES ASSUME NEW t \in Call, renewal[t].every > 0, session[t] \notin lost' \cup {None}
               PROVE  lease' # None /\ lease'.sid = session[t] /\ lease'.left > renewal'[t].left
    BY <1>3, <1>6 DEF KeptWhileRenewed, Keeps
  <2>1. lease # None /\ lease.sid = session[t] /\ lease.left > renewal[t].left
    BY <1>1, <1>3 DEF KeptWhileRenewed, Keeps
  <2>2. CASE t # s
    <3>1. lease.sid # session[s]
      BY <1>1, <2>1, <2>2 DEF Sessions
    <3>2. QED
      BY <1>3, <1>6, <2>1, <2>2, <3>1 DEF Keeps
  <2>3. CASE t = s
    <3>1. ok /\ Keeps(session[s], 0)
      BY <1>3, <2>1, <2>3 DEF Keeps
    <3>2. lease' = [lease EXCEPT !.left = LeaseTTL] /\ lease \in [sid : Call, left : 1 .. LeaseTTL]
      BY <1>2, <1>3, <2>1, <3>1 DEF LeaseType
    <3>3. lease' \in [sid : Call, left : 1 .. LeaseTTL] /\ lease'.sid = lease.sid /\ lease'.left = LeaseTTL
      BY <3>2
    <3>4. lease' # None
      BY <3>3
    <3>5. QED
      BY <1>4, <1>6, <2>1, <2>3, <3>3, <3>4
  <2>4. QED
    BY <2>2, <2>3
<1>13. QED
  BY <1>9, <1>10, <1>11, <1>12 DEF ConsoleInv

LEMMA TickStep == ASSUME ConsoleInv, Tick PROVE ConsoleInv'
<1>1. TypeOK /\ Timers /\ Sessions /\ Releases /\ KeptWhileRenewed
  BY DEF ConsoleInv
<1>2. renewal \in [Call -> TimerType] /\ lease \in LeaseType /\ session \in [Call -> Call \cup {None}]
      /\ wait \in [Call -> 0 .. ConnectTimeout]
  BY <1>1, TypeParts
<1>3. /\ page.shown => \A s \in Call : renewal[s].every > 0 => renewal[s].left > 0
      /\ renewal' = [s \in Call |-> IF renewal[s].left > 0 THEN [renewal[s] EXCEPT !.left = @ - 1]
                                    ELSE renewal[s]]
      /\ wait' = [c \in Call |-> IF wait[c] > 0 THEN wait[c] - 1 ELSE 0]
      /\ lease' = IF lease = None \/ lease.left = 1 THEN None ELSE [lease EXCEPT !.left = @ - 1]
      /\ UNCHANGED <<page, stage, on, keyed, session, room, rel, historyVars>>
  BY DEF Tick
<1>4. wait' \in [Call -> 0 .. ConnectTimeout]
  BY <1>2, <1>3
<1>5. /\ renewal' \in [Call -> TimerType]
      /\ \A s \in Call : renewal'[s].every = renewal[s].every
      /\ \A s \in Call : renewal[s].left > 0 => renewal'[s].left = renewal[s].left - 1
  BY <1>2, <1>3 DEF TimerType
<1>6. lease' \in LeaseType
  BY <1>2, <1>3 DEF LeaseType
<1>7. TypeOK'
  BY <1>1, <1>3, <1>4, <1>5, <1>6, TypeParts, TypePartsNext, Zenon DEF historyVars
<1>8. Timers'
  BY <1>1, <1>3, <1>5 DEF Timers, historyVars
<1>9. Sessions' /\ Releases'
  BY <1>1, <1>3 DEF Sessions, Releases
<1>10. KeptWhileRenewed'
  <2> SUFFICES ASSUME NEW s \in Call, page.shown, renewal[s].every > 0, session[s] \notin lost \cup {None}
               PROVE  lease' # None /\ lease'.sid = session[s] /\ lease'.left > renewal'[s].left
    BY <1>3, <1>5 DEF KeptWhileRenewed, Keeps, historyVars
  <2>1. lease # None /\ lease.sid = session[s] /\ lease.left > renewal[s].left
    BY <1>1 DEF KeptWhileRenewed, Keeps
  <2>2. renewal[s].left \in Nat /\ renewal[s].left > 0 /\ renewal'[s].left = renewal[s].left - 1
    BY <1>2, <1>3, <1>5 DEF TimerType
  <2>3. lease \in [sid : Call, left : 1 .. LeaseTTL] /\ lease.left > 1
    BY <1>2, <2>1, <2>2 DEF LeaseType
  <2>4. lease' = [lease EXCEPT !.left = lease.left - 1]
    BY <1>3, <2>1, <2>3
  <2>5. lease'.sid = lease.sid /\ lease'.left = lease.left - 1
    BY <2>3, <2>4
  <2>6. lease' # None
    BY <2>3, <2>4
  <2>7. QED
    BY <2>1, <2>2, <2>3, <2>5, <2>6
<1>11. QED
  BY <1>7, <1>8, <1>9, <1>10 DEF ConsoleInv

LEMMA DriveStep == ASSUME ConsoleInv, Press \/ LetGo PROVE ConsoleInv'
<1>1. TypeOK /\ Timers
  BY DEF ConsoleInv
<1>2. page \in PageType
  BY <1>1, TypeParts
<1>3. UNCHANGED <<stage, on, wait, senderVars, room, rel, lease, historyVars>>
  BY DEF Press, LetGo
<1>4. page' \in PageType /\ page'.shown = page.shown /\ page'.sender = page.sender
      /\ page'.connect = page.connect /\ page'.drive = page.drive
  BY <1>2 DEF Press, LetGo, PageType
<1>5. TypeOK'
  BY <1>1, <1>3, <1>4, TypeParts, TypePartsNext, Zenon DEF senderVars, historyVars
<1>6. Timers'
  BY <1>1, <1>3, <1>4 DEF Timers, senderVars, historyVars
<1>7. QED
  BY <1>3, <1>4, <1>5, <1>6, QuietInv DEF senderVars

-----------------------------------------------------------------------------
(* The invariant and what follows from it.                                 *)

LEMMA InitInv == Init => ConsoleInv
<1> SUFFICES ASSUME Init PROVE ConsoleInv
  OBVIOUS
<1>1. page \in PageType
  BY Zenon DEF Init, PageType
<1>2. stage \in [Call -> Stages] /\ on \in [Call -> Call \cup {None}] /\ keyed \subseteq Call
      /\ session \in [Call -> Call \cup {None}] /\ room \in [Call -> RoomType]
  BY DEF Init, Stages, RoomType
<1>3. wait \in [Call -> 0 .. ConnectTimeout] /\ renewal \in [Call -> TimerType]
  BY NoTimerType DEF Init
<1>4. rel \in [Call -> RelType]
  BY DEF Init, RelType, NoRelease
<1>5. lease \in LeaseType /\ lost \subseteq Call \cup {None} /\ stale \in BOOLEAN
  BY Zenon DEF Init, LeaseType
<1>6. TypeOK
  BY <1>1, <1>2, <1>3, <1>4, <1>5, TypeParts, Zenon
<1>7. Timers /\ Sessions /\ Releases /\ KeptWhileRenewed
  BY NoTimerType DEF Init, Timers, Sessions, Releases, KeptWhileRenewed, NoRelease
<1>8. QED
  BY <1>6, <1>7 DEF ConsoleInv

LEMMA NextInv == ConsoleInv /\ [Next]_vars => ConsoleInv'
<1> SUFFICES ASSUME ConsoleInv, [Next]_vars PROVE ConsoleInv'
  OBVIOUS
<1>1. CASE UNCHANGED vars
  BY <1>1 DEF vars, senderVars, historyVars, ConsoleInv, TypeOK, Timers, Sessions, Releases,
     KeptWhileRenewed, Keeps
<1>2. CASE Next
  BY <1>2, ClickStep, KeysMadeStep, GrantStep, AcquireFailsStep, AcquiredStep, ConnectedStep,
     ConnectFailsStep, DisconnectedStep, GatewayReleasesStep, ReleaseReturnsStep, RenewStep,
     StopTeleopStep, SignOutStep, PageHideStep, DriveStep, TickStep DEF Next
<1>3. QED
  BY <1>1, <1>2

LEMMA AlwaysInv == Spec => []ConsoleInv
BY InitInv, NextInv, PTL DEF Spec

\* Every variable of the page, its senders and its requests keeps its type.
THEOREM ConsoleTypeCorrect == Spec => []TypeOK
<1>1. ConsoleInv => TypeOK
  BY DEF ConsoleInv
<1>2. QED
  BY <1>1, AlwaysInv, PTL

\* However many clicks, stops, sign-outs and failures interleave, a lease that the page
\* renews in time does not run out: every answer, timer and release of the page counts.
THEOREM RenewedIsKept == Spec => []KeptWhileRenewed
<1>1. ConsoleInv => KeptWhileRenewed
  BY DEF ConsoleInv
<1>2. QED
  BY <1>1, AlwaysInv, PTL

\* No timer survives its sender, unless a call or a stop went on under a newer one.
THEOREM TimerEndsWithSender == Spec => []RenewsOnlyCurrent
<1>1. ConsoleInv => RenewsOnlyCurrent
  BY DEF ConsoleInv, Timers, RenewsOnlyCurrent
<1>2. QED
  BY <1>1, AlwaysInv, PTL

\* While commands reach the vehicle the driving buttons are enabled, with the same
\* exception.
THEOREM MoveCanBeEnded == Spec => []MoveIsStoppable
<1>1. ConsoleInv => MoveIsStoppable
  <2> SUFFICES ASSUME ConsoleInv, CanSend, ~stale PROVE page.drive
    BY DEF MoveIsStoppable
  <2>1. page.sender \in Call
    BY TypeParts DEF ConsoleInv, PageType, CanSend
  <2>2. QED
    BY <2>1 DEF ConsoleInv, Timers, CanSend
<1>2. QED
  BY <1>1, AlwaysInv, PTL
=============================================================================
