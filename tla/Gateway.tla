------------------------------- MODULE Gateway -------------------------------
(***************************************************************************)
(* The gateway's control and video handlers over the two Redis stores.     *)
(* Handlers of concurrent requests interleave between Redis commands: a    *)
(* handler is a program counter, the values it has read, and one action    *)
(* per command.                                                            *)
(*                                                                         *)
(*   acquire  acquireScript getVideo [expireVideo] saveVideo issueToken    *)
(*            and, after a failure, the rollback getIndex getLease script  *)
(*   renew    getIndex getLease script                                     *)
(*   release  findIndex findLease getIndex getLease script                 *)
(*            getVideo [expireVideo] saveVideo                             *)
(*   view     getVideo [expireVideo] saveVideo indexViewer                 *)
(*   unview   getViewer getVideo [expireVideo] delViewer saveVideo         *)
(*   poll     getVideo [expireVideo]                                       *)
(*                                                                         *)
(* With Faults, a Redis command may fail (before or after it took effect), *)
(* a LiveKit token may not be issued, and the process may crash.           *)
(***************************************************************************)
EXTENDS ControlSession, VideoSession, FiniteSets

CONSTANTS Poller,        \* clients that ask for a video session again and again
          Kinds,         \* the kinds of request sent in this instance
          MaxInFlight,   \* bound on the handlers that run at the same time
          Faults

Slot == Request \cup Poller

ASSUME GatewayAssumption ==
    /\ Request \cap Poller = {}
    /\ MaxInFlight \in Nat \ {0}
    /\ Faults \in BOOLEAN

VARIABLES pc,    \* the next command of a handler
          task,  \* its request and local variables
          res    \* its answer

handlerVars == <<pc, task, res>>
vars == <<storeVars, videoVars, handlerVars>>

Label == {"idle", "acquireScript", "findIndex", "findLease", "getIndex", "getLease",
          "script", "getVideo", "expireVideo", "saveVideo", "issueToken",
          "getViewer", "delViewer", "indexViewer", "done"}
Answers == {"none", "ok", "held", "notFound", "owner", "error"}

\* kind of request; caller; vehicle; session id; expires_at to store; video record read
Task == [kind : {"none", "acquire", "renew", "release", "view", "unview", "poll"},
         op : Operator \cup {None}, veh : Vehicle \cup {None}, sid : Request \cup {None},
         exp : 0 .. LeaseTTL, buf : VideoRecord]

NoTask == [kind |-> "none", op |-> None, veh |-> None, sid |-> None,
           exp |-> 0, buf |-> Absent]

Init ==
    /\ StoreInit
    /\ VideoInit
    /\ pc = [r \in Slot |-> "idle"]
    /\ task = [r \in Slot |-> NoTask]
    /\ res = [r \in Slot |-> "none"]

-----------------------------------------------------------------------------
(* Control flow of a handler.                                              *)

Running(r) == pc[r] \notin {"idle", "done"}
InFlight == {r \in Slot : Running(r)}
Room == Cardinality(InFlight) < MaxInFlight

\* A handler goes on to label with locals t ...
Goto(r, label, t) ==
    /\ pc' = [pc EXCEPT ![r] = label]
    /\ task' = [task EXCEPT ![r] = t]
    /\ UNCHANGED res

\* ... or ends with an answer, and what it knew is gone: what stays is which request
\* it was and, after an acquire, the session its client was told of.  A poller starts over.
Stop(r) == IF r \in Poller THEN "idle" ELSE "done"
Closed(t) == [t EXCEPT !.buf = Absent, !.exp = IF t.kind = "acquire" THEN @ ELSE 0]
Answer(r, answer, t) ==
    /\ pc' = [pc EXCEPT ![r] = Stop(r)]
    /\ task' = [task EXCEPT ![r] = Closed(t)]
    /\ res' = [res EXCEPT ![r] = answer]

\* What a handler does when its next step fails.  An acquire that holds the
\* lease gives it back and ignores how that ends; ReleaseViewer ignores DEL.
OnError(r) ==
    IF task[r].kind = "acquire" /\ pc[r] \in {"getVideo", "expireVideo", "saveVideo", "issueToken"}
    THEN Goto(r, "getIndex", [task[r] EXCEPT !.buf = Absent, !.exp = 0])
    ELSE IF pc[r] = "delViewer" THEN Goto(r, "saveVideo", task[r])
    ELSE Answer(r, "error", task[r])

\* The answer to an error reply of the lease store; a rollback keeps its own.
Refuse(r, answer) == Answer(r, IF task[r].kind = "acquire" THEN "error" ELSE answer, task[r])

\* VideoSessionStore.Get has returned the record s.
GotVideo(r, s) ==
    LET t == [task[r] EXCEPT !.buf = s] IN
    IF t.kind = "poll" THEN Answer(r, "ok", t)
    ELSE Goto(r, IF t.kind = "unview" THEN "delViewer" ELSE "saveVideo", t)

Start(r, label, t) ==
    /\ Room
    /\ pc[r] = "idle"
    /\ Goto(r, label, t)
    /\ UNCHANGED <<storeVars, videoVars>>

-----------------------------------------------------------------------------
(* Requests.                                                               *)

\* Mutant: the operator's access to the vehicle is not checked.
StartAcquireUnchecked(r, o, v) ==
    /\ r \in Request /\ "acquire" \in Kinds
    /\ Start(r, "acquireScript", [NoTask EXCEPT !.kind = "acquire", !.op = o, !.veh = v,
                                                !.sid = r, !.exp = LeaseTTL])

\* handleAcquireControl up to the script: checks, then a session is made up.
StartAcquire(r, o, v) ==
    /\ r \in Request /\ "acquire" \in Kinds
    /\ <<o, v>> \in Authorized
    /\ Start(r, "acquireScript", [NoTask EXCEPT !.kind = "acquire", !.op = o, !.veh = v,
                                                !.sid = r, !.exp = LeaseTTL])

\* handleRenewControl and handleReleaseControl: any caller, any session handed out.
StartRenew(r, o, s) ==
    /\ r \in Request /\ "renew" \in Kinds /\ s \in granted
    /\ Start(r, "getIndex", [NoTask EXCEPT !.kind = "renew", !.op = o, !.sid = s])

StartRelease(r, o, s) ==
    /\ r \in Request /\ "release" \in Kinds /\ s \in granted
    /\ Start(r, "findIndex", [NoTask EXCEPT !.kind = "release", !.op = o, !.sid = s])

\* handleAcquireVideo.
StartView(r, o, v) ==
    /\ r \in Request /\ "view" \in Kinds
    /\ Start(r, "getVideo", [NoTask EXCEPT !.kind = "view", !.op = o, !.veh = v])

\* handleReleaseVideo: any caller, any video session id, any number of times.  Neither who
\* leaves nor whether he has left before is looked at, only whether the id is indexed.
StartUnview(r, o, s) ==
    /\ r \in Request /\ "unview" \in Kinds
    /\ Start(r, "getViewer", [NoTask EXCEPT !.kind = "unview", !.op = o, !.sid = s])

\* handleGetVideo.
StartPoll(r, v) ==
    /\ r \in Poller /\ "poll" \in Kinds
    /\ Start(r, "getVideo", [NoTask EXCEPT !.kind = "poll", !.veh = v])

-----------------------------------------------------------------------------
(* The lease store.                                                        *)

\* AcquireControlSession.
AcquireControl(r) ==
    LET t == task[r] IN
    /\ pc[r] = "acquireScript"
    /\ \/ /\ AcquireReply(t.veh) = 0
          /\ Answer(r, "held", t)
          /\ UNCHANGED storeVars
       \/ /\ AcquireReply(t.veh) = 1
          /\ AcquireScript(t.veh, t.sid, t.op, t.exp)
          /\ Goto(r, "getVideo", t)
    /\ UNCHANGED videoVars

\* getSessionByID: first the index key.  A release handler calls it twice, once
\* itself (find...) and once in ReleaseControlSession (get...).
GetIndex(r) ==
    LET t == task[r]
        entry == index[t.sid]
    IN
    /\ pc[r] \in {"findIndex", "getIndex"}
    /\ \/ entry = None /\ Refuse(r, "notFound")
       \/ entry # None /\ Goto(r, IF pc[r] = "findIndex" THEN "findLease" ELSE "getLease",
                               [t EXCEPT !.veh = entry.veh])
    /\ UNCHANGED <<storeVars, videoVars>>

\* getSessionByID: then the lease key, which must name the session.  Renew and
\* ReleaseControlSession then compare the owner, and renew takes the time.
Found(r) == lease[task[r].veh] # None /\ lease[task[r].veh].sid = task[r].sid
Owned(r) == lease[task[r].veh].op = task[r].op

GetLease(r) ==
    /\ pc[r] \in {"findLease", "getLease"}
    /\ \/ ~Found(r) /\ Refuse(r, "notFound")
       \/ Found(r) /\ pc[r] = "findLease" /\ Goto(r, "getIndex", task[r])
       \/ Found(r) /\ pc[r] = "getLease" /\ ~Owned(r) /\ Refuse(r, "owner")
       \/ /\ Found(r) /\ pc[r] = "getLease" /\ Owned(r)
          /\ Goto(r, "script", [task[r] EXCEPT !.exp = IF task[r].kind = "renew"
                                                      THEN LeaseTTL ELSE @])
    /\ UNCHANGED <<storeVars, videoVars>>

\* RenewControlSession and ReleaseControlSession, from the script on; the latter
\* in a release or in a rollback.
Refusal(reply) == IF reply = 0 THEN "notFound" ELSE "owner"

RenewControl(r) ==
    LET t == task[r]
        reply == RenewReply(t.veh, t.sid, t.op)
    IN
    /\ pc[r] = "script" /\ t.kind = "renew"
    /\ \/ reply = 1 /\ RenewScript(t.veh, t.sid, t.exp) /\ Answer(r, "ok", t)
       \/ reply # 1 /\ UNCHANGED storeVars /\ Refuse(r, Refusal(reply))
    /\ UNCHANGED videoVars

ReleaseControl(r) ==
    LET t == task[r]
        reply == ReleaseReply(t.veh, t.sid, t.op)
    IN
    /\ pc[r] = "script" /\ t.kind \in {"release", "acquire"}
    /\ \/ /\ reply = 1
          /\ ReleaseScript(t.veh, t.sid)
          /\ IF t.kind = "release" THEN Goto(r, "getVideo", t) ELSE Answer(r, "error", t)
       \/ reply # 1 /\ UNCHANGED storeVars /\ Refuse(r, Refusal(reply))
    /\ UNCHANGED videoVars

-----------------------------------------------------------------------------
(* The video store.                                                        *)

\* VideoSessionStore.Get reads the record and, past the grace period, saves it back.
GetVideo(r) ==
    LET s == video[task[r].veh] IN
    /\ pc[r] = "getVideo"
    /\ IF GraceOver(s) THEN Goto(r, "expireVideo", [task[r] EXCEPT !.buf = s])
       ELSE GotVideo(r, s)
    /\ UNCHANGED <<storeVars, videoVars>>

ExpireVideo(r) ==
    LET s == InStandby(task[r].buf) IN
    /\ pc[r] = "expireVideo"
    /\ Save(task[r].veh, s)
    /\ GotVideo(r, s)
    /\ UNCHANGED <<storeVars, viewer>>

\* What each operation makes of the copy it has read.
Changed(r) ==
    CASE task[r].kind = "acquire" -> SetController(task[r].buf, r, task[r].sid)
      [] task[r].kind = "release" -> ClearController(task[r].buf, task[r].sid)
      [] task[r].kind = "view"    -> AcquireViewer(task[r].buf, r)
      [] OTHER                    -> ReleaseViewer(task[r].buf)

SaveVideo(r) ==
    LET t == [task[r] EXCEPT !.buf = Absent] IN
    /\ pc[r] = "saveVideo"
    /\ Save(t.veh, Changed(r))
    /\ \/ t.kind = "acquire" /\ Goto(r, "issueToken", t)
       \/ t.kind = "view" /\ Goto(r, "indexViewer", [t EXCEPT !.sid = Changed(r).vsid])
       \/ t.kind \in {"release", "unview"} /\ Answer(r, "ok", t)
    /\ UNCHANGED <<storeVars, viewer>>

\* AcquireViewer indexes the video session; all viewers of a vehicle share its id.
IndexViewer(r) ==
    /\ pc[r] = "indexViewer"
    /\ viewer' = [viewer EXCEPT ![task[r].sid] = task[r].veh]
    /\ Answer(r, "ok", task[r])
    /\ UNCHANGED <<storeVars, video>>

\* ReleaseViewer looks the vehicle up in the index, and later deletes the entry.
GetViewer(r) ==
    LET v == viewer[task[r].sid] IN
    /\ pc[r] = "getViewer"
    /\ \/ v = None /\ Answer(r, "notFound", task[r])
       \/ v # None /\ Goto(r, "getVideo", [task[r] EXCEPT !.veh = v])
    /\ UNCHANGED <<storeVars, videoVars>>

DelViewer(r) ==
    /\ pc[r] = "delViewer"
    /\ viewer' = [viewer EXCEPT ![task[r].sid] = None]
    /\ Goto(r, "saveVideo", task[r])
    /\ UNCHANGED <<storeVars, video>>

\* issueOperatorToken, the audit record and the response.
IssueToken(r) ==
    /\ pc[r] = "issueToken"
    /\ Answer(r, "ok", task[r])
    /\ UNCHANGED <<storeVars, videoVars>>

-----------------------------------------------------------------------------
(* Failures and time.                                                      *)

\* A step fails and has no effect.
StepFails(r) ==
    /\ Faults
    /\ Running(r)
    /\ OnError(r)
    /\ UNCHANGED <<storeVars, videoVars>>

\* A write takes effect but its reply is lost (a broken connection, a cancelled context).
ReplyLost(r) ==
    LET t == task[r] IN
    /\ Faults
    /\ \/ /\ pc[r] = "acquireScript"
          /\ AcquireReply(t.veh) = 1
          /\ AcquireScript(t.veh, t.sid, t.op, t.exp)
          /\ UNCHANGED videoVars
       \/ /\ pc[r] = "script" /\ t.kind = "renew"
          /\ RenewReply(t.veh, t.sid, t.op) = 1
          /\ RenewScript(t.veh, t.sid, t.exp)
          /\ UNCHANGED videoVars
       \/ /\ pc[r] = "script" /\ t.kind \in {"release", "acquire"}
          /\ ReleaseReply(t.veh, t.sid, t.op) = 1
          /\ ReleaseScript(t.veh, t.sid)
          /\ UNCHANGED videoVars
       \/ /\ pc[r] = "expireVideo"
          /\ Save(t.veh, InStandby(t.buf))
          /\ UNCHANGED <<storeVars, viewer>>
       \/ /\ pc[r] = "saveVideo"
          /\ Save(t.veh, Changed(r))
          /\ UNCHANGED <<storeVars, viewer>>
       \/ /\ pc[r] = "indexViewer"
          /\ viewer' = [viewer EXCEPT ![t.sid] = t.veh]
          /\ UNCHANGED <<storeVars, video>>
    /\ OnError(r)

\* The gateway process dies with every handler in it; Redis keeps its keys.
Crash ==
    /\ Faults
    /\ InFlight # {}
    /\ pc' = [r \in Slot |-> IF Running(r) THEN Stop(r) ELSE pc[r]]
    /\ task' = [r \in Slot |-> IF Running(r) THEN Closed(task[r]) ELSE task[r]]
    /\ UNCHANGED <<storeVars, videoVars, res>>

Tick ==
    /\ StoreTick
    /\ VideoTick
    /\ task' = [r \in Slot |-> [task[r] EXCEPT !.exp = Elapse(@), !.buf = ElapseGrace(@)]]
    /\ UNCHANGED <<pc, res>>

LongKeyExpires ==
    /\ \/ \E v \in Vehicle : VideoKeyExpires(v)
       \/ \E s \in Request : ViewerKeyExpires(s)
    /\ UNCHANGED <<storeVars, handlerVars>>

-----------------------------------------------------------------------------
Submit(r) ==
    \/ \E o \in Operator, v \in Vehicle : StartAcquire(r, o, v) \/ StartView(r, o, v)
    \/ \E o \in Operator, s \in Request :
          StartRenew(r, o, s) \/ StartRelease(r, o, s) \/ StartUnview(r, o, s)
    \/ \E v \in Vehicle : StartPoll(r, v)

Handle(r) ==
    \/ AcquireControl(r) \/ GetIndex(r) \/ GetLease(r) \/ RenewControl(r) \/ ReleaseControl(r)
    \/ GetVideo(r) \/ ExpireVideo(r) \/ SaveVideo(r) \/ IndexViewer(r)
    \/ GetViewer(r) \/ DelViewer(r) \/ IssueToken(r)

Next ==
    \/ \E r \in Slot : Submit(r) \/ Handle(r) \/ StepFails(r) \/ ReplyLost(r)
    \/ Crash
    \/ Tick
    \/ LongKeyExpires

Spec == Init /\ [][Next]_vars

\* Time goes on, a handler that runs goes on (net/http runs every handler to its end),
\* and a client that polls a vehicle polls it again.  Redis may fail, but of the
\* commands of all polls not every one does.
Fairness ==
    /\ WF_vars(Tick)
    /\ \A r \in Slot : WF_vars(Handle(r))
    /\ \A r \in Poller, v \in Vehicle : WF_vars(StartPoll(r, v))
    /\ \A r \in Poller : SF_vars(GetVideo(r)) /\ SF_vars(ExpireVideo(r))

FairSpec == Spec /\ Fairness

-----------------------------------------------------------------------------
(* Properties.                                                             *)

\* Every variable has its type.
TypeOK ==
    /\ StoreTypeOK
    /\ VideoTypeOK
    /\ pc \in [Slot -> Label]
    /\ task \in [Slot -> Task]
    /\ res \in [Slot -> Answers]

\* The two keys of a session come and go together: a lease has an index entry
\* that leads back to it and expires with it, and no index entry is left behind
\* (acquire, renew and release scripts, expiry).
LeaseIndexAgree ==
    /\ \A v \in Vehicle : lease[v] # None =>
          index[lease[v].sid] = [veh |-> v, px |-> lease[v].px]
    /\ \A s \in Request : index[s] # None =>
          lease[index[s].veh] # None /\ lease[index[s].veh].sid = s

\* The expires_at a vehicle is told never lies beyond the life of the lease, however
\* long a handler sat between taking the time and running its script.
ExpiryWithinLease ==
    \A v \in Vehicle : lease[v] # None => lease[v].exp <= lease[v].px

\* An operator that was answered with a session controls the vehicle until the
\* expires_at in that answer, unless that operator asks for its release.
GrantedIsHeld ==
    \A r \in Request :
        /\ task[r].kind = "acquire" /\ pc[r] = "done" /\ res[r] = "ok" /\ task[r].exp > 0
        /\ ~\E q \in Request : task[q].kind = "release" /\ task[q].sid = r
                                                      /\ task[q].op = task[r].op
        => lease[task[r].veh] # None /\ lease[task[r].veh].sid = r

\* A lease changes, other than by the passing of time, only through a script run for
\* its owner by a request that names its session: the session or the owner that was
\* checked some commands earlier may have been replaced since.
OnlyOwnerChanges ==
    [][\A v \in Vehicle :
        lease[v] # None =>
            \/ lease'[v] = lease[v]
            \/ pc' = pc /\ lease'[v] \in {None, [lease[v] EXCEPT !.px = @ - 1, !.exp = Elapse(@)]}
            \/ \E r \in Slot : /\ pc[r] = "script" /\ pc'[r] # "script"
                               /\ task[r].sid = lease[v].sid
                               /\ task[r].op = lease[v].op
      ]_vars

\* The gateway implements the abstract lease: one controller per vehicle, authorized,
\* never replaced, and never back once its lease has ended.
Lease == INSTANCE ControlLease WITH
            Session <- Request,
            holder <- [v \in Vehicle |-> IF lease[v] = None THEN None
                                         ELSE [sid |-> lease[v].sid, op |-> lease[v].op]]
LeaseSpec == Lease!Spec

\* A video record is in standby only when nobody uses it and no timer runs, and an
\* active record that nobody uses has a timer, or it would stay active for ever.
VideoRecordConsistent ==
    \A v \in Vehicle :
        /\ video[v].mode = "STANDBY" => Unused(video[v]) /\ video[v].grace = Unset
        /\ video[v].mode = "ACTIVE" => (Unused(video[v]) <=> video[v].grace # Unset)

\* Control ACTIVE implies video ACTIVE, once the acquire has been answered.
ControlImpliesVideo ==
    \A r \in Request :
        LET v == task[r].veh IN
        task[r].kind = "acquire" /\ pc[r] = "done" /\ res[r] = "ok"
            /\ lease[v] # None /\ lease[v].sid = r
        => video[v].mode = "ACTIVE"

\* The viewers of a vehicle that were let in, and the requests to leave that led to it.
LetIn(v) == {r \in Request : task[r].kind = "view" /\ task[r].veh = v /\ res[r] = "ok"}
Leaving(v) == {r \in Request : task[r].kind = "unview" /\ task[r].veh = v}

\* When no request is being handled, viewer_count is at least the number of viewers that
\* were let in less the requests to leave, whatever failed, crashed or was answered 404
\* on the way: a request counts out one viewer and no more, and nothing else does.
ViewersCovered ==
    InFlight = {} =>
        \A v \in Vehicle :
            video[v].count >= Cardinality(LetIn(v)) - Cardinality(Leaving(v))

\* The video is active at all times as long as fewer requests to leave have come than
\* viewers were let in.
WatchedImpliesActive ==
    \A v \in Vehicle :
        Cardinality(LetIn(v)) > Cardinality(Leaving(v)) => video[v].mode = "ACTIVE"

\* A lease that is not renewed is given up, whatever became of the handlers and
\* clients that held it.
LeaseFreed ==
    \A r \in Request :
        (\E v \in Vehicle : lease[v] # None /\ lease[v].sid = r)
            ~> ~(\E v \in Vehicle : lease[v] # None /\ lease[v].sid = r)

\* A video record without viewers and controller goes to standby, if it is asked for.
UnusedGoesStandby ==
    \A v \in Vehicle :
        Unused(video[v]) ~> (video[v].mode = "STANDBY" \/ ~Unused(video[v]))
=============================================================================
