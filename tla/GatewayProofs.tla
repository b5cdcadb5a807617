---------------------------- MODULE GatewayProofs ----------------------------
(***************************************************************************)
(* What holds of the gateway for any number of vehicles, operators,        *)
(* requests and pollers, for all timing constants and with every failure.  *)
(*                                                                         *)
(*   types             TypeCorrect                                         *)
(*   the lease         KeysAgree, ExpirySound, OwnerOnly, ImplementsLease  *)
(*   video records     RecordConsistent                                    *)
(*   granted sessions  GrantHolds                                          *)
(*   one by one        ControlShown, WatchShown, ViewersCounted            *)
(*   access checks     ControlImpliesObserve, DataNeedsControl             *)
(*                                                                         *)
(* The inductive invariants build on one another: LeaseInv and RunInv on   *)
(* TypeInv, SoundInv on RunInv, HeldInv on LeaseInv and RunInv, and        *)
(* SerialInv on HeldInv and SoundInv.                                      *)
(***************************************************************************)
EXTENDS Gateway, AccessControl, FiniteSetTheorems, TLAPS

-----------------------------------------------------------------------------
(* Types, and what a handler knows at each label.                          *)

\* The kinds of request whose handler comes by a label.
KindOK(l, k) ==
    /\ l \in {"acquireScript", "issueToken"} => k = "acquire"
    /\ l \in {"findIndex", "findLease"} => k = "release"
    /\ l \in {"getIndex", "getLease", "script"} => k \in {"acquire", "renew", "release"}
    /\ l \in {"getVideo", "expireVideo"} => k \in {"acquire", "release", "view", "unview", "poll"}
    /\ l = "saveVideo" => k \in {"acquire", "release", "view", "unview"}
    /\ l \in {"getViewer", "delViewer"} => k = "unview"
    /\ l = "indexViewer" => k = "view"

\* What the handler of r knows about its request, wherever it is ...
TaskOK(r, t) ==
    /\ t.kind \notin {"poll", "none"} => r \in Request
    /\ t.kind = "acquire" => t.sid = r /\ t.op \in Operator /\ t.veh \in Vehicle
    /\ t.kind \in {"renew", "release"} => t.sid \in Request /\ t.op \in Operator
    /\ t.kind \in {"view", "poll"} => t.veh \in Vehicle
    /\ t.kind = "unview" => t.sid \in Request

\* ... and at label l, with answer a.
LabelOK(l, t, a) ==
    /\ KindOK(l, t.kind)
    /\ t.kind \in {"renew", "release"} /\ l \in {"findLease", "getLease", "script", "getVideo",
                                                 "expireVideo", "saveVideo"}
          => t.veh \in Vehicle
    /\ t.kind = "unview" /\ l \in {"getVideo", "expireVideo", "saveVideo", "delViewer"}
          => t.veh \in Vehicle
    /\ t.kind = "view" /\ l = "indexViewer" => t.sid \in Request
    /\ t.kind = "view" /\ a = "ok" => l = "done" /\ t.sid \in Request
    /\ l = "acquireScript" => <<t.op, t.veh>> \in Authorized

HandlerOK(r, l, t, a) ==
    /\ TaskOK(r, t)
    /\ LabelOK(l, t, a)
    /\ l = "idle" => r \in Poller \/ a = "none"

HandlersOK ==
    /\ pc \in [Slot -> Label]
    /\ task \in [Slot -> Task]
    /\ res \in [Slot -> Answers]
    /\ \A r \in Slot : HandlerOK(r, pc[r], task[r], res[r])

\* Types, and what a handler at each label knows about its request.
TypeInv == StoreTypeOK /\ VideoTypeOK /\ HandlersOK

-----------------------------------------------------------------------------
(* A handler moves: nothing changes for the other handlers.                *)

LEMMA GotoOK ==
    ASSUME HandlersOK, NEW r \in Slot, NEW l \in Label, NEW t \in Task,
           Goto(r, l, t), HandlerOK(r, l, t, res[r])
    PROVE  HandlersOK'
<1>1. pc' \in [Slot -> Label] /\ task' \in [Slot -> Task] /\ res' \in [Slot -> Answers]
    BY DEF Goto, HandlersOK
<1>2. ASSUME NEW q \in Slot PROVE HandlerOK(q, pc'[q], task'[q], res'[q])
    <2>1. CASE q = r
        <3>1. pc'[q] = l /\ task'[q] = t /\ res'[q] = res[r]
            BY <2>1 DEF Goto, HandlersOK
        <3> QED BY <2>1, <3>1
    <2>2. CASE q # r
        <3>1. pc'[q] = pc[q] /\ task'[q] = task[q] /\ res'[q] = res[q]
            BY <2>2 DEF Goto, HandlersOK
        <3> QED BY <3>1 DEF HandlersOK
    <2> QED BY <2>1, <2>2
<1> QED BY <1>1, <1>2 DEF HandlersOK

LEMMA AbsentOK == Absent \in VideoRecord
BY VideoAssumption DEF Absent, VideoRecord, Unset

LEMMA ClosedOK ==
    ASSUME NEW t \in Task
    PROVE  /\ Closed(t) \in Task
           /\ Closed(t).kind = t.kind /\ Closed(t).op = t.op
           /\ Closed(t).veh = t.veh /\ Closed(t).sid = t.sid
<1>1. (IF t.kind = "acquire" THEN t.exp ELSE 0) \in 0 .. LeaseTTL
    BY LeaseAssumption DEF Task
<1> QED BY <1>1, AbsentOK DEF Closed, Task

LEMMA AnswerOK ==
    ASSUME HandlersOK, NEW r \in Slot, NEW a \in Answers, NEW t \in Task,
           Answer(r, a, t), TaskOK(r, t),
           t.kind = "view" /\ a = "ok" => t.sid \in Request
    PROVE  HandlersOK'
<1>1. /\ Stop(r) \in Label /\ Stop(r) \in {"idle", "done"}
      /\ r \in Poller <=> Stop(r) = "idle"
    BY DEF Stop, Label
<1>2. pc' \in [Slot -> Label] /\ task' \in [Slot -> Task] /\ res' \in [Slot -> Answers]
    BY <1>1, ClosedOK DEF Answer, HandlersOK
<1>3. HandlerOK(r, Stop(r), Closed(t), a)
    <2>1. TaskOK(r, Closed(t))
        BY ClosedOK DEF TaskOK
    <2>2. KindOK(Stop(r), t.kind)
        BY <1>1 DEF KindOK
    <2>3. t.kind = "view" => Stop(r) = "done"
        BY <1>1, GatewayAssumption DEF TaskOK
    <2>4. LabelOK(Stop(r), Closed(t), a)
        BY <1>1, <2>2, <2>3, ClosedOK DEF LabelOK
    <2> QED BY <1>1, <2>1, <2>4 DEF HandlerOK
<1>4. ASSUME NEW q \in Slot PROVE HandlerOK(q, pc'[q], task'[q], res'[q])
    <2>1. CASE q = r
        <3>1. pc'[q] = Stop(r) /\ task'[q] = Closed(t) /\ res'[q] = a
            BY <2>1 DEF Answer, HandlersOK
        <3> QED BY <1>3, <2>1, <3>1
    <2>2. CASE q # r
        <3>1. pc'[q] = pc[q] /\ task'[q] = task[q] /\ res'[q] = res[q]
            BY <2>2 DEF Answer, HandlersOK
        <3> QED BY <3>1 DEF HandlersOK
    <2> QED BY <2>1, <2>2
<1> QED BY <1>2, <1>4 DEF HandlersOK

\* A handler that is refused by the lease store gives an answer of its own.
LEMMA RefuseOK ==
    ASSUME HandlersOK, NEW r \in Slot, NEW a \in Answers, a # "ok", Refuse(r, a)
    PROVE  HandlersOK'
<1>1. task[r] \in Task /\ TaskOK(r, task[r])
    BY DEF HandlersOK, HandlerOK
<1>2. CASE task[r].kind = "acquire"
    <2>1. Answer(r, "error", task[r]) /\ "error" \in Answers
        BY <1>2 DEF Refuse, Answers
    <2> QED BY <1>1, <2>1, AnswerOK
<1>3. CASE task[r].kind # "acquire"
    <2>1. Answer(r, a, task[r])
        BY <1>3 DEF Refuse
    <2> QED BY <1>1, <2>1, AnswerOK
<1> QED BY <1>2, <1>3

\* So does one whose step fails, unless it goes on to roll back.
LEMMA OnErrorOK ==
    ASSUME HandlersOK, NEW r \in Slot, OnError(r)
    PROVE  HandlersOK'
<1>1. task[r] \in Task /\ HandlerOK(r, pc[r], task[r], res[r])
    BY DEF HandlersOK
<1>2. CASE task[r].kind = "acquire" /\ pc[r] \in {"getVideo", "expireVideo", "saveVideo", "issueToken"}
    <2> DEFINE t == [task[r] EXCEPT !.buf = Absent, !.exp = 0]
    <2>1. t \in Task /\ t.kind = "acquire" /\ t.op = task[r].op
             /\ t.veh = task[r].veh /\ t.sid = task[r].sid
        <3>1. 0 \in 0 .. LeaseTTL
            BY LeaseAssumption
        <3> QED BY <1>1, <1>2, <3>1, AbsentOK DEF Task
    <2>2. HandlerOK(r, "getIndex", t, res[r])
        BY <1>1, <1>2, <2>1 DEF HandlerOK, TaskOK, LabelOK, KindOK
    <2>3. Goto(r, "getIndex", t) /\ "getIndex" \in Label
        BY <1>2 DEF OnError, Label
    <2> QED BY <2>1, <2>2, <2>3, GotoOK
<1>3. CASE pc[r] = "delViewer"
    <2>1. Goto(r, "saveVideo", task[r]) /\ "saveVideo" \in Label
        BY <1>3 DEF OnError, Label
    <2>2. HandlerOK(r, "saveVideo", task[r], res[r])
        BY <1>1, <1>3 DEF HandlerOK, TaskOK, LabelOK, KindOK
    <2> QED BY <1>1, <2>1, <2>2, GotoOK
<1>4. CASE pc[r] # "delViewer"
           /\ ~(task[r].kind = "acquire" /\ pc[r] \in {"getVideo", "expireVideo", "saveVideo", "issueToken"})
    <2>1. Answer(r, "error", task[r]) /\ "error" \in Answers /\ "error" # "ok"
        BY <1>4 DEF OnError, Answers
    <2> QED BY <1>1, <2>1, AnswerOK DEF HandlerOK
<1> QED BY <1>2, <1>3, <1>4

-----------------------------------------------------------------------------
(* What the stores' operations return.                                     *)

LEMMA InStandbyOK ==
    ASSUME NEW s \in VideoRecord
    PROVE  InStandby(s) \in VideoRecord
<1>1. Unset \in -1 .. Grace
    BY VideoAssumption DEF Unset
<1> QED BY <1>1 DEF InStandby, VideoRecord

LEMMA VideoOps ==
    ASSUME NEW s \in VideoRecord, NEW r \in Request, NEW c \in Request
    PROVE  /\ AcquireViewer(s, r) \in VideoRecord
           /\ AcquireViewer(s, r).vsid \in Request
           /\ SetController(s, r, c) \in VideoRecord
           /\ ReleaseViewer(s) \in VideoRecord
           /\ ClearController(s, c) \in VideoRecord
<1> DEFINE Timer == -1 .. Grace
<1>t. Unset \in Timer /\ Grace \in Timer
    BY VideoAssumption DEF Unset
<1>r. VideoRecord = [vsid : Request \cup {None}, mode : {"STANDBY", "ACTIVE"}, count : Nat,
                     ctrl : Request \cup {None}, grace : Timer]
    BY DEF VideoRecord
<1> HIDE DEF Timer
<1>2. /\ Activated(s, r) \in VideoRecord
      /\ Activated(s, r).vsid \in Request
    <2>1. (IF s.vsid = None THEN r ELSE s.vsid) \in Request
        BY <1>r
    <2> QED BY <1>t, <1>r, <2>1 DEF Activated
<1>3. AcquireViewer(s, r) \in VideoRecord /\ AcquireViewer(s, r).vsid \in Request
    BY <1>2 DEF AcquireViewer, VideoRecord
<1>4. SetController(s, r, c) \in VideoRecord
    BY <1>2 DEF SetController, VideoRecord
<1>5. ASSUME NEW u \in VideoRecord PROVE AfterViewerChange(u) \in VideoRecord
    BY <1>t, <1>r DEF AfterViewerChange
<1>6. ReleaseViewer(s) \in VideoRecord
    <2>1. [s EXCEPT !.count = IF @ > 0 THEN @ - 1 ELSE @] \in VideoRecord
        BY DEF VideoRecord
    <2> QED BY <1>5, <2>1 DEF ReleaseViewer
<1>7. ClearController(s, c) \in VideoRecord
    <2>1. [s EXCEPT !.ctrl = IF @ = c THEN None ELSE @] \in VideoRecord
        BY DEF VideoRecord
    <2> QED BY <1>5, <2>1 DEF ClearController
<1> QED BY <1>3, <1>4, <1>6, <1>7

LEMMA ElapseOK ==
    /\ \A s \in VideoRecord : ElapseGrace(s) \in VideoRecord
    /\ \A e \in 0 .. LeaseTTL : Elapse(e) \in 0 .. LeaseTTL
<1>1. ASSUME NEW s \in VideoRecord PROVE ElapseGrace(s) \in VideoRecord
    BY VideoAssumption DEF ElapseGrace, VideoRecord
<1>2. ASSUME NEW e \in 0 .. LeaseTTL PROVE Elapse(e) \in 0 .. LeaseTTL
    BY LeaseAssumption DEF Elapse
<1> QED BY <1>1, <1>2

LEMMA SaveOK ==
    ASSUME VideoTypeOK, NEW v \in Vehicle, NEW s \in VideoRecord, Save(v, s), UNCHANGED viewer
    PROVE  VideoTypeOK'
BY DEF VideoTypeOK, Save

LEMMA ScriptsOK ==
    ASSUME StoreTypeOK, NEW v \in Vehicle, NEW s \in Request, NEW o \in Operator,
           NEW e \in 0 .. LeaseTTL,
           \/ AcquireScript(v, s, o, e)
           \/ RenewReply(v, s, o) = 1 /\ RenewScript(v, s, e)
           \/ ReleaseScript(v, s)
    PROVE  StoreTypeOK'
<1> LeaseTTL \in 1 .. LeaseTTL
    BY LeaseAssumption
<1>1. CASE AcquireScript(v, s, o, e)
    BY <1>1 DEF AcquireScript, StoreTypeOK, Session, IndexEntry
<1>2. CASE RenewReply(v, s, o) = 1 /\ RenewScript(v, s, e)
    <2>1. lease[v] \in Session
        BY <1>2 DEF RenewReply, StoreTypeOK
    <2>2. [lease[v] EXCEPT !.exp = e, !.px = LeaseTTL] \in Session
        BY <2>1 DEF Session
    <2>3. [veh |-> v, px |-> LeaseTTL] \in IndexEntry
        BY DEF IndexEntry
    <2> QED BY <1>2, <2>2, <2>3 DEF RenewScript, StoreTypeOK
<1>3. CASE ReleaseScript(v, s)
    BY <1>3 DEF ReleaseScript, StoreTypeOK
<1> QED BY <1>1, <1>2, <1>3

-----------------------------------------------------------------------------
(* One lemma per group of actions.                                         *)

LEMMA NoTaskOK ==
    /\ NoTask \in Task
    /\ \A e \in {0, LeaseTTL} : e \in 0 .. LeaseTTL
<1>1. \A e \in {0, LeaseTTL} : e \in 0 .. LeaseTTL
    BY LeaseAssumption
<1> QED BY <1>1, AbsentOK DEF NoTask, Task

LEMMA SubmitOK ==
    ASSUME TypeInv, NEW r \in Slot, Submit(r)
    PROVE  TypeInv'
<1>1. ASSUME NEW l \in Label, NEW t \in Task, Start(r, l, t), HandlerOK(r, l, t, res[r])
      PROVE  TypeInv'
    <2>1. HandlersOK'
        BY <1>1, GotoOK DEF TypeInv, Start
    <2>2. StoreTypeOK' /\ VideoTypeOK'
        BY <1>1 DEF TypeInv, Start, storeVars, videoVars, StoreTypeOK, VideoTypeOK
    <2> QED BY <2>1, <2>2 DEF TypeInv
<1>2. ASSUME NEW o \in Operator, NEW v \in Vehicle, StartAcquire(r, o, v) PROVE TypeInv'
    <2> DEFINE t == [NoTask EXCEPT !.kind = "acquire", !.op = o, !.veh = v,
                                   !.sid = r, !.exp = LeaseTTL]
    <2>1. t \in Task /\ t.kind = "acquire" /\ t.op = o /\ t.veh = v /\ t.sid = r
        BY <1>2, NoTaskOK DEF StartAcquire, Task
    <2>2. HandlerOK(r, "acquireScript", t, res[r])
        BY <1>2, <2>1 DEF StartAcquire, HandlerOK, TaskOK, LabelOK, KindOK
    <2>3. "acquireScript" \in Label
        BY DEF Label
    <2> QED BY <1>1, <1>2, <2>1, <2>2, <2>3 DEF StartAcquire
<1>3. ASSUME NEW o \in Operator, NEW s \in Request, StartRenew(r, o, s) PROVE TypeInv'
    <2> DEFINE t == [NoTask EXCEPT !.kind = "renew", !.op = o, !.sid = s]
    <2>1. t \in Task /\ t.kind = "renew" /\ t.op = o /\ t.sid = s
        BY NoTaskOK DEF Task
    <2>2. HandlerOK(r, "getIndex", t, res[r])
        BY <1>3, <2>1 DEF StartRenew, HandlerOK, TaskOK, LabelOK, KindOK
    <2>3. "getIndex" \in Label
        BY DEF Label
    <2> QED BY <1>1, <1>3, <2>1, <2>2, <2>3 DEF StartRenew
<1>4. ASSUME NEW o \in Operator, NEW s \in Request, StartRelease(r, o, s) PROVE TypeInv'
    <2> DEFINE t == [NoTask EXCEPT !.kind = "release", !.op = o, !.sid = s]
    <2>1. t \in Task /\ t.kind = "release" /\ t.op = o /\ t.sid = s
        BY NoTaskOK DEF Task
    <2>2. HandlerOK(r, "findIndex", t, res[r])
        BY <1>4, <2>1 DEF StartRelease, HandlerOK, TaskOK, LabelOK, KindOK
    <2>3. "findIndex" \in Label
        BY DEF Label
    <2> QED BY <1>1, <1>4, <2>1, <2>2, <2>3 DEF StartRelease
<1>5. ASSUME NEW o \in Operator, NEW v \in Vehicle, StartView(r, o, v) PROVE TypeInv'
    <2> DEFINE t == [NoTask EXCEPT !.kind = "view", !.op = o, !.veh = v]
    <2>1. t \in Task /\ t.kind = "view" /\ t.veh = v
        BY NoTaskOK DEF Task
    <2> res[r] = "none"
        BY <1>5, GatewayAssumption DEF StartView, Start, TypeInv, HandlersOK, HandlerOK
    <2>2. HandlerOK(r, "getVideo", t, res[r])
        BY <1>5, <2>1 DEF StartView, HandlerOK, TaskOK, LabelOK, KindOK
    <2>3. "getVideo" \in Label
        BY DEF Label
    <2> QED BY <1>1, <1>5, <2>1, <2>2, <2>3 DEF StartView
<1>6. ASSUME NEW v \in Vehicle, StartPoll(r, v) PROVE TypeInv'
    <2> DEFINE t == [NoTask EXCEPT !.kind = "poll", !.veh = v]
    <2>1. t \in Task /\ t.kind = "poll" /\ t.veh = v
        BY NoTaskOK DEF Task
    <2>2. HandlerOK(r, "getVideo", t, res[r])
        BY <1>6, <2>1 DEF StartPoll, HandlerOK, TaskOK, LabelOK, KindOK
    <2>3. "getVideo" \in Label
        BY DEF Label
    <2> QED BY <1>1, <1>6, <2>1, <2>2, <2>3 DEF StartPoll
<1>7. ASSUME NEW o \in Operator, NEW s \in Request, StartUnview(r, o, s) PROVE TypeInv'
    <2> DEFINE t == [NoTask EXCEPT !.kind = "unview", !.op = o, !.sid = s]
    <2>1. t \in Task /\ t.kind = "unview" /\ t.op = o /\ t.sid = s
        BY NoTaskOK DEF Task
    <2>2. HandlerOK(r, "getViewer", t, res[r])
        BY <1>7, <2>1 DEF StartUnview, HandlerOK, TaskOK, LabelOK, KindOK
    <2>3. "getViewer" \in Label
        BY DEF Label
    <2> QED BY <1>1, <1>7, <2>1, <2>2, <2>3 DEF StartUnview
<1> QED BY <1>2, <1>3, <1>4, <1>5, <1>6, <1>7 DEF Submit

LEMMA UnmovedOK ==
    /\ StoreTypeOK /\ UNCHANGED storeVars => StoreTypeOK'
    /\ VideoTypeOK /\ UNCHANGED videoVars => VideoTypeOK'
BY DEF storeVars, videoVars, StoreTypeOK, VideoTypeOK

\* The task of a handler, at its label.
LEMMA Known ==
    ASSUME TypeInv, NEW r \in Slot
    PROVE  /\ task[r] \in Task /\ pc[r] \in Label /\ res[r] \in Answers
           /\ TaskOK(r, task[r]) /\ LabelOK(pc[r], task[r], res[r])
           /\ KindOK(pc[r], task[r].kind)
           /\ task[r].buf \in VideoRecord /\ task[r].exp \in 0 .. LeaseTTL
           /\ task[r].kind \in {"none", "acquire", "renew", "release", "view", "unview", "poll"}
<1>1. task[r] \in Task /\ pc[r] \in Label /\ res[r] \in Answers
        /\ HandlerOK(r, pc[r], task[r], res[r])
    BY DEF TypeInv, HandlersOK
<1>2. task[r].buf \in VideoRecord /\ task[r].exp \in 0 .. LeaseTTL
        /\ task[r].kind \in {"none", "acquire", "renew", "release", "view", "unview", "poll"}
    BY <1>1 DEF Task
<1> QED BY <1>1, <1>2 DEF HandlerOK, LabelOK

LEMMA AcquireControlOK ==
    ASSUME TypeInv, NEW r \in Slot, AcquireControl(r)
    PROVE  TypeInv'
<1> DEFINE t == task[r]
<1>1. /\ t \in Task /\ t.kind = "acquire" /\ t.sid = r /\ r \in Request
      /\ t.op \in Operator /\ t.veh \in Vehicle /\ t.exp \in 0 .. LeaseTTL /\ TaskOK(r, t)
    BY Known DEF AcquireControl, TaskOK, KindOK
<1>2. VideoTypeOK'
    BY UnmovedOK DEF AcquireControl, TypeInv
<1>3. CASE AcquireReply(t.veh) = 0
    <2>1. Answer(r, "held", t) /\ UNCHANGED storeVars /\ "held" \in Answers
        BY <1>3 DEF AcquireControl, Answers
    <2> QED BY <1>1, <1>2, <2>1, AnswerOK, UnmovedOK DEF TypeInv
<1>4. CASE AcquireReply(t.veh) # 0
    <2>1. AcquireScript(t.veh, t.sid, t.op, t.exp) /\ Goto(r, "getVideo", t) /\ "getVideo" \in Label
        BY <1>4 DEF AcquireControl, Label
    <2>2. StoreTypeOK'
        BY <1>1, <2>1, ScriptsOK DEF TypeInv
    <2>3. HandlerOK(r, "getVideo", t, res[r])
        BY <1>1 DEF HandlerOK, LabelOK, KindOK
    <2>4. HandlersOK'
        BY <1>1, <2>1, <2>3, GotoOK DEF TypeInv
    <2> QED BY <1>2, <2>2, <2>4 DEF TypeInv
<1> QED BY <1>3, <1>4

LEMMA GetIndexOK ==
    ASSUME TypeInv, NEW r \in Slot, GetIndex(r)
    PROVE  TypeInv'
<1> DEFINE t == task[r]
           entry == index[t.sid]
           u == [t EXCEPT !.veh = entry.veh]
           l == IF pc[r] = "findIndex" THEN "findLease" ELSE "getLease"
<1>1. /\ t \in Task /\ TaskOK(r, t) /\ KindOK(pc[r], t.kind)
      /\ pc[r] \in {"findIndex", "getIndex"}
      /\ t.kind \in {"acquire", "renew", "release"} /\ t.sid \in Request
    BY Known DEF GetIndex, TaskOK, KindOK
<1>2. StoreTypeOK' /\ VideoTypeOK'
    BY UnmovedOK DEF GetIndex, TypeInv
<1>3. CASE entry = None
    <2>1. Refuse(r, "notFound") /\ "notFound" \in Answers /\ "notFound" # "ok"
        BY <1>3 DEF GetIndex, Answers
    <2> QED BY <1>2, <2>1, RefuseOK DEF TypeInv
<1>4. CASE entry # None
    <2>1. entry.veh \in Vehicle
        BY <1>1, <1>4 DEF TypeInv, StoreTypeOK, IndexEntry
    <2>2. u \in Task /\ u.kind = t.kind /\ u.op = t.op /\ u.sid = t.sid /\ u.veh \in Vehicle
        BY <1>1, <2>1 DEF Task
    <2>3. Goto(r, l, u) /\ l \in Label
        BY <1>4 DEF GetIndex, Label
    <2>4. HandlerOK(r, l, u, res[r])
        BY <1>1, <2>2 DEF HandlerOK, TaskOK, LabelOK, KindOK
    <2>5. HandlersOK'
        BY <2>2, <2>3, <2>4, GotoOK DEF TypeInv
    <2> QED BY <1>2, <2>5 DEF TypeInv
<1> QED BY <1>3, <1>4

LEMMA GetLeaseOK ==
    ASSUME TypeInv, NEW r \in Slot, GetLease(r)
    PROVE  TypeInv'
<1> DEFINE t == task[r]
<1>1. /\ t \in Task /\ TaskOK(r, t) /\ LabelOK(pc[r], t, res[r]) /\ KindOK(pc[r], t.kind)
      /\ pc[r] \in {"findLease", "getLease"}
      /\ t.kind \in {"acquire", "renew", "release"} /\ t.exp \in 0 .. LeaseTTL
    BY Known DEF GetLease, KindOK
<1>2. StoreTypeOK' /\ VideoTypeOK'
    BY UnmovedOK DEF GetLease, TypeInv
<1>3. CASE ~Found(r)
    <2>1. Refuse(r, "notFound") /\ "notFound" \in Answers /\ "notFound" # "ok"
        BY <1>3 DEF GetLease, Answers
    <2> QED BY <1>2, <2>1, RefuseOK DEF TypeInv
<1>4. CASE Found(r) /\ pc[r] = "findLease"
    <2>1. Goto(r, "getIndex", t) /\ "getIndex" \in Label
        BY <1>4 DEF GetLease, Label
    <2>2. HandlerOK(r, "getIndex", t, res[r])
        BY <1>1 DEF HandlerOK, TaskOK, LabelOK, KindOK
    <2> QED BY <1>1, <1>2, <2>1, <2>2, GotoOK DEF TypeInv
<1>5. CASE Found(r) /\ pc[r] = "getLease" /\ ~Owned(r)
    <2>1. Refuse(r, "owner") /\ "owner" \in Answers /\ "owner" # "ok"
        BY <1>5 DEF GetLease, Answers
    <2> QED BY <1>2, <2>1, RefuseOK DEF TypeInv
<1>6. CASE Found(r) /\ pc[r] = "getLease" /\ Owned(r)
    <2> DEFINE e == IF t.kind = "renew" THEN LeaseTTL ELSE t.exp
               u == [t EXCEPT !.exp = IF task[r].kind = "renew" THEN LeaseTTL ELSE @]
    <2>1. e \in 0 .. LeaseTTL
        BY <1>1, NoTaskOK
    <2>2. u \in Task /\ u.kind = t.kind /\ u.op = t.op /\ u.sid = t.sid /\ u.veh = t.veh
        BY <1>1, <2>1 DEF Task
    <2>3. Goto(r, "script", u) /\ "script" \in Label
        BY <1>6 DEF GetLease, Label
    <2>4. HandlerOK(r, "script", u, res[r])
        BY <1>1, <1>6, <2>2 DEF HandlerOK, TaskOK, LabelOK, KindOK
    <2> QED BY <1>2, <2>2, <2>3, <2>4, GotoOK DEF TypeInv
<1> QED BY <1>1, <1>3, <1>4, <1>5, <1>6

\* Both scripts that need the caller's own lease.
LEMMA ScriptKnown ==
    ASSUME TypeInv, NEW r \in Slot, pc[r] = "script"
    PROVE  /\ task[r] \in Task /\ TaskOK(r, task[r]) /\ task[r].exp \in 0 .. LeaseTTL
           /\ task[r].kind \in {"acquire", "renew", "release"}
           /\ task[r].veh \in Vehicle /\ task[r].sid \in Request /\ task[r].op \in Operator
<1>1. task[r] \in Task /\ TaskOK(r, task[r]) /\ LabelOK("script", task[r], res[r])
        /\ KindOK("script", task[r].kind) /\ task[r].exp \in 0 .. LeaseTTL
    BY Known
<1> QED BY <1>1 DEF TaskOK, LabelOK, KindOK

LEMMA RenewControlOK ==
    ASSUME TypeInv, NEW r \in Slot, RenewControl(r)
    PROVE  TypeInv'
<1> DEFINE t == task[r]
           reply == RenewReply(t.veh, t.sid, t.op)
<1>1. /\ t \in Task /\ TaskOK(r, t) /\ t.exp \in 0 .. LeaseTTL /\ t.kind = "renew"
      /\ t.veh \in Vehicle /\ t.sid \in Request /\ t.op \in Operator
    BY ScriptKnown DEF RenewControl
<1>2. VideoTypeOK'
    BY UnmovedOK DEF RenewControl, TypeInv
<1>3. CASE reply = 1
    <2>1. RenewScript(t.veh, t.sid, t.exp) /\ Answer(r, "ok", t) /\ "ok" \in Answers
        BY <1>3 DEF RenewControl, Answers
    <2>2. StoreTypeOK'
        BY <1>1, <1>3, <2>1, ScriptsOK DEF TypeInv
    <2>3. HandlersOK'
        BY <1>1, <2>1, AnswerOK DEF TypeInv
    <2> QED BY <1>2, <2>2, <2>3 DEF TypeInv
<1>4. CASE reply # 1
    <2>1. UNCHANGED storeVars /\ Refuse(r, Refusal(reply))
        BY <1>4 DEF RenewControl
    <2>2. Refusal(reply) \in Answers /\ Refusal(reply) # "ok"
        BY DEF Refusal, Answers
    <2> QED BY <1>2, <2>1, <2>2, RefuseOK, UnmovedOK DEF TypeInv
<1> QED BY <1>3, <1>4

LEMMA ReleaseControlOK ==
    ASSUME TypeInv, NEW r \in Slot, ReleaseControl(r)
    PROVE  TypeInv'
<1> DEFINE t == task[r]
           reply == ReleaseReply(t.veh, t.sid, t.op)
<1>1. /\ t \in Task /\ TaskOK(r, t) /\ t.exp \in 0 .. LeaseTTL /\ t.kind \in {"release", "acquire"}
      /\ t.veh \in Vehicle /\ t.sid \in Request /\ t.op \in Operator
    BY ScriptKnown DEF ReleaseControl
<1>2. VideoTypeOK'
    BY UnmovedOK DEF ReleaseControl, TypeInv
<1>3. CASE reply = 1
    <2>1. ReleaseScript(t.veh, t.sid)
        BY <1>3 DEF ReleaseControl
    <2>2. StoreTypeOK'
        BY <1>1, <2>1, ScriptsOK DEF TypeInv
    <2>3. CASE t.kind = "release"
        <3>1. Goto(r, "getVideo", t) /\ "getVideo" \in Label
            BY <1>3, <2>3 DEF ReleaseControl, Label
        <3>2. HandlerOK(r, "getVideo", t, res[r])
            BY <1>1, <2>3 DEF HandlerOK, LabelOK, KindOK
        <3> QED BY <1>1, <1>2, <2>2, <3>1, <3>2, GotoOK DEF TypeInv
    <2>4. CASE t.kind = "acquire"
        <3>1. Answer(r, "error", t) /\ "error" \in Answers
            BY <1>3, <2>4 DEF ReleaseControl, Answers
        <3>2. HandlersOK'
            BY <1>1, <2>4, <3>1, AnswerOK DEF TypeInv
        <3> QED BY <1>2, <2>2, <3>2 DEF TypeInv
    <2> QED BY <1>1, <2>3, <2>4
<1>4. CASE reply # 1
    <2>1. UNCHANGED storeVars /\ Refuse(r, Refusal(reply))
        BY <1>4 DEF ReleaseControl
    <2>2. Refusal(reply) \in Answers /\ Refusal(reply) # "ok"
        BY DEF Refusal, Answers
    <2> QED BY <1>2, <2>1, <2>2, RefuseOK, UnmovedOK DEF TypeInv
<1> QED BY <1>3, <1>4

\* What a handler of the video store knows.
LEMMA VideoKnown ==
    ASSUME TypeInv, NEW r \in Slot, pc[r] \in {"getVideo", "expireVideo", "saveVideo"}
    PROVE  /\ task[r] \in Task /\ TaskOK(r, task[r]) /\ KindOK(pc[r], task[r].kind)
           /\ task[r].kind \in {"acquire", "release", "view", "unview", "poll"}
           /\ task[r].veh \in Vehicle /\ task[r].buf \in VideoRecord
           /\ ~(task[r].kind = "view" /\ res[r] = "ok")
<1>1. /\ task[r] \in Task /\ TaskOK(r, task[r]) /\ LabelOK(pc[r], task[r], res[r])
      /\ KindOK(pc[r], task[r].kind) /\ task[r].buf \in VideoRecord
    BY Known
<1>2. task[r].kind \in {"acquire", "release", "view", "unview", "poll"}
    BY <1>1 DEF KindOK
<1>3. task[r].veh \in Vehicle /\ ~(task[r].kind = "view" /\ res[r] = "ok")
    BY <1>1, <1>2 DEF TaskOK, LabelOK
<1> QED BY <1>1, <1>2, <1>3

LEMMA GotVideoOK ==
    ASSUME TypeInv, NEW r \in Slot, pc[r] \in {"getVideo", "expireVideo"},
           NEW s \in VideoRecord, GotVideo(r, s)
    PROVE  HandlersOK'
<1> DEFINE t == [task[r] EXCEPT !.buf = s]
           l == IF t.kind = "unview" THEN "delViewer" ELSE "saveVideo"
<1>1. /\ task[r] \in Task /\ TaskOK(r, task[r]) /\ task[r].veh \in Vehicle
      /\ task[r].kind \in {"acquire", "release", "view", "unview", "poll"}
      /\ ~(task[r].kind = "view" /\ res[r] = "ok")
    BY VideoKnown
<1>2. /\ t \in Task /\ t.kind = task[r].kind /\ t.op = task[r].op
      /\ t.sid = task[r].sid /\ t.veh = task[r].veh
    BY <1>1 DEF Task
<1>3. TaskOK(r, t)
    BY <1>1, <1>2 DEF TaskOK
<1>4. CASE t.kind = "poll"
    <2>1. Answer(r, "ok", t) /\ "ok" \in Answers
        BY <1>4 DEF GotVideo, Answers
    <2> QED BY <1>2, <1>3, <1>4, <2>1, AnswerOK DEF TypeInv
<1>5. CASE t.kind # "poll"
    <2>1. Goto(r, l, t) /\ l \in Label
        BY <1>5 DEF GotVideo, Label
    <2>2. HandlerOK(r, l, t, res[r])
        BY <1>1, <1>2, <1>3, <1>5 DEF HandlerOK, LabelOK, KindOK
    <2> QED BY <1>2, <2>1, <2>2, GotoOK DEF TypeInv
<1> QED BY <1>4, <1>5

LEMMA GetVideoOK ==
    ASSUME TypeInv, NEW r \in Slot, GetVideo(r)
    PROVE  TypeInv'
<1> DEFINE s == video[task[r].veh]
           t == [task[r] EXCEPT !.buf = s]
<1>1. /\ task[r] \in Task /\ TaskOK(r, task[r]) /\ task[r].veh \in Vehicle
      /\ task[r].kind \in {"acquire", "release", "view", "unview", "poll"} /\ pc[r] = "getVideo"
      /\ ~(task[r].kind = "view" /\ res[r] = "ok")
    BY VideoKnown DEF GetVideo
<1>2. s \in VideoRecord
    BY <1>1 DEF TypeInv, VideoTypeOK
<1>3. StoreTypeOK' /\ VideoTypeOK'
    BY UnmovedOK DEF GetVideo, TypeInv
<1>4. CASE GraceOver(s)
    <2>1. Goto(r, "expireVideo", t) /\ "expireVideo" \in Label
        BY <1>4 DEF GetVideo, Label
    <2>2. /\ t \in Task /\ t.kind = task[r].kind /\ t.op = task[r].op
          /\ t.sid = task[r].sid /\ t.veh = task[r].veh
        BY <1>1, <1>2 DEF Task
    <2>3. HandlerOK(r, "expireVideo", t, res[r])
        BY <1>1, <2>2 DEF HandlerOK, TaskOK, LabelOK, KindOK
    <2> QED BY <1>3, <2>1, <2>2, <2>3, GotoOK DEF TypeInv
<1>5. CASE ~GraceOver(s)
    <2>1. GotVideo(r, s)
        BY <1>5 DEF GetVideo
    <2> QED BY <1>1, <1>2, <1>3, <2>1, GotVideoOK DEF TypeInv
<1> QED BY <1>4, <1>5

LEMMA ExpireVideoOK ==
    ASSUME TypeInv, NEW r \in Slot, ExpireVideo(r)
    PROVE  TypeInv'
<1> DEFINE s == InStandby(task[r].buf)
<1>1. task[r].veh \in Vehicle /\ task[r].buf \in VideoRecord /\ pc[r] = "expireVideo"
    BY VideoKnown DEF ExpireVideo
<1>2. s \in VideoRecord
    BY <1>1, InStandbyOK
<1>3. Save(task[r].veh, s) /\ GotVideo(r, s) /\ UNCHANGED viewer /\ UNCHANGED storeVars
    BY DEF ExpireVideo
<1>4. VideoTypeOK'
    BY <1>1, <1>2, <1>3, SaveOK DEF TypeInv
<1>5. HandlersOK'
    BY <1>1, <1>2, <1>3, GotVideoOK
<1> QED BY <1>3, <1>4, <1>5, UnmovedOK DEF TypeInv

LEMMA ChangedOK ==
    ASSUME TypeInv, NEW r \in Slot, pc[r] = "saveVideo"
    PROVE  /\ Changed(r) \in VideoRecord
           /\ task[r].kind = "view" => Changed(r).vsid \in Request
<1>1. /\ task[r].kind \in {"acquire", "release", "view", "unview"} /\ task[r].buf \in VideoRecord
      /\ TaskOK(r, task[r])
    BY VideoKnown DEF KindOK
<1>2. r \in Request
    BY <1>1 DEF TaskOK
<1>3. task[r].kind \in {"acquire", "release"} => task[r].sid \in Request
    BY <1>1, <1>2 DEF TaskOK
<1>4. CASE task[r].kind = "acquire"
    <2>1. Changed(r) = SetController(task[r].buf, r, task[r].sid)
        BY <1>4 DEF Changed
    <2> QED BY <1>1, <1>2, <1>3, <1>4, <2>1, VideoOps
<1>5. CASE task[r].kind = "release"
    <2>1. Changed(r) = ClearController(task[r].buf, task[r].sid)
        BY <1>5 DEF Changed
    <2> QED BY <1>1, <1>2, <1>3, <1>5, <2>1, VideoOps
<1>6. CASE task[r].kind = "view"
    <2>1. Changed(r) = AcquireViewer(task[r].buf, r)
        BY <1>6 DEF Changed
    <2> QED BY <1>1, <1>2, <1>6, <2>1, VideoOps
<1>7. CASE task[r].kind = "unview"
    <2>1. Changed(r) = ReleaseViewer(task[r].buf)
        BY <1>7 DEF Changed
    <2> QED BY <1>1, <1>2, <1>7, <2>1, VideoOps
<1> QED BY <1>1, <1>4, <1>5, <1>6, <1>7

LEMMA SaveVideoOK ==
    ASSUME TypeInv, NEW r \in Slot, SaveVideo(r)
    PROVE  TypeInv'
<1> DEFINE t == [task[r] EXCEPT !.buf = Absent]
           u == [t EXCEPT !.sid = Changed(r).vsid]
<1>1. /\ task[r] \in Task /\ TaskOK(r, task[r]) /\ task[r].veh \in Vehicle
      /\ task[r].kind \in {"acquire", "release", "view", "unview"} /\ pc[r] = "saveVideo"
      /\ ~(task[r].kind = "view" /\ res[r] = "ok")
    BY VideoKnown DEF SaveVideo, KindOK
<1>2. /\ t \in Task /\ t.kind = task[r].kind /\ t.op = task[r].op
      /\ t.sid = task[r].sid /\ t.veh = task[r].veh
    BY <1>1, AbsentOK DEF Task
<1>3. TaskOK(r, t)
    BY <1>1, <1>2 DEF TaskOK
<1>4. /\ Changed(r) \in VideoRecord
      /\ task[r].kind = "view" => Changed(r).vsid \in Request
    BY <1>1, ChangedOK
<1>5. Save(task[r].veh, Changed(r)) /\ UNCHANGED viewer /\ UNCHANGED storeVars
    BY <1>2 DEF SaveVideo
<1>6. VideoTypeOK' /\ StoreTypeOK'
    BY <1>1, <1>4, <1>5, SaveOK, UnmovedOK DEF TypeInv
<1>7. CASE t.kind = "acquire"
    <2>1. Goto(r, "issueToken", t) /\ "issueToken" \in Label
        BY <1>7 DEF SaveVideo, Label
    <2>2. HandlerOK(r, "issueToken", t, res[r])
        BY <1>3, <1>7 DEF HandlerOK, LabelOK, KindOK
    <2> QED BY <1>2, <1>6, <2>1, <2>2, GotoOK DEF TypeInv
<1>8. CASE t.kind = "view"
    <2>1. Goto(r, "indexViewer", u) /\ "indexViewer" \in Label
        BY <1>8 DEF SaveVideo, Label
    <2>2. u \in Task /\ u.kind = "view" /\ u.veh = t.veh /\ u.sid \in Request
        BY <1>2, <1>4, <1>8 DEF Task
    <2>3. HandlerOK(r, "indexViewer", u, res[r])
        BY <1>1, <1>2, <1>3, <1>8, <2>2 DEF HandlerOK, TaskOK, LabelOK, KindOK
    <2> QED BY <1>6, <2>1, <2>2, <2>3, GotoOK DEF TypeInv
<1>9. CASE t.kind \in {"release", "unview"}
    <2>1. Answer(r, "ok", t) /\ "ok" \in Answers
        BY <1>9 DEF SaveVideo, Answers
    <2> QED BY <1>2, <1>3, <1>6, <1>9, <2>1, AnswerOK DEF TypeInv
<1> QED BY <1>1, <1>2, <1>7, <1>8, <1>9

LEMMA IndexViewerOK ==
    ASSUME TypeInv, NEW r \in Slot, IndexViewer(r)
    PROVE  TypeInv'
<1>1. /\ task[r] \in Task /\ TaskOK(r, task[r]) /\ task[r].kind = "view"
      /\ task[r].sid \in Request /\ task[r].veh \in Vehicle
    BY Known DEF IndexViewer, TaskOK, LabelOK, KindOK
<1>2. VideoTypeOK'
    BY <1>1 DEF TypeInv, VideoTypeOK, IndexViewer
<1>3. Answer(r, "ok", task[r]) /\ "ok" \in Answers /\ UNCHANGED storeVars
    BY DEF IndexViewer, Answers
<1>4. HandlersOK'
    BY <1>1, <1>3, AnswerOK DEF TypeInv
<1> QED BY <1>2, <1>3, <1>4, UnmovedOK DEF TypeInv

LEMMA GetViewerOK ==
    ASSUME TypeInv, NEW r \in Slot, GetViewer(r)
    PROVE  TypeInv'
<1> DEFINE v == viewer[task[r].sid]
           t == [task[r] EXCEPT !.veh = v]
<1>1. /\ task[r] \in Task /\ TaskOK(r, task[r]) /\ task[r].kind = "unview" /\ task[r].sid \in Request
    BY Known DEF GetViewer, TaskOK, KindOK
<1>2. StoreTypeOK' /\ VideoTypeOK'
    BY UnmovedOK DEF GetViewer, TypeInv
<1>3. CASE v = None
    <2>1. Answer(r, "notFound", task[r]) /\ "notFound" \in Answers
        BY <1>3 DEF GetViewer, Answers
    <2> QED BY <1>1, <1>2, <2>1, AnswerOK DEF TypeInv
<1>4. CASE v # None
    <2>1. v \in Vehicle
        BY <1>1, <1>4 DEF TypeInv, VideoTypeOK
    <2>2. t \in Task /\ t.kind = "unview" /\ t.sid = task[r].sid /\ t.veh = v
        BY <1>1, <2>1 DEF Task
    <2>3. Goto(r, "getVideo", t) /\ "getVideo" \in Label
        BY <1>4 DEF GetViewer, Label
    <2>4. HandlerOK(r, "getVideo", t, res[r])
        BY <1>1, <2>1, <2>2 DEF HandlerOK, TaskOK, LabelOK, KindOK
    <2> QED BY <1>2, <2>2, <2>3, <2>4, GotoOK DEF TypeInv
<1> QED BY <1>3, <1>4

LEMMA DelViewerOK ==
    ASSUME TypeInv, NEW r \in Slot, DelViewer(r)
    PROVE  TypeInv'
<1>1. /\ task[r] \in Task /\ TaskOK(r, task[r]) /\ task[r].kind = "unview" /\ task[r].sid \in Request
      /\ pc[r] = "delViewer" /\ task[r].veh \in Vehicle
    BY Known DEF DelViewer, TaskOK, KindOK, LabelOK
<1>2. VideoTypeOK'
    BY <1>1 DEF TypeInv, VideoTypeOK, DelViewer
<1>3. Goto(r, "saveVideo", task[r]) /\ "saveVideo" \in Label /\ UNCHANGED storeVars
    BY DEF DelViewer, Label
<1>4. HandlerOK(r, "saveVideo", task[r], res[r])
    BY <1>1 DEF HandlerOK, LabelOK, KindOK
<1>5. HandlersOK'
    BY <1>1, <1>3, <1>4, GotoOK DEF TypeInv
<1> QED BY <1>2, <1>3, <1>5, UnmovedOK DEF TypeInv

LEMMA IssueTokenOK ==
    ASSUME TypeInv, NEW r \in Slot, IssueToken(r)
    PROVE  TypeInv'
<1>1. task[r] \in Task /\ TaskOK(r, task[r]) /\ task[r].kind = "acquire"
    BY Known DEF IssueToken, KindOK
<1>2. Answer(r, "ok", task[r]) /\ "ok" \in Answers
    BY DEF IssueToken, Answers
<1>3. HandlersOK'
    BY <1>1, <1>2, AnswerOK DEF TypeInv
<1> QED BY <1>3, UnmovedOK DEF TypeInv, IssueToken

LEMMA HandleOK ==
    ASSUME TypeInv, NEW r \in Slot, Handle(r)
    PROVE  TypeInv'
BY AcquireControlOK, GetIndexOK, GetLeaseOK, RenewControlOK, ReleaseControlOK, GetVideoOK,
   ExpireVideoOK, SaveVideoOK, IndexViewerOK, GetViewerOK, DelViewerOK, IssueTokenOK DEF Handle

LEMMA StepFailsOK ==
    ASSUME TypeInv, NEW r \in Slot, StepFails(r)
    PROVE  TypeInv'
BY OnErrorOK, UnmovedOK DEF StepFails, TypeInv

LEMMA ReplyLostOK ==
    ASSUME TypeInv, NEW r \in Slot, ReplyLost(r)
    PROVE  TypeInv'
<1> DEFINE t == task[r]
<1>1. HandlersOK'
    BY OnErrorOK DEF ReplyLost, TypeInv
<1>2. CASE pc[r] = "acquireScript"
    <2>1. t.veh \in Vehicle /\ t.sid \in Request /\ t.op \in Operator /\ t.exp \in 0 .. LeaseTTL
        BY <1>2, Known DEF TaskOK, KindOK
    <2>2. AcquireScript(t.veh, t.sid, t.op, t.exp) /\ UNCHANGED videoVars
        BY <1>2 DEF ReplyLost
    <2>3. StoreTypeOK'
        BY <2>1, <2>2, ScriptsOK DEF TypeInv
    <2> QED BY <1>1, <2>2, <2>3, UnmovedOK DEF TypeInv
<1>3. CASE pc[r] = "script"
    <2>1. t.veh \in Vehicle /\ t.sid \in Request /\ t.op \in Operator /\ t.exp \in 0 .. LeaseTTL
        BY <1>3, ScriptKnown
    <2>2. /\ \/ RenewReply(t.veh, t.sid, t.op) = 1 /\ RenewScript(t.veh, t.sid, t.exp)
             \/ ReleaseScript(t.veh, t.sid)
          /\ UNCHANGED videoVars
        BY <1>3 DEF ReplyLost
    <2>3. StoreTypeOK'
        BY <2>1, <2>2, ScriptsOK DEF TypeInv
    <2> QED BY <1>1, <2>2, <2>3, UnmovedOK DEF TypeInv
<1>4. CASE pc[r] = "expireVideo"
    <2>1. Save(t.veh, InStandby(t.buf)) /\ UNCHANGED viewer /\ UNCHANGED storeVars
        BY <1>4 DEF ReplyLost
    <2>2. t.veh \in Vehicle /\ InStandby(t.buf) \in VideoRecord
        BY <1>4, VideoKnown, InStandbyOK
    <2>3. VideoTypeOK'
        BY <2>1, <2>2, SaveOK DEF TypeInv
    <2> QED BY <1>1, <2>1, <2>3, UnmovedOK DEF TypeInv
<1>5. CASE pc[r] = "saveVideo"
    <2>1. Save(t.veh, Changed(r)) /\ UNCHANGED viewer /\ UNCHANGED storeVars
        BY <1>5 DEF ReplyLost
    <2>2. t.veh \in Vehicle /\ Changed(r) \in VideoRecord
        BY <1>5, VideoKnown, ChangedOK
    <2>3. VideoTypeOK'
        BY <2>1, <2>2, SaveOK DEF TypeInv
    <2> QED BY <1>1, <2>1, <2>3, UnmovedOK DEF TypeInv
<1>6. CASE pc[r] = "indexViewer"
    <2>1. t.sid \in Request /\ t.veh \in Vehicle
        BY <1>6, Known DEF TaskOK, LabelOK, KindOK
    <2>2. viewer' = [viewer EXCEPT ![t.sid] = t.veh] /\ UNCHANGED video /\ UNCHANGED storeVars
        BY <1>6 DEF ReplyLost
    <2>3. VideoTypeOK'
        BY <2>1, <2>2 DEF TypeInv, VideoTypeOK
    <2> QED BY <1>1, <2>2, <2>3, UnmovedOK DEF TypeInv
<1> QED BY <1>2, <1>3, <1>4, <1>5, <1>6 DEF ReplyLost

LEMMA CrashOK ==
    ASSUME TypeInv, Crash
    PROVE  TypeInv'
<1>1. ASSUME NEW r \in Slot
      PROVE  /\ pc'[r] \in Label /\ task'[r] \in Task
             /\ HandlerOK(r, pc'[r], task'[r], res'[r])
    <2>1. task[r] \in Task /\ pc[r] \in Label /\ TaskOK(r, task[r]) /\ LabelOK(pc[r], task[r], res[r])
             /\ HandlerOK(r, pc[r], task[r], res[r])
        BY Known DEF TypeInv, HandlersOK
    <2>2. CASE ~Running(r)
        <3>1. pc'[r] = pc[r] /\ task'[r] = task[r] /\ res'[r] = res[r]
            BY <2>2 DEF Crash
        <3> QED BY <2>1, <3>1
    <2>3. CASE Running(r)
        <3>1. pc'[r] = Stop(r) /\ task'[r] = Closed(task[r]) /\ res'[r] = res[r]
            BY <2>3 DEF Crash
        <3>2. Stop(r) \in Label /\ Stop(r) \in {"idle", "done"}
            BY DEF Stop, Label
        <3>3. TaskOK(r, Closed(task[r])) /\ KindOK(Stop(r), task[r].kind)
            BY <2>1, <3>2, ClosedOK DEF TaskOK, KindOK
        <3>4. Stop(r) = "idle" => r \in Poller
            BY DEF Stop
        <3>5. ~(task[r].kind = "view" /\ res[r] = "ok")
            BY <2>1, <2>3 DEF LabelOK, Running
        <3> QED BY <2>1, <3>1, <3>2, <3>3, <3>4, <3>5, ClosedOK DEF HandlerOK, LabelOK
    <2> QED BY <2>2, <2>3
<1>2. pc' \in [Slot -> Label] /\ task' \in [Slot -> Task]
    BY <1>1 DEF Crash
<1>3. HandlersOK'
    BY <1>1, <1>2 DEF HandlersOK, TypeInv, Crash
<1> QED BY <1>3, UnmovedOK DEF Crash, TypeInv

LEMMA AgeOK ==
    /\ \A key \in Session \cup {None} :
          Age(key) # None => /\ key # None /\ key.px > 1
                             /\ Age(key) = [key EXCEPT !.px = key.px - 1]
                             /\ Age(key) \in Session
    /\ \A key \in IndexEntry \cup {None} :
          Age(key) # None => /\ key # None /\ key.px > 1
                             /\ Age(key) = [key EXCEPT !.px = key.px - 1]
                             /\ Age(key) \in IndexEntry
<1>1. ASSUME NEW key \in Session, key.px # 1
      PROVE  /\ key.px > 1 /\ key.px # NoTTL
             /\ [key EXCEPT !.px = key.px - 1] \in Session
    <2>1. key.px - 1 \in 1 .. LeaseTTL /\ key.px > 1 /\ key.px # NoTTL
        BY <1>1, LeaseAssumption DEF Session, NoTTL
    <2> QED BY <2>1 DEF Session
<1>2. ASSUME NEW key \in IndexEntry, key.px # 1
      PROVE  /\ key.px > 1 /\ key.px # NoTTL
             /\ [key EXCEPT !.px = key.px - 1] \in IndexEntry
    <2>1. key.px - 1 \in 1 .. LeaseTTL /\ key.px > 1 /\ key.px # NoTTL
        BY <1>2, LeaseAssumption DEF IndexEntry, NoTTL
    <2> QED BY <2>1 DEF IndexEntry
<1> QED BY <1>1, <1>2 DEF Age

LEMMA TickOK ==
    ASSUME TypeInv, Tick
    PROVE  TypeInv'
<1>1. StoreTypeOK'
    <2>1. ASSUME NEW v \in Vehicle PROVE lease'[v] \in Session \cup {None}
        <3> DEFINE key == Age(lease[v])
        <3>1. lease'[v] = IF key = None THEN None ELSE [key EXCEPT !.exp = Elapse(@)]
            BY DEF Tick, StoreTick
        <3>2. lease[v] \in Session \cup {None}
            BY DEF TypeInv, StoreTypeOK
        <3>3. CASE key # None
            <4>1. key \in Session
                BY <3>2, <3>3, AgeOK
            <4> HIDE DEF key
            <4>2. Elapse(key.exp) \in 0 .. LeaseTTL
                BY <4>1, ElapseOK DEF Session
            <4>3. [key EXCEPT !.exp = Elapse(key.exp)] \in Session
                BY <4>1, <4>2 DEF Session
            <4> QED BY <3>1, <3>3, <4>3
        <3> QED BY <3>1, <3>3
    <2>2. ASSUME NEW x \in Request PROVE index'[x] \in IndexEntry \cup {None}
        <3>1. index'[x] = Age(index[x]) /\ index[x] \in IndexEntry \cup {None}
            BY DEF Tick, StoreTick, TypeInv, StoreTypeOK
        <3> QED BY <3>1, AgeOK
    <2> QED BY <2>1, <2>2 DEF Tick, StoreTick, TypeInv, StoreTypeOK
<1>2. VideoTypeOK'
    <2>1. ASSUME NEW v \in Vehicle PROVE ElapseGrace(video[v]) \in VideoRecord
        BY ElapseOK DEF TypeInv, VideoTypeOK
    <2> QED BY <2>1 DEF Tick, VideoTick, TypeInv, VideoTypeOK
<1>3. ASSUME NEW r \in Slot
      PROVE  task'[r] \in Task /\ HandlerOK(r, pc'[r], task'[r], res'[r])
    <2> DEFINE t == task[r]
               e == Elapse(t.exp)
               b == ElapseGrace(t.buf)
    <2>1. t \in Task /\ HandlerOK(r, pc[r], t, res[r]) /\ e \in 0 .. LeaseTTL /\ b \in VideoRecord
        BY Known, ElapseOK DEF TypeInv, HandlersOK
    <2>2. task'[r] = [t EXCEPT !.exp = e, !.buf = b] /\ pc'[r] = pc[r] /\ res'[r] = res[r]
        BY DEF Tick
    <2> HIDE DEF e, b
    <2>3. /\ task'[r] \in Task /\ task'[r].kind = t.kind /\ task'[r].op = t.op
          /\ task'[r].veh = t.veh /\ task'[r].sid = t.sid
        BY <2>1, <2>2 DEF Task
    <2> QED BY <2>1, <2>2, <2>3 DEF HandlerOK, TaskOK, LabelOK
<1>4. HandlersOK'
    BY <1>3 DEF Tick, TypeInv, HandlersOK
<1> QED BY <1>1, <1>2, <1>4 DEF TypeInv

LEMMA LongKeyExpiresOK ==
    ASSUME TypeInv, LongKeyExpires
    PROVE  TypeInv'
<1>1. VideoTypeOK'
    BY AbsentOK DEF LongKeyExpires, VideoKeyExpires, ViewerKeyExpires, TypeInv, VideoTypeOK
<1>2. StoreTypeOK' /\ HandlersOK'
    BY DEF LongKeyExpires, storeVars, handlerVars, TypeInv, StoreTypeOK, HandlersOK
<1> QED BY <1>1, <1>2 DEF TypeInv

-----------------------------------------------------------------------------
(* Type correctness.                                                       *)

LEMMA TypeInit ==
    Init => TypeInv
<1> SUFFICES ASSUME Init PROVE TypeInv
    OBVIOUS
<1>1. StoreTypeOK
    BY DEF Init, StoreInit, StoreTypeOK
<1>2. VideoTypeOK
    BY AbsentOK DEF Init, VideoInit, VideoTypeOK
<1>3. ASSUME NEW r \in Slot PROVE HandlerOK(r, pc[r], task[r], res[r])
    <2>1. pc[r] = "idle" /\ task[r] = NoTask /\ res[r] = "none" /\ NoTask.kind = "none"
        BY DEF Init, NoTask
    <2> QED BY <2>1 DEF HandlerOK, TaskOK, LabelOK, KindOK
<1>4. "idle" \in Label /\ "none" \in Answers
    BY DEF Label, Answers
<1>5. HandlersOK
    BY <1>3, <1>4, NoTaskOK DEF Init, HandlersOK
<1> QED BY <1>1, <1>2, <1>5 DEF TypeInv

LEMMA TypeNext ==
    TypeInv /\ [Next]_vars => TypeInv'
<1> SUFFICES ASSUME TypeInv, [Next]_vars PROVE TypeInv'
    OBVIOUS
<1>1. CASE Next
    BY <1>1, SubmitOK, HandleOK, StepFailsOK, ReplyLostOK, CrashOK, TickOK, LongKeyExpiresOK DEF Next
<1>2. CASE UNCHANGED vars
    BY <1>2 DEF vars, storeVars, videoVars, handlerVars, TypeInv, StoreTypeOK, VideoTypeOK, HandlersOK
<1> QED BY <1>1, <1>2

LEMMA TypeInvariant ==
    Spec => []TypeInv
BY TypeInit, TypeNext, PTL DEF Spec

\* The variables of the gateway keep their types, whatever handlers interleave, fail
\* or crash: in particular no handler reaches a command without the vehicle, session
\* id or owner that the command's key is made from.
THEOREM TypeCorrect ==
    Spec => []TypeOK
<1>1. TypeInv => TypeOK
    BY DEF TypeInv, TypeOK, HandlersOK
<1> QED BY <1>1, TypeInvariant, PTL

-----------------------------------------------------------------------------
(* Safety of the lease.  All of it rests on how a step may change the      *)
(* store: only a script does, run for a handler that carries the session   *)
(* and the owner, or time.                                                 *)

Unborn == {"idle", "acquireScript"}   \* no script has stored the session of such a request

AcquireStep(r) ==
    LET t == task[r] IN
    /\ r \in Request /\ pc[r] = "acquireScript" /\ pc'[r] \notin Unborn
    /\ t.veh \in Vehicle /\ t.op \in Operator /\ t.exp \in 0 .. LeaseTTL
    /\ <<t.op, t.veh>> \in Authorized
    /\ AcquireReply(t.veh) = 1
    /\ AcquireScript(t.veh, r, t.op, t.exp)

OwnerStep(r) ==
    LET t == task[r] IN
    /\ pc[r] = "script" /\ pc'[r] # "script"
    /\ t.veh \in Vehicle /\ t.sid \in Request /\ t.op \in Operator /\ t.exp \in 0 .. LeaseTTL
    /\ \/ RenewReply(t.veh, t.sid, t.op) = 1 /\ RenewScript(t.veh, t.sid, t.exp)
       \/ /\ t.kind \in {"release", "acquire"}
          /\ ReleaseReply(t.veh, t.sid, t.op) = 1 /\ ReleaseScript(t.veh, t.sid)

StoreStep ==
    \/ UNCHANGED storeVars
    \/ \E r \in Slot : AcquireStep(r) \/ OwnerStep(r)
    \/ StoreTick /\ UNCHANGED pc

NoRebirth == \A q \in Request : pc'[q] \in Unborn => pc[q] \in Unborn

\* A handler moves, and not to a label before its script.
LEMMA Moves ==
    ASSUME TypeInv, NEW r \in Slot,
           \/ OnError(r)
           \/ \E a : Refuse(r, a)
           \/ \E a, t : Answer(r, a, t)
           \/ \E l, t : l \in Label \ Unborn /\ Goto(r, l, t)
    PROVE  /\ r \in Request => pc'[r] \notin Unborn
           /\ NoRebirth
<1>0. pc \in [Slot -> Label]
    BY DEF TypeInv, HandlersOK
<1>1. r \in Request => Stop(r) \notin Unborn
    BY GatewayAssumption DEF Stop, Unborn
<1>2. ASSUME NEW l, NEW t, l \in Label \ Unborn, Goto(r, l, t)
      PROVE  pc'[r] \notin Unborn /\ \A q \in Slot \ {r} : pc'[q] = pc[q]
    BY <1>0, <1>2 DEF Goto
<1>3. ASSUME NEW a, NEW t, Answer(r, a, t)
      PROVE  /\ r \in Request => pc'[r] \notin Unborn
             /\ \A q \in Slot \ {r} : pc'[q] = pc[q]
    BY <1>0, <1>1, <1>3 DEF Answer
<1>4. ASSUME NEW a, Refuse(r, a) PROVE \E b, t : Answer(r, b, t)
    BY <1>4 DEF Refuse
<1>5. ASSUME OnError(r) PROVE \/ \E a, t : Answer(r, a, t)
                              \/ \E l, t : l \in Label \ Unborn /\ Goto(r, l, t)
    BY <1>5 DEF OnError, Label, Unborn
<1>6. /\ r \in Request => pc'[r] \notin Unborn
      /\ \A q \in Slot \ {r} : pc'[q] = pc[q]
    BY <1>2, <1>3, <1>4, <1>5
<1> QED BY <1>6 DEF NoRebirth, Slot

\* A handler that has run its script is past it.
LEMMA PastScript ==
    ASSUME TypeInv, NEW r \in Slot, pc[r] = "script",
           \/ OnError(r)
           \/ \E a, t : Answer(r, a, t)
           \/ \E t : Goto(r, "getVideo", t)
    PROVE  pc'[r] # "script"
<1>1. pc \in [Slot -> Label]
    BY DEF TypeInv, HandlersOK
<1> QED BY <1>1 DEF OnError, Answer, Goto, Stop

LEMMA SubmitStep ==
    ASSUME TypeInv, NEW r \in Slot, Submit(r)
    PROVE  UNCHANGED storeVars /\ NoRebirth
<1>1. PICK l \in Label : /\ \E t : Goto(r, l, t)
                         /\ UNCHANGED storeVars
                         /\ l \notin Unborn \/ pc[r] = "idle"
    BY DEF Submit, StartAcquire, StartRenew, StartRelease, StartView, StartPoll, StartUnview,
           Start, Label, Unborn
<1>2. pc \in [Slot -> Label]
    BY DEF TypeInv, HandlersOK
<1>3. \A q \in Slot : pc'[q] = IF q = r THEN l ELSE pc[q]
    BY <1>1, <1>2 DEF Goto
<1> QED BY <1>1, <1>3 DEF NoRebirth, Unborn, Slot

LEMMA AcquireControlStep ==
    ASSUME TypeInv, NEW r \in Slot, AcquireControl(r)
    PROVE  StoreStep /\ NoRebirth
<1> DEFINE t == task[r]
<1>1. /\ t.kind = "acquire" /\ t.sid = r /\ r \in Request /\ t.op \in Operator /\ t.veh \in Vehicle
      /\ t.exp \in 0 .. LeaseTTL /\ <<t.op, t.veh>> \in Authorized
    BY Known DEF AcquireControl, TaskOK, LabelOK, KindOK
<1>2. CASE AcquireReply(t.veh) = 0
    <2>1. Answer(r, "held", t) /\ UNCHANGED storeVars
        BY <1>2 DEF AcquireControl
    <2> QED BY <2>1, Moves DEF StoreStep
<1>3. CASE AcquireReply(t.veh) # 0
    <2>1. /\ AcquireReply(t.veh) = 1 /\ AcquireScript(t.veh, t.sid, t.op, t.exp)
          /\ Goto(r, "getVideo", t) /\ "getVideo" \in Label \ Unborn
        BY <1>3 DEF AcquireControl, Label, Unborn
    <2>2. NoRebirth /\ pc'[r] \notin Unborn
        BY <1>1, <2>1, Moves
    <2>3. AcquireStep(r)
        BY <1>1, <2>1, <2>2 DEF AcquireStep, AcquireControl
    <2> QED BY <2>2, <2>3 DEF StoreStep
<1> QED BY <1>2, <1>3

LEMMA ScriptStep ==
    ASSUME TypeInv, NEW r \in Slot, RenewControl(r) \/ ReleaseControl(r)
    PROVE  StoreStep /\ NoRebirth
<1> DEFINE t == task[r]
<1>1. /\ pc[r] = "script" /\ t.veh \in Vehicle /\ t.sid \in Request /\ t.op \in Operator
      /\ t.exp \in 0 .. LeaseTTL
    BY ScriptKnown DEF RenewControl, ReleaseControl
<1>2. CASE RenewControl(r) /\ RenewReply(t.veh, t.sid, t.op) = 1
    <2>1. RenewScript(t.veh, t.sid, t.exp) /\ Answer(r, "ok", t)
        BY <1>2 DEF RenewControl
    <2>2. NoRebirth /\ pc'[r] # "script"
        BY <1>1, <2>1, Moves, PastScript
    <2> QED BY <1>1, <1>2, <2>1, <2>2 DEF StoreStep, OwnerStep
<1>3. CASE RenewControl(r) /\ RenewReply(t.veh, t.sid, t.op) # 1
    <2>1. UNCHANGED storeVars /\ \E a : Refuse(r, a)
        BY <1>3 DEF RenewControl
    <2> QED BY <2>1, Moves DEF StoreStep
<1>4. CASE ReleaseControl(r) /\ ReleaseReply(t.veh, t.sid, t.op) = 1
    <2>1. /\ ReleaseScript(t.veh, t.sid) /\ "getVideo" \in Label \ Unborn
          /\ t.kind \in {"release", "acquire"}
          /\ (Goto(r, "getVideo", t) \/ Answer(r, "error", t))
        BY <1>4 DEF ReleaseControl, Label, Unborn
    <2>2. NoRebirth /\ pc'[r] # "script"
        BY <1>1, <2>1, Moves, PastScript
    <2> QED BY <1>1, <1>4, <2>1, <2>2 DEF StoreStep, OwnerStep
<1>5. CASE ReleaseControl(r) /\ ReleaseReply(t.veh, t.sid, t.op) # 1
    <2>1. UNCHANGED storeVars /\ \E a : Refuse(r, a)
        BY <1>5 DEF ReleaseControl
    <2> QED BY <2>1, Moves DEF StoreStep
<1> QED BY <1>2, <1>3, <1>4, <1>5

LEMMA OtherStep ==
    ASSUME TypeInv, NEW r \in Slot,
           \/ GetIndex(r) \/ GetLease(r) \/ GetVideo(r) \/ ExpireVideo(r) \/ SaveVideo(r)
           \/ IndexViewer(r) \/ GetViewer(r) \/ DelViewer(r) \/ IssueToken(r) \/ StepFails(r)
    PROVE  UNCHANGED storeVars /\ NoRebirth
<1>1. \A l \in {"findLease", "getLease", "getIndex", "script", "expireVideo", "delViewer",
                "saveVideo", "issueToken", "indexViewer", "getVideo"} : l \in Label \ Unborn
    BY DEF Label, Unborn
<1>2. \/ OnError(r)
      \/ \E a : Refuse(r, a)
      \/ \E a, t : Answer(r, a, t)
      \/ \E l, t : l \in Label \ Unborn /\ Goto(r, l, t)
    BY <1>1 DEF GetIndex, GetLease, GetVideo, GotVideo, ExpireVideo, SaveVideo, IndexViewer,
                GetViewer, DelViewer, IssueToken, StepFails
<1>3. UNCHANGED storeVars
    BY DEF GetIndex, GetLease, GetVideo, GotVideo, ExpireVideo, SaveVideo, IndexViewer,
           GetViewer, DelViewer, IssueToken, StepFails
<1> QED BY <1>2, <1>3, Moves

LEMMA ReplyLostStep ==
    ASSUME TypeInv, NEW r \in Slot, ReplyLost(r)
    PROVE  StoreStep /\ NoRebirth
<1> DEFINE t == task[r]
<1>1. OnError(r) /\ NoRebirth /\ (r \in Request => pc'[r] \notin Unborn)
    BY Moves DEF ReplyLost
<1>2. CASE pc[r] = "acquireScript"
    <2>1. /\ t.kind = "acquire" /\ t.sid = r /\ r \in Request /\ t.op \in Operator
          /\ t.veh \in Vehicle /\ t.exp \in 0 .. LeaseTTL /\ <<t.op, t.veh>> \in Authorized
        BY <1>2, Known DEF TaskOK, LabelOK, KindOK
    <2>2. AcquireReply(t.veh) = 1 /\ AcquireScript(t.veh, t.sid, t.op, t.exp)
        BY <1>2 DEF ReplyLost
    <2> QED BY <1>1, <1>2, <2>1, <2>2 DEF StoreStep, AcquireStep
<1>3. CASE pc[r] = "script"
    <2>1. t.veh \in Vehicle /\ t.sid \in Request /\ t.op \in Operator /\ t.exp \in 0 .. LeaseTTL
        BY <1>3, ScriptKnown
    <2>2. pc'[r] # "script"
        BY <1>1, <1>3, PastScript
    <2>3. \/ RenewReply(t.veh, t.sid, t.op) = 1 /\ RenewScript(t.veh, t.sid, t.exp)
          \/ /\ t.kind \in {"release", "acquire"}
             /\ ReleaseReply(t.veh, t.sid, t.op) = 1 /\ ReleaseScript(t.veh, t.sid)
        BY <1>3 DEF ReplyLost
    <2> QED BY <1>1, <1>3, <2>1, <2>2, <2>3 DEF StoreStep, OwnerStep
<1>4. CASE pc[r] \notin {"acquireScript", "script"}
    BY <1>1, <1>4 DEF ReplyLost, StoreStep
<1> QED BY <1>2, <1>3, <1>4

LEMMA NextStep ==
    ASSUME TypeInv, [Next]_vars
    PROVE  StoreStep /\ NoRebirth
<1>1. CASE \E r \in Slot : Submit(r)
    BY <1>1, SubmitStep DEF StoreStep
<1>2. CASE \E r \in Slot : Handle(r) \/ StepFails(r)
    BY <1>2, AcquireControlStep, ScriptStep, OtherStep DEF Handle, StoreStep
<1>3. CASE \E r \in Slot : ReplyLost(r)
    BY <1>3, ReplyLostStep
<1>4. CASE Crash
    <2>1. \A q \in Request : q \in Slot /\ Stop(q) = "done"
        BY GatewayAssumption DEF Slot, Stop
    <2> QED BY <1>4, <2>1 DEF Crash, StoreStep, NoRebirth, Unborn
<1>5. CASE Tick
    BY <1>5 DEF Tick, StoreStep, NoRebirth
<1>6. CASE LongKeyExpires \/ UNCHANGED vars
    BY <1>6 DEF LongKeyExpires, vars, handlerVars, StoreStep, NoRebirth
<1> QED BY <1>1, <1>2, <1>3, <1>4, <1>5, <1>6 DEF Next

\* A session id is new until its own script has run; neither key exists before.
SessionsNew ==
    /\ \A r \in Request : pc[r] \in Unborn => r \notin granted
    /\ \A s \in Request : index[s] # None => s \in granted

\* The inductive invariant.
LeaseInv == TypeInv /\ SessionsNew /\ LeaseIndexAgree /\ ExpiryWithinLease

LEMMA LeaseInit ==
    Init => LeaseInv
BY TypeInit DEF Init, StoreInit, LeaseInv, SessionsNew, LeaseIndexAgree, ExpiryWithinLease

\* Lease and index entry lead to one another.
LEMMA Paired ==
    ASSUME LeaseInv
    PROVE  /\ \A w \in Vehicle : lease[w] # None =>
                 /\ lease[w].sid \in Request
                 /\ index[lease[w].sid] # None
                 /\ index[lease[w].sid].veh = w
                 /\ index[lease[w].sid].px = lease[w].px
           /\ \A x \in Request : index[x] # None =>
                 /\ index[x].veh \in Vehicle
                 /\ lease[index[x].veh] # None
                 /\ lease[index[x].veh].sid = x
<1>1. ASSUME NEW w \in Vehicle, lease[w] # None
      PROVE  /\ lease[w].sid \in Request
             /\ index[lease[w].sid] # None
             /\ index[lease[w].sid].veh = w
             /\ index[lease[w].sid].px = lease[w].px
    <2>1. lease[w].sid \in Request /\ lease[w].px \in 1 .. LeaseTTL
        BY <1>1 DEF LeaseInv, TypeInv, StoreTypeOK, Session
    <2>2. index[lease[w].sid] = [veh |-> w, px |-> lease[w].px]
        BY <1>1 DEF LeaseInv, LeaseIndexAgree
    <2>3. [veh |-> w, px |-> lease[w].px] \in IndexEntry
        BY <2>1 DEF IndexEntry
    <2> QED BY <2>1, <2>2, <2>3, NoneAssumption
<1>2. ASSUME NEW x \in Request, index[x] # None PROVE index[x].veh \in Vehicle
    BY <1>2 DEF LeaseInv, TypeInv, StoreTypeOK, IndexEntry
<1> QED BY <1>1, <1>2 DEF LeaseInv, LeaseIndexAgree

LEMMA AcquireKeeps ==
    ASSUME LeaseInv, TypeInv', NoRebirth, NEW r \in Slot, AcquireStep(r)
    PROVE  LeaseInv'
<1> DEFINE t == task[r]
           v == t.veh
           new == [sid |-> r, op |-> t.op, exp |-> t.exp, px |-> LeaseTTL]
           entry == [veh |-> v, px |-> LeaseTTL]
<1>1. /\ r \in Request /\ v \in Vehicle /\ lease[v] = None /\ r \notin granted
      /\ index[r] = None /\ pc'[r] \notin Unborn
    BY DEF AcquireStep, AcquireReply, LeaseInv, SessionsNew, Unborn
<1>2. /\ lease' = [lease EXCEPT ![v] = new]
      /\ index' = [index EXCEPT ![r] = entry]
      /\ granted' = granted \cup {r}
    BY DEF AcquireStep, AcquireScript
<1>3. new \in Session /\ entry \in IndexEntry
    <2>1. LeaseTTL \in 1 .. LeaseTTL
        BY LeaseAssumption
    <2> QED BY <1>1, <2>1 DEF AcquireStep, Session, IndexEntry
<1>4. new # None /\ entry # None
    BY <1>3, NoneAssumption
<1>5. /\ \A w \in Vehicle : lease'[w] = IF w = v THEN new ELSE lease[w]
      /\ \A s \in Request : index'[s] = IF s = r THEN entry ELSE index[s]
    BY <1>1, <1>2 DEF LeaseInv, TypeInv, StoreTypeOK
<1>6. new.sid = r /\ new.px = LeaseTTL /\ new.exp = t.exp /\ entry.veh = v
    OBVIOUS
<1>7. t.exp <= LeaseTTL
    BY LeaseAssumption DEF AcquireStep
<1>8. \A w \in Vehicle : lease[w] # None => lease[w].sid # r
    BY <1>1, Paired
<1>9. SessionsNew'
    BY <1>1, <1>2, <1>5 DEF LeaseInv, SessionsNew, NoRebirth
<1> HIDE DEF new
<1>a. \A w \in Vehicle : lease'[w] # None => index'[lease'[w].sid] = [veh |-> w, px |-> lease'[w].px]
    <2> SUFFICES ASSUME NEW w \in Vehicle, lease'[w] # None
                 PROVE  index'[lease'[w].sid] = [veh |-> w, px |-> lease'[w].px]
        OBVIOUS
    <2>1. CASE w = v
        BY <1>1, <1>5, <1>6, <2>1
    <2>2. CASE w # v
        <3>1. lease'[w] = lease[w] /\ lease[w] # None /\ lease[w].sid \in Request
            BY <1>5, <2>2 DEF LeaseInv, TypeInv, StoreTypeOK, Session
        <3> QED BY <1>5, <1>8, <3>1 DEF LeaseInv, LeaseIndexAgree
    <2> QED BY <2>1, <2>2
<1>b. \A s \in Request : index'[s] # None =>
          lease'[index'[s].veh] # None /\ lease'[index'[s].veh].sid = s
    <2> SUFFICES ASSUME NEW s \in Request, index'[s] # None
                 PROVE  lease'[index'[s].veh] # None /\ lease'[index'[s].veh].sid = s
        OBVIOUS
    <2>1. CASE s = r
        BY <1>1, <1>4, <1>5, <1>6, <2>1
    <2>2. CASE s # r
        <3>1. index'[s] = index[s] /\ index[s].veh \in Vehicle /\ index[s].veh # v
            BY <1>1, <1>5, <2>2 DEF LeaseInv, LeaseIndexAgree, TypeInv, StoreTypeOK, IndexEntry
        <3> QED BY <1>5, <3>1 DEF LeaseInv, LeaseIndexAgree
    <2> QED BY <2>1, <2>2
<1>c. LeaseIndexAgree'
    BY <1>a, <1>b DEF LeaseIndexAgree
<1>d. ExpiryWithinLease'
    BY <1>5, <1>6, <1>7 DEF LeaseInv, ExpiryWithinLease
<1> QED BY <1>9, <1>c, <1>d DEF LeaseInv

\* The lease and the index entry that an owner's script touches belong together.
LEMMA OwnerKnown ==
    ASSUME LeaseInv, NEW r \in Slot, OwnerStep(r)
    PROVE  LET t == task[r] IN
           /\ t.veh \in Vehicle /\ t.sid \in Request /\ t.exp \in 0 .. LeaseTTL
           /\ lease[t.veh] \in Session /\ lease[t.veh] # None
           /\ lease[t.veh].sid = t.sid /\ lease[t.veh].op = t.op
           /\ index[t.sid] = [veh |-> t.veh, px |-> lease[t.veh].px]
BY DEF OwnerStep, RenewReply, ReleaseReply, Mine, LeaseInv, LeaseIndexAgree, TypeInv, StoreTypeOK

LEMMA RenewKeeps ==
    ASSUME LeaseInv, TypeInv', NoRebirth, NEW r \in Slot, OwnerStep(r),
           RenewScript(task[r].veh, task[r].sid, task[r].exp)
    PROVE  LeaseInv'
<1> DEFINE t == task[r]
           v == t.veh
           s == t.sid
           old == lease[v]
           new == [old EXCEPT !.exp = t.exp, !.px = LeaseTTL]
           entry == [veh |-> v, px |-> LeaseTTL]
<1>1. /\ v \in Vehicle /\ s \in Request /\ t.exp \in 0 .. LeaseTTL
      /\ old \in Session /\ old # None /\ old.sid = s
      /\ index[s] = [veh |-> v, px |-> old.px]
    BY OwnerKnown
<1>2. LeaseTTL \in 1 .. LeaseTTL /\ t.exp <= LeaseTTL
    BY <1>1, LeaseAssumption
<1>3. /\ new \in Session /\ new.sid = s /\ new.px = LeaseTTL /\ new.exp = t.exp
      /\ entry \in IndexEntry /\ entry.veh = v
    BY <1>1, <1>2 DEF Session, IndexEntry
<1>4. new # None /\ entry # None
    BY <1>3, NoneAssumption
<1>5. /\ \A w \in Vehicle : lease'[w] = IF w = v THEN new ELSE lease[w]
      /\ \A x \in Request : index'[x] = IF x = s THEN entry ELSE index[x]
      /\ granted' = granted
    BY <1>1 DEF RenewScript, LeaseInv, TypeInv, StoreTypeOK
<1>6. index[s] # None
    BY <1>1, Paired
<1>7. SessionsNew'
    BY <1>1, <1>5, <1>6 DEF LeaseInv, SessionsNew, NoRebirth
<1>8. /\ \A w \in Vehicle \ {v} : lease[w] # None => lease[w].sid # s
      /\ \A x \in Request \ {s} : index[x] # None => index[x].veh # v
    BY <1>1, Paired
<1> HIDE DEF new
<1>a. \A w \in Vehicle : lease'[w] # None => index'[lease'[w].sid] = [veh |-> w, px |-> lease'[w].px]
    <2> SUFFICES ASSUME NEW w \in Vehicle, lease'[w] # None
                 PROVE  index'[lease'[w].sid] = [veh |-> w, px |-> lease'[w].px]
        OBVIOUS
    <2>1. CASE w = v
        BY <1>1, <1>3, <1>5, <2>1
    <2>2. CASE w # v
        <3>1. lease'[w] = lease[w] /\ lease[w] # None /\ lease[w].sid \in Request
            BY <1>5, <2>2 DEF LeaseInv, TypeInv, StoreTypeOK, Session
        <3> QED BY <1>5, <1>8, <2>2, <3>1 DEF LeaseInv, LeaseIndexAgree
    <2> QED BY <2>1, <2>2
<1>b. \A x \in Request : index'[x] # None =>
          lease'[index'[x].veh] # None /\ lease'[index'[x].veh].sid = x
    <2> SUFFICES ASSUME NEW x \in Request, index'[x] # None
                 PROVE  lease'[index'[x].veh] # None /\ lease'[index'[x].veh].sid = x
        OBVIOUS
    <2>1. CASE x = s
        BY <1>1, <1>3, <1>4, <1>5, <2>1
    <2>2. CASE x # s
        <3>1. index'[x] = index[x] /\ index[x].veh \in Vehicle /\ index[x].veh # v
            BY <1>5, <1>8, <2>2 DEF LeaseInv, TypeInv, StoreTypeOK, IndexEntry
        <3> QED BY <1>5, <3>1 DEF LeaseInv, LeaseIndexAgree
    <2> QED BY <2>1, <2>2
<1>c. LeaseIndexAgree'
    BY <1>a, <1>b DEF LeaseIndexAgree
<1>d. ExpiryWithinLease'
    BY <1>2, <1>3, <1>5 DEF LeaseInv, ExpiryWithinLease
<1> QED BY <1>7, <1>c, <1>d DEF LeaseInv

LEMMA ReleaseKeeps ==
    ASSUME LeaseInv, TypeInv', NoRebirth, NEW r \in Slot, OwnerStep(r),
           ReleaseScript(task[r].veh, task[r].sid)
    PROVE  LeaseInv'
<1> DEFINE v == task[r].veh
           s == task[r].sid
<1>1. /\ v \in Vehicle /\ s \in Request /\ lease[v] # None /\ lease[v].sid = s
      /\ index[s] = [veh |-> v, px |-> lease[v].px]
    BY OwnerKnown
<1>2. /\ \A w \in Vehicle : lease'[w] = IF w = v THEN None ELSE lease[w]
      /\ \A x \in Request : index'[x] = IF x = s THEN None ELSE index[x]
      /\ granted' = granted
    BY <1>1 DEF ReleaseScript, LeaseInv, TypeInv, StoreTypeOK
<1>3. SessionsNew'
    BY <1>2 DEF LeaseInv, SessionsNew, NoRebirth
<1>4. /\ \A w \in Vehicle \ {v} : lease[w] # None => lease[w].sid \in Request \ {s}
      /\ \A x \in Request \ {s} : index[x] # None => index[x].veh \in Vehicle \ {v}
    BY <1>1, Paired
<1>5. LeaseIndexAgree'
    BY <1>2, <1>4 DEF LeaseInv, LeaseIndexAgree
<1>6. ExpiryWithinLease'
    BY <1>2 DEF LeaseInv, ExpiryWithinLease
<1> QED BY <1>3, <1>5, <1>6 DEF LeaseInv

\* A lease that stays has lost one unit of its PX; one that has more than one unit stays.
LEMMA TickedLease ==
    ASSUME TypeInv, StoreTick
    PROVE  \A w \in Vehicle :
              /\ lease'[w] # None =>
                    /\ lease[w] # None /\ lease[w].px \in Nat /\ lease[w].px > 1
                    /\ lease[w].sid \in Request /\ lease[w].exp \in Nat
                    /\ lease'[w].sid = lease[w].sid /\ lease'[w].op = lease[w].op
                    /\ lease'[w].px = lease[w].px - 1
                    /\ lease'[w].exp = Elapse(lease[w].exp)
              /\ lease[w] # None /\ lease[w].px > 1 => lease'[w] # None
<1>1. ASSUME NEW w \in Vehicle, lease'[w] # None
      PROVE  /\ lease[w] # None /\ lease[w].px \in Nat /\ lease[w].px > 1
             /\ lease[w].sid \in Request /\ lease[w].exp \in Nat
             /\ lease'[w].sid = lease[w].sid /\ lease'[w].op = lease[w].op
             /\ lease'[w].px = lease[w].px - 1
             /\ lease'[w].exp = Elapse(lease[w].exp)
    <2> DEFINE key == Age(lease[w])
    <2>1. lease'[w] = IF key = None THEN None ELSE [key EXCEPT !.exp = Elapse(@)]
        BY DEF StoreTick
    <2>2. lease[w] \in Session \cup {None}
        BY DEF TypeInv, StoreTypeOK
    <2>3. /\ lease[w] # None /\ lease[w].px > 1 /\ key \in Session
          /\ key = [lease[w] EXCEPT !.px = lease[w].px - 1]
        BY <1>1, <2>1, <2>2, AgeOK
    <2>4. lease[w] \in Session /\ lease[w].px \in Nat /\ lease[w].exp \in Nat /\ lease[w].sid \in Request
        BY <2>2, <2>3, LeaseAssumption DEF Session
    <2>5. /\ key.px = lease[w].px - 1 /\ key.exp = lease[w].exp
          /\ key.sid = lease[w].sid /\ key.op = lease[w].op
        BY <2>3, <2>4 DEF Session
    <2> HIDE DEF key
    <2>6. /\ lease'[w].px = key.px /\ lease'[w].exp = Elapse(key.exp)
          /\ lease'[w].sid = key.sid /\ lease'[w].op = key.op
        BY <1>1, <2>1, <2>3 DEF Session
    <2> QED BY <2>3, <2>4, <2>5, <2>6
<1>2. ASSUME NEW w \in Vehicle, lease[w] # None, lease[w].px > 1
      PROVE  lease'[w] # None
    <2> DEFINE key == [lease[w] EXCEPT !.px = lease[w].px - 1]
               e == Elapse(key.exp)
               new == [key EXCEPT !.exp = e]
    <2>1. lease[w] \in Session /\ lease[w].px # 1 /\ lease[w].px # NoTTL
        BY <1>2, LeaseAssumption DEF TypeInv, StoreTypeOK, Session, NoTTL
    <2>2. Age(lease[w]) = key
        BY <1>2, <2>1 DEF Age
    <2>3. lease[w].px - 1 \in 1 .. LeaseTTL
        BY <1>2, <2>1, LeaseAssumption DEF Session
    <2>4. key \in Session
        BY <2>1, <2>3 DEF Session
    <2>5. key # None /\ e \in 0 .. LeaseTTL
        BY <2>4, NoneAssumption, ElapseOK DEF Session
    <2>6. lease'[w] = [key EXCEPT !.exp = Elapse(@)]
        BY <2>2, <2>5 DEF StoreTick
    <2> HIDE DEF key, e
    <2>7. new \in Session
        BY <2>4, <2>5 DEF Session
    <2> QED BY <2>6, <2>7, NoneAssumption DEF e
<1> QED BY <1>1, <1>2

\* One unit of time: a key that stays lost one unit of its PX, and both keys agree on it.
LEMMA TickKeeps ==
    ASSUME LeaseInv, TypeInv', StoreTick, UNCHANGED pc
    PROVE  LeaseInv'
<1>1. ASSUME NEW w \in Vehicle, lease'[w] # None
      PROVE  /\ lease[w] # None /\ lease[w].px \in Nat /\ lease[w].px > 1
             /\ lease[w].sid \in Request /\ lease[w].exp \in Nat
             /\ lease'[w].sid = lease[w].sid /\ lease'[w].op = lease[w].op
             /\ lease'[w].px = lease[w].px - 1
             /\ lease'[w].exp = Elapse(lease[w].exp)
    BY <1>1, TickedLease DEF LeaseInv
<1>2. ASSUME NEW w \in Vehicle, lease[w] # None, lease[w].px > 1
      PROVE  lease'[w] # None
    BY <1>2, TickedLease DEF LeaseInv
<1>3. ASSUME NEW x \in Request, index'[x] # None
      PROVE  /\ index[x] # None /\ index[x].px > 1 /\ index[x].veh \in Vehicle
             /\ index'[x] = [veh |-> index[x].veh, px |-> index[x].px - 1]
    <2>1. index'[x] = Age(index[x]) /\ index[x] \in IndexEntry \cup {None}
        BY DEF StoreTick, LeaseInv, TypeInv, StoreTypeOK
    <2>2. /\ index[x] # None /\ index[x].px > 1
          /\ index'[x] = [index[x] EXCEPT !.px = index[x].px - 1]
        BY <1>3, <2>1, AgeOK
    <2> QED BY <2>1, <2>2 DEF IndexEntry
<1>4. ASSUME NEW x \in Request, index[x] # None, index[x].px > 1
      PROVE  index'[x] # None
    <2>1. index[x] \in IndexEntry /\ index[x].px # 1 /\ index[x].px # NoTTL
        BY <1>4, LeaseAssumption DEF LeaseInv, TypeInv, StoreTypeOK, IndexEntry, NoTTL
    <2>2. index'[x] = [index[x] EXCEPT !.px = index[x].px - 1]
        BY <1>4, <2>1 DEF Age, StoreTick
    <2>3. index[x].px - 1 \in 1 .. LeaseTTL
        BY <1>4, <2>1, LeaseAssumption DEF IndexEntry
    <2>4. index'[x] \in IndexEntry
        BY <2>1, <2>2, <2>3 DEF IndexEntry
    <2> QED BY <2>4, NoneAssumption
<1>5. SessionsNew'
    BY <1>3 DEF LeaseInv, SessionsNew, StoreTick
<1>6. \A w \in Vehicle : lease'[w] # None => index'[lease'[w].sid] = [veh |-> w, px |-> lease'[w].px]
    <2> SUFFICES ASSUME NEW w \in Vehicle, lease'[w] # None
                 PROVE  index'[lease'[w].sid] = [veh |-> w, px |-> lease'[w].px]
        OBVIOUS
    <2> DEFINE x == lease[w].sid
    <2>1. /\ lease[w] # None /\ lease[w].px > 1 /\ x \in Request
          /\ lease'[w].sid = x /\ lease'[w].px = lease[w].px - 1
        BY <1>1
    <2>2. index[x] = [veh |-> w, px |-> lease[w].px] /\ index[x] # None
        BY <2>1, Paired DEF LeaseInv, LeaseIndexAgree
    <2>3. index'[x] # None
        BY <1>4, <2>1, <2>2
    <2>4. index'[x] = [veh |-> w, px |-> lease[w].px - 1]
        BY <1>3, <2>1, <2>2, <2>3
    <2> QED BY <2>1, <2>4
<1>7. \A x \in Request : index'[x] # None =>
          lease'[index'[x].veh] # None /\ lease'[index'[x].veh].sid = x
    <2> SUFFICES ASSUME NEW x \in Request, index'[x] # None
                 PROVE  lease'[index'[x].veh] # None /\ lease'[index'[x].veh].sid = x
        OBVIOUS
    <2> DEFINE w == index[x].veh
    <2>1. /\ index[x] # None /\ index[x].px > 1 /\ w \in Vehicle
          /\ index'[x] = [veh |-> w, px |-> index[x].px - 1]
        BY <1>3
    <2>2. lease[w] # None /\ lease[w].sid = x
        BY <2>1, Paired
    <2>3. lease[w].px = index[x].px
        BY <2>1, <2>2, Paired
    <2>4. lease'[w] # None
        BY <1>2, <2>1, <2>2, <2>3
    <2> QED BY <1>1, <2>1, <2>2, <2>4
<1>8. LeaseIndexAgree'
    BY <1>6, <1>7 DEF LeaseIndexAgree
<1>9. ExpiryWithinLease'
    <2> SUFFICES ASSUME NEW w \in Vehicle, lease'[w] # None PROVE lease'[w].exp <= lease'[w].px
        BY DEF ExpiryWithinLease
    <2>1. lease[w].exp <= lease[w].px
        BY <1>1 DEF LeaseInv, ExpiryWithinLease
    <2> QED BY <1>1, <2>1 DEF Elapse
<1> QED BY <1>5, <1>8, <1>9 DEF LeaseInv

LEMMA LeaseNext ==
    LeaseInv /\ [Next]_vars => LeaseInv'
<1> SUFFICES ASSUME LeaseInv, [Next]_vars PROVE LeaseInv'
    OBVIOUS
<1>1. TypeInv' /\ StoreStep /\ NoRebirth
    BY TypeNext, NextStep DEF LeaseInv
<1>2. CASE UNCHANGED storeVars
    BY <1>1, <1>2 DEF storeVars, LeaseInv, SessionsNew, NoRebirth, LeaseIndexAgree, ExpiryWithinLease
<1>3. CASE \E r \in Slot : AcquireStep(r)
    BY <1>1, <1>3, AcquireKeeps
<1>4. CASE \E r \in Slot : OwnerStep(r)
    BY <1>1, <1>4, RenewKeeps, ReleaseKeeps DEF OwnerStep
<1>5. CASE StoreTick /\ UNCHANGED pc
    BY <1>1, <1>5, TickKeeps
<1> QED BY <1>1, <1>2, <1>3, <1>4, <1>5 DEF StoreStep

LEMMA LeaseInvariant ==
    Spec => []LeaseInv
BY LeaseInit, LeaseNext, PTL DEF Spec

\* control:<vehicle> and control-session:<session> agree at all times, however the
\* acquire, renew and release scripts of any number of requests interleave and expire.
THEOREM KeysAgree ==
    Spec => []LeaseIndexAgree
<1>1. LeaseInv => LeaseIndexAgree
    BY DEF LeaseInv
<1> QED BY <1>1, LeaseInvariant, PTL

\* A vehicle that trusts expires_at never trusts a session longer than Redis keeps it.
THEOREM ExpirySound ==
    Spec => []ExpiryWithinLease
<1>1. LeaseInv => ExpiryWithinLease
    BY DEF LeaseInv
<1> QED BY <1>1, LeaseInvariant, PTL

-----------------------------------------------------------------------------
(* What a step does to one lease, and to whom it belongs.                  *)

Aged(v) == [lease[v] EXCEPT !.px = @ - 1, !.exp = Elapse(@)]

LEMMA TickLease ==
    ASSUME LeaseInv, StoreTick, NEW v \in Vehicle, lease[v] # None
    PROVE  lease'[v] \in {None, Aged(v)}
<1> DEFINE key == Age(lease[v])
           p == lease[v].px - 1
<1>1. lease'[v] = IF key = None THEN None ELSE [key EXCEPT !.exp = Elapse(@)]
    BY DEF StoreTick
<1>2. lease[v] \in Session
    BY DEF LeaseInv, TypeInv, StoreTypeOK
<1>3. CASE key # None
    <2>1. key = [lease[v] EXCEPT !.px = p]
        BY <1>2, <1>3, AgeOK
    <2>2. key.exp = lease[v].exp
        BY <1>2, <2>1 DEF Session
    <2>3. lease'[v] = [key EXCEPT !.exp = Elapse(lease[v].exp)]
        BY <1>1, <1>3, <2>2
    <2>4. lease'[v] = [lease[v] EXCEPT !.px = p, !.exp = Elapse(lease[v].exp)]
        BY <1>2, <2>1, <2>3 DEF Session
    <2> QED BY <2>4 DEF Aged
<1> QED BY <1>1, <1>3

\* Only time and scripts run for the owner change a lease: the owner checked by
\* getSessionByID may be gone when RenewControlSession or ReleaseControlSession
\* acts, but then its script refuses.
THEOREM OwnerOnly ==
    Spec => OnlyOwnerChanges
<1> DEFINE Allowed(v) ==
        lease[v] # None =>
            \/ lease'[v] = lease[v]
            \/ pc' = pc /\ lease'[v] \in {None, [lease[v] EXCEPT !.px = @ - 1, !.exp = Elapse(@)]}
            \/ \E r \in Slot : /\ pc[r] = "script" /\ pc'[r] # "script"
                               /\ task[r].sid = lease[v].sid
                               /\ task[r].op = lease[v].op
<1>1. LeaseInv /\ [Next]_vars => [\A v \in Vehicle : Allowed(v)]_vars
    <2> SUFFICES ASSUME LeaseInv, [Next]_vars, NEW v \in Vehicle, lease[v] # None
                 PROVE  Allowed(v)
        OBVIOUS
    <2>1. StoreStep
        BY NextStep DEF LeaseInv
    <2>2. CASE UNCHANGED storeVars
        BY <2>2 DEF storeVars
    <2>3. ASSUME NEW r \in Slot, AcquireStep(r) PROVE lease'[v] = lease[v]
        BY <2>3 DEF AcquireStep, AcquireReply, AcquireScript, LeaseInv, TypeInv, StoreTypeOK
    <2>4. ASSUME NEW r \in Slot, OwnerStep(r) PROVE Allowed(v)
        <3>1. CASE task[r].veh = v
            BY <2>4, <3>1, OwnerKnown DEF OwnerStep
        <3>2. CASE task[r].veh # v
            BY <2>4, <3>2 DEF OwnerStep, RenewScript, ReleaseScript, LeaseInv, TypeInv, StoreTypeOK
        <3> QED BY <3>1, <3>2
    <2>5. CASE StoreTick /\ UNCHANGED pc
        BY <2>5, TickLease DEF Aged
    <2> QED BY <2>1, <2>2, <2>3, <2>4, <2>5 DEF StoreStep
<1> QED BY <1>1, LeaseInvariant, PTL DEF Spec, OnlyOwnerChanges

-----------------------------------------------------------------------------
(* The gateway implements ControlLease.                                    *)

\* The gateway's Redis scripts and handlers implement the abstract lease: at most one
\* authorized controller per vehicle, never replaced, never back after its lease ended.
THEOREM ImplementsLease ==
    Spec => LeaseSpec
<1> DEFINE holder == [v \in Vehicle |-> IF lease[v] = None THEN None
                                        ELSE [sid |-> lease[v].sid, op |-> lease[v].op]]
<1>1. Init => Lease!Init
    BY DEF Init, StoreInit, Lease!Init
<1>2. LeaseInv /\ [Next]_vars => [Lease!Next]_(Lease!vars)
    <2> SUFFICES ASSUME LeaseInv, [Next]_vars PROVE [Lease!Next]_(Lease!vars)
        OBVIOUS
    <2>1. StoreStep
        BY NextStep DEF LeaseInv
    <2>2. CASE UNCHANGED storeVars
        <3>1. UNCHANGED <<holder, granted>>
            BY <2>2 DEF storeVars
        <3> QED BY <3>1 DEF Lease!vars
    <2>3. ASSUME NEW r \in Slot, AcquireStep(r) PROVE Lease!Next
        <3> DEFINE t == task[r]
        <3>1. /\ r \in Request /\ t.veh \in Vehicle /\ t.op \in Operator /\ lease[t.veh] = None
              /\ r \notin granted /\ <<t.op, t.veh>> \in Authorized
            BY <2>3 DEF AcquireStep, AcquireReply, LeaseInv, SessionsNew, Unborn
        <3> DEFINE new == [sid |-> r, op |-> t.op, exp |-> t.exp, px |-> LeaseTTL]
        <3>2. new \in Session
            <4>1. LeaseTTL \in 1 .. LeaseTTL
                BY LeaseAssumption
            <4> QED BY <2>3, <3>1, <4>1 DEF AcquireStep, Session
        <3>3. new # None /\ new.sid = r /\ new.op = t.op
            BY <3>2, NoneAssumption
        <3>4. lease' = [lease EXCEPT ![t.veh] = new] /\ granted' = granted \cup {r}
            BY <2>3 DEF AcquireStep, AcquireScript
        <3> HIDE DEF new
        <3>5. holder' = [holder EXCEPT ![t.veh] = [sid |-> r, op |-> t.op]]
            BY <3>1, <3>3, <3>4 DEF LeaseInv, TypeInv, StoreTypeOK
        <3>6. holder[t.veh] = None
            BY <3>1
        <3>7. \E v \in Vehicle, s \in Request, o \in Operator :
                  /\ holder[v] = None /\ s \notin granted /\ <<o, v>> \in Authorized
                  /\ holder' = [holder EXCEPT ![v] = [sid |-> s, op |-> o]]
                  /\ granted' = granted \cup {s}
            <4> HIDE DEF holder
            <4> QED BY <3>1, <3>4, <3>5, <3>6
        <3> QED BY <3>7 DEF Lease!Next, Lease!Acquire
    <2>4. ASSUME NEW r \in Slot, OwnerStep(r) PROVE [Lease!Next]_(Lease!vars)
        <3> DEFINE t == task[r]
        <3>1. /\ t.veh \in Vehicle /\ t.sid \in Request /\ t.exp \in 0 .. LeaseTTL
              /\ lease[t.veh] \in Session /\ lease[t.veh] # None
            BY <2>4, OwnerKnown
        <3>2. CASE RenewScript(t.veh, t.sid, t.exp)
            <4> DEFINE new == [lease[t.veh] EXCEPT !.exp = t.exp, !.px = LeaseTTL]
            <4>1. LeaseTTL \in 1 .. LeaseTTL
                BY LeaseAssumption
            <4>2. new \in Session /\ new.sid = lease[t.veh].sid /\ new.op = lease[t.veh].op
                BY <3>1, <4>1 DEF Session
            <4>3. lease' = [lease EXCEPT ![t.veh] = new] /\ granted' = granted
                BY <3>2 DEF RenewScript
            <4> HIDE DEF new
            <4>4. UNCHANGED <<holder, granted>>
                BY <3>1, <4>2, <4>3, NoneAssumption DEF LeaseInv, TypeInv, StoreTypeOK
            <4> QED BY <4>4 DEF Lease!vars
        <3>3. CASE ReleaseScript(t.veh, t.sid)
            <4>1. /\ holder' = [v \in Vehicle |-> IF v \in {t.veh} THEN None ELSE holder[v]]
                  /\ UNCHANGED granted
                BY <3>1, <3>3 DEF ReleaseScript, LeaseInv, TypeInv, StoreTypeOK
            <4>2. \E over \in SUBSET Vehicle :
                      /\ holder' = [v \in Vehicle |-> IF v \in over THEN None ELSE holder[v]]
                      /\ UNCHANGED granted
                <5> HIDE DEF holder
                <5> QED BY <3>1, <4>1
            <4> QED BY <4>2 DEF Lease!Next, Lease!End
        <3> QED BY <2>4, <3>2, <3>3 DEF OwnerStep
    <2>5. CASE StoreTick
        <3> DEFINE ended == {v \in Vehicle : lease'[v] = None}
        <3>1. ASSUME NEW v \in Vehicle, lease'[v] # None
              PROVE  lease[v] # None /\ lease'[v].sid = lease[v].sid /\ lease'[v].op = lease[v].op
            <4>1. lease[v] # None
                BY <2>5, <3>1 DEF StoreTick, Age
            <4>2. lease[v] \in Session /\ lease'[v] = Aged(v)
                BY <2>5, <3>1, <4>1, TickLease DEF LeaseInv, TypeInv, StoreTypeOK
            <4> QED BY <4>1, <4>2 DEF Aged, Session
        <3>2. holder' = [v \in Vehicle |-> IF v \in ended THEN None ELSE holder[v]]
            BY <3>1
        <3>3. UNCHANGED granted
            BY <2>5 DEF StoreTick
        <3>4. \E over \in SUBSET Vehicle :
                  /\ holder' = [v \in Vehicle |-> IF v \in over THEN None ELSE holder[v]]
                  /\ UNCHANGED granted
            <4> ended \in SUBSET Vehicle
                OBVIOUS
            <4> HIDE DEF holder, ended
            <4> QED BY <3>2, <3>3
        <3> QED BY <3>4 DEF Lease!Next, Lease!End
    <2> QED BY <2>1, <2>2, <2>3, <2>4, <2>5 DEF StoreStep
<1> QED BY <1>1, <1>2, LeaseInvariant, PTL DEF Spec, LeaseSpec, Lease!Spec

-----------------------------------------------------------------------------
(* What one step of a handler does, to its own state and to the video      *)
(* store.  The sections that follow need no more of the actions than this. *)

\* A request that has not been sent is nothing yet.
Fresh == \A r \in Request : pc[r] = "idle" => task[r].kind = "none"

\* An acquire is answered at its end.
Unanswered == \A r \in Request : task[r].kind = "acquire" /\ res[r] = "ok" => pc[r] = "done"

RunInv == TypeInv /\ Fresh /\ Unanswered

\* An acquire past its script, and one whose client has been told of its session.
Gained == {"getVideo", "expireVideo", "saveVideo", "issueToken"}
Holding(r) == task[r].kind = "acquire" /\ (pc[r] \in Gained \/ (pc[r] = "done" /\ res[r] = "ok"))
Told(r) ==
    task[r].kind = "acquire" /\ (pc[r] = "issueToken" \/ (pc[r] = "done" /\ res[r] = "ok"))

\* A viewer counts from the moment its record is saved.
Watching(r) == task[r].kind = "view" /\ (res[r] = "ok" \/ pc[r] = "indexViewer")

\* Labels at which a handler has a copy of the video record.
Copying == {"expireVideo", "saveVideo", "delViewer"}

Others(r) ==
    \A q \in Slot \ {r} : pc'[q] = pc[q] /\ task'[q] = task[q] /\ res'[q] = res[q]

\* A handler runs, or a request comes and finds room.
Turn(r) ==
    /\ \/ Running(r)
       \/ /\ Room /\ task[r].kind \in {"none", "poll"}
          /\ UNCHANGED <<storeVars, videoVars>>
    /\ pc'[r] # pc[r] /\ (r \in Request => pc'[r] # "idle")

\* It stays the request it is.
Kept(r) ==
    LET t == task[r]
        u == task'[r]
    IN
    /\ t.kind \in {"acquire", "release"} => u.kind = t.kind /\ u.op = t.op /\ u.sid = t.sid
    /\ t.kind = "acquire" =>
          u.veh = t.veh \/ (index[t.sid] # None /\ u.veh = index[t.sid].veh)
    /\ t.kind = "view" => u.kind = "view" /\ u.veh = t.veh
    /\ t.kind = "unview" => u.kind = "unview" /\ (pc[r] # "getViewer" => u.veh = t.veh)

\* Its copy is what it has just read or written.
Copied(r) ==
    LET b == task'[r].buf
        v == task[r].veh
    IN
    \/ pc'[r] \notin Copying /\ b \in {Absent, task[r].buf}
    \/ /\ pc'[r] \in Copying /\ task'[r].veh = v
       /\ \/ pc[r] = "getVideo" /\ b = video[v] /\ UNCHANGED video
                /\ (pc'[r] = "expireVideo" => GraceOver(b))
          \/ pc[r] = "expireVideo" /\ b = InStandby(task[r].buf) /\ Save(v, b)
                /\ pc'[r] # "expireVideo"
          \/ pc[r] = "delViewer" /\ b = task[r].buf /\ UNCHANGED video /\ pc'[r] # "expireVideo"

\* It comes to hold the lease, or to have given it up, by the script; its client is told last.
Gains(r) ==
    LET t == task[r]
        u == task'[r]
    IN
    /\ Holding(r)' => u.exp = t.exp /\ (Holding(r) \/ AcquireStep(r))
    /\ u.kind \in {"acquire", "release"} /\ pc'[r] \in Gained =>
          /\ u.veh = t.veh /\ u.kind = t.kind
          /\ \/ pc[r] \in Gained /\ UNCHANGED storeVars
             \/ AcquireStep(r)
             \/ u.kind = "release" /\ pc[r] = "script" /\ ReleaseScript(t.veh, t.sid)
    /\ Told(r)' => \/ pc[r] = "issueToken" /\ UNCHANGED video
                   \/ /\ pc[r] = "saveVideo" /\ t.kind = "acquire"
                      /\ Save(t.veh, SetController(t.buf, r, t.sid))
    /\ u.kind = "acquire" /\ res'[r] = "ok" => pc'[r] = "done"

\* It is let in as a viewer when its record is saved; a request to leave ends with the save.
Watches(r) ==
    LET t == task[r] IN
    /\ Watching(r)' => \/ Watching(r) /\ pc[r] # "saveVideo"
                       \/ /\ pc[r] = "saveVideo" /\ t.kind = "view"
                          /\ Save(t.veh, AcquireViewer(t.buf, r))
    /\ pc[r] = "saveVideo" /\ t.kind = "unview" => pc'[r] = "done"

\* What it does to the video store.
Effect(r) ==
    LET t == task[r] IN
    \/ UNCHANGED videoVars
    \/ pc[r] = "expireVideo" /\ Save(t.veh, InStandby(t.buf)) /\ UNCHANGED viewer
    \/ pc[r] = "saveVideo" /\ Save(t.veh, Changed(r)) /\ UNCHANGED viewer
    \/ pc[r] = "indexViewer" /\ viewer' = [viewer EXCEPT ![t.sid] = t.veh] /\ UNCHANGED video
    \/ pc[r] = "delViewer" /\ viewer' = [viewer EXCEPT ![t.sid] = None] /\ UNCHANGED video

Course(r) ==
    /\ Others(r) /\ Turn(r) /\ Kept(r) /\ Copied(r) /\ Gains(r) /\ Watches(r) /\ Effect(r)

LEMMA GotoAt ==
    ASSUME TypeInv, NEW r \in Slot, NEW l, NEW t, Goto(r, l, t)
    PROVE  Others(r) /\ pc'[r] = l /\ task'[r] = t /\ res'[r] = res[r]
BY DEF Goto, Others, TypeInv, HandlersOK

LEMMA AnswerAt ==
    ASSUME TypeInv, NEW r \in Slot, NEW a, NEW t \in Task, Answer(r, a, t)
    PROVE  /\ Others(r) /\ pc'[r] = Stop(r) /\ res'[r] = a
           /\ task'[r].kind = t.kind /\ task'[r].op = t.op /\ task'[r].sid = t.sid
           /\ task'[r].veh = t.veh /\ task'[r].buf = Absent
           /\ t.kind = "acquire" => task'[r].exp = t.exp
           /\ pc'[r] \in {"idle", "done"} /\ (r \in Request => pc'[r] = "done")
<1>1. Others(r) /\ pc'[r] = Stop(r) /\ res'[r] = a /\ task'[r] = Closed(t)
    BY DEF Answer, Others, TypeInv, HandlersOK
<1>2. Closed(t).buf = Absent /\ (t.kind = "acquire" => Closed(t).exp = t.exp)
    BY DEF Closed, Task
<1>3. Stop(r) \in {"idle", "done"} /\ (r \in Request => Stop(r) = "done")
    BY GatewayAssumption DEF Stop
<1> QED BY <1>1, <1>2, <1>3, ClosedOK

\* An answer other than ok ends the handler, whatever it was doing.
LEMMA EndsCourse ==
    ASSUME TypeInv, NEW r \in Slot, Running(r), NEW a, a # "ok", Answer(r, a, task[r]), Effect(r)
    PROVE  Course(r)
<1>1. task[r] \in Task /\ (task[r].kind = "unview" => r \in Request)
    BY Known DEF TaskOK
<1>2. /\ Others(r) /\ res'[r] = a
      /\ task'[r].kind = task[r].kind /\ task'[r].op = task[r].op /\ task'[r].sid = task[r].sid
      /\ task'[r].veh = task[r].veh /\ task'[r].buf = Absent
      /\ pc'[r] \in {"idle", "done"} /\ (r \in Request => pc'[r] = "done")
    BY <1>1, AnswerAt
<1>3. Turn(r) /\ Kept(r)
    BY <1>2 DEF Turn, Kept, Running
<1>4. Copied(r)
    BY <1>2 DEF Copied, Copying
<1>5. Gains(r) /\ Watches(r)
    BY <1>1, <1>2 DEF Gains, Holding, Told, Gained, Watches, Watching, Running
<1> QED BY <1>2, <1>3, <1>4, <1>5 DEF Course

LEMMA RefuseCourse ==
    ASSUME TypeInv, NEW r \in Slot, Running(r), NEW a, a # "ok", Refuse(r, a), Effect(r)
    PROVE  Course(r)
BY EndsCourse DEF Refuse

\* A failure ends the handler, too, or it gives the lease back or goes on to save.
LEMMA ErrorCourse ==
    ASSUME RunInv, NEW r \in Slot, Running(r), OnError(r), Effect(r),
           pc[r] = "delViewer" => UNCHANGED video
    PROVE  Course(r)
<1> DEFINE t == task[r]
<1>0. /\ TypeInv /\ t \in Task /\ KindOK(pc[r], t.kind)
      /\ t.kind = "acquire" => r \in Request
    BY Known DEF RunInv, TaskOK
<1>1. CASE t.kind = "acquire" /\ pc[r] \in {"getVideo", "expireVideo", "saveVideo", "issueToken"}
    <2> DEFINE u == [t EXCEPT !.buf = Absent, !.exp = 0]
    <2>1. Others(r) /\ pc'[r] = "getIndex" /\ task'[r] = u /\ res'[r] = res[r]
        BY <1>0, <1>1, GotoAt DEF OnError
    <2>2. u.kind = "acquire" /\ u.op = t.op /\ u.sid = t.sid /\ u.veh = t.veh /\ u.buf = Absent
        BY <1>0, <1>1 DEF Task
    <2> HIDE DEF u
    <2>3. res[r] # "ok"
        BY <1>0, <1>1 DEF RunInv, Unanswered
    <2>4. Turn(r) /\ Kept(r) /\ Copied(r)
        BY <1>1, <2>1, <2>2 DEF Turn, Kept, Copied, Copying
    <2>5. Gains(r) /\ Watches(r)
        BY <1>1, <2>1, <2>2, <2>3 DEF Gains, Holding, Told, Gained, Watches, Watching
    <2> QED BY <2>1, <2>4, <2>5 DEF Course
<1>2. CASE pc[r] = "delViewer"
    <2>1. Others(r) /\ pc'[r] = "saveVideo" /\ task'[r] = t /\ res'[r] = res[r]
        BY <1>0, <1>2, GotoAt DEF OnError
    <2>2. t.kind = "unview"
        BY <1>0, <1>2 DEF KindOK
    <2>4. Turn(r) /\ Kept(r) /\ Copied(r)
        BY <1>2, <2>1, <2>2 DEF Turn, Kept, Copied, Copying
    <2>5. Gains(r) /\ Watches(r)
        BY <1>2, <2>1, <2>2 DEF Gains, Holding, Told, Gained, Watches, Watching, Running
    <2> QED BY <2>1, <2>4, <2>5 DEF Course
<1>3. CASE pc[r] # "delViewer"
           /\ ~(t.kind = "acquire" /\ pc[r] \in {"getVideo", "expireVideo", "saveVideo", "issueToken"})
    <2>1. Answer(r, "error", t)
        BY <1>3 DEF OnError
    <2> QED BY <1>0, <2>1, EndsCourse
<1> QED BY <1>1, <1>2, <1>3

-----------------------------------------------------------------------------
(* The course of every action.                                             *)

\* What a running handler knows.
LEMMA RunKnown ==
    ASSUME RunInv, NEW r \in Slot
    PROVE  /\ TypeInv /\ task[r] \in Task /\ KindOK(pc[r], task[r].kind)
           /\ task[r].kind \notin {"poll", "none"} => r \in Request
           /\ task[r].kind = "acquire" => task[r].sid = r
           /\ task[r].kind = "acquire" /\ Running(r) => res[r] # "ok"
           /\ task[r].kind = "view" /\ Running(r) => res[r] # "ok"
           /\ r \in Request /\ pc[r] = "idle" => task[r].kind = "none"
           /\ r \in Poller => task[r].kind \in {"poll", "none"}
<1>1. /\ TypeInv /\ task[r] \in Task /\ KindOK(pc[r], task[r].kind)
      /\ TaskOK(r, task[r]) /\ LabelOK(pc[r], task[r], res[r])
    BY Known DEF RunInv
<1>2. task[r].kind \in {"poll", "none"} \/ r \in Request
    BY <1>1 DEF TaskOK
<1>3. task[r].kind = "acquire" => task[r].sid = r
    BY <1>1 DEF TaskOK
<1>4. task[r].kind = "view" /\ Running(r) => res[r] # "ok"
    BY <1>1 DEF LabelOK, Running
<1>5. task[r].kind = "acquire" /\ Running(r) => res[r] # "ok"
    BY <1>2 DEF RunInv, Unanswered, Running
<1> QED BY <1>1, <1>2, <1>3, <1>4, <1>5, GatewayAssumption DEF RunInv, Fresh

LEMMA SubmitCourse ==
    ASSUME RunInv, NEW r \in Slot, Submit(r)
    PROVE  Course(r)
<1>0. /\ TypeInv /\ task[r] \in Task
      /\ r \in Request /\ pc[r] = "idle" => task[r].kind = "none"
      /\ r \in Poller => task[r].kind \in {"poll", "none"}
    BY RunKnown
<1>n. NoTask \in Task /\ NoTask.buf = Absent
    BY NoTaskOK DEF NoTask
<1>1. ASSUME NEW l \in {"acquireScript", "getIndex", "findIndex", "getVideo", "getViewer"},
             NEW t \in Task, Start(r, l, t), t.buf = Absent,
             t.kind \in {"acquire", "renew", "release", "view", "unview", "poll"},
             task[r].kind = "none" \/ (task[r].kind = "poll" /\ t.kind = "poll"),
             t.kind = "acquire" => l = "acquireScript", t.kind = "release" => l = "findIndex",
             res[r] = "none" \/ t.kind = "poll"
      PROVE  Course(r)
    <2>1. /\ Others(r) /\ pc'[r] = l /\ task'[r] = t /\ res'[r] = res[r]
          /\ Room /\ pc[r] = "idle" /\ UNCHANGED storeVars /\ UNCHANGED videoVars
        BY <1>0, <1>1, GotoAt DEF Start
    <2>2. Turn(r) /\ Effect(r)
        BY <1>1, <2>1 DEF Turn, Effect
    <2>3. Kept(r) /\ Copied(r)
        BY <1>1, <2>1 DEF Kept, Copied, Copying
    <2>4. Gains(r) /\ Watches(r)
        BY <1>1, <2>1 DEF Gains, Holding, Told, Gained, Watches, Watching
    <2> QED BY <2>1, <2>2, <2>3, <2>4 DEF Course
<1>i. r \in Request /\ pc[r] = "idle" => res[r] = "none"
    BY GatewayAssumption DEF RunInv, TypeInv, HandlersOK, HandlerOK
<1>2. ASSUME NEW o \in Operator, NEW v \in Vehicle, StartAcquire(r, o, v) PROVE Course(r)
    <2> DEFINE t == [NoTask EXCEPT !.kind = "acquire", !.op = o, !.veh = v, !.sid = r, !.exp = LeaseTTL]
    <2>1. Start(r, "acquireScript", t) /\ r \in Request /\ pc[r] = "idle"
        BY <1>2 DEF StartAcquire, Start
    <2>2. t \in Task /\ t.buf = Absent /\ t.kind = "acquire"
        BY <1>n, <2>1, NoTaskOK DEF Task
    <2> HIDE DEF t
    <2> QED BY <1>0, <1>1, <1>i, <2>1, <2>2
<1>3. ASSUME NEW o \in Operator, NEW s \in Request, StartRenew(r, o, s) \/ StartRelease(r, o, s)
      PROVE  Course(r)
    <2> DEFINE t == [NoTask EXCEPT !.kind = "renew", !.op = o, !.sid = s]
               u == [NoTask EXCEPT !.kind = "release", !.op = o, !.sid = s]
    <2>1. /\ Start(r, "getIndex", t) \/ Start(r, "findIndex", u)
          /\ r \in Request /\ pc[r] = "idle"
        BY <1>3 DEF StartRenew, StartRelease, Start
    <2>2. /\ t \in Task /\ t.buf = Absent /\ t.kind = "renew"
          /\ u \in Task /\ u.buf = Absent /\ u.kind = "release"
        BY <1>n DEF Task
    <2> HIDE DEF t, u
    <2> QED BY <1>0, <1>1, <1>i, <2>1, <2>2
<1>4. ASSUME NEW o \in Operator, NEW v \in Vehicle, StartView(r, o, v) PROVE Course(r)
    <2> DEFINE t == [NoTask EXCEPT !.kind = "view", !.op = o, !.veh = v]
    <2>1. Start(r, "getVideo", t) /\ r \in Request /\ pc[r] = "idle"
        BY <1>4 DEF StartView, Start
    <2>2. t \in Task /\ t.buf = Absent /\ t.kind = "view"
        BY <1>n DEF Task
    <2> HIDE DEF t
    <2> QED BY <1>0, <1>1, <1>i, <2>1, <2>2
<1>6. ASSUME NEW v \in Vehicle, StartPoll(r, v) PROVE Course(r)
    <2> DEFINE t == [NoTask EXCEPT !.kind = "poll", !.veh = v]
    <2>1. Start(r, "getVideo", t) /\ r \in Poller /\ pc[r] = "idle"
        BY <1>6 DEF StartPoll, Start
    <2>2. t \in Task /\ t.buf = Absent /\ t.kind = "poll"
        BY <1>n DEF Task
    <2> HIDE DEF t
    <2> QED BY <1>0, <1>1, <1>i, <2>1, <2>2
<1>5. ASSUME NEW o \in Operator, NEW s \in Request, StartUnview(r, o, s) PROVE Course(r)
    <2> DEFINE t == [NoTask EXCEPT !.kind = "unview", !.op = o, !.sid = s]
    <2>1. Start(r, "getViewer", t) /\ r \in Request /\ pc[r] = "idle"
        BY <1>5 DEF StartUnview, Start
    <2>2. t \in Task /\ t.buf = Absent /\ t.kind = "unview"
        BY <1>n DEF Task
    <2> HIDE DEF t
    <2> QED BY <1>0, <1>1, <1>i, <2>1, <2>2
<1> QED BY <1>2, <1>3, <1>4, <1>5, <1>6 DEF Submit

LEMMA AcquireCourse ==
    ASSUME RunInv, NEW r \in Slot, AcquireControl(r)
    PROVE  Course(r)
<1> DEFINE t == task[r]
<1>0. /\ TypeInv /\ pc[r] = "acquireScript" /\ Running(r) /\ t.kind = "acquire" /\ res[r] # "ok"
      /\ r \in Request /\ UNCHANGED videoVars
    BY RunKnown DEF AcquireControl, Running, KindOK
<1>e. Effect(r)
    BY <1>0 DEF Effect
<1>1. CASE AcquireReply(t.veh) = 0
    BY <1>0, <1>1, <1>e, EndsCourse DEF AcquireControl
<1>2. CASE AcquireReply(t.veh) # 0
    <2>1. Others(r) /\ pc'[r] = "getVideo" /\ task'[r] = t /\ res'[r] = res[r]
        BY <1>0, <1>2, GotoAt DEF AcquireControl
    <2>2. AcquireStep(r)
        <3>1. /\ t.sid = r /\ t.op \in Operator /\ t.veh \in Vehicle
              /\ t.exp \in 0 .. LeaseTTL /\ <<t.op, t.veh>> \in Authorized
            BY <1>0, Known DEF TaskOK, LabelOK
        <3> QED BY <1>0, <1>2, <2>1, <3>1 DEF AcquireStep, AcquireControl, Unborn
    <2>3. Turn(r) /\ Kept(r) /\ Copied(r)
        BY <1>0, <2>1 DEF Turn, Kept, Copied, Copying
    <2>4. Gains(r) /\ Watches(r)
        BY <1>0, <2>1, <2>2 DEF Gains, Holding, Told, Gained, Watches, Watching
    <2> QED BY <1>e, <2>1, <2>3, <2>4 DEF Course
<1> QED BY <1>1, <1>2

\* A handler of the lease store that has found the keys it looks for.
LEMMA LeaseCourse ==
    ASSUME RunInv, NEW r \in Slot, GetIndex(r) \/ GetLease(r)
    PROVE  Course(r)
<1> DEFINE t == task[r]
<1>0. /\ TypeInv /\ t \in Task /\ Running(r) /\ UNCHANGED videoVars
      /\ pc[r] \in {"findIndex", "getIndex", "findLease", "getLease"}
      /\ t.kind \in {"acquire", "renew", "release"} /\ r \in Request
      /\ t.kind = "acquire" => res[r] # "ok"
    BY RunKnown DEF GetIndex, GetLease, Running, KindOK
<1>e. Effect(r)
    BY <1>0 DEF Effect
<1>1. ASSUME NEW l \in {"findLease", "getLease", "getIndex", "script"}, l # pc[r], NEW u \in Task,
             Goto(r, l, u), u.kind = t.kind, u.op = t.op, u.sid = t.sid, u.buf = t.buf,
             u.veh = t.veh \/ (index[t.sid] # None /\ u.veh = index[t.sid].veh)
      PROVE  Course(r)
    <2>1. Others(r) /\ pc'[r] = l /\ task'[r] = u /\ res'[r] = res[r]
        BY <1>0, <1>1, GotoAt
    <2>2. Turn(r) /\ Kept(r) /\ Copied(r)
        BY <1>0, <1>1, <2>1 DEF Turn, Kept, Copied, Copying
    <2>3. Gains(r) /\ Watches(r)
        BY <1>0, <1>1, <2>1 DEF Gains, Holding, Told, Gained, Watches, Watching
    <2> QED BY <1>e, <2>1, <2>2, <2>3 DEF Course
<1>2. ASSUME Refuse(r, "notFound") \/ Refuse(r, "owner") PROVE Course(r)
    BY <1>0, <1>2, <1>e, RefuseCourse
<1>3. CASE GetIndex(r)
    <2> DEFINE u == [t EXCEPT !.veh = index[t.sid].veh]
               l == IF pc[r] = "findIndex" THEN "findLease" ELSE "getLease"
    <2>1. Refuse(r, "notFound") \/ (index[t.sid] # None /\ Goto(r, l, u))
        BY <1>3 DEF GetIndex
    <2>2. ASSUME index[t.sid] # None
          PROVE  /\ u \in Task /\ u.kind = t.kind /\ u.op = t.op /\ u.sid = t.sid /\ u.buf = t.buf
                 /\ u.veh = index[t.sid].veh
        <3>1. t.sid \in Request
            BY <1>0, Known DEF TaskOK
        <3>2. index[t.sid].veh \in Vehicle
            BY <1>0, <2>2, <3>1 DEF TypeInv, StoreTypeOK, IndexEntry
        <3> QED BY <1>0, <3>2 DEF Task
    <2>3. l \in {"findLease", "getLease"} /\ l # pc[r]
        BY <1>3 DEF GetIndex
    <2> HIDE DEF u, l
    <2> QED BY <1>1, <1>2, <2>1, <2>2, <2>3
<1>4. CASE GetLease(r)
    <2> DEFINE e == IF t.kind = "renew" THEN LeaseTTL ELSE t.exp
               u == [t EXCEPT !.exp = IF task[r].kind = "renew" THEN LeaseTTL ELSE @]
    <2>1. \/ Refuse(r, "notFound") \/ Refuse(r, "owner")
          \/ pc[r] = "findLease" /\ Goto(r, "getIndex", t)
          \/ pc[r] = "getLease" /\ Goto(r, "script", u)
        BY <1>4 DEF GetLease
    <2>2. e \in 0 .. LeaseTTL
        BY <1>0, Known, NoTaskOK
    <2>3. /\ u \in Task /\ u.kind = t.kind /\ u.op = t.op /\ u.sid = t.sid /\ u.veh = t.veh
          /\ u.buf = t.buf
        BY <1>0, <2>2 DEF Task
    <2> HIDE DEF u
    <2> QED BY <1>0, <1>1, <1>2, <2>1, <2>3
<1> QED BY <1>3, <1>4

LEMMA ScriptCourse ==
    ASSUME RunInv, NEW r \in Slot, RenewControl(r) \/ ReleaseControl(r)
    PROVE  Course(r)
<1> DEFINE t == task[r]
<1>0. /\ TypeInv /\ t \in Task /\ Running(r) /\ UNCHANGED videoVars /\ pc[r] = "script"
      /\ t.kind \in {"acquire", "renew", "release"} /\ r \in Request
    BY RunKnown DEF RenewControl, ReleaseControl, Running, KindOK
<1>e. Effect(r)
    BY <1>0 DEF Effect
<1>1. ASSUME \E a \in {"notFound", "owner"} : Refuse(r, a) PROVE Course(r)
    BY <1>0, <1>1, <1>e, RefuseCourse
<1>2. ASSUME Answer(r, "error", t) PROVE Course(r)
    BY <1>0, <1>2, <1>e, EndsCourse
<1>3. ASSUME Answer(r, "ok", t), t.kind = "renew" PROVE Course(r)
    <2>1. /\ Others(r) /\ pc'[r] = "done" /\ task'[r].kind = "renew" /\ task'[r].buf = Absent
        BY <1>0, <1>3, AnswerAt
    <2>2. Turn(r) /\ Kept(r) /\ Copied(r)
        BY <1>0, <1>3, <2>1 DEF Turn, Kept, Copied, Copying
    <2>3. Gains(r) /\ Watches(r)
        BY <2>1 DEF Gains, Holding, Told, Gained, Watches, Watching
    <2> QED BY <1>e, <2>1, <2>2, <2>3 DEF Course
<1>4. ASSUME Goto(r, "getVideo", t), t.kind = "release", ReleaseScript(t.veh, t.sid) PROVE Course(r)
    <2>1. Others(r) /\ pc'[r] = "getVideo" /\ task'[r] = t /\ res'[r] = res[r]
        BY <1>0, <1>4, GotoAt
    <2>2. Turn(r) /\ Kept(r) /\ Copied(r)
        BY <1>0, <1>4, <2>1 DEF Turn, Kept, Copied, Copying
    <2>3. Gains(r) /\ Watches(r)
        BY <1>0, <1>4, <2>1 DEF Gains, Holding, Told, Gained, Watches, Watching
    <2> QED BY <1>e, <2>1, <2>2, <2>3 DEF Course
<1> QED BY <1>0, <1>1, <1>2, <1>3, <1>4 DEF RenewControl, ReleaseControl, Refusal

\* VideoSessionStore.Get ends: the handler has the record, or its answer.
LEMMA GotVideoCourse ==
    ASSUME RunInv, NEW r \in Slot, pc[r] \in {"getVideo", "expireVideo"}, NEW s \in VideoRecord,
           GotVideo(r, s), Effect(r), UNCHANGED storeVars,
           \/ pc[r] = "getVideo" /\ s = video[task[r].veh] /\ UNCHANGED video
           \/ pc[r] = "expireVideo" /\ s = InStandby(task[r].buf) /\ Save(task[r].veh, s)
    PROVE  Course(r)
<1> DEFINE t == task[r]
           u == [t EXCEPT !.buf = s]
<1>0. /\ TypeInv /\ t \in Task /\ Running(r)
      /\ t.kind \in {"acquire", "release", "view", "unview", "poll"}
      /\ t.kind # "poll" => r \in Request
      /\ t.kind \in {"acquire", "view"} => res[r] # "ok"
    BY RunKnown DEF Running, KindOK
<1>1. /\ u \in Task /\ u.kind = t.kind /\ u.op = t.op /\ u.sid = t.sid /\ u.veh = t.veh
      /\ u.exp = t.exp /\ u.buf = s
    BY <1>0 DEF Task
<1>2. CASE t.kind = "poll"
    <2>0. Answer(r, "ok", u)
        BY <1>1, <1>2 DEF GotVideo
    <2> HIDE DEF u
    <2>1. /\ Others(r) /\ task'[r].kind = "poll" /\ task'[r].buf = Absent
          /\ pc'[r] \in {"idle", "done"} /\ (r \in Request => pc'[r] = "done")
        BY <1>0, <1>1, <1>2, <2>0, AnswerAt
    <2>2. Turn(r) /\ Kept(r) /\ Copied(r)
        BY <1>0, <1>2, <2>1 DEF Turn, Kept, Copied, Copying
    <2>3. Gains(r) /\ Watches(r)
        BY <2>1 DEF Gains, Holding, Told, Gained, Watches, Watching
    <2> QED BY <2>1, <2>2, <2>3 DEF Course
<1>3. CASE t.kind # "poll"
    <2> DEFINE l == IF t.kind = "unview" THEN "delViewer" ELSE "saveVideo"
    <2>0. Goto(r, l, u)
        BY <1>1, <1>3 DEF GotVideo
    <2> HIDE DEF u
    <2>1. Others(r) /\ pc'[r] = l /\ task'[r] = u /\ res'[r] = res[r]
        BY <1>0, <2>0, GotoAt
    <2>2. Turn(r) /\ Kept(r)
        BY <1>0, <1>1, <2>1 DEF Turn, Kept
    <2>3. Copied(r)
        BY <1>1, <2>1 DEF Copied, Copying
    <2>4. Gains(r) /\ Watches(r)
        BY <1>0, <1>1, <1>3, <2>1 DEF Gains, Holding, Told, Gained, Watches, Watching, Running
    <2> QED BY <2>1, <2>2, <2>3, <2>4 DEF Course
<1> QED BY <1>2, <1>3

LEMMA GetVideoCourse ==
    ASSUME RunInv, NEW r \in Slot, GetVideo(r)
    PROVE  Course(r)
<1> DEFINE t == task[r]
           s == video[t.veh]
           u == [t EXCEPT !.buf = s]
<1>0. /\ TypeInv /\ t \in Task /\ Running(r) /\ pc[r] = "getVideo"
      /\ UNCHANGED storeVars /\ UNCHANGED videoVars
      /\ t.kind \in {"acquire", "release", "view", "unview", "poll"}
      /\ t.kind # "poll" => r \in Request
      /\ t.kind \in {"acquire", "view"} => res[r] # "ok"
    BY RunKnown DEF GetVideo, Running, KindOK
<1>1. s \in VideoRecord
    BY <1>0, VideoKnown DEF TypeInv, VideoTypeOK
<1>e. Effect(r) /\ UNCHANGED video
    BY <1>0 DEF Effect, videoVars
<1>2. CASE GraceOver(s)
    <2>1. Others(r) /\ pc'[r] = "expireVideo" /\ task'[r] = u /\ res'[r] = res[r]
        BY <1>0, <1>2, GotoAt DEF GetVideo
    <2>2. /\ u.kind = t.kind /\ u.op = t.op /\ u.sid = t.sid /\ u.veh = t.veh
          /\ u.exp = t.exp /\ u.buf = s
        BY <1>0 DEF Task
    <2> HIDE DEF u
    <2>3. Turn(r) /\ Kept(r)
        BY <1>0, <2>1, <2>2 DEF Turn, Kept
    <2>4. Copied(r)
        BY <1>0, <1>2, <1>e, <2>1, <2>2 DEF Copied, Copying
    <2>5. Gains(r) /\ Watches(r)
        BY <1>0, <2>1, <2>2 DEF Gains, Holding, Told, Gained, Watches, Watching, Running
    <2> QED BY <1>e, <2>1, <2>3, <2>4, <2>5 DEF Course
<1>3. CASE ~GraceOver(s)
    <2>1. GotVideo(r, s)
        BY <1>3 DEF GetVideo
    <2> QED BY <1>0, <1>1, <1>e, <2>1, GotVideoCourse
<1> QED BY <1>2, <1>3

LEMMA ExpireVideoCourse ==
    ASSUME RunInv, NEW r \in Slot, ExpireVideo(r)
    PROVE  Course(r)
<1>1. /\ pc[r] = "expireVideo" /\ Save(task[r].veh, InStandby(task[r].buf))
      /\ GotVideo(r, InStandby(task[r].buf)) /\ UNCHANGED storeVars /\ UNCHANGED viewer
    BY DEF ExpireVideo
<1>2. InStandby(task[r].buf) \in VideoRecord
    BY <1>1, VideoKnown, InStandbyOK DEF RunInv
<1>3. Effect(r)
    BY <1>1 DEF Effect
<1> QED BY <1>1, <1>2, <1>3, GotVideoCourse

LEMMA SaveVideoCourse ==
    ASSUME RunInv, NEW r \in Slot, SaveVideo(r)
    PROVE  Course(r)
<1> DEFINE t == task[r]
           u == [t EXCEPT !.buf = Absent]
           w == [u EXCEPT !.sid = Changed(r).vsid]
<1>0. /\ TypeInv /\ t \in Task /\ Running(r) /\ pc[r] = "saveVideo" /\ r \in Request
      /\ t.kind \in {"acquire", "release", "view", "unview"}
      /\ t.kind \in {"acquire", "view"} => res[r] # "ok"
      /\ UNCHANGED storeVars /\ UNCHANGED viewer
    BY RunKnown DEF SaveVideo, Running, KindOK
<1>1. /\ u \in Task /\ u.kind = t.kind /\ u.op = t.op /\ u.sid = t.sid /\ u.veh = t.veh
      /\ u.exp = t.exp /\ u.buf = Absent
    BY <1>0, AbsentOK DEF Task
<1>2. Save(t.veh, Changed(r))
    BY <1>1 DEF SaveVideo
<1>e. Effect(r)
    BY <1>0, <1>2 DEF Effect
<1>3. CASE t.kind = "acquire"
    <2>1. Others(r) /\ pc'[r] = "issueToken" /\ task'[r] = u /\ res'[r] = res[r]
        BY <1>0, <1>1, <1>3, GotoAt DEF SaveVideo
    <2>2. Save(t.veh, SetController(t.buf, r, t.sid))
        BY <1>2, <1>3 DEF Changed
    <2> HIDE DEF u
    <2>3. Turn(r) /\ Kept(r) /\ Copied(r)
        BY <1>0, <1>1, <1>3, <2>1 DEF Turn, Kept, Copied, Copying
    <2>4. Gains(r) /\ Watches(r)
        BY <1>0, <1>1, <1>3, <2>1, <2>2 DEF Gains, Holding, Told, Gained, Watches, Watching
    <2> QED BY <1>e, <2>1, <2>3, <2>4 DEF Course
<1>4. CASE t.kind = "view"
    <2>1. Others(r) /\ pc'[r] = "indexViewer" /\ task'[r] = w /\ res'[r] = res[r]
        BY <1>0, <1>1, <1>4, GotoAt DEF SaveVideo
    <2>2. Changed(r) = AcquireViewer(t.buf, r)
        BY <1>4 DEF Changed
    <2>3. w.kind = "view" /\ w.veh = t.veh /\ w.sid = Changed(r).vsid /\ w.buf = Absent
        BY <1>1, <1>4 DEF Task
    <2> HIDE DEF u, w
    <2>4. Turn(r) /\ Kept(r) /\ Copied(r)
        BY <1>0, <1>4, <2>1, <2>3 DEF Turn, Kept, Copied, Copying
    <2>5. Gains(r)
        BY <2>1, <2>3 DEF Gains, Holding, Told, Gained
    <2>6. Watches(r)
        BY <1>0, <1>2, <1>4, <2>1, <2>2, <2>3 DEF Watches
    <2> QED BY <1>e, <2>1, <2>4, <2>5, <2>6 DEF Course
<1>5. CASE t.kind \in {"release", "unview"}
    <2>0. Answer(r, "ok", u)
        BY <1>1, <1>5 DEF SaveVideo
    <2> HIDE DEF u
    <2>1. /\ Others(r) /\ pc'[r] = "done" /\ task'[r].kind = t.kind /\ task'[r].buf = Absent
          /\ task'[r].op = t.op /\ task'[r].sid = t.sid /\ task'[r].veh = t.veh
        BY <1>0, <1>1, <2>0, AnswerAt
    <2>2. Turn(r) /\ Kept(r) /\ Copied(r)
        BY <1>0, <1>5, <2>1 DEF Turn, Kept, Copied, Copying
    <2>3. Gains(r) /\ Watches(r)
        BY <1>5, <2>1 DEF Gains, Holding, Told, Gained, Watches, Watching, Running
    <2> QED BY <1>e, <2>1, <2>2, <2>3 DEF Course
<1> QED BY <1>0, <1>3, <1>4, <1>5

LEMMA ViewerCourse ==
    ASSUME RunInv, NEW r \in Slot, IndexViewer(r) \/ GetViewer(r) \/ DelViewer(r)
    PROVE  Course(r)
<1> DEFINE t == task[r]
<1>0. /\ TypeInv /\ t \in Task /\ Running(r) /\ r \in Request
      /\ pc[r] \in {"indexViewer", "getViewer", "delViewer"} /\ UNCHANGED storeVars
      /\ pc[r] = "indexViewer" => t.kind = "view" /\ res[r] # "ok"
      /\ pc[r] # "indexViewer" => t.kind = "unview"
    BY RunKnown DEF IndexViewer, GetViewer, DelViewer, Running, KindOK
<1>e. Effect(r)
    BY DEF Effect, IndexViewer, GetViewer, DelViewer
<1>1. CASE IndexViewer(r)
    <2>1. /\ Others(r) /\ pc'[r] = "done" /\ task'[r].kind = "view" /\ task'[r].buf = Absent
          /\ task'[r].sid = t.sid /\ task'[r].veh = t.veh /\ pc[r] = "indexViewer"
        BY <1>0, <1>1, AnswerAt DEF IndexViewer
    <2>2. Turn(r) /\ Kept(r) /\ Copied(r)
        BY <1>0, <2>1 DEF Turn, Kept, Copied, Copying
    <2>3. Gains(r) /\ Watches(r)
        BY <1>0, <2>1 DEF Gains, Holding, Told, Gained, Watches, Watching
    <2> QED BY <1>e, <2>1, <2>2, <2>3 DEF Course
<1>2. CASE GetViewer(r) /\ viewer[t.sid] = None
    BY <1>0, <1>2, <1>e, EndsCourse DEF GetViewer
<1>3. CASE GetViewer(r) /\ viewer[t.sid] # None
    <2> DEFINE u == [t EXCEPT !.veh = viewer[t.sid]]
    <2>1. Others(r) /\ pc'[r] = "getVideo" /\ task'[r] = u /\ res'[r] = res[r] /\ pc[r] = "getViewer"
        BY <1>0, <1>3, GotoAt DEF GetViewer
    <2>2. u.kind = t.kind /\ u.sid = t.sid /\ u.veh = viewer[t.sid] /\ u.buf = t.buf
        BY <1>0 DEF Task
    <2> HIDE DEF u
    <2>3. Turn(r) /\ Kept(r) /\ Copied(r)
        BY <1>0, <1>3, <2>1, <2>2 DEF Turn, Kept, Copied, Copying
    <2>4. Gains(r) /\ Watches(r)
        BY <1>0, <2>1, <2>2 DEF Gains, Holding, Told, Gained, Watches, Watching, Running
    <2> QED BY <1>e, <2>1, <2>3, <2>4 DEF Course
<1>4. CASE DelViewer(r)
    <2>1. /\ Others(r) /\ pc'[r] = "saveVideo" /\ task'[r] = t /\ res'[r] = res[r]
          /\ pc[r] = "delViewer" /\ UNCHANGED video
        BY <1>0, <1>4, GotoAt DEF DelViewer
    <2>2. Turn(r) /\ Kept(r) /\ Copied(r)
        BY <1>0, <2>1 DEF Turn, Kept, Copied, Copying
    <2>3. Gains(r) /\ Watches(r)
        BY <1>0, <2>1 DEF Gains, Holding, Told, Gained, Watches, Watching, Running
    <2> QED BY <1>e, <2>1, <2>2, <2>3 DEF Course
<1> QED BY <1>1, <1>2, <1>3, <1>4

LEMMA IssueTokenCourse ==
    ASSUME RunInv, NEW r \in Slot, IssueToken(r)
    PROVE  Course(r)
<1> DEFINE t == task[r]
<1>0. /\ TypeInv /\ t \in Task /\ Running(r) /\ r \in Request /\ pc[r] = "issueToken"
      /\ t.kind = "acquire" /\ UNCHANGED storeVars /\ UNCHANGED videoVars
    BY RunKnown DEF IssueToken, Running, KindOK
<1>1. /\ Others(r) /\ pc'[r] = "done" /\ res'[r] = "ok"
      /\ task'[r].kind = t.kind /\ task'[r].op = t.op /\ task'[r].sid = t.sid
      /\ task'[r].veh = t.veh /\ task'[r].buf = Absent /\ task'[r].exp = t.exp
    BY <1>0, AnswerAt DEF IssueToken
<1>2. Effect(r) /\ UNCHANGED video
    BY <1>0 DEF Effect, videoVars
<1>3. Turn(r) /\ Kept(r) /\ Copied(r)
    BY <1>0, <1>1 DEF Turn, Kept, Copied, Copying
<1>4. Gains(r) /\ Watches(r)
    BY <1>0, <1>1, <1>2 DEF Gains, Holding, Told, Gained, Watches, Watching
<1> QED BY <1>1, <1>2, <1>3, <1>4 DEF Course

LEMMA FailureCourse ==
    ASSUME RunInv, NEW r \in Slot, StepFails(r) \/ ReplyLost(r)
    PROVE  Course(r)
<1>1. Running(r)
    BY DEF StepFails, ReplyLost, Running
<1>2. Effect(r)
    BY DEF StepFails, ReplyLost, Effect
<1>3. pc[r] = "delViewer" => UNCHANGED video
    BY DEF StepFails, ReplyLost, videoVars
<1>4. OnError(r)
    BY DEF StepFails, ReplyLost
<1> QED BY <1>1, <1>2, <1>3, <1>4, ErrorCourse

LEMMA Courses ==
    ASSUME RunInv, [Next]_vars
    PROVE  \/ \E r \in Slot : Course(r)
           \/ Crash
           \/ Tick
           \/ LongKeyExpires
           \/ UNCHANGED vars
BY SubmitCourse, AcquireCourse, LeaseCourse, ScriptCourse, GetVideoCourse, ExpireVideoCourse,
   SaveVideoCourse, ViewerCourse, IssueTokenCourse, FailureCourse DEF Next, Handle

\* What one unit of time does to a handler.
LEMMA TickAt ==
    ASSUME TypeInv, Tick, NEW r \in Slot
    PROVE  /\ pc'[r] = pc[r] /\ res'[r] = res[r]
           /\ task'[r].kind = task[r].kind /\ task'[r].op = task[r].op
           /\ task'[r].veh = task[r].veh /\ task'[r].sid = task[r].sid
           /\ task'[r].exp = Elapse(task[r].exp) /\ task'[r].buf = ElapseGrace(task[r].buf)
<1> DEFINE t == task[r]
           e == Elapse(t.exp)
           b == ElapseGrace(t.buf)
<1>1. t \in Task
    BY Known
<1>2. task'[r] = [t EXCEPT !.exp = e, !.buf = b] /\ pc'[r] = pc[r] /\ res'[r] = res[r]
    BY DEF Tick
<1> HIDE DEF e, b
<1>3. /\ task'[r].kind = t.kind /\ task'[r].op = t.op /\ task'[r].veh = t.veh
      /\ task'[r].sid = t.sid /\ task'[r].exp = e /\ task'[r].buf = b
    BY <1>1, <1>2 DEF Task
<1> QED BY <1>2, <1>3 DEF e, b

\* A crash ends every handler that runs, without an answer.
LEMMA CrashAt ==
    ASSUME TypeInv, Crash, NEW r \in Slot
    PROVE  /\ pc'[r] = (IF Running(r) THEN Stop(r) ELSE pc[r]) /\ res'[r] = res[r]
           /\ task'[r].kind = task[r].kind /\ task'[r].op = task[r].op
           /\ task'[r].veh = task[r].veh /\ task'[r].sid = task[r].sid
           /\ task'[r].kind = "acquire" \/ ~Running(r) => task'[r].exp = task[r].exp
           /\ task'[r].buf = IF Running(r) THEN Absent ELSE task[r].buf
           /\ r \in Request => pc'[r] = IF Running(r) THEN "done" ELSE pc[r]
           /\ pc'[r] \in {"idle", "done"}
<1>1. task[r] \in Task
    BY Known
<1>2. /\ Closed(task[r]).buf = Absent
      /\ task[r].kind = "acquire" => Closed(task[r]).exp = task[r].exp
    BY <1>1 DEF Closed, Task
<1>3. Stop(r) \in {"idle", "done"} /\ (r \in Request => Stop(r) = "done")
    BY GatewayAssumption DEF Stop
<1>4. ~Running(r) => pc[r] \in {"idle", "done"}
    BY DEF Running
<1> QED BY <1>1, <1>2, <1>3, <1>4, ClosedOK DEF Crash

LEMMA RunInit ==
    Init => RunInv
BY TypeInit DEF Init, RunInv, Fresh, Unanswered, NoTask, Slot

LEMMA RunNext ==
    RunInv /\ [Next]_vars => RunInv'
<1> SUFFICES ASSUME RunInv, [Next]_vars PROVE RunInv'
    OBVIOUS
<1>1. TypeInv' /\ TypeInv
    BY TypeNext DEF RunInv
<1>2. ASSUME NEW r \in Slot, Course(r) PROVE Fresh' /\ Unanswered'
    BY <1>2 DEF Course, Others, Turn, Gains, RunInv, Fresh, Unanswered, Slot
<1>3. CASE Crash
    BY <1>1, <1>3, CrashAt DEF RunInv, Fresh, Unanswered, Slot, Running
<1>4. CASE Tick
    BY <1>1, <1>4, TickAt DEF RunInv, Fresh, Unanswered, Slot
<1>5. CASE LongKeyExpires \/ UNCHANGED vars
    BY <1>1, <1>5 DEF LongKeyExpires, vars, handlerVars, RunInv, Fresh, Unanswered
<1> QED BY <1>1, <1>2, <1>3, <1>4, <1>5, Courses DEF RunInv

-----------------------------------------------------------------------------
(* The record of a vehicle makes sense, however handlers overwrite it with *)
(* what they made of their copies: every copy makes sense, too.            *)

Sound(s) ==
    /\ s.mode = "STANDBY" => Unused(s) /\ s.grace = Unset
    /\ s.mode = "ACTIVE" => (Unused(s) <=> s.grace # Unset)

SoundInv ==
    /\ RunInv
    /\ \A v \in Vehicle : Sound(video[v])
    /\ \A r \in Slot : Sound(task[r].buf) /\ (pc[r] = "expireVideo" => Unused(task[r].buf))

\* What each operation makes of a record.
LEMMA TimedFields ==
    ASSUME NEW s \in VideoRecord
    PROVE  /\ InStandby(s).mode = "STANDBY" /\ InStandby(s).grace = Unset
           /\ InStandby(s).count = s.count /\ InStandby(s).ctrl = s.ctrl
           /\ InStandby(s).vsid = s.vsid
           /\ ElapseGrace(s).mode = s.mode /\ (ElapseGrace(s).grace = Unset <=> s.grace = Unset)
           /\ ElapseGrace(s).count = s.count /\ ElapseGrace(s).ctrl = s.ctrl
           /\ ElapseGrace(s).vsid = s.vsid
<1> DEFINE n == IF s.grace > 0 THEN s.grace - 1 ELSE s.grace
<1>1. n = Unset <=> s.grace = Unset
    BY VideoAssumption DEF Unset, VideoRecord
<1>2. /\ ElapseGrace(s).mode = s.mode /\ ElapseGrace(s).grace = n
      /\ ElapseGrace(s).count = s.count /\ ElapseGrace(s).ctrl = s.ctrl
      /\ ElapseGrace(s).vsid = s.vsid
    BY DEF ElapseGrace, VideoRecord
<1> QED BY <1>1, <1>2 DEF InStandby, VideoRecord

LEMMA UseFields ==
    ASSUME NEW s \in VideoRecord, NEW r \in Request, NEW c \in Request
    PROVE  LET x == AcquireViewer(s, r)
               y == SetController(s, r, c)
               id == IF s.vsid = None THEN r ELSE s.vsid
           IN
           /\ x.vsid = id /\ x.mode = "ACTIVE" /\ x.count = s.count + 1
           /\ x.ctrl = s.ctrl /\ x.grace = Unset
           /\ y.vsid = id /\ y.mode = "ACTIVE" /\ y.count = s.count
           /\ y.ctrl = c /\ y.grace = Unset
<1> DEFINE a == Activated(s, r)
<1>1. /\ a.vsid = (IF s.vsid = None THEN r ELSE s.vsid) /\ a.mode = "ACTIVE" /\ a.count = s.count
      /\ a.ctrl = s.ctrl /\ a.grace = Unset
    BY DEF Activated, VideoRecord
<1>3. a \in VideoRecord
    <2>1. Unset \in -1 .. Grace /\ (IF s.vsid = None THEN r ELSE s.vsid) \in Request \cup {None}
        BY VideoAssumption DEF Unset, VideoRecord
    <2> QED BY <2>1 DEF Activated, VideoRecord
<1>2. AcquireViewer(s, r) = [a EXCEPT !.count = @ + 1] /\ SetController(s, r, c) = [a EXCEPT !.ctrl = c]
    BY DEF AcquireViewer, SetController
<1> HIDE DEF a
<1> QED BY <1>1, <1>2, <1>3 DEF VideoRecord

LEMMA LeaveFields ==
    ASSUME NEW s \in VideoRecord, NEW c \in Request
    PROVE  LET x == ReleaseViewer(s)
               y == ClearController(s, c)
               Kind(z) == \/ Unused(z) /\ z.mode = "ACTIVE" /\ z.grace = Grace
                          \/ ~Unused(z) /\ z.mode = s.mode /\ z.grace = s.grace
           IN
           /\ x.vsid = s.vsid /\ x.count = (IF s.count > 0 THEN s.count - 1 ELSE s.count)
           /\ x.ctrl = s.ctrl /\ Kind(x)
           /\ y.vsid = s.vsid /\ y.count = s.count
           /\ y.ctrl = (IF s.ctrl = c THEN None ELSE s.ctrl) /\ Kind(y)
<1>1. ASSUME NEW w \in VideoRecord
      PROVE  LET z == AfterViewerChange(w) IN
             /\ z.vsid = w.vsid /\ z.count = w.count /\ z.ctrl = w.ctrl
             /\ \/ Unused(z) /\ z.mode = "ACTIVE" /\ z.grace = Grace
                \/ ~Unused(z) /\ z.mode = w.mode /\ z.grace = w.grace
    BY DEF AfterViewerChange, Unused, VideoRecord
<1>2. LET x == [s EXCEPT !.count = IF @ > 0 THEN @ - 1 ELSE @] IN
      /\ x \in VideoRecord /\ x.vsid = s.vsid /\ x.mode = s.mode /\ x.grace = s.grace
      /\ x.count = (IF s.count > 0 THEN s.count - 1 ELSE s.count) /\ x.ctrl = s.ctrl
    BY DEF VideoRecord
<1>3. LET x == [s EXCEPT !.ctrl = IF @ = c THEN None ELSE @] IN
      /\ x \in VideoRecord /\ x.vsid = s.vsid /\ x.mode = s.mode /\ x.grace = s.grace
      /\ x.count = s.count /\ x.ctrl = (IF s.ctrl = c THEN None ELSE s.ctrl)
    BY DEF VideoRecord
<1> QED BY <1>1, <1>2, <1>3 DEF ReleaseViewer, ClearController

\* No operation of the store spoils a record.
LEMMA OpsSound ==
    ASSUME NEW s \in VideoRecord, Sound(s)
    PROVE  /\ \A r, c \in Request : /\ Sound(AcquireViewer(s, r)) /\ Sound(SetController(s, r, c))
                                    /\ Sound(ReleaseViewer(s)) /\ Sound(ClearController(s, c))
           /\ Sound(ElapseGrace(s)) /\ (Unused(s) => Unused(ElapseGrace(s)))
           /\ Unused(s) => Sound(InStandby(s))
<1>0. /\ s.count \in Nat /\ s.mode \in {"STANDBY", "ACTIVE"} /\ Grace # Unset
      /\ \A c \in Request : c # None
    BY VideoAssumption, LeaseAssumption DEF VideoRecord, Unset
<1>1. Sound(ElapseGrace(s)) /\ (Unused(s) => Unused(ElapseGrace(s)))
    BY TimedFields DEF Sound, Unused
<1>2. Unused(s) => Sound(InStandby(s))
    BY TimedFields DEF Sound, Unused
<1>3. ASSUME NEW r \in Request, NEW c \in Request
      PROVE  Sound(AcquireViewer(s, r)) /\ Sound(SetController(s, r, c))
    BY <1>0, UseFields DEF Sound, Unused
<1>4. ASSUME NEW c \in Request PROVE Sound(ReleaseViewer(s)) /\ Sound(ClearController(s, c))
    <2> DEFINE x == ReleaseViewer(s)
               y == ClearController(s, c)
    <2>1. /\ x.count = (IF s.count > 0 THEN s.count - 1 ELSE s.count) /\ x.ctrl = s.ctrl
          /\ \/ Unused(x) /\ x.mode = "ACTIVE" /\ x.grace = Grace
             \/ ~Unused(x) /\ x.mode = s.mode /\ x.grace = s.grace
          /\ y.count = s.count /\ y.ctrl = (IF s.ctrl = c THEN None ELSE s.ctrl)
          /\ \/ Unused(y) /\ y.mode = "ACTIVE" /\ y.grace = Grace
             \/ ~Unused(y) /\ y.mode = s.mode /\ y.grace = s.grace
        BY LeaveFields
    <2> HIDE DEF x, y
    <2>2. Sound(x)
        BY <1>0, <2>1 DEF Sound, Unused
    <2>3. Sound(y)
        BY <1>0, <2>1 DEF Sound, Unused
    <2> QED BY <2>2, <2>3 DEF x, y
<1> QED BY <1>1, <1>2, <1>3, <1>4

LEMMA AbsentSound == Sound(Absent)
BY DEF Sound, Absent, Unused, Unset

LEMMA SoundInit ==
    Init => SoundInv
BY RunInit, AbsentSound DEF Init, VideoInit, NoTask, SoundInv

LEMMA ChangedSound ==
    ASSUME SoundInv, NEW r \in Slot, pc[r] = "saveVideo"
    PROVE  Sound(Changed(r))
<1>1. /\ task[r].kind \in {"acquire", "release", "view", "unview"} /\ task[r].buf \in VideoRecord
      /\ TaskOK(r, task[r]) /\ Sound(task[r].buf)
    BY VideoKnown DEF KindOK, SoundInv, RunInv
<1>2. r \in Request /\ (task[r].kind \in {"acquire", "release"} => task[r].sid \in Request)
    BY <1>1 DEF TaskOK
<1> QED BY <1>1, <1>2, OpsSound DEF Changed

LEMMA CourseSound ==
    ASSUME SoundInv, NEW r \in Slot, Course(r)
    PROVE  /\ \A v \in Vehicle : Sound(video'[v])
           /\ \A q \in Slot : Sound(task'[q].buf) /\ (pc'[q] = "expireVideo" => Unused(task'[q].buf))
<1>1. /\ task[r].buf \in VideoRecord /\ Sound(task[r].buf)
      /\ pc[r] \in {"getVideo", "expireVideo"} => task[r].veh \in Vehicle
      /\ pc[r] = "expireVideo" => Sound(InStandby(task[r].buf))
    <2>1. task[r].buf \in VideoRecord /\ Sound(task[r].buf)
        BY Known DEF SoundInv, RunInv
    <2>2. pc[r] \in {"getVideo", "expireVideo"} => task[r].veh \in Vehicle
        BY VideoKnown DEF SoundInv, RunInv
    <2>3. pc[r] = "expireVideo" => Sound(InStandby(task[r].buf))
        BY <2>1, OpsSound DEF SoundInv
    <2> QED BY <2>1, <2>2, <2>3
<1>2. ASSUME NEW v \in Vehicle PROVE Sound(video'[v])
    <2>1. video \in [Vehicle -> VideoRecord] /\ Sound(video[v])
        BY DEF SoundInv, RunInv, TypeInv, VideoTypeOK
    <2>2. \/ UNCHANGED video
          \/ pc[r] = "expireVideo" /\ video' = [video EXCEPT ![task[r].veh] = InStandby(task[r].buf)]
          \/ pc[r] = "saveVideo" /\ video' = [video EXCEPT ![task[r].veh] = Changed(r)]
        BY DEF Course, Effect, Save, videoVars
    <2> QED BY <1>1, <2>1, <2>2, ChangedSound
<1>3. Sound(task'[r].buf) /\ (pc'[r] = "expireVideo" => Unused(task'[r].buf))
    BY <1>1, AbsentSound DEF Course, Copied, Copying, GraceOver, SoundInv
<1>4. \A q \in Slot \ {r} : Sound(task'[q].buf) /\ (pc'[q] = "expireVideo" => Unused(task'[q].buf))
    BY DEF Course, Others, SoundInv
<1> QED BY <1>2, <1>3, <1>4

LEMMA SoundNext ==
    SoundInv /\ [Next]_vars => SoundInv'
<1> SUFFICES ASSUME SoundInv, [Next]_vars PROVE SoundInv'
    OBVIOUS
<1>1. RunInv' /\ RunInv /\ TypeInv
    BY RunNext DEF SoundInv, RunInv
<1>2. ASSUME NEW r \in Slot, Course(r) PROVE SoundInv'
    BY <1>1, <1>2, CourseSound DEF SoundInv
<1>3. CASE Crash
    BY <1>1, <1>3, CrashAt, AbsentSound DEF Crash, videoVars, SoundInv
<1>4. CASE Tick
    <2>1. \A v \in Vehicle : Sound(video'[v])
        BY <1>1, <1>4, OpsSound DEF Tick, VideoTick, SoundInv, TypeInv, VideoTypeOK
    <2>2. ASSUME NEW r \in Slot
          PROVE  Sound(task'[r].buf) /\ (pc'[r] = "expireVideo" => Unused(task'[r].buf))
        BY <1>1, <1>4, OpsSound, TickAt, Known DEF SoundInv
    <2> QED BY <1>1, <2>1, <2>2 DEF SoundInv
<1>5. CASE LongKeyExpires
    BY <1>1, <1>5, AbsentSound DEF LongKeyExpires, VideoKeyExpires, ViewerKeyExpires, handlerVars,
                                   SoundInv, TypeInv, VideoTypeOK
<1>6. CASE UNCHANGED vars
    BY <1>1, <1>6 DEF vars, videoVars, handlerVars, SoundInv
<1> QED BY <1>1, <1>2, <1>3, <1>4, <1>5, <1>6, Courses

LEMMA SoundInvariant ==
    Spec => []SoundInv
BY SoundInit, SoundNext, PTL DEF Spec

\* The video store's plain GET and SET lose updates when handlers interleave, but never make
\* a record that is in standby while it is used, or that is active and unused for good.
THEOREM RecordConsistent ==
    Spec => []VideoRecordConsistent
<1>1. SoundInv => VideoRecordConsistent
    BY DEF SoundInv, Sound, VideoRecordConsistent
<1> QED BY <1>1, SoundInvariant, PTL

-----------------------------------------------------------------------------
(* A session that was answered is held.                                    *)

\* A lease belongs to the acquire that its session is named after.
Holder ==
    \A v \in Vehicle : lease[v] # None =>
        LET t == task[lease[v].sid] IN t.kind = "acquire" /\ t.veh = v /\ t.op = lease[v].op

GivenUp(r) ==
    \E q \in Request : task[q].kind = "release" /\ task[q].sid = r /\ task[q].op = task[r].op

\* An acquire past its script has the lease until the expires_at it was given, and
\* until its operator asks for the release.
Backed ==
    \A r \in Request : Holding(r) /\ task[r].exp > 0 /\ ~GivenUp(r) =>
        LET l == lease[task[r].veh] IN l # None /\ l.sid = r /\ l.px >= task[r].exp

HeldInv == LeaseInv /\ RunInv /\ Holder /\ Backed

\* What a step of r does to a lease: nothing, or it takes, prolongs or ends the lease of
\* its own vehicle.
LEMMA CourseLease ==
    ASSUME LeaseInv, [Next]_vars, NEW r \in Slot, Course(r), NEW w \in Vehicle
    PROVE  LET t == task[r] IN
           \/ lease'[w] = lease[w]
           \/ /\ AcquireStep(r) /\ w = t.veh /\ lease[w] = None
              /\ lease'[w] # None /\ lease'[w].sid = r /\ lease'[w].op = t.op
              /\ lease'[w].px = LeaseTTL
           \/ /\ pc[r] = "script" /\ w = t.veh
              /\ lease[w] # None /\ lease[w].sid = t.sid /\ lease[w].op = t.op
              /\ \/ /\ lease'[w] # None /\ lease'[w].sid = lease[w].sid
                    /\ lease'[w].op = lease[w].op /\ lease'[w].px = LeaseTTL
                 \/ t.kind \in {"release", "acquire"} /\ lease'[w] = None
<1> DEFINE t == task[r]
<1>1. UNCHANGED storeVars \/ AcquireStep(r) \/ OwnerStep(r)
    <2>1. StoreStep
        BY NextStep DEF LeaseInv
    <2>2. pc'[r] # pc[r] /\ \A q \in Slot : q # r => pc'[q] = pc[q]
        BY DEF Course, Turn, Others
    <2> QED BY <2>1, <2>2 DEF StoreStep, AcquireStep, OwnerStep, Unborn
<1>2. lease \in [Vehicle -> Session \cup {None}]
    BY DEF LeaseInv, TypeInv, StoreTypeOK
<1>3. CASE UNCHANGED storeVars
    BY <1>3 DEF storeVars
<1>4. CASE AcquireStep(r)
    <2> DEFINE new == [sid |-> r, op |-> t.op, exp |-> t.exp, px |-> LeaseTTL]
    <2>1. new \in Session
        <3>1. LeaseTTL \in 1 .. LeaseTTL
            BY LeaseAssumption
        <3> QED BY <1>4, <3>1 DEF AcquireStep, Session
    <2>2. new # None /\ new.sid = r /\ new.op = t.op /\ new.px = LeaseTTL
        BY <2>1, NoneAssumption
    <2>3. lease' = [lease EXCEPT ![t.veh] = new] /\ lease[t.veh] = None
        BY <1>4 DEF AcquireStep, AcquireScript, AcquireReply
    <2> HIDE DEF new
    <2> QED BY <1>2, <1>4, <2>2, <2>3
<1>5. CASE OwnerStep(r)
    <2>1. /\ pc[r] = "script" /\ t.veh \in Vehicle
          /\ lease[t.veh] \in Session /\ lease[t.veh] # None
          /\ lease[t.veh].sid = t.sid /\ lease[t.veh].op = t.op
        BY <1>5, OwnerKnown DEF OwnerStep
    <2>2. CASE t.kind \in {"release", "acquire"} /\ ReleaseScript(t.veh, t.sid)
        BY <1>2, <2>1, <2>2 DEF ReleaseScript
    <2>3. CASE RenewScript(t.veh, t.sid, t.exp)
        <3> DEFINE new == [lease[t.veh] EXCEPT !.exp = t.exp, !.px = LeaseTTL]
        <3>1. new \in Session
            <4>1. LeaseTTL \in 1 .. LeaseTTL
                BY LeaseAssumption
            <4> QED BY <1>5, <2>1, <4>1 DEF OwnerStep, Session
        <3>2. /\ new # None /\ new.sid = lease[t.veh].sid /\ new.op = lease[t.veh].op
              /\ new.px = LeaseTTL
            BY <2>1, <3>1, NoneAssumption DEF Session
        <3>3. lease' = [lease EXCEPT ![t.veh] = new]
            BY <2>3 DEF RenewScript
        <3> HIDE DEF new
        <3> QED BY <1>2, <2>1, <3>2, <3>3
    <2> QED BY <1>5, <2>2, <2>3 DEF OwnerStep
<1> QED BY <1>1, <1>3, <1>4, <1>5

\* An acquire or release stays what it is: the index leads an acquire that rolls back to
\* the vehicle that it is for.
LEMMA Lasting ==
    ASSUME HeldInv, NEW r \in Slot, Course(r), NEW q \in Slot
    PROVE  /\ task[q].kind \in {"acquire", "release"} =>
                 task'[q].kind = task[q].kind /\ task'[q].op = task[q].op /\ task'[q].sid = task[q].sid
           /\ task[q].kind = "acquire" => task'[q].veh = task[q].veh
<1>1. CASE q # r
    BY <1>1 DEF Course, Others
<1>2. CASE q = r
    <2>1. /\ task[r].kind \in {"acquire", "release"} =>
                task'[r].kind = task[r].kind /\ task'[r].op = task[r].op /\ task'[r].sid = task[r].sid
        BY DEF Course, Kept
    <2>2. ASSUME task[r].kind = "acquire" PROVE task'[r].veh = task[r].veh
        <3>1. task[r].sid = r /\ r \in Request
            BY <2>2, RunKnown DEF HeldInv
        <3>2. index[r] # None => index[r].veh = task[r].veh
            BY <3>1, Paired DEF HeldInv, Holder
        <3> QED BY <2>2, <3>1, <3>2 DEF Course, Kept
    <2> QED BY <1>2, <2>1, <2>2
<1> QED BY <1>1, <1>2

LEMMA HolderCourse ==
    ASSUME HeldInv, [Next]_vars, NEW r \in Slot, Course(r)
    PROVE  Holder'
<1> SUFFICES ASSUME NEW w \in Vehicle, lease'[w] # None
             PROVE  LET u == task'[lease'[w].sid] IN
                    u.kind = "acquire" /\ u.veh = w /\ u.op = lease'[w].op
    BY DEF Holder
<1>1. ASSUME lease[w] # None, lease'[w].sid = lease[w].sid, lease'[w].op = lease[w].op
      PROVE  LET u == task'[lease'[w].sid] IN
             u.kind = "acquire" /\ u.veh = w /\ u.op = lease'[w].op
    <2> DEFINE q == lease[w].sid
    <2>1. q \in Slot
        BY <1>1, Paired DEF HeldInv, Slot
    <2>2. task[q].kind = "acquire" /\ task[q].veh = w /\ task[q].op = lease[w].op
        BY <1>1 DEF HeldInv, Holder
    <2> HIDE DEF q
    <2>3. task'[q].kind = "acquire" /\ task'[q].veh = w /\ task'[q].op = lease[w].op
        BY <2>1, <2>2, Lasting
    <2> QED BY <1>1, <2>3 DEF q
<1>2. ASSUME AcquireStep(r), w = task[r].veh, lease'[w].sid = r, lease'[w].op = task[r].op
      PROVE  LET u == task'[lease'[w].sid] IN
             u.kind = "acquire" /\ u.veh = w /\ u.op = lease'[w].op
    <2>1. task[r].kind = "acquire"
        BY <1>2, RunKnown DEF HeldInv, AcquireStep, KindOK
    <2> QED BY <1>2, <2>1, Lasting
<1>3. LeaseInv
    BY DEF HeldInv
<1> QED BY <1>1, <1>2, <1>3, CourseLease

LEMMA BackedCourse ==
    ASSUME HeldInv, [Next]_vars, NEW r \in Slot, Course(r)
    PROVE  Backed'
<1> SUFFICES ASSUME NEW q \in Request, Holding(q)', task'[q].exp > 0, ~GivenUp(q)'
             PROVE  LET l == lease'[task'[q].veh] IN l # None /\ l.sid = q /\ l.px >= task'[q].exp
    BY DEF Backed
<1> DEFINE w == task[q].veh
           l == lease[w]
           m == lease'[w]
<1>0. q \in Slot /\ LeaseInv /\ RunInv /\ TypeInv
    BY DEF HeldInv, RunInv, Slot
<1>1. task'[q].exp = task[q].exp /\ (Holding(q) \/ (q = r /\ AcquireStep(r)))
    BY <1>0 DEF Course, Others, Gains, Holding
<1>2. task[q].kind = "acquire" /\ task[q].exp <= LeaseTTL /\ w \in Vehicle
    <2>1. task[q].kind = "acquire"
        BY <1>0, <1>1, RunKnown DEF Holding, AcquireStep, KindOK
    <2> QED BY <1>0, <2>1, Known, LeaseAssumption DEF TaskOK
<1>3. task'[q].veh = w /\ task'[q].op = task[q].op
    BY <1>0, <1>2, Lasting
<1>4. ~GivenUp(q)
    <2> SUFFICES ASSUME NEW p \in Request, task[p].kind = "release", task[p].sid = q,
                        task[p].op = task[q].op
                 PROVE  FALSE
        BY DEF GivenUp
    <2>1. p \in Slot
        BY DEF Slot
    <2>2. task'[p].kind = "release" /\ task'[p].sid = q /\ task'[p].op = task'[q].op
        BY <1>3, <2>1, Lasting
    <2> QED BY <2>2 DEF GivenUp
<1>5. Holding(q) => l # None /\ l.sid = q /\ l.px >= task[q].exp
    BY <1>1, <1>4 DEF HeldInv, Backed
<1>6. l # None /\ l.sid = q => task[q].op = l.op
    BY <1>2 DEF HeldInv, Holder
<1>7. pc[r] = "script" /\ q = r => ~Holding(q)
    BY DEF Holding, Gained
<1>8. pc[r] = "script" => pc[r] # "acquireScript"
    OBVIOUS
<1>9. task[r].kind = "acquire" => task[r].sid = r
    BY <1>0, RunKnown
<1>10. task[r].kind = "release" => r \in Request
    BY <1>0, RunKnown
<1>11. ~(task[r].kind = "release" /\ task[r].sid = q /\ task[r].op = task[q].op)
    BY <1>4, <1>10 DEF GivenUp
<1>12. LET t == task[r] IN
       \/ m = l
       \/ /\ AcquireStep(r) /\ w = t.veh /\ l = None /\ m # None /\ m.sid = r /\ m.px = LeaseTTL
       \/ /\ pc[r] = "script" /\ l # None /\ l.sid = t.sid /\ l.op = t.op
          /\ \/ m # None /\ m.sid = l.sid /\ m.px = LeaseTTL
             \/ t.kind \in {"release", "acquire"} /\ m = None
    BY <1>0, <1>2, CourseLease
<1>13. AcquireStep(r) => lease[task[r].veh] = None /\ pc[r] = "acquireScript"
    BY DEF AcquireStep, AcquireReply
<1>14. AcquireStep(r) /\ q = r => m # l
    <2> SUFFICES ASSUME AcquireStep(r), q = r PROVE m # None /\ l = None
        OBVIOUS
    <2>1. lease' = [lease EXCEPT ![w] = [sid |-> r, op |-> task[r].op, exp |-> task[r].exp, px |-> LeaseTTL]]
        BY DEF AcquireStep, AcquireScript
    <2>2. [sid |-> r, op |-> task[r].op, exp |-> task[r].exp, px |-> LeaseTTL] \in Session
        <3>1. LeaseTTL \in 1 .. LeaseTTL
            BY LeaseAssumption
        <3> QED BY <3>1 DEF AcquireStep, Session
    <2> QED BY <1>0, <1>2, <1>13, <2>1, <2>2, NoneAssumption DEF TypeInv, StoreTypeOK
<1> HIDE DEF w, l, m
<1>15. m # None /\ m.sid = q /\ m.px >= task[q].exp
    BY <1>1, <1>2, <1>5, <1>6, <1>7, <1>8, <1>9, <1>11, <1>12, <1>13, <1>14
<1> QED BY <1>1, <1>3, <1>15 DEF m

LEMMA HeldInit ==
    Init => HeldInv
BY LeaseInit, RunInit DEF Init, StoreInit, HeldInv, Holder, Backed, Holding, NoTask, Slot

LEMMA HeldNext ==
    HeldInv /\ [Next]_vars => HeldInv'
<1> SUFFICES ASSUME HeldInv, [Next]_vars PROVE HeldInv'
    OBVIOUS
<1>1. LeaseInv' /\ RunInv' /\ LeaseInv /\ RunInv /\ TypeInv
    BY LeaseNext, RunNext DEF HeldInv, RunInv
<1>2. ASSUME NEW r \in Slot, Course(r) PROVE HeldInv'
    BY <1>1, <1>2, HolderCourse, BackedCourse DEF HeldInv
<1>r. \A r \in Request : r \in Slot
    BY DEF Slot
<1>3. CASE Crash
    <2>1. UNCHANGED lease
        BY <1>3 DEF Crash, storeVars
    <2>2. ASSUME NEW r \in Slot
          PROVE  /\ task'[r].kind = task[r].kind /\ task'[r].op = task[r].op
                 /\ task'[r].veh = task[r].veh /\ task'[r].sid = task[r].sid
        BY <1>1, <1>3, CrashAt
    <2>3. Holder'
        BY <1>r, <1>1, <2>1, <2>2, Paired DEF HeldInv, Holder
    <2>4. ASSUME NEW r \in Request, Holding(r)' PROVE Holding(r) /\ task'[r].exp = task[r].exp
        <3>1. Running(r) => ~(task[r].kind = "acquire" /\ res[r] = "ok")
            BY <1>1, <1>r, RunKnown
        <3>2. /\ pc'[r] = (IF Running(r) THEN "done" ELSE pc[r]) /\ res'[r] = res[r]
              /\ task'[r].kind = task[r].kind
              /\ task'[r].kind = "acquire" => task'[r].exp = task[r].exp
            BY <1>1, <1>3, <1>r, CrashAt
        <3> QED BY <2>4, <3>1, <3>2 DEF Holding, Gained
    <2>5. \A r \in Request : GivenUp(r)' <=> GivenUp(r)
        BY <1>r, <2>2 DEF GivenUp
    <2>6. Backed'
        BY <1>r, <2>1, <2>2, <2>4, <2>5 DEF HeldInv, Backed
    <2> QED BY <1>1, <2>3, <2>6 DEF HeldInv
<1>4. CASE Tick
    <2>1. ASSUME NEW r \in Slot
          PROVE  /\ task'[r].kind = task[r].kind /\ task'[r].op = task[r].op
                 /\ task'[r].veh = task[r].veh /\ task'[r].sid = task[r].sid
                 /\ pc'[r] = pc[r] /\ res'[r] = res[r] /\ task'[r].exp = Elapse(task[r].exp)
                 /\ task[r].exp \in Nat
        BY <1>1, <1>4, TickAt, Known, LeaseAssumption
    <2>2. ASSUME NEW w \in Vehicle
          PROVE  /\ lease'[w] # None =>
                    /\ lease[w] # None /\ lease[w].px \in Nat /\ lease[w].px > 1
                    /\ lease[w].sid \in Request
                    /\ lease'[w].sid = lease[w].sid /\ lease'[w].op = lease[w].op
                    /\ lease'[w].px = lease[w].px - 1
                 /\ lease[w] # None /\ lease[w].px > 1 => lease'[w] # None
        BY <1>1, <1>4, TickedLease DEF Tick
    <2>3. Holder'
        BY <1>r, <2>1, <2>2 DEF HeldInv, Holder
    <2>4. \A r \in Request : (GivenUp(r)' <=> GivenUp(r)) /\ (Holding(r)' <=> Holding(r))
        BY <1>r, <2>1 DEF GivenUp, Holding
    <2>5. ASSUME NEW r \in Request, Holding(r)', task'[r].exp > 0, ~GivenUp(r)'
          PROVE  LET m == lease'[task'[r].veh] IN m # None /\ m.sid = r /\ m.px >= task'[r].exp
        <3> DEFINE w == task[r].veh
        <3>1. task[r].exp > 1 /\ task'[r].exp = task[r].exp - 1 /\ task[r].exp \in Nat
            BY <1>r, <2>1, <2>5 DEF Elapse
        <3>2. Holding(r) /\ ~GivenUp(r)
            BY <2>4, <2>5
        <3>3. w \in Vehicle
            BY <1>1, <1>r, <3>2, Known DEF Holding, TaskOK
        <3>4. lease[w] # None /\ lease[w].sid = r /\ lease[w].px >= task[r].exp
            BY <3>1, <3>2 DEF HeldInv, Backed
        <3>5. lease[w].px \in Nat
            BY <1>1, <3>3, <3>4, LeaseAssumption DEF TypeInv, StoreTypeOK, Session
        <3>6. lease'[w] # None /\ lease'[w].sid = r /\ lease'[w].px = lease[w].px - 1
            BY <2>2, <3>1, <3>3, <3>4, <3>5
        <3>7. task'[r].veh = w
            BY <1>r, <2>1
        <3> QED BY <3>1, <3>4, <3>5, <3>6, <3>7
    <2>6. Backed'
        BY <2>5 DEF Backed
    <2> QED BY <1>1, <2>3, <2>6 DEF HeldInv
<1>5. CASE LongKeyExpires \/ UNCHANGED vars
    BY <1>1, <1>5 DEF LongKeyExpires, vars, handlerVars, storeVars, HeldInv, Holder, Backed, Holding, GivenUp
<1> QED BY <1>1, <1>2, <1>3, <1>4, <1>5, Courses

LEMMA HeldInvariant ==
    Spec => []HeldInv
BY HeldInit, HeldNext, PTL DEF Spec

\* Whatever the other requests do or fail to do, an operator that was answered with a session
\* has the lease until the expires_at of that answer, unless that operator gives it up.
THEOREM GrantHolds ==
    Spec => []GrantedIsHeld
<1>1. HeldInv => GrantedIsHeld
    BY DEF HeldInv, Backed, Holding, GivenUp, GrantedIsHeld
<1> QED BY <1>1, HeldInvariant, PTL

-----------------------------------------------------------------------------
(* One handler at a time, in a run shorter than the life of a video key:   *)
(* no update of a video record is lost, so that it tells who uses it.      *)

OneByOne == MaxInFlight = 1 /\ LongRun = FALSE

Alone == \A r, q \in Slot : Running(r) /\ Running(q) => r = q

\* The copy of the handler that runs is the record.
Current == \A r \in Slot : pc[r] \in Copying => task[r].buf = video[task[r].veh]

\* A handler that takes or gives up control finds the vehicle free of any other lease.
Vacant ==
    \A r \in Request : pc[r] \in Gained /\ task[r].kind \in {"acquire", "release"} =>
        LET l == lease[task[r].veh] IN l = None \/ (task[r].kind = "acquire" /\ l.sid = r)

\* The record names the controller.
Controlled ==
    \A r \in Request :
        LET l == lease[task[r].veh] IN
        Told(r) /\ l # None /\ l.sid = r => video[task[r].veh].ctrl = r

\* The viewers of a vehicle, which its record counts, and the requests to leave that have
\* had their effect, each of which counted out one of them at most.
Users(v) == {r \in Request : Watching(r) /\ task[r].veh = v}
Gone(v) == {r \in Leaving(v) : pc[r] = "done"}
Tally(v) ==
    /\ IsFiniteSet(Users(v)) /\ IsFiniteSet(Leaving(v))
    /\ Cardinality(Users(v)) <= video[v].count + Cardinality(Gone(v))
Counted == \A v \in Vehicle : Tally(v)

SerialInv ==
    HeldInv /\ SoundInv /\ Alone /\ Current /\ Vacant /\ Controlled /\ Counted

LEMMA SerialInit ==
    Init => SerialInv
<1> SUFFICES ASSUME Init PROVE SerialInv
    OBVIOUS
<1>1. HeldInv /\ SoundInv
    BY HeldInit, SoundInit
<1>2. \A r \in Slot : pc[r] = "idle" /\ task[r].kind = "none" /\ res[r] = "none"
    BY DEF Init, NoTask
<1>3. \A v \in Vehicle : lease[v] = None /\ video[v].vsid = None /\ video[v].count = 0
    BY DEF Init, StoreInit, VideoInit, Absent
<1>4. \A s \in Request : viewer[s] = None /\ s \in Slot
    BY DEF Init, VideoInit, Slot
<1>5. \A v \in Vehicle : Users(v) = {} /\ Leaving(v) = {} /\ Gone(v) = {}
    BY <1>2, <1>4 DEF Users, Watching, Leaving, Gone
<1>6. Counted
    <2> SUFFICES ASSUME NEW v \in Vehicle PROVE Tally(v)
        BY DEF Counted
    <2>1. IsFiniteSet({}) /\ Cardinality({}) = 0
        BY FS_EmptySet
    <2> QED BY <1>3, <1>5, <2>1 DEF Tally
<1>7. Alone /\ Current /\ Vacant /\ Controlled
    BY <1>2, <1>4 DEF Alone, Current, Vacant, Controlled, Told, Running, Copying, Gained
<1> QED BY <1>1, <1>6, <1>7 DEF SerialInv

\* While one handler makes its step no other runs.
LEMMA Solo ==
    ASSUME OneByOne, Alone, NEW r \in Slot, Course(r)
    PROVE  /\ \A q \in Slot \ {r} : pc[q] \in {"idle", "done"} /\ pc'[q] = pc[q]
           /\ Alone'
<1>1. ASSUME NEW q \in Slot \ {r} PROVE ~Running(q)
    <2>1. CASE Running(r)
        BY <1>1, <2>1 DEF Alone
    <2>2. CASE ~Running(r)
        <3>1. Cardinality(InFlight) < 1
            BY <2>2 DEF Course, Turn, Room, OneByOne
        <3>2. ASSUME Running(q) PROVE FALSE
            <4>1. InFlight = {q}
                BY <1>1, <3>2 DEF Alone, InFlight
            <4>2. Cardinality(InFlight) = 1
                BY <4>1, FS_Singleton
            <4> QED BY <3>1, <4>2
        <3> QED BY <3>2
    <2> QED BY <2>1, <2>2
<1>2. \A q \in Slot \ {r} : pc'[q] = pc[q]
    BY DEF Course, Others
<1> QED BY <1>1, <1>2 DEF Running, Alone

LEMMA CurrentCourse ==
    ASSUME OneByOne, SerialInv, NEW r \in Slot, Course(r)
    PROVE  Current'
<1>1. \A q \in Slot \ {r} : pc'[q] \notin Copying
    BY Solo DEF SerialInv, Copying
<1>2. ASSUME pc'[r] \in Copying PROVE task'[r].buf = video'[task'[r].veh]
    <2>1. /\ video \in [Vehicle -> VideoRecord]
          /\ pc[r] \in {"getVideo", "expireVideo"} => task[r].veh \in Vehicle
        BY VideoKnown DEF SerialInv, SoundInv, RunInv, TypeInv, VideoTypeOK
    <2>2. pc[r] \in Copying => task[r].buf = video[task[r].veh]
        BY DEF SerialInv, Current
    <2> QED BY <1>2, <2>1, <2>2 DEF Course, Copied, Copying, Save
<1> QED BY <1>1, <1>2 DEF Current

LEMMA VacantCourse ==
    ASSUME OneByOne, SerialInv, [Next]_vars, NEW r \in Slot, Course(r)
    PROVE  Vacant'
<1>1. \A q \in Slot \ {r} : pc'[q] \notin Gained
    BY Solo DEF SerialInv, Gained
<1>2. ASSUME r \in Request, pc'[r] \in Gained, task'[r].kind \in {"acquire", "release"}
      PROVE  LET l == lease'[task'[r].veh] IN l = None \/ (task'[r].kind = "acquire" /\ l.sid = r)
    <2>1. task'[r].veh = task[r].veh /\ task'[r].kind = task[r].kind
        BY <1>2 DEF Course, Gains
    <2>2. CASE pc[r] \in Gained /\ UNCHANGED storeVars
        BY <1>2, <2>1, <2>2 DEF storeVars, SerialInv, Vacant
    <2>3. CASE AcquireStep(r)
        <3>1. task[r].kind = "acquire" /\ task[r].veh \in Vehicle
            BY <2>3, RunKnown DEF SerialInv, HeldInv, AcquireStep, KindOK
        <3>2. lease'[task[r].veh].sid = r
            BY <2>3, <3>1 DEF AcquireStep, AcquireScript, SerialInv, HeldInv, RunInv, TypeInv, StoreTypeOK
        <3> QED BY <2>1, <3>1, <3>2
    <2>4. CASE pc[r] = "script" /\ ReleaseScript(task[r].veh, task[r].sid)
        <3>1. task[r].veh \in Vehicle
            BY <2>4, ScriptKnown DEF SerialInv, HeldInv, RunInv
        <3> QED BY <2>1, <2>4, <3>1 DEF ReleaseScript, SerialInv, HeldInv, RunInv, TypeInv, StoreTypeOK
    <2> QED BY <1>2, <2>2, <2>3, <2>4 DEF Course, Gains
<1> QED BY <1>1, <1>2 DEF Vacant, Slot

\* What a save makes of the record of a vehicle that its handler has read.
LEMMA SavedFields ==
    ASSUME SerialInv, NEW r \in Slot, pc[r] = "saveVideo"
    PROVE  LET t == task[r]
               old == video[t.veh]
               new == Changed(r)
           IN
           /\ r \in Request /\ t.veh \in Vehicle
           /\ t.kind \in {"acquire", "release", "view", "unview"}
           /\ old \in VideoRecord
           /\ t.kind = "acquire" => new.ctrl = r
           /\ t.kind \in {"view", "unview"} => new.ctrl = old.ctrl
           /\ t.kind \in {"acquire", "release"} => new.count = old.count
           /\ t.kind = "view" => new.count = old.count + 1
           /\ t.kind = "unview" => new.count = (IF old.count > 0 THEN old.count - 1 ELSE old.count)
           /\ new.vsid = IF old.vsid = None /\ t.kind \in {"acquire", "view"} THEN r ELSE old.vsid
<1> DEFINE t == task[r]
<1>1. /\ t.kind \in {"acquire", "release", "view", "unview"} /\ t.veh \in Vehicle
      /\ t.buf \in VideoRecord /\ TaskOK(r, t)
    BY VideoKnown DEF KindOK, SerialInv, HeldInv, RunInv
<1>2. /\ r \in Request /\ (t.kind \in {"acquire", "release"} => t.sid \in Request)
      /\ t.kind = "acquire" => t.sid = r
    BY <1>1 DEF TaskOK
<1>3. t.buf = video[t.veh]
    BY DEF SerialInv, Current, Copying
<1>4. CASE t.kind = "acquire"
    <2>1. Changed(r) = SetController(t.buf, r, r)
        BY <1>2, <1>4 DEF Changed
    <2> QED BY <1>1, <1>2, <1>3, <1>4, <2>1, UseFields
<1>5. CASE t.kind = "release"
    <2>1. Changed(r) = ClearController(t.buf, t.sid)
        BY <1>5 DEF Changed
    <2> QED BY <1>1, <1>2, <1>3, <1>5, <2>1, LeaveFields
<1>6. CASE t.kind = "view"
    <2>1. Changed(r) = AcquireViewer(t.buf, r)
        BY <1>6 DEF Changed
    <2> QED BY <1>1, <1>2, <1>3, <1>6, <2>1, UseFields
<1>7. CASE t.kind = "unview"
    <2>1. Changed(r) = ReleaseViewer(t.buf)
        BY <1>7 DEF Changed
    <2> QED BY <1>1, <1>2, <1>3, <1>7, <2>1, LeaveFields
<1> QED BY <1>1, <1>4, <1>5, <1>6, <1>7

\* A record that is put in standby keeps all but its mode and deadline.
LEMMA ExpiredFields ==
    ASSUME SerialInv, NEW r \in Slot, pc[r] = "expireVideo"
    PROVE  LET old == video[task[r].veh]
               new == InStandby(task[r].buf)
           IN  /\ task[r].veh \in Vehicle
               /\ new.ctrl = old.ctrl /\ new.count = old.count /\ new.vsid = old.vsid
<1>1. task[r].veh \in Vehicle /\ task[r].buf \in VideoRecord
    BY VideoKnown DEF SerialInv, HeldInv, RunInv
<1>2. task[r].buf = video[task[r].veh]
    BY DEF SerialInv, Current, Copying
<1> QED BY <1>1, <1>2, TimedFields

\* How a step of r changes the record of a vehicle.
LEMMA CourseVideo ==
    ASSUME SerialInv, NEW r \in Slot, Course(r), NEW v \in Vehicle
    PROVE  \/ /\ video'[v].ctrl = video[v].ctrl /\ video'[v].count = video[v].count
              /\ video'[v].vsid = video[v].vsid
           \/ pc[r] = "saveVideo" /\ task[r].veh = v /\ video'[v] = Changed(r)
<1>1. video \in [Vehicle -> VideoRecord]
    BY DEF SerialInv, HeldInv, RunInv, TypeInv, VideoTypeOK
<1>2. CASE UNCHANGED video
    BY <1>2
<1>3. CASE pc[r] = "expireVideo" /\ Save(task[r].veh, InStandby(task[r].buf))
    BY <1>1, <1>3, ExpiredFields DEF Save
<1>4. CASE pc[r] = "saveVideo" /\ Save(task[r].veh, Changed(r))
    BY <1>1, <1>4 DEF Save
<1> QED BY <1>2, <1>3, <1>4 DEF Course, Effect, videoVars

LEMMA ControlledCourse ==
    ASSUME SerialInv, [Next]_vars, NEW r \in Slot, Course(r)
    PROVE  Controlled'
<1>0. LeaseInv /\ HeldInv /\ RunInv /\ TypeInv
    BY DEF SerialInv, HeldInv, RunInv
<1>1. ASSUME NEW q \in Request, Told(q)', lease'[task'[q].veh] # None,
             lease'[task'[q].veh].sid = q
      PROVE  video'[task'[q].veh].ctrl = q
    <2> DEFINE w == task[q].veh
    <2>0. q \in Slot
        BY DEF Slot
    <2>1. CASE q = r
        <3>1. task[r].kind = "acquire" /\ (pc[r] = "issueToken" \/ pc[r] = "saveVideo")
            BY <1>0, <1>1, <2>1, RunKnown DEF Course, Gains, KindOK
        <3>2. task'[r].veh = w /\ w \in Vehicle
            <4>1. TaskOK(r, task[r])
                BY <1>0, Known
            <4> QED BY <1>0, <2>1, <3>1, <4>1, Lasting DEF TaskOK
        <3>3. CASE pc[r] = "issueToken" /\ UNCHANGED video
            <4>1. lease'[w] = lease[w]
                BY <1>0, <3>2, <3>3, CourseLease DEF AcquireStep
            <4>2. Told(r)
                BY <3>1, <3>3 DEF Told
            <4> QED BY <1>1, <2>1, <3>2, <3>3, <4>1, <4>2 DEF SerialInv, Controlled
        <3>4. CASE pc[r] = "saveVideo" /\ Save(w, SetController(task[r].buf, r, task[r].sid))
            <4>1. video'[w] = Changed(r)
                BY <1>0, <2>1, <3>1, <3>2, <3>4 DEF Save, Changed, TypeInv, VideoTypeOK
            <4>2. Changed(r).ctrl = r
                BY <3>1, <3>4, SavedFields
            <4> QED BY <2>1, <3>2, <4>1, <4>2
        <3> QED BY <1>1, <2>1, <3>3, <3>4 DEF Course, Gains
    <2>2. CASE q # r
        <3>1. task'[q] = task[q] /\ Told(q)
            BY <1>1, <2>0, <2>2 DEF Course, Others, Told
        <3>2. w \in Vehicle
            <4>1. TaskOK(q, task[q])
                BY <1>0, <2>0, Known
            <4> QED BY <3>1, <4>1 DEF TaskOK, Told
        <3>3. lease[w] # None /\ lease[w].sid = q
            BY <1>0, <1>1, <2>2, <3>1, <3>2, CourseLease
        <3>4. video[w].ctrl = q
            BY <3>1, <3>3 DEF SerialInv, Controlled
        <3>5. CASE pc[r] = "saveVideo" /\ task[r].veh = w /\ video'[w] = Changed(r)
            <4>1. task[r].kind \notin {"acquire", "release"}
                BY <2>2, <3>3, <3>5, SavedFields DEF SerialInv, Vacant, Gained
            <4> QED BY <3>1, <3>4, <3>5, <4>1, SavedFields
        <3> QED BY <3>1, <3>2, <3>4, <3>5, CourseVideo
    <2> QED BY <2>1, <2>2
<1> QED BY <1>1 DEF Controlled

\* A set that has gained at most one element.
LEMMA OneMore ==
    ASSUME NEW S, IsFiniteSet(S), NEW x, NEW T, T \subseteq S \cup {x}
    PROVE  /\ IsFiniteSet(T) /\ Cardinality(T) \in Nat /\ Cardinality(S) \in Nat
           /\ Cardinality(T) <= Cardinality(S) + 1
<1>1. /\ IsFiniteSet(S \cup {x})
      /\ Cardinality(S \cup {x}) = IF x \in S THEN Cardinality(S) ELSE Cardinality(S) + 1
    BY FS_AddElement
<1>2. IsFiniteSet(T) /\ Cardinality(T) <= Cardinality(S \cup {x})
    BY <1>1, FS_Subset
<1>3. Cardinality(T) \in Nat /\ Cardinality(S) \in Nat
    BY <1>2, FS_CardinalityType
<1> QED BY <1>1, <1>2, <1>3

\* Viewers that were and are no more, requests to leave that have now had their effect.
LEMMA TallyKept ==
    ASSUME NEW v \in Vehicle, Tally(v), video[v].count \in Nat, video'[v].count = video[v].count,
           Users(v)' \subseteq Users(v), Leaving(v)' \subseteq Leaving(v), Gone(v) \subseteq Gone(v)'
    PROVE  Tally(v)'
<1>1. /\ IsFiniteSet(Users(v)') /\ Cardinality(Users(v)') <= Cardinality(Users(v))
      /\ IsFiniteSet(Leaving(v)') /\ IsFiniteSet(Users(v))
    BY FS_Subset DEF Tally
<1>2. IsFiniteSet(Gone(v)')
    BY <1>1, FS_Subset DEF Gone
<1>3. IsFiniteSet(Gone(v)) /\ Cardinality(Gone(v)) <= Cardinality(Gone(v)')
    BY <1>2, FS_Subset
<1>4. /\ Cardinality(Users(v)) \in Nat /\ Cardinality(Users(v)') \in Nat
      /\ Cardinality(Gone(v)) \in Nat /\ Cardinality(Gone(v)') \in Nat
    BY <1>1, <1>2, <1>3, FS_CardinalityType
<1>5. Cardinality(Users(v)') <= video'[v].count + Cardinality(Gone(v)')
    BY <1>1, <1>3, <1>4 DEF Tally
<1> QED BY <1>1, <1>5 DEF Tally

LEMMA CountedCourse ==
    ASSUME SerialInv, NEW r \in Slot, Course(r)
    PROVE  Counted'
<1> DEFINE t == task[r]
<1>0. video \in [Vehicle -> VideoRecord] /\ RunInv
    BY DEF SerialInv, HeldInv, RunInv, TypeInv, VideoTypeOK
<1>1. ASSUME NEW q \in Request, Watching(q)'
      PROVE  /\ q # r => Watching(q) /\ task'[q].veh = task[q].veh
             /\ q = r => task'[r].veh = t.veh
             /\ q = r => \/ Watching(r) /\ pc[r] # "saveVideo"
                         \/ pc[r] = "saveVideo" /\ t.kind = "view" /\ Save(t.veh, AcquireViewer(t.buf, r))
    <2>1. q \in Slot
        BY DEF Slot
    <2>2. q # r => Watching(q) /\ task'[q].veh = task[q].veh
        BY <1>1, <2>1 DEF Course, Others, Watching
    <2>3. q = r => \/ Watching(r) /\ pc[r] # "saveVideo"
                   \/ pc[r] = "saveVideo" /\ t.kind = "view" /\ Save(t.veh, AcquireViewer(t.buf, r))
        BY <1>1 DEF Course, Watches
    <2>4. q = r => task'[r].veh = t.veh
        BY <2>3 DEF Watching, Course, Kept
    <2> QED BY <2>2, <2>3, <2>4
<1> SUFFICES ASSUME NEW v \in Vehicle PROVE Tally(v)'
    BY DEF Counted
<1>2. /\ IsFiniteSet(Users(v)) /\ IsFiniteSet(Leaving(v)) /\ IsFiniteSet(Gone(v))
      /\ Cardinality(Users(v)) <= video[v].count + Cardinality(Gone(v)) /\ video[v].count \in Nat
    BY <1>0, FS_Subset DEF SerialInv, Counted, Tally, Gone, VideoRecord
<1>3. /\ Leaving(v)' \subseteq Leaving(v) \cup {r}
      /\ Gone(v) \subseteq Gone(v)' /\ r \notin Gone(v)
    <2>1. \A q \in Request : q # r => pc'[q] = pc[q] /\ task'[q] = task[q]
        BY DEF Course, Others, Slot
    <2>2. r \notin Gone(v)
        BY DEF Course, Turn, Running, Gone, Leaving
    <2> QED BY <2>1, <2>2 DEF Gone, Leaving
<1>4. IsFiniteSet(Leaving(v)') /\ IsFiniteSet(Gone(v)')
    <2>1. IsFiniteSet(Leaving(v)')
        BY <1>2, <1>3, OneMore
    <2> QED BY <2>1, FS_Subset DEF Gone
<1>5. /\ Cardinality(Gone(v)) <= Cardinality(Gone(v)')
      /\ Cardinality(Gone(v)) \in Nat /\ Cardinality(Gone(v)') \in Nat
      /\ Cardinality(Users(v)) \in Nat
    BY <1>2, <1>3, <1>4, FS_Subset, FS_CardinalityType
<1>6. CASE pc[r] = "saveVideo" /\ t.kind = "view" /\ t.veh = v /\ video'[v] = Changed(r)
    <2>1. Users(v)' \subseteq Users(v) \cup {r}
        BY <1>1 DEF Users
    <2>2. video'[v].count = video[v].count + 1
        BY <1>6, SavedFields
    <2>3. /\ IsFiniteSet(Users(v)') /\ Cardinality(Users(v)') \in Nat
          /\ Cardinality(Users(v)') <= Cardinality(Users(v)) + 1
        BY <1>2, <2>1, OneMore
    <2>4. Cardinality(Users(v)') <= video'[v].count + Cardinality(Gone(v)')
        BY <1>2, <1>5, <2>2, <2>3
    <2> QED BY <1>4, <2>3, <2>4 DEF Tally
<1>s. ASSUME Users(v)' \subseteq Users(v)
      PROVE  /\ IsFiniteSet(Users(v)') /\ Cardinality(Users(v)') \in Nat
             /\ Cardinality(Users(v)') <= Cardinality(Users(v))
    BY <1>2, <1>s, FS_Subset, FS_CardinalityType
<1>7. CASE pc[r] = "saveVideo" /\ t.kind = "unview" /\ t.veh = v /\ video'[v] = Changed(r)
    <2>1. Users(v)' \subseteq Users(v)
        BY <1>1, <1>7 DEF Users
    <2>2. video'[v].count = IF video[v].count > 0 THEN video[v].count - 1 ELSE video[v].count
        BY <1>7, SavedFields
    <2>3. r \in Gone(v)'
        BY <1>7, SavedFields DEF Gone, Leaving, Course, Kept, Watches
    <2>4. Cardinality(Gone(v) \cup {r}) = Cardinality(Gone(v)) + 1
        BY <1>2, <1>3, FS_AddElement
    <2>5. Gone(v) \cup {r} \subseteq Gone(v)'
        BY <1>3, <2>3
    <2>6. Cardinality(Gone(v) \cup {r}) <= Cardinality(Gone(v)')
        BY <1>4, <2>5, FS_Subset
    <2>7. Cardinality(Users(v)') <= video'[v].count + Cardinality(Gone(v)')
        BY <1>2, <1>5, <1>s, <2>1, <2>2, <2>4, <2>6
    <2> QED BY <1>4, <1>s, <2>1, <2>7 DEF Tally
<1>8. CASE ~(pc[r] = "saveVideo" /\ t.kind \in {"view", "unview"} /\ t.veh = v /\ video'[v] = Changed(r))
    <2>1. video'[v].count = video[v].count
        BY <1>8, CourseVideo, SavedFields
    <2>2. ~(pc[r] = "saveVideo" /\ t.kind = "view" /\ t.veh = v /\ Save(t.veh, AcquireViewer(t.buf, r)))
        BY <1>0, <1>8 DEF Save, Changed
    <2>3. Users(v)' \subseteq Users(v)
        BY <1>1, <2>2 DEF Users
    <2>4. Cardinality(Users(v)') <= video'[v].count + Cardinality(Gone(v)')
        BY <1>2, <1>5, <1>s, <2>1, <2>3
    <2> QED BY <1>4, <1>s, <2>3, <2>4 DEF Tally
<1> QED BY <1>6, <1>7, <1>8

-----------------------------------------------------------------------------
LEMMA SerialNext ==
    ASSUME OneByOne
    PROVE  SerialInv /\ [Next]_vars => SerialInv'
<1> SUFFICES ASSUME SerialInv, [Next]_vars PROVE SerialInv'
    OBVIOUS
<1>1. HeldInv' /\ SoundInv' /\ HeldInv /\ SoundInv /\ RunInv /\ TypeInv
    BY HeldNext, SoundNext DEF SerialInv, HeldInv, RunInv
<1>2. ASSUME NEW r \in Slot, Course(r) PROVE SerialInv'
    <2>1. Alone'
        BY <1>2, Solo DEF SerialInv
    <2> QED BY <1>1, <1>2, <2>1, CurrentCourse, VacantCourse, ControlledCourse, CountedCourse
            DEF SerialInv
<1>r. \A r \in Request : r \in Slot
    BY DEF Slot
<1>v. \A v \in Vehicle : Tally(v) /\ video[v].count \in Nat
    BY <1>1 DEF SerialInv, Counted, TypeInv, VideoTypeOK, VideoRecord
<1>3. CASE Crash
    <2>1. UNCHANGED <<lease, video, viewer>>
        BY <1>3 DEF Crash, storeVars, videoVars
    <2>2. ASSUME NEW r \in Slot
          PROVE  /\ pc'[r] \in {"idle", "done"} /\ res'[r] = res[r]
                 /\ task'[r].kind = task[r].kind
                 /\ task'[r].veh = task[r].veh /\ task'[r].sid = task[r].sid
                 /\ r \in Request => pc'[r] = IF Running(r) THEN "done" ELSE pc[r]
        BY <1>1, <1>3, CrashAt
    <2>3. Alone' /\ Current' /\ Vacant'
        BY <1>r, <2>2 DEF Alone, Current, Vacant, Running, Copying, Gained
    <2>4. ASSUME NEW r \in Request, Told(r)' PROVE Told(r)
        <3>1. task[r].kind = "acquire" /\ Running(r) => res[r] # "ok"
            BY <1>1, <1>r, RunKnown
        <3> QED BY <1>r, <2>2, <2>4, <3>1 DEF Told
    <2>5. Controlled'
        BY <1>r, <2>1, <2>2, <2>4 DEF SerialInv, Controlled
    <2>6. ASSUME NEW r \in Request, Watching(r)' PROVE Watching(r)
        BY <1>r, <2>2, <2>6 DEF Watching, Running
    <2>7. ASSUME NEW v \in Vehicle
          PROVE  /\ Users(v)' \subseteq Users(v) /\ Leaving(v)' \subseteq Leaving(v)
                 /\ Gone(v) \subseteq Gone(v)'
        BY <1>r, <2>2, <2>6 DEF Users, Leaving, Gone, Running
    <2>8. Counted'
        BY <1>v, <2>1, <2>7, TallyKept DEF Counted
    <2> QED BY <1>1, <2>3, <2>5, <2>8 DEF SerialInv
<1>4. CASE Tick
    <2>1. ASSUME NEW r \in Slot
          PROVE  /\ pc'[r] = pc[r] /\ res'[r] = res[r]
                 /\ task'[r].kind = task[r].kind
                 /\ task'[r].veh = task[r].veh /\ task'[r].sid = task[r].sid
                 /\ task'[r].buf = ElapseGrace(task[r].buf)
        BY <1>1, <1>4, TickAt
    <2>2. ASSUME NEW v \in Vehicle
          PROVE  /\ video'[v] = ElapseGrace(video[v])
                 /\ video'[v].ctrl = video[v].ctrl /\ video'[v].count = video[v].count
                 /\ video'[v].vsid = video[v].vsid
                 /\ lease'[v] # None => lease[v] # None /\ lease'[v].sid = lease[v].sid
        BY <1>1, <1>4, TimedFields, TickedLease DEF Tick, VideoTick, TypeInv, VideoTypeOK
    <2>3. UNCHANGED viewer
        BY <1>4 DEF Tick, VideoTick
    <2>4. ASSUME NEW r \in Slot
          PROVE  /\ task[r].kind \in {"acquire", "view"} => task[r].veh \in Vehicle
                 /\ pc[r] \in Copying => task[r].veh \in Vehicle
                 /\ task[r].kind = "release" /\ pc[r] \in Gained => task[r].veh \in Vehicle
        <3>1. TaskOK(r, task[r]) /\ KindOK(pc[r], task[r].kind) /\ LabelOK(pc[r], task[r], res[r])
            BY <1>1, Known
        <3>2. pc[r] \in {"getVideo", "expireVideo", "saveVideo"} => task[r].veh \in Vehicle
            BY <1>1, VideoKnown
        <3> QED BY <3>1, <3>2 DEF TaskOK, KindOK, LabelOK, Copying, Gained
    <2>5. Alone' /\ Current'
        BY <2>1, <2>2, <2>4 DEF SerialInv, Alone, Current, Running
    <2>6. Vacant'
        BY <1>r, <2>1, <2>2, <2>4 DEF SerialInv, Vacant
    <2>7. Controlled'
        BY <1>r, <2>1, <2>2, <2>4 DEF SerialInv, Controlled, Told
    <2>8. \A r \in Request : Watching(r)' <=> Watching(r)
        BY <1>r, <2>1 DEF Watching, Running
    <2>9. ASSUME NEW v \in Vehicle
          PROVE  /\ Users(v)' \subseteq Users(v) /\ Leaving(v)' \subseteq Leaving(v)
                 /\ Gone(v) \subseteq Gone(v)'
        BY <1>r, <2>1, <2>8 DEF Users, Leaving, Gone
    <2>10. Counted'
        BY <1>v, <2>2, <2>9, TallyKept DEF Counted
    <2> QED BY <1>1, <2>5, <2>6, <2>7, <2>10 DEF SerialInv
<1>5. ~LongKeyExpires
    BY DEF OneByOne, LongKeyExpires, VideoKeyExpires, ViewerKeyExpires
<1>6. CASE UNCHANGED vars
    <2>1. UNCHANGED <<pc, task, res, lease, video, viewer>>
        BY <1>6 DEF vars, handlerVars, storeVars, videoVars
    <2>2. Alone' /\ Current' /\ Vacant' /\ Controlled'
        BY <2>1 DEF SerialInv, Alone, Current, Vacant, Controlled, Told, Running
    <2>3. \A v \in Vehicle : Users(v)' = Users(v) /\ Leaving(v)' = Leaving(v) /\ Gone(v)' = Gone(v)
        BY <2>1 DEF Users, Watching, Leaving, Gone
    <2>4. Counted'
        BY <1>v, <2>1, <2>3, TallyKept DEF Counted
    <2> QED BY <1>1, <2>2, <2>4 DEF SerialInv
<1> QED BY <1>1, <1>2, <1>3, <1>4, <1>5, <1>6, Courses

LEMMA SerialInvariant ==
    ASSUME OneByOne
    PROVE  Spec => []SerialInv
BY SerialInit, SerialNext, PTL DEF Spec

\* An operator that was told of its session, and still has the lease, has active video.
THEOREM ControlShown ==
    ASSUME MaxInFlight = 1, LongRun = FALSE
    PROVE  Spec => []ControlImpliesVideo
<1>1. SerialInv => ControlImpliesVideo
    <2> SUFFICES ASSUME SerialInv, NEW r \in Request, task[r].kind = "acquire", pc[r] = "done",
                        res[r] = "ok", lease[task[r].veh] # None, lease[task[r].veh].sid = r
                 PROVE  video[task[r].veh].mode = "ACTIVE"
        BY DEF ControlImpliesVideo
    <2> DEFINE s == video[task[r].veh]
    <2>1. s.ctrl = r
        BY DEF SerialInv, Controlled, Told
    <2>2. task[r].veh \in Vehicle
        BY Known DEF SerialInv, HeldInv, RunInv, TaskOK, Slot
    <2>3. s.mode \in {"STANDBY", "ACTIVE"} /\ Sound(s)
        BY <2>2 DEF SerialInv, SoundInv, RunInv, TypeInv, VideoTypeOK, VideoRecord
    <2> QED BY <2>1, <2>3, LeaseAssumption DEF Sound, Unused
<1>2. OneByOne
    BY DEF OneByOne
<1> QED BY <1>1, <1>2, SerialInvariant, PTL

\* The viewers that were let in, less the requests to leave, are counted.
LEMMA LetInCounted ==
    ASSUME SerialInv, NEW v \in Vehicle
    PROVE  /\ Cardinality(LetIn(v)) \in Nat /\ Cardinality(Leaving(v)) \in Nat
           /\ Cardinality(LetIn(v)) <= video[v].count + Cardinality(Leaving(v))
           /\ video[v].count \in Nat /\ video[v].mode \in {"STANDBY", "ACTIVE"} /\ Sound(video[v])
<1>1. /\ IsFiniteSet(Users(v)) /\ IsFiniteSet(Leaving(v))
      /\ Cardinality(Users(v)) <= video[v].count + Cardinality(Gone(v))
    BY DEF SerialInv, Counted, Tally
<1>2. /\ video[v].count \in Nat /\ video[v].mode \in {"STANDBY", "ACTIVE"}
      /\ Sound(video[v])
    BY DEF SerialInv, SoundInv, RunInv, TypeInv, VideoTypeOK, VideoRecord
<1>3. LetIn(v) \subseteq Users(v) /\ Gone(v) \subseteq Leaving(v)
    BY DEF LetIn, Users, Watching, Gone
<1>4. /\ IsFiniteSet(LetIn(v)) /\ Cardinality(LetIn(v)) <= Cardinality(Users(v))
      /\ IsFiniteSet(Gone(v)) /\ Cardinality(Gone(v)) <= Cardinality(Leaving(v))
    BY <1>1, <1>3, FS_Subset
<1>5. /\ Cardinality(LetIn(v)) \in Nat /\ Cardinality(Users(v)) \in Nat
      /\ Cardinality(Gone(v)) \in Nat /\ Cardinality(Leaving(v)) \in Nat
    BY <1>1, <1>4, FS_CardinalityType
<1> QED BY <1>1, <1>2, <1>4, <1>5

\* The video is active as long as fewer requests to leave have come than viewers were let
\* in: nothing but a request to leave counts a viewer out (ReleaseViewer), and each counts
\* out one at most, whatever failed or crashed between the commands.
THEOREM WatchShown ==
    ASSUME MaxInFlight = 1, LongRun = FALSE
    PROVE  Spec => []WatchedImpliesActive
<1>1. SerialInv => WatchedImpliesActive
    <2> SUFFICES ASSUME SerialInv, NEW v \in Vehicle, Cardinality(LetIn(v)) > Cardinality(Leaving(v))
                 PROVE  video[v].mode = "ACTIVE"
        BY DEF WatchedImpliesActive
    <2>1. video[v].count > 0
        BY LetInCounted
    <2> QED BY <2>1, LetInCounted DEF Sound, Unused
<1>2. OneByOne
    BY DEF OneByOne
<1> QED BY <1>1, <1>2, SerialInvariant, PTL

\* viewer_count is at least the number of viewers that were let in (AcquireViewer) less the
\* requests to leave (ReleaseViewer).
THEOREM ViewersCounted ==
    ASSUME MaxInFlight = 1, LongRun = FALSE
    PROVE  Spec => []ViewersCovered
<1>1. SerialInv => ViewersCovered
    <2> SUFFICES ASSUME SerialInv, NEW v \in Vehicle
                 PROVE  video[v].count >= Cardinality(LetIn(v)) - Cardinality(Leaving(v))
        BY DEF ViewersCovered
    <2> QED BY LetInCounted
<1>2. OneByOne
    BY DEF OneByOne
<1> QED BY <1>1, <1>2, SerialInvariant, PTL

-----------------------------------------------------------------------------
(* The access checks, for every ACL and every caller.                      *)

\* Whoever may control a vehicle may also observe it, and so may ask for its video and its
\* session: no controller is let in by one handler and turned away by the next.
THEOREM ControlImpliesObserve ==
    ASSUME NEW acl, NEW claims, NEW vehicle, NEW subjects, MayControl(acl, claims, vehicle)
    PROVE  MayObserve(acl, claims, vehicle) /\ MayGetControl(acl, claims, vehicle, subjects)
BY DEF MayControl, MayObserve, MayGetControl, canObserve, Authorize

\* A LiveKit token that may publish commands goes to nobody who could not have been given
\* the lease, whatever access was asked for; who may have the lease gets such a token when
\* nothing is asked for.
THEOREM DataNeedsControl ==
    ASSUME NEW acl, NEW claims, NEW vehicle, NEW requested
    PROVE  /\ ConnectAccess(acl, claims, vehicle, requested) = "controller"
                => MayControl(acl, claims, vehicle)
           /\ MayControl(acl, claims, vehicle)
                => ConnectAccess(acl, claims, vehicle, "") = "controller"
BY DEF ConnectAccess, resolveOperatorAccess, MayControl
==============================================================================
