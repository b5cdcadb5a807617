---------------------------- MODULE VideoSession ----------------------------
(***************************************************************************)
(* The video session store.  A vehicle has one record, read and written    *)
(* back whole by plain GET and SET commands: nothing here is atomic but a  *)
(* single command, and the operations are what a handler does to the copy  *)
(* it has read.                                                            *)
(*                                                                         *)
(*   video_session:<vehicle>      video[v], Absent when there is no key    *)
(*   video_viewer:<video session> viewer[s], the vehicle or None           *)
(*                                                                         *)
(* The keys live for 24 hours and for the grace period plus one hour,      *)
(* thousands of times the other delays, and nothing but a write renews     *)
(* them: with LongRun they may disappear at any moment, without it the     *)
(* behaviours are shorter than an hour.                                    *)
(***************************************************************************)
EXTENDS RedisKeys

CONSTANTS Grace, LongRun

ASSUME VideoAssumption == Grace \in Nat /\ LongRun \in BOOLEAN

VARIABLES video, viewer

videoVars == <<video, viewer>>

\* GraceDeadlineMS = 0, no deadline.  (A deadline that has been reached is 0 here.)
Unset == -1

VideoRecord == [vsid : Request \cup {None}, mode : {"STANDBY", "ACTIVE"}, count : Nat,
                ctrl : Request \cup {None}, grace : -1 .. Grace]

\* What Get answers for a vehicle without a record.
Absent == [vsid |-> None, mode |-> "STANDBY", count |-> 0, ctrl |-> None, grace |-> Unset]

VideoTypeOK ==
    /\ video \in [Vehicle -> VideoRecord]
    /\ viewer \in [Request -> Vehicle \cup {None}]

VideoInit ==
    /\ video = [v \in Vehicle |-> Absent]
    /\ viewer = [s \in Request |-> None]

\* Mutant: viewers are not looked at.
UnusedByController(s) == s.ctrl = None

\* Nobody watches and nobody controls.
Unused(s) == s.count = 0 /\ s.ctrl = None

\* The test in Get that ends the grace period, and the record it then saves.
GraceOver(s) == s.mode = "ACTIVE" /\ Unused(s) /\ s.grace = 0
InStandby(s) == [s EXCEPT !.mode = "STANDBY", !.grace = Unset]

\* Mutants: a grace period that runs goes on running; the mode stays as it is.
ActivatedTimerLeft(s, fresh) ==
    [s EXCEPT !.vsid = IF @ = None THEN fresh ELSE @, !.mode = "ACTIVE"]
SetControllerOnly(s, fresh, c) ==
    [s EXCEPT !.vsid = IF @ = None THEN fresh ELSE @, !.ctrl = c]

\* A use of the video activates it, under a new session id if it has none.
Activated(s, fresh) ==
    [s EXCEPT !.vsid = IF @ = None THEN fresh ELSE @, !.mode = "ACTIVE", !.grace = Unset]
AcquireViewer(s, fresh) == [Activated(s, fresh) EXCEPT !.count = @ + 1]
SetController(s, fresh, c) == [Activated(s, fresh) EXCEPT !.ctrl = c]

\* Mutant: the grace period is not started.
AfterViewerChangeUntimed(s) == s

\* saveAfterViewerChange: the last one to leave starts the grace period.
AfterViewerChange(s) ==
    IF Unused(s) THEN [s EXCEPT !.mode = "ACTIVE", !.grace = Grace] ELSE s

\* Mutant: the index key, which all viewers share, stands for all of them.
ReleaseViewerAll(s) == AfterViewerChange([s EXCEPT !.count = 0])

ReleaseViewer(s) == AfterViewerChange([s EXCEPT !.count = IF @ > 0 THEN @ - 1 ELSE @])

ClearController(s, c) == AfterViewerChange([s EXCEPT !.ctrl = IF @ = c THEN None ELSE @])

\* save: the record is written whole.
Save(v, s) == video' = [video EXCEPT ![v] = s]

\* Time passes for a record, stored or copied.
ElapseGrace(s) == [s EXCEPT !.grace = IF @ > 0 THEN @ - 1 ELSE @]
VideoTick == video' = [v \in Vehicle |-> ElapseGrace(video[v])] /\ UNCHANGED viewer

\* A long-lived key runs out.
VideoKeyExpires(v) ==
    LongRun /\ video' = [video EXCEPT ![v] = Absent] /\ UNCHANGED viewer
ViewerKeyExpires(s) ==
    LongRun /\ viewer' = [viewer EXCEPT ![s] = None] /\ UNCHANGED video
=============================================================================
