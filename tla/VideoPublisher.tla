--------------------------- MODULE VideoPublisher ---------------------------
(***************************************************************************)
(* LiveKitVideoPublisher and livekit_connect_loop around it: the cameras   *)
(* of a vehicle, the task that reads each of them, and the tracks it       *)
(* publishes.  A step ends where the code awaits.  The loop may be         *)
(* cancelled at every await: once when the agent ends (Cancel), and, after *)
(* a signal, together with all tasks and then once more (Signal).  In both *)
(* cases run_agent does not wait for it: the event loop may be closed      *)
(* before close and room.disconnect have come to their ends (LoopCloses).  *)
(***************************************************************************)
EXTENDS Naturals, Sequences, FiniteSets

CONSTANT Layout   \* camera_configs: the cameras in order

Camera == {Layout[i] : i \in DOMAIN Layout}

ASSUME PublisherAssumption ==
    Layout \in Seq(Camera) /\ Cardinality(Camera) = Len(Layout)

VARIABLES
    main,       \* where livekit_connect_loop is: starting, publishing, watching,
                \* unpublishing, closing, disconnecting, ended, cut short by another
                \* cancellation, or stopped with the event loop
    todo,       \* start: the cameras that are left, the first one being opened
    cam,        \* camera -> closed, open or released
    task,       \* camera -> its _publish_frames: none, created, reading, resting,
                \* failed, over, or cancelled before its first step (unstarted)
    cancelled,  \* the tasks with a cancellation under way
    tasks,      \* _tasks
    pubs,       \* _publications
    live,       \* the tracks that LiveKit has
    leaving,    \* the track whose unpublish_track is awaited
    refused,    \* history: unpublish_track has raised for them
    signalled   \* a signal has cancelled the loop and all tasks

tracks == <<pubs, live, leaving, refused>>
vars == <<main, todo, cam, task, cancelled, tasks, tracks, signalled>>

Active == {"created", "reading", "resting"}
Finished(c) == task[c] \in {"failed", "over", "unstarted"}

Init ==
    /\ main = "starting" /\ todo = Layout
    /\ cam = [c \in Camera |-> "closed"]
    /\ task = [c \in Camera |-> "none"]
    /\ cancelled = {} /\ tasks = {}
    /\ pubs = {} /\ live = {} /\ leaving = {} /\ refused = {}
    /\ signalled = FALSE

-----------------------------------------------------------------------------
(* start.                                                                  *)

Release(c) == cam' = [cam EXCEPT ![c] = "released"]

\* open_configured_camera raises, having released what it opened, or returns.
OpenFails ==
    /\ main = "starting" /\ todo # <<>>
    /\ todo' = Tail(todo)
    /\ UNCHANGED <<main, cam, task, cancelled, tasks, tracks, signalled>>

Opened ==
    /\ main = "starting" /\ todo # <<>>
    /\ cam' = [cam EXCEPT ![Head(todo)] = "open"]
    /\ main' = "publishing"
    /\ UNCHANGED <<todo, task, cancelled, tasks, tracks, signalled>>

\* publish_track returns, and the camera passes on to its task ...
Published ==
    LET c == Head(todo) IN
    /\ main = "publishing"
    /\ pubs' = pubs \cup {c} /\ live' = live \cup {c} /\ tasks' = tasks \cup {c}
    /\ task' = [task EXCEPT ![c] = "created"]
    /\ main' = "starting" /\ todo' = Tail(todo)
    /\ UNCHANGED <<cam, cancelled, leaving, refused, signalled>>

\* Mutant: the camera is not released.
PublishFailsOpen ==
    /\ main = "publishing"
    /\ main' = "starting" /\ todo' = Tail(todo)
    /\ UNCHANGED <<cam, task, cancelled, tasks, tracks, signalled>>

\* ... or raises.
PublishFails ==
    /\ main = "publishing"
    /\ Release(Head(todo))
    /\ main' = "starting" /\ todo' = Tail(todo)
    /\ UNCHANGED <<task, cancelled, tasks, tracks, signalled>>

StartDone ==
    /\ main = "starting" /\ todo = <<>>
    /\ main' = "watching"
    /\ UNCHANGED <<todo, cam, task, cancelled, tasks, tracks, signalled>>

-----------------------------------------------------------------------------
(* _publish_frames.  While start runs on without an await no task does,    *)
(* and none when the event loop is closed.                                 *)

Turn(c, from, to) ==
    /\ main \notin {"starting", "stopped"}
    /\ task[c] \in from /\ c \notin cancelled
    /\ task' = [task EXCEPT ![c] = to]
    /\ UNCHANGED <<main, todo, cancelled, tasks, tracks, signalled>>

\* The task starts, or wakes up, and has a thread read the next frame.
Read(c) == Turn(c, {"created", "resting"}, "reading") /\ UNCHANGED cam

\* There is a frame, and it is not late.
Captured(c) == Turn(c, {"reading"}, "resting") /\ UNCHANGED cam

\* The camera returns no frame.
ReadFails(c) == Turn(c, {"reading"}, "failed") /\ Release(c)

\* The cancellation reaches the task; one that has not run yet never enters its try.
TaskCancelled(c) ==
    /\ main \notin {"starting", "stopped"}
    /\ c \in cancelled /\ task[c] \in Active
    /\ task' = [task EXCEPT ![c] = IF @ = "created" THEN "unstarted" ELSE "over"]
    /\ IF task[c] = "created" THEN UNCHANGED cam ELSE Release(c)
    /\ UNCHANGED <<main, todo, cancelled, tasks, tracks, signalled>>

-----------------------------------------------------------------------------
(* collect_finished.                                                       *)

\* Mutant: the track of a camera that failed is forgotten by the tasks only.
CollectTask(c) ==
    /\ main = "watching" /\ c \in tasks /\ Finished(c)
    /\ tasks' = tasks \ {c}
    /\ UNCHANGED <<main, todo, cam, task, cancelled, tracks, signalled>>

\* A task that is done is forgotten, and if it raised, its publication is, too, and then
\* LiveKit is asked to withdraw the track.
Collect(c) ==
    /\ main = "watching" /\ c \in tasks /\ Finished(c)
    /\ tasks' = tasks \ {c}
    /\ \/ /\ task[c] = "failed"
          /\ pubs' = pubs \ {c} /\ leaving' = {c} /\ main' = "unpublishing"
       \/ task[c] # "failed" /\ UNCHANGED <<main, pubs, leaving>>
    /\ UNCHANGED <<todo, cam, task, cancelled, live, refused, signalled>>

\* unpublish_track returns, or raises, which is logged: nobody asks again.
Unpublished ==
    /\ main = "unpublishing"
    /\ live' = live \ leaving /\ leaving' = {} /\ main' = "watching"
    /\ UNCHANGED <<todo, cam, task, cancelled, tasks, pubs, refused, signalled>>

UnpublishFails ==
    /\ main = "unpublishing"
    /\ refused' = refused \cup leaving /\ leaving' = {} /\ main' = "watching"
    /\ UNCHANGED <<todo, cam, task, cancelled, tasks, pubs, live, signalled>>

-----------------------------------------------------------------------------
(* Cancellation and close.                                                 *)

\* Mutant: close does not wait.
ThenCloseNow == main' = "disconnecting" /\ UNCHANGED tasks

\* What close does up to its await: all tasks are cancelled.
ThenClose == main' = (IF tasks = {} THEN "disconnecting" ELSE "closing") /\ UNCHANGED tasks

\* CancelledError in publish_track, in sleep or in unpublish_track.
Interrupted ==
    \/ main = "publishing" /\ Release(Head(todo))
    \/ main \in {"watching", "unpublishing"} /\ UNCHANGED cam

\* The agent ends: run_agent cancels its tasks, this one among them.  A task that was
\* created before gets its turn first.
Cancel ==
    /\ \A c \in Camera : task[c] # "created"
    /\ Interrupted
    /\ ThenClose
    /\ cancelled' = cancelled \cup tasks
    /\ UNCHANGED <<todo, task, tracks, signalled>>

\* _shutdown cancels every task of the event loop.
Signal ==
    /\ ~signalled
    /\ signalled' = TRUE
    /\ cancelled' = cancelled \cup {c \in Camera : task[c] \in Active}
    /\ Interrupted
    /\ ThenClose
    /\ UNCHANGED <<todo, task, tracks>>

\* After a signal run_agent cancels the loop again, wherever it is; after a failure a
\* signal may.
CancelAgain ==
    /\ main \in {"closing", "disconnecting"}
    /\ main' = "cut"
    /\ UNCHANGED <<todo, cam, task, cancelled, tasks, tracks, signalled>>

\* run_agent has awaited none of the tasks it cancelled; it returns, and main closes the
\* event loop, whatever still runs on it.
LoopCloses ==
    /\ main \in {"closing", "disconnecting", "cut"}
    /\ main' = "stopped"
    /\ UNCHANGED <<todo, cam, task, cancelled, tasks, tracks, signalled>>

\* gather is over: all tasks are done.
Closed ==
    /\ main = "closing" /\ \A c \in tasks : Finished(c)
    /\ tasks' = {} /\ main' = "disconnecting"
    /\ UNCHANGED <<todo, cam, task, cancelled, tracks, signalled>>

\* room.disconnect, whose failure is ignored.
Disconnect ==
    /\ main = "disconnecting"
    /\ main' = "ended"
    /\ UNCHANGED <<todo, cam, task, cancelled, tasks, tracks, signalled>>

Loop == OpenFails \/ Opened \/ Published \/ PublishFails \/ StartDone
        \/ Unpublished \/ UnpublishFails \/ Closed \/ Disconnect
        \/ \E c \in Camera : Collect(c)

Next ==
    \/ Loop
    \/ \E c \in Camera : Read(c) \/ Captured(c) \/ ReadFails(c) \/ TaskCancelled(c)
    \/ Cancel \/ Signal \/ CancelAgain \/ LoopCloses

Spec == Init /\ [][Next]_vars

\* The event loop goes on and LiveKit answers.
FairSpec == Spec /\ WF_vars(Loop) /\ \A c \in Camera : WF_vars(TaskCancelled(c))

-----------------------------------------------------------------------------
(* Properties.                                                             *)

\* An open camera is in somebody's hands, who will release it: start, while it publishes
\* the track, or a task that has not ended.  Only a signal may catch a task between its
\* creation and its first step, and leave its camera to nobody.
Owned ==
    \A c \in Camera : cam[c] = "open" =>
        \/ main = "publishing" /\ c = Head(todo)
        \/ task[c] \in Active
        \/ signalled /\ task[c] = "unstarted"

\* Once close has returned no camera is open, wherever the loop was cancelled and whatever
\* else ended it, but those of tasks that never began.
AllReleased ==
    main \in {"disconnecting", "ended"} =>
        \A c \in Camera : cam[c] = "open" => task[c] = "unstarted"

\* LiveKit does not keep the track of a camera that failed while the loop goes on, unless
\* it has refused to withdraw it: also when several cameras fail at once.
FailedIsWithdrawn ==
    \A c \in Camera :
        task[c] = "failed" ~>
            (c \notin live \/ c \in refused
                \/ main \notin {"starting", "publishing", "watching", "unpublishing"})
=============================================================================
