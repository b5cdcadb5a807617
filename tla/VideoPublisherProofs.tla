------------------------ MODULE VideoPublisherProofs ------------------------
(***************************************************************************)
(* No camera stays open behind the publisher's back, for any layout: not   *)
(* while it runs, and not once close has returned.                         *)
(***************************************************************************)
EXTENDS VideoPublisher, TLAPS

PublisherType ==
    /\ main \in {"starting", "publishing", "watching", "unpublishing", "closing",
                 "disconnecting", "ended", "cut", "stopped"}
    /\ todo \in Seq(Camera) /\ (main = "publishing" => todo # <<>>)
    /\ cam \in [Camera -> {"closed", "open", "released"}]
    /\ task \in [Camera -> Active \cup {"none", "failed", "over", "unstarted"}]
    /\ cancelled \subseteq Camera /\ tasks \subseteq Camera
    /\ signalled \in BOOLEAN

\* close knows of every task that may still read.
Kept == \A c \in Camera : task[c] \in Active => c \in tasks

\* Without a signal, a task is cancelled by close only, after it has entered its try.
InTry ==
    ~signalled =>
        /\ main \in {"starting", "publishing", "watching", "unpublishing"} => cancelled = {}
        /\ main \in {"closing", "disconnecting", "ended", "cut", "stopped"} =>
              \A c \in Camera : task[c] # "created"

\* close waits for all of them; a cancellation or the end of the event loop in the
\* meantime keeps it from returning.
Awaited == main \in {"disconnecting", "ended"} => tasks = {}

\* The inductive invariant.
PublisherInv == PublisherType /\ Kept /\ InTry /\ Awaited /\ Owned

LEMMA PublisherInit == Init => PublisherInv
<1> SUFFICES ASSUME Init PROVE PublisherInv
    OBVIOUS
<1>1. PublisherType
    BY PublisherAssumption DEF Init, PublisherType
<1>2. Kept /\ Owned
    BY DEF Init, Kept, Owned, Active
<1>3. InTry /\ Awaited
    BY DEF Init, InTry, Awaited
<1> QED BY <1>1, <1>2, <1>3 DEF PublisherInv

\* The camera in start's hands, and the cameras after it.
LEMMA Hands ==
    ASSUME PublisherType, todo # <<>>
    PROVE  Head(todo) \in Camera /\ Tail(todo) \in Seq(Camera)
BY DEF PublisherType

LEMMA StartKeeps ==
    ASSUME PublisherInv, OpenFails \/ Opened \/ Published \/ PublishFails \/ StartDone
    PROVE  PublisherInv'
<1> USE DEF PublisherInv, PublisherType, Kept, InTry, Awaited, Owned, Active
<1>1. CASE OpenFails
    BY <1>1, Hands DEF OpenFails
<1>2. CASE Opened
    BY <1>2, Hands DEF Opened
<1>3. CASE Published
    BY <1>3, Hands DEF Published
<1>4. CASE PublishFails
    BY <1>4, Hands DEF PublishFails, Release
<1>5. CASE StartDone
    BY <1>5 DEF StartDone
<1> QED BY <1>1, <1>2, <1>3, <1>4, <1>5

LEMMA TaskKeeps ==
    ASSUME PublisherInv, NEW c \in Camera,
           Read(c) \/ Captured(c) \/ ReadFails(c) \/ TaskCancelled(c) \/ Collect(c)
    PROVE  PublisherInv'
<1> USE DEF PublisherInv, PublisherType, Kept, InTry, Awaited, Owned, Active
<1>1. CASE Read(c) \/ Captured(c)
    BY <1>1 DEF Read, Captured, Turn
<1>2. CASE ReadFails(c)
    BY <1>2 DEF ReadFails, Turn, Release
<1>3. CASE TaskCancelled(c)
    BY <1>3 DEF TaskCancelled, Release
<1>4. CASE Collect(c)
    BY <1>4 DEF Collect, Finished
<1> QED BY <1>1, <1>2, <1>3, <1>4

LEMMA EndKeeps ==
    ASSUME PublisherInv,
           \/ Unpublished \/ UnpublishFails
           \/ Cancel \/ Signal \/ CancelAgain \/ LoopCloses \/ Closed \/ Disconnect
    PROVE  PublisherInv'
<1> USE DEF PublisherInv, PublisherType, Kept, InTry, Awaited, Owned, Active
<1>1. CASE Unpublished \/ UnpublishFails
    BY <1>1 DEF Unpublished, UnpublishFails
<1>2. CASE Cancel
    BY <1>2, Hands DEF Cancel, Interrupted, ThenClose, Release
<1>3. CASE Signal
    BY <1>3, Hands DEF Signal, Interrupted, ThenClose, Release
<1>4. CASE CancelAgain \/ LoopCloses
    BY <1>4 DEF CancelAgain, LoopCloses
<1>5. CASE Closed
    BY <1>5 DEF Closed, Finished
<1>6. CASE Disconnect
    BY <1>6 DEF Disconnect
<1> QED BY <1>1, <1>2, <1>3, <1>4, <1>5, <1>6

LEMMA PublisherNext == PublisherInv /\ [Next]_vars => PublisherInv'
<1>1. ASSUME PublisherInv, UNCHANGED vars PROVE PublisherInv'
    BY <1>1 DEF vars, PublisherInv, PublisherType, Kept, InTry, Awaited, Owned
<1> QED BY <1>1, StartKeeps, TaskKeeps, EndKeeps DEF Next, Loop

LEMMA PublisherInvariant == Spec => []PublisherInv
BY PublisherInit, PublisherNext, PTL DEF Spec

\* Every open camera is in the hands of start or of a task that will release it, wherever
\* opening, publishing, reading or a cancellation fails or strikes; the one exception is a
\* task that a signal cancels before its first step.
THEOREM CamerasOwned == Spec => []Owned
<1>1. PublisherInv => Owned
    BY DEF PublisherInv
<1> QED BY <1>1, PublisherInvariant, PTL

\* When close has returned, every camera is released whose task had begun, however the loop
\* was cancelled.  (That close returns is not claimed: run_agent does not wait for it.)
THEOREM CamerasReleased == Spec => []AllReleased
<1>1. PublisherInv => AllReleased
    BY DEF PublisherInv, Owned, Kept, Awaited, AllReleased
<1> QED BY <1>1, PublisherInvariant, PTL
=============================================================================
