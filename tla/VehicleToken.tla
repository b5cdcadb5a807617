---------------------------- MODULE VehicleToken ----------------------------
(***************************************************************************)
(* VehicleTokenManager: the access token of a vehicle and the loop that    *)
(* replaces it.  The token endpoint is external.  It may be slow, refuse   *)
(* or answer with a token that is too short-lived; all of these are one    *)
(* failure here.  The manager counts a token's life from the moment the    *)
(* answer arrives, the endpoint from the moment it issued it.              *)
(***************************************************************************)
EXTENDS Integers

CONSTANTS RefreshBefore,  \* refresh_before_seconds
          Retry,          \* the pause after a failed refresh
          MinSleep,       \* no sleep is shorter
          PostTimeout,    \* timeout of the POST in refresh
          Lives           \* expires_in of the answers that are accepted

ASSUME TokenAssumption ==
    /\ RefreshBefore \in Nat \ {0} /\ Retry \in Nat \ {0}
    /\ MinSleep \in 1 .. Retry /\ PostTimeout \in Nat \ {0}
    /\ RefreshBefore > MinSleep + 2 * PostTimeout
    /\ Lives \subseteq {n \in Nat : n > RefreshBefore}

VARIABLES
    left,       \* time to _expires_at
    valid,      \* time for which the token really is valid
    stage,      \* where refresh_loop awaits
    timer,      \* what is left of that sleep or of the POST's timeout
    answer,     \* a token that was issued and is under way: expires_in and age
    sinceFail   \* history: time since a refresh failed, counted up to Outlast + 1

vars == <<left, valid, stage, timer, answer, sinceFail>>

\* A failed refresh is made good within this time, if the next one works (ValidUnlessFailing).
Outlast == Retry + MinSleep + PostTimeout

AtLeast(n) == IF n > MinSleep THEN n ELSE MinSleep
LessOne(n) == IF n > 0 THEN n - 1 ELSE 0
NoAnswer == [life |-> 0, age |-> 0]

\* Mutants: the sleep has no lower limit; a token is used to its end.
DelayUnlimited(l) == l - RefreshBefore
DelayWhole(l) == AtLeast(l)

\* The sleep before a refresh.
Delay(l) == AtLeast(l - RefreshBefore)

\* run_agent awaits a first refresh before it starts the loop.
Init ==
    /\ left \in Lives /\ valid \in left - PostTimeout .. left
    /\ stage = "waiting" /\ timer = Delay(left)
    /\ answer = NoAnswer
    /\ sinceFail = Outlast + 1

\* The sleep is over and refresh sends its POST.
Wake ==
    /\ stage = "waiting" /\ timer = 0
    /\ stage' = "posting" /\ timer' = PostTimeout
    /\ UNCHANGED <<left, valid, answer, sinceFail>>

\* The endpoint issues a token.
Issue(life) ==
    /\ stage = "posting"
    /\ stage' = "issued" /\ answer' = [life |-> life, age |-> 0]
    /\ UNCHANGED <<left, valid, timer, sinceFail>>

\* Mutant: the new token is not kept.
RefreshedUnkept ==
    /\ stage = "issued"
    /\ stage' = "waiting" /\ timer' = Delay(left)
    /\ answer' = NoAnswer
    /\ UNCHANGED <<left, valid, sinceFail>>

\* The answer arrives: the token is replaced, on_refresh hands it on, and the loop
\* sleeps again.
Refreshed ==
    /\ stage = "issued"
    /\ left' = answer.life /\ valid' = answer.life - answer.age
    /\ stage' = "waiting" /\ timer' = Delay(answer.life)
    /\ answer' = NoAnswer
    /\ UNCHANGED sinceFail

\* The refresh fails: the old token stays, and the loop sleeps before its next round.
Backoff(l) == IF l > Retry THEN Retry ELSE AtLeast(l)
Fails ==
    /\ stage \in {"posting", "issued"}
    /\ stage' = "backoff" /\ timer' = Backoff(left)
    /\ answer' = NoAnswer
    /\ sinceFail' = 0
    /\ UNCHANGED <<left, valid>>

NextRound ==
    /\ stage = "backoff" /\ timer = 0
    /\ stage' = "waiting" /\ timer' = Delay(left)
    /\ UNCHANGED <<left, valid, answer, sinceFail>>

Tick ==
    /\ timer > 0
    /\ timer' = timer - 1
    /\ left' = LessOne(left) /\ valid' = LessOne(valid)
    /\ answer' = IF stage = "issued" THEN [answer EXCEPT !.age = @ + 1] ELSE answer
    /\ sinceFail' = IF sinceFail <= Outlast THEN sinceFail + 1 ELSE sinceFail
    /\ UNCHANGED stage

Next ==
    \/ Wake \/ Refreshed \/ Fails \/ NextRound \/ Tick
    \/ \E life \in Lives : Issue(life)

Spec == Init /\ [][Next]_vars

\* The loop and time go on, and the endpoint does not refuse for ever.
FairSpec ==
    /\ Spec
    /\ WF_vars(Tick) /\ WF_vars(Wake) /\ WF_vars(NextRound)
    /\ SF_vars(\E life \in Lives : Issue(life)) /\ SF_vars(Refreshed)

-----------------------------------------------------------------------------
\* Every variable has its type.
TypeOK ==
    /\ left \in Nat /\ valid \in Nat /\ timer \in Nat
    /\ stage \in {"waiting", "posting", "issued", "backoff"}
    /\ answer \in [life : Lives \cup {0}, age : 0 .. PostTimeout]
    /\ sinceFail \in 0 .. Outlast + 1

\* The vehicle is without a valid token only in the wake of a failed refresh: an outage
\* of the endpoint costs at most Outlast more than it lasts (refresh_loop's sleeps).
ValidUnlessFailing == valid = 0 => sinceFail <= Outlast

\* A vehicle without a valid token gets one, whenever the endpoint works again.
Recovers == valid = 0 ~> valid > 0
=============================================================================
