------------------------- MODULE VehicleTokenProofs -------------------------
(***************************************************************************)
(* The vehicle has a valid token except in the wake of a failed refresh,   *)
(* for every choice of the delays.                                         *)
(***************************************************************************)
EXTENDS VehicleToken, TLAPS

\* The clocks of manager and endpoint are apart by a POST at most.
Skew ==
    /\ valid <= left /\ left <= valid + PostTimeout
    /\ stage = "issued" => answer.life \in Lives /\ answer.age + timer <= PostTimeout
    /\ stage = "posting" => timer <= PostTimeout

\* A refresh is never later than RefreshBefore before the expiry, unless one failed.
Due == IF stage = "waiting" THEN left - timer <= RefreshBefore ELSE left <= RefreshBefore

\* How much of a token is left when the attempt under way, or the next one, is over ...
OnTime ==
    /\ stage # "backoff"
    /\ left - timer >= RefreshBefore - MinSleep - (IF stage = "waiting" THEN 0 ELSE PostTimeout)

\* ... or how long ago the last failure will then have been.
Late ==
    sinceFail + timer <= CASE stage = "backoff" -> Retry
                           [] stage = "waiting" -> Retry + MinSleep
                           [] OTHER             -> Outlast

TokenInv == TypeOK /\ Skew /\ Due /\ (OnTime \/ Late)

\* What the sleeps come to.
LEMMA SleepFacts ==
    ASSUME NEW l \in Nat
    PROVE  /\ Delay(l) \in Nat /\ Delay(l) >= MinSleep
           /\ l - Delay(l) <= RefreshBefore
           /\ l <= RefreshBefore => Delay(l) = MinSleep
           /\ l > RefreshBefore => l - Delay(l) >= RefreshBefore - MinSleep
           /\ Backoff(l) \in Nat /\ Backoff(l) <= Retry
BY TokenAssumption, SMT DEF Delay, Backoff, AtLeast

LEMMA NoAnswerType == NoAnswer \in [life : Lives \cup {0}, age : 0 .. PostTimeout]
BY TokenAssumption, SMT DEF NoAnswer

LEMMA InitInv == Init => TokenInv
<1> SUFFICES ASSUME Init PROVE TokenInv
    OBVIOUS
<1>1. left \in Nat /\ left > RefreshBefore /\ valid \in Nat
    BY TokenAssumption, SMT DEF Init
<1>2. TypeOK
  <2>1. timer \in Nat /\ sinceFail \in 0 .. Outlast + 1
      BY <1>1, SleepFacts, TokenAssumption, SMT DEF Init, Outlast
  <2> QED
      BY <1>1, <2>1, NoAnswerType DEF Init, TypeOK
<1>3. Skew /\ Due /\ OnTime
    BY <1>1, SleepFacts, TokenAssumption, SMT DEF Init, Skew, Due, OnTime
<1> QED
    BY <1>2, <1>3 DEF TokenInv

LEMMA NextInv == TokenInv /\ [Next]_vars => TokenInv'
<1> SUFFICES ASSUME TokenInv, [Next]_vars PROVE TokenInv'
    OBVIOUS
<1> USE TokenAssumption
<1>1. CASE Wake
    BY <1>1, SMT DEF Wake, TokenInv, TypeOK, Skew, Due, OnTime, Late, Outlast
<1>2. ASSUME NEW life \in Lives, Issue(life) PROVE TokenInv'
    BY <1>2, SMT DEF Issue, TokenInv, TypeOK, Skew, Due, OnTime, Late, Outlast
<1>3. CASE Refreshed
  <2>1. /\ answer.life \in Nat /\ answer.life > RefreshBefore /\ answer.age \in 0 .. PostTimeout
        /\ answer.age + timer <= PostTimeout
      BY <1>3, SMT DEF Refreshed, TokenInv, TypeOK, Skew
  <2>2. TypeOK'
    <3>1. timer' \in Nat /\ left' \in Nat /\ valid' \in Nat
        BY <1>3, <2>1, SleepFacts, SMT DEF Refreshed
    <3> QED
        BY <1>3, <3>1, NoAnswerType DEF Refreshed, TokenInv, TypeOK
  <2>3. Skew' /\ Due' /\ OnTime'
      BY <1>3, <2>1, SleepFacts, SMT DEF Refreshed, TokenInv, TypeOK, Skew, Due, OnTime
  <2> QED
      BY <2>2, <2>3 DEF TokenInv
<1>4. CASE Fails
  <2>1. left \in Nat /\ left <= RefreshBefore
      BY <1>4, SMT DEF Fails, TokenInv, TypeOK, Due
  <2>2. TypeOK'
      BY <1>4, <2>1, SleepFacts, NoAnswerType, SMT DEF Fails, TokenInv, TypeOK, Outlast
  <2>3. Skew' /\ Due' /\ Late'
      BY <1>4, <2>1, SleepFacts, SMT DEF Fails, TokenInv, TypeOK, Skew, Due, Late
  <2> QED
      BY <2>2, <2>3 DEF TokenInv
<1>5. CASE NextRound
  <2>1. left \in Nat /\ left <= RefreshBefore /\ Delay(left) = MinSleep
      BY <1>5, SleepFacts, SMT DEF NextRound, TokenInv, TypeOK, Due
  <2> QED
      BY <1>5, <2>1, SMT DEF NextRound, TokenInv, TypeOK, Skew, Due, OnTime, Late
<1>6. CASE Tick
  <2>1. TypeOK'
      BY <1>6, SMT DEF Tick, TokenInv, TypeOK, Skew, LessOne, Outlast
  <2>2. Skew' /\ Due'
      BY <1>6, SMT DEF Tick, TokenInv, TypeOK, Skew, Due, LessOne
  <2>3. (OnTime \/ Late)'
      BY <1>6, SMT DEF Tick, TokenInv, TypeOK, OnTime, Late, LessOne, Outlast
  <2> QED
      BY <2>1, <2>2, <2>3 DEF TokenInv
<1>7. CASE UNCHANGED vars
    BY <1>7 DEF vars, TokenInv, TypeOK, Skew, Due, OnTime, Late
<1> QED
    BY <1>1, <1>2, <1>3, <1>4, <1>5, <1>6, <1>7 DEF Next

LEMMA TokenInvariant == Spec => []TokenInv
BY InitInv, NextInv, PTL DEF Spec

\* The clocks, sleeps and answers of the token manager keep their types, for any delays.
THEOREM TokenTypeCorrect == Spec => []TypeOK
<1>1. TokenInv => TypeOK
    BY DEF TokenInv
<1> QED
    BY <1>1, TokenInvariant, PTL

\* The vehicle is without a valid token only within Outlast after a failed refresh,
\* whatever the delays of VehicleTokenManager and the lives of the tokens.
THEOREM TokenCovered == Spec => []ValidUnlessFailing
<1>1. TokenInv => ValidUnlessFailing
    BY TokenAssumption, SMT
       DEF TokenInv, TypeOK, Skew, OnTime, Late, Outlast, ValidUnlessFailing
<1> QED
    BY <1>1, TokenInvariant, PTL
=============================================================================
