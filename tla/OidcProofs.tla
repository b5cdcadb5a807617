----------------------------- MODULE OidcProofs -----------------------------
(***************************************************************************)
(* How long the gateway accepts a key that the identity provider has       *)
(* withdrawn, for any number of requests and keys and any choice of the    *)
(* cache's age and the client's timeout.                                   *)
(*                                                                         *)
(* A key set is as old as the fetch that brought it when it is stored, and *)
(* its age is counted from then: hence a bound for the answer under way    *)
(* and one for the cache.                                                  *)
(***************************************************************************)
EXTENDS OidcKeys, TLAPS

Busy(h) == pc[h] \in {"first", "second"}

\* A request names a key.
Asked == \A h \in Handler : pc[h] # "idle" => kid[h] \in Key

\* An answer exists only during a fetch.
AnswerBusy == \A h \in Handler : ~Busy(h) => answer[h] = Empty

\* What is published is not withdrawn.
PublishedValid == \A k \in Key : published[k] > 0 => withdrawn[k] = Valid

AnswerRecent ==
    \A h \in Handler, k \in Key : answer[h][k] > 0 => withdrawn[k] <= FetchTimeout - left[h]

CacheRecent == \A k \in Key : keys[k] > 0 => withdrawn[k] <= age + FetchTimeout

\* The answer to a request has the key that was published all the time.
SteadySeen ==
    \A h \in steady : /\ kid[h] \in Key /\ published[kid[h]] > 0
                      /\ answer[h] # Empty => answer[h][kid[h]] > 0

OidcInv == TypeOK /\ Asked /\ AnswerBusy /\ PublishedValid /\ AnswerRecent /\ CacheRecent /\ SteadySeen

LEMMA LagFacts == Lag \in Nat /\ Lag = MaxCacheAge + FetchTimeout
BY OidcAssumption DEF Lag

LEMMA EmptyFacts == \A k \in Key : Empty[k] = 0
BY DEF Empty

LEMMA OutcomeType == \A n : Outcome(n) \in {"found", "unknown"}
BY DEF Outcome

LEMMA InitInv == Init => OidcInv
BY OidcAssumption, LagFacts, EmptyFacts DEF Init, OidcInv, TypeOK, Asked, AnswerBusy, PublishedValid, AnswerRecent,
   CacheRecent, SteadySeen, Valid, KeySets, Busy

\* What Return and Refresh do to the handler's own variables.
LEMMA ReturnType ==
    ASSUME TypeOK, NEW h \in Handler, NEW o \in {"found", "unknown", "error"}, Return(h, o)
    PROVE  /\ mutex' \in Handler \cup {None}
           /\ pc' \in [Handler -> {"idle", "locking", "first", "second"}]
           /\ kid' \in [Handler -> Key \cup {None}]
           /\ answer' \in [Handler -> KeySets \cup {Empty}]
           /\ left' \in [Handler -> 0 .. FetchTimeout]
           /\ res' \in [Handler -> {"none", "found", "unknown", "error"}]
           /\ kid' = kid /\ pc'[h] = "idle" /\ answer'[h] = Empty /\ res'[h] = o
           /\ \A g \in Handler \ {h} : pc'[g] = pc[g] /\ answer'[g] = answer[g] /\ left'[g] = left[g]
BY OidcAssumption DEF TypeOK, Return

LEMMA RefreshType ==
    ASSUME TypeOK, NEW h \in Handler, NEW t \in {"first", "second"}, Refresh(h, t)
    PROVE  /\ mutex' \in Handler \cup {None}
           /\ pc' \in [Handler -> {"idle", "locking", "first", "second"}]
           /\ kid' \in [Handler -> Key \cup {None}]
           /\ answer' \in [Handler -> KeySets \cup {Empty}]
           /\ left' \in [Handler -> 0 .. FetchTimeout]
           /\ res' \in [Handler -> {"none", "found", "unknown", "error"}]
           /\ kid' = kid /\ pc'[h] = t /\ answer'[h] = Empty
           /\ \A g \in Handler \ {h} : pc'[g] = pc[g] /\ answer'[g] = answer[g] /\ left'[g] = left[g]
BY OidcAssumption DEF TypeOK, Refresh

\* Whatever ends or begins a fetch keeps the invariant, if the cache is as it should be.
LEMMA HandlerStep ==
    ASSUME OidcInv, NEW h \in Handler, kid[h] \in Key,
           \/ \E o \in {"found", "unknown", "error"} : Return(h, o)
           \/ \E t \in {"first", "second"} : Refresh(h, t),
           UNCHANGED <<published, withdrawn, steady>>,
           keys' \in KeySets \cup {Empty}, age' \in 0 .. MaxCacheAge + 1,
           \A k \in Key : keys'[k] > 0 => withdrawn[k] <= age' + FetchTimeout
    PROVE  OidcInv'
<1>1. TypeOK
  BY DEF OidcInv
<1>2. /\ mutex' \in Handler \cup {None}
      /\ pc' \in [Handler -> {"idle", "locking", "first", "second"}]
      /\ kid' \in [Handler -> Key \cup {None}]
      /\ answer' \in [Handler -> KeySets \cup {Empty}]
      /\ left' \in [Handler -> 0 .. FetchTimeout]
      /\ res' \in [Handler -> {"none", "found", "unknown", "error"}]
      /\ kid' = kid /\ answer'[h] = Empty
      /\ \A g \in Handler \ {h} : pc'[g] = pc[g] /\ answer'[g] = answer[g] /\ left'[g] = left[g]
  BY <1>1, ReturnType, RefreshType
<1>3. TypeOK'
  BY <1>1, <1>2 DEF TypeOK
<1>4. Asked' /\ AnswerBusy'
  BY <1>1, <1>2 DEF OidcInv, Asked, AnswerBusy, Busy, TypeOK
<1>5. PublishedValid'
  BY DEF OidcInv, PublishedValid
<1>6. AnswerRecent'
  BY <1>2, EmptyFacts DEF OidcInv, AnswerRecent
<1>7. CacheRecent'
  BY DEF CacheRecent
<1>8. SteadySeen'
  BY <1>1, <1>2 DEF OidcInv, SteadySeen, TypeOK
<1>9. QED
  BY <1>3, <1>4, <1>5, <1>6, <1>7, <1>8 DEF OidcInv

LEMMA NextInv == OidcInv /\ [Next]_vars => OidcInv'
<1> SUFFICES ASSUME OidcInv, [Next]_vars PROVE OidcInv'
  OBVIOUS
<1> USE OidcAssumption, LagFacts
<1>1. ASSUME NEW h \in Handler, NEW k \in Key, Authenticate(h, k) PROVE OidcInv'
  <2>1. answer[h] = Empty /\ ~Busy(h)
    BY <1>1 DEF Authenticate, OidcInv, Asked, AnswerBusy, Busy
  <2>2. TypeOK'
    BY <1>1 DEF OidcInv, TypeOK, Authenticate, cacheVars
  <2>3. Asked' /\ AnswerBusy' /\ PublishedValid' /\ AnswerRecent' /\ CacheRecent'
    BY <1>1, <2>1 DEF OidcInv, TypeOK, Authenticate, cacheVars, Asked, AnswerBusy, Busy,
       PublishedValid, AnswerRecent, CacheRecent
  <2>4. SteadySeen'
    BY <1>1, <2>1 DEF OidcInv, TypeOK, Authenticate, SteadySeen
  <2>5. QED
    BY <2>2, <2>3, <2>4 DEF OidcInv
<1>2. ASSUME NEW h \in Handler, Lock(h) PROVE OidcInv'
  <2>1. /\ UNCHANGED <<published, withdrawn, keys, age, steady>>
        /\ \/ \E o \in {"found", "unknown", "error"} : Return(h, o)
           \/ \E t \in {"first", "second"} : Refresh(h, t)
    BY <1>2, OutcomeType DEF Lock
  <2>2. kid[h] \in Key
    BY <1>2 DEF Lock, OidcInv, Asked
  <2>3. QED
    BY <2>1, <2>2, HandlerStep DEF OidcInv, TypeOK, CacheRecent
<1>3. ASSUME NEW h \in Handler, ProviderAnswers(h) PROVE OidcInv'
  <2>1. TypeOK'
    BY <1>3 DEF OidcInv, TypeOK, ProviderAnswers, cacheVars, KeySets
  <2>2. Asked' /\ AnswerBusy' /\ PublishedValid' /\ CacheRecent' /\ SteadySeen'
    BY <1>3 DEF OidcInv, TypeOK, ProviderAnswers, cacheVars, Asked, AnswerBusy, Busy, PublishedValid,
       CacheRecent, SteadySeen
  <2>3. ASSUME NEW g \in Handler, NEW k \in Key, answer'[g][k] > 0
        PROVE  withdrawn[k] <= FetchTimeout - left[g]
    <3>1. CASE g = h
      <4>1. published[k] > 0
        BY <1>3, <2>3, <3>1 DEF ProviderAnswers, OidcInv, TypeOK, KeySets
      <4>2. withdrawn[k] = -1 /\ left[g] \in 0 .. FetchTimeout
        BY <4>1 DEF OidcInv, TypeOK, PublishedValid, Valid
      <4>3. QED
        BY <4>2
    <3>2. CASE g # h
      BY <1>3, <2>3, <3>2 DEF ProviderAnswers, OidcInv, TypeOK, AnswerRecent
    <3>3. QED
      BY <3>1, <3>2
  <2>4. AnswerRecent'
    BY <1>3, <2>3 DEF AnswerRecent, ProviderAnswers
  <2>5. QED
    BY <2>1, <2>2, <2>4 DEF OidcInv
<1>4. ASSUME NEW h \in Handler, Fetched(h) PROVE OidcInv'
  <2>1. /\ UNCHANGED <<published, withdrawn, steady>>
        /\ keys' = answer[h] /\ age' = 0
        /\ \/ \E o \in {"found", "unknown", "error"} : Return(h, o)
           \/ \E t \in {"first", "second"} : Refresh(h, t)
    BY <1>4, OutcomeType DEF Fetched
  <2>2. \A k \in Key : keys'[k] > 0 => withdrawn[k] <= age' + FetchTimeout
    BY <2>1 DEF OidcInv, TypeOK, AnswerRecent
  <2>3. keys' \in KeySets \cup {Empty} /\ age' \in 0 .. MaxCacheAge + 1
    BY <2>1 DEF OidcInv, TypeOK
  <2>4. kid[h] \in Key
    BY <1>4 DEF Fetched, OidcInv, Asked
  <2>5. QED
    BY <2>1, <2>2, <2>3, <2>4, HandlerStep
<1>5. ASSUME NEW h \in Handler, FetchFails(h) PROVE OidcInv'
  <2>1. UNCHANGED <<published, withdrawn, keys, age, steady>> /\ Return(h, "error")
    BY <1>5 DEF FetchFails
  <2>2. kid[h] \in Key
    BY <1>5 DEF FetchFails, OidcInv, Asked
  <2>3. QED
    BY <2>1, <2>2, HandlerStep DEF OidcInv, TypeOK, CacheRecent
<1>6. ASSUME NEW new \in KeySets, Rotate(new) PROVE OidcInv'
  <2>1. TypeOK'
    BY <1>6 DEF OidcInv, TypeOK, Rotate, cacheVars, handlerVars, KeySets, Valid
  <2>2. \A k \in Key : withdrawn'[k] <= 0 \/ withdrawn'[k] = withdrawn[k]
    BY <1>6 DEF OidcInv, TypeOK, Rotate, Valid
  <2>3. Asked' /\ AnswerBusy' /\ PublishedValid' /\ SteadySeen'
    BY <1>6 DEF OidcInv, TypeOK, Rotate, cacheVars, handlerVars, KeySets, Asked, AnswerBusy, Busy,
       PublishedValid, SteadySeen, Valid
  <2>4. AnswerRecent'
    BY <1>6, <2>1, <2>2 DEF OidcInv, TypeOK, Rotate, handlerVars, AnswerRecent
  <2>5. CacheRecent'
    BY <1>6, <2>1, <2>2 DEF OidcInv, TypeOK, Rotate, cacheVars, CacheRecent
  <2>6. QED
    BY <2>1, <2>3, <2>4, <2>5 DEF OidcInv
<1>7. CASE Tick
  <2>1. TypeOK'
    BY <1>7 DEF OidcInv, TypeOK, Tick, Elapsed
  <2>2. \A k \in Key : withdrawn'[k] <= withdrawn[k] + 1 /\ withdrawn'[k] <= Lag + 1
                          /\ (withdrawn[k] = -1 => withdrawn'[k] = -1)
    BY <1>7 DEF OidcInv, TypeOK, Tick, Elapsed
  <2>3. Asked' /\ AnswerBusy' /\ PublishedValid' /\ SteadySeen'
    BY <1>7, <2>2 DEF OidcInv, TypeOK, Tick, Asked, AnswerBusy, Busy, PublishedValid, SteadySeen, Valid
  <2>4. AnswerRecent'
    BY <1>7, <2>1, <2>2, EmptyFacts DEF OidcInv, TypeOK, Tick, AnswerRecent, AnswerBusy, Busy
  <2>5. CacheRecent'
    BY <1>7, <2>1, <2>2 DEF OidcInv, TypeOK, Tick, CacheRecent, Elapsed
  <2>6. QED
    BY <2>1, <2>3, <2>4, <2>5 DEF OidcInv
<1>8. CASE UNCHANGED vars
  BY <1>8 DEF vars, cacheVars, handlerVars, OidcInv, TypeOK, Asked, AnswerBusy, Busy, PublishedValid,
     AnswerRecent, CacheRecent, SteadySeen
<1>9. QED
  BY <1>1, <1>2, <1>3, <1>4, <1>5, <1>6, <1>7, <1>8 DEF Next

LEMMA AlwaysInv == Spec => []OidcInv
BY InitInv, NextInv, PTL DEF Spec

\* The cache and the handlers keep their types; a fetch is never given more than its timeout.
THEOREM OidcTypeCorrect == Spec => []TypeOK
<1>1. OidcInv => TypeOK
  BY DEF OidcInv
<1>2. QED
  BY <1>1, AlwaysInv, PTL

\* A request that is under way names a key.
LEMMA AskedFact == ASSUME OidcInv, NEW h \in Handler, pc[h] # "idle" PROVE kid[h] \in Key
BY DEF OidcInv, Asked

\* Only these steps let a handler return with a key, or without.
LEMMA ReturnSteps ==
    ASSUME OidcInv, Next, NEW h \in Handler, NEW o \in {"found", "unknown"}, Returns(h, o)
    PROVE  \/ ~TooOld /\ keys[kid[h]] > 0 /\ o = Outcome(keys[kid[h]]) /\ keys' = keys
           \/ answer[h] # Empty /\ o = Outcome(answer[h][kid[h]]) /\ keys' = answer[h]
<1>1. ASSUME NEW g \in Handler, g # h,
             (\E k \in Key : Authenticate(g, k)) \/ Lock(g) \/ ProviderAnswers(g) \/ Fetched(g) \/ FetchFails(g)
      PROVE  pc'[h] = pc[h]
  BY <1>1 DEF Authenticate, Lock, ProviderAnswers, Fetched, FetchFails, Return, Refresh, OidcInv, TypeOK
<1>2. ASSUME (\E k \in Key : Authenticate(h, k)) \/ ProviderAnswers(h) PROVE FALSE
  BY <1>2 DEF Authenticate, ProviderAnswers, Returns, OidcInv, TypeOK
<1>3. ASSUME FetchFails(h) PROVE FALSE
  BY <1>3 DEF FetchFails, Return, Returns, OidcInv, TypeOK
<1>4. ASSUME Lock(h)
      PROVE  ~TooOld /\ keys[kid[h]] > 0 /\ o = Outcome(keys[kid[h]]) /\ keys' = keys
  BY <1>4 DEF Lock, Return, Refresh, Returns, OidcInv, TypeOK
<1>5. ASSUME Fetched(h)
      PROVE  answer[h] # Empty /\ o = Outcome(answer[h][kid[h]]) /\ keys' = answer[h]
  BY <1>5 DEF Fetched, Return, Refresh, Returns, OidcInv, TypeOK
<1>6. ASSUME (\E new \in KeySets : Rotate(new)) \/ Tick PROVE FALSE
  BY <1>6 DEF Rotate, Tick, handlerVars, Returns
<1>7. pc'[h] # pc[h]
  BY DEF Returns
<1>8. QED
  BY <1>1, <1>2, <1>3, <1>4, <1>5, <1>6, <1>7 DEF Next

\* keyFor accepts a withdrawn key for MaxCacheAge and one fetch at most, however many
\* requests fill the cache and however their fetches end.
THEOREM WithdrawnBound == Spec => WithdrawnRefused
<1>1. ASSUME OidcInv, [Next]_vars
      PROVE  [\A h \in Handler : Returns(h, "found") => withdrawn[kid[h]] <= Lag]_vars
  <2> SUFFICES ASSUME Next, NEW h \in Handler, Returns(h, "found")
               PROVE  withdrawn[kid[h]] <= Lag
    BY <1>1
  <2> USE <1>1, OidcAssumption, LagFacts
  <2>1. kid[h] \in Key
    BY AskedFact DEF Returns
  <2>2. CASE ~TooOld /\ keys[kid[h]] > 0
    BY <2>1, <2>2 DEF OidcInv, TypeOK, CacheRecent, TooOld
  <2>3. CASE answer[h][kid[h]] > 0
    BY <2>1, <2>3 DEF OidcInv, TypeOK, AnswerRecent
  <2>4. QED
    BY <2>2, <2>3, ReturnSteps DEF Outcome
<1>2. QED
  BY <1>1, AlwaysInv, PTL DEF Spec, WithdrawnRefused

\* A key that is published from the request on is called unknown only if the set that
\* keyFor looked it up in has two keys of its name.
THEOREM SteadyFound == Spec => PublishedFound
<1>1. ASSUME OidcInv, [Next]_vars
      PROVE  [\A h \in Handler : Returns(h, "unknown") => h \notin steady \/ keys'[kid[h]] = 2]_vars
  <2> SUFFICES ASSUME Next, NEW h \in Handler, Returns(h, "unknown"), h \in steady
               PROVE  keys'[kid[h]] = 2
    BY <1>1
  <2>1. keys' \in KeySets \cup {Empty} /\ kid[h] \in Key
    BY <1>1, NextInv DEF OidcInv, TypeOK, SteadySeen
  <2>2. keys'[kid[h]] > 0 /\ keys'[kid[h]] # 1
    BY <1>1, ReturnSteps DEF OidcInv, SteadySeen, Outcome
  <2>3. QED
    BY <2>1, <2>2 DEF KeySets, Empty
<1>2. QED
  BY <1>1, AlwaysInv, PTL DEF Spec, PublishedFound
=============================================================================
