------------------------------ MODULE OidcKeys ------------------------------
(***************************************************************************)
(* The key cache of OIDCAuthenticator.  Handlers of concurrent requests    *)
(* look up the key that signed their token; one at a time holds the mutex, *)
(* also while it fetches the identity provider's key set, which changes    *)
(* when keys are rotated.                                                  *)
(***************************************************************************)
EXTENDS Integers

CONSTANTS Handler, None,
          Key,           \* the names of keys (kid)
          Twice,         \* those that the provider may give to two keys at once
          MaxCacheAge,   \* five minutes
          FetchTimeout   \* the HTTP client's three seconds

ASSUME OidcAssumption ==
    /\ None \notin Handler \cup Key /\ Twice \subseteq Key
    /\ MaxCacheAge \in Nat /\ FetchTimeout \in Nat \ {0}

VARIABLES
    published,  \* the provider's key set
    withdrawn,  \* kid -> time since it was withdrawn (bounded), or Valid
    keys, age,  \* the cache, and the time since fetchedAt (bounded)
    mutex,      \* the handler that holds it, or None
    pc,         \* handler -> idle, locking, or fetching for the first or second time
    kid,        \* handler -> the key its token names
    answer,     \* handler -> the key set the provider answered with, or Empty
    left,       \* handler -> what is left of its fetch's timeout
    res,        \* handler -> what keyFor returned: none yet, found, unknown or error
    steady      \* history: handlers whose key has been published since their request

cacheVars == <<keys, age, mutex>>
handlerVars == <<pc, kid, answer, left, res>>
vars == <<published, withdrawn, cacheVars, handlerVars, steady>>

Valid == -1
\* For how long a withdrawn key may still be accepted (WithdrawnRefused).
Lag == MaxCacheAge + FetchTimeout

\* A key set, by how many of its keys have a name.
Empty == [k \in Key |-> 0]
KeySets == {s \in [Key -> 0 .. 2] : s # Empty /\ \A k \in Key : s[k] = 2 => k \in Twice}

\* A new authenticator has no keys, and a fetchedAt long ago.
Init ==
    /\ published \in KeySets
    /\ withdrawn = [k \in Key |-> IF published[k] > 0 THEN Valid ELSE Lag + 1]
    /\ keys = Empty /\ age = MaxCacheAge + 1 /\ mutex = None
    /\ pc = [h \in Handler |-> "idle"]
    /\ kid = [h \in Handler |-> None]
    /\ answer = [h \in Handler |-> Empty]
    /\ left = [h \in Handler |-> 0]
    /\ res = [h \in Handler |-> "none"]
    /\ steady = {}

-----------------------------------------------------------------------------
(* Authenticate and keyFor.                                                *)

\* A request comes with a token that names a key; it waits for the mutex.
Authenticate(h, k) ==
    /\ pc[h] = "idle"
    /\ pc' = [pc EXCEPT ![h] = "locking"]
    /\ kid' = [kid EXCEPT ![h] = k]
    /\ res' = [res EXCEPT ![h] = "none"]
    /\ steady' = IF published[k] > 0 THEN steady \cup {h} ELSE steady \ {h}
    /\ UNCHANGED <<published, withdrawn, cacheVars, answer, left>>

\* The handler returns from keyFor: the mutex is free.
Return(h, outcome) ==
    /\ mutex' = None
    /\ res' = [res EXCEPT ![h] = outcome]
    /\ pc' = [pc EXCEPT ![h] = "idle"]
    /\ answer' = [answer EXCEPT ![h] = Empty]
    /\ left' = [left EXCEPT ![h] = 0]
    /\ UNCHANGED kid

\* Mutant: connecting and reading have a timeout each.
RefreshSlow(h, time) ==
    /\ mutex' = h
    /\ pc' = [pc EXCEPT ![h] = time]
    /\ answer' = [answer EXCEPT ![h] = Empty]
    /\ left' = [left EXCEPT ![h] = 2 * FetchTimeout]
    /\ UNCHANGED <<kid, res>>

\* refreshKeys up to its request.
Refresh(h, time) ==
    /\ mutex' = h
    /\ pc' = [pc EXCEPT ![h] = time]
    /\ answer' = [answer EXCEPT ![h] = Empty]
    /\ left' = [left EXCEPT ![h] = FetchTimeout]
    /\ UNCHANGED <<kid, res>>

\* Mutant: a cache of any age will do, as long as it has the key.
TooOldNever == keys = Empty

\* A cache that is too old, or empty, has to be fetched anew.
TooOld == age > MaxCacheAge \/ keys = Empty

\* The last check of keyFor.  A name that two keys have is refused.
Outcome(n) == IF n = 1 THEN "found" ELSE "unknown"

\* Mutant: a key that is not in the cache is unknown.
LockOnce(h) ==
    /\ pc[h] = "locking" /\ mutex = None
    /\ \/ TooOld /\ Refresh(h, "first")
       \/ ~TooOld /\ Return(h, Outcome(keys[kid[h]]))
    /\ UNCHANGED <<published, withdrawn, keys, age, steady>>

\* A key that is not in the cache may be new.
Lock(h) ==
    /\ pc[h] = "locking" /\ mutex = None
    /\ \/ TooOld /\ Refresh(h, "first")
       \/ ~TooOld /\ keys[kid[h]] > 0 /\ Return(h, Outcome(keys[kid[h]]))
       \/ ~TooOld /\ keys[kid[h]] = 0 /\ Refresh(h, "second")
    /\ UNCHANGED <<published, withdrawn, keys, age, steady>>

\* The provider answers with the key set it has now.
ProviderAnswers(h) ==
    /\ pc[h] \in {"first", "second"} /\ answer[h] = Empty
    /\ answer' = [answer EXCEPT ![h] = published]
    /\ UNCHANGED <<published, withdrawn, cacheVars, pc, kid, left, res, steady>>

\* refreshKeys succeeds.  After the first time the key, if it is unknown, is fetched for
\* once more; after the second it is found or not.
Fetched(h) ==
    /\ pc[h] \in {"first", "second"} /\ answer[h] # Empty
    /\ keys' = answer[h] /\ age' = 0
    /\ LET n == answer[h][kid[h]] IN
       \/ n = 0 /\ pc[h] = "first" /\ Refresh(h, "second")
       \/ (n > 0 \/ pc[h] = "second") /\ Return(h, Outcome(n))
    /\ UNCHANGED <<published, withdrawn, steady>>

\* Mutant: the mutex is kept when the fetch fails.
FetchFailsLocked(h) ==
    /\ pc[h] \in {"first", "second"}
    /\ pc' = [pc EXCEPT ![h] = "idle"]
    /\ UNCHANGED <<published, withdrawn, cacheVars, kid, answer, left, res, steady>>

\* refreshKeys fails: a timeout, a cancelled request, a status, a set that cannot be
\* decoded or is empty.  The token is refused, and the cache stays as it is.
FetchFails(h) ==
    /\ pc[h] \in {"first", "second"}
    /\ Return(h, "error")
    /\ UNCHANGED <<published, withdrawn, keys, age, steady>>

-----------------------------------------------------------------------------
\* The provider rotates its keys.
Rotate(new) ==
    /\ new # published
    /\ published' = new
    /\ withdrawn' = [k \in Key |-> IF new[k] > 0 THEN Valid
                                   ELSE IF published[k] > 0 THEN 0 ELSE withdrawn[k]]
    /\ steady' = {h \in steady : new[kid[h]] > 0}
    /\ UNCHANGED <<cacheVars, handlerVars>>

Elapsed(t, bound) == IF t \in 0 .. bound THEN t + 1 ELSE t

\* The client gives up a fetch that is out of time before time goes on.
Tick ==
    /\ \A h \in Handler : pc[h] \in {"first", "second"} => left[h] > 0
    /\ age' = Elapsed(age, MaxCacheAge)
    /\ withdrawn' = [k \in Key |-> Elapsed(withdrawn[k], Lag)]
    /\ left' = [h \in Handler |-> IF left[h] > 0 THEN left[h] - 1 ELSE 0]
    /\ UNCHANGED <<published, keys, mutex, pc, kid, answer, res, steady>>

Next ==
    \/ \E h \in Handler, k \in Key : Authenticate(h, k)
    \/ \E h \in Handler : Lock(h) \/ ProviderAnswers(h) \/ Fetched(h) \/ FetchFails(h)
    \/ \E new \in KeySets : Rotate(new)
    \/ Tick

Spec == Init /\ [][Next]_vars

\* A fetch ends, by its timeout at the latest, and Go's mutex passes over nobody for ever.
FairSpec == Spec /\ \A h \in Handler : WF_vars(Fetched(h) \/ FetchFails(h)) /\ SF_vars(Lock(h))

-----------------------------------------------------------------------------
(* Properties.                                                             *)

\* Every variable has its type.
TypeOK ==
    /\ published \in KeySets
    /\ withdrawn \in [Key -> -1 .. Lag + 1]
    /\ keys \in KeySets \cup {Empty} /\ age \in 0 .. MaxCacheAge + 1
    /\ mutex \in Handler \cup {None}
    /\ pc \in [Handler -> {"idle", "locking", "first", "second"}]
    /\ kid \in [Handler -> Key \cup {None}]
    /\ answer \in [Handler -> KeySets \cup {Empty}]
    /\ left \in [Handler -> 0 .. FetchTimeout]
    /\ res \in [Handler -> {"none", "found", "unknown", "error"}]
    /\ steady \subseteq Handler

\* keyFor returns in this step.
Returns(h, outcome) == pc[h] # "idle" /\ pc'[h] = "idle" /\ res'[h] = outcome

\* A key that the provider has withdrawn is refused five minutes and one fetch later,
\* whatever fails and whoever refreshes the cache: time counts from the end of the
\* fetch, and its answer is older.
WithdrawnRefused ==
    [][\A h \in Handler : Returns(h, "found") => withdrawn[kid[h]] <= Lag]_vars

\* A key that is published all the time is found, however old the cache and whichever
\* handler filled it, unless a fetch fails or the cache has two keys of its name, for
\* which keyFor does not fetch again.
PublishedFound ==
    [][\A h \in Handler : Returns(h, "unknown") => h \notin steady \/ keys'[kid[h]] = 2]_vars

\* Every request gets its answer, also when the provider does not answer.
Answered == \A h \in Handler : pc[h] = "locking" ~> pc[h] = "idle"
=============================================================================
