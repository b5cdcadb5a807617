------------------------------ MODULE RedisKeys ------------------------------
(***************************************************************************)
(* Time and key expiry, as the gateway, Redis and the vehicles see them.   *)
(* A timestamp is kept as the time it still has to go, 0 once it is past,  *)
(* and one tick of the clock brings all of them closer: no absolute time   *)
(* is needed, and no bound on it.  All parties share one clock.            *)
(***************************************************************************)
EXTENDS Integers

CONSTANTS Vehicle,
          Request,   \* requests; an id made with uuid.NewString is named after its request
          None       \* absent: no lease, no key, no session id

\* One unit passes for a timestamp; one already reached stays reached.
Elapse(t) == IF t > 0 THEN t - 1 ELSE 0

\* A key that was SET without PX has no time to live.
NoTTL == 0

\* One unit passes for a key: Redis drops it when its PX runs out.
Age(key) ==
    IF key = None \/ key.px = 1 THEN None
    ELSE IF key.px = NoTTL THEN key
    ELSE [key EXCEPT !.px = @ - 1]
=============================================================================
