---------------------------- MODULE ControlLease ----------------------------
(***************************************************************************)
(* What the gateway promises about control: a vehicle has at most one      *)
(* controlling session, nobody replaces a controller silently, only an     *)
(* operator cleared for the vehicle gets it, and a session whose lease     *)
(* ended never controls anything again.                                    *)
(***************************************************************************)
CONSTANTS Vehicle, Operator, Session, Authorized, None

VARIABLES holder,   \* vehicle -> [sid, op] of its controller, or None
          granted   \* sessions that have been given a lease, ever

vars == <<holder, granted>>

Init == holder = [v \in Vehicle |-> None] /\ granted = {}

\* A free vehicle goes to a session that never held a lease before.
Acquire(v, s, o) ==
    /\ holder[v] = None
    /\ s \notin granted
    /\ <<o, v>> \in Authorized
    /\ holder' = [holder EXCEPT ![v] = [sid |-> s, op |-> o]]
    /\ granted' = granted \cup {s}

\* Leases end, by release or because their time is over; several may at once.
End(ended) ==
    /\ holder' = [v \in Vehicle |-> IF v \in ended THEN None ELSE holder[v]]
    /\ UNCHANGED granted

Next == \/ \E v \in Vehicle, s \in Session, o \in Operator : Acquire(v, s, o)
        \/ \E ended \in SUBSET Vehicle : End(ended)

Spec == Init /\ [][Next]_vars
=============================================================================
