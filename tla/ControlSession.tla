--------------------------- MODULE ControlSession ---------------------------
(***************************************************************************)
(* The control lease store: the two Redis keys of a control session and    *)
(* the three Lua scripts that change them atomically.                      *)
(*                                                                         *)
(*   control:<vehicle>          lease[v]  the session, with its PX         *)
(*   control-session:<session>  index[s]  the vehicle, with its PX         *)
(*                                                                         *)
(* A script is the reply it computes and, for reply 1, an action.  The     *)
(* status of a session is not kept: the code only ever stores ACTIVE ones. *)
(* A public key is generated per session, so the session id stands for it. *)
(***************************************************************************)
EXTENDS RedisKeys

CONSTANTS Operator,
          Authorized,   \* <<operator, vehicle>> pairs that pass the role and ACL checks
          LeaseTTL

ASSUME LeaseAssumption ==
    /\ LeaseTTL \in Nat \ {0}
    /\ Authorized \subseteq Operator \X Vehicle
    /\ None \notin Vehicle \cup Operator \cup Request

VARIABLES lease, index,
          granted       \* history: the sessions some acquire script has stored

storeVars == <<lease, index, granted>>

Session == [sid : Request, op : Operator, exp : 0 .. LeaseTTL, px : 1 .. LeaseTTL]
IndexEntry == [veh : Vehicle, px : 1 .. LeaseTTL]

\* No stored value is mistaken for a missing key.
ASSUME NoneAssumption == None \notin Session \cup IndexEntry

StoreTypeOK ==
    /\ lease \in [Vehicle -> Session \cup {None}]
    /\ index \in [Request -> IndexEntry \cup {None}]
    /\ granted \subseteq Request

StoreInit ==
    /\ lease = [v \in Vehicle |-> None]
    /\ index = [s \in Request |-> None]
    /\ granted = {}

\* acquireControlSessionScript: refuses when the lease key exists, else sets both keys.
AcquireReply(v) == IF lease[v] # None THEN 0 ELSE 1

\* Mutant: the keys are set without PX.
AcquireScriptNoPX(v, s, o, e) ==
    /\ lease' = [lease EXCEPT ![v] = [sid |-> s, op |-> o, exp |-> e, px |-> NoTTL]]
    /\ index' = [index EXCEPT ![s] = [veh |-> v, px |-> NoTTL]]
    /\ granted' = granted \cup {s}

AcquireScript(v, s, o, e) ==
    /\ lease' = [lease EXCEPT ![v] = [sid |-> s, op |-> o, exp |-> e, px |-> LeaseTTL]]
    /\ index' = [index EXCEPT ![s] = [veh |-> v, px |-> LeaseTTL]]
    /\ granted' = granted \cup {s}

\* Mutant: the owner is compared, the session is not.
MineByOwner(v, s, o) == lease[v].op = o

\* The stored session is the one the caller names, and the caller owns it.
Mine(v, s, o) == lease[v].sid = s /\ lease[v].op = o

\* renewControlSessionScript: both keys must still be there and be the caller's;
\* it then rewrites expires_at and the PX of both.
RenewReply(v, s, o) ==
    IF lease[v] = None \/ index[s] = None \/ index[s].veh # v THEN 0
    ELSE IF ~Mine(v, s, o) THEN -1 ELSE 1

\* Mutants: the index entry loses its PX; the PX of the keys stays as it was.
RenewScriptNoPX(v, s, e) ==
    /\ lease' = [lease EXCEPT ![v] = [@ EXCEPT !.exp = e, !.px = LeaseTTL]]
    /\ index' = [index EXCEPT ![s] = [veh |-> v, px |-> NoTTL]]
    /\ UNCHANGED granted

RenewScriptKeepPX(v, s, e) ==
    /\ lease' = [lease EXCEPT ![v] = [@ EXCEPT !.exp = e]]
    /\ UNCHANGED <<index, granted>>

RenewScript(v, s, e) ==
    /\ lease' = [lease EXCEPT ![v] = [@ EXCEPT !.exp = e, !.px = LeaseTTL]]
    /\ index' = [index EXCEPT ![s] = [veh |-> v, px |-> LeaseTTL]]
    /\ UNCHANGED granted

\* Mutants: the lease is not compared with the caller's; the index entry stays.
ReleaseReplyUnchecked(v, s, o) == IF lease[v] = None THEN 0 ELSE 1

ReleaseScriptLeaseOnly(v, s) ==
    /\ lease' = [lease EXCEPT ![v] = None]
    /\ UNCHANGED <<index, granted>>

\* releaseControlSessionScript: deletes both keys if the lease is the caller's.
ReleaseReply(v, s, o) ==
    IF lease[v] = None THEN 0 ELSE IF ~Mine(v, s, o) THEN -1 ELSE 1

ReleaseScript(v, s) ==
    /\ lease' = [lease EXCEPT ![v] = None]
    /\ index' = [index EXCEPT ![s] = None]
    /\ UNCHANGED granted

\* Time passes: keys expire, and the expires_at inside a live lease comes closer.
StoreTick ==
    /\ lease' = [v \in Vehicle |->
                   LET key == Age(lease[v])
                   IN  IF key = None THEN None ELSE [key EXCEPT !.exp = Elapse(@)]]
    /\ index' = [s \in Request |-> Age(index[s])]
    /\ UNCHANGED granted
=============================================================================
