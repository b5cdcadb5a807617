------------------------------ MODULE MCGateway ------------------------------
(***************************************************************************)
(* Instances of Gateway for TLC.                                           *)
(***************************************************************************)
EXTENDS Gateway, AccessControl, TLC

CONSTANTS o1, o2, o3, v1

\* All are controllers, but the ACL lets o3 only watch.
Claims(o) == [name |-> o, org |-> "fleet", roles |-> {"controller"}]
Entry(o, v) == [user |-> o, vehicle |-> v, tenant |-> AnyTenant,
                permissions |-> IF o = o3 THEN {"observe"} ELSE {"control"}]
Acl == {Entry(o, v) : o \in Operator, v \in Vehicle}

Controllers == {p \in Operator \X Vehicle : MayControl(Acl, Claims(p[1]), p[2])}

\* Requests, and operators with the same rights, are interchangeable.
Interchangeable == Permutations(Request) \cup Permutations(Operator \ {o3})
=============================================================================
