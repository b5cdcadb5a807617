---------------------------- MODULE AccessControl ----------------------------
(***************************************************************************)
(* Who may do what: the roles of a caller's claims, the vehicle ACL, and   *)
(* the vehicles that ask for themselves.                                   *)
(*                                                                         *)
(*   claims    [name, org, roles]                                          *)
(*   ACL       entries [user, tenant, vehicle, permissions]                *)
(*   subjects  the subject map, a function from subjects to vehicles       *)
(***************************************************************************)
EXTENDS Naturals

CONSTANT AnyTenant   \* an entry without tenant_id

hasRole(claims, role) == role \in claims.roles

canControl(claims) ==
    \E role \in {"controller", "supervisor", "operator", "admin"} : hasRole(claims, role)

canObserve(claims) == hasRole(claims, "observer") \/ canControl(claims)

\* NewVehicleAuthorizer refuses to start with any other list.
WellFormed(acl) ==
    \A e \in acl : e.permissions # {} /\ e.permissions \subseteq {"observe", "control"}

Authorize(acl, claims, vehicle, permission) ==
    \E e \in acl :
        /\ e.user = claims.name /\ e.vehicle = vehicle
        /\ e.tenant \in {AnyTenant, claims.org}
        /\ permission \in e.permissions \/ ("control" \in e.permissions /\ permission = "observe")

\* The checks of handleAcquireControl, of handleAcquireVideo, and of handleGetControl.
MayControl(acl, claims, vehicle) ==
    canControl(claims) /\ Authorize(acl, claims, vehicle, "control")

MayObserve(acl, claims, vehicle) ==
    canObserve(claims) /\ Authorize(acl, claims, vehicle, "observe")

vehicleSelfMatches(claims, vehicle, subjects) ==
    /\ hasRole(claims, "vehicle")
    /\ \/ claims.name \in DOMAIN subjects /\ subjects[claims.name] = vehicle
       \/ DOMAIN subjects = {} /\ claims.name = vehicle

MayGetControl(acl, claims, vehicle, subjects) ==
    vehicleSelfMatches(claims, vehicle, subjects) \/ MayObserve(acl, claims, vehicle)

\* The access of an operator's LiveKit token: what was asked for, or, if nothing was, the
\* most that the roles allow.  "none" is a refusal.
resolveOperatorAccess(claims, requested) ==
    CASE requested = "" -> IF canControl(claims) THEN "controller" ELSE "observer"
      [] requested = "observer" /\ canObserve(claims) -> "observer"
      [] requested = "controller" /\ canControl(claims) -> "controller"
      [] OTHER -> "none"

\* handleOperatorConnect: the access that the LiveKit token carries.  Only a controller's
\* may publish data (operatorVideoGrant).
ConnectAccess(acl, claims, vehicle, requested) ==
    LET access == resolveOperatorAccess(claims, requested)
        permission == IF access = "controller" THEN "control" ELSE "observe"
    IN  IF access # "none" /\ Authorize(acl, claims, vehicle, permission) THEN access ELSE "none"
=============================================================================
