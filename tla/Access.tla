------------------------------- MODULE Access -------------------------------
(***************************************************************************)
(* Who may do what: the dependencies of backend/app/api/deps.py that every *)
(* handler of the case work asks.  A user is a record of its scopes, its   *)
(* clearance (User.classification) and is_superuser.                       *)
(***************************************************************************)
EXTENDS Naturals, Sequences

ClearanceOrder ==
  <<"UNCLASSIFIED", "CUI", "RESTRICTED", "CONFIDENTIAL", "SECRET",
    "TOP_SECRET">>

(* A level that is not in the order, or none, counts as the lowest.        *)
ClearanceIndex(level) ==
  IF \E i \in DOMAIN ClearanceOrder : ClearanceOrder[i] = level
  THEN (CHOOSE i \in DOMAIN ClearanceOrder : ClearanceOrder[i] = level) - 1
  ELSE 0

HasScope(user, scope) == {"admin", scope} \cap user.scopes # {}

IsAdmin(user) == user.superuser \/ "admin" \in user.scopes

UserCanAccessClassification(user, level) ==
  user.superuser \/ ClearanceIndex(user.clearance) >= ClearanceIndex(level)

(* assert_resource_access, for a resource that has an owner. *)
ResourceAccess(user, id, owner, level) ==
  /\ IsAdmin(user) \/ owner = id
  /\ UserCanAccessClassification(user, level)
=============================================================================
