---------------------------- MODULE AccessRoles ----------------------------
(* The roles a member of a workspace can have (internal/domain/models.go).   *)
EXTENDS Integers

Roles == {"viewer", "member", "admin", "owner"}

Rank(role) == CASE role = "viewer" -> 1 [] role = "member" -> 2
                [] role = "admin" -> 3 [] role = "owner" -> 4

AtLeast(role, minimum) == Rank(role) >= Rank(minimum)
=============================================================================
