------------------------------ MODULE RbacPolicy ------------------------------
(***************************************************************************)
(* Roles, permissions and the role check of RoleBasedAccessControl, as     *)
(* operators on a policy.  The code keeps the policy as a vector that only *)
(* grows and asks whether some element matches, so a set says the same.    *)
(***************************************************************************)
EXTENDS Integers

GUEST == 0
USER  == 1
ADMIN == 2
Roles == {GUEST, USER, ADMIN}

Permissions(actions) == [action : actions, required_role : Roles]

(* Faulty variant: a permission is for just one role.                      *)
HasExactRole(user, perm) == user.role = perm.required_role

HasSufficientRole(user, perm) == user.role >= perm.required_role

(* Deny by default, and always to a user who is not authenticated.         *)
CheckPermission(policy, user, action) ==
    /\ user.authenticated
    /\ \E perm \in policy :
         perm.action = action /\ HasSufficientRole(user, perm)

===============================================================================
