------------------------- MODULE RoleBasedAccessControl -------------------------
(***************************************************************************)
(* The resources of RoleBasedAccessControl, beside the policy of           *)
(* RbacPolicy.  Every operation runs under mutex_ and is one step.  There  *)
(* are two ways to ask about a resource: by its id, in one step, and with  *)
(* a copy that get_resource returned earlier and that may be out of date.  *)
(* The code writes the rule out for each of them, and so does this module. *)
(***************************************************************************)
EXTENDS RbacPolicy

CONSTANTS
    Actions,
    AnyActions,     \* the actions whose name contains "any"
    Owners,         \* user ids; EmptyId is the empty one
    EmptyId,
    Groups,
    ResourceIds,
    Requests,       \* what callers ask: records [user, action]
    NotFound,       \* the end of the map
    Nothing         \* no copy is held

UserIds == Owners \cup {EmptyId}

Users ==
    [user_id : UserIds, role : Roles,
     group_ids : SUBSET Groups, authenticated : BOOLEAN]

ResourceAccess ==
    [owner_id : UserIds, group_ids : SUBSET Groups, is_public : BOOLEAN]

ASSUME RbacAssumption ==
    /\ AnyActions \subseteq Actions
    /\ Requests \subseteq [user : Users, action : Actions]
    /\ NotFound \notin ResourceAccess

VARIABLES
    policy_,
    resources_,   \* id -> resource, or NotFound
    held          \* the copy a caller works on, see HeldRecords, or Nothing

rbacVars == <<policy_, resources_, held>>

(* A copy, with the question it was made for.  The rest is history: whether *)
(* the resource was found, whether the policy has grown since, and which    *)
(* answers can_access_resource_by_id would have given since.                *)
HeldRecords ==
    [request : Requests, id : ResourceIds, copy : ResourceAccess,
     found : BOOLEAN, grown : BOOLEAN, by_id : SUBSET BOOLEAN]

Holding == held # Nothing

RbacTypeOK ==
    /\ policy_ \subseteq Permissions(Actions)
    /\ resources_ \in [ResourceIds -> ResourceAccess \cup {NotFound}]
    /\ held \in HeldRecords \cup {Nothing}

RbacInit ==
    /\ policy_ = {}
    /\ resources_ = [id \in ResourceIds |-> NotFound]
    /\ held = Nothing

HasRolePermission(policy, user, action) ==
    \E perm \in policy : perm.action = action /\ HasSufficientRole(user, perm)

OwnsResource(user, resource) == resource.owner_id = user.user_id

InSharedGroup(user, resource) == resource.group_ids \cap user.group_ids # {}

(* Faulty variant: public resources are open before the role is checked.   *)
CanAccessPublicFirst(policy, user, resource, action) ==
    /\ user.authenticated
    /\ resource.is_public \/ HasRolePermission(policy, user, action)

(* Faulty variant: groups are forgotten in one copy of the rule.           *)
CanAccessNoGroups(policy, user, resource, action) ==
    /\ user.authenticated
    /\ HasRolePermission(policy, user, action)
    /\ \/ user.role >= ADMIN /\ action \in AnyActions
       \/ resource.is_public
       \/ OwnsResource(user, resource)

CanAccessResource(policy, user, resource, action) ==
    /\ user.authenticated
    /\ HasRolePermission(policy, user, action)
    /\ \/ user.role >= ADMIN /\ action \in AnyActions
       \/ resource.is_public
       \/ OwnsResource(user, resource)
       \/ InSharedGroup(user, resource)

(* Faulty variant: the rule for administrators is missing from one copy.   *)
CanAccessByIdNoAny(policy, resources, user, id, action) ==
    LET resource == resources[id]
    IN /\ resource # NotFound
       /\ user.authenticated
       /\ HasRolePermission(policy, user, action)
       /\ \/ resource.is_public
          \/ OwnsResource(user, resource)
          \/ InSharedGroup(user, resource)

CanAccessResourceById(policy, resources, user, id, action) ==
    LET resource == resources[id]
    IN /\ resource # NotFound
       /\ user.authenticated
       /\ HasRolePermission(policy, user, action)
       /\ \/ user.role >= ADMIN /\ action \in AnyActions
          \/ resource.is_public
          \/ OwnsResource(user, resource)
          \/ InSharedGroup(user, resource)

AnswerById(policy, resources, request, id) ==
    CanAccessResourceById(policy, resources, request.user, id, request.action)

(* What a change of the tables adds to the history of the copy.            *)
Remember(grown) ==
    held' = IF Holding
            THEN [held EXCEPT !.grown = @ \/ grown,
                              !.by_id = @ \cup {AnswerById(policy_', resources_',
                                                           held.request, held.id)}]
            ELSE held

AddPermission(perm) ==
    /\ policy_' = policy_ \cup {perm}
    /\ UNCHANGED resources_
    /\ Remember(TRUE)

RegisterResource(id, resource) ==
    /\ resources_' = [resources_ EXCEPT ![id] = resource]
    /\ UNCHANGED policy_
    /\ Remember(FALSE)

UpdateResourceOwner(id, owner) ==
    /\ resources_[id] # NotFound
    /\ resources_' = [resources_ EXCEPT ![id].owner_id = owner]
    /\ UNCHANGED policy_
    /\ Remember(FALSE)

(* Faulty variant: the iterator is not compared with the end.              *)
ResourceUnchecked(id) == resources_[id]

(* The copy that get_resource returns.                                     *)
Resource(id) ==
    IF resources_[id] # NotFound THEN resources_[id]
    ELSE [owner_id |-> EmptyId, group_ids |-> {}, is_public |-> FALSE]

GetResource(request, id) ==
    /\ ~Holding
    /\ held' = [request |-> request, id |-> id, copy |-> Resource(id),
                found |-> resources_[id] # NotFound, grown |-> FALSE,
                by_id |-> {AnswerById(policy_, resources_, request, id)}]
    /\ UNCHANGED <<policy_, resources_>>

(* What can_access_resource says of the copy.                              *)
Verdict == CanAccessResource(policy_, held.request.user, held.copy, held.request.action)

(* The caller has its verdict; asking changes nothing.                     *)
Ask ==
    /\ Holding
    /\ held' = Nothing
    /\ UNCHANGED <<policy_, resources_>>

RbacNext ==
    \/ \E perm \in Permissions(Actions) : AddPermission(perm)
    \/ \E id \in ResourceIds :
         \/ \E resource \in ResourceAccess : RegisterResource(id, resource)
         \/ \E owner \in UserIds : UpdateResourceOwner(id, owner)
         \/ \E request \in Requests : GetResource(request, id)
    \/ Ask

RbacSpec == RbacInit /\ [][RbacNext]_rbacVars

-------------------------------------------------------------------------------
(* A refusal on a copy, however old, is one that can_access_resource_by_id *)
(* would have given too at some moment since the copy was made: when the   *)
(* role does not suffice, now; when the resource is closed, at first.      *)
RefusalWasTrue == Holding /\ ~Verdict => FALSE \in held.by_id

(* A grant on the copy of a registered resource is one that                *)
(* can_access_resource_by_id would have given too since the copy was made, *)
(* unless permissions were added meanwhile: with a new permission an old   *)
(* copy may open what was never open.                                      *)
GrantWasTrue ==
    Holding /\ held.found /\ ~held.grown /\ Verdict => TRUE \in held.by_id

(* As long as the copy is what is registered, both ways of asking give the *)
(* same answer, to every user and for every action.                        *)
RulesAgree ==
    Holding /\ held.copy = resources_[held.id] =>
        \A user \in Users, action \in Actions :
            CanAccessResource(policy_, user, held.copy, action)
                = CanAccessResourceById(policy_, resources_, user, held.id, action)

(* Who may do something may do it with any higher role as well, and nobody *)
(* has access to a resource by an action that check_permission denies.     *)
HigherRoleMayMore ==
    \A user \in Users, action \in Actions, id \in ResourceIds :
        CanAccessResourceById(policy_, resources_, user, id, action) =>
            \A role \in user.role .. ADMIN :
                LET senior == [user EXCEPT !.role = role]
                IN /\ CanAccessResourceById(policy_, resources_, senior, id, action)
                   /\ CheckPermission(policy_, senior, action)

===============================================================================
