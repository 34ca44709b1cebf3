---------------------- MODULE RoleBasedAccessControl_proofs ----------------------
(***************************************************************************)
(* The two ways of asking about a resource, for every set of users,        *)
(* actions, groups and resources.                                          *)
(***************************************************************************)
EXTENDS RoleBasedAccessControl, TLAPS

(* What the rule asks of the resource, once the role suffices.             *)
Opens(user, resource, action) ==
    \/ user.role >= ADMIN /\ action \in AnyActions
    \/ resource.is_public
    \/ OwnsResource(user, resource)
    \/ InSharedGroup(user, resource)

CurrentAnswer == AnswerById(policy_, resources_, held.request, held.id)

(* The history of a copy holds the answer of this moment, and a refusal if *)
(* the copy is of a closed resource.                                       *)
HistoryIsKept ==
    Holding =>
        /\ CurrentAnswer \in held.by_id
        /\ ~Opens(held.request.user, held.copy, held.request.action) =>
               FALSE \in held.by_id

IInv == RbacTypeOK /\ HistoryIsKept /\ GrantWasTrue

-------------------------------------------------------------------------------
(* The rule, with its part about the resource named.                       *)
LEMMA RuleSplits ==
    ASSUME NEW policy, NEW user, NEW resource, NEW action
    PROVE  CanAccessResource(policy, user, resource, action)
               <=> /\ user.authenticated
                   /\ HasRolePermission(policy, user, action)
                   /\ Opens(user, resource, action)
  BY DEF CanAccessResource, Opens

(* The same for the rule that goes by the id.                              *)
LEMMA RuleByIdSplits ==
    ASSUME NEW policy, NEW resources, NEW user, NEW id, NEW action
    PROVE  CanAccessResourceById(policy, resources, user, id, action)
               <=> /\ resources[id] # NotFound
                   /\ user.authenticated
                   /\ HasRolePermission(policy, user, action)
                   /\ Opens(user, resources[id], action)
  BY DEF CanAccessResourceById, Opens

(* Both rules give one answer about one resource.                          *)
LEMMA OneAnswer ==
    ASSUME NEW policy, NEW resources, NEW user, NEW id, NEW action,
           resources[id] # NotFound
    PROVE  CanAccessResource(policy, user, resources[id], action)
               <=> CanAccessResourceById(policy, resources, user, id, action)
  BY RuleSplits, RuleByIdSplits

(* A truth value that a set of them contains.                              *)
LEMMA Membership ==
    ASSUME NEW answer \in BOOLEAN, NEW answers, answer \in answers
    PROVE  /\ answer => TRUE \in answers
           /\ ~answer => FALSE \in answers
  <1>1. CASE answer = TRUE   BY <1>1
  <1>2. CASE answer = FALSE  BY <1>2
  <1>3. QED  BY <1>1, <1>2

LEMMA AnswersAreBoolean ==
    ASSUME NEW policy, NEW resources, NEW request, NEW id
    PROVE  AnswerById(policy, resources, request, id) \in BOOLEAN
  BY DEF AnswerById, CanAccessResourceById

-------------------------------------------------------------------------------
(* A step that changes only the tables, and the history of the copy.       *)
LEMMA TablesChange ==
    ASSUME IInv,
           policy_' \subseteq Permissions(Actions),
           resources_' \in [ResourceIds -> ResourceAccess \cup {NotFound}],
           NEW grown \in BOOLEAN, Remember(grown),
           ~grown => policy_' = policy_
    PROVE  IInv'
  <1> DEFINE Now == AnswerById(policy_', resources_', held.request, held.id)
  <1>1. CASE ~Holding
    <2>1. held' = held  BY <1>1 DEF Remember
    <2>2. QED  BY <1>1, <2>1 DEF IInv, RbacTypeOK, HistoryIsKept, GrantWasTrue, Holding
  <1>2. CASE Holding
    <2>1. held \in HeldRecords  BY <1>2 DEF IInv, RbacTypeOK, Holding
    <2>2. Now \in BOOLEAN  BY AnswersAreBoolean
    <2>3. held' = [held EXCEPT !.grown = @ \/ grown, !.by_id = @ \cup {Now}]
      BY <1>2 DEF Remember
    <2>4. /\ held'.request = held.request /\ held'.id = held.id /\ held'.copy = held.copy
          /\ held'.found = held.found
          /\ held'.by_id = held.by_id \cup {Now}
          /\ held'.grown = (held.grown \/ grown)
      BY <2>1, <2>3 DEF HeldRecords
    <2>5. held' \in HeldRecords  BY <2>1, <2>2, <2>3 DEF HeldRecords
    <2>6. RbacTypeOK'  BY <2>5 DEF RbacTypeOK
    <2>7. HistoryIsKept'
      BY <1>2, <2>4 DEF IInv, HistoryIsKept, CurrentAnswer, Opens, OwnsResource, InSharedGroup
    <2>8. GrantWasTrue'
      <3> SUFFICES ASSUME held'.found, ~held'.grown, Verdict'
                   PROVE  TRUE \in held'.by_id
        BY DEF GrantWasTrue
      <3>1. ~held.grown /\ ~grown  BY <2>4
      <3>2. Verdict  BY <2>4, <3>1 DEF Verdict
      <3>3. QED  BY <1>2, <2>4, <3>1, <3>2 DEF IInv, GrantWasTrue
    <2>9. QED  BY <2>6, <2>7, <2>8 DEF IInv
  <1>3. QED  BY <1>1, <1>2

(* get_resource: the answer of this moment is about the resource copied.   *)
LEMMA CopyIsMade ==
    ASSUME IInv, NEW request \in Requests, NEW id \in ResourceIds, GetResource(request, id)
    PROVE  IInv'
  <1> DEFINE Now == AnswerById(policy_, resources_, request, id)
  <1>1. Now \in BOOLEAN  BY AnswersAreBoolean
  <1>2. Resource(id) \in ResourceAccess
    BY DEF IInv, RbacTypeOK, Resource, ResourceAccess, UserIds
  <1>3. held' = [request |-> request, id |-> id, copy |-> Resource(id),
                 found |-> resources_[id] # NotFound, grown |-> FALSE, by_id |-> {Now}]
    BY DEF GetResource
  <1>4. /\ held'.request = request /\ held'.id = id /\ held'.copy = Resource(id)
        /\ held'.found = (resources_[id] # NotFound)
        /\ held'.by_id = {Now}
    BY <1>3
  <1>5. policy_' = policy_ /\ resources_' = resources_  BY DEF GetResource
  <1>6. held' \in HeldRecords  BY <1>1, <1>2, <1>3 DEF HeldRecords
  <1>7. RbacTypeOK'  BY <1>5, <1>6 DEF IInv, RbacTypeOK
  <1>8. Now <=> CanAccessResourceById(policy_, resources_, request.user, id, request.action)
    BY DEF AnswerById
  <1>9. HistoryIsKept'
    <2>1. CurrentAnswer' \in held'.by_id
      BY <1>4, <1>5 DEF CurrentAnswer
    <2>2. ASSUME ~Opens(request.user, Resource(id), request.action)
          PROVE  ~Now
      BY <2>2, <1>8, RuleByIdSplits DEF Resource
    <2>3. QED
      BY <1>1, <1>4, <2>1, <2>2, Membership
         DEF HistoryIsKept, Opens, OwnsResource, InSharedGroup
  <1>10. GrantWasTrue'
    <2> SUFFICES ASSUME held'.found, Verdict'
                 PROVE  TRUE \in held'.by_id
      BY DEF GrantWasTrue
    <2>1. resources_[id] # NotFound /\ Resource(id) = resources_[id]
      BY <1>4 DEF Resource
    <2>2. CanAccessResource(policy_, request.user, resources_[id], request.action)
      BY <1>4, <1>5, <2>1 DEF Verdict
    <2>3. Now  BY <2>1, <2>2, <1>8, OneAnswer
    <2>4. QED  BY <1>1, <1>4, <2>3, Membership
  <1>11. QED  BY <1>7, <1>9, <1>10 DEF IInv

THEOREM InvariantHolds == RbacSpec => []IInv
  <1>1. RbacInit => IInv
    BY DEF RbacInit, IInv, RbacTypeOK, HistoryIsKept, GrantWasTrue, Holding
  <1>2. IInv /\ [RbacNext]_rbacVars => IInv'
    <2> SUFFICES ASSUME IInv, [RbacNext]_rbacVars
                 PROVE  IInv'
      OBVIOUS
    <2>1. CASE \E perm \in Permissions(Actions) : AddPermission(perm)
      BY <2>1, TablesChange DEF AddPermission, IInv, RbacTypeOK
    <2>2. CASE \E id \in ResourceIds, resource \in ResourceAccess : RegisterResource(id, resource)
      BY <2>2, TablesChange DEF RegisterResource, IInv, RbacTypeOK
    <2>3. ASSUME NEW id \in ResourceIds, NEW owner \in UserIds, UpdateResourceOwner(id, owner)
          PROVE  IInv'
      <3>1. [resources_[id] EXCEPT !.owner_id = owner] \in ResourceAccess
        BY <2>3 DEF UpdateResourceOwner, IInv, RbacTypeOK, ResourceAccess
      <3>2. resources_' \in [ResourceIds -> ResourceAccess \cup {NotFound}]
        BY <2>3, <3>1 DEF UpdateResourceOwner, IInv, RbacTypeOK
      <3>3. QED  BY <2>3, <3>2, TablesChange DEF UpdateResourceOwner, IInv, RbacTypeOK
    <2>4. CASE \E id \in ResourceIds, request \in Requests : GetResource(request, id)
      BY <2>4, CopyIsMade
    <2>5. CASE Ask
      BY <2>5 DEF Ask, IInv, RbacTypeOK, HistoryIsKept, GrantWasTrue, Holding
    <2>6. CASE UNCHANGED rbacVars
      BY <2>6 DEF rbacVars, IInv, RbacTypeOK, HistoryIsKept, GrantWasTrue, Holding, CurrentAnswer,
                  AnswerById, CanAccessResourceById, HasRolePermission, HasSufficientRole,
                  Opens, OwnsResource, InSharedGroup, Verdict, CanAccessResource
    <2>7. QED  BY <2>1, <2>2, <2>3, <2>4, <2>5, <2>6 DEF RbacNext
  <1>3. QED  BY <1>1, <1>2, PTL DEF RbacSpec

(* A refusal on a copy was the answer by id at some moment: when it is for *)
(* want of a role or of authentication, it is the answer of this moment;   *)
(* when the copy is closed, it is in the history.                          *)
THEOREM RefusalsWereTrue == RbacSpec => []RefusalWasTrue
  <1>1. IInv => RefusalWasTrue
    <2> SUFFICES ASSUME IInv, Holding, ~Verdict
                 PROVE  FALSE \in held.by_id
      BY DEF RefusalWasTrue
    <2>1. CASE ~Opens(held.request.user, held.copy, held.request.action)
      BY <2>1 DEF IInv, HistoryIsKept
    <2>2. CASE Opens(held.request.user, held.copy, held.request.action)
      <3>1. ~CurrentAnswer
        BY <2>2, RuleSplits, RuleByIdSplits DEF Verdict, CurrentAnswer, AnswerById
      <3>2. CurrentAnswer \in BOOLEAN  BY AnswersAreBoolean DEF CurrentAnswer
      <3>3. QED  BY <3>1, <3>2, Membership DEF IInv, HistoryIsKept
    <2>3. QED  BY <2>1, <2>2
  <1>2. QED  BY <1>1, InvariantHolds, PTL

(* A grant on a copy was the answer by id, if the policy has not grown.    *)
THEOREM GrantsWereTrue == RbacSpec => []GrantWasTrue
  <1>1. IInv => GrantWasTrue  BY DEF IInv
  <1>2. QED  BY <1>1, InvariantHolds, PTL

(* The types of the tables and of the copy.                                *)
THEOREM TypeCorrect == RbacSpec => []RbacTypeOK
  <1>1. IInv => RbacTypeOK  BY DEF IInv
  <1>2. QED  BY <1>1, InvariantHolds, PTL

(* The two copies of the rule agree on a resource that has not changed.    *)
THEOREM RulesAlwaysAgree == RbacSpec => []RulesAgree
  <1>1. RbacTypeOK => RulesAgree
    <2> SUFFICES ASSUME RbacTypeOK, Holding, held.copy = resources_[held.id],
                        NEW user \in Users, NEW action \in Actions
                 PROVE  CanAccessResource(policy_, user, held.copy, action)
                          = CanAccessResourceById(policy_, resources_, user, held.id, action)
      BY DEF RulesAgree
    <2>1. held.copy \in ResourceAccess  BY DEF RbacTypeOK, Holding, HeldRecords
    <2>2. resources_[held.id] # NotFound  BY <2>1, RbacAssumption
    <2>3. CanAccessResource(policy_, user, held.copy, action)
            <=> CanAccessResourceById(policy_, resources_, user, held.id, action)
      BY <2>2, OneAnswer
    <2>4. QED  BY <2>3 DEF CanAccessResource, CanAccessResourceById
  <1>2. QED  BY <1>1, TypeCorrect, PTL

(* Roles are ordered: a higher one may do more, here and in dispatch.      *)
THEOREM HigherRolesMayMore == RbacSpec => []HigherRoleMayMore
  <1>1. RbacTypeOK => HigherRoleMayMore
    <2> SUFFICES ASSUME RbacTypeOK, NEW user \in Users, NEW action \in Actions,
                        NEW id \in ResourceIds,
                        CanAccessResourceById(policy_, resources_, user, id, action),
                        NEW role \in user.role .. ADMIN
                 PROVE  LET senior == [user EXCEPT !.role = role]
                        IN /\ CanAccessResourceById(policy_, resources_, senior, id, action)
                           /\ CheckPermission(policy_, senior, action)
      BY DEF HigherRoleMayMore
    <2> DEFINE senior == [user EXCEPT !.role = role]
    <2>1. user.role \in Int /\ role \in Int /\ role >= user.role
      BY DEF Users, Roles, GUEST, USER, ADMIN
    <2>2. /\ senior.user_id = user.user_id /\ senior.group_ids = user.group_ids
          /\ senior.authenticated = user.authenticated /\ senior.role = role
      BY DEF Users
    <2>3. PICK perm \in policy_ : perm.action = action /\ user.role >= perm.required_role
      BY RuleByIdSplits DEF HasRolePermission, HasSufficientRole
    <2>4. perm.required_role \in Int
      BY DEF RbacTypeOK, Permissions, Roles, GUEST, USER, ADMIN
    <2>5. senior.role >= perm.required_role  BY <2>1, <2>2, <2>3, <2>4
    <2>6. HasRolePermission(policy_, senior, action)
      BY <2>3, <2>5 DEF HasRolePermission, HasSufficientRole
    <2>7. Opens(senior, resources_[id], action)
      BY <2>1, <2>2, RuleByIdSplits DEF Opens, OwnsResource, InSharedGroup, ADMIN
    <2>8. senior.authenticated  BY <2>2, RuleByIdSplits
    <2>9. CanAccessResourceById(policy_, resources_, senior, id, action)
      BY <2>6, <2>7, <2>8, RuleByIdSplits
    <2>10. CheckPermission(policy_, senior, action)
      BY <2>6, <2>8 DEF CheckPermission, HasRolePermission
    <2>11. QED  BY <2>9, <2>10
  <1>2. QED  BY <1>1, TypeCorrect, PTL

===============================================================================
