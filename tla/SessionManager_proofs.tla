------------------------- MODULE SessionManager_proofs -------------------------
(***************************************************************************)
(* Sessions, for every set of ids, users and agents and every timeout.     *)
(* What rests on fresh ids assumes a random source that works.             *)
(***************************************************************************)
EXTENDS SessionManager, TLAPS

(* No id is generated twice.                                               *)
FreshIds == ~RandomnessMayFail

(* The id of the last login that its client knew has been given out, and   *)
(* is out of use for good.                                                 *)
OldIdIsDead ==
    last_login # NoLogin /\ last_login.known =>
        last_login.old \in issued /\ last_login.old \notin Active

IInv == TypeOK /\ OldIdIsDead /\ LoginRotates

-------------------------------------------------------------------------------
LEMMA SessionsAreRecords ==
    ASSUME TypeOK, NEW id \in Active
    PROVE  /\ sessions[id] \in SessionRecords
           /\ sessions[id].created_at \in Nat /\ sessions[id].last_active \in Nat
           /\ sessions[id].created_at <= now /\ sessions[id].last_active <= now
  <1>1. sessions[id] \in SessionRecords  BY DEF TypeOK, Active
  <1>2. sessions[id].created_at \in Nat /\ sessions[id].last_active \in Nat /\ now \in Nat
    BY <1>1 DEF SessionRecords, Times, TypeOK
  <1>3. QED  BY <1>1, <1>2 DEF TypeOK

(* A new session belongs to the present.                                   *)
LEMMA NewSessionsAreRecords ==
    ASSUME TypeOK, NEW user \in Users \cup {NoUser}, NEW agent \in Agents \cup {NoAgent}
    PROVE  /\ NewSession(user, agent) \in SessionRecords
           /\ NewSession(user, agent) # NoSession
           /\ NewSession(user, agent).created_at = now
           /\ NewSession(user, agent).last_active = now
  BY NoSessionAssumption DEF NewSession, SessionRecords, TypeOK

LEMMA GeneratedIdsAreIds == ASSUME NEW id \in GeneratedIds PROVE id \in AllIds
  BY DEF GeneratedIds, AllIds

LEMMA GeneratedIdsAreFresh ==
    ASSUME FreshIds, NEW id \in GeneratedIds
    PROVE  id \notin issued
  BY DEF GeneratedIds, FreshIds

(* Whether a session that is not touched has expired depends on the clock  *)
(* alone, and time does not bring it back.                                 *)
LEMMA ExpiredForGood ==
    ASSUME TypeOK, NEW id \in Active, Expired(sessions[id]),
           sessions'[id] = sessions[id], config' = config, now' \in Nat, now <= now'
    PROVE  Expired(sessions[id])'
  <1>1. /\ sessions[id].created_at \in Nat /\ sessions[id].last_active \in Nat
    BY SessionsAreRecords
  <1>2. config.idleTimeout \in Nat /\ config.absoluteTtl \in Nat
    BY SessionAssumption DEF TypeOK
  <1>3. now \in Nat  BY DEF TypeOK, Times
  <1>4. QED  BY <1>1, <1>2, <1>3 DEF Expired

-------------------------------------------------------------------------------
(* What the steps do to the table, apart from configure, which leaves it:  *)
(* a step takes sessions out or finds one good that has not expired, moves *)
(* the clock on, refreshes the session that was found good, or puts a new  *)
(* one under a generated id.                                               *)
Removes ==
    /\ UNCHANGED <<config, configured, now, issued, last_login>>
    /\ sessions' \in [AllIds -> SessionRecords \cup {NoSession}]
    /\ \A id \in AllIds : sessions'[id] \in {sessions[id], NoSession}
    /\ \A id \in accepting' : id \in accepting \/ ~Expired(sessions[id])
    /\ accepting' = {} \/ unpurged' = {}
    /\ accepting' \subseteq Active'
    /\ unpurged' \subseteq Active'

Refreshes(id) ==
    /\ UNCHANGED <<config, configured, now, issued, last_login>>
    /\ id \in accepting
    /\ accepting' = {}
    /\ unpurged' = {}
    /\ sessions' = [sessions EXCEPT ![id].last_active = now]

Creates(user, agent) ==
    /\ UNCHANGED <<config, configured, now, callVars>>
    /\ MutexFree
    /\ \E id \in GeneratedIds :
         /\ issued' = issued \cup {id}
         /\ sessions' \in [AllIds -> SessionRecords \cup {NoSession}]
         /\ sessions'[id] = NewSession(user, agent)
         /\ \A other \in AllIds \ {id} : sessions'[other] \in {sessions[other], NoSession}
         /\ \/ UNCHANGED last_login
            \/ \E old \in AllIds :
                 /\ last_login' = [old |-> old, new |-> id, known |-> old \in issued]
                 /\ old # id => sessions'[old] = NoSession

LEMMA StepKinds ==
    ASSUME TypeOK, [Next]_sessionVars
    PROVE  \/ \E c \in Configs : Configure(c)
           \/ Removes
           \/ \E id \in Active : Refreshes(id)
           \/ \E user \in Users \cup {NoUser}, agent \in Agents \cup {NoAgent} : Creates(user, agent)
           \/ Tick
  <1> USE DEF TypeOK
  <1>1. CASE \E c \in Configs : Configure(c)
    BY <1>1
  <1>2. CASE CreateAnonymous
    <2>1. PICK id \in GeneratedIds :
            /\ sessions' = [sessions EXCEPT ![id] = NewSession(NoUser, NoAgent)]
            /\ issued' = issued \cup {id}
      BY <1>2 DEF CreateAnonymous
    <2>2. id \in AllIds  BY GeneratedIdsAreIds
    <2>3. NewSession(NoUser, NoAgent) \in SessionRecords  BY NewSessionsAreRecords
    <2>4. Creates(NoUser, NoAgent)
      BY <1>2, <2>1, <2>2, <2>3 DEF CreateAnonymous, Creates
    <2>5. QED  BY <2>4
  <1>3. ASSUME NEW old \in AllIds, NEW user \in Users, NEW agent \in Agents \cup {NoAgent},
               Login(old, user, agent)
        PROVE  Creates(user, agent)
    <2>1. PICK id \in GeneratedIds :
            /\ sessions' = [sessions EXCEPT ![old] = NoSession, ![id] = NewSession(user, agent)]
            /\ issued' = issued \cup {id}
            /\ last_login' = [old |-> old, new |-> id, known |-> old \in issued]
      BY <1>3 DEF Login
    <2>2. id \in AllIds  BY GeneratedIdsAreIds
    <2>3. NewSession(user, agent) \in SessionRecords  BY NewSessionsAreRecords
    <2>4. /\ sessions' \in [AllIds -> SessionRecords \cup {NoSession}]
          /\ sessions'[id] = NewSession(user, agent)
          /\ \A other \in AllIds \ {id} : sessions'[other] \in {sessions[other], NoSession}
          /\ old # id => sessions'[old] = NoSession
      BY <2>1, <2>2, <2>3
    <2>5. MutexFree /\ UNCHANGED <<config, configured, now, callVars>>  BY <1>3 DEF Login
    <2>6. QED  BY <2>1, <2>4, <2>5 DEF Creates
  <1>4. ASSUME NEW id \in AllIds, NEW agent \in Agents \cup {NoAgent}, Validate(id, agent)
        PROVE  Removes
    <2>1. /\ UNCHANGED <<config, configured, now, unpurged, issued, last_login>>
          /\ id \in Active
          /\ accepting = {} /\ unpurged = {}
      BY <1>4 DEF Validate, MutexFree
    <2>2. CASE Refused(sessions[id], agent)
      BY <1>4, <2>1, <2>2 DEF Validate, Erase, Removes
    <2>3. CASE ~Refused(sessions[id], agent)
      <3>1. accepting' = {id} /\ UNCHANGED sessions  BY <1>4, <2>3 DEF Validate
      <3>2. ~Expired(sessions[id])  BY <2>3 DEF Refused
      <3>3. QED  BY <2>1, <3>1, <3>2 DEF Removes, Active
    <2>4. QED  BY <2>2, <2>3
  <1>5. ASSUME NEW id \in AllIds, Refresh(id)
        PROVE  \E i \in Active : Refreshes(i)
    <2>1. id \in Active /\ unpurged = {}  BY <1>5 DEF Refresh
    <2>2. Refreshes(id)  BY <1>5, <2>1 DEF Refresh, Refreshes
    <2>3. QED  BY <2>1, <2>2
  <1>6. CASE \E id \in AllIds : Logout(id)
    BY <1>6 DEF Logout, Erase, Removes, MutexFree, callVars
  <1>7. CASE PurgeExpired
    BY <1>7 DEF PurgeExpired, MutexFree, Removes, Active
  <1>8. ASSUME NEW id \in AllIds, PurgeNext(id)
        PROVE  Removes
    <2>1. accepting = {} /\ accepting' = {}  BY <1>8 DEF PurgeNext
    <2>2. /\ sessions' \in [AllIds -> SessionRecords \cup {NoSession}]
          /\ \A i \in AllIds : sessions'[i] \in {sessions[i], NoSession}
          /\ \A i \in AllIds \ {id} : sessions'[i] = sessions[i]
      BY <1>8 DEF PurgeNext, Erase
    <2>3. unpurged' \subseteq Active'  BY <1>8, <2>2 DEF PurgeNext, Active
    <2>4. QED  BY <1>8, <2>1, <2>2, <2>3 DEF PurgeNext, Removes
  <1>9. CASE Tick
    BY <1>9
  <1>10. CASE UNCHANGED sessionVars
    BY <1>10 DEF sessionVars, callVars, Removes, Active
  <1>11. QED
    BY <1>1, <1>2, <1>3, <1>4, <1>5, <1>6, <1>7, <1>8, <1>9, <1>10 DEF Next
-------------------------------------------------------------------------------
(* Types.                                                                  *)
LEMMA TypeStep == TypeOK /\ [Next]_sessionVars => TypeOK'
  <1> SUFFICES ASSUME TypeOK, [Next]_sessionVars
               PROVE  TypeOK'
    OBVIOUS
  <1>1. CASE \E c \in Configs : Configure(c)
    BY <1>1 DEF Configure, TypeOK, Active, callVars
  <1>2. CASE Removes
    <2>1. \A id \in Active' : id \in Active /\ sessions'[id] = sessions[id]
      BY <1>2 DEF Removes, Active
    <2>2. QED  BY <1>2, <2>1 DEF Removes, TypeOK
  <1>3. ASSUME NEW id \in Active, Refreshes(id)
        PROVE  TypeOK'
    <2> DEFINE s == [sessions[id] EXCEPT !.last_active = now]
    <2>1. now \in Times /\ now \in Nat  BY DEF TypeOK, Times
    <2>2. /\ s \in SessionRecords /\ s.created_at = sessions[id].created_at
          /\ s.last_active = now
      BY <2>1, SessionsAreRecords DEF SessionRecords
    <2>3. sessions' = [sessions EXCEPT ![id] = s]  BY <1>3 DEF Refreshes
    <2>4. id \in AllIds  BY DEF Active
    <2> HIDE DEF s
    <2>5. sessions' \in [AllIds -> SessionRecords \cup {NoSession}]
      BY <2>2, <2>3 DEF TypeOK
    <2>6. Active' = Active
      BY <2>2, <2>3, <2>4, NoSessionAssumption DEF Active, TypeOK
    <2>7. \A i \in Active' : sessions'[i].created_at <= sessions'[i].last_active
                              /\ sessions'[i].last_active <= now'
      <3> SUFFICES ASSUME NEW i \in Active
                   PROVE  sessions'[i].created_at <= sessions'[i].last_active
                            /\ sessions'[i].last_active <= now'
        BY <2>6
      <3>1. now' = now  BY <1>3 DEF Refreshes
      <3>2. CASE i = id
        <4>1. sessions'[i] = s  BY <2>3, <2>4, <3>2 DEF TypeOK
        <4>2. sessions[id].created_at <= now  BY SessionsAreRecords
        <4>3. QED  BY <2>1, <2>2, <3>1, <4>1, <4>2
      <3>3. CASE i # id
        BY <2>3, <3>1, <3>3 DEF TypeOK, Active
      <3>4. QED  BY <3>2, <3>3
    <2>8. QED  BY <1>3, <2>5, <2>6, <2>7 DEF Refreshes, TypeOK
  <1>4. ASSUME NEW user \in Users \cup {NoUser}, NEW agent \in Agents \cup {NoAgent},
               Creates(user, agent)
        PROVE  TypeOK'
    <2>1. PICK id \in GeneratedIds :
            /\ issued' = issued \cup {id}
            /\ sessions' \in [AllIds -> SessionRecords \cup {NoSession}]
            /\ sessions'[id] = NewSession(user, agent)
            /\ \A other \in AllIds \ {id} : sessions'[other] \in {sessions[other], NoSession}
            /\ \/ UNCHANGED last_login
               \/ \E old \in AllIds :
                    last_login' = [old |-> old, new |-> id, known |-> old \in issued]
      BY <1>4 DEF Creates
    <2>2. id \in AllIds  BY GeneratedIdsAreIds
    <2>3. \A i \in Active' : i = id \/ (i \in Active /\ sessions'[i] = sessions[i])
      BY <2>1 DEF Active
    <2>4. UNCHANGED <<config, configured, now>> /\ now \in Nat
      BY <1>4 DEF Creates, TypeOK, Times
    <2>5. issued' \subseteq AllIds /\ Active' \subseteq issued'
      BY <2>1, <2>2, <2>3 DEF TypeOK
    <2>6. \A i \in Active' : sessions'[i].created_at <= sessions'[i].last_active
                              /\ sessions'[i].last_active <= now'
      BY <2>1, <2>3, <2>4, NewSessionsAreRecords DEF TypeOK
    <2>7. last_login' \in [old : AllIds, new : AllIds, known : BOOLEAN] \cup {NoLogin}
      <3>1. CASE UNCHANGED last_login  BY <3>1 DEF TypeOK
      <3>2. ASSUME NEW old \in AllIds,
                   last_login' = [old |-> old, new |-> id, known |-> old \in issued]
            PROVE  last_login' \in [old : AllIds, new : AllIds, known : BOOLEAN]
        BY <2>2, <3>2
      <3>3. QED  BY <2>1, <3>1, <3>2
    <2>8. accepting' = {} /\ unpurged' = {}  BY <1>4 DEF Creates, MutexFree, callVars
    <2>9. QED  BY <2>1, <2>4, <2>5, <2>6, <2>7, <2>8 DEF TypeOK
  <1>5. CASE Tick
    <2>1. now \in Nat /\ now' = now + 1 /\ now' \in Times
      BY <1>5, SessionAssumption DEF Tick, TypeOK, Times
    <2>2. \A id \in Active : sessions[id].last_active <= now'
      BY <2>1, SessionsAreRecords
    <2>3. QED  BY <1>5, <2>1, <2>2 DEF Tick, TypeOK, Active, callVars
  <1>6. QED  BY <1>1, <1>2, <1>3, <1>4, <1>5, StepKinds

LEMMA InitIsTyped == Init => TypeOK
  <1> SUFFICES ASSUME Init
               PROVE  TypeOK
    OBVIOUS
  <1>1. Active = {}  BY DEF Init, Active
  <1>2. now \in Times  BY SessionAssumption DEF Init, Times
  <1>3. sessions \in [AllIds -> SessionRecords \cup {NoSession}]  BY DEF Init
  <1>4. config \in Configs /\ configured \in BOOLEAN /\ issued \subseteq AllIds
    BY SessionAssumption DEF Init
  <1>5. last_login \in [old : AllIds, new : AllIds, known : BOOLEAN] \cup {NoLogin}
    BY DEF Init
  <1>6. accepting = {} /\ unpurged = {}  BY DEF Init
  <1>7. QED  BY <1>1, <1>2, <1>3, <1>4, <1>5, <1>6 DEF TypeOK

(* The types of the manager.                                               *)
THEOREM TypeCorrect == Spec => []TypeOK
  BY InitIsTyped, TypeStep, PTL DEF Spec

-------------------------------------------------------------------------------
(* When ids do not repeat, the id that a client logs in with is of no use  *)
(* afterwards: not at once, and not when it is generated again, since it   *)
(* is not.                                                                 *)
LEMMA RotationStep ==
    FreshIds /\ IInv /\ [Next]_sessionVars => IInv'
  <1> SUFFICES ASSUME FreshIds, IInv, [Next]_sessionVars
               PROVE  IInv'
    OBVIOUS
  <1>0. TypeOK /\ TypeOK'  BY TypeStep DEF IInv
  <1>1. CASE \E c \in Configs : Configure(c)
    BY <1>0, <1>1 DEF Configure, IInv, OldIdIsDead, LoginRotates, Active
  <1>2. CASE Removes
    BY <1>0, <1>2 DEF Removes, IInv, OldIdIsDead, LoginRotates, Active
  <1>3. ASSUME NEW id \in Active, Refreshes(id)
        PROVE  IInv'
    <2>1. \A i \in AllIds \ {id} : sessions'[i] = sessions[i]
      BY <1>0, <1>3 DEF Refreshes, TypeOK
    <2>2. Active' \subseteq Active  BY <2>1 DEF Active
    <2>3. QED  BY <1>0, <1>3, <2>2 DEF Refreshes, IInv, OldIdIsDead, LoginRotates
  <1>4. ASSUME NEW user \in Users \cup {NoUser}, NEW agent \in Agents \cup {NoAgent},
               Creates(user, agent)
        PROVE  IInv'
    <2>1. PICK id \in GeneratedIds :
            /\ issued' = issued \cup {id}
            /\ \A other \in AllIds \ {id} : sessions'[other] \in {sessions[other], NoSession}
            /\ \/ UNCHANGED last_login
               \/ \E old \in AllIds :
                    /\ last_login' = [old |-> old, new |-> id, known |-> old \in issued]
                    /\ old # id => sessions'[old] = NoSession
      BY <1>4 DEF Creates
    <2>2. id \notin issued  BY GeneratedIdsAreFresh
    <2>3. Active' \subseteq Active \cup {id}  BY <2>1 DEF Active
    <2>4. CASE UNCHANGED last_login
      BY <1>0, <2>1, <2>2, <2>3, <2>4 DEF IInv, OldIdIsDead, LoginRotates
    <2>5. ASSUME NEW old \in AllIds, old # id => sessions'[old] = NoSession,
                 last_login' = [old |-> old, new |-> id, known |-> old \in issued]
          PROVE  IInv'
      <3>1. last_login'.old = old /\ last_login'.new = id /\ last_login'.known = (old \in issued)
        BY <2>5
      <3>2. old \in issued => old # id /\ old \in issued' /\ old \notin Active'
        BY <2>1, <2>2, <2>5 DEF Active
      <3>3. OldIdIsDead' /\ LoginRotates'
        BY <3>1, <3>2 DEF OldIdIsDead, LoginRotates
      <3>4. QED  BY <1>0, <3>3 DEF IInv
    <2>6. QED  BY <2>1, <2>4, <2>5
  <1>5. CASE Tick
    BY <1>0, <1>5 DEF Tick, IInv, OldIdIsDead, LoginRotates, Active
  <1>6. QED  BY <1>0, <1>1, <1>2, <1>3, <1>4, <1>5, StepKinds

(* login rotates ids, if the random source works.                          *)
THEOREM LoginsRotate ==
    ASSUME FreshIds
    PROVE  Spec => []LoginRotates
  <1>1. Init => IInv
    BY InitIsTyped DEF Init, IInv, OldIdIsDead, LoginRotates
  <1>2. IInv /\ [Next]_sessionVars => IInv'  BY RotationStep
  <1>3. IInv => LoginRotates  BY DEF IInv
  <1>4. QED  BY <1>1, <1>2, <1>3, PTL DEF Spec

(* A dead session stays dead: it is not found good, no id is generated     *)
(* again, and time does not bring it back.  Only the session that validate *)
(* has found good before its time ran out is refreshed.                    *)
THEOREM DeadSessionsStayDead ==
    ASSUME FreshIds
    PROVE  Spec => DeadStaysDead
  <1> DEFINE Kept == \A id \in issued : ~Live(id) /\ config' = config =>
                       /\ Live(id)' => id \in accepting
                       /\ id \in accepting' => id \in accepting
  <1>1. TypeOK /\ [Next]_sessionVars => [Kept]_sessionVars
    <2> SUFFICES ASSUME TypeOK, [Next]_sessionVars, NEW id \in issued,
                        ~Live(id), config' = config, id \notin accepting
                 PROVE  ~Live(id)' /\ id \notin accepting'
      OBVIOUS
    <2>1. id \in AllIds /\ now \in Nat  BY DEF TypeOK, Times
    <2>2. ASSUME sessions'[id] = sessions[id], now' \in Nat, now <= now'
          PROVE  ~Live(id)'
      <3>1. SUFFICES ASSUME id \in Active'
                     PROVE  Expired(sessions[id])'
        BY DEF Live
      <3>2. id \in Active /\ Expired(sessions[id])  BY <2>1, <2>2, <3>1 DEF Live, Active
      <3>3. QED  BY <2>2, <3>2, ExpiredForGood
    <2>3. CASE \E c \in Configs : Configure(c)
      BY <2>1, <2>2, <2>3 DEF Configure, callVars
    <2>4. CASE Removes
      <3>1. id \notin accepting'
        <4>1. SUFFICES ASSUME id \in accepting'
                       PROVE  FALSE
          OBVIOUS
        <4>2. id \in Active' /\ ~Expired(sessions[id])  BY <2>4, <4>1 DEF Removes
        <4>3. id \in Active  BY <2>1, <2>4, <4>2 DEF Removes, Active
        <4>4. QED  BY <4>2, <4>3 DEF Live
      <3>2. CASE sessions'[id] = sessions[id]
        BY <2>1, <2>2, <2>4, <3>1, <3>2 DEF Removes
      <3>3. CASE sessions'[id] = NoSession
        BY <3>1, <3>3 DEF Live, Active
      <3>4. QED  BY <2>1, <2>4, <3>2, <3>3 DEF Removes
    <2>5. ASSUME NEW i \in Active, Refreshes(i)
          PROVE  ~Live(id)' /\ id \notin accepting'
      <3>1. id # i /\ accepting' = {}  BY <2>5 DEF Refreshes
      <3>2. sessions'[id] = sessions[id]  BY <2>1, <2>5, <3>1 DEF Refreshes, TypeOK
      <3>3. QED  BY <2>1, <2>2, <2>5, <3>1, <3>2 DEF Refreshes
    <2>6. ASSUME NEW user \in Users \cup {NoUser}, NEW agent \in Agents \cup {NoAgent},
                 Creates(user, agent)
          PROVE  ~Live(id)' /\ id \notin accepting'
      <3>1. PICK new \in GeneratedIds :
              \A other \in AllIds \ {new} : sessions'[other] \in {sessions[other], NoSession}
        BY <2>6 DEF Creates
      <3>2. new # id  BY GeneratedIdsAreFresh
      <3>3. sessions'[id] \in {sessions[id], NoSession}  BY <2>1, <3>1, <3>2
      <3>4. accepting' = accepting /\ now' = now  BY <2>6 DEF Creates, callVars
      <3>5. CASE sessions'[id] = sessions[id]
        BY <2>1, <2>2, <3>4, <3>5
      <3>6. CASE sessions'[id] = NoSession
        BY <3>4, <3>6 DEF Live, Active
      <3>7. QED  BY <3>3, <3>5, <3>6
    <2>7. CASE Tick
      BY <2>1, <2>2, <2>7 DEF Tick, callVars
    <2>8. QED  BY <2>3, <2>4, <2>5, <2>6, <2>7, StepKinds
  <1>2. Spec => [][Kept]_sessionVars  BY <1>1, TypeCorrect, PTL DEF Spec
  <1>3. QED  BY <1>2 DEF DeadStaysDead

(* An id keeps its user, its agent and its beginning while it is in use.   *)
THEOREM SessionsAreBound ==
    ASSUME FreshIds
    PROVE  Spec => BoundForLife
  <1> DEFINE Kept == \A id \in Active \cap Active' :
                       /\ sessions'[id].user_id = sessions[id].user_id
                       /\ sessions'[id].user_agent = sessions[id].user_agent
                       /\ sessions'[id].created_at = sessions[id].created_at
  <1>1. TypeOK /\ [Next]_sessionVars => [Kept]_sessionVars
    <2> SUFFICES ASSUME TypeOK, [Next]_sessionVars, NEW id \in Active, id \in Active'
                 PROVE  /\ sessions'[id].user_id = sessions[id].user_id
                        /\ sessions'[id].user_agent = sessions[id].user_agent
                        /\ sessions'[id].created_at = sessions[id].created_at
      OBVIOUS
    <2>1. id \in AllIds /\ id \in issued  BY DEF TypeOK, Active
    <2>2. CASE \E c \in Configs : Configure(c)
      BY <2>2 DEF Configure
    <2>3. CASE Removes
      BY <2>1, <2>3 DEF Removes, Active
    <2>4. ASSUME NEW i \in Active, Refreshes(i)
          PROVE  /\ sessions'[id].user_id = sessions[id].user_id
                 /\ sessions'[id].user_agent = sessions[id].user_agent
                 /\ sessions'[id].created_at = sessions[id].created_at
      <3>1. CASE id = i
        <4>1. sessions[id] \in SessionRecords  BY SessionsAreRecords
        <4>2. sessions'[id] = [sessions[id] EXCEPT !.last_active = now]
          BY <2>1, <2>4, <3>1 DEF Refreshes, TypeOK
        <4>3. QED  BY <4>1, <4>2 DEF SessionRecords
      <3>2. CASE id # i
        <4>1. sessions'[id] = sessions[id]  BY <2>1, <2>4, <3>2 DEF Refreshes, TypeOK
        <4>2. QED  BY <4>1
      <3>3. QED  BY <3>1, <3>2
    <2>5. CASE \E user \in Users \cup {NoUser}, agent \in Agents \cup {NoAgent} :
                 Creates(user, agent)
      <3>1. PICK new \in GeneratedIds :
              \A other \in AllIds \ {new} : sessions'[other] \in {sessions[other], NoSession}
        BY <2>5 DEF Creates
      <3>2. new # id  BY <2>1, GeneratedIdsAreFresh
      <3>3. sessions'[id] = sessions[id]  BY <2>1, <3>1, <3>2 DEF Active
      <3>4. QED  BY <3>3
    <2>6. CASE Tick
      BY <2>6 DEF Tick
    <2>7. QED  BY <2>2, <2>3, <2>4, <2>5, <2>6, StepKinds
  <1>2. Spec => [][Kept]_sessionVars  BY <1>1, TypeCorrect, PTL DEF Spec
  <1>3. QED  BY <1>2 DEF BoundForLife

===============================================================================
