---------------------------- MODULE SessionManager ----------------------------
(***************************************************************************)
(* SessionManager: sessions with server-generated ids, an idle timeout, an *)
(* absolute lifetime and an optional binding to the user agent; login      *)
(* replaces the id the client had before.                                  *)
(*                                                                         *)
(* Every operation runs under mutex_, and one that reads the clock at most *)
(* once is one step, at its reading.  validate reads it to see whether the *)
(* session has expired and again to set the idle timer; purge_expired      *)
(* reads it for every session; time passes between the readings, while the *)
(* mutex keeps every other operation out.  configured_ alone is read       *)
(* before the mutex is taken; an operation that finds it unset changes     *)
(* nothing, and one that finds it set finds it set for good, so the early  *)
(* read is the same as a read under the mutex.                             *)
(***************************************************************************)
EXTENDS Integers

CONSTANTS
    Users, Agents,
    NoUser, NoAgent,     \* the empty user id and the empty user agent
    SessionIds,          \* what the random generator can produce
    ZeroId,              \* the id made of zero bytes
    RandomnessMayFail,   \* may the system's random source fail?
    Configs, DefaultConfig,
    NoSession, NoLogin,
    MaxTime              \* bound of the clock

Times == 0 .. MaxTime
AllIds == SessionIds \cup {ZeroId}

ASSUME SessionAssumption ==
    /\ Configs \subseteq [idleTimeout : Nat, absoluteTtl : Nat, bindAgent : BOOLEAN]
    /\ DefaultConfig \in Configs
    /\ NoUser \notin Users
    /\ NoAgent \notin Agents
    /\ ZeroId \notin SessionIds
    /\ RandomnessMayFail \in BOOLEAN
    /\ MaxTime \in Nat

SessionRecords ==
    [user_id : Users \cup {NoUser}, user_agent : Agents \cup {NoAgent},
     created_at : Times, last_active : Times]

ASSUME NoSessionAssumption == NoSession \notin SessionRecords

VARIABLES
    config, configured,
    sessions,     \* id -> session, or NoSession
    now,          \* steady_clock
    accepting,    \* the session that validate found good and has still to refresh
    unpurged,     \* the sessions that purge_expired has still to look at
    issued,       \* history: the ids given out so far
    last_login    \* history: the ids before and after the last login

callVars == <<accepting, unpurged>>
sessionVars == <<config, configured, sessions, now, callVars, issued, last_login>>

(* The mutex is held across steps only by a validate between its two       *)
(* readings and by a purge_expired on its way through the table.           *)
MutexFree == accepting = {} /\ unpurged = {}

Active == {id \in AllIds : sessions[id] # NoSession}

TypeOK ==
    /\ config \in Configs
    /\ configured \in BOOLEAN
    /\ sessions \in [AllIds -> SessionRecords \cup {NoSession}]
    /\ now \in Times
    /\ issued \subseteq AllIds
    /\ Active \subseteq issued
    /\ \A id \in Active :
         sessions[id].created_at <= sessions[id].last_active /\ sessions[id].last_active <= now
    /\ accepting = {} \/ unpurged = {}
    /\ accepting \subseteq Active
    /\ unpurged \subseteq Active
    /\ last_login \in [old : AllIds, new : AllIds, known : BOOLEAN] \cup {NoLogin}

Init ==
    /\ config = DefaultConfig
    /\ configured = FALSE
    /\ sessions = [id \in AllIds |-> NoSession]
    /\ now = 0
    /\ accepting = {}
    /\ unpurged = {}
    /\ issued = {}
    /\ last_login = NoLogin

Expired(s) ==
    \/ now - s.last_active > config.idleTimeout
    \/ now - s.created_at > config.absoluteTtl

(* generate_id: 256 random bits never repeat; when no random source works  *)
(* the bytes are all zero.                                                 *)
GeneratedIds ==
    (SessionIds \ issued) \cup (IF RandomnessMayFail THEN {ZeroId} ELSE {})

(* Faulty variant: the deadline is stored in place of the time of use.     *)
NewSessionDeadline(user, agent) ==
    [user_id |-> user, user_agent |-> agent,
     created_at |-> now, last_active |-> now + config.idleTimeout]

NewSession(user, agent) ==
    [user_id |-> user, user_agent |-> agent, created_at |-> now, last_active |-> now]

Configure(c) ==
    /\ MutexFree
    /\ config' = c
    /\ configured' = TRUE
    /\ UNCHANGED <<sessions, now, callVars, issued, last_login>>

CreateAnonymous ==
    /\ MutexFree
    /\ configured
    /\ \E id \in GeneratedIds :
         /\ sessions' = [sessions EXCEPT ![id] = NewSession(NoUser, NoAgent)]
         /\ issued' = issued \cup {id}
    /\ UNCHANGED <<config, configured, now, callVars, last_login>>

(* Faulty variant: the old session is only given its user.                 *)
LoginInPlace(old, user, agent) ==
    /\ MutexFree
    /\ configured
    /\ old \in Active
    /\ sessions' = [sessions EXCEPT ![old] = NewSession(user, agent)]
    /\ last_login' = [old |-> old, new |-> old, known |-> TRUE]
    /\ UNCHANGED <<config, configured, now, callVars, issued>>

(* Faulty variant: the new session is made, the old one left alone.        *)
LoginBeside(old, user, agent) ==
    /\ MutexFree
    /\ configured
    /\ \E id \in GeneratedIds :
         /\ sessions' = [sessions EXCEPT ![id] = NewSession(user, agent)]
         /\ issued' = issued \cup {id}
         /\ last_login' = [old |-> old, new |-> id, known |-> old \in issued]
    /\ UNCHANGED <<config, configured, now, callVars>>

(* login; the old id is whatever the client sends, and whether it names a  *)
(* session is not looked at.                                               *)
Login(old, user, agent) ==
    /\ MutexFree
    /\ configured
    /\ \E id \in GeneratedIds :
         /\ sessions' = [sessions EXCEPT ![old] = NoSession, ![id] = NewSession(user, agent)]
         /\ issued' = issued \cup {id}
         /\ last_login' = [old |-> old, new |-> id, known |-> old \in issued]
    /\ UNCHANGED <<config, configured, now, callVars>>

Erase(id) == sessions' = [sessions EXCEPT ![id] = NoSession]

Mismatch(s, agent) ==
    config.bindAgent /\ s.user_agent # NoAgent /\ s.user_agent # agent

(* Faulty variant: the idle timer is set before the age is looked at.      *)
RefusedAfterRefresh(s, agent) ==
    now - s.created_at > config.absoluteTtl \/ Mismatch(s, agent)

Refused(s, agent) == Expired(s) \/ Mismatch(s, agent)

(* validate of an id that is in the table: refusing it erases the session. *)
Validate(id, agent) ==
    /\ MutexFree
    /\ configured
    /\ id \in Active
    /\ IF Refused(sessions[id], agent)
       THEN Erase(id) /\ UNCHANGED accepting
       ELSE accepting' = {id} /\ UNCHANGED sessions
    /\ UNCHANGED <<config, configured, now, unpurged, issued, last_login>>

(* Accepting it sets the idle timer, by a later reading of the clock.      *)
Refresh(id) ==
    /\ id \in accepting
    /\ sessions' = [sessions EXCEPT ![id].last_active = now]
    /\ accepting' = {}
    /\ UNCHANGED <<config, configured, now, unpurged, issued, last_login>>

Logout(id) ==
    /\ MutexFree
    /\ Erase(id)
    /\ UNCHANGED <<config, configured, now, callVars, issued, last_login>>

PurgeExpired ==
    /\ MutexFree
    /\ unpurged' = Active
    /\ UNCHANGED <<config, configured, sessions, now, accepting, issued, last_login>>

(* purge_expired looks at one more session.                                *)
PurgeNext(id) ==
    /\ id \in unpurged
    /\ IF Expired(sessions[id]) THEN Erase(id) ELSE UNCHANGED sessions
    /\ unpurged' = unpurged \ {id}
    /\ UNCHANGED <<config, configured, now, accepting, issued, last_login>>

Tick ==
    /\ now < MaxTime
    /\ now' = now + 1
    /\ UNCHANGED <<config, configured, sessions, callVars, issued, last_login>>

Next ==
    \/ \E c \in Configs : Configure(c)
    \/ CreateAnonymous
    \/ \E old \in AllIds, user \in Users, agent \in Agents \cup {NoAgent} :
         Login(old, user, agent)
    \/ \E id \in AllIds, agent \in Agents \cup {NoAgent} : Validate(id, agent)
    \/ \E id \in AllIds : Refresh(id) \/ Logout(id) \/ PurgeNext(id)
    \/ PurgeExpired \/ Tick

Spec == Init /\ [][Next]_sessionVars

-------------------------------------------------------------------------------
(* A session the manager would accept.                                     *)
Live(id) == id \in Active /\ ~Expired(sessions[id])

(* A session that has expired, was logged out, purged or replaced by login *)
(* is never accepted again under the same configuration: no validate finds *)
(* it good and no id comes back.  The one session that comes back to life  *)
(* is one whose time runs out while the validate that found it good is     *)
(* about to set its timer.                                                 *)
DeadStaysDead ==
    [][\A id \in issued : ~Live(id) /\ config' = config =>
         /\ Live(id)' => id \in accepting
         /\ id \in accepting' => id \in accepting]_sessionVars

(* For as long as an id is in the table it names the same user, the same   *)
(* agent and the same beginning: login never turns an id that a client     *)
(* knows into a session of somebody else.                                  *)
BoundForLife ==
    [][\A id \in Active \cap Active' :
         /\ sessions'[id].user_id = sessions[id].user_id
         /\ sessions'[id].user_agent = sessions[id].user_agent
         /\ sessions'[id].created_at = sessions[id].created_at]_sessionVars

(* "New ID must differ from the pre-auth ID": when the client logs in with *)
(* an id the manager gave out, that id is of no use afterwards.  (An id    *)
(* that the client made up says nothing about the one it is given.)        *)
LoginRotates ==
    last_login # NoLogin /\ last_login.known =>
        /\ last_login.new # last_login.old
        /\ last_login.old \notin Active

===============================================================================
