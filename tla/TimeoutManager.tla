---------------------------- MODULE TimeoutManager ----------------------------
(***************************************************************************)
(* Timeouts measured on the steady clock.  Its time is a number of ticks,  *)
(* of which TicksPerMs make a millisecond; durations are whole             *)
(* milliseconds.                                                           *)
(***************************************************************************)
EXTENDS Integers, FiniteSets

CONSTANTS
    TicksPerMs,
    Durations,        \* the durations asked for; one may be zero or below
    DefaultTimeout,   \* the duration the manager is made with
    MaxTimeouts       \* bound of the number of timeouts started

ASSUME TimeoutAssumption ==
    /\ TicksPerMs \in Nat \ {0}
    /\ Durations \subseteq Int /\ DefaultTimeout \in Int
    /\ MaxTimeouts \in Nat

VARIABLES
    now,              \* the steady clock
    next_id,
    default_timeout,
    timeouts          \* the guards the manager has handed out

managerVars == <<next_id, default_timeout, timeouts>>

TimeoutGuards == [id : Nat, start : Nat, timeout : Int]

(* duration_cast cuts to whole milliseconds.                               *)
Elapsed(start, t) == (t - start) \div TicksPerMs

(* TimeoutManager::is_timeout at time t: the deadline itself is over.      *)
ManagerIsTimeout(guard, t) == Elapsed(guard.start, t) >= guard.timeout

ManagerInit ==
    /\ now = 0
    /\ next_id = 0
    /\ default_timeout = DefaultTimeout
    /\ timeouts = {}

(* The caller brings a duration; the default is only kept for it to ask.   *)
StartTimeout(duration) ==
    /\ next_id < MaxTimeouts
    /\ next_id' = next_id + 1
    /\ timeouts' = timeouts \cup {[id |-> next_id, start |-> now, timeout |-> duration]}
    /\ UNCHANGED <<now, default_timeout>>

SetDefaultTimeout(ms) ==
    default_timeout' = ms /\ UNCHANGED <<now, next_id, timeouts>>

ManagerNext ==
    \E d \in Durations \cup {default_timeout} : StartTimeout(d) \/ SetDefaultTimeout(d)

=============================================================================
