-------------------------- MODULE ToolExecutionGuard --------------------------
(***************************************************************************)
(* The guard around the execution of a tool.  Its constructor reads the    *)
(* clock twice: for the TimeoutGuard it holds, and for the start time it   *)
(* measures from.  Each question reads the clock anew.                     *)
(***************************************************************************)
EXTENDS TimeoutManager, JsonBytes

CONSTANT MaxTime   \* bound of the clock

ASSUME GuardAssumption == MaxTime \in Nat

VARIABLES
    guard_state,      \* "none", "constructing" or "made"
    timeout_guard,    \* the member timeout_guard_
    start_time,       \* the member start_time_
    log_result,       \* config_.log_result
    remaining_seen,   \* history: get_remaining_time answered ms at time at
    logged            \* the category log_completion has logged last

guardVars == <<guard_state, timeout_guard, start_time, log_result, remaining_seen, logged>>
executionVars == <<now, next_id, default_timeout, timeouts, guardVars>>

NoAnswer == [at |-> 0, ms |-> -1]
NoTimeoutGuard == [id |-> 0, start |-> 0, timeout |-> 0]
Categories == {"none", "TIMEOUT", "DISPATCH_ERROR", "VALIDATION_ERROR"}

(* Faulty variant: measured from the clock's first reading.                *)
IsTimeoutFromGuard(t) == Elapsed(timeout_guard.start, t) > timeout_guard.timeout

(* is_timeout at time t: the deadline itself is not over.                  *)
IsTimeout(t) == Elapsed(start_time, t) > timeout_guard.timeout

(* Faulty variant: measured from the clock's first reading.                *)
RemainingFromGuard(t) ==
    IF Elapsed(timeout_guard.start, t) >= timeout_guard.timeout THEN 0
    ELSE timeout_guard.timeout - Elapsed(timeout_guard.start, t)

(* get_remaining_time at time t.                                           *)
Remaining(t) ==
    IF Elapsed(start_time, t) >= timeout_guard.timeout THEN 0
    ELSE timeout_guard.timeout - Elapsed(start_time, t)

(* validate_output: the size, then the controls other than \t, \n and \r.  *)
ValidateOutput(output, max_size) ==
    /\ Len(output) <= max_size
    /\ \A i \in DOMAIN output :
         output[i] \notin ({Nul, "^["} \cup Controls) \ {"\t", "\n", "\r"}

-----------------------------------------------------------------------------
GuardInit ==
    /\ ManagerInit
    /\ guard_state = "none"
    /\ timeout_guard = NoTimeoutGuard
    /\ start_time = 0
    /\ log_result = FALSE
    /\ remaining_seen = NoAnswer
    /\ logged = "none"

GuardTypeOK ==
    /\ now \in Nat /\ next_id \in Nat /\ default_timeout \in Int
    /\ timeouts \subseteq TimeoutGuards
    /\ guard_state \in {"none", "constructing", "made"}
    /\ timeout_guard \in TimeoutGuards
    /\ start_time \in Nat
    /\ log_result \in BOOLEAN
    /\ remaining_seen \in [at : Nat, ms : Int]
    /\ logged \in Categories

(* The first reading of the clock; the id of the guard is always zero.     *)
ConstructTimeoutGuard(timeout, logging) ==
    /\ guard_state = "none"
    /\ guard_state' = "constructing"
    /\ timeout_guard' = [id |-> 0, start |-> now, timeout |-> timeout]
    /\ log_result' = logging
    /\ UNCHANGED <<now, managerVars, start_time, remaining_seen, logged>>

ConstructStartTime ==
    /\ guard_state = "constructing"
    /\ guard_state' = "made"
    /\ start_time' = now
    /\ UNCHANGED <<now, managerVars, timeout_guard, log_result, remaining_seen, logged>>

GetRemainingTime ==
    /\ guard_state = "made"
    /\ remaining_seen' = [at |-> now, ms |-> Remaining(now)]
    /\ UNCHANGED <<now, managerVars, guard_state, timeout_guard, start_time, log_result, logged>>

(* The verdict is of the time of the logging, not of the end of the tool.  *)
LogCompletion(success) ==
    /\ guard_state = "made" /\ log_result
    /\ logged' = CASE IsTimeout(now) -> "TIMEOUT"
                   [] ~IsTimeout(now) /\ success -> "DISPATCH_ERROR"
                   [] ~IsTimeout(now) /\ ~success -> "VALIDATION_ERROR"
    /\ UNCHANGED <<now, managerVars, guard_state, timeout_guard, start_time, log_result, remaining_seen>>

Destroy ==
    /\ guard_state = "made"
    /\ guard_state' = "none"
    /\ timeout_guard' = NoTimeoutGuard
    /\ start_time' = 0
    /\ log_result' = FALSE
    /\ remaining_seen' = NoAnswer
    /\ logged' = "none"
    /\ UNCHANGED <<now, managerVars>>

Tick == now < MaxTime /\ now' = now + 1 /\ UNCHANGED <<managerVars, guardVars>>

GuardNext ==
    \/ ManagerNext /\ UNCHANGED guardVars
    \/ \E d \in Durations, logging \in BOOLEAN : ConstructTimeoutGuard(d, logging)
    \/ ConstructStartTime \/ GetRemainingTime \/ Destroy \/ Tick
    \/ \E success \in BOOLEAN : LogCompletion(success)

GuardSpec == GuardInit /\ [][GuardNext]_executionVars

-----------------------------------------------------------------------------
(* A tool that was told how long it may still run finds that kept: before  *)
(* the time it was told has passed it is not logged nor found over, once   *)
(* it has passed nothing remains, and a millisecond later the guard finds  *)
(* it over.  Only in that millisecond, which follows the deadline, does    *)
(* nothing remain although it is not over.                                 *)
RemainingTimeIsKept ==
    LET told == remaining_seen.at + remaining_seen.ms * TicksPerMs
    IN guard_state = "made" /\ remaining_seen # NoAnswer =>
         /\ remaining_seen.ms >= 0
         /\ remaining_seen.ms > 0 /\ now <= told => ~IsTimeout(now) /\ logged # "TIMEOUT"
         /\ now >= told => Remaining(now) = 0
         /\ now >= told + TicksPerMs => IsTimeout(now)

(* The guard and a TimeoutManager agree, but for the boundary.  Once the   *)
(* guard finds the execution over the manager finds the guard's timeout    *)
(* over, and so it is with the manager's timeout of no longer duration     *)
(* that was started before the guard was made; a completion logged as      *)
(* TIMEOUT is over from then on.  In the other direction the manager is    *)
(* early by no more than a millisecond and the two readings of the clock.  *)
VerdictsAgree ==
    guard_state = "made" =>
        /\ IsTimeout(now) => ManagerIsTimeout(timeout_guard, now) /\ Remaining(now) = 0
        /\ logged = "TIMEOUT" => IsTimeout(now)
        /\ \A g \in timeouts :
             IsTimeout(now) /\ g.start <= start_time /\ g.timeout <= timeout_guard.timeout =>
               ManagerIsTimeout(g, now)
        /\ ManagerIsTimeout(timeout_guard, now) =>
             IsTimeout(now + (start_time - timeout_guard.start) + TicksPerMs)

=============================================================================
