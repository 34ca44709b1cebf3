-------------------------- MODULE ToolCallParts_proofs --------------------------
(***************************************************************************)
(* What the parts around the call of a tool do for every text and every    *)
(* value of the constants: the time a tool has, the metrics, the rules for *)
(* arguments and the quoting for a shell, the paths, and the responses.    *)
(* The recursive functions are reasoned about with the lemmas on induction *)
(* over a measure that JsonMessages_proofs holds.                          *)
(***************************************************************************)
EXTENDS ToolCallParts, JsonMessages_proofs

-----------------------------------------------------------------------------
(* The time a tool has.                                                    *)
(* The answer remembered is the one of its time, a verdict logged holds    *)
(* still, and nothing is left over from an earlier guard.                  *)
GuardInv ==
    /\ GuardTypeOK
    /\ guard_state # "none" => timeout_guard.start <= now
    /\ guard_state # "made" => remaining_seen = NoAnswer /\ logged = "none"
    /\ guard_state = "made" =>
         /\ timeout_guard.start <= start_time /\ start_time <= now
         /\ remaining_seen # NoAnswer =>
              /\ start_time <= remaining_seen.at /\ remaining_seen.at <= now
              /\ remaining_seen.ms = Remaining(remaining_seen.at)
         /\ logged = "TIMEOUT" => IsTimeout(now)

-----------------------------------------------------------------------------
(* Division into whole milliseconds, as an inequality between ticks.       *)
LEMMA ProductGrows ==
    ASSUME NEW m \in Int, NEW n \in Int, NEW k \in Nat, m <= n
    PROVE  m * k \in Int /\ n * k \in Int /\ m * k <= n * k
  OBVIOUS

LEMMA DivisionBounds ==
    ASSUME NEW x \in Int, NEW k \in Nat \ {0}
    PROVE  /\ x \div k \in Int
           /\ (x \div k) * k <= x
           /\ x < ((x \div k) + 1) * k
  OBVIOUS

LEMMA ElapsedReaches ==
    ASSUME NEW start \in Int, NEW t \in Int, NEW n \in Int
    PROVE  /\ Elapsed(start, t) \in Int
           /\ Elapsed(start, t) >= n <=> t - start >= n * TicksPerMs
  <1> DEFINE q == (t - start) \div TicksPerMs
  <1>1. TicksPerMs \in Nat \ {0}
    BY TimeoutAssumption
  <1>2. /\ q \in Int
        /\ q * TicksPerMs <= t - start
        /\ t - start < (q + 1) * TicksPerMs
    BY <1>1, DivisionBounds, t - start \in Int
  <1>3. Elapsed(start, t) = q
    BY DEF Elapsed
  <1> HIDE DEF q
  <1>4. ASSUME q >= n PROVE t - start >= n * TicksPerMs
    <2>1. n * TicksPerMs <= q * TicksPerMs /\ n * TicksPerMs \in Int /\ q * TicksPerMs \in Int
      BY <1>1, <1>2, <1>4, ProductGrows
    <2>2. QED
      BY <1>2, <2>1
  <1>5. ASSUME ~(q >= n) PROVE ~(t - start >= n * TicksPerMs)
    <2>1. q + 1 \in Int /\ q + 1 <= n
      BY <1>2, <1>5
    <2>2. (q + 1) * TicksPerMs <= n * TicksPerMs /\ n * TicksPerMs \in Int /\ (q + 1) * TicksPerMs \in Int
      BY <1>1, <2>1, ProductGrows
    <2>3. QED
      BY <1>2, <2>2
  <1>6. QED
    BY <1>2, <1>3, <1>4, <1>5

(* The deadline of the guard, in ticks from its start.                     *)
LEMMA GuardsDeadline ==
    ASSUME GuardTypeOK, NEW t \in Int
    PROVE  /\ IsTimeout(t) <=> t - start_time >= (timeout_guard.timeout + 1) * TicksPerMs
           /\ Remaining(t) \in Nat
           /\ Remaining(t) = 0 <=> t - start_time >= timeout_guard.timeout * TicksPerMs
           /\ Remaining(t) # 0 => Elapsed(start_time, t) = timeout_guard.timeout - Remaining(t)
  <1> DEFINE T == timeout_guard.timeout
  <1>1. T \in Int /\ T + 1 \in Int /\ start_time \in Int
    BY DEF GuardTypeOK, TimeoutGuards
  <1>2. /\ Elapsed(start_time, t) \in Int
        /\ Elapsed(start_time, t) >= T <=> t - start_time >= T * TicksPerMs
        /\ Elapsed(start_time, t) >= T + 1 <=> t - start_time >= (T + 1) * TicksPerMs
    BY <1>1, ElapsedReaches
  <1>3. Elapsed(start_time, t) > T <=> Elapsed(start_time, t) >= T + 1
    BY <1>1, <1>2
  <1>4. QED
    BY <1>1, <1>2, <1>3 DEF IsTimeout, Remaining

LEMMA OverStaysOver ==
    ASSUME GuardTypeOK, NEW t \in Int, now <= t, IsTimeout(now) PROVE IsTimeout(t)
  <1>1. now \in Int
    BY DEF GuardTypeOK
  <1>2. IsTimeout(now) <=> now - start_time >= (timeout_guard.timeout + 1) * TicksPerMs
    BY <1>1, GuardsDeadline
  <1>3. IsTimeout(t) <=> t - start_time >= (timeout_guard.timeout + 1) * TicksPerMs
    BY <1>1, GuardsDeadline
  <1>4. (timeout_guard.timeout + 1) * TicksPerMs \in Int /\ start_time \in Int
    BY TimeoutAssumption DEF GuardTypeOK, TimeoutGuards
  <1>5. QED
    BY <1>1, <1>2, <1>3, <1>4

-----------------------------------------------------------------------------
LEMMA NothingsAreTyped ==
    NoAnswer \in [at : Nat, ms : Int] /\ NoTimeoutGuard \in TimeoutGuards
  <1>1. 0 \in Nat /\ 0 \in Int /\ -1 \in Int
    OBVIOUS
  <1>2. QED
    BY <1>1 DEF NoAnswer, NoTimeoutGuard, TimeoutGuards

LEMMA InitHolds == GuardInit => GuardInv
  <1> SUFFICES ASSUME GuardInit PROVE GuardInv
    OBVIOUS
  <1>1. GuardTypeOK
    BY NothingsAreTyped, TimeoutAssumption DEF GuardInit, ManagerInit, GuardTypeOK, Categories
  <1>2. QED
    BY <1>1 DEF GuardInit, GuardInv

LEMMA StepKeepsInvariant == GuardInv /\ [GuardNext]_executionVars => GuardInv'
  <1> SUFFICES ASSUME GuardInv, [GuardNext]_executionVars PROVE GuardInv'
    OBVIOUS
  <1> USE DEF GuardInv
  <1>t. GuardTypeOK
    OBVIOUS
  <1>1. CASE ManagerNext /\ UNCHANGED guardVars
    <2>1. GuardTypeOK'
      BY <1>1, TimeoutAssumption
      DEF ManagerNext, StartTimeout, SetDefaultTimeout, guardVars, GuardTypeOK, TimeoutGuards
    <2>2. now' = now /\ UNCHANGED guardVars
      BY <1>1 DEF ManagerNext, StartTimeout, SetDefaultTimeout
    <2>3. QED
      BY <2>1, <2>2 DEF guardVars, Remaining, IsTimeout
  <1>2. ASSUME NEW d \in Durations, NEW logging \in BOOLEAN, ConstructTimeoutGuard(d, logging)
        PROVE GuardInv'
    BY <1>2, TimeoutAssumption
    DEF ConstructTimeoutGuard, managerVars, GuardTypeOK, TimeoutGuards
  <1>3. CASE ConstructStartTime
    BY <1>3 DEF ConstructStartTime, managerVars, GuardTypeOK, TimeoutGuards
  <1>4. CASE GetRemainingTime
    <2>1. now \in Int /\ Remaining(now) \in Nat
      BY <1>t, GuardsDeadline DEF GuardTypeOK
    <2>2. GuardTypeOK'
      BY <1>4, <2>1 DEF GetRemainingTime, managerVars, GuardTypeOK, TimeoutGuards
    <2>3. QED
      BY <1>4, <2>2 DEF GetRemainingTime, managerVars, Remaining, IsTimeout, GuardTypeOK
  <1>5. ASSUME NEW success \in BOOLEAN, LogCompletion(success) PROVE GuardInv'
    <2>1. logged' \in Categories /\ (logged' = "TIMEOUT" => IsTimeout(now))
      BY <1>5 DEF LogCompletion, Categories
    <2>2. GuardTypeOK'
      BY <1>5, <2>1 DEF LogCompletion, managerVars, GuardTypeOK, TimeoutGuards
    <2>3. QED
      BY <1>5, <2>1, <2>2 DEF LogCompletion, managerVars, Remaining, IsTimeout
  <1>6. CASE Destroy
    <2>1. GuardTypeOK'
      BY <1>6, NothingsAreTyped DEF Destroy, managerVars, GuardTypeOK, Categories
    <2>2. QED
      BY <1>6, <2>1 DEF Destroy
  <1>7. CASE Tick
    <2>1. GuardTypeOK'
      BY <1>7 DEF Tick, managerVars, guardVars, GuardTypeOK, TimeoutGuards
    <2>2. now \in Nat /\ now' = now + 1 /\ UNCHANGED guardVars
      BY <1>7 DEF Tick, GuardTypeOK
    <2>3. IsTimeout(now) => IsTimeout(now')
      <3>1. now' \in Int /\ now <= now'
        BY <2>2
      <3>2. QED
        BY <1>t, <3>1, OverStaysOver
    <2>4. logged' = "TIMEOUT" /\ guard_state' = "made" => IsTimeout(now)'
      BY <2>2, <2>3 DEF guardVars, IsTimeout
    <2>5. guard_state' = "made" /\ remaining_seen' # NoAnswer =>
            /\ start_time' <= remaining_seen'.at /\ remaining_seen'.at <= now'
            /\ remaining_seen'.ms = Remaining(remaining_seen.at)'
      BY <2>2 DEF guardVars, Remaining, GuardTypeOK
    <2>6. /\ guard_state' # "none" => timeout_guard'.start <= now'
          /\ guard_state' = "made" => timeout_guard'.start <= start_time' /\ start_time' <= now'
      BY <2>2 DEF guardVars, GuardTypeOK, TimeoutGuards
    <2>7. guard_state' # "made" => remaining_seen' = NoAnswer /\ logged' = "none"
      BY <2>2 DEF guardVars
    <2>8. QED
      BY <2>1, <2>4, <2>5, <2>6, <2>7 DEF GuardInv
  <1>8. CASE UNCHANGED executionVars
    BY <1>8 DEF executionVars, guardVars, GuardTypeOK, IsTimeout, Remaining
  <1>9. QED
    BY <1>1, <1>2, <1>3, <1>4, <1>5, <1>6, <1>7, <1>8 DEF GuardNext

(* The inductive invariant behind the results below.                       *)
THEOREM GuardInvariantHolds == GuardSpec => []GuardInv
  BY InitHolds, StepKeepsInvariant, PTL DEF GuardSpec

(* The guard and the timeouts keep their types.                            *)
THEOREM GuardTypeCorrect == GuardSpec => []GuardTypeOK
  <1>1. GuardInv => GuardTypeOK
    BY DEF GuardInv
  <1>2. QED
    BY <1>1, GuardInvariantHolds, PTL

-----------------------------------------------------------------------------
LEMMA InvariantKeepsRemainingTime == GuardInv => RemainingTimeIsKept
  <1> SUFFICES ASSUME GuardInv, guard_state = "made", remaining_seen # NoAnswer
               PROVE  LET told == remaining_seen.at + remaining_seen.ms * TicksPerMs
                      IN /\ remaining_seen.ms >= 0
                         /\ remaining_seen.ms > 0 /\ now <= told => ~IsTimeout(now) /\ logged # "TIMEOUT"
                         /\ now >= told => Remaining(now) = 0
                         /\ now >= told + TicksPerMs => IsTimeout(now)
    BY DEF RemainingTimeIsKept
  <1> DEFINE T == timeout_guard.timeout
             a == remaining_seen.at
             ms == remaining_seen.ms
             k == TicksPerMs
  <1>1. GuardTypeOK /\ now \in Int /\ a \in Int /\ ms = Remaining(a)
    BY DEF GuardInv, GuardTypeOK
  <1>2. T \in Int /\ start_time \in Int /\ k \in Nat \ {0}
    BY TimeoutAssumption DEF GuardInv, GuardTypeOK, TimeoutGuards
  <1>3. /\ ms \in Nat
        /\ ms = 0 <=> a - start_time >= T * k
        /\ ms # 0 => Elapsed(start_time, a) = T - ms
    BY <1>1, GuardsDeadline
  <1>4. /\ IsTimeout(now) <=> now - start_time >= (T + 1) * k
        /\ Remaining(now) = 0 <=> now - start_time >= T * k
    BY <1>1, GuardsDeadline
  <1>5. logged = "TIMEOUT" => IsTimeout(now)
    BY DEF GuardInv
  <1>6. ms # 0 => /\ a - start_time >= (T - ms) * k
                  /\ ~(a - start_time >= (T - ms + 1) * k)
    <2>1. T - ms \in Int /\ T - ms + 1 \in Int
      BY <1>2, <1>3
    <2>2. /\ Elapsed(start_time, a) \in Int
          /\ Elapsed(start_time, a) >= T - ms <=> a - start_time >= (T - ms) * k
          /\ Elapsed(start_time, a) >= T - ms + 1 <=> a - start_time >= (T - ms + 1) * k
      BY <1>1, <1>2, <2>1, ElapsedReaches
    <2>3. QED
      BY <1>3, <2>1, <2>2
  <1>7. /\ (T + 1) * k = T * k + k
        /\ (T - ms) * k = T * k - ms * k
        /\ (T - ms + 1) * k = T * k - ms * k + k
        /\ T * k \in Int /\ ms * k \in Int
        /\ ms = 0 => ms * k = 0
    BY <1>2, <1>3
  <1> DEFINE Tk == T * k
             mk == ms * k
  <1>10. /\ Tk \in Int /\ mk \in Int /\ (ms = 0 => mk = 0)
         /\ ms = 0 => a - start_time >= Tk
         /\ ms # 0 => a - start_time >= Tk - mk /\ ~(a - start_time >= Tk - mk + k)
         /\ IsTimeout(now) <=> now - start_time >= Tk + k
         /\ Remaining(now) = 0 <=> now - start_time >= Tk
    BY <1>3, <1>4, <1>6, <1>7
  <1> HIDE DEF T, a, ms, k, Tk, mk
  <1>8. /\ ms >= 0
        /\ ms > 0 /\ now <= a + mk => ~IsTimeout(now) /\ logged # "TIMEOUT"
        /\ now >= a + mk => Remaining(now) = 0
        /\ now >= a + mk + k => IsTimeout(now)
    <2>1. now \in Int /\ a \in Int /\ start_time \in Int /\ k \in Nat /\ ms \in Nat /\ mk \in Int /\ Tk \in Int
      BY <1>1, <1>2, <1>3, <1>10
    <2>2. ms > 0 /\ now <= a + mk => ~IsTimeout(now)
      BY <2>1, <1>10
    <2>3. now >= a + mk => Remaining(now) = 0
      BY <2>1, <1>10
    <2>4. now >= a + mk + k => IsTimeout(now)
      BY <2>1, <1>10
    <2>5. QED
      BY <2>1, <2>2, <2>3, <2>4, <1>5
  <1>9. QED
    BY <1>8 DEF T, a, ms, k, mk

(* A tool that was told how long it may still run finds that kept.         *)
THEOREM RemainingTimesAreKept == GuardSpec => []RemainingTimeIsKept
  BY GuardInvariantHolds, InvariantKeepsRemainingTime, PTL

LEMMA InvariantMakesVerdictsAgree == GuardInv => VerdictsAgree
  <1> SUFFICES ASSUME GuardInv, guard_state = "made"
               PROVE  /\ IsTimeout(now) => ManagerIsTimeout(timeout_guard, now) /\ Remaining(now) = 0
                      /\ logged = "TIMEOUT" => IsTimeout(now)
                      /\ \A g \in timeouts :
                           IsTimeout(now) /\ g.start <= start_time /\ g.timeout <= timeout_guard.timeout =>
                             ManagerIsTimeout(g, now)
                      /\ ManagerIsTimeout(timeout_guard, now) =>
                           IsTimeout(now + (start_time - timeout_guard.start) + TicksPerMs)
    BY DEF VerdictsAgree
  <1> DEFINE T == timeout_guard.timeout
  <1>1. GuardTypeOK /\ now \in Int
    BY DEF GuardInv, GuardTypeOK
  <1>2. /\ T \in Int /\ start_time \in Int /\ TicksPerMs \in Nat \ {0}
        /\ timeout_guard.start \in Int /\ timeout_guard.start <= start_time
    BY TimeoutAssumption DEF GuardInv, GuardTypeOK, TimeoutGuards
  <1>3. (T + 1) * TicksPerMs = T * TicksPerMs + TicksPerMs /\ T * TicksPerMs \in Int
    BY <1>2
  <1>4. /\ IsTimeout(now) <=> now - start_time >= (T + 1) * TicksPerMs
        /\ Remaining(now) = 0 <=> now - start_time >= T * TicksPerMs
    BY <1>1, GuardsDeadline
  <1>5. ASSUME NEW g \in TimeoutGuards
        PROVE  ManagerIsTimeout(g, now) <=> now - g.start >= g.timeout * TicksPerMs
    <2>1. g.start \in Int /\ g.timeout \in Int
      BY DEF TimeoutGuards
    <2>2. Elapsed(g.start, now) >= g.timeout <=> now - g.start >= g.timeout * TicksPerMs
      BY <1>1, <2>1, ElapsedReaches
    <2>3. QED
      BY <2>2 DEF ManagerIsTimeout
  <1>6. ManagerIsTimeout(timeout_guard, now) <=> now - timeout_guard.start >= T * TicksPerMs
    BY <1>1, <1>5 DEF GuardTypeOK
  <1> HIDE DEF T
  <1>7. IsTimeout(now) => ManagerIsTimeout(timeout_guard, now) /\ Remaining(now) = 0
    BY <1>1, <1>2, <1>3, <1>4, <1>6
  <1>8. ASSUME NEW g \in timeouts, IsTimeout(now), g.start <= start_time, g.timeout <= T
        PROVE  ManagerIsTimeout(g, now)
    <2>1. g \in TimeoutGuards /\ g.start \in Int /\ g.timeout \in Int
      BY <1>1 DEF GuardTypeOK, TimeoutGuards
    <2>2. g.timeout * TicksPerMs <= T * TicksPerMs /\ g.timeout * TicksPerMs \in Int
      BY <1>2, <1>8, <2>1, ProductGrows
    <2>3. now - g.start >= g.timeout * TicksPerMs
      BY <1>1, <1>2, <1>3, <1>4, <1>8, <2>1, <2>2
    <2>4. QED
      BY <1>5, <2>1, <2>3
  <1>9. ASSUME ManagerIsTimeout(timeout_guard, now)
        PROVE  IsTimeout(now + (start_time - timeout_guard.start) + TicksPerMs)
    <2> DEFINE later == now + (start_time - timeout_guard.start) + TicksPerMs
    <2>1. later \in Int
      BY <1>1, <1>2
    <2>2. IsTimeout(later) <=> later - start_time >= (T + 1) * TicksPerMs
      BY <1>1, <2>1, GuardsDeadline DEF T
    <2>3. later - start_time >= (T + 1) * TicksPerMs
      BY <1>1, <1>2, <1>3, <1>6, <1>9
    <2>4. QED
      BY <2>2, <2>3
  <1>10. logged = "TIMEOUT" => IsTimeout(now)
    BY DEF GuardInv
  <1>11. QED
    BY <1>7, <1>8, <1>9, <1>10 DEF T

(* Guard and manager agree on what is over, but for the boundary.          *)
THEOREM VerdictsAlwaysAgree == GuardSpec => []VerdictsAgree
  BY GuardInvariantHolds, InvariantMakesVerdictsAgree, PTL

-----------------------------------------------------------------------------
(* The metrics of the tools.                                               *)
(* One thread at most is in a call, with the mutex, and what it found of   *)
(* its entry is still so; the entries are what was promised.               *)
MonitorInv ==
    /\ MonitorTypeOK
    /\ \A t \in MonitoredTools : GetMetrics(t) = promised[t]
    /\ \A p \in Recorders :
         recording[p].call # NoCall =>
           /\ lock = p
           /\ recording[p].found = metrics[recording[p].call.tool].made

-----------------------------------------------------------------------------
LEMMA RecordCallsHaveTools ==
    ASSUME NEW c \in RecordCalls
    PROVE  c # NoCall /\ c.tool \in MonitoredTools
  BY DEF RecordCalls, NoCall

LEMMA EntriesAreTyped ==
    /\ NoEntry \in ResourceMetrics /\ ~NoEntry.made
    /\ NewEntry \in ResourceMetrics /\ NewEntry.made
  BY DEF NoEntry, NewEntry, ResourceMetrics

LEMMA RecordedIsTyped ==
    ASSUME NEW m \in ResourceMetrics, NEW c \in RecordCalls
    PROVE  Recorded(m, c) \in ResourceMetrics /\ Recorded(m, c).made = m.made
  <1>1. CASE c.kind = "request"
    BY <1>1 DEF Recorded, ResourceMetrics
  <1>2. CASE c.kind = "rejection"
    BY <1>2 DEF Recorded, ResourceMetrics
  <1>3. CASE c.kind = "cpu"
    <2>1. c.amount \in Nat
      BY <1>3, MonitorAssumption DEF RecordCalls
    <2>2. QED
      BY <1>3, <2>1 DEF Recorded, ResourceMetrics
  <1>4. CASE c.kind = "memory"
    <2>1. c.amount \in Nat
      BY <1>4, MonitorAssumption DEF RecordCalls
    <2>2. QED
      BY <1>4, <2>1 DEF Recorded, ResourceMetrics
  <1>5. c.kind \in {"request", "rejection", "cpu", "memory"}
    BY DEF RecordCalls
  <1>6. QED
    BY <1>1, <1>2, <1>3, <1>4, <1>5

-----------------------------------------------------------------------------
LEMMA MonitorInitHolds == MonitorInit => MonitorInv
  <1> SUFFICES ASSUME MonitorInit PROVE MonitorInv
    OBVIOUS
  <1>1. MonitorTypeOK
    BY EntriesAreTyped DEF MonitorInit, MonitorTypeOK
  <1>2. \A t \in MonitoredTools : GetMetrics(t) = promised[t]
    BY EntriesAreTyped DEF MonitorInit, GetMetrics
  <1>3. \A p \in Recorders : recording[p].call = NoCall
    BY DEF MonitorInit
  <1>4. QED
    BY <1>1, <1>2, <1>3 DEF MonitorInv

LEMMA MonitorStep == MonitorInv /\ [MonitorNext]_monitorVars => MonitorInv'
  <1> SUFFICES ASSUME MonitorInv, [MonitorNext]_monitorVars PROVE MonitorInv'
    OBVIOUS
  <1>t. /\ MonitorTypeOK
        /\ \A t \in MonitoredTools : GetMetrics(t) = promised[t]
        /\ \A p \in Recorders :
             recording[p].call # NoCall =>
               /\ lock = p
               /\ recording[p].found = metrics[recording[p].call.tool].made
    BY DEF MonitorInv
  <1>1. ASSUME NEW p \in Recorders, NEW c \in RecordCalls, BeginRecord(p, c) PROVE MonitorInv'
    <2>1. lock = NoThread /\ lock' = p /\ UNCHANGED <<metrics, promised>>
      BY <1>1 DEF BeginRecord, MutexFree
    <2>2. c.tool \in MonitoredTools /\ c # NoCall
      BY RecordCallsHaveTools
    <2>3. metrics[c.tool].made \in BOOLEAN
      BY <1>t, <2>2 DEF MonitorTypeOK, ResourceMetrics
    <2>4. recording' = [recording EXCEPT ![p] = [call |-> c, found |-> metrics[c.tool].made]]
      BY <1>1 DEF BeginRecord
    <2>5. MonitorTypeOK'
      <3>1. recording' \in [Recorders -> [call : RecordCalls \cup {NoCall}, found : BOOLEAN]]
        BY <1>t, <2>3, <2>4 DEF MonitorTypeOK
      <3>2. records' \in Nat
        BY <1>1, <1>t DEF BeginRecord, MonitorTypeOK
      <3>3. QED
        BY <1>t, <2>1, <3>1, <3>2 DEF MonitorTypeOK
    <2>6. (\A t \in MonitoredTools : GetMetrics(t) = promised[t])'
      BY <1>t, <2>1 DEF GetMetrics
    <2>7. ASSUME NEW q \in Recorders, recording'[q].call # NoCall
          PROVE  lock' = q /\ recording'[q].found = metrics'[recording'[q].call.tool].made
      <3>1. p # NoThread /\ q # NoThread
        BY MonitorAssumption
      <3>2. q = p
        BY <1>t, <2>1, <2>4, <2>7, <3>1 DEF MonitorTypeOK
      <3>3. recording'[p] = [call |-> c, found |-> metrics[c.tool].made]
        BY <1>t, <2>4 DEF MonitorTypeOK
      <3>4. QED
        BY <2>1, <3>2, <3>3
    <2>8. QED
      BY <2>5, <2>6, <2>7 DEF MonitorInv
  <1>2. ASSUME NEW p \in Recorders, EndRecord(p) PROVE MonitorInv'
    <2> DEFINE c == recording[p].call
               entry == IF recording[p].found THEN metrics[c.tool] ELSE NewEntry
    <2>1. /\ c # NoCall
          /\ metrics' = [metrics EXCEPT ![c.tool] = Recorded(entry, c)]
          /\ promised' = [promised EXCEPT ![c.tool] = Recorded(promised[c.tool], c)]
          /\ recording' = [recording EXCEPT ![p] = [call |-> NoCall, found |-> FALSE]]
          /\ lock' = NoThread /\ records' = records
      BY <1>2 DEF EndRecord
    <2>2. c \in RecordCalls
      BY <1>t, <2>1 DEF MonitorTypeOK
    <2>3. c.tool \in MonitoredTools
      BY <2>2, RecordCallsHaveTools
    <2>4. lock = p /\ recording[p].found = metrics[c.tool].made
      BY <1>t, <2>1
    <2>5. entry = GetMetrics(c.tool)
      BY <2>4 DEF GetMetrics
    <2>6. entry = promised[c.tool]
      BY <1>t, <2>3, <2>5
    <2>7. entry \in ResourceMetrics /\ entry.made
      BY <1>t, <2>3, <2>4, EntriesAreTyped DEF MonitorTypeOK
    <2>8. Recorded(entry, c) \in ResourceMetrics /\ Recorded(entry, c).made
      BY <2>2, <2>7, RecordedIsTyped
    <2> HIDE DEF c, entry
    <2>9. MonitorTypeOK'
      <3>1. /\ metrics' \in [MonitoredTools -> ResourceMetrics]
            /\ promised' \in [MonitoredTools -> ResourceMetrics]
        BY <1>t, <2>1, <2>3, <2>6, <2>8 DEF MonitorTypeOK
      <3>2. recording' \in [Recorders -> [call : RecordCalls \cup {NoCall}, found : BOOLEAN]]
        BY <1>t, <2>1 DEF MonitorTypeOK
      <3>3. QED
        BY <1>t, <2>1, <3>1, <3>2 DEF MonitorTypeOK
    <2>10. ASSUME NEW t \in MonitoredTools
           PROVE  GetMetrics(t)' = promised'[t]
      <3>1. CASE t = c.tool
        <4>1. metrics'[t] = Recorded(entry, c) /\ promised'[t] = Recorded(entry, c)
          BY <1>t, <2>1, <2>3, <2>6, <3>1 DEF MonitorTypeOK
        <4>2. QED
          BY <2>8, <4>1 DEF GetMetrics
      <3>2. CASE t # c.tool
        <4>1. metrics'[t] = metrics[t] /\ promised'[t] = promised[t]
          BY <1>t, <2>1, <2>3, <3>2 DEF MonitorTypeOK
        <4>2. QED
          BY <1>t, <4>1 DEF GetMetrics
      <3>3. QED
        BY <3>1, <3>2
    <2>11. ASSUME NEW q \in Recorders PROVE recording'[q].call = NoCall
      <3>1. CASE q = p
        BY <1>t, <2>1, <3>1 DEF MonitorTypeOK
      <3>2. CASE q # p
        BY <1>t, <2>1, <2>4, <3>2 DEF MonitorTypeOK
      <3>3. QED
        BY <3>1, <3>2
    <2>12. QED
      BY <2>9, <2>10, <2>11 DEF MonitorInv
  <1>3. ASSUME lock = NoThread, UNCHANGED <<lock, recording, records>>,
               metrics' \in [MonitoredTools -> ResourceMetrics],
               promised' \in [MonitoredTools -> ResourceMetrics],
               \A t \in MonitoredTools : GetMetrics(t)' = promised'[t]
        PROVE  MonitorInv'
    <2>1. MonitorTypeOK'
      BY <1>t, <1>3 DEF MonitorTypeOK
    <2>2. \A p \in Recorders : recording'[p].call = NoCall
      BY <1>t, <1>3, MonitorAssumption
    <2>3. QED
      BY <1>3, <2>1, <2>2 DEF MonitorInv
  <1>4. ASSUME NEW tool \in MonitoredTools, ResetMetrics(tool) PROVE MonitorInv'
    <2> DEFINE new == EntryAfterReset(tool)
    <2>1. /\ lock = NoThread /\ UNCHANGED <<lock, recording, records>>
          /\ metrics' = [metrics EXCEPT ![tool] = new]
          /\ promised' = [promised EXCEPT ![tool] = NewEntry]
      BY <1>4 DEF ResetMetrics, MutexFree
    <2>2. new \in ResourceMetrics /\ (IF new.made THEN new ELSE NewEntry) = NewEntry
      BY <1>t, EntriesAreTyped DEF EntryAfterReset, MonitorTypeOK
    <2> HIDE DEF new
    <2>3. /\ metrics' \in [MonitoredTools -> ResourceMetrics]
          /\ promised' \in [MonitoredTools -> ResourceMetrics]
      BY <1>t, <2>1, <2>2, EntriesAreTyped DEF MonitorTypeOK
    <2>4. ASSUME NEW t \in MonitoredTools PROVE GetMetrics(t)' = promised'[t]
      <3>1. CASE t = tool
        BY <1>t, <2>1, <2>2, <3>1 DEF GetMetrics, MonitorTypeOK
      <3>2. CASE t # tool
        BY <1>t, <2>1, <3>2 DEF GetMetrics, MonitorTypeOK
      <3>3. QED
        BY <3>1, <3>2
    <2>5. QED
      BY <1>3, <2>1, <2>3, <2>4
  <1>5. CASE ResetAll
    <2>1. /\ lock = NoThread /\ UNCHANGED <<lock, recording, records>>
          /\ metrics' = [t \in MonitoredTools |-> NoEntry]
          /\ promised' = [t \in MonitoredTools |-> NewEntry]
      BY <1>5 DEF ResetAll, MutexFree
    <2>2. /\ metrics' \in [MonitoredTools -> ResourceMetrics]
          /\ promised' \in [MonitoredTools -> ResourceMetrics]
      BY <2>1, EntriesAreTyped
    <2>3. \A t \in MonitoredTools : GetMetrics(t)' = promised'[t]
      BY <2>1, EntriesAreTyped DEF GetMetrics
    <2>4. QED
      BY <1>3, <2>1, <2>2, <2>3
  <1>6. CASE UNCHANGED monitorVars
    BY <1>t, <1>6 DEF monitorVars, MonitorInv, MonitorTypeOK, GetMetrics
  <1>7. QED
    BY <1>1, <1>2, <1>4, <1>5, <1>6 DEF MonitorNext

(* The inductive invariant behind the result below.                        *)
THEOREM MonitorInvariantHolds == MonitorSpec => []MonitorInv
  BY MonitorInitHolds, MonitorStep, PTL DEF MonitorSpec

(* Whoever gets the mutex reads what the calls since the last reset would  *)
(* have left one after the other.                                          *)
THEOREM RecordsAreNotLost == MonitorSpec => []NoRecordIsLost
  <1>1. MonitorInv => NoRecordIsLost
    BY DEF MonitorInv, NoRecordIsLost
  <1>2. QED
    BY <1>1, MonitorInvariantHolds, PTL

-----------------------------------------------------------------------------
(* Each part runs as it would on its own, and so what is shown of it above *)
(* holds of the parts together.                                            *)
THEOREM PartsRunTheGuard == PartsSpec => GuardSpec
  <1>1. PartsInit => GuardInit
    BY DEF PartsInit
  <1>2. [PartsNext]_partsVars => [GuardNext]_executionVars
    BY DEF PartsNext, Grow, partsVars
  <1> QED
    BY <1>1, <1>2, PTL DEF PartsSpec, GuardSpec

THEOREM PartsRunTheMonitor == PartsSpec => MonitorSpec
  <1>1. PartsInit => MonitorInit
    BY DEF PartsInit
  <1>2. [PartsNext]_partsVars => [MonitorNext]_monitorVars
    BY DEF PartsNext, Grow, partsVars
  <1> QED
    BY <1>1, <1>2, PTL DEF PartsSpec, MonitorSpec

THEOREM PartsRunTheAccessControl == PartsSpec => RbacSpec
  <1>1. PartsInit => RbacInit
    BY DEF PartsInit
  <1>2. [PartsNext]_partsVars => [RbacNext]_rbacVars
    BY DEF PartsNext, Grow, partsVars
  <1> QED
    BY <1>1, <1>2, PTL DEF PartsSpec, RbacSpec

-----------------------------------------------------------------------------
(* The text grows, the rules that count are those given last, and a        *)
(* configuration is one that was given.                                    *)
Chars == STRING \cup {"/"} \cup UNION {Alphabet[s] : s \in TextSubjects}

PartsInv ==
    /\ rules = given
    /\ text \in Seq(Chars)
    /\ path_config \in PathConfigs \cup {DefaultPathConfig}

LEMMA PartsInvariant == PartsSpec => []PartsInv
  <1>1. PartsInit => PartsInv
    BY DEF PartsInit, PartsInv, RulesInit, PathInit
  <1>2. PartsInv /\ [PartsNext]_partsVars => PartsInv'
    <2> SUFFICES ASSUME PartsInv, [PartsNext]_partsVars PROVE PartsInv'
      OBVIOUS
    <2>1. CASE Grow
      <3>1. PICK c \in Alphabet[subject] : text' = Append(text, c)
        BY <2>1 DEF Grow
      <3>2. c \in Chars
        BY <2>1, <3>1 DEF Grow, Chars
      <3>3. text' \in Seq(Chars)
        BY <3>1, <3>2 DEF PartsInv
      <3> QED
        BY <2>1, <3>3 DEF Grow, PartsInv, rulesVars, pathVars
    <2>2. CASE RulesNext /\ UNCHANGED <<text, pathVars>>
      BY <2>2 DEF RulesNext, RegisterToolRules, StoredRules, PartsInv, pathVars
    <2>3. CASE PathNext /\ UNCHANGED <<text, rulesVars>>
      BY <2>3 DEF PathNext, Configure, PartsInv, rulesVars
    <2>4. CASE UNCHANGED <<rulesVars, pathVars, text>>
      BY <2>4 DEF PartsInv, rulesVars, pathVars
    <2> QED
      BY <2>1, <2>2, <2>3, <2>4 DEF PartsNext, partsVars, rulesVars
  <1> QED
    BY <1>1, <1>2, PTL DEF PartsSpec

(* What the code tests of a value is what the rule demands of it.          *)
LEMMA ValidMeansObeyed ==
    ASSUME NEW rule, NEW v \in Values
    PROVE  ValidateArgument(rule, v) <=> Obeys(rule, v)
  <1>1. Sequence(v)
    BY ValuesAssumption DEF Sequence
  <1>2. Metacharacters = {" "} \cup (ShellCharacters \ Redirections)
    BY DEF Metacharacters, ShellCharacters, Redirections
  <1>3. ContainsPathTraversal(v) <=>
          \E i, j \in DOMAIN v : j = i + 1 /\ <<v[i], v[j]>> \in Steps
    <2>1. ASSUME NEW i \in DOMAIN v, NEW j \in DOMAIN v, j = i + 1, <<v[i], v[j]>> \in Steps
          PROVE  ContainsPathTraversal(v)
      <3>1. i \in 1 .. Len(v) - 1
        BY <1>1, <2>1 DEF Sequence
      <3> QED
        BY <2>1, <3>1 DEF ContainsPathTraversal, HasPair, Steps
    <2>2. ASSUME NEW i \in 1 .. Len(v) - 1
          PROVE  i \in DOMAIN v /\ i + 1 \in DOMAIN v
      BY <1>1 DEF Sequence
    <2>3. ASSUME ContainsPathTraversal(v)
          PROVE  \E i, j \in DOMAIN v : j = i + 1 /\ <<v[i], v[j]>> \in Steps
      <3>1. PICK i \in 1 .. Len(v) - 1 : <<v[i], v[i + 1]>> \in Steps
        BY <2>3 DEF ContainsPathTraversal, HasPair, Steps
      <3> QED
        BY <2>2, <3>1
    <2> QED
      BY <2>1, <2>3
  <1> QED
    BY <1>2, <1>3 DEF ValidateArgument, Obeys, ContainsShellMetacharacters, ContainsEncodedMetacharacters, HasOneOf

LEMMA RulesGivenAreFollowed == rules = given => AcceptedCallsFollowRules
  <1> SUFFICES ASSUME rules = given,
                      NEW t \in Tools, NEW args \in Arguments,
                      given[t] # NoRules
               PROVE  LET r == given[t]
                          rulesFor(a) == {rule \in r.required \cup r.optional : rule.arg = a}
                      IN ValidateArguments(t, args) <=>
                           /\ {rule.arg : rule \in r.required} \subseteq DOMAIN args
                           /\ \A a \in DOMAIN args :
                                /\ r.strict => rulesFor(a) # {}
                                /\ \A rule \in rulesFor(a) : Obeys(rule, args[a])
    BY DEF AcceptedCallsFollowRules
  <1> DEFINE r == given[t]
             rulesFor(a) == {rule \in r.required \cup r.optional : rule.arg = a}
  <1>1. ValidateArguments(t, args) <=>
          /\ \A rule \in r.required :
               rule.arg \in DOMAIN args /\ ValidateArgument(rule, args[rule.arg])
          /\ \A rule \in r.optional :
               rule.arg \in DOMAIN args => ValidateArgument(rule, args[rule.arg])
          /\ r.strict => DOMAIN args \subseteq {rule.arg : rule \in r.required \cup r.optional}
    BY DEF ValidateArguments
  <1>2. ASSUME NEW rule, NEW a \in DOMAIN args
        PROVE  ValidateArgument(rule, args[a]) <=> Obeys(rule, args[a])
    <2>1. args[a] \in Values
      BY DEF Arguments
    <2> QED
      BY <2>1, ValidMeansObeyed
  <1> HIDE DEF r
  <1>3. ASSUME ValidateArguments(t, args)
        PROVE  /\ {rule.arg : rule \in r.required} \subseteq DOMAIN args
               /\ \A a \in DOMAIN args :
                    /\ r.strict => rulesFor(a) # {}
                    /\ \A rule \in rulesFor(a) : Obeys(rule, args[a])
    BY <1>1, <1>2, <1>3
  <1>4. ASSUME {rule.arg : rule \in r.required} \subseteq DOMAIN args,
               \A a \in DOMAIN args :
                  /\ r.strict => rulesFor(a) # {}
                  /\ \A rule \in rulesFor(a) : Obeys(rule, args[a])
        PROVE  ValidateArguments(t, args)
    <2>1. ASSUME NEW rule \in r.required \cup r.optional, rule.arg \in DOMAIN args
          PROVE  ValidateArgument(rule, args[rule.arg])
      BY <1>2, <1>4, <2>1
    <2>2. r.strict => DOMAIN args \subseteq {rule.arg : rule \in r.required \cup r.optional}
      BY <1>4
    <2> QED
      BY <1>1, <1>4, <2>1, <2>2
  <1> QED
    BY <1>3, <1>4 DEF r

-----------------------------------------------------------------------------
(* Quoting for a shell, and how a shell reads.                             *)
LEMMA QuotedPieces ==
    ASSUME NEW arg, Sequence(arg)
    PROVE  \E C, q : /\ \A n \in 0 .. Len(arg) : q[n] \in Seq(C)
                     /\ q[0] = <<>>
                     /\ \A n \in 1 .. Len(arg) : q[n] = q[n - 1] \o QuotedChar(arg[n])
                     /\ EscapeShellArgument(arg) = <<"'">> \o q[Len(arg)] \o <<"'">>
  <1> DEFINE
        C == {arg[i] : i \in DOMAIN arg} \cup {"'", "\\"}
        S == 0 .. Len(arg)
        T == Seq(C)
        size == [n \in S |-> n]
        step(f, n) == IF n = 0 THEN <<>> ELSE f[n - 1] \o QuotedChar(arg[n])
        Body == [f \in [S -> T] |-> [n \in S |-> step(f, n)]]
        quoted == CHOOSE f : f = [n \in S |-> step(f, n)]
        P == {n \in S : quoted[n] \in T}
  <1>1. Len(arg) \in Nat /\ DOMAIN arg = 1 .. Len(arg)
    BY DEF Sequence
  <1>2. size \in [S -> Nat] /\ <<>> \in T
    BY <1>1
  <1>3. ASSUME NEW n \in 1 .. Len(arg) PROVE QuotedChar(arg[n]) \in T
    <2> DEFINE D == C
    <2>1. arg[n] \in D /\ "'" \in D /\ "\\" \in D
      BY <1>1
    <2> HIDE DEF D
    <2>2. <<arg[n]>> \in Seq(D) /\ <<"'", "\\", "'", "'">> \in Seq(D)
      BY <2>1
    <2>3. QuotedChar(arg[n]) \in Seq(D)
      BY <2>2 DEF QuotedChar
    <2> QED
      BY <2>3 DEF D
  <1> HIDE DEF C
  <1>4. ASSUME NEW g \in [S -> T], NEW n \in S PROVE step(g, n) \in T
    <2>1. CASE n = 0
      BY <1>2, <2>1
    <2>2. CASE n # 0
      <3>1. n \in 1 .. Len(arg) /\ n - 1 \in S
        BY <1>1, <2>2
      <3>2. g[n - 1] \in Seq(C) /\ QuotedChar(arg[n]) \in Seq(C)
        BY <1>3, <3>1
      <3>3. g[n - 1] \o QuotedChar(arg[n]) \in Seq(C)
        BY <3>2
      <3> QED
        BY <2>2, <3>3
    <2> QED
      BY <2>1, <2>2
  <1>5. PICK f \in [S -> T] : f = Body[f]
    <2>1. ASSUME NEW g \in [S -> T], NEW h \in [S -> T], NEW n \in S,
                 \A r \in S : size[r] < size[n] => g[r] = h[r]
          PROVE  step(g, n) = step(h, n)
      <3>1. n # 0 => g[n - 1] = h[n - 1]
        BY <1>1, <2>1
      <3> QED
        BY <3>1
    <2> HIDE DEF step, S, T, size
    <2>2. Grounded(S, T, size, Body)
      BY <1>2, <1>4, <2>1 DEF Grounded
    <2> HIDE DEF Body
    <2> QED
      BY <2>2, Recursion
  <1>6. f = [n \in S |-> step(f, n)]
    BY <1>5
  <1>7. quoted = [n \in S |-> step(quoted, n)]
    BY <1>6
  <1>8. ASSUME NEW n \in S PROVE quoted[n] = step(quoted, n)
    <2> HIDE DEF quoted, step
    <2> QED
      BY <1>7
  <1>9. EscapeShellArgument(arg) = <<"'">> \o quoted[Len(arg)] \o <<"'">>
    BY DEF EscapeShellArgument
  <1> HIDE DEF quoted
  <1>10. S \subseteq P
    <2>1. ASSUME NEW n \in S, \A r \in S : size[r] < size[n] => r \in P PROVE n \in P
      <3>1. CASE n = 0
        <4>1. quoted[n] = <<>>
          BY <1>8, <3>1
        <4> QED
          BY <1>2, <4>1
      <3>2. CASE n # 0
        <4>1. n \in 1 .. Len(arg) /\ n - 1 \in S /\ n - 1 < n
          BY <1>1, <3>2
        <4>2. quoted[n - 1] \in Seq(C) /\ QuotedChar(arg[n]) \in Seq(C)
          BY <1>3, <4>1, <2>1
        <4>3. quoted[n - 1] \o QuotedChar(arg[n]) \in Seq(C)
          BY <4>2
        <4> QED
          BY <1>8, <3>2, <4>3
      <3> QED
        BY <3>1, <3>2
    <2> HIDE DEF P, S, size
    <2> QED
      BY <1>2, <2>1, MeasureInduction
  <1>11. \A n \in 0 .. Len(arg) : quoted[n] \in Seq(C)
    BY <1>10
  <1>12. quoted[0] = <<>>
    BY <1>1, <1>8
  <1>13. ASSUME NEW n \in 1 .. Len(arg) PROVE quoted[n] = quoted[n - 1] \o QuotedChar(arg[n])
    <2>1. n \in S /\ n # 0
      BY <1>1
    <2>2. quoted[n] = step(quoted, n)
      BY <1>8, <2>1
    <2> QED
      BY <2>1, <2>2
  <1> QED
    BY <1>9, <1>11, <1>12, <1>13

(* What the shell has read, or will have, from one place of t on, by what  *)
(* is there: within quotes, behind them, at the start.                     *)
ReadsOn(t, read) ==
    \A w \in Seq({t[i] : i \in DOMAIN t}) :
      /\ read[<<Len(t) + 1, "bare", w>>] = <<w>>
      /\ \A p \in 1 .. Len(t) :
           /\ t[p] = "'" => /\ read[<<p, "quoted", w>>] = read[<<p + 1, "bare", w>>]
                            /\ read[<<p, "bare", w>>] = read[<<p + 1, "quoted", w>>]
                            /\ read[<<p, "blank", w>>] = read[<<p + 1, "quoted", w>>]
           /\ t[p] # "'" =>
                read[<<p, "quoted", w>>] = read[<<p + 1, "quoted", Append(w, t[p])>>]
           /\ t[p] = "\\" /\ p < Len(t) =>
                read[<<p, "bare", w>>] = read[<<p + 2, "bare", Append(w, t[p + 1])>>]

LEMMA ShellReads ==
    ASSUME NEW t, Sequence(t)
    PROVE  \E read : ShellWords(t) = read[<<1, "blank", <<>>>>] /\ ReadsOn(t, read)
  <1> DEFINE
        C == {t[i] : i \in DOMAIN t}
        W == Seq(C)
        D == C \cup {"unbalanced", "special"}
        S == (Nat \ {0}) \X Modes \X W
        T == Seq(Seq(D))
        left == [s \in S |-> BytesLeft(t)[s[1]]]
        at(f, i, mode, word) ==
               IF i > Len(t) THEN AtEnd(mode, word)
               ELSE IF t[i] = "'"
                    THEN f[<<i + 1, IF mode = "quoted" THEN "bare" ELSE "quoted", word>>]
               ELSE IF mode = "quoted" THEN f[<<i + 1, "quoted", Append(word, t[i])>>]
               ELSE IF t[i] = "\\" /\ i < Len(t)
                    THEN f[<<i + 2, "bare", Append(word, t[i + 1])>>]
               ELSE IF t[i] = " "
                    THEN (IF mode = "bare" THEN <<word>> ELSE <<>>) \o f[<<i + 1, "blank", <<>>>>]
               ELSE IF t[i] \in Metacharacters THEN <<<<"special">>>>
               ELSE f[<<i + 1, "bare", Append(word, t[i])>>]
        step(f, s) == at(f, s[1], s[2], s[3])
        Body == [f \in [S -> T] |-> [s \in S |-> step(f, s)]]
        read == CHOOSE f : f = [s \in S |-> step(f, s)]
  <1>1. /\ Len(t) \in Nat /\ DOMAIN t = 1 .. Len(t) /\ IsText(t)
        /\ \A i \in 1 .. Len(t) : t[i] \in C
    BY DEF Sequence, IsText
  <1>2. C \subseteq D /\ W \subseteq Seq(D) /\ <<>> \in W
    OBVIOUS
  <1>3. <<<<"special">>>> \in T /\ <<<<"unbalanced">>>> \in T /\ <<>> \in T
    <2> DEFINE E == D
    <2>1. "special" \in E /\ "unbalanced" \in E
      OBVIOUS
    <2> HIDE DEF E
    <2>2. <<"special">> \in Seq(E) /\ <<"unbalanced">> \in Seq(E)
      BY <2>1
    <2>3. <<<<"special">>>> \in Seq(Seq(E)) /\ <<<<"unbalanced">>>> \in Seq(Seq(E)) /\ <<>> \in Seq(Seq(E))
      BY <2>2
    <2> QED
      BY <2>3 DEF E
  <1>4. \A i \in 1 .. Len(t), w \in W : Append(w, t[i]) \in W
    <2> HIDE DEF C
    <2> QED
      BY <1>1
  <1> HIDE DEF C, D
  <1>5. \A w \in W : <<w>> \in T
    <2> SUFFICES ASSUME NEW w \in W PROVE <<w>> \in T
      OBVIOUS
    <2>1. w \in Seq(D)
      BY <1>2
    <2> QED
      BY <2>1
  <1>c. ASSUME NEW a \in T, NEW b \in T PROVE a \o b \in T
    <2> DEFINE E == Seq(D)
    <2>1. a \in Seq(E) /\ b \in Seq(E)
      OBVIOUS
    <2> HIDE DEF E
    <2>2. a \o b \in Seq(E)
      BY <2>1
    <2> QED
      BY <2>2 DEF E
  <1> HIDE DEF W, T
  <1>6. /\ "blank" \in Modes /\ "bare" \in Modes /\ "quoted" \in Modes
        /\ \A m \in Modes : m = "blank" \/ m = "bare" \/ m = "quoted"
        /\ "blank" # "bare" /\ "blank" # "quoted" /\ "bare" # "quoted"
    BY DEF Modes
  <1>7. /\ \A s \in S : s[1] \in Nat \ {0} /\ s[2] \in Modes /\ s[3] \in W
        /\ \A s \in S : s = <<s[1], s[2], s[3]>>
        /\ \A i \in Nat \ {0}, m \in Modes, w \in W : <<i, m, w>> \in S
    OBVIOUS
  <1>8. left \in [S -> Nat]
    <2>1. BytesLeft(t) \in [Nat -> Nat]
      BY <1>1, BytesLeftType
    <2> HIDE DEF S
    <2> QED
      BY <1>7, <2>1
  <1>9. ASSUME NEW i \in Nat \ {0}, i <= Len(t), NEW k \in {1, 2}, NEW m \in Modes, NEW w \in W,
               NEW n \in Modes, NEW v \in W
        PROVE  <<i + k, m, w>> \in S /\ left[<<i + k, m, w>>] < left[<<i, n, v>>]
    <2>1. i + k \in Nat \ {0} /\ i < i + k
      OBVIOUS
    <2>2. BytesLeft(t)[i + k] < BytesLeft(t)[i]
      BY <1>1, <1>9, <2>1, FewerBytesLeft
    <2>3. <<i + k, m, w>> \in S /\ <<i, n, v>> \in S
      BY <1>7, <2>1
    <2> QED
      BY <2>2, <2>3
  <1> HIDE DEF S, left
  <1>10. ASSUME NEW g \in [S -> T], NEW i \in Nat \ {0}, NEW mode \in Modes, NEW word \in W
         PROVE  at(g, i, mode, word) \in T
    <2>1. CASE i > Len(t)
      BY <1>3, <1>5, <1>6, <2>1 DEF AtEnd
    <2>2. CASE i <= Len(t)
      <3>1. i \in 1 .. Len(t) /\ (i < Len(t) => i + 1 \in 1 .. Len(t))
        BY <1>1, <2>2
      <3>2. Append(word, t[i]) \in W /\ (i < Len(t) => Append(word, t[i + 1]) \in W)
        BY <1>4, <3>1
      <3>3. ASSUME NEW m \in Modes, NEW w \in W
            PROVE  g[<<i + 1, m, w>>] \in T /\ g[<<i + 2, m, w>>] \in T
        BY <1>9, <2>2
      <3>4. g[<<i + 1, "blank", <<>>>>] \in T
        BY <1>2, <1>6, <3>3
      <3>5. (IF mode = "bare" THEN <<word>> ELSE <<>>) \o g[<<i + 1, "blank", <<>>>>] \in T
        BY <1>3, <1>5, <1>c, <3>4
      <3>6. g[<<i + 1, IF mode = "quoted" THEN "bare" ELSE "quoted", word>>] \in T
        BY <1>6, <3>3
      <3>7. /\ g[<<i + 1, "quoted", Append(word, t[i])>>] \in T
            /\ g[<<i + 1, "bare", Append(word, t[i])>>] \in T
            /\ i < Len(t) => g[<<i + 2, "bare", Append(word, t[i + 1])>>] \in T
        BY <1>6, <3>2, <3>3
      <3>8. ~(i > Len(t))
        BY <1>1, <2>2
      <3>9. CASE t[i] = "'" \/ mode = "quoted"
        BY <3>6, <3>7, <3>8, <3>9
      <3>10. CASE t[i] # "'" /\ mode # "quoted"
        BY <1>3, <3>5, <3>7, <3>8, <3>10
      <3> QED
        BY <3>9, <3>10
    <2> HIDE DEF at
    <2> QED
      BY <1>1, <2>1, <2>2
  <1>11. ASSUME NEW g \in [S -> T], NEW h \in [S -> T], NEW s \in S,
                \A r \in S : left[r] < left[s] => g[r] = h[r]
         PROVE  step(g, s) = step(h, s)
    <2> DEFINE i == s[1]
               mode == s[2]
               word == s[3]
    <2>1. i \in Nat \ {0} /\ mode \in Modes /\ word \in W /\ s = <<i, mode, word>>
      BY <1>7
    <2> HIDE DEF i, mode, word
    <2>2. CASE i > Len(t)
      BY <2>2 DEF i, mode, word
    <2>3. CASE i <= Len(t)
      <3>1. i \in 1 .. Len(t) /\ (i < Len(t) => i + 1 \in 1 .. Len(t))
        BY <1>1, <2>1, <2>3
      <3>2. Append(word, t[i]) \in W /\ (i < Len(t) => Append(word, t[i + 1]) \in W)
        BY <1>4, <2>1, <3>1
      <3>3. ASSUME NEW m \in Modes, NEW w \in W
            PROVE  g[<<i + 1, m, w>>] = h[<<i + 1, m, w>>] /\ g[<<i + 2, m, w>>] = h[<<i + 2, m, w>>]
        BY <1>9, <1>11, <2>1, <2>3
      <3>4. g[<<i + 1, "blank", <<>>>>] = h[<<i + 1, "blank", <<>>>>]
        BY <1>2, <1>6, <3>3
      <3>5. g[<<i + 1, IF mode = "quoted" THEN "bare" ELSE "quoted", word>>]
             = h[<<i + 1, IF mode = "quoted" THEN "bare" ELSE "quoted", word>>]
        BY <1>6, <2>1, <3>3
      <3>6. /\ g[<<i + 1, "quoted", Append(word, t[i])>>] = h[<<i + 1, "quoted", Append(word, t[i])>>]
            /\ g[<<i + 1, "bare", Append(word, t[i])>>] = h[<<i + 1, "bare", Append(word, t[i])>>]
            /\ i < Len(t) => g[<<i + 2, "bare", Append(word, t[i + 1])>>]
                               = h[<<i + 2, "bare", Append(word, t[i + 1])>>]
        BY <1>6, <3>2, <3>3
      <3>7. at(g, i, mode, word) = at(h, i, mode, word)
        BY <3>4, <3>5, <3>6
      <3> QED
        BY <3>7 DEF i, mode, word
    <2> HIDE DEF at
    <2> QED
      BY <1>1, <2>1, <2>2, <2>3
  <1>12. PICK f \in [S -> T] : f = Body[f]
    <2>1. ASSUME NEW g \in [S -> T], NEW s \in S PROVE step(g, s) \in T
      BY <1>7, <1>10
    <2>2. T # {}
      BY <1>3
    <2> HIDE DEF step
    <2>3. Grounded(S, T, left, Body)
      BY <1>8, <1>11, <2>1, <2>2 DEF Grounded
    <2> HIDE DEF Body
    <2> QED
      BY <2>3, Recursion
  <1>13. f = [s \in S |-> step(f, s)]
    BY <1>12
  <1>14. read = [s \in S |-> step(read, s)]
    <2> HIDE DEF step
    <2> QED
      BY <1>13
  <1>15. ASSUME NEW s \in S PROVE read[s] = step(read, s)
    <2> HIDE DEF read, step
    <2> QED
      BY <1>14
  <1>16. ShellWords(t) = read[<<1, "blank", <<>>>>]
    BY DEF ShellWords, S, W, C
  <1> HIDE DEF read
  <1>17. ASSUME NEW i \in Nat \ {0}, NEW mode \in Modes, NEW word \in W
         PROVE  read[<<i, mode, word>>] = at(read, i, mode, word)
    BY <1>7, <1>15
  <1>18. ASSUME NEW w \in W PROVE read[<<Len(t) + 1, "bare", w>>] = <<w>>
    <2>1. Len(t) + 1 \in Nat \ {0} /\ Len(t) + 1 > Len(t)
      BY <1>1
    <2> QED
      BY <1>6, <1>17, <2>1 DEF AtEnd
  <1>19. ASSUME NEW w \in W, NEW p \in 1 .. Len(t)
         PROVE  /\ t[p] = "'" => /\ read[<<p, "quoted", w>>] = read[<<p + 1, "bare", w>>]
                                 /\ read[<<p, "bare", w>>] = read[<<p + 1, "quoted", w>>]
                                 /\ read[<<p, "blank", w>>] = read[<<p + 1, "quoted", w>>]
                /\ t[p] # "'" =>
                     read[<<p, "quoted", w>>] = read[<<p + 1, "quoted", Append(w, t[p])>>]
                /\ t[p] = "\\" /\ p < Len(t) =>
                     read[<<p, "bare", w>>] = read[<<p + 2, "bare", Append(w, t[p + 1])>>]
    <2>1. p \in Nat \ {0} /\ ~(p > Len(t))
      BY <1>1
    <2>2. /\ read[<<p, "quoted", w>>] = at(read, p, "quoted", w)
          /\ read[<<p, "bare", w>>] = at(read, p, "bare", w)
          /\ read[<<p, "blank", w>>] = at(read, p, "blank", w)
      BY <1>6, <1>17, <2>1
    <2> QED
      BY <1>6, <2>1, <2>2
  <1> HIDE DEF at
  <1>20. ReadsOn(t, read)
    BY <1>18, <1>19 DEF ReadsOn, W, C
  <1> QED
    BY <1>16, <1>20

(* Whatever is to be quoted, a shell reads it back as one word.            *)
LEMMA OneWord ==
    ASSUME NEW arg, Sequence(arg)
    PROVE  EscapedIsOneWord(arg)
  <1> DEFINE N == Len(arg)
             t == EscapeShellArgument(arg)
             W == Seq({t[i] : i \in DOMAIN t})
  <1>1. N \in Nat /\ DOMAIN arg = 1 .. N
    BY DEF Sequence
  <1>2. PICK C, q : /\ \A n \in 0 .. N : q[n] \in Seq(C)
                    /\ q[0] = <<>>
                    /\ \A n \in 1 .. N : q[n] = q[n - 1] \o QuotedChar(arg[n])
                    /\ t = <<"'">> \o q[N] \o <<"'">>
    BY QuotedPieces
  <1> DEFINE piece == [n \in 1 .. N |-> QuotedChar(arg[n])]
             place(n) == 2 + Len(q[n])
             E == C \cup {"'", "\\"} \cup {arg[i] : i \in 1 .. N}
  <1>3. ASSUME NEW n \in 1 .. N PROVE piece[n] \in Seq(E)
    <2> DEFINE F == E
    <2>1. arg[n] \in F /\ "'" \in F /\ "\\" \in F
      OBVIOUS
    <2> HIDE DEF F
    <2>2. <<arg[n]>> \in Seq(F) /\ <<"'", "\\", "'", "'">> \in Seq(F)
      BY <2>1
    <2> QED
      BY <2>2 DEF QuotedChar, F
  <1>4. \A n \in 0 .. N : q[n] \in Seq(E)
    <2>1. Seq(C) \subseteq Seq(E)
      OBVIOUS
    <2> QED
      BY <1>2, <2>1
  <1>5. \A n \in 1 .. N : q[n] = q[n - 1] \o piece[n]
    BY <1>2
  <1> HIDE DEF t, E, piece, N
  <1>6. /\ Len(t) = Len(q[N]) + 2 /\ t[1] = "'" /\ t[Len(t)] = "'"
        /\ \A i \in 1 .. Len(q[N]) : t[i + 1] = q[N][i]
        /\ Len(t) \in Nat /\ DOMAIN t = 1 .. Len(t) /\ Sequence(t)
    <2> DEFINE s == q[N]
               F == E
    <2>1. s \in Seq(F) /\ "'" \in F
      BY <1>1, <1>4 DEF E
    <2>2. t = <<"'">> \o s \o <<"'">>
      BY <1>2
    <2> HIDE DEF s, F
    <2>3. <<"'">> \o s \o <<"'">> \in Seq(F)
      BY <2>1
    <2>4. /\ Len(<<"'">> \o s \o <<"'">>) = Len(s) + 2
          /\ (<<"'">> \o s \o <<"'">>)[1] = "'"
          /\ (<<"'">> \o s \o <<"'">>)[Len(s) + 2] = "'"
          /\ \A i \in 1 .. Len(s) : (<<"'">> \o s \o <<"'">>)[i + 1] = s[i]
      BY <2>1
    <2>5. Sequence(t) /\ Len(t) \in Nat /\ DOMAIN t = 1 .. Len(t)
      BY <2>2, <2>3 DEF Sequence
    <2> QED
      BY <2>2, <2>4, <2>5 DEF s
  <1>7. ASSUME NEW n \in 1 .. N
        PROVE  /\ place(n) = place(n - 1) + Len(piece[n])
               /\ place(n - 1) \in 2 .. Len(t) - 1
               /\ \A j \in 1 .. Len(piece[n]) :
                    place(n - 1) + (j - 1) <= Len(t) - 1 /\ t[place(n - 1) + (j - 1)] = piece[n][j]
               /\ Len(piece[n]) \in Nat /\ Len(piece[n]) >= 1
    <2>1. n \in 0 .. N /\ n - 1 \in 0 .. N /\ N \in 0 .. N
      BY <1>1
    <2> DEFINE a == Len(q[n - 1])
               b == Len(piece[n])
               c == Len(q[N])
    <2>2. /\ Len(q[n]) = a + b
          /\ Len(q[n]) <= c
          /\ \A j \in 1 .. b : q[N][a + j] = piece[n][j]
      <3>1. \A m \in 1 .. N : piece[m] \in Seq(E) /\ q[m] = q[m - 1] \o piece[m]
        BY <1>3, <1>5
      <3> HIDE DEF a, b, c
      <3>2. /\ Len(q[n]) = Len(q[n - 1]) + Len(piece[n])
            /\ Len(q[n]) <= Len(q[N])
            /\ \A j \in 1 .. Len(piece[n]) : q[N][Len(q[n - 1]) + j] = piece[n][j]
        <4>1. Pieces(N, E, q, piece)
          BY <1>4, <3>1 DEF Pieces
        <4> DEFINE m == n - 1
        <4>2. N \in Nat /\ m = n - 1
          BY <1>1
        <4> HIDE DEF m
        <4>3. PieceInPlace(N, q, piece, n, m)
          BY <4>1, <4>2, PiecesStay
        <4> QED
          BY <4>3 DEF m, PieceInPlace
      <3> QED
        BY <3>2 DEF a, b, c
    <2>3. a \in Nat /\ b \in Nat /\ c \in Nat
      BY <1>3, <1>4, <2>1
    <2>4. b >= 1
      BY DEF piece, QuotedChar
    <2> HIDE DEF a, b, c
    <2>5. Len(t) = c + 2
      BY <1>6 DEF c
    <2>6. ASSUME NEW j \in 1 .. b
          PROVE  (2 + a) + (j - 1) <= Len(t) - 1 /\ t[(2 + a) + (j - 1)] = piece[n][j]
      <3>1. a + j \in 1 .. c /\ (2 + a) + (j - 1) = (a + j) + 1
        BY <2>2, <2>3
      <3>2. t[(a + j) + 1] = q[N][a + j]
        BY <1>6, <3>1 DEF c
      <3>3. (2 + a) + (j - 1) <= Len(t) - 1
        BY <2>3, <2>5, <3>1
      <3> QED
        BY <2>2, <3>1, <3>2, <3>3
    <2>7. place(n) = (2 + a) + b /\ place(n - 1) = 2 + a
      BY <2>2, <2>3 DEF a
    <2>8. 2 + a \in 2 .. Len(t) - 1
      BY <2>2, <2>3, <2>4, <2>5
    <2> QED
      BY <2>3, <2>4, <2>6, <2>7, <2>8 DEF b
  <1> DEFINE D == {t[i] : i \in DOMAIN t}
  <1>8. ASSUME NEW n \in 1 .. N PROVE arg[n] \in D
    <2>1. CASE arg[n] = "'"
      BY <1>6, <2>1
    <2>2. CASE arg[n] # "'"
      <3>1. piece[n][1] = arg[n] /\ 1 \in 1 .. Len(piece[n])
        BY <1>7, <2>2 DEF piece, QuotedChar
      <3>2. t[place(n - 1) + (1 - 1)] = arg[n] /\ place(n - 1) \in 2 .. Len(t) - 1
        BY <1>7, <3>1
      <3> HIDE DEF place
      <3>3. place(n - 1) + (1 - 1) = place(n - 1) /\ place(n - 1) \in DOMAIN t
        BY <1>6, <3>2
      <3> QED
        BY <3>2, <3>3
    <2> QED
      BY <2>1, <2>2
  <1>9. arg \in W
    <2> HIDE DEF D
    <2>1. arg \in [1 .. N -> D]
      <3>1. PICK A : arg \in Seq(A)
        BY DEF Sequence
      <3>2. arg \in [1 .. N -> A]
        BY <3>1 DEF N
      <3> QED
        BY <1>8, <3>2
    <2>2. arg \in Seq(D)
      BY <1>1, <2>1, SeqDef
    <2> QED
      BY <2>2 DEF D
  <1> HIDE DEF D, place
  <1>10. PICK read : ShellWords(t) = read[<<1, "blank", <<>>>>] /\ ReadsOn(t, read)
    BY <1>6, ShellReads
  <1>11. ASSUME NEW w \in W
         PROVE  /\ read[<<Len(t) + 1, "bare", w>>] = <<w>>
                /\ \A p \in 1 .. Len(t) :
                     /\ t[p] = "'" => /\ read[<<p, "quoted", w>>] = read[<<p + 1, "bare", w>>]
                                      /\ read[<<p, "bare", w>>] = read[<<p + 1, "quoted", w>>]
                                      /\ read[<<p, "blank", w>>] = read[<<p + 1, "quoted", w>>]
                     /\ t[p] # "'" =>
                          read[<<p, "quoted", w>>] = read[<<p + 1, "quoted", Append(w, t[p])>>]
                     /\ t[p] = "\\" /\ p < Len(t) =>
                          read[<<p, "bare", w>>] = read[<<p + 2, "bare", Append(w, t[p + 1])>>]
    BY <1>10 DEF ReadsOn
  <1>12. /\ <<>> \in W
         /\ \A k \in 0 .. N : SubSeq(arg, 1, k) \in W
         /\ \A k \in 1 .. N : SubSeq(arg, 1, k) = Append(SubSeq(arg, 1, k - 1), arg[k])
         /\ SubSeq(arg, 1, 0) = <<>> /\ SubSeq(arg, 1, N) = arg
    <2>1. arg \in Seq(D)
      BY <1>9 DEF D
    <2> QED
      BY <1>1, <2>1 DEF D, N
  <1> HIDE DEF W
  <1>13. ASSUME NEW k \in 1 .. N
         PROVE  read[<<place(k - 1), "quoted", SubSeq(arg, 1, k - 1)>>]
                  = read[<<place(k), "quoted", SubSeq(arg, 1, k)>>]
    <2> DEFINE p == place(k - 1)
               w == SubSeq(arg, 1, k - 1)
               l == Len(t)
    <2>1. w \in W /\ SubSeq(arg, 1, k) = Append(w, arg[k]) /\ SubSeq(arg, 1, k) \in W
      BY <1>1, <1>12
    <2>2. p \in 2 .. l - 1 /\ l \in Nat /\ place(k) = p + Len(piece[k])
      BY <1>6, <1>7
    <2>3. \A j \in 1 .. Len(piece[k]) : p + (j - 1) <= l - 1 /\ t[p + (j - 1)] = piece[k][j]
      BY <1>7
    <2> HIDE DEF p, w, l
    <2>4. CASE arg[k] # "'"
      <3>1. piece[k][1] = arg[k] /\ Len(piece[k]) = 1
        BY <2>4 DEF piece, QuotedChar
      <3>2. t[p] = arg[k] /\ p \in 1 .. l
        BY <2>2, <2>3, <3>1, p + (1 - 1) = p, 1 \in 1 .. 1
      <3>3. read[<<p, "quoted", w>>] = read[<<p + 1, "quoted", Append(w, t[p])>>]
        BY <1>11, <2>1, <2>4, <3>2 DEF l
      <3> QED
        BY <2>1, <2>2, <3>1, <3>2, <3>3 DEF p, w
    <2>5. CASE arg[k] = "'"
      <3>1. /\ piece[k][1] = "'" /\ piece[k][2] = "\\" /\ piece[k][3] = "'" /\ piece[k][4] = "'"
            /\ Len(piece[k]) = 4
        BY <2>5 DEF piece, QuotedChar
      <3>2. /\ 1 \in 1 .. 4 /\ 2 \in 1 .. 4 /\ 3 \in 1 .. 4 /\ 4 \in 1 .. 4
            /\ p + (1 - 1) = p /\ p + (2 - 1) = p + 1 /\ p + (3 - 1) = p + 2 /\ p + (4 - 1) = p + 3
        BY <2>2
      <3>3. t[p] = "'" /\ t[p + 1] = "\\" /\ t[p + 2] = "'" /\ t[p + 3] = "'" /\ p + 3 <= l - 1
        BY <2>3, <3>1, <3>2
      <3>4. /\ p \in 1 .. l /\ p + 1 \in 1 .. l /\ p + 1 < l /\ p + 3 \in 1 .. l
            /\ (p + 1) + 1 = p + 2 /\ (p + 1) + 2 = p + 3 /\ (p + 3) + 1 = p + 4
        BY <2>2, <3>3
      <3>5. read[<<p, "quoted", w>>] = read[<<p + 1, "bare", w>>]
        BY <1>11, <2>1, <3>3, <3>4 DEF l
      <3>6. read[<<p + 1, "bare", w>>] = read[<<(p + 1) + 2, "bare", Append(w, t[(p + 1) + 1])>>]
        BY <1>11, <2>1, <3>3, <3>4 DEF l
      <3>7. Append(w, t[(p + 1) + 1]) = SubSeq(arg, 1, k)
        BY <2>1, <2>5, <3>3, <3>4
      <3>8. read[<<p + 3, "bare", SubSeq(arg, 1, k)>>] = read[<<(p + 3) + 1, "quoted", SubSeq(arg, 1, k)>>]
        BY <1>11, <2>1, <3>3, <3>4 DEF l
      <3> QED
        BY <2>2, <3>1, <3>4, <3>5, <3>6, <3>7, <3>8 DEF p, w
    <2> QED
      BY <2>4, <2>5
  <1> DEFINE P == {k \in Nat : k <= N => read[<<place(k), "quoted", SubSeq(arg, 1, k)>>]
                                          = read[<<2, "quoted", <<>>>>]}
  <1>14. 0 \in P
    <2>1. place(0) = 2
      BY <1>2 DEF place
    <2> QED
      BY <1>12, <2>1
  <1>15. ASSUME NEW k \in Nat, k \in P PROVE k + 1 \in P
    <2> SUFFICES ASSUME k + 1 <= N
                 PROVE  read[<<place(k + 1), "quoted", SubSeq(arg, 1, k + 1)>>] = read[<<2, "quoted", <<>>>>]
      OBVIOUS
    <2>1. k + 1 \in 1 .. N /\ (k + 1) - 1 = k /\ k <= N
      BY <1>1
    <2> QED
      BY <1>13, <1>15, <2>1
  <1>16. N \in P
    <2> HIDE DEF P
    <2> QED
      BY <1>1, <1>14, <1>15, Induction
  <1>17. place(N) = Len(t) /\ Len(t) \in 1 .. Len(t) /\ 1 \in 1 .. Len(t) /\ 1 + 1 = 2
    <2>1. N \in 0 .. N
      BY <1>1
    <2>2. Len(q[N]) \in Nat
      BY <1>4, <2>1
    <2> QED
      BY <1>6, <2>2 DEF place
  <1>18. read[<<Len(t), "quoted", arg>>] = read[<<2, "quoted", <<>>>>]
    <2>1. N <= N
      BY <1>1
    <2>2. read[<<place(N), "quoted", SubSeq(arg, 1, N)>>] = read[<<2, "quoted", <<>>>>]
      BY <1>16, <2>1
    <2>3. SubSeq(arg, 1, N) = arg
      BY <1>12
    <2> HIDE DEF P
    <2> QED
      BY <1>17, <2>2, <2>3
  <1>19. arg \in W
    BY <1>9
  <1>20. read[<<Len(t), "quoted", arg>>] = <<arg>>
    BY <1>6, <1>11, <1>17, <1>19
  <1>21. read[<<1, "blank", <<>>>>] = read[<<2, "quoted", <<>>>>]
    BY <1>6, <1>11, <1>12, <1>17
  <1>22. ShellWords(t) = <<arg>>
    BY <1>10, <1>18, <1>20, <1>21
  <1> QED
    BY <1>22 DEF EscapedIsOneWord, t

(* An accepted call follows the rules given last, and a shell reads every  *)
(* escaped argument as one word, the argument: for every text, and for all *)
(* rules, values and names.                                                *)
THEOREM ArgumentsAreAlwaysChecked == PartsSpec => []ArgumentsAreChecked
  <1>1. PartsInv => ArgumentsAreChecked
    <2> SUFFICES ASSUME PartsInv PROVE ArgumentsAreChecked
      OBVIOUS
    <2>1. Sequence(text)
      BY DEF PartsInv, Sequence
    <2> QED
      BY <2>1, RulesGivenAreFollowed, OneWord DEF PartsInv, ArgumentsAreChecked
  <1> QED
    BY <1>1, PartsInvariant, PTL

-----------------------------------------------------------------------------
(* Paths.  A place that holds no name without characters, and no name with *)
(* a separator in it, is told from others by its text.                     *)
ProperPlaces(C) == {x \in Seq(Seq(C)) : \A i \in DOMAIN x : x[i] # <<>> /\ \A j \in DOMAIN x[i] : x[i][j] # "/"}

LEMMA PrefixElements ==
    ASSUME NEW C, NEW s \in Seq(C), NEW t \in Seq(C)
    PROVE  IsPrefix(s, t) <=> Len(s) <= Len(t) /\ \A i \in 1 .. Len(s) : s[i] = t[i]
  <1>1. CASE Len(s) <= Len(t)
    <2> DEFINE a == SubSeq(s, 1, Len(s))
               b == SubSeq(t, 1, Len(s))
    <2>1. /\ a \in Seq(C) /\ b \in Seq(C) /\ Len(a) = Len(s) /\ Len(b) = Len(s)
          /\ \A i \in 1 .. Len(s) : a[i] = s[i] /\ b[i] = t[i]
      BY <1>1
    <2>2. IsPrefix(s, t) <=> a = b
      BY <1>1 DEF IsPrefix
    <2> HIDE DEF a, b
    <2>3. a = b <=> \A i \in 1 .. Len(s) : a[i] = b[i]
      BY <2>1
    <2> QED
      BY <1>1, <2>1, <2>2, <2>3
  <1>2. CASE ~(Len(s) <= Len(t))
    BY <1>2 DEF IsPrefix
  <1> QED
    BY <1>1, <1>2

LEMMA PathStringPieces ==
    ASSUME NEW C, "/" \in C, NEW x \in Seq(Seq(C))
    PROVE  \E q : /\ Pieces(Len(x), C, q, [n \in 1 .. Len(x) |-> <<"/">> \o x[n]])
                  /\ q[0] = <<>>
                  /\ x # <<>> => PathString(x) = q[Len(x)]
  <1> DEFINE
        N == Len(x)
        e == [n \in 1 .. N |-> <<"/">> \o x[n]]
        S == 1 .. N
        T == Seq(C)
        size == [i \in S |-> i]
        step(f, i) == IF i = 1 THEN e[i] ELSE f[i - 1] \o e[i]
        Body == [f \in [S -> T] |-> [i \in S |-> step(f, i)]]
        flatten == CHOOSE f : f = [i \in S |-> step(f, i)]
        P == {i \in S : flatten[i] \in T}
        q == [i \in 0 .. N |-> IF i = 0 THEN <<>> ELSE flatten[i]]
  <1>1. N \in Nat /\ DOMAIN x = 1 .. N
    OBVIOUS
  <1>2. ASSUME NEW i \in S PROVE e[i] \in T /\ i \in Nat /\ (i # 1 => i - 1 \in S /\ i - 1 < i)
    <2>1. x[i] \in Seq(C) /\ <<"/">> \in Seq(C)
      BY <1>1
    <2>2. <<"/">> \o x[i] \in Seq(C)
      BY <2>1
    <2> QED
      BY <1>1, <2>2
  <1>3. size \in [S -> Nat] /\ <<>> \in T
    OBVIOUS
  <1>4. Len(e) = N /\ DOMAIN e = 1 .. N
    <2>1. e \in [1 .. N -> T]
      BY <1>1, <1>2
    <2> HIDE DEF e, T, N
    <2>2. e \in Seq(T)
      BY <1>1, <2>1, SeqDef
    <2>3. Len(e) \in Nat /\ DOMAIN e = 1 .. Len(e) /\ DOMAIN e = 1 .. N
      BY <2>1, <2>2
    <2> DEFINE l == Len(e)
    <2> HIDE DEF l
    <2>4. l \in Nat /\ 1 .. l = 1 .. N
      BY <2>3 DEF l
    <2>5. l \in 1 .. l => l \in 1 .. N
      BY <2>4
    <2>6. N \in 1 .. N => N \in 1 .. l
      BY <2>4
    <2>7. l = N
      BY <1>1, <2>4, <2>5, <2>6
    <2> QED
      BY <2>3, <2>7 DEF l
  <1> HIDE DEF e
  <1>5. ASSUME NEW a \in T, NEW b \in T PROVE a \o b \in T
    OBVIOUS
  <1> HIDE DEF T
  <1>6. ASSUME NEW g \in [S -> T], NEW i \in S PROVE step(g, i) \in T
    BY <1>2, <1>5
  <1>7. PICK f \in [S -> T] : f = Body[f]
    <2>1. ASSUME NEW g \in [S -> T], NEW h \in [S -> T], NEW i \in S,
                 \A r \in S : size[r] < size[i] => g[r] = h[r]
          PROVE  step(g, i) = step(h, i)
      <3>1. i # 1 => g[i - 1] = h[i - 1]
        BY <1>2, <2>1
      <3> QED
        BY <3>1
    <2> HIDE DEF step, S, T, size
    <2>2. Grounded(S, T, size, Body)
      BY <1>3, <1>6, <2>1, ZenonT(60) DEF Grounded
    <2> HIDE DEF Body
    <2> QED
      BY <2>2, Recursion
  <1>8. f = [i \in S |-> step(f, i)]
    BY <1>7
  <1>9. flatten = [i \in S |-> step(flatten, i)]
    BY <1>8
  <1>10. ASSUME NEW i \in S PROVE flatten[i] = step(flatten, i)
    <2> HIDE DEF flatten, step
    <2> QED
      BY <1>9
  <1>11. FlattenSeq(e) = IF Len(e) = 0 THEN e ELSE flatten[N]
    BY <1>4 DEF FlattenSeq
  <1> HIDE DEF flatten
  <1>12. S \subseteq P
    <2>1. ASSUME NEW i \in S, \A r \in S : size[r] < size[i] => r \in P PROVE i \in P
      <3>1. i # 1 => flatten[i - 1] \in T
        BY <1>2, <2>1
      <3>2. flatten[i] = IF i = 1 THEN e[i] ELSE flatten[i - 1] \o e[i]
        BY <1>10
      <3>3. flatten[i] \in T
        BY <1>2, <1>5, <3>1, <3>2
      <3> QED
        BY <3>3
    <2> HIDE DEF P, S, size
    <2> QED
      BY <1>3, <2>1, MeasureInduction
  <1>13. ASSUME NEW n \in 0 .. N PROVE q[n] \in T
    <2>1. CASE n = 0
      BY <1>1, <1>3, <2>1
    <2>2. CASE n # 0
      <3>1. n \in S
        BY <1>1, <2>2
      <3>2. q[n] = flatten[n] /\ flatten[n] \in T
        BY <1>12, <2>2, <3>1
      <3> QED
        BY <3>2
    <2> QED
      BY <2>1, <2>2
  <1>14. ASSUME NEW n \in 1 .. N PROVE q[n] = q[n - 1] \o e[n]
    <2>1. flatten[n] = IF n = 1 THEN e[n] ELSE flatten[n - 1] \o e[n]
      BY <1>10
    <2>2. CASE n = 1
      <3>1. <<>> \o e[n] = e[n]
        BY <1>2 DEF T
      <3>2. q[n] = flatten[n] /\ q[n - 1] = <<>>
        BY <1>1, <2>2
      <3> QED
        BY <2>1, <2>2, <3>1, <3>2
    <2>3. CASE n # 1
      <3>1. q[n] = flatten[n] /\ q[n - 1] = flatten[n - 1]
        BY <1>1, <2>3
      <3> QED
        BY <2>1, <2>3, <3>1
    <2> QED
      BY <2>2, <2>3
  <1>15. q[0] = <<>>
    BY <1>1
  <1>16. x # <<>> => PathString(x) = q[N]
    <2> SUFFICES ASSUME x # <<>> PROVE PathString(x) = q[N]
      OBVIOUS
    <2>1. N # 0
      OBVIOUS
    <2>2. PathString(x) = FlattenSeq(e)
      <3>1. [n \in DOMAIN x |-> <<"/">> \o x[n]] = e
        BY <1>1 DEF e
      <3> HIDE DEF N
      <3> QED
        BY <3>1 DEF PathString
    <2>3. q[N] = flatten[N]
      BY <1>1, <2>1
    <2> QED
      BY <1>4, <1>11, <2>1, <2>2, <2>3
  <1> HIDE DEF q
  <1>17. Pieces(N, C, q, e)
    BY <1>2, <1>13, <1>14 DEF Pieces, T
  <1> QED
    BY <1>15, <1>16, <1>17 DEF e

(* The text s of the place x, whose first n names end at ends[n].          *)
PlaceSpells(x, ends, s) ==
    /\ \A n \in 0 .. Len(x) : ends[n] \in Nat /\ ends[n] <= Len(s)
    /\ ends[0] = 0 /\ Len(s) = ends[Len(x)]
    /\ \A m \in 0 .. Len(x), n \in 1 .. Len(x) :
         n = m + 1 =>
           /\ ends[n] = ends[m] + 1 + Len(x[n])
           /\ s[ends[m] + 1] = "/"
           /\ \A j \in 1 .. Len(x[n]) : s[ends[m] + 1 + j] = x[n][j]

LEMMA PlaceText ==
    ASSUME NEW C, "/" \in C, NEW x \in Seq(Seq(C)), x # <<>>
    PROVE  PathString(x) \in Seq(C) /\ \E ends : PlaceSpells(x, ends, PathString(x))
  <1> DEFINE N == Len(x)
             piece == [n \in 1 .. N |-> <<"/">> \o x[n]]
  <1>1. PICK q : Pieces(N, C, q, piece) /\ q[0] = <<>> /\ PathString(x) = q[N]
    BY PathStringPieces
  <1> DEFINE ends == [n \in 0 .. N |-> Len(q[n])]
             s == PathString(x)
  <1>2. N \in Nat /\ DOMAIN x = 1 .. N /\ N # 0
    OBVIOUS
  <1>3. ASSUME NEW n \in 0 .. N PROVE q[n] \in Seq(C)
    BY <1>1 DEF Pieces
  <1>4. ASSUME NEW n \in 1 .. N
        PROVE  /\ Len(piece[n]) = 1 + Len(x[n]) /\ piece[n][1] = "/"
               /\ \A j \in 1 .. Len(x[n]) : piece[n][1 + j] = x[n][j]
               /\ Len(x[n]) \in Nat
    <2> DEFINE a == x[n]
    <2>1. a \in Seq(C) /\ <<"/">> \in Seq(C)
      BY <1>2
    <2>2. piece[n] = <<"/">> \o a
      OBVIOUS
    <2> HIDE DEF a, piece
    <2>3. /\ Len(<<"/">> \o a) = 1 + Len(a) /\ (<<"/">> \o a)[1] = "/"
          /\ \A j \in 1 .. Len(a) : (<<"/">> \o a)[1 + j] = a[j]
          /\ Len(a) \in Nat
      BY <2>1
    <2> QED
      BY <2>2, <2>3 DEF a
  <1> HIDE DEF piece, N, s
  <1>5. ASSUME NEW m \in 0 .. N, NEW n \in 1 .. N, n = m + 1
        PROVE  PieceInPlace(N, q, piece, n, m)
    <2>1. m = n - 1
      BY <1>2, <1>5
    <2> QED
      BY <1>1, <1>2, <2>1, PiecesStay
  <1>6. ASSUME NEW n \in 0 .. N PROVE ends[n] \in Nat /\ ends[n] <= Len(s)
    <2>1. q[n] \in Seq(C) /\ q[N] \in Seq(C) /\ ends[n] = Len(q[n])
      BY <1>2, <1>3
    <2>2. CASE n = 0
      BY <1>1, <1>2, <2>1, <2>2 DEF s
    <2>3. CASE n # 0
      <3> DEFINE m == n - 1
      <3>1. m \in 0 .. N /\ n \in 1 .. N /\ n = m + 1
        BY <1>2, <2>3
      <3> HIDE DEF m
      <3>2. PieceInPlace(N, q, piece, n, m)
        BY <1>5, <3>1
      <3> QED
        <4>1. Len(q[n]) <= Len(q[N])
          BY <3>2 DEF PieceInPlace
        <4>2. Len(q[n]) \in Nat /\ s = q[N]
          BY <1>1, <2>1 DEF s
        <4> QED
          BY <2>1, <4>1, <4>2
    <2> QED
      BY <2>2, <2>3
  <1>7. ends[0] = 0 /\ Len(s) = ends[N]
    BY <1>1, <1>2 DEF s
  <1>8. ASSUME NEW m \in 0 .. N, NEW n \in 1 .. N, n = m + 1
        PROVE  /\ ends[n] = ends[m] + 1 + Len(x[n])
               /\ s[ends[m] + 1] = "/"
               /\ \A j \in 1 .. Len(x[n]) : s[ends[m] + 1 + j] = x[n][j]
    <2> DEFINE a == Len(q[m])
               l == Len(x[n])
    <2>1. a \in Nat /\ l \in Nat /\ ends[m] = a /\ ends[n] = Len(q[n])
      BY <1>2, <1>3, <1>4
    <2>2. PieceInPlace(N, q, piece, n, m)
      BY <1>5, <1>8
    <2>3. Len(q[n]) = a + Len(piece[n]) /\ \A j \in 1 .. Len(piece[n]) : s[a + j] = piece[n][j]
      BY <1>1, <2>2 DEF PieceInPlace, s
    <2> HIDE DEF a, l
    <2>4. Len(piece[n]) = 1 + l /\ piece[n][1] = "/" /\ \A j \in 1 .. l : piece[n][1 + j] = x[n][j]
      BY <1>4 DEF l
    <2>5. s[a + 1] = "/"
      BY <2>1, <2>3, <2>4, 1 \in 1 .. 1 + l
    <2>6. ASSUME NEW j \in 1 .. l PROVE s[a + 1 + j] = x[n][j]
      <3>1. 1 + j \in 1 .. 1 + l /\ a + (1 + j) = a + 1 + j
        BY <2>1
      <3> QED
        BY <2>3, <2>4, <3>1
    <2>7. ends[n] = a + 1 + l
      BY <2>1, <2>3, <2>4
    <2> QED
      BY <2>1, <2>5, <2>6, <2>7 DEF l
  <1> HIDE DEF ends
  <1>9. PlaceSpells(x, ends, s)
    BY <1>6, <1>7, <1>8 DEF PlaceSpells, N
  <1>10. s \in Seq(C)
    BY <1>1, <1>2, <1>3 DEF s
  <1> QED
    BY <1>9, <1>10 DEF s

LEMMA NamesAgree ==
    ASSUME NEW x, NEW y, NEW q, NEW r, NEW s, NEW t, PlaceSpells(x, q, s), PlaceSpells(y, r, t),
           Len(x) \in Nat, Len(y) \in Nat,
           NEW l \in Nat, l <= Len(x), l <= Len(y), \A n \in 1 .. l : x[n] = y[n] /\ Len(x[n]) \in Nat
    PROVE  q[l] = r[l] /\ \A i \in 1 .. q[l] : s[i] = t[i]
  <1> DEFINE P == {k \in Nat : k <= l => q[k] = r[k] /\ \A i \in 1 .. q[k] : s[i] = t[i]}
             X == Len(x)
             Y == Len(y)
  <1>0. X \in Nat /\ Y \in Nat /\ l <= X /\ l <= Y
    OBVIOUS
  <1>1. /\ q[0] = 0 /\ r[0] = 0
        /\ \A n \in 0 .. X : q[n] \in Nat
    BY DEF PlaceSpells
  <1>2. 0 \in P
    BY <1>1
  <1>3. ASSUME NEW k \in Nat, k \in P PROVE k + 1 \in P
    <2> DEFINE n == k + 1
    <2> SUFFICES ASSUME n <= l PROVE q[n] = r[n] /\ \A i \in 1 .. q[n] : s[i] = t[i]
      OBVIOUS
    <2>1. /\ k \in 0 .. X /\ k \in 0 .. Y /\ n \in 1 .. X /\ n \in 1 .. Y /\ n = k + 1 /\ n \in 1 .. l
          /\ k <= l /\ n \in 0 .. X
      BY <1>0
    <2> HIDE DEF n, X, Y
    <2>2. /\ q[n] = q[k] + 1 + Len(x[n])
          /\ s[q[k] + 1] = "/"
          /\ \A j \in 1 .. Len(x[n]) : s[q[k] + 1 + j] = x[n][j]
      BY <2>1 DEF PlaceSpells, X
    <2>3. /\ r[n] = r[k] + 1 + Len(y[n])
          /\ t[r[k] + 1] = "/"
          /\ \A j \in 1 .. Len(y[n]) : t[r[k] + 1 + j] = y[n][j]
      BY <2>1 DEF PlaceSpells, Y
    <2>4. x[n] = y[n] /\ Len(x[n]) \in Nat
      BY <2>1
    <2>5. q[k] = r[k] /\ (\A i \in 1 .. q[k] : s[i] = t[i]) /\ q[k] \in Nat
      BY <1>1, <1>3, <2>1
    <2> DEFINE a == q[k]
               b == Len(x[n])
    <2>6. /\ a \in Nat /\ b \in Nat /\ q[n] = a + 1 + b /\ r[n] = a + 1 + b
          /\ s[a + 1] = t[a + 1]
          /\ \A j \in 1 .. b : s[a + 1 + j] = t[a + 1 + j]
          /\ \A i \in 1 .. a : s[i] = t[i]
      BY <2>2, <2>3, <2>4, <2>5
    <2> HIDE DEF a, b
    <2>7. ASSUME NEW i \in 1 .. a + 1 + b PROVE s[i] = t[i]
      <3>1. CASE i <= a
        BY <2>6, <3>1
      <3>2. CASE i = a + 1
        BY <2>6, <3>2
      <3>3. CASE i > a + 1
        <4>1. i - (a + 1) \in 1 .. b /\ a + 1 + (i - (a + 1)) = i
          BY <2>6, <3>3
        <4> QED
          BY <2>6, <4>1
      <3> QED
        BY <2>6, <3>1, <3>2, <3>3
    <2> QED
      BY <2>6, <2>7
  <1>4. l \in P
    <2> HIDE DEF P
    <2> QED
      BY <1>2, <1>3, Induction
  <1> QED
    BY <1>4

(* Texts of places compare like the places.                                *)
LEMMA PlacesByText ==
    ASSUME NEW C, "/" \in C, NEW x \in ProperPlaces(C), NEW y \in ProperPlaces(C), x # <<>>
    PROVE  IsPrefix(Append(PathString(x), "/"), PathString(y)) <=> IsStrictPrefix(x, y)
  <1> DEFINE s == PathString(x)
             t == PathString(y)
             X == Len(x)
             Y == Len(y)
             L == Len(s)
  <1>1. /\ x \in Seq(Seq(C)) /\ y \in Seq(Seq(C)) /\ X \in Nat /\ Y \in Nat
        /\ DOMAIN x = 1 .. X /\ DOMAIN y = 1 .. Y /\ X # 0
        /\ \A n \in 1 .. X : Len(x[n]) \in Nat /\ x[n] \in Seq(C)
        /\ \A n \in 1 .. Y : Len(y[n]) \in Nat /\ y[n] \in Seq(C)
    BY DEF ProperPlaces
  <1>2. /\ \A n \in 1 .. X : \A j \in 1 .. Len(x[n]) : x[n][j] # "/"
        /\ \A n \in 1 .. Y : \A j \in 1 .. Len(y[n]) : y[n][j] # "/"
    <2>1. /\ \A n \in 1 .. X : DOMAIN x[n] = 1 .. Len(x[n])
          /\ \A n \in 1 .. Y : DOMAIN y[n] = 1 .. Len(y[n])
      BY <1>1
    <2> QED
      BY <1>1, <2>1 DEF ProperPlaces
  <1>3. s \in Seq(C) /\ L \in Nat
    BY <1>1, PlaceText
  <1>4. PICK q : PlaceSpells(x, q, s)
    BY <1>1, PlaceText
  <1>5. Append(s, "/") \in Seq(C) /\ Len(Append(s, "/")) = L + 1
        /\ Append(s, "/")[L + 1] = "/" /\ \A i \in 1 .. L : Append(s, "/")[i] = s[i]
    BY <1>3
  <1>6. CASE y = <<>>
    <2>1. t = <<"/">> /\ t \in Seq(C) /\ Len(t) = 1
      BY <1>6 DEF PathString
    <2>2. q[0] = 0 /\ q[X] = L /\ q[1] = q[0] + 1 + Len(x[1]) /\ q[1] <= L
      BY <1>1, <1>4, 1 \in 1 .. X, 1 = 0 + 1 DEF PlaceSpells
    <2>3. L >= 1
      BY <1>1, <1>3, <2>2
    <2>4. ~IsPrefix(Append(s, "/"), t)
      BY <1>5, <2>1, <2>3, <1>3 DEF IsPrefix
    <2>5. ~IsStrictPrefix(x, y)
      <3>1. Len(y) = 0
        BY <1>6
      <3> QED
        BY <1>1, <3>1 DEF IsStrictPrefix, IsPrefix
    <2> QED
      BY <2>4, <2>5
  <1>7. CASE y # <<>>
    <2> DEFINE M == Len(t)
    <2>1. t \in Seq(C) /\ M \in Nat
      BY <1>1, <1>7, PlaceText
    <2>2. PICK r : PlaceSpells(y, r, t)
      BY <1>1, <1>7, PlaceText
    <2>3. IsPrefix(Append(s, "/"), t) <=>
            L + 1 <= M /\ t[L + 1] = "/" /\ \A i \in 1 .. L : s[i] = t[i]
      <3>1. IsPrefix(Append(s, "/"), t) <=>
              L + 1 <= M /\ \A i \in 1 .. L + 1 : Append(s, "/")[i] = t[i]
        <4> DEFINE w == Append(s, "/")
        <4>1. w \in Seq(C) /\ Len(w) = L + 1
          BY <1>5
        <4> HIDE DEF w, L, s, t
        <4>2. IsPrefix(w, t) <=> Len(w) <= Len(t) /\ \A i \in 1 .. Len(w) : w[i] = t[i]
          BY <2>1, <4>1, PrefixElements
        <4> QED
          BY <4>1, <4>2 DEF w
      <3>2. \A i \in 1 .. L + 1 : i = L + 1 \/ i \in 1 .. L
        BY <1>3
      <3>3. L + 1 \in 1 .. L + 1 /\ \A i \in 1 .. L : i \in 1 .. L + 1
        BY <1>3
      <3> HIDE DEF L, M, s, t
      <3> QED
        BY <1>5, <3>1, <3>2, <3>3
    <2>4. IsStrictPrefix(x, y) <=> X < Y /\ \A n \in 1 .. X : x[n] = y[n]
      <3>1. IsPrefix(x, y) <=> X <= Y /\ \A n \in 1 .. X : x[n] = y[n]
        <4> DEFINE D == Seq(C)
        <4>1. x \in Seq(D) /\ y \in Seq(D)
          BY <1>1
        <4> HIDE DEF D
        <4> QED
          BY <4>1, PrefixElements
      <3>2. x = y => X = Y
        OBVIOUS
      <3>3. X = Y /\ (\A n \in 1 .. X : x[n] = y[n]) => x = y
        BY <1>1
      <3>4. IsStrictPrefix(x, y) <=> IsPrefix(x, y) /\ x # y
        BY DEF IsStrictPrefix
      <3>5. X \in Nat /\ Y \in Nat
        BY <1>1
      <3> HIDE DEF X, Y, s, t
      <3>6. X < Y <=> X <= Y /\ X # Y
        BY <3>5
      <3> QED
        BY <3>1, <3>2, <3>3, <3>4, <3>6
    <2> HIDE DEF X, Y, L, M, s, t
    <2>5. /\ \A n \in 0 .. X : q[n] \in Nat /\ q[n] <= L
          /\ q[0] = 0 /\ L = q[X]
          /\ \A m \in 0 .. X, n \in 1 .. X :
               n = m + 1 =>
                 /\ q[n] = q[m] + 1 + Len(x[n])
                 /\ s[q[m] + 1] = "/"
                 /\ \A j \in 1 .. Len(x[n]) : s[q[m] + 1 + j] = x[n][j]
      BY <1>4 DEF PlaceSpells, X, L
    <2>6. /\ \A n \in 0 .. Y : r[n] \in Nat /\ r[n] <= M
          /\ r[0] = 0 /\ M = r[Y]
          /\ \A m \in 0 .. Y, n \in 1 .. Y :
               n = m + 1 =>
                 /\ r[n] = r[m] + 1 + Len(y[n])
                 /\ t[r[m] + 1] = "/"
                 /\ \A j \in 1 .. Len(y[n]) : t[r[m] + 1 + j] = y[n][j]
      BY <2>2 DEF PlaceSpells, Y, M
    <2>7. ASSUME NEW k \in Nat, k <= X, k <= Y, \A n \in 1 .. k : x[n] = y[n]
          PROVE  q[k] = r[k] /\ \A i \in 1 .. q[k] : s[i] = t[i]
      <3>1. \A n \in 1 .. k : x[n] = y[n] /\ Len(x[n]) \in Nat
        BY <1>1, <2>7
      <3>2. Len(x) \in Nat /\ Len(y) \in Nat /\ k <= Len(x) /\ k <= Len(y)
        BY <1>1, <2>7 DEF X, Y
      <3> QED
        BY <1>4, <2>2, <3>1, <3>2, NamesAgree
    <2>8. ASSUME X < Y, \A n \in 1 .. X : x[n] = y[n]
          PROVE  L + 1 <= M /\ t[L + 1] = "/" /\ \A i \in 1 .. L : s[i] = t[i]
      <3>1. X <= X /\ X <= Y /\ X \in 0 .. Y /\ X + 1 \in 1 .. Y /\ X + 1 \in 0 .. Y
        BY <1>1, <2>8
      <3>2. q[X] = r[X] /\ \A i \in 1 .. q[X] : s[i] = t[i]
        BY <1>1, <2>7, <2>8, <3>1
      <3> DEFINE n == X + 1
      <3>3. n \in 1 .. Y /\ n = X + 1 /\ n \in 0 .. Y
        BY <3>1
      <3> HIDE DEF n
      <3>4. r[n] = r[X] + 1 + Len(y[n]) /\ t[r[X] + 1] = "/" /\ r[n] <= M /\ r[n] \in Nat
        BY <2>6, <3>1, <3>3
      <3>5. Len(y[n]) \in Nat
        BY <1>1, <3>3
      <3>6. r[X] = L
        BY <2>5, <3>2
      <3>7. L + 1 <= M
        <4> DEFINE c == Len(y[n])
                   e == r[n]
        <4>1. e = L + 1 + c /\ c \in Nat /\ e <= M
          BY <3>4, <3>5, <3>6
        <4> HIDE DEF c, e
        <4> QED
          BY <1>3, <2>1, <4>1
      <3> QED
        BY <2>5, <3>2, <3>4, <3>6, <3>7
    <2>9. ASSUME L + 1 <= M, t[L + 1] = "/", \A i \in 1 .. L : s[i] = t[i]
          PROVE  X < Y /\ \A n \in 1 .. X : x[n] = y[n]
      <3> DEFINE P == {k \in Nat : k <= X => k <= Y /\ \A n \in 1 .. k : x[n] = y[n]}
      <3>1. 0 \in P
        BY <1>1
      <3>2. ASSUME NEW k \in Nat, k \in P PROVE k + 1 \in P
        <4> DEFINE n == k + 1
        <4> SUFFICES ASSUME n <= X PROVE n <= Y /\ \A m \in 1 .. n : x[m] = y[m]
          OBVIOUS
        <4>1. k \in 0 .. X /\ n \in 1 .. X /\ n = k + 1 /\ k <= X /\ k <= Y /\ k \in 0 .. Y /\ n \in 0 .. X
          BY <1>1, <3>2
        <4>2. (\A m \in 1 .. k : x[m] = y[m]) /\ q[k] = r[k]
          BY <2>7, <3>2, <4>1
        <4> HIDE DEF n
        <4> DEFINE a == q[k]
                   u == Len(x[n])
                   v == Len(y[n])
        <4>3. /\ a \in Nat /\ u \in Nat /\ q[n] = a + 1 + u /\ a + 1 + u <= L
              /\ \A j \in 1 .. u : s[a + 1 + j] = x[n][j]
          BY <1>1, <2>5, <4>1
        <4>4. n <= Y
          <5> SUFFICES ASSUME k = Y PROVE FALSE
            BY <1>1, <4>1
          <5>1. M = a
            BY <2>6, <4>2
          <5> HIDE DEF a, u
          <5> QED
            BY <1>3, <2>9, <4>3, <5>1
        <4>5. n \in 1 .. Y /\ n \in 0 .. Y
          BY <1>1, <4>1, <4>4
        <4>6. /\ v \in Nat /\ r[n] = a + 1 + v /\ a + 1 + v <= M
              /\ \A j \in 1 .. v : t[a + 1 + j] = y[n][j]
          BY <1>1, <2>6, <4>1, <4>2, <4>5
        <4>7. t[a + 1 + u + 1] = "/"
          <5>1. CASE n = X
            BY <2>5, <2>9, <4>3, <5>1
          <5>2. CASE n # X
            <6> DEFINE o == n + 1
            <6>1. o \in 1 .. X /\ o = n + 1 /\ o \in 0 .. X
              BY <1>1, <4>1, <5>2
            <6> HIDE DEF o
            <6>2. s[q[n] + 1] = "/" /\ q[o] = q[n] + 1 + Len(x[o]) /\ q[o] <= L /\ Len(x[o]) \in Nat
              BY <1>1, <2>5, <4>1, <6>1
            <6>3. a + 1 + u + 1 \in 1 .. L
              <7> DEFINE c == Len(x[o])
                         e == q[o]
              <7>1. e = a + 1 + u + 1 + c /\ c \in Nat /\ e <= L
                BY <4>3, <6>2
              <7>2. a \in Nat /\ u \in Nat
                BY <4>3
              <7> HIDE DEF a, u, c, e
              <7> QED
                BY <1>3, <7>1, <7>2
            <6> QED
              BY <2>9, <4>3, <6>2, <6>3
          <5> QED
            BY <5>1, <5>2
        <4>8. v <= u
          <5> SUFFICES ASSUME u < v PROVE FALSE
            BY <4>3, <4>6
          <5>1. u + 1 \in 1 .. v /\ a + 1 + (u + 1) = a + 1 + u + 1
            <6>1. a \in Nat /\ u \in Nat /\ v \in Nat
              BY <4>3, <4>6
            <6> HIDE DEF a, u, v
            <6> QED
              BY <6>1
          <5>2. y[n][u + 1] = "/"
            BY <4>6, <4>7, <5>1
          <5> QED
            BY <1>2, <4>5, <5>1, <5>2
        <4>9. u <= v
          <5> SUFFICES ASSUME v < u PROVE FALSE
            BY <4>3, <4>6
          <5>1. v + 1 \in 1 .. u /\ a + 1 + (v + 1) = a + 1 + v + 1 /\ a + 1 + v + 1 \in 1 .. L
            <6>1. a \in Nat /\ u \in Nat /\ v \in Nat /\ a + 1 + u <= L
              BY <4>3, <4>6
            <6> HIDE DEF a, u, v
            <6> QED
              BY <1>3, <6>1
          <5>2. t[a + 1 + v + 1] = x[n][v + 1] /\ x[n][v + 1] # "/"
            <6> DEFINE w == v + 1
                       i == a + 1 + v + 1
            <6>1. w \in 1 .. u /\ a + 1 + w = i /\ i \in 1 .. L
              BY <5>1
            <6>2. \A j \in 1 .. u : s[a + 1 + j] = x[n][j] /\ x[n][j] # "/"
              BY <1>2, <4>1, <4>3
            <6> HIDE DEF w, i, a, u, v
            <6>3. s[i] = x[n][w] /\ x[n][w] # "/"
              BY <6>1, <6>2
            <6>4. t[i] = x[n][w] /\ x[n][w] # "/"
              BY <2>9, <6>1, <6>3
            <6> QED
              BY <6>4 DEF w, i
          <5>3. CASE n = Y
            <6>1. M = a + 1 + v
              BY <2>6, <4>6, <5>3
            <6>2. a + 1 + u <= L /\ a \in Nat /\ u \in Nat /\ v \in Nat /\ v < u /\ L + 1 <= M
              BY <2>9, <4>3, <4>6
            <6>3. L \in Nat /\ M \in Nat
              BY <1>3, <2>1
            <6> HIDE DEF a, u, v
            <6> QED
              BY ONLY <6>1, <6>2, <6>3
          <5>4. CASE n # Y
            <6> DEFINE o == n + 1
            <6>1. o \in 1 .. Y /\ o = n + 1 /\ o \in 0 .. Y
              BY <1>1, <4>5, <5>4
            <6> HIDE DEF o
            <6>2. t[r[n] + 1] = "/"
              BY <2>6, <4>5, <6>1
            <6> QED
              BY <4>6, <5>2, <6>2
          <5> QED
            BY <5>3, <5>4
        <4>10. u = v
          BY <4>3, <4>6, <4>8, <4>9
        <4>11. ASSUME NEW j \in 1 .. u PROVE x[n][j] = y[n][j]
          <5>1. a + 1 + j \in 1 .. L
            BY <1>3, <4>3
          <5>2. s[a + 1 + j] = x[n][j] /\ t[a + 1 + j] = y[n][j]
            BY <4>3, <4>6, <4>10
          <5> QED
            BY <2>9, <5>1, <5>2
        <4>12. x[n] = y[n]
          <5> DEFINE b == x[n]
                     c == y[n]
          <5>1. b \in Seq(C) /\ c \in Seq(C) /\ Len(b) = Len(c) /\ \A j \in 1 .. Len(b) : b[j] = c[j]
            BY <1>1, <4>1, <4>5, <4>10, <4>11
          <5> HIDE DEF b, c
          <5>2. b = c
            BY <5>1
          <5> QED
            BY <5>2 DEF b, c
        <4>13. \A m \in 1 .. n : m = n \/ m \in 1 .. k
          BY <4>1
        <4> QED
          BY <4>2, <4>4, <4>12, <4>13
      <3>3. X \in P
        <4> HIDE DEF P
        <4> QED
          BY <1>1, <3>1, <3>2, Induction
      <3>4. X <= Y /\ \A n \in 1 .. X : x[n] = y[n]
        BY <1>1, <3>3
      <3>5. X # Y
        <4> SUFFICES ASSUME X = Y PROVE FALSE
          OBVIOUS
        <4>1. q[X] = r[X] /\ X <= X
          BY <1>1, <2>7, <3>4
        <4>2. L = M
          BY <2>5, <2>6, <4>1
        <4> QED
          BY <1>3, <2>1, <2>9, <4>2
      <3> QED
        BY <1>1, <3>4, <3>5
    <2>10. IsPrefix(Append(s, "/"), t) <=> IsStrictPrefix(x, y)
      BY <2>3, <2>4, <2>8, <2>9
    <2> QED
      BY <2>10 DEF s, t
  <1> QED
    BY <1>6, <1>7

(* Where paths lead is such a place.                                       *)
LEMMA NextSeparator ==
    ASSUME NEW C, NEW p \in Seq(C), NEW i \in Nat \ {0}, i <= Len(p), NEW e,
           e = Min({Len(p) + 1} \cup {j \in i .. Len(p) : p[j] = "/"})
    PROVE  /\ e \in Nat /\ i <= e /\ e <= Len(p) + 1
           /\ \A j \in i .. e - 1 : p[j] # "/"
           /\ SubSeq(p, i, e - 1) \in Seq(C)
           /\ \A j \in DOMAIN SubSeq(p, i, e - 1) : SubSeq(p, i, e - 1)[j] # "/"
  <1> DEFINE stops == {Len(p) + 1} \cup {j \in i .. Len(p) : p[j] = "/"}
             L == Len(p)
  <1>1. L \in Nat /\ stops \subseteq Nat /\ L + 1 \in stops /\ \A j \in stops : i <= j /\ j <= L + 1
    OBVIOUS
  <1>2. e \in stops /\ \A j \in stops : e <= j
    <2> HIDE DEF stops
    <2> QED
      BY <1>1, MinIsLeast DEF stops
  <1>3. e \in Nat /\ i <= e /\ e <= L + 1
    BY <1>1, <1>2
  <1>4. ASSUME NEW j \in i .. e - 1 PROVE p[j] # "/"
    <2>1. j \in i .. L /\ ~(e <= j)
      BY <1>1, <1>3
    <2>2. j \notin stops
      <3> HIDE DEF stops
      <3> QED
        BY <1>2, <2>1
    <2> QED
      BY <2>1, <2>2
  <1> DEFINE d == e - 1
             s == SubSeq(p, i, d)
  <1>5. d \in Nat /\ i <= d + 1 /\ d <= L
    BY <1>3, <1>1
  <1> HIDE DEF stops, d
  <1>6. s \in Seq(C) /\ DOMAIN s = 1 .. Len(s) /\ Len(s) = (IF i <= d THEN d - i + 1 ELSE 0)
        /\ \A j \in 1 .. d - i + 1 : s[j] = p[i + j - 1]
    BY <1>5
  <1>7. ASSUME NEW j \in DOMAIN s PROVE s[j] # "/"
    <2>1. j \in 1 .. d - i + 1
      BY <1>5, <1>6
    <2>2. i + j - 1 \in i .. d /\ s[j] = p[i + j - 1]
      BY <1>5, <1>6, <2>1
    <2> QED
      BY <1>4, <2>2 DEF d
  <1> QED
    BY <1>3, <1>4, <1>6, <1>7 DEF d

LEMMA ProperConcat ==
    ASSUME NEW C, NEW x \in ProperPlaces(C), NEW y \in ProperPlaces(C)
    PROVE  x \o y \in ProperPlaces(C)
  <1> DEFINE D == Seq(C)
             ok(n) == n # <<>> /\ \A j \in DOMAIN n : n[j] # "/"
  <1>1. x \in Seq(D) /\ y \in Seq(D) /\ (\A i \in DOMAIN x : ok(x[i])) /\ (\A i \in DOMAIN y : ok(y[i]))
    BY DEF ProperPlaces
  <1> HIDE DEF D, ok
  <1>2. x \o y \in Seq(D)
    BY <1>1
  <1>3. ASSUME NEW i \in DOMAIN (x \o y) PROVE ok((x \o y)[i])
    <2>1. CASE i \in 1 .. Len(x)
      BY <1>1, <2>1
    <2>2. CASE i \notin 1 .. Len(x)
      <3>1. i - Len(x) \in 1 .. Len(y) /\ (x \o y)[i] = y[i - Len(x)]
        BY <1>1, <2>2
      <3> QED
        BY <1>1, <3>1
    <2> QED
      BY <2>1, <2>2
  <1> QED
    BY <1>2, <1>3 DEF ProperPlaces, D, ok

LEMMA ProperOne ==
    ASSUME NEW C, NEW n \in Seq(C), n # <<>>, \A j \in DOMAIN n : n[j] # "/"
    PROVE  <<n>> \in ProperPlaces(C) /\ <<>> \in ProperPlaces(C)
  <1> DEFINE D == Seq(C)
  <1>1. <<n>> \in Seq(D) /\ <<>> \in Seq(D) /\ DOMAIN <<n>> = {1} /\ <<n>>[1] = n
    OBVIOUS
  <1> HIDE DEF D
  <1>2. \A i \in DOMAIN <<n>> : <<n>>[i] = n
    BY <1>1
  <1>3. DOMAIN <<>> = {}
    OBVIOUS
  <1> QED
    BY <1>1, <1>2, <1>3 DEF ProperPlaces, D

LEMMA NamesProper ==
    ASSUME NEW C, NEW p \in Seq(C)
    PROVE  Names(p) \in ProperPlaces(C)
  <1> DEFINE
        S == Nat \ {0}
        T == ProperPlaces(C)
        left == [i \in S |-> BytesLeft(p)[i]]
        end(i) == Min({Len(p) + 1} \cup {j \in i .. Len(p) : p[j] = "/"})
        part(i) == SubSeq(p, i, end(i) - 1)
        name(i) == IF part(i) \in {<<>>, <<".">>} THEN <<>> ELSE <<part(i)>>
        step(f, i) == IF i > Len(p) THEN <<>> ELSE name(i) \o f[end(i) + 1]
        Body == [f \in [S -> T] |-> [i \in S |-> step(f, i)]]
        names == CHOOSE f : f = [i \in S |-> step(f, i)]
        P == {i \in S : names[i] \in T}
  <1>1. Len(p) \in Nat /\ IsText(p)
    BY DEF IsText
  <1>2. <<>> \in T
    BY DEF ProperPlaces
  <1>3. left \in [S -> Nat]
    BY <1>1, BytesLeftType
  <1>4. ASSUME NEW i \in S, i <= Len(p)
        PROVE  end(i) + 1 \in S /\ left[end(i) + 1] < left[i] /\ name(i) \in T
    <2> DEFINE e == end(i)
               s == SubSeq(p, i, e - 1)
    <2> HIDE DEF e
    <2>1. /\ e \in Nat /\ i <= e /\ s \in Seq(C) /\ \A j \in DOMAIN s : s[j] # "/"
      BY <1>4, NextSeparator DEF e
    <2>2. e + 1 \in S /\ i < e + 1
      BY <2>1
    <2>3. left[e + 1] < left[i]
      BY <1>1, <1>4, <2>2, FewerBytesLeft
    <2> HIDE DEF s
    <2>4. s # <<>> => <<s>> \in T
      BY <2>1, ProperOne
    <2>5. (IF s \in {<<>>, <<".">>} THEN <<>> ELSE <<s>>) \in T
      BY <1>2, <2>4
    <2> QED
      BY <2>2, <2>3, <2>5 DEF e, s
  <1> HIDE DEF left, T, name, end
  <1>5. ASSUME NEW i \in S, i <= Len(p), NEW y \in T PROVE name(i) \o y \in T
    BY <1>4, <1>5, ProperConcat DEF T
  <1>6. ASSUME NEW g \in [S -> T], NEW i \in S PROVE step(g, i) \in T
    <2>1. CASE i > Len(p)
      BY <1>2, <2>1
    <2>2. CASE i <= Len(p)
      <3>1. g[end(i) + 1] \in T
        BY <1>4, <2>2
      <3>2. name(i) \o g[end(i) + 1] \in T
        BY <1>5, <2>2, <3>1
      <3> QED
        BY <1>1, <2>2, <3>2
    <2> HIDE DEF step
    <2> QED
      BY <1>1, <2>1, <2>2
  <1>7. PICK f \in [S -> T] : f = Body[f]
    <2>1. ASSUME NEW g \in [S -> T], NEW h \in [S -> T], NEW i \in S,
                 \A r \in S : left[r] < left[i] => g[r] = h[r]
          PROVE  step(g, i) = step(h, i)
      <3>1. i <= Len(p) => g[end(i) + 1] = h[end(i) + 1]
        BY <1>4, <2>1
      <3>2. i > Len(p) \/ i <= Len(p)
        BY <1>1
      <3> QED
        BY <3>1, <3>2
    <2> HIDE DEF step, S
    <2>2. Grounded(S, T, left, Body)
      BY <1>2, <1>3, <1>6, <2>1, ZenonT(60) DEF Grounded
    <2> HIDE DEF Body
    <2> QED
      BY <2>2, Recursion
  <1>8. f = [i \in S |-> step(f, i)]
    BY <1>7
  <1>9. names = [i \in S |-> step(names, i)]
    <2> HIDE DEF step
    <2> QED
      BY <1>8
  <1>10. ASSUME NEW i \in S PROVE names[i] = step(names, i)
    <2> HIDE DEF names, step
    <2> QED
      BY <1>9
  <1>11. Names(p) = names[1]
    BY DEF Names, name, end
  <1> HIDE DEF names
  <1>12. S \subseteq P
    <2>1. ASSUME NEW i \in S, \A r \in S : left[r] < left[i] => r \in P PROVE i \in P
      <3>1. CASE i > Len(p)
        BY <1>2, <1>10, <3>1
      <3>2. CASE i <= Len(p)
        <4>1. names[end(i) + 1] \in T
          BY <1>4, <2>1, <3>2
        <4>2. name(i) \o names[end(i) + 1] \in T
          BY <1>5, <3>2, <4>1
        <4>3. names[i] = name(i) \o names[end(i) + 1]
          <5>1. ~(i > Len(p))
            BY <1>1, <3>2
          <5>2. names[i] = step(names, i)
            BY <1>10
          <5> QED
            BY <5>1, <5>2
        <4> QED
          BY <4>2, <4>3
      <3> QED
        BY <1>1, <3>1, <3>2
    <2> HIDE DEF P, S
    <2> QED
      BY <1>3, <2>1, MeasureInduction
  <1>13. 1 \in S
    OBVIOUS
  <1> QED
    BY <1>11, <1>12, <1>13 DEF T

LEMMA CanonicalProper ==
    ASSUME NEW C, \A l \in DOMAIN Links : Links[l] \in ProperPlaces(C),
           NEW from \in ProperPlaces(C), NEW names \in ProperPlaces(C)
    PROVE  Canonical(from, names) \in ProperPlaces(C)
  <1> DEFINE
        S == 0 .. Len(names)
        T == ProperPlaces(C)
        size == [n \in S |-> n]
        follow(x) == IF x \in DOMAIN Links THEN Links[x] ELSE x
        step(f, n) == IF n = 0 THEN from ELSE follow(Append(f[n - 1], names[n]))
        Body == [f \in [S -> T] |-> [n \in S |-> step(f, n)]]
        place == CHOOSE f : f = [n \in S |-> step(f, n)]
        P == {n \in S : place[n] \in T}
  <1>1. Len(names) \in Nat /\ DOMAIN names = 1 .. Len(names)
    BY DEF ProperPlaces
  <1>2. size \in [S -> Nat] /\ \A n \in S : n \in Nat /\ (n # 0 => n - 1 \in S /\ n - 1 < n)
    BY <1>1
  <1>3. ASSUME NEW n \in S, n # 0, NEW x \in T PROVE follow(Append(x, names[n])) \in T
    <2> DEFINE a == names[n]
    <2>1. a \in Seq(C) /\ a # <<>> /\ \A j \in DOMAIN a : a[j] # "/"
      <3>1. n \in DOMAIN names
        BY <1>1, <1>3
      <3> QED
        BY <3>1 DEF ProperPlaces
    <2> HIDE DEF a
    <2>2. x \o <<a>> \in T
      BY <2>1, ProperOne, ProperConcat
    <2>3. Append(x, a) = x \o <<a>>
      <3>1. x \in Seq(Seq(C))
        BY DEF ProperPlaces
      <3> QED
        BY <2>1, <3>1
    <2> QED
      BY <2>2, <2>3 DEF a
  <1> HIDE DEF T, follow
  <1>4. from \in T
    BY DEF T
  <1>5. ASSUME NEW g \in [S -> T], NEW n \in S PROVE step(g, n) \in T
    BY <1>2, <1>3, <1>4
  <1>6. PICK f \in [S -> T] : f = Body[f]
    <2>1. ASSUME NEW g \in [S -> T], NEW h \in [S -> T], NEW n \in S,
                 \A r \in S : size[r] < size[n] => g[r] = h[r]
          PROVE  step(g, n) = step(h, n)
      <3>1. n # 0 => g[n - 1] = h[n - 1]
        BY <1>2, <2>1
      <3> QED
        BY <3>1
    <2> HIDE DEF step, S, size
    <2>2. Grounded(S, T, size, Body)
      BY <1>2, <1>4, <1>5, <2>1 DEF Grounded
    <2> HIDE DEF Body
    <2> QED
      BY <2>2, Recursion
  <1>7. f = [n \in S |-> step(f, n)]
    BY <1>6
  <1>8. place = [n \in S |-> step(place, n)]
    <2> HIDE DEF step
    <2> QED
      BY <1>7
  <1>9. ASSUME NEW n \in S PROVE place[n] = step(place, n)
    <2> HIDE DEF place, step
    <2> QED
      BY <1>8
  <1>10. Canonical(from, names) = place[Len(names)]
    BY DEF Canonical, follow
  <1> HIDE DEF place
  <1>11. S \subseteq P
    <2>1. ASSUME NEW n \in S, \A r \in S : size[r] < size[n] => r \in P PROVE n \in P
      <3>1. CASE n = 0
        BY <1>4, <1>9, <3>1
      <3>2. CASE n # 0
        <4>1. place[n - 1] \in T
          BY <1>2, <2>1, <3>2
        <4>2. place[n] = follow(Append(place[n - 1], names[n]))
          BY <1>9, <3>2
        <4> QED
          BY <1>3, <3>2, <4>1, <4>2
      <3> QED
        BY <3>1, <3>2
    <2> HIDE DEF P, S, size
    <2> QED
      BY <1>2, <2>1, MeasureInduction
  <1>12. Len(names) \in S
    BY <1>1
  <1> QED
    BY <1>10, <1>11, <1>12 DEF T

(* The comparison with the base is one of places.                          *)
LEMMA WithinBase ==
    ASSUME NEW C, "/" \in C, NEW base, NEW b, b = Canonical(<<>>, base), b \in ProperPlaces(C),
           NEW place \in ProperPlaces(C)
    PROVE  ValidateWithinBase(place, base) <=> IsStrictPrefix(b, place) \/ b = <<>>
  <1>1. b \in Seq(Seq(C)) /\ place \in Seq(Seq(C)) /\ "/" \in C
    BY DEF ProperPlaces
  <1>2. CASE b = <<>>
    <2>1. PathString(b) = <<"/">>
      BY <1>2 DEF PathString
    <2>2. BasePrefix(base) = <<"/">>
      <3>1. Last(<<"/">>) = "/"
        BY DEF Last
      <3> QED
        BY <2>1, <3>1 DEF BasePrefix
    <2>3. PathString(place) \in Seq(C) /\ Len(PathString(place)) >= 1 /\ PathString(place)[1] = "/"
      <3>1. CASE place = <<>>
        BY <1>1, <3>1 DEF PathString
      <3>2. CASE place # <<>>
        <4>1. PathString(place) \in Seq(C)
          BY <1>1, <3>2, PlaceText
        <4>2. PICK q : PlaceSpells(place, q, PathString(place))
          BY <1>1, <3>2, PlaceText
        <4> DEFINE s == PathString(place)
                   N == Len(place)
        <4>3. 1 \in 1 .. N /\ 0 \in 0 .. N /\ 1 \in 0 .. N /\ 1 = 0 + 1 /\ Len(place[1]) \in Nat
          BY <1>1, <3>2
        <4>4. q[0] = 0 /\ q[1] = q[0] + 1 + Len(place[1]) /\ s[q[0] + 1] = "/" /\ q[1] <= Len(s)
          BY <4>2, <4>3 DEF PlaceSpells
        <4> DEFINE c == Len(place[1])
                   d == Len(s)
        <4>5. c \in Nat /\ d \in Nat /\ 1 + c <= d /\ s[1] = "/"
          BY <4>1, <4>3, <4>4
        <4> HIDE DEF c, d
        <4>6. d >= 1
          BY <4>5
        <4> QED
          BY <4>1, <4>5, <4>6 DEF d
      <3> QED
        BY <3>1, <3>2
    <2>4. IsPrefix(<<"/">>, PathString(place))
      <3> DEFINE s == PathString(place)
                 u == <<"/">>
      <3>1. u \in Seq(C) /\ s \in Seq(C) /\ Len(u) = 1 /\ u[1] = "/" /\ Len(s) >= 1 /\ s[1] = "/"
        BY <1>1, <2>3
      <3> HIDE DEF s, u
      <3>2. IsPrefix(u, s) <=> Len(u) <= Len(s) /\ \A i \in 1 .. Len(u) : u[i] = s[i]
        BY <3>1, PrefixElements
      <3>3. IsPrefix(u, s)
        BY <3>1, <3>2
      <3> QED
        BY <3>3 DEF s, u
    <2> QED
      BY <1>2, <2>2, <2>4 DEF ValidateWithinBase
  <1>3. CASE b # <<>>
    <2> DEFINE s == PathString(b)
               N == Len(b)
    <2>1. s \in Seq(C)
      BY <1>1, <1>3, PlaceText
    <2>2. PICK q : PlaceSpells(b, q, s)
      BY <1>1, <1>3, PlaceText
    <2>3. /\ N \in Nat \ {0} /\ b[N] \in Seq(C) /\ b[N] # <<>> /\ Len(b[N]) \in Nat \ {0}
          /\ \A j \in 1 .. Len(b[N]) : b[N][j] # "/"
      <3>1. N \in DOMAIN b /\ N \in Nat \ {0}
        BY <1>1, <1>3
      <3>2. b[N] \in Seq(C) /\ b[N] # <<>> /\ \A j \in DOMAIN b[N] : b[N][j] # "/"
        BY <1>1, <3>1 DEF ProperPlaces
      <3> DEFINE n == b[N]
      <3> HIDE DEF n
      <3>3. n \in Seq(C) /\ n # <<>> /\ \A j \in DOMAIN n : n[j] # "/"
        BY <3>2 DEF n
      <3>4. Len(n) \in Nat \ {0} /\ DOMAIN n = 1 .. Len(n)
        BY <3>3
      <3> QED
        BY <3>1, <3>3, <3>4 DEF n
    <2> DEFINE m == N - 1
               l == Len(b[N])
    <2>4. m \in 0 .. N /\ N \in 1 .. N /\ N = m + 1 /\ m \in Nat /\ l \in 1 .. l /\ l \in Nat
      BY <2>3
    <2> HIDE DEF m, l, N, s
    <2>5. /\ q[m] \in Nat /\ Len(s) = q[N] /\ q[N] = q[m] + 1 + l
          /\ s[q[m] + 1 + l] = b[N][l]
      BY <2>2, <2>4 DEF PlaceSpells, N, l
    <2>6. Last(s) = b[N][l] /\ b[N][l] # "/"
      BY <2>3, <2>4, <2>5 DEF Last, l
    <2>7. BasePrefix(base) = Append(s, "/")
      BY <2>6 DEF BasePrefix, s
    <2>8. IsPrefix(Append(s, "/"), PathString(place)) <=> IsStrictPrefix(b, place)
      BY <1>3, PlacesByText DEF s
    <2> QED
      BY <1>3, <2>7, <2>8 DEF ValidateWithinBase
  <1> QED
    BY <1>2, <1>3

LEMMA PlacesAreProper ==
    ASSUME NEW x, IsPlace(x)
    PROVE  x \in ProperPlaces(Chars)
  <1>1. Seq(STRING) \subseteq Seq(Chars)
    BY DEF Chars
  <1>2. x \in Seq(Seq(Chars))
    <2> DEFINE D == Seq(STRING)
               E == Seq(Chars)
    <2>1. x \in Seq(D) /\ D \subseteq E
      BY <1>1 DEF IsPlace
    <2> HIDE DEF D, E
    <2>2. x \in Seq(E)
      BY <2>1
    <2> QED
      BY <2>2 DEF E
  <1> QED
    BY <1>2 DEF IsPlace, IsName, ProperPlaces

LEMMA PathsConfined ==
    ASSUME PartsInv
    PROVE  SafeMeansInside(text) /\ UnconfiguredIsUnsafe(text)
  <1>1. UnconfiguredIsUnsafe(text)
    BY DEF UnconfiguredIsUnsafe, IsSafePath
  <1> DEFINE base == Canonical(<<>>, path_config.base)
             place == Combined(path_config.base, text)
             inside == IsStrictPrefix(base, place) \/ base = <<>>
  <1>2. SUFFICES ASSUME path_config.base # NoBase
                 PROVE  /\ IsSafePath(text) => inside
                        /\ path_configured /\ PlainPath(text) /\ inside =>
                             (IsSafePath(text) <=> path_config.absolute \/ ~LooksAbsolute(text))
    BY <1>1 DEF SafeMeansInside
  <1>3. "/" \in Chars /\ text \in Seq(Chars)
    BY DEF Chars, PartsInv
  <1>4. path_config.base \in ProperPlaces(Chars)
    <2>1. path_config \in PathConfigs
      BY <1>2 DEF PartsInv, DefaultPathConfig
    <2> QED
      BY <1>2, <2>1, PathAssumption, PlacesAreProper
  <1>5. \A l \in DOMAIN Links : Links[l] \in ProperPlaces(Chars)
    BY PathAssumption, PlacesAreProper
  <1>6. <<>> \in ProperPlaces(Chars)
    BY DEF ProperPlaces
  <1>7. base \in ProperPlaces(Chars)
    BY <1>4, <1>5, <1>6, CanonicalProper
  <1>8. place \in ProperPlaces(Chars)
    <2>1. Names(text) \in ProperPlaces(Chars)
      BY <1>3, NamesProper
    <2>2. /\ Canonical(<<>>, Names(text)) \in ProperPlaces(Chars)
          /\ Canonical(base, Names(text)) \in ProperPlaces(Chars)
      BY <1>5, <1>6, <1>7, <2>1, CanonicalProper
    <2> QED
      BY <2>2 DEF Combined
  <1>9. ValidateWithinBase(place, path_config.base) <=> inside
    BY <1>3, <1>7, <1>8, WithinBase
  <1> HIDE DEF place, base, inside
  <1>10. IsSafePath(text) => inside
    BY <1>2, <1>9 DEF IsSafePath, place
  <1>11. ASSUME path_configured, PlainPath(text), inside
         PROVE  IsSafePath(text) <=> path_config.absolute \/ ~LooksAbsolute(text)
    <2>1. DOMAIN text = 1 .. Len(text) /\ Len(text) \in Nat
      BY <1>3
    <2>2. \A i \in 1 .. Len(text) : text[i] \in {"a", "b", "l", "/", "."}
      BY <1>11, <2>1 DEF PlainPath, Letters
    <2>3. ~ContainsNullByte(text)
      BY <2>2 DEF ContainsNullByte, Contains
    <2>4. ~ContainsEncodedTraversal(text)
      <3>1. \A i \in 1 .. Len(text) :
              text[i] \notin {"%2e", "%2E", "%2f", "%2F", "%5c", "%5C", "%252e", "%252E", "%252f", "%252F"}
        BY <2>2
      <3>2. ASSUME NEW a \in {"%2e", "%2E"}, NEW c PROVE ~FollowedBy(text, a, c)
        <4>1. \A i \in 1 .. Len(text) - 1 : i \in 1 .. Len(text)
          BY <2>1
        <4> QED
          BY <3>1, <4>1 DEF FollowedBy
      <3>3. {i \in DOMAIN text : text[i] = "%2e"} = {}
        BY <2>1, <3>1
      <3>4. ~(Cardinality({i \in DOMAIN text : text[i] = "%2e"}) >= 2)
        BY <3>3, FS_EmptySet
      <3> QED
        BY <2>1, <3>1, <3>2, <3>4 DEF ContainsEncodedTraversal
    <2>5. ~ContainsTraversalSequences(text)
      BY <1>11 DEF PlainPath
    <2> QED
      BY <1>2, <1>9, <1>11, <2>3, <2>4, <2>5 DEF IsSafePath, place
  <1> QED
    BY <1>10, <1>11

(* is_safe_path accepts no path that leads out of a base directory that is *)
(* given and refuses no plain one that stays below it: for every text,     *)
(* every base, and links that lead anywhere.                               *)
THEOREM PathsAreAlwaysConfined == PartsSpec => []PathsAreConfined
  <1>1. PartsInv => PathsAreConfined
    BY PathsConfined DEF PathsAreConfined
  <1> QED
    BY <1>1, PartsInvariant, PTL

-----------------------------------------------------------------------------
(* The escapes of a response: what is put between quotes is one string,    *)
(* and means what was escaped.                                             *)
ControlPiece(x, byte) ==
    \/ byte \in DOMAIN Codes /\ x = <<Backslash, Codes[byte]>>
    \/ byte = "^[" /\ x = <<Backslash, "u001", "b">>
    \/ byte \notin DOMAIN Codes \cup {"^["} /\ x = <<byte>>

LEMMA ControlPieces ==
    ASSUME NEW t, Sequence(t)
    PROVE  \E C, q, e :
             /\ Pieces(Len(t), C, q, e)
             /\ q[0] = <<>>
             /\ EscapeControlCharacters(t) = q[Len(t)]
             /\ \A n \in 1 .. Len(t) : SafePiece(e[n]) /\ ControlPiece(e[n], t[n])
  <1> DEFINE e == [i \in DOMAIN t |-> EscapeControl(t[i])]
  <1>1. DOMAIN t = 1 .. Len(t) /\ Len(t) \in Nat
    BY DEF Sequence
  <1>2. EscapeControlCharacters(t) = FlattenSeq(e)
    BY DEF EscapeControlCharacters
  <1>3. ASSUME NEW i \in DOMAIN t PROVE e[i] = EscapeControl(t[i])
    OBVIOUS
  <1>4. e = [i \in DOMAIN t |-> e[i]]
    OBVIOUS
  <1> HIDE DEF e
  <1>5. ASSUME NEW i \in DOMAIN t
        PROVE  Sequence(e[i]) /\ SafePiece(e[i]) /\ ControlPiece(e[i], t[i])
    <2> DEFINE byte == t[i]
    <2>1. e[i] = EscapeControl(byte)
      BY <1>3
    <2> HIDE DEF byte
    <2>2. "^[" \notin DOMAIN Codes
      BY CodesType DEF Letter, Nul, Quote, Backslash
    <2>3. CASE byte \in DOMAIN Codes
      <3> DEFINE code == Codes[byte]
      <3>1. e[i] = <<Backslash, code>>
        BY <2>1, <2>2, <2>3 DEF EscapeControl
      <3>2. ControlPiece(e[i], byte)
        BY <2>3, <3>1 DEF ControlPiece
      <3> HIDE DEF code
      <3>3. Len(e[i]) = 2 /\ e[i][1] = Backslash /\ e[i] \in Seq({Backslash, code})
        BY <3>1
      <3> QED
        BY <3>2, <3>3 DEF Sequence, SafePiece, byte
    <2>4. CASE byte = "^["
      <3> DEFINE u == "u001"
                 w == "b"
      <3>1. e[i] = <<Backslash, u, w>>
        BY <2>1, <2>2, <2>4 DEF EscapeControl
      <3>2. ControlPiece(e[i], byte)
        BY <2>4, <3>1 DEF ControlPiece
      <3>3. w \notin {Quote, Backslash}
        BY DEF Quote, Backslash
      <3> HIDE DEF u, w
      <3>4. Len(e[i]) = 3 /\ e[i][1] = Backslash /\ e[i][3] = w /\ e[i] \in Seq({Backslash, u, w})
        BY <3>1
      <3> QED
        BY <3>2, <3>3, <3>4 DEF Sequence, SafePiece, byte
    <2>5. CASE byte \notin DOMAIN Codes /\ byte # "^["
      <3>1. e[i] = <<byte>>
        BY <2>1, <2>5 DEF EscapeControl
      <3>2. byte # Quote /\ byte # Backslash
        <4>1. Quote \in DOMAIN Letter /\ Backslash \in DOMAIN Letter
          BY DEF Letter
        <4> QED
          BY <2>5, <4>1, CodesType
      <3>3. Len(e[i]) = 1 /\ e[i][1] = byte /\ e[i] \in Seq({byte})
        BY <3>1
      <3>4. ControlPiece(e[i], byte)
        BY <2>5, <3>1 DEF ControlPiece
      <3> QED
        BY <3>2, <3>3, <3>4 DEF Sequence, SafePiece, byte
    <2> QED
      BY <2>3, <2>4, <2>5
  <1>6. \E C, q : Pieces(Len(t), C, q, e) /\ q[0] = <<>> /\ FlattenSeq(e) = q[Len(t)]
    BY <1>4, <1>5, EachInPieces
  <1> QED
    BY <1>1, <1>2, <1>5, <1>6

LEMMA EscapedIsOneString ==
    ASSUME NEW t, Sequence(t), NEW r, r = EscapeControlCharacters(t)
    PROVE  /\ Sequence(r)
           /\ SkipString(<<Quote>> \o r \o <<Quote>>, 1) = Len(<<Quote>> \o r \o <<Quote>>) + 1
  <1> DEFINE N == Len(t)
             h == <<Quote>>
             hr == h \o r
             b == hr \o h
             k == Len(r)
  <1>1. PICK C, q, e : /\ Pieces(N, C, q, e)
                       /\ q[0] = <<>>
                       /\ r = q[N]
                       /\ \A n \in 1 .. N : SafePiece(e[n])
    BY ControlPieces
  <1>2. N \in Nat
    BY DEF Sequence
  <1>3. r \in Seq(C)
    BY <1>1, <1>2 DEF Pieces
  <1>4. Sequence(r) /\ Sequence(h) /\ Sequence(hr) /\ Sequence(b)
    <2>1. Sequence(r) /\ Sequence(h)
      BY <1>3, SequenceOne DEF Sequence
    <2> HIDE DEF h
    <2> QED
      BY <2>1, SequenceConcat
  <1>5. Len(h) = 1 /\ h[1] = Quote
    OBVIOUS
  <1> DEFINE lh == Len(h)
             lhr == Len(hr)
             lb == Len(b)
  <1>6. /\ k \in Nat /\ lhr = lh + k
        /\ \A i \in 1 .. lh : hr[i] = h[i]
        /\ \A i \in 1 .. k : hr[lh + i] = r[i]
    <2> HIDE DEF h
    <2> QED
      BY <1>4, ConcatBytes
  <1>7. /\ lb = lhr + lh
        /\ \A i \in 1 .. lhr : b[i] = hr[i]
        /\ \A i \in 1 .. lh : b[lhr + i] = h[i]
    <2> HIDE DEF h, hr
    <2> QED
      BY <1>4, ConcatBytes
  <1> HIDE DEF h, hr, b, lh, lhr, lb, k
  <1>8. lh = 1 /\ lhr = 1 + k /\ lb = k + 2 /\ lb \in Nat
    BY <1>5, <1>6, <1>7 DEF lh
  <1>9. b[1] = Quote
    BY <1>5, <1>6, <1>7, <1>8
  <1>10. b[k + 2] = Quote
    <2>1. 1 \in 1 .. lh /\ lhr + 1 = k + 2
      BY <1>6, <1>8
    <2> QED
      BY <1>5, <1>7, <2>1
  <1>11. \A j \in 1 .. k : b[1 + j] = r[j]
    <2>1. \A j \in 1 .. k : 1 + j \in 1 .. lhr
      BY <1>6, <1>8
    <2> QED
      BY <1>6, <1>7, <1>8, <2>1
  <1> DEFINE z == k + 2
  <1>12. StringEnd(b, 1 + 1) = z + 1
    <2>1. IsText(b) /\ 1 \in Nat
      BY <1>4, SequenceIsText
    <2>2. Spells(b, 1, q[N]) /\ z = 1 + Len(q[N]) + 1 /\ z <= Len(b)
      <3>1. k = Len(q[N]) /\ lb = Len(b)
        BY <1>1 DEF k, lb
      <3>2. Spells(b, 1, q[N])
        BY <1>1, <1>11, <3>1 DEF Spells
      <3> QED
        BY <1>6, <1>8, <3>1, <3>2
    <2>3. b[z] = Quote
      BY <1>10
    <2> HIDE DEF z, N
    <2> QED
      BY <1>1, <1>2, <2>1, <2>2, <2>3, StringOfPieces
  <1>13. At(b, 1, Quote)
    <2>1. IsText(b)
      BY <1>4, SequenceIsText
    <2>2. 1 \in 1 .. Len(b)
      BY <1>6, <1>8 DEF lb
    <2> QED
      BY <1>9, <2>1, <2>2 DEF At, IsText
  <1>14. SkipString(b, 1) = lb + 1
    BY <1>6, <1>8, <1>12, <1>13 DEF SkipString
  <1> QED
    BY <1>4, <1>14 DEF lb, b, hr, h

(* Where one text occurs in another, element by element.                   *)
Stands(w, x, i) ==
    i + Len(w) - 1 <= Len(x) /\ \A k \in 1 .. Len(w) : x[i + k - 1] = w[k]

LEMMA OccursAt ==
    ASSUME NEW x, Sequence(x), NEW w, Sequence(w), NEW i \in Nat \ {0}
    PROVE  Occurs(w, x, i) <=> Stands(w, x, i)
  <1> DEFINE L == Len(w)
             n == i + L - 1
             y == SubSeq(x, i, n)
  <1>1. PICK S : x \in Seq(S)
    BY DEF Sequence
  <1>2. PICK T : w \in Seq(T)
    BY DEF Sequence
  <1>3. L \in Nat /\ n \in Int /\ n - i + 1 = L /\ Len(x) \in Nat
    BY <1>1, <1>2
  <1>4. Occurs(w, x, i) <=> n <= Len(x) /\ y = w
    BY DEF Occurs
  <1>5. CASE ~(n <= Len(x))
    BY <1>4, <1>5 DEF Stands
  <1>6. CASE n <= Len(x)
    <2>1. i \in 1 .. Len(x) + 1 /\ n \in i - 1 .. Len(x) /\ i \in Nat
      BY <1>3, <1>6
    <2> HIDE DEF n, L
    <2>2. y \in Seq(S) /\ Len(y) = n - i + 1
      BY <1>1, <2>1
    <2>3. \A k \in 1 .. n - i + 1 : y[k] = x[i + k - 1]
      BY <1>1, <2>1
    <2> HIDE DEF y
    <2> DEFINE U == S \cup T
    <2>4. y \in Seq(U) /\ w \in Seq(U)
      <3>1. Seq(S) \subseteq Seq(U) /\ Seq(T) \subseteq Seq(U)
        OBVIOUS
      <3> QED
        BY <1>2, <2>2, <3>1
    <2> HIDE DEF U
    <2>5. Len(y) = L /\ Len(w) = L /\ \A k \in 1 .. L : y[k] = x[i + k - 1]
      BY <1>3, <2>2, <2>3 DEF L
    <2>6. y = w <=> \A k \in 1 .. L : x[i + k - 1] = w[k]
      <3>1. ASSUME \A k \in 1 .. L : x[i + k - 1] = w[k] PROVE y = w
        <4>1. \A k \in 1 .. L : y[k] = w[k]
          BY <2>5, <3>1
        <4> QED
          BY <2>4, <2>5, <4>1
      <3>2. ASSUME y = w PROVE \A k \in 1 .. L : x[i + k - 1] = w[k]
        BY <2>5, <3>2
      <3> QED
        BY <3>1, <3>2
    <2> QED
      BY <1>4, <1>6, <2>6 DEF n, L, Stands
  <1> QED
    BY <1>5, <1>6

(* How the content of a string is read, the code of ESC with the others.   *)
EscCode == <<Backslash, "u001", "b">>

JoinsOn(t, joined) ==
    \A p \in Nat :
      /\ p > Len(t) => joined[p] = <<>>
      /\ p \in 1 .. Len(t) /\ Occurs(EscCode, t, p) => joined[p] = <<"^[">> \o joined[p + 3]
      /\ p \in 1 .. Len(t) /\ ~Occurs(EscCode, t, p) /\ t[p] = Backslash =>
           joined[p] = <<Decoded(t[p + 1])>> \o joined[p + 2]
      /\ p \in 1 .. Len(t) /\ ~Occurs(EscCode, t, p) /\ t[p] # Backslash =>
           joined[p] = <<t[p]>> \o joined[p + 1]

LEMMA MeaningReads ==
    ASSUME NEW t, IsText(t)
    PROVE  \E joined : JoinsOn(t, joined) /\ Meaning(t) = joined[1]
  <1> DEFINE
        C == {t[p] : p \in Nat} \cup {Decoded(t[p + 1]) : p \in Nat} \cup {"^["}
        S == Nat
        T == Seq(C)
        left == BytesLeft(t)
        step(f, p) == IF p > Len(t) THEN <<>>
                      ELSE IF Occurs(EscCode, t, p) THEN <<"^[">> \o f[p + 3]
                      ELSE IF t[p] = Backslash THEN <<Decoded(t[p + 1])>> \o f[p + 2]
                      ELSE <<t[p]>> \o f[p + 1]
        Body == [f \in [S -> T] |-> [p \in S |-> step(f, p)]]
        joined == CHOOSE f : f = [p \in S |-> step(f, p)]
  <1>1. "^[" \in C /\ \A p \in Nat : t[p] \in C /\ Decoded(t[p + 1]) \in C
    OBVIOUS
  <1> HIDE DEF C
  <1>2. <<>> \in T /\ \A p \in Nat : p + 1 \in Nat /\ p + 2 \in Nat /\ p + 3 \in Nat
    OBVIOUS
  <1>3. ASSUME NEW g \in [S -> T], NEW p \in S PROVE step(g, p) \in T
    <2> DEFINE a == t[p]
               c == Decoded(t[p + 1])
               esc == "^["
               u == g[p + 1]
               v == g[p + 2]
               w == g[p + 3]
    <2>1. a \in C /\ c \in C /\ esc \in C /\ u \in Seq(C) /\ v \in Seq(C) /\ w \in Seq(C)
      BY <1>1, <1>2
    <2>2. step(g, p) \in {<<>>, <<esc>> \o w, <<c>> \o v, <<a>> \o u}
      OBVIOUS
    <2> HIDE DEF a, c, esc, u, v, w
    <2>3. <<a>> \o u \in Seq(C) /\ <<c>> \o v \in Seq(C) /\ <<esc>> \o w \in Seq(C)
      BY <2>1
    <2> HIDE DEF step
    <2> QED
      BY <1>2, <2>2, <2>3
  <1>4. ASSUME NEW g \in [S -> T], NEW h \in [S -> T], NEW p \in S,
               \A r \in S : left[r] < left[p] => g[r] = h[r]
        PROVE  step(g, p) = step(h, p)
    <2>1. p <= Len(t) => g[p + 1] = h[p + 1] /\ g[p + 2] = h[p + 2] /\ g[p + 3] = h[p + 3]
      BY <1>2, <1>4, FewerBytesLeft, p < p + 1, p < p + 2, p < p + 3
    <2>2. p > Len(t) \/ p <= Len(t)
      BY DEF IsText
    <2> QED
      BY <2>1, <2>2
  <1>5. PICK f \in [S -> T] : f = Body[f]
    <2>1. left \in [S -> Nat] /\ T # {}
      BY <1>2, BytesLeftType
    <2> HIDE DEF step, S, T, left
    <2>2. Grounded(S, T, left, Body)
      BY <1>3, <1>4, <2>1 DEF Grounded
    <2> HIDE DEF Body
    <2> QED
      BY <2>2, Recursion
  <1>6. f = [p \in S |-> step(f, p)]
    BY <1>5
  <1>7. joined = [p \in S |-> step(joined, p)]
    <2> HIDE DEF step
    <2> QED
      BY <1>6
  <1>8. Meaning(t) = joined[1]
    BY DEF Meaning, EscCode
  <1> HIDE DEF joined
  <1>9. JoinsOn(t, joined)
    <2>1. ASSUME NEW p \in Nat PROVE joined[p] = step(joined, p)
      <3> HIDE DEF step
      <3> QED
        BY <1>7
    <2>2. \A p \in Nat : p \in 1 .. Len(t) => ~(p > Len(t))
      BY DEF IsText
    <2> QED
      BY <2>1, <2>2 DEF JoinsOn
  <1> QED
    BY <1>8, <1>9

LEMMA MeaningOfEscaped ==
    ASSUME NEW c, Sequence(c)
    PROVE  Meaning(EscapeControlCharacters(c)) = c
  <1> DEFINE N == Len(c)
  <1>1. PICK C, q, e : /\ Pieces(N, C, q, e)
                       /\ q[0] = <<>>
                       /\ EscapeControlCharacters(c) = q[N]
                       /\ \A n \in 1 .. N : ControlPiece(e[n], c[n])
    BY ControlPieces
  <1> DEFINE t == q[N]
  <1>2. N \in Nat /\ \A n \in 0 .. N : q[n] \in Seq(C) /\ Len(q[n]) \in Nat
    BY <1>1 DEF Sequence, Pieces
  <1>3. Sequence(t) /\ IsText(t) /\ Len(t) \in Nat
    <2>1. t \in Seq(C)
      BY <1>2
    <2> QED
      BY <2>1 DEF IsText, Sequence
  <1>4. PICK joined : JoinsOn(t, joined) /\ Meaning(t) = joined[1]
    <2> HIDE DEF t
    <2> QED
      BY <1>3, MeaningReads
  <1>5. joined[Len(t) + 1] = <<>>
    <2>1. Len(t) + 1 \in Nat /\ Len(t) + 1 > Len(t)
      BY <1>3
    <2> HIDE DEF t
    <2> QED
      BY <1>4, <2>1 DEF JoinsOn
  <1>6. Sequence(EscCode) /\ Len(EscCode) = 3 /\ EscCode[1] = Backslash /\ EscCode[2] = "u001" /\ EscCode[3] = "b"
    <2> DEFINE u == "u001"
               w == "b"
    <2>1. EscCode = <<Backslash, u, w>>
      BY DEF EscCode
    <2> HIDE DEF u, w
    <2>2. EscCode \in Seq({Backslash, u, w}) /\ Len(EscCode) = 3
      BY <2>1
    <2>3. EscCode[1] = Backslash /\ EscCode[2] = u /\ EscCode[3] = w
      BY <2>1
    <2> QED
      BY <2>2, <2>3 DEF Sequence, u, w
  <1>7. ASSUME NEW n \in 1 .. N, NEW m \in 0 .. N, n = m + 1
        PROVE  joined[Len(q[m]) + 1] = <<c[n]>> \o joined[Len(q[n]) + 1]
    <2> DEFINE a == Len(q[m])
               b == Len(q[n])
               k == Len(e[n])
               x == e[n]
               byte == c[n]
    <2>1. PieceInPlace(N, q, e, n, m)
      <3>1. m = n - 1
        BY <1>7
      <3> HIDE DEF N
      <3> QED
        BY <1>1, <1>2, <3>1, PiecesStay
    <2>2. /\ b = a + k /\ b <= Len(t)
          /\ \A j \in 1 .. k : t[a + j] = x[j]
      BY <2>1 DEF PieceInPlace
    <2>3. a \in Nat /\ b \in Nat
      BY <1>2, <1>7
    <2>4. ControlPiece(x, byte)
      BY <1>1
    <2> HIDE DEF t, N, x, byte
    <2>5. Occurs(EscCode, t, a + 1) <=>
            a + 3 <= Len(t) /\ t[a + 1] = Backslash /\ t[a + 2] = "u001" /\ t[a + 3] = "b"
      <3> DEFINE i == a + 1
      <3>1. i \in Nat \ {0} /\ i + 3 - 1 = a + 3 /\ i + 1 - 1 = a + 1 /\ i + 2 - 1 = a + 2
        BY <2>3
      <3> HIDE DEF a, i
      <3>2. Occurs(EscCode, t, i) <=>
              i + Len(EscCode) - 1 <= Len(t) /\ \A j \in 1 .. Len(EscCode) : t[i + j - 1] = EscCode[j]
        <4>1. Occurs(EscCode, t, i) <=> Stands(EscCode, t, i)
          BY <1>3, <1>6, <3>1, OccursAt
        <4> QED
          BY <4>1 DEF Stands
      <3>3. Len(EscCode) = 3 /\ 1 .. 3 = {1, 2, 3}
        BY <1>6
      <3>4. (\A j \in 1 .. 3 : t[i + j - 1] = EscCode[j]) <=>
              t[a + 1] = EscCode[1] /\ t[a + 2] = EscCode[2] /\ t[a + 3] = EscCode[3]
        BY <3>1, <3>3
      <3>5. Occurs(EscCode, t, i) <=>
              a + 3 <= Len(t) /\ t[a + 1] = EscCode[1] /\ t[a + 2] = EscCode[2] /\ t[a + 3] = EscCode[3]
        BY <3>1, <3>2, <3>3, <3>4
      <3> QED
        BY <1>6, <3>5 DEF i
    <2>6. CASE byte \in DOMAIN Codes /\ x = <<Backslash, Codes[byte]>>
      <3> DEFINE code == Codes[byte]
      <3>1. Decoded(code) = byte /\ code # "u001"
        BY <2>6, CodesAreDecoded
      <3>2. k = 2 /\ x[1] = Backslash /\ x[2] = code
        BY <2>6 DEF x
      <3> HIDE DEF k, a, b, code
      <3>3. /\ a + 1 \in 1 .. Len(t) /\ t[a + 1] = Backslash /\ t[a + 2] = code
            /\ b = a + 2 /\ a + 1 \in Nat /\ b + 1 = a + 1 + 2 /\ a + 1 + 1 = a + 2
        BY <1>3, <2>2, <2>3, <3>2
      <3>4. ~Occurs(EscCode, t, a + 1)
        BY <2>5, <3>1, <3>3
      <3>5. joined[a + 1] = <<Decoded(t[a + 1 + 1])>> \o joined[a + 1 + 2]
        BY <1>4, <3>3, <3>4 DEF JoinsOn
      <3> QED
        BY <3>1, <3>3, <3>5 DEF a, b, byte
    <2>7. CASE byte = "^[" /\ x = <<Backslash, "u001", "b">>
      <3>1. k = 3 /\ x[1] = Backslash /\ x[2] = "u001" /\ x[3] = "b"
        BY <1>6, <2>7 DEF EscCode, x
      <3> HIDE DEF k, a, b
      <3>2. /\ a + 1 \in 1 .. Len(t) /\ a + 3 <= Len(t)
            /\ t[a + 1] = Backslash /\ t[a + 2] = "u001" /\ t[a + 3] = "b"
            /\ b = a + 3 /\ a + 1 \in Nat /\ b + 1 = a + 1 + 3
        BY <1>3, <2>2, <2>3, <3>1
      <3>3. joined[a + 1] = <<"^[">> \o joined[a + 1 + 3]
        BY <1>4, <2>5, <3>2 DEF JoinsOn
      <3> QED
        BY <2>7, <3>2, <3>3 DEF a, b, byte
    <2>8. CASE byte \notin DOMAIN Codes \cup {"^["} /\ x = <<byte>>
      <3>1. k = 1 /\ x[1] = byte
        BY <2>8 DEF x
      <3>2. byte # Backslash
        <4>1. Backslash \in DOMAIN Codes
          BY CodesType DEF Letter
        <4> QED
          BY <2>8, <4>1
      <3> HIDE DEF k, a, b
      <3>3. a + 1 \in 1 .. Len(t) /\ t[a + 1] = byte /\ b = a + 1 /\ a + 1 \in Nat /\ b + 1 = a + 1 + 1
        BY <1>3, <2>2, <2>3, <3>1
      <3>4. ~Occurs(EscCode, t, a + 1)
        BY <2>5, <3>2, <3>3
      <3>5. joined[a + 1] = <<t[a + 1]>> \o joined[a + 1 + 1]
        BY <1>4, <3>2, <3>3, <3>4 DEF JoinsOn
      <3> QED
        BY <3>3, <3>5 DEF a, b, byte
    <2> QED
      BY <2>4, <2>6, <2>7, <2>8 DEF ControlPiece
  <1>8. joined[1] = c
    <2>1. joined[Len(q[Len(c)]) + 1] = <<>>
      BY <1>5
    <2>2. ReadPieces(c, q, joined)
      BY <1>7 DEF ReadPieces
    <2>3. q[0] = <<>>
      BY <1>1
    <2> QED
      BY <2>1, <2>2, <2>3, PiecesMean
  <1> QED
    BY <1>1, <1>4, <1>8

-----------------------------------------------------------------------------
(* Redaction.                                                              *)
LEMMA PathEndBounds ==
    ASSUME NEW t, IsText(t), NEW p \in 1 .. Len(t)
    PROVE  /\ PathEnd(t, p) \in p .. Len(t) + 1
           /\ PathEnd(t, p) <= Len(t) => t[PathEnd(t, p)] = " "
           /\ \A i \in p .. PathEnd(t, p) - 1 : t[i] # " "
           /\ t[p] # " " => p < PathEnd(t, p)
  <1> DEFINE L == Len(t)
             stops == {L + 1} \cup {i \in p .. L : t[i] = " "}
             end == Min(stops)
  <1>1. L \in Nat /\ p \in Nat /\ p \in 1 .. L
    BY DEF IsText
  <1>2. PathEnd(t, p) = end
    BY DEF PathEnd
  <1> HIDE DEF L
  <1>3. stops \subseteq Nat /\ stops # {} /\ stops \subseteq p .. L + 1
    <2>1. L + 1 \in p .. L + 1 /\ p .. L \subseteq p .. L + 1 /\ p .. L + 1 \subseteq Nat
      BY <1>1
    <2>2. L + 1 \in stops /\ stops \subseteq {L + 1} \cup (p .. L)
      OBVIOUS
    <2> HIDE DEF stops
    <2> QED
      BY <2>1, <2>2
  <1>4. end \in stops /\ \A x \in stops : end <= x
    <2> HIDE DEF stops
    <2> QED
      BY <1>3, MinIsLeast
  <1> HIDE DEF end
  <1>5. end \in p .. L + 1 /\ end \in Nat
    <2>1. end \in p .. L + 1
      <3> HIDE DEF stops
      <3> QED
        BY <1>3, <1>4
    <2> QED
      BY <1>1, <2>1
  <1>6. end <= L => t[end] = " "
    <2>1. end = L + 1 \/ t[end] = " "
      BY <1>4
    <2>2. end <= L => end # L + 1
      BY <1>1, <1>5
    <2> QED
      BY <2>1, <2>2
  <1>7. ASSUME NEW i \in p .. end - 1, t[i] = " " PROVE FALSE
    <2>1. i \in p .. L /\ ~(end <= i)
      BY <1>1, <1>5
    <2>2. i \in stops
      BY <1>7, <2>1
    <2> HIDE DEF stops
    <2> QED
      BY <1>4, <2>1, <2>2
  <1>8. t[p] # " " => p < end
    <2>1. p # L + 1
      BY <1>1
    <2>2. t[p] # " " => p # end
      BY <1>4, <2>1
    <2>3. p # end => p < end
      BY <1>1, <1>5
    <2> QED
      BY <2>2, <2>3
  <1> QED
    BY <1>2, <1>5, <1>6, <1>7, <1>8 DEF L

(* The text x is u behind k elements.                                      *)
Follows(x, k, u) == Len(x) = k + Len(u) /\ \A j \in 1 .. Len(u) : x[k + j] = u[j]

(* What redaction makes of the text from p on.                             *)
RedactsAt(t, rest, p) ==
    /\ Sequence(rest[p])
    /\ p = Len(t) + 1 => rest[p] = <<>>
    /\ p <= Len(t) /\ LooksLikePath(t, p) =>
         rest[p][1] = "/" /\ rest[p][2] = "[PATH]" /\ Follows(rest[p], 2, rest[PathEnd(t, p)])
    /\ p <= Len(t) /\ ~LooksLikePath(t, p) =>
         rest[p][1] = t[p] /\ Follows(rest[p], 1, rest[p + 1])

LEMMA RedactReads ==
    ASSUME NEW t, IsText(t)
    PROVE  \E rest : RedactPaths(t) = rest[1] /\ \A p \in 1 .. Len(t) + 1 : RedactsAt(t, rest, p)
  <1> DEFINE
        C == {t[p] : p \in Nat} \cup {"/", "[PATH]"}
        S == Nat
        T == Seq(C)
        left == BytesLeft(t)
        step(f, p) == IF p > Len(t) THEN <<>>
                      ELSE IF LooksLikePath(t, p) THEN PathMark \o f[PathEnd(t, p)]
                      ELSE <<t[p]>> \o f[p + 1]
        Body == [f \in [S -> T] |-> [p \in S |-> step(f, p)]]
        rest == CHOOSE f : f = [p \in S |-> step(f, p)]
  <1>1. Len(t) \in Nat /\ DOMAIN t = 1 .. Len(t)
    BY DEF IsText
  <1>2. ASSUME NEW p \in Nat, p <= Len(t), LooksLikePath(t, p)
        PROVE  p \in 1 .. Len(t) /\ PathEnd(t, p) \in Nat /\ p < PathEnd(t, p) /\ PathEnd(t, p) <= Len(t) + 1
    <2>1. t[p] = "/" /\ (p = 1 \/ p - 1 \in DOMAIN t)
      BY <1>2 DEF LooksLikePath, In
    <2>2. p \in 1 .. Len(t)
      BY <1>1, <1>2, <2>1
    <2>3. t[p] # " "
      BY <2>1
    <2>4. PathEnd(t, p) \in p .. Len(t) + 1 /\ p < PathEnd(t, p)
      BY <2>2, <2>3, PathEndBounds
    <2> QED
      BY <1>1, <2>2, <2>4
  <1>3. /\ <<>> \in T /\ PathMark \in T /\ Len(PathMark) = 2
        /\ PathMark[1] = "/" /\ PathMark[2] = "[PATH]"
        /\ \A p \in Nat : t[p] \in C /\ p + 1 \in Nat
    <2> DEFINE D == C
               a == "/"
               b == "[PATH]"
    <2>1. a \in D /\ b \in D /\ PathMark = <<a, b>>
      BY DEF PathMark
    <2>2. \A p \in Nat : t[p] \in C /\ p + 1 \in Nat
      OBVIOUS
    <2> HIDE DEF D, a, b
    <2>3. <<>> \in Seq(D) /\ PathMark \in Seq(D) /\ Len(PathMark) = 2 /\ PathMark[1] = a /\ PathMark[2] = b
      BY <2>1
    <2> QED
      BY <2>2, <2>3 DEF D, a, b
  <1> HIDE DEF C
  <1>c. ASSUME NEW g, NEW p \in Nat
        PROVE  /\ p > Len(t) => step(g, p) = <<>>
               /\ p <= Len(t) /\ LooksLikePath(t, p) => step(g, p) = PathMark \o g[PathEnd(t, p)]
               /\ p <= Len(t) /\ ~LooksLikePath(t, p) => step(g, p) = <<t[p]>> \o g[p + 1]
    <2>1. p <= Len(t) => ~(p > Len(t))
      BY <1>1
    <2> QED
      BY <2>1
  <1> HIDE DEF step
  <1>4. ASSUME NEW g \in [S -> T], NEW p \in S PROVE step(g, p) \in T
    <2>1. CASE p > Len(t)
      BY <1>3, <1>c, <2>1
    <2>2. CASE p <= Len(t) /\ LooksLikePath(t, p)
      <3> DEFINE u == g[PathEnd(t, p)]
      <3>1. u \in Seq(C) /\ PathMark \in Seq(C)
        BY <1>2, <1>3, <2>2
      <3>2. step(g, p) = PathMark \o u
        BY <1>c, <2>2
      <3> HIDE DEF u
      <3>3. PathMark \o u \in Seq(C)
        BY <3>1
      <3> QED
        BY <3>2, <3>3
    <2>3. CASE p <= Len(t) /\ ~LooksLikePath(t, p)
      <3> DEFINE a == t[p]
                 u == g[p + 1]
      <3>1. a \in C /\ u \in Seq(C)
        BY <1>3
      <3>2. step(g, p) = <<a>> \o u
        BY <1>c, <2>3
      <3> HIDE DEF a, u
      <3>3. <<a>> \o u \in Seq(C)
        BY <3>1
      <3> QED
        BY <3>2, <3>3
    <2> QED
      BY <1>1, <2>1, <2>2, <2>3, SMTT(30)
  <1>5. ASSUME NEW g \in [S -> T], NEW h \in [S -> T], NEW p \in S,
               \A r \in S : left[r] < left[p] => g[r] = h[r]
        PROVE  step(g, p) = step(h, p)
    <2>1. p <= Len(t) => g[p + 1] = h[p + 1]
      BY <1>5, FewerBytesLeft, p + 1 \in Nat, p < p + 1
    <2>2. p <= Len(t) /\ LooksLikePath(t, p) => g[PathEnd(t, p)] = h[PathEnd(t, p)]
      BY <1>2, <1>5, FewerBytesLeft
    <2>3. p > Len(t) \/ p <= Len(t)
      BY <1>1
    <2>4. CASE p > Len(t)
      BY <1>c, <2>4
    <2>5. CASE p <= Len(t) /\ LooksLikePath(t, p)
      BY <1>c, <2>2, <2>5
    <2>6. CASE p <= Len(t) /\ ~LooksLikePath(t, p)
      BY <1>c, <2>1, <2>6
    <2> QED
      BY <2>3, <2>4, <2>5, <2>6
  <1>6. PICK f \in [S -> T] : f = Body[f]
    <2>1. left \in [S -> Nat] /\ T # {}
      BY <1>3, BytesLeftType
    <2> HIDE DEF S, T, left
    <2>2. Grounded(S, T, left, Body)
      BY <1>4, <1>5, <2>1 DEF Grounded
    <2> HIDE DEF Body
    <2> QED
      BY <2>2, Recursion
  <1>7. f = [p \in S |-> step(f, p)]
    BY <1>6
  <1>8. rest = [p \in S |-> step(rest, p)]
    <2> QED
      BY <1>7
  <1>9. RedactPaths(t) = rest[1]
    BY DEF RedactPaths, step
  <1> HIDE DEF rest
  <1>10. ASSUME NEW p \in S PROVE rest[p] = step(rest, p)
    <2> QED
      BY <1>8
  <1>11. \A p \in S : rest[p] \in T
    <2> DEFINE P == {p \in S : rest[p] \in T}
    <2>1. left \in [S -> Nat]
      BY BytesLeftType
    <2>2. ASSUME NEW p \in S, \A r \in S : left[r] < left[p] => r \in P PROVE p \in P
      <3>1. CASE p > Len(t)
        BY <1>3, <1>10, <1>c, <3>1
      <3>2. CASE p <= Len(t) /\ LooksLikePath(t, p)
        <4> DEFINE u == rest[PathEnd(t, p)]
        <4>1. u \in Seq(C) /\ PathMark \in Seq(C)
          BY <1>2, <1>3, <2>2, <3>2, FewerBytesLeft
        <4>2. rest[p] = PathMark \o u
          BY <1>c, <1>10, <3>2
        <4> HIDE DEF u
        <4>3. PathMark \o u \in Seq(C)
          BY <4>1
        <4> QED
          BY <4>2, <4>3
      <3>3. CASE p <= Len(t) /\ ~LooksLikePath(t, p)
        <4> DEFINE a == t[p]
                   u == rest[p + 1]
        <4>1. a \in C /\ u \in Seq(C)
          BY <1>3, <2>2, <3>3, FewerBytesLeft, p < p + 1
        <4>2. rest[p] = <<a>> \o u
          BY <1>c, <1>10, <3>3
        <4> HIDE DEF a, u
        <4>3. <<a>> \o u \in Seq(C)
          BY <4>1
        <4> QED
          BY <4>2, <4>3
      <3> QED
        BY <1>1, <3>1, <3>2, <3>3, SMTT(30)
    <2>3. S \subseteq P
      <3> HIDE DEF P, S, left
      <3> QED
        BY <2>1, <2>2, MeasureInduction
    <2> QED
      BY <2>3
  <1>12. ASSUME NEW p \in 1 .. Len(t) + 1 PROVE RedactsAt(t, rest, p)
    <2>1. p \in Nat /\ rest[p] \in Seq(C) /\ rest[p] = step(rest, p)
      BY <1>10, <1>11
    <2>2. Sequence(rest[p])
      BY <2>1 DEF Sequence
    <2>3. p = Len(t) + 1 => rest[p] = <<>>
      <3>1. p = Len(t) + 1 => p > Len(t)
        BY <1>1
      <3> QED
        BY <1>c, <2>1, <3>1
    <2>4. ASSUME p <= Len(t), LooksLikePath(t, p)
          PROVE  /\ rest[p][1] = "/" /\ rest[p][2] = "[PATH]"
                 /\ Follows(rest[p], 2, rest[PathEnd(t, p)])
      <3> DEFINE u == rest[PathEnd(t, p)]
                 y == PathMark \o u
      <3>1. u \in Seq(C) /\ Sequence(u) /\ Sequence(PathMark)
        BY <1>2, <1>3, <1>11, <2>1, <2>4 DEF Sequence
      <3>2. rest[p] = y
        BY <1>c, <2>1, <2>4
      <3> HIDE DEF u
      <3>3. /\ Len(y) = Len(PathMark) + Len(u)
            /\ \A i \in 1 .. Len(PathMark) : y[i] = PathMark[i]
            /\ \A i \in 1 .. Len(u) : y[Len(PathMark) + i] = u[i]
        BY <3>1, ConcatBytes
      <3> HIDE DEF y
      <3>4. y[1] = "/" /\ y[2] = "[PATH]"
        BY <1>3, <3>3, 1 \in 1 .. 2, 2 \in 1 .. 2
      <3>5. Follows(y, 2, u)
        BY <1>3, <3>3 DEF Follows
      <3> QED
        BY <3>2, <3>4, <3>5 DEF u
    <2>5. ASSUME p <= Len(t), ~LooksLikePath(t, p)
          PROVE  rest[p][1] = t[p] /\ Follows(rest[p], 1, rest[p + 1])
      <3> DEFINE a == t[p]
                 h == <<a>>
                 u == rest[p + 1]
                 y == h \o u
      <3>1. Sequence(u) /\ Sequence(h)
        BY <1>3, <1>11, <2>1, SequenceOne DEF Sequence
      <3>2. rest[p] = y
        BY <1>c, <2>1, <2>5
      <3>3. Len(h) = 1 /\ h[1] = a
        OBVIOUS
      <3> HIDE DEF u, h
      <3>4. /\ Len(y) = Len(h) + Len(u)
            /\ \A i \in 1 .. Len(h) : y[i] = h[i]
            /\ \A i \in 1 .. Len(u) : y[Len(h) + i] = u[i]
        BY <3>1, ConcatBytes
      <3> HIDE DEF y, a
      <3>5. y[1] = a /\ Follows(y, 1, u)
        BY <3>3, <3>4, 1 \in 1 .. 1 DEF Follows
      <3> QED
        BY <3>2, <3>5 DEF u, a
    <2> QED
      BY <2>2, <2>3, <2>4, <2>5 DEF RedactsAt
  <1> QED
    BY <1>9, <1>12

Redacts(t, rest) == \A p \in 1 .. Len(t) + 1 : RedactsAt(t, rest, p)

(* What redaction makes of the text from s on is what it puts behind its   *)
(* first k elements.                                                       *)
Place(t, rest, k, s) ==
    s \in 1 .. Len(t) + 1 /\ k \in Nat /\ Follows(rest[1], k, rest[s])

LEMMA FollowsOn ==
    ASSUME NEW x, NEW u, NEW v, Len(v) \in Nat, NEW k \in Nat, NEW m \in Nat,
           Follows(x, k, u), Follows(u, m, v)
    PROVE  /\ Follows(x, k + m, v)
           /\ \A j \in 1 .. m : x[k + j] = u[j]
  <1> DEFINE L == Len(v)
             U == Len(u)
             X == Len(x)
  <1>1. L \in Nat /\ U = m + L /\ X = k + U
    BY DEF Follows
  <1>2. \A j \in 1 .. L : u[m + j] = v[j]
    BY DEF Follows
  <1>3. \A j \in 1 .. U : x[k + j] = u[j]
    BY DEF Follows
  <1> HIDE DEF L, U, X
  <1>4. ASSUME NEW j \in 1 .. L PROVE x[k + m + j] = v[j]
    <2>1. m + j \in 1 .. U /\ k + m + j = k + (m + j)
      BY <1>1
    <2> QED
      BY <1>2, <1>3, <2>1
  <1>5. \A j \in 1 .. m : x[k + j] = u[j]
    <2>1. \A j \in 1 .. m : j \in 1 .. U
      BY <1>1
    <2> QED
      BY <1>3, <2>1
  <1>6. X = k + m + L
    BY <1>1
  <1> QED
    BY <1>4, <1>5, <1>6 DEF Follows, L, X

(* A mark at place k, s, and a copy.                                       *)
Marked(t, rest, k, s) ==
    /\ rest[1][k + 1] = "/" /\ rest[1][k + 2] = "[PATH]"
    /\ Place(t, rest, k + 2, PathEnd(t, s))
    /\ s < PathEnd(t, s)

CopiedAt(t, rest, k, s) == rest[1][k + 1] = t[s] /\ Place(t, rest, k + 1, s + 1)

LEMMA PlaceGoesOn ==
    ASSUME NEW t, IsText(t), NEW rest, Redacts(t, rest), NEW k, NEW s,
           Place(t, rest, k, s), s <= Len(t)
    PROVE  /\ LooksLikePath(t, s) => Marked(t, rest, k, s)
           /\ ~LooksLikePath(t, s) => CopiedAt(t, rest, k, s)
  <1> DEFINE r == rest[1]
             u == rest[s]
  <1>1. Len(t) \in Nat /\ s \in 1 .. Len(t) /\ s + 1 \in 1 .. Len(t) + 1 /\ k \in Nat
    BY DEF Place, IsText
  <1>2. Follows(r, k, u)
    BY DEF Place
  <1>3. RedactsAt(t, rest, s) /\ \A p \in 1 .. Len(t) + 1 : Len(rest[p]) \in Nat
    BY <1>1 DEF Redacts, RedactsAt, Sequence
  <1>4. ASSUME LooksLikePath(t, s) PROVE Marked(t, rest, k, s)
    <2> DEFINE e == PathEnd(t, s)
               v == rest[e]
    <2>1. t[s] # " "
      BY <1>4 DEF LooksLikePath
    <2>2. e \in s .. Len(t) + 1 /\ s < e
      BY <1>1, <2>1, PathEndBounds
    <2>3. e \in 1 .. Len(t) + 1
      BY <1>1, <2>2
    <2>4. u[1] = "/" /\ u[2] = "[PATH]" /\ Follows(u, 2, v)
      BY <1>3, <1>4 DEF RedactsAt
    <2>5. Len(v) \in Nat
      BY <1>3, <2>3
    <2> HIDE DEF r, u, v, e
    <2>6. Follows(r, k + 2, v) /\ \A j \in 1 .. 2 : r[k + j] = u[j]
      BY <1>1, <1>2, <2>4, <2>5, FollowsOn
    <2>7. r[k + 1] = "/" /\ r[k + 2] = "[PATH]"
      BY <2>4, <2>6, 1 \in 1 .. 2, 2 \in 1 .. 2
    <2>8. k + 2 \in Nat
      BY <1>1
    <2>9. Place(t, rest, k + 2, e)
      BY <2>3, <2>6, <2>8 DEF Place, r, v
    <2> QED
      BY <2>2, <2>7, <2>9 DEF e, r, Marked
  <1>5. ASSUME ~LooksLikePath(t, s) PROVE CopiedAt(t, rest, k, s)
    <2> DEFINE v == rest[s + 1]
    <2>1. u[1] = t[s] /\ Follows(u, 1, v)
      BY <1>3, <1>5 DEF RedactsAt
    <2>2. Len(v) \in Nat
      BY <1>1, <1>3
    <2> HIDE DEF r, u, v
    <2>3. Follows(r, k + 1, v) /\ \A j \in 1 .. 1 : r[k + j] = u[j]
      BY <1>1, <1>2, <2>1, <2>2, FollowsOn
    <2>4. r[k + 1] = t[s]
      BY <2>1, <2>3, 1 \in 1 .. 1
    <2>5. k + 1 \in Nat
      BY <1>1
    <2>6. Place(t, rest, k + 1, s + 1)
      BY <1>1, <2>3, <2>5 DEF Place, r, v
    <2> QED
      BY <2>4, <2>6 DEF r, CopiedAt
  <1> QED
    BY <1>4, <1>5

LEMMA PlaceEnds ==
    ASSUME NEW t, IsText(t), NEW rest, Redacts(t, rest), NEW k, NEW s, Place(t, rest, k, s)
    PROVE  /\ Len(rest[1]) \in Nat /\ k \in 0 .. Len(rest[1])
           /\ s = Len(t) + 1 <=> k = Len(rest[1])
           /\ s <= Len(t) <=> k < Len(rest[1])
  <1> DEFINE L == Len(t)
             R == Len(rest[1])
             U == Len(rest[s])
  <1>1. L \in Nat /\ s \in 1 .. L + 1 /\ k \in Nat /\ R = k + U
    BY DEF Place, IsText, Follows
  <1>2. U \in Nat
    BY <1>1 DEF Redacts, RedactsAt, Sequence
  <1>3. s = L + 1 => U = 0
    BY <1>1 DEF Redacts, RedactsAt
  <1>4. s <= L => U > 0
    <2>1. ASSUME s <= L PROVE \E m \in {1, 2}, p \in 1 .. L + 1 : U = m + Len(rest[p])
      <3>1. RedactsAt(t, rest, s)
        BY <1>1 DEF Redacts
      <3>2. CASE LooksLikePath(t, s)
        <4>1. s \in 1 .. Len(t)
          BY <1>1, <2>1
        <4>2. PathEnd(t, s) \in s .. L + 1
          BY <4>1, PathEndBounds
        <4>3. PathEnd(t, s) \in 1 .. L + 1
          BY <1>1, <4>2
        <4>4. Follows(rest[s], 2, rest[PathEnd(t, s)])
          BY <2>1, <3>1, <3>2 DEF RedactsAt
        <4> QED
          BY <4>3, <4>4 DEF Follows
      <3>3. CASE ~LooksLikePath(t, s)
        <4>1. s + 1 \in 1 .. L + 1
          BY <1>1, <2>1
        <4>2. Follows(rest[s], 1, rest[s + 1])
          BY <2>1, <3>1, <3>3 DEF RedactsAt
        <4> QED
          BY <4>1, <4>2 DEF Follows
      <3> QED
        BY <3>2, <3>3
    <2>2. \A p \in 1 .. L + 1 : Len(rest[p]) \in Nat
      BY DEF Redacts, RedactsAt, Sequence
    <2>3. ASSUME NEW m \in {1, 2}, NEW n \in Nat, U = m + n PROVE U > 0
      BY <1>2, <2>3
    <2> QED
      BY <2>1, <2>2, <2>3
  <1> HIDE DEF L, R, U
  <1>5. R \in Nat /\ k \in 0 .. R /\ (s = L + 1 <=> k = R) /\ (s <= L <=> k < R)
    BY <1>1, <1>2, <1>3, <1>4
  <1> QED
    BY <1>5 DEF L, R

(* Every element is a copy, or one of the two of a mark.                   *)
LEMMA ElementComesFrom ==
    ASSUME NEW t, IsText(t), NEW rest, Redacts(t, rest), NEW n \in Nat, n < Len(rest[1])
    PROVE  \E k, s : /\ Place(t, rest, k, s) /\ s <= Len(t)
                     /\ n = k \/ (n = k + 1 /\ LooksLikePath(t, s))
  <1> DEFINE R == Len(rest[1])
             from(i) == \E k, s : /\ Place(t, rest, k, s) /\ s <= Len(t)
                                  /\ i = k \/ (i = k + 1 /\ LooksLikePath(t, s))
             P == {i \in Nat : i < R => from(i)}
  <1>1. Place(t, rest, 0, 1)
    <2>1. Follows(rest[1], 0, rest[1])
      <3>1. Len(rest[1]) \in Nat
        BY DEF IsText, Redacts, RedactsAt, Sequence
      <3> QED
        BY <3>1 DEF Follows
    <2> QED
      BY <2>1 DEF Place, IsText
  <1>2. R \in Nat
    BY <1>1, PlaceEnds
  <1>3. ASSUME NEW k, NEW s, Place(t, rest, k, s), k < R PROVE from(k)
    <2>1. s <= Len(t)
      BY <1>3, PlaceEnds
    <2> QED
      BY <1>3, <2>1
  <1>4. 0 \in P
    <2>1. 0 < R => from(0)
      BY <1>1, <1>3
    <2> QED
      BY <2>1
  <1>5. ASSUME NEW i \in Nat, i \in P PROVE i + 1 \in P
    <2>1. ASSUME i + 1 < R PROVE from(i + 1)
      <3>1. i < R
        BY <1>2, <2>1
      <3>2. PICK k, s : /\ Place(t, rest, k, s) /\ s <= Len(t)
                        /\ i = k \/ (i = k + 1 /\ LooksLikePath(t, s))
        BY <1>5, <3>1
      <3>3. CASE i = k /\ ~LooksLikePath(t, s)
        <4>1. Place(t, rest, i + 1, s + 1)
          BY <3>2, <3>3, PlaceGoesOn DEF CopiedAt
        <4> QED
          BY <1>3, <2>1, <4>1
      <3>4. CASE i = k /\ LooksLikePath(t, s)
        BY <3>2, <3>4
      <3>5. CASE i = k + 1 /\ LooksLikePath(t, s)
        <4>1. Place(t, rest, k + 2, PathEnd(t, s)) /\ k \in Nat
          BY <3>2, <3>5, PlaceGoesOn DEF Place, Marked
        <4>2. k + 2 = i + 1
          BY <3>5, <4>1
        <4> QED
          BY <1>3, <2>1, <4>1, <4>2
      <3> QED
        BY <3>2, <3>3, <3>4, <3>5
    <2> HIDE DEF from, R
    <2> QED
      BY <2>1
  <1>6. n \in P
    <2> HIDE DEF P
    <2> QED
      BY <1>4, <1>5, Induction
  <1> QED
    BY <1>6

(* m elements copied one after the other.                                  *)
Straight(t, rest, k, s, m) ==
    \A j \in 0 .. m : j < m /\ Place(t, rest, k + j, s + j) =>
                        s + j <= Len(t) /\ ~LooksLikePath(t, s + j)

Copied(t, rest, k, s, m) ==
    /\ \A j \in 0 .. m : Place(t, rest, k + j, s + j)
    /\ \A j \in 0 .. m : j < m => s + j <= Len(t) /\ rest[1][k + j + 1] = t[s + j]

LEMMA StraightIsCopied ==
    ASSUME NEW t, IsText(t), NEW rest, Redacts(t, rest), NEW k, NEW s, NEW m \in Nat,
           Place(t, rest, k, s), Straight(t, rest, k, s, m)
    PROVE  Copied(t, rest, k, s, m)
  <1> DEFINE P == {j \in Nat : j <= m => Place(t, rest, k + j, s + j)}
  <1>1. k \in Nat /\ s \in Nat
    BY DEF Place, IsText
  <1>2. 0 \in P
    BY <1>1, k + 0 = k, s + 0 = s
  <1>3. ASSUME NEW j \in Nat, j \in P PROVE j + 1 \in P
    <2>1. ASSUME j + 1 <= m PROVE Place(t, rest, k + (j + 1), s + (j + 1))
      <3>1. j \in 0 .. m /\ j < m /\ j <= m /\ k + (j + 1) = k + j + 1 /\ s + (j + 1) = s + j + 1
        BY <1>1, <2>1
      <3>2. Place(t, rest, k + j, s + j)
        BY <1>3, <3>1
      <3>3. s + j <= Len(t) /\ ~LooksLikePath(t, s + j)
        BY <3>1, <3>2 DEF Straight
      <3> DEFINE kj == k + j
                 sj == s + j
      <3>4. Place(t, rest, kj + 1, sj + 1)
        <4> HIDE DEF kj, sj
        <4>1. Place(t, rest, kj, sj) /\ sj <= Len(t) /\ ~LooksLikePath(t, sj)
          BY <3>2, <3>3 DEF kj, sj
        <4> QED
          BY <4>1, PlaceGoesOn DEF CopiedAt
      <3> QED
        BY <3>1, <3>4
    <2> QED
      BY <2>1
  <1>4. Nat \subseteq P
    <2> HIDE DEF P
    <2> QED
      BY <1>2, <1>3, Induction
  <1>5. ASSUME NEW j \in 0 .. m PROVE Place(t, rest, k + j, s + j)
    BY <1>4
  <1> HIDE DEF P
  <1>6. ASSUME NEW j \in 0 .. m, j < m PROVE s + j <= Len(t) /\ rest[1][k + j + 1] = t[s + j]
    <2> DEFINE kj == k + j
               sj == s + j
    <2>1. Place(t, rest, kj, sj) /\ sj <= Len(t) /\ ~LooksLikePath(t, sj)
      BY <1>5, <1>6 DEF Straight
    <2> HIDE DEF kj, sj
    <2>2. rest[1][kj + 1] = t[sj]
      BY <2>1, PlaceGoesOn DEF CopiedAt
    <2> QED
      BY <2>1, <2>2 DEF kj, sj
  <1> QED
    BY <1>5, <1>6 DEF Copied

(* Lower case, byte by byte.                                               *)
LowerByte(c) == IF c \in DOMAIN Capitals THEN Capitals[c] ELSE c

LEMMA LowerBytes ==
    ASSUME NEW t, Sequence(t)
    PROVE  /\ Sequence(Lower(t)) /\ Len(Lower(t)) = Len(t)
           /\ \A i \in 1 .. Len(t) : Lower(t)[i] = LowerByte(t[i])
  <1> DEFINE N == Len(t)
             D == {LowerByte(t[i]) : i \in 1 .. N}
             x == Lower(t)
  <1>1. DOMAIN t = 1 .. N /\ N \in Nat
    BY DEF Sequence
  <1>2. x = [i \in 1 .. N |-> LowerByte(t[i])]
    BY <1>1 DEF Lower, LowerByte
  <1>3. \A i \in 1 .. N : LowerByte(t[i]) \in D
    OBVIOUS
  <1> HIDE DEF D, N
  <1>4. \A i \in 1 .. N : x[i] = LowerByte(t[i])
    BY <1>2
  <1>5. x \in [1 .. N -> D]
    BY <1>2, <1>3
  <1> HIDE DEF x
  <1>6. x \in Seq(D) /\ Len(x) = N
    BY <1>1, <1>5
  <1> QED
    BY <1>4, <1>6 DEF Sequence, x, N

PatternWords == {"ignore", " ", "previous", "f", "orget", "about", "d", "isregard", "override", "b",
                 "ypass", "instead", "do", "this", "n", "ow", "you", "are"}

LEMMA NoWords ==
    /\ \A c \in {"/", "[PATH]", Backslash} : LowerByte(c) \notin PatternWords
  BY DEF LowerByte, Capitals, PatternWords, Backslash

LEMMA PatternsAreWords ==
    ASSUME NEW w \in InjectionPatterns
    PROVE  /\ Sequence(w) /\ Len(w) \in Nat \ {0}
           /\ \A k \in 1 .. Len(w) : w[k] \in PatternWords
  <1> DEFINE W == PatternWords
             ignore == "ignore"
             blank == " "
             previous == "previous"
             f == "f"
             orget == "orget"
             about == "about"
             d == "d"
             isregard == "isregard"
             override == "override"
             b == "b"
             ypass == "ypass"
             instead == "instead"
             do == "do"
             this == "this"
             n == "n"
             ow == "ow"
             you == "you"
             are == "are"
  <1>1. /\ ignore \in W /\ blank \in W /\ previous \in W /\ f \in W /\ orget \in W /\ about \in W
        /\ d \in W /\ isregard \in W /\ override \in W /\ b \in W /\ ypass \in W /\ instead \in W
        /\ do \in W /\ this \in W /\ n \in W /\ ow \in W /\ you \in W /\ are \in W
    BY DEF PatternWords
  <1>2. w \in {<<ignore, blank, previous>>, <<f, orget, blank, about>>, <<d, isregard>>,
               <<override>>, <<b, ypass>>, <<instead, blank, do, blank, this>>,
               <<n, ow, blank, you, blank, are>>, <<you, blank, are, blank, n, ow>>}
    BY DEF InjectionPatterns
  <1> HIDE DEF W, ignore, blank, previous, f, orget, about, d, isregard, override, b, ypass,
               instead, do, this, n, ow, you, are
  <1>3. w \in Seq(W) /\ Len(w) > 0
    <2>1. CASE w = <<ignore, blank, previous>>
      BY <1>1, <2>1
    <2>2. CASE w = <<f, orget, blank, about>>
      BY <1>1, <2>2
    <2>3. CASE w = <<d, isregard>>
      BY <1>1, <2>3
    <2>4. CASE w = <<override>>
      BY <1>1, <2>4
    <2>5. CASE w = <<b, ypass>>
      BY <1>1, <2>5
    <2>6. CASE w = <<instead, blank, do, blank, this>>
      BY <1>1, <2>6
    <2>7. CASE w = <<n, ow, blank, you, blank, are>>
      BY <1>1, <2>7
    <2>8. CASE w = <<you, blank, are, blank, n, ow>>
      BY <1>1, <2>8
    <2> QED
      BY <1>2, <2>1, <2>2, <2>3, <2>4, <2>5, <2>6, <2>7, <2>8
  <1>4. Len(w) \in Nat \ {0} /\ \A k \in 1 .. Len(w) : w[k] \in W
    BY <1>3
  <1> QED
    BY <1>3, <1>4 DEF Sequence, W

(* What reads like a pattern after redaction was copied, so it read like   *)
(* one before.                                                             *)
LEMMA PatternIsCopied ==
    ASSUME NEW t, Sequence(t), NEW rest, Redacts(t, rest), NEW w \in InjectionPatterns,
           NEW i \in Nat \ {0}, Stands(w, Lower(rest[1]), i)
    PROVE  ContainsInjectionPatterns(t)
  <1> DEFINE r == rest[1]
             R == Len(r)
             L == Len(w)
             n == i - 1
  <1>1. IsText(t) /\ Sequence(r)
    BY SequenceIsText DEF Redacts, RedactsAt, IsText
  <1>2. R \in Nat
    BY <1>1 DEF Sequence
  <1>3. Sequence(w) /\ L \in Nat \ {0} /\ \A k \in 1 .. L : w[k] \in PatternWords
    BY PatternsAreWords
  <1>4. Len(Lower(r)) = R /\ \A m \in 1 .. R : Lower(r)[m] = LowerByte(r[m])
    BY <1>1, LowerBytes
  <1>5. i + L - 1 <= R /\ \A k \in 1 .. L : Lower(r)[i + k - 1] = w[k]
    BY <1>4 DEF Stands
  <1> HIDE DEF R, L
  <1>6. ASSUME NEW j \in 0 .. L, j < L
        PROVE  n + j < R /\ n + j + 1 \in 1 .. R /\ LowerByte(r[n + j + 1]) = w[j + 1] /\ j + 1 \in 1 .. L
    <2>1. j + 1 \in 1 .. L /\ i + (j + 1) - 1 = n + j + 1 /\ n + j + 1 \in 1 .. R /\ n + j < R
      BY <1>2, <1>3, <1>5, <1>6
    <2>2. Lower(r)[n + j + 1] = w[j + 1]
      BY <1>5, <2>1
    <2> QED
      BY <1>4, <2>1, <2>2
  <1>7. ASSUME NEW j \in 0 .. L, j < L PROVE r[n + j + 1] \notin {"/", "[PATH]"}
    BY <1>3, <1>6, <1>7, NoWords
  <1>8. n \in Nat /\ 0 \in 0 .. L /\ 0 < L /\ n + 0 + 1 = n + 1 /\ n + 0 = n
    BY <1>3
  <1>9. n < R /\ r[n + 1] # "/" /\ r[n + 1] # "[PATH]"
    BY <1>6, <1>7, <1>8
  <1> HIDE DEF n
  <1>10. PICK k, s : /\ Place(t, rest, k, s) /\ s <= Len(t)
                     /\ n = k \/ (n = k + 1 /\ LooksLikePath(t, s))
    <2>1. n < Len(rest[1])
      BY <1>9 DEF R
    <2> QED
      BY <1>1, <1>8, <2>1, ElementComesFrom
  <1>11. Place(t, rest, n, s)
    <2>1. CASE n = k + 1 /\ LooksLikePath(t, s)
      <3>1. rest[1][k + 2] = "[PATH]" /\ k \in Nat
        BY <1>1, <1>10, <2>1, PlaceGoesOn DEF Place, Marked
      <3>2. k + 2 = n + 1
        BY <2>1, <3>1
      <3> QED
        BY <1>9, <3>1, <3>2
    <2> QED
      BY <1>10, <2>1
  <1>12. Straight(t, rest, n, s, L)
    <2>1. ASSUME NEW j \in 0 .. L, j < L, Place(t, rest, n + j, s + j)
          PROVE  s + j <= Len(t) /\ ~LooksLikePath(t, s + j)
      <3> DEFINE nj == n + j
                 sj == s + j
      <3>1. nj < R /\ r[nj + 1] # "/"
        BY <1>6, <1>7, <2>1
      <3>2. Place(t, rest, nj, sj)
        BY <2>1
      <3> HIDE DEF nj, sj
      <3>3. sj <= Len(t)
        BY <1>1, <3>1, <3>2, PlaceEnds DEF R
      <3>4. LooksLikePath(t, sj) => rest[1][nj + 1] = "/"
        BY <1>1, <3>2, <3>3, PlaceGoesOn DEF Marked
      <3> QED
        BY <3>1, <3>3, <3>4 DEF sj
    <2> QED
      BY <2>1 DEF Straight
  <1>13. Copied(t, rest, n, s, L)
    BY <1>1, <1>3, <1>11, <1>12, StraightIsCopied
  <1>14. s \in Nat \ {0} /\ Len(t) \in Nat
    BY <1>1, <1>11 DEF Place, IsText
  <1>15. ASSUME NEW j \in 0 .. L, j < L PROVE s + j <= Len(t) /\ LowerByte(t[s + j]) = w[j + 1]
    BY <1>6, <1>13, <1>15 DEF Copied
  <1>16. Len(Lower(t)) = Len(t) /\ Sequence(Lower(t)) /\ \A m \in 1 .. Len(t) : Lower(t)[m] = LowerByte(t[m])
    BY LowerBytes
  <1>17. s + L - 1 <= Len(Lower(t))
    <2> DEFINE j == L - 1
    <2>1. j \in 0 .. L /\ j < L /\ s + j = s + L - 1
      BY <1>3, <1>14
    <2> QED
      BY <1>15, <1>16, <2>1
  <1>18. ASSUME NEW m \in 1 .. L PROVE Lower(t)[s + m - 1] = w[m]
    <2> DEFINE j == m - 1
    <2>1. j \in 0 .. L /\ j < L /\ s + j = s + m - 1 /\ j + 1 = m
      BY <1>3, <1>14
    <2>2. s + j <= Len(t) /\ LowerByte(t[s + j]) = w[j + 1]
      BY <1>15, <2>1
    <2>3. s + m - 1 \in 1 .. Len(t)
      BY <1>14, <2>1, <2>2
    <2> QED
      BY <1>16, <2>1, <2>2, <2>3
  <1>19. Stands(w, Lower(t), s)
    BY <1>17, <1>18 DEF Stands, L
  <1>20. Occurs(w, Lower(t), s)
    BY <1>3, <1>14, <1>16, <1>19, OccursAt
  <1>21. s \in DOMAIN t
    BY <1>1, <1>10, <1>14 DEF IsText
  <1> QED
    BY <1>20, <1>21 DEF ContainsInjectionPatterns

(* A slash with no other before the next space, or the end, is no path.    *)
LEMMA OneSlash ==
    ASSUME NEW x, IsText(x), NEW i \in 1 .. Len(x), NEW z \in i .. Len(x),
           z < Len(x) => x[z + 1] = " ", \A q \in i + 1 .. z : x[q] # "/"
    PROVE  ~LooksLikePath(x, i)
  <1> DEFINE L == Len(x)
             e == PathEnd(x, i)
             slashes == {q \in i .. e - 1 : x[q] = "/"}
  <1>1. L \in Nat /\ i \in 1 .. L /\ z \in i .. L
    BY DEF IsText
  <1>2. e \in i .. L + 1 /\ \A q \in i .. e - 1 : x[q] # " "
    BY PathEndBounds
  <1>3. z < L => x[z + 1] = " "
    OBVIOUS
  <1> HIDE DEF L, e
  <1>4. e <= z + 1
    <2>1. e \in i .. L + 1
      BY <1>2
    <2>2. ~(e <= z + 1) => z + 1 \in i .. e - 1 /\ z < L
      BY ONLY <1>1, <2>1
    <2> QED
      BY <1>2, <1>3, <2>2
  <1>5. slashes \subseteq {i}
    <2>1. e \in i .. L + 1
      BY <1>2
    <2>2. \A q \in i .. e - 1 : q = i \/ q \in i + 1 .. z
      BY ONLY <1>1, <1>4, <2>1
    <2> QED
      BY <2>2
  <1> DEFINE c == Cardinality(slashes)
  <1>6. c \in Nat /\ c <= 1
    <2> HIDE DEF slashes
    <2>1. IsFiniteSet({i}) /\ Cardinality({i}) = 1
      BY FS_Singleton
    <2>2. IsFiniteSet(slashes) /\ Cardinality(slashes) <= Cardinality({i})
      BY <1>5, <2>1, FS_Subset
    <2>3. Cardinality(slashes) \in Nat
      BY <2>2, FS_CardinalityType
    <2> QED
      BY <2>1, <2>2, <2>3
  <1> HIDE DEF c
  <1>7. ~(c >= 2)
    BY ONLY <1>6
  <1> QED
    BY <1>7 DEF LooksLikePath, e, c

(* A slash that is no path has no other before the next space.             *)
LEMMA NoSecondSlash ==
    ASSUME NEW x, IsText(x), NEW s \in 1 .. Len(x), x[s] = "/", s = 1 \/ In(x, s - 1, Spaces),
           ~LooksLikePath(x, s), NEW q \in s .. PathEnd(x, s) - 1, q # s
    PROVE  x[q] # "/"
  <1> SUFFICES ASSUME x[q] = "/" PROVE FALSE
    OBVIOUS
  <1> DEFINE L == Len(x)
             e == PathEnd(x, s)
             slashes == {p \in s .. e - 1 : x[p] = "/"}
  <1>1. L \in Nat /\ e \in s .. L + 1 /\ s \in 1 .. L
    BY PathEndBounds DEF IsText
  <1>2. ~(Cardinality(slashes) >= 2)
    BY DEF LooksLikePath
  <1>3. q \in slashes
    OBVIOUS
  <1>4. s \in slashes
    <2>1. s \in s .. e - 1
      <3> HIDE DEF L, e
      <3>1. q \in s .. e - 1
        BY DEF e
      <3> QED
        BY <1>1, <3>1
    <2> QED
      BY <2>1
  <1>5. slashes \subseteq s .. e - 1
    OBVIOUS
  <1> HIDE DEF slashes
  <1>6. IsFiniteSet(slashes) /\ Cardinality(slashes) \in Nat
    <2>1. s \in Int /\ e - 1 \in Int
      <3> HIDE DEF L, e
      <3> QED
        BY <1>1
    <2>2. IsFiniteSet(s .. e - 1)
      BY <2>1, FS_Interval
    <2> QED
      BY <1>5, <2>2, FS_Subset, FS_CardinalityType
  <1>7. {s, q} \subseteq slashes
    BY <1>3, <1>4
  <1>8. IsFiniteSet({s}) /\ Cardinality({s}) = 1
    BY FS_Singleton
  <1>9. Cardinality({s} \cup {q}) = Cardinality({s}) + 1
    BY <1>8, FS_AddElement
  <1>10. {s} \cup {q} = {s, q}
    OBVIOUS
  <1>11. Cardinality({s, q}) <= Cardinality(slashes)
    BY <1>6, <1>7, FS_Subset
  <1> DEFINE c == Cardinality(slashes)
  <1>12. Cardinality({s, q}) = 1 + 1
    BY <1>8, <1>9, <1>10
  <1>13. c \in Nat /\ 1 + 1 <= c
    BY <1>6, <1>11, <1>12
  <1> HIDE DEF c
  <1>14. c >= 2
    BY ONLY <1>13
  <1> QED
    BY <1>2, <1>14 DEF c

(* Two slashes without a space between them look like a path, if the first *)
(* is at the start or behind white space.                                  *)
LEMMA SlashesMakePaths ==
    ASSUME NEW x, IsText(x), NEW i \in DOMAIN x, NEW j \in DOMAIN x, i < j, x[i] = "/", x[j] = "/",
           i = 1 \/ x[i - 1] \in Spaces, ~LooksLikePath(x, i)
    PROVE  \E k \in i .. j : x[k] = " "
  <1> DEFINE L == Len(x)
             e == PathEnd(x, i)
  <1>1. L \in Nat /\ i \in 1 .. L /\ j \in 1 .. L /\ DOMAIN x = 1 .. L
    BY DEF IsText
  <1>2. e \in i .. L + 1 /\ (e <= L => x[e] = " ")
    BY <1>1, PathEndBounds
  <1>3. i = 1 \/ In(x, i - 1, Spaces)
    <2>1. i # 1 => i - 1 \in DOMAIN x
      <3> HIDE DEF L
      <3> QED
        BY <1>1
    <2> QED
      BY <2>1 DEF In
  <1>4. j \in i .. e - 1 => FALSE
    <2>1. j # i
      BY <1>1
    <2> QED
      BY <1>1, <1>3, <2>1, NoSecondSlash
  <1> HIDE DEF L, e
  <1>5. e \in i .. j /\ e <= L
    <2>0. i < j
      OBVIOUS
    <2>a. L \in Int /\ i \in Int /\ j \in Int /\ i <= j /\ j <= L
      BY ONLY <2>0, <1>1
    <2>b. e \in i .. L + 1
      BY ONLY <1>2
    <2>1. L \in Int /\ i \in Int /\ j \in Int /\ e \in Int /\ i <= e /\ i < j /\ j <= L
      BY ONLY <2>0, <2>a, <2>b
    <2>2. j < e => FALSE
      BY <1>4, <2>1
    <2> QED
      BY ONLY <2>1, <2>2
  <1>6. x[e] = " "
    BY <1>2, <1>5
  <1> QED
    BY ONLY <1>5, <1>6

(* Redaction leaves nothing that looks like a path: what it copies has no  *)
(* second slash, and its marks have none.                                  *)
LEMMA NoPathIsLeft ==
    ASSUME NEW t, IsText(t), NEW rest, Redacts(t, rest), NEW i \in DOMAIN rest[1]
    PROVE  ~LooksLikePath(rest[1], i)
  <1> DEFINE r == rest[1]
             R == Len(r)
             n == i - 1
  <1>1. IsText(r) /\ R \in Nat /\ i \in 1 .. R /\ n \in Nat /\ n < R /\ n + 1 = i /\ Len(t) \in Nat
    <2>1. Sequence(r)
      BY DEF Redacts, RedactsAt, IsText
    <2> QED
      BY <2>1, SequenceIsText DEF IsText
  <1> HIDE DEF n
  <1> SUFFICES ASSUME r[i] = "/", i = 1 \/ In(r, i - 1, Spaces) PROVE ~LooksLikePath(r, i)
    BY DEF LooksLikePath
  <1>2. ASSUME NEW s \in 1 .. Len(t), NEW z \in Nat, i <= z, Place(t, rest, z, PathEnd(t, s)),
               \A q \in i + 1 .. z : r[q] # "/"
        PROVE  ~LooksLikePath(r, i)
    <2> DEFINE e == PathEnd(t, s)
    <2>1. e \in s .. Len(t) + 1 /\ (e <= Len(t) => t[e] = " ")
      BY PathEndBounds
    <2>2. Place(t, rest, z, e)
      BY <1>2
    <2> HIDE DEF e
    <2>3. z \in 0 .. R /\ (e <= Len(t) <=> z < R)
      BY <2>2, PlaceEnds
    <2>4. z \in i .. R
      <3> HIDE DEF R
      <3> QED
        BY <1>1, <1>2, <2>3
    <2>5. ASSUME z < R PROVE r[z + 1] = " "
      <3>1. ~LooksLikePath(t, e) /\ t[e] = " " /\ e <= Len(t)
        BY <2>1, <2>3, <2>5 DEF LooksLikePath
      <3>2. CopiedAt(t, rest, z, e)
        BY <2>2, <3>1, PlaceGoesOn
      <3> QED
        BY <3>1, <3>2 DEF CopiedAt
    <2> HIDE DEF r
    <2> QED
      BY <1>1, <1>2, <2>4, <2>5, OneSlash
  <1>3. \E s : /\ Place(t, rest, n, s) /\ s <= Len(t)
               /\ s = 1 \/ In(t, s - 1, Spaces)
    <2>1. CASE i = 1
      <3>1. n = 0
        BY <1>1, <2>1
      <3>2. Follows(rest[1], 0, rest[1]) /\ 1 \in 1 .. Len(t) + 1
        BY <1>1 DEF Follows
      <3>3. Place(t, rest, 0, 1)
        BY <3>2 DEF Place
      <3>4. 1 <= Len(t)
        BY <1>1, <3>1, <3>3, PlaceEnds
      <3> QED
        BY <3>1, <3>3, <3>4
    <2>2. CASE i # 1 /\ In(r, i - 1, Spaces)
      <3> DEFINE h == n - 1
      <3>1. h \in Nat /\ h + 1 = n /\ h < R /\ i - 1 = n
        BY <1>1, <2>2
      <3>2. r[n] # "/" /\ r[n] # "[PATH]" /\ r[n] \in Spaces
        BY <2>2, <3>1 DEF In, Spaces
      <3> HIDE DEF h
      <3>3. PICK k, s : /\ Place(t, rest, k, s) /\ s <= Len(t)
                        /\ h = k \/ (h = k + 1 /\ LooksLikePath(t, s))
        BY <3>1, ElementComesFrom
      <3>4. k \in Nat /\ s \in 1 .. Len(t)
        BY <1>1, <3>3 DEF Place
      <3>5. LooksLikePath(t, s) => r[k + 1] = "/" /\ r[k + 2] = "[PATH]"
        BY <3>3, PlaceGoesOn DEF Marked
      <3>6. h = k /\ ~LooksLikePath(t, s)
        <4>1. h = k + 1 => k + 2 = n
          BY <3>1, <3>4
        <4> QED
          BY <3>1, <3>2, <3>3, <3>5, <4>1
      <3>7. r[n] = t[s] /\ Place(t, rest, n, s + 1)
        <4>1. CopiedAt(t, rest, k, s)
          BY <3>3, <3>6, PlaceGoesOn
        <4> QED
          BY <3>1, <3>6, <4>1 DEF CopiedAt
      <3>8. s + 1 <= Len(t)
        BY <1>1, <3>7, PlaceEnds
      <3>9. In(t, s, Spaces)
        <4>1. s \in DOMAIN t
          BY <3>4 DEF IsText
        <4> QED
          BY <3>2, <3>7, <4>1 DEF In
      <3> DEFINE ahead == s + 1
      <3>10. /\ Place(t, rest, n, ahead) /\ ahead <= Len(t)
             /\ ahead = 1 \/ In(t, ahead - 1, Spaces)
        <4> HIDE DEF r, R
        <4>1. Place(t, rest, n, ahead) /\ ahead <= Len(t)
          BY <3>7, <3>8
        <4>2. ahead - 1 = s
          BY <3>4
        <4> HIDE DEF ahead
        <4>3. In(t, ahead - 1, Spaces)
          BY <3>9, <4>2
        <4> QED
          BY <4>1, <4>3
      <3> HIDE DEF ahead, r, R
      <3> QED
        BY <3>10
    <2> QED
      BY <2>1, <2>2
  <1>4. PICK s : /\ Place(t, rest, n, s) /\ s <= Len(t)
                 /\ s = 1 \/ In(t, s - 1, Spaces)
    BY <1>3
  <1>5. s \in 1 .. Len(t)
    BY <1>1, <1>4 DEF Place
  <1>6. CASE LooksLikePath(t, s)
    <2>1. Marked(t, rest, n, s)
      BY <1>4, <1>6, PlaceGoesOn
    <2>2. n + 2 = i + 1 /\ i + 1 \in Nat /\ i <= i + 1
      BY <1>1
    <2>3. Place(t, rest, i + 1, PathEnd(t, s)) /\ r[i + 1] = "[PATH]"
      BY <2>1, <2>2 DEF Marked
    <2>4. \A q \in i + 1 .. i + 1 : q = i + 1
      BY <1>1
    <2> QED
      BY <1>2, <1>5, <2>2, <2>3, <2>4
  <1>7. CASE ~LooksLikePath(t, s)
    <2> DEFINE e == PathEnd(t, s)
               m == e - s
    <2>1. t[s] = "/"
      <3>1. CopiedAt(t, rest, n, s)
        BY <1>4, <1>7, PlaceGoesOn
      <3> QED
        BY <1>1, <3>1 DEF CopiedAt
    <2>2. e \in s .. Len(t) + 1 /\ s < e
      <3>1. t[s] # " "
        BY <2>1
      <3> QED
        BY <1>5, <3>1, PathEndBounds
    <2> HIDE DEF e
    <2>3. m \in Nat \ {0} /\ s + m = e /\ s \in Nat
      BY <1>5, <2>2
    <2>4. ASSUME NEW j \in 0 .. m, j < m
          PROVE  s + j <= Len(t) /\ ~LooksLikePath(t, s + j) /\ (j # 0 => t[s + j] # "/")
      <3>1. s + j \in s .. e - 1 /\ s + j <= Len(t) /\ (j # 0 => s + j # s)
        BY <1>1, <1>5, <2>2, <2>3, <2>4
      <3>2. j # 0 => t[s + j] # "/"
        BY <1>4, <1>5, <1>7, <2>1, <3>1, NoSecondSlash DEF e
      <3>3. j = 0 => s + j = s
        BY <2>3
      <3>4. ~LooksLikePath(t, s + j)
        BY <1>7, <3>2, <3>3 DEF LooksLikePath
      <3> QED
        BY <3>1, <3>2, <3>4
    <2> HIDE DEF m
    <2>5. Straight(t, rest, n, s, m)
      BY <2>4 DEF Straight
    <2>6. Copied(t, rest, n, s, m)
      BY <1>4, <2>3, <2>5, StraightIsCopied
    <2>7. Place(t, rest, n + m, e) /\ n + m \in Nat
      BY <1>1, <2>3, <2>6, m \in 0 .. m DEF Copied
    <2>8. ASSUME NEW q \in i + 1 .. n + m PROVE r[q] # "/"
      <3> DEFINE j == q - i
      <3>1. j \in 0 .. m /\ j < m /\ j # 0 /\ n + j + 1 = q
        <4>1. i \in Nat /\ n + 1 = i /\ n \in Nat /\ m \in Nat /\ q \in i + 1 .. n + m
          BY <1>1, <2>3
        <4> QED
          BY ONLY <4>1 DEF j
      <3> HIDE DEF j
      <3>2. rest[1][n + j + 1] = t[s + j]
        BY <2>6, <3>1 DEF Copied
      <3> QED
        BY <2>4, <3>1, <3>2
    <2>9. i <= n + m
      BY <1>1, <2>3
    <2> DEFINE z == n + m
    <2>10. /\ z \in Nat /\ i <= z /\ Place(t, rest, z, PathEnd(t, s))
           /\ \A q \in i + 1 .. z : r[q] # "/"
      BY <2>7, <2>8, <2>9 DEF e
    <2> HIDE DEF z
    <2> QED
      BY <1>2, <1>5, <2>10
  <1> QED
    BY <1>6, <1>7

(* The pieces an escaped text is made of.                                  *)
Unsafe == ({Nul, "^["} \cup Controls) \ {"\t", "\n", "\r"}

LEMMA PieceForms ==
    ASSUME NEW x, NEW byte, ControlPiece(x, byte)
    PROVE  /\ \/ Len(x) = 1 /\ x[1] = byte
              \/ Len(x) = 2 /\ x[1] = Backslash
              \/ Len(x) = 3 /\ x[1] = Backslash /\ x[2] = "u001"
           /\ \A j \in 1 .. Len(x) : x[j] \notin Unsafe
  <1>1. CASE byte \in DOMAIN Codes /\ x = <<Backslash, Codes[byte]>>
    <2> DEFINE code == Codes[byte]
    <2>1. Backslash \notin Unsafe
      BY DEF Unsafe, Backslash, Nul, Controls, OtherControls, Letter
    <2>2. code \notin Unsafe
      BY <1>1 DEF Unsafe, Backslash, Quote, Nul, Controls, OtherControls, Letter, Codes
    <2>3. x = <<Backslash, code>>
      BY <1>1
    <2> HIDE DEF code
    <2>4. Len(x) = 2 /\ x[1] = Backslash /\ x[2] = code /\ 1 .. 2 = {1, 2}
      BY <2>3
    <2> QED
      BY <2>1, <2>2, <2>4
  <1>2. CASE byte = "^[" /\ x = <<Backslash, "u001", "b">>
    <2> DEFINE u == "u001"
               w == "b"
    <2>1. Backslash \notin Unsafe /\ u \notin Unsafe /\ w \notin Unsafe
      BY DEF Unsafe, Backslash, Nul, Controls, OtherControls, Letter
    <2>2. x = <<Backslash, u, w>>
      BY <1>2
    <2> HIDE DEF u, w
    <2>3. Len(x) = 3 /\ x[1] = Backslash /\ x[2] = u /\ x[3] = w /\ 1 .. 3 = {1, 2, 3}
      BY <2>2
    <2> QED
      BY <2>1, <2>3 DEF u
  <1>3. CASE byte \notin DOMAIN Codes \cup {"^["} /\ x = <<byte>>
    <2>1. byte \notin Unsafe
      BY <1>3, CodesType DEF Unsafe, Controls, OtherControls
    <2>2. Len(x) = 1 /\ x[1] = byte /\ 1 .. 1 = {1}
      BY <1>3
    <2> QED
      BY <2>1, <2>2
  <1> QED
    BY <1>1, <1>2, <1>3 DEF ControlPiece

LEMMA PieceOf ==
    ASSUME NEW N \in Nat, NEW C, NEW q, NEW e, Pieces(N, C, q, e), q[0] = <<>>,
           NEW i \in 1 .. Len(q[N])
    PROVE  \E n \in 1 .. N, m \in 0 .. N :
             n = m + 1 /\ PieceInPlace(N, q, e, n, m) /\ Len(q[m]) < i /\ i <= Len(q[n])
  <1> DEFINE found == \E n \in 1 .. N, m \in 0 .. N :
                        n = m + 1 /\ PieceInPlace(N, q, e, n, m) /\ Len(q[m]) < i /\ i <= Len(q[n])
             P == {n \in Nat : n <= N /\ i <= Len(q[n]) => found}
  <1>1. \A n \in 0 .. N : q[n] \in Seq(C) /\ Len(q[n]) \in Nat
    BY DEF Pieces
  <1>2. i \in Nat \ {0} /\ i <= Len(q[N])
    <2>1. Len(q[N]) \in Nat
      BY <1>1
    <2> QED
      BY <2>1
  <1>3. 0 \in P
    <2>1. Len(q[0]) = 0
      OBVIOUS
    <2>2. ~(i <= Len(q[0]))
      BY <1>2, <2>1
    <2> HIDE DEF found
    <2> QED
      BY <2>2
  <1>4. ASSUME NEW m \in Nat, m \in P PROVE m + 1 \in P
    <2>1. ASSUME m + 1 <= N, i <= Len(q[m + 1]) PROVE found
      <3> DEFINE n == m + 1
      <3>1. n \in 1 .. N /\ m \in 0 .. N /\ m <= N /\ n = m + 1 /\ m = n - 1
        BY <2>1
      <3>2. Len(q[m]) \in Nat
        BY <1>1, <3>1
      <3>3. CASE i <= Len(q[m])
        <4> HIDE DEF found
        <4> QED
          BY <1>4, <3>1, <3>3
      <3>4. CASE ~(i <= Len(q[m]))
        <4>1. PieceInPlace(N, q, e, n, m)
          BY <1>1, <3>1, PiecesStay
        <4>2. Len(q[m]) < i
          BY <1>2, <3>2, <3>4
        <4>3. i <= Len(q[n])
          BY <2>1
        <4> HIDE DEF n
        <4> QED
          BY <3>1, <4>1, <4>2, <4>3
      <3> QED
        BY <3>3, <3>4
    <2> HIDE DEF found
    <2> QED
      BY <2>1
  <1>5. N \in P
    <2> HIDE DEF P
    <2> QED
      BY <1>3, <1>4, Induction
  <1> QED
    BY <1>2, <1>5

(* A pattern in an escaped text is one of the text, or begins behind a     *)
(* part of an escape.                                                      *)
LEMMA EscapedPattern ==
    ASSUME NEW c, Sequence(c), NEW t, t = EscapeControlCharacters(c), NEW w \in InjectionPatterns,
           NEW i \in Nat \ {0}, Stands(w, Lower(t), i)
    PROVE  ContainsInjectionPatterns(c) \/ (i > 1 /\ t[i - 1] \in {Backslash, "u001"})
  <1> DEFINE N == Len(c)
             R == Len(t)
             L == Len(w)
  <1>1. PICK C, q, e : /\ Pieces(N, C, q, e)
                       /\ q[0] = <<>>
                       /\ t = q[N]
                       /\ \A n \in 1 .. N : ControlPiece(e[n], c[n])
    BY ControlPieces
  <1>2. N \in Nat /\ DOMAIN c = 1 .. N
    BY DEF Sequence
  <1>3. Sequence(t) /\ R \in Nat /\ \A n \in 0 .. N : Len(q[n]) \in Nat
    <2>1. \A n \in 0 .. N : q[n] \in Seq(C)
      BY <1>1 DEF Pieces
    <2>2. t \in Seq(C)
      BY <1>1, <1>2, <2>1
    <2> QED
      BY <2>1, <2>2 DEF Sequence
  <1>4. Sequence(w) /\ L \in Nat \ {0} /\ \A k \in 1 .. L : w[k] \in PatternWords
    BY PatternsAreWords
  <1>5. Len(Lower(t)) = R /\ \A m \in 1 .. R : Lower(t)[m] = LowerByte(t[m])
    BY <1>3, LowerBytes
  <1>6. i + L - 1 <= R /\ \A k \in 1 .. L : Lower(t)[i + k - 1] = w[k]
    BY <1>5 DEF Stands
  <1>7. Len(Lower(c)) = N /\ Sequence(Lower(c)) /\ \A m \in 1 .. N : Lower(c)[m] = LowerByte(c[m])
    BY LowerBytes
  <1> HIDE DEF R, L, N
  <1>8. ASSUME NEW j \in 0 .. L, j < L
        PROVE  /\ j + 1 \in 1 .. L /\ i + j \in 1 .. R /\ LowerByte(t[i + j]) = w[j + 1]
               /\ t[i + j] # Backslash
    <2>1. j + 1 \in 1 .. L /\ i + (j + 1) - 1 = i + j /\ i + j \in 1 .. R
      <3>1. R \in Nat /\ L \in Nat /\ i \in Nat \ {0} /\ i + L - 1 <= R /\ j \in 0 .. L /\ j < L
        BY <1>3, <1>4, <1>6, <1>8
      <3> QED
        BY ONLY <3>1
    <2>2. Lower(t)[i + j] = w[j + 1]
      BY <1>6, <2>1
    <2>3. LowerByte(t[i + j]) = w[j + 1]
      BY <1>5, <2>1, <2>2
    <2> QED
      BY <1>4, <2>1, <2>3, NoWords
  <1>9. 0 \in 0 .. L /\ 0 < L /\ i + 0 = i
    BY <1>4
  <1>10. i \in 1 .. R /\ t[i] # Backslash
    BY <1>8, <1>9
  <1>11. PICK n \in 1 .. N, m \in 0 .. N :
           n = m + 1 /\ PieceInPlace(N, q, e, n, m) /\ Len(q[m]) < i /\ i <= Len(q[n])
    <2>1. i \in 1 .. Len(q[N])
      BY <1>1, <1>10 DEF R
    <2> QED
      BY <1>1, <1>2, <2>1, PieceOf
  <1>12. ASSUME NEW u \in 1 .. N, NEW v \in 0 .. N, PieceInPlace(N, q, e, u, v),
                NEW a, a = Len(q[v]), NEW b, b = Len(q[u])
         PROVE  /\ a \in Nat
                /\ \/ b = a + 1 /\ t[a + 1] = c[u]
                   \/ b = a + 2 /\ t[a + 1] = Backslash
                   \/ b = a + 3 /\ t[a + 1] = Backslash /\ t[a + 2] = "u001"
    <2> DEFINE x == e[u]
               k == Len(x)
    <2>1. b = a + k /\ \A j \in 1 .. k : t[a + j] = x[j]
      BY <1>1, <1>12 DEF PieceInPlace
    <2>2. \/ k = 1 /\ x[1] = c[u]
          \/ k = 2 /\ x[1] = Backslash
          \/ k = 3 /\ x[1] = Backslash /\ x[2] = "u001"
      BY <1>1, PieceForms
    <2>3. a \in Nat
      BY <1>3, <1>12
    <2> HIDE DEF x, k
    <2>4. CASE k = 1 /\ x[1] = c[u]
      BY <2>1, <2>3, <2>4, 1 \in 1 .. 1
    <2>5. CASE k = 2 /\ x[1] = Backslash
      BY <2>1, <2>3, <2>5, 1 \in 1 .. 2
    <2>6. CASE k = 3 /\ x[1] = Backslash /\ x[2] = "u001"
      BY <2>1, <2>3, <2>6, 1 \in 1 .. 3, 2 \in 1 .. 3
    <2> QED
      BY <2>2, <2>4, <2>5, <2>6
  <1> DEFINE a == Len(q[m])
             b == Len(q[n])
  <1>13. /\ a \in Nat /\ a < i /\ i <= b
         /\ \/ b = a + 1 /\ t[a + 1] = c[n]
            \/ b = a + 2 /\ t[a + 1] = Backslash
            \/ b = a + 3 /\ t[a + 1] = Backslash /\ t[a + 2] = "u001"
    BY <1>11, <1>12
  <1>14. i = a + 1 \/ (i > 1 /\ t[i - 1] \in {Backslash, "u001"})
    <2> HIDE DEF a, b
    <2>1. i = a + 1 \/ (b = a + 2 /\ i = a + 2) \/ (b = a + 3 /\ (i = a + 2 \/ i = a + 3))
      BY <1>13
    <2>2. ASSUME NEW d \in {1, 2}, i = a + d + 1, t[a + d] \in {Backslash, "u001"}
          PROVE  i > 1 /\ t[i - 1] \in {Backslash, "u001"}
      <3>1. i - 1 = a + d /\ i > 1
        BY <1>13, <2>2
      <3> QED
        BY <2>2, <3>1
    <2>3. a + 2 = a + 1 + 1 /\ a + 3 = a + 2 + 1 /\ a + 1 # a + 2 /\ a + 1 # a + 3 /\ a + 2 # a + 3
      BY <1>13
    <2> QED
      BY <1>13, <2>1, <2>2, <2>3
  <1> SUFFICES ASSUME i = a + 1 PROVE ContainsInjectionPatterns(c)
    BY <1>14
  <1> DEFINE at(j) == m + j <= N /\ Len(q[m + j]) = a + j
             P == {j \in Nat : j <= L => at(j)}
  <1>15. a \in Nat /\ m \in 0 .. N /\ i = a + 1
    BY <1>13
  <1>16. 0 \in P
    <2>1. m + 0 = m /\ a + 0 = a /\ m <= N
      BY <1>2, <1>15
    <2> QED
      BY <2>1
  <1>17. ASSUME NEW j \in 0 .. L, j < L, at(j)
         PROVE  at(j + 1) /\ m + j + 1 \in 1 .. N /\ t[i + j] = c[m + j + 1]
    <2> DEFINE v == m + j
               u == v + 1
               y == Len(q[v])
               z == Len(q[u])
    <2>1. i + j \in 1 .. R /\ t[i + j] # Backslash
      BY <1>8, <1>17
    <2>2. v \in 0 .. N /\ y = a + j
      BY <1>2, <1>15, <1>17
    <2>3. v # N
      <3>1. y # R
        <4> HIDE DEF y, a
        <4> QED
          BY <1>3, <1>15, <2>1, <2>2
      <3> QED
        BY <1>1, <3>1 DEF R
    <2>4. u \in 1 .. N /\ v = u - 1
      <3> HIDE DEF v
      <3> QED
        BY <1>2, <2>2, <2>3
    <2>5. PieceInPlace(N, q, e, u, v)
      <3> HIDE DEF v, u
      <3> QED
        BY <1>1, <1>2, <2>4, PiecesStay
    <2>6. y + 1 = i + j
      <3> HIDE DEF y, a
      <3> QED
        BY <1>15, <2>2
    <2>7. z = y + 1 /\ t[y + 1] = c[u]
      <3>1. \/ z = y + 1 /\ t[y + 1] = c[u]
            \/ z = y + 2 /\ t[y + 1] = Backslash
            \/ z = y + 3 /\ t[y + 1] = Backslash /\ t[y + 2] = "u001"
        <4> HIDE DEF v, u
        <4> QED
          BY <1>12, <2>2, <2>4, <2>5
      <3> QED
        BY <2>1, <2>6, <3>1
    <2>8. m + (j + 1) = u /\ m + j + 1 = u
      BY <1>15
    <2>9. u <= N /\ z = a + (j + 1)
      <3> HIDE DEF y, z, u, a
      <3> QED
        BY <1>2, <1>15, <2>2, <2>4, <2>7
    <2>10. at(j + 1)
      BY <2>8, <2>9
    <2> QED
      BY <2>4, <2>6, <2>7, <2>8, <2>10
  <1>18. ASSUME NEW j \in Nat, j \in P PROVE j + 1 \in P
    <2>1. ASSUME j + 1 <= L PROVE at(j + 1)
      <3>1. j \in 0 .. L /\ j < L /\ j <= L
        BY <1>4, <2>1
      <3>2. at(j)
        BY <1>18, <3>1
      <3> HIDE DEF at
      <3> QED
        BY <1>17, <3>1, <3>2
    <2> HIDE DEF at
    <2> QED
      BY <2>1
  <1>19. Nat \subseteq P
    <2> HIDE DEF P
    <2> QED
      BY <1>16, <1>18, Induction
  <1>20. ASSUME NEW j \in 0 .. L, j < L PROVE m + j + 1 \in 1 .. N /\ LowerByte(c[m + j + 1]) = w[j + 1]
    <2>1. at(j)
      BY <1>4, <1>19, <1>20
    <2> HIDE DEF at, P, a, b
    <2> QED
      BY <1>8, <1>17, <1>20, <2>1
  <1> HIDE DEF P, at, a, b
  <1>21. n \in Nat \ {0} /\ n = m + 1 /\ m \in Nat
    BY <1>2, <1>11
  <1>22. n + L - 1 <= N
    <2> DEFINE j == L - 1
    <2>1. j \in 0 .. L /\ j < L /\ m + j + 1 = n + L - 1
      BY <1>4, <1>21
    <2> HIDE DEF j
    <2>2. m + j + 1 \in 1 .. N
      BY <1>20, <2>1
    <2> QED
      BY <1>2, <2>1, <2>2
  <1>23. ASSUME NEW k \in 1 .. L PROVE Lower(c)[n + k - 1] = w[k]
    <2> DEFINE j == k - 1
    <2>1. j \in 0 .. L /\ j < L /\ m + j + 1 = n + k - 1 /\ j + 1 = k
      BY <1>4, <1>21
    <2> HIDE DEF j
    <2>2. m + j + 1 \in 1 .. N /\ LowerByte(c[m + j + 1]) = w[j + 1]
      BY <1>20, <2>1
    <2> QED
      BY <1>7, <2>1, <2>2
  <1>24. Stands(w, Lower(c), n)
    BY <1>7, <1>22, <1>23 DEF Stands, L
  <1>25. Occurs(w, Lower(c), n)
    BY <1>4, <1>7, <1>21, <1>24, OccursAt
  <1> QED
    BY <1>2, <1>25 DEF ContainsInjectionPatterns

(* What is cut off, and what is let through.                               *)
LEMMA CutText ==
    ASSUME NEW t, Sequence(t)
    PROVE  /\ Sequence(Truncate(t))
           /\ Len(t) > MaxResponse =>
                /\ Len(Truncate(t)) = MaxResponse + 4
                /\ Truncate(t)[MaxResponse + 1] = "\n" /\ Truncate(t)[MaxResponse + 2] = "[OUTPUT"
                /\ Truncate(t)[MaxResponse + 3] = " " /\ Truncate(t)[MaxResponse + 4] = "TRUNCATED]"
                /\ MaxResponse \in 0 .. Len(t)
                /\ \A i \in 1 .. MaxResponse : Truncate(t)[i] = t[i]
  <1>1. CASE ~(Len(t) > MaxResponse)
    BY <1>1 DEF Truncate
  <1>2. CASE Len(t) > MaxResponse
    <2> DEFINE M == MaxResponse
               L == Len(t)
               head == SubSeq(t, 1, M)
               nl == "\n"
               out == "[OUTPUT"
               blank == " "
               cut == "TRUNCATED]"
               mark == <<nl, out, blank, cut>>
               x == head \o mark
    <2>1. Truncate(t) = x
      BY <1>2 DEF Truncate, TruncationMark
    <2>2. PICK S : t \in Seq(S)
      BY DEF Sequence
    <2>3. M \in Nat /\ L \in Nat /\ M \in 0 .. L
      BY <1>2, <2>2, ResponseAssumption
    <2> HIDE DEF M, nl, out, blank, cut
    <2>4. head \in Seq(S) /\ Len(head) = M /\ \A i \in 1 .. M : head[i] = t[i]
      <3>1. 1 \in 1 .. L + 1 /\ M \in 1 - 1 .. L
        BY <2>3
      <3> HIDE DEF L
      <3>2. L = Len(t)
        BY DEF L
      <3>3. head \in Seq(S) /\ Len(head) = M
        BY <2>2, <2>3, <3>1, <3>2
      <3>4. head = [i \in 1 .. M |-> t[i]]
        <4>1. head = [i \in 1 .. (1 + M - 1) |-> t[1 + i - 1]]
          BY <2>2, <2>3, <3>1, <3>2
        <4>2. 1 + M - 1 = M /\ \A i \in 1 .. M : 1 + i - 1 = i
          BY <2>3
        <4> QED
          BY <4>1, <4>2
      <3> HIDE DEF head
      <3> QED
        BY <3>3, <3>4
    <2>5. Sequence(mark) /\ Len(mark) = 4 /\ mark[1] = nl /\ mark[2] = out /\ mark[3] = blank /\ mark[4] = cut
      BY SequenceFour
    <2> HIDE DEF head, mark
    <2>6. Sequence(head) /\ Sequence(mark)
      <3>1. Sequence(head)
        BY <2>4 DEF Sequence
      <3> QED
        BY <2>5, <3>1
    <2>7. /\ Len(x) = Len(head) + Len(mark)
          /\ \A i \in 1 .. Len(head) : x[i] = head[i]
          /\ \A i \in 1 .. Len(mark) : x[Len(head) + i] = mark[i]
      BY <2>6, ConcatBytes
    <2>8. Sequence(x)
      BY <2>5, <2>6, SequenceConcat
    <2> HIDE DEF x
    <2>9. Len(x) = M + 4
      BY <2>4, <2>5, <2>7
    <2>10. x[M + 1] = nl /\ x[M + 2] = out /\ x[M + 3] = blank /\ x[M + 4] = cut
      BY <2>4, <2>5, <2>7, 1 \in 1 .. 4, 2 \in 1 .. 4, 3 \in 1 .. 4, 4 \in 1 .. 4
    <2>11. M \in 0 .. L /\ \A i \in 1 .. M : x[i] = t[i]
      BY <2>3, <2>4, <2>7
    <2> QED
      BY <2>1, <2>8, <2>9, <2>10, <2>11 DEF M, nl, out, blank, cut
  <1> QED
    BY <1>1, <1>2

Meant(t, config) == IF config.redact THEN RedactPaths(Truncate(t)) ELSE Truncate(t)

LEMMA RedactedText ==
    ASSUME NEW t, Sequence(t)
    PROVE  \E rest : RedactPaths(t) = rest[1] /\ Redacts(t, rest) /\ Sequence(rest[1])
  <1>1. PICK rest : RedactPaths(t) = rest[1] /\ \A p \in 1 .. Len(t) + 1 : RedactsAt(t, rest, p)
    BY SequenceIsText, RedactReads
  <1>2. 1 \in 1 .. Len(t) + 1
    BY SequenceIsText DEF IsText
  <1> QED
    BY <1>1, <1>2 DEF Redacts, RedactsAt

(* Without a slash there is nothing to redact, and none is put in.         *)
LEMMA NothingToRedact ==
    ASSUME NEW t, Sequence(t), \A i \in DOMAIN t : t[i] # "/"
    PROVE  RedactPaths(t) = t
  <1> DEFINE L == Len(t)
  <1>1. IsText(t) /\ L \in Nat /\ DOMAIN t = 1 .. L
    BY SequenceIsText DEF IsText
  <1>2. PICK rest : RedactPaths(t) = rest[1] /\ Redacts(t, rest) /\ Sequence(rest[1])
    BY RedactedText
  <1> DEFINE r == rest[1]
  <1>3. Place(t, rest, 0, 1)
    <2>1. Len(r) \in Nat
      BY <1>2 DEF Sequence
    <2>2. Follows(r, 0, r)
      <3> HIDE DEF r
      <3> QED
        BY <2>1 DEF Follows
    <2> QED
      BY <1>1, <2>2 DEF Place
  <1>4. Straight(t, rest, 0, 1, L)
    <2> SUFFICES ASSUME NEW j \in 0 .. L, j < L
                 PROVE  1 + j <= L /\ ~LooksLikePath(t, 1 + j)
      BY DEF Straight
    <2>1. 1 + j \in 1 .. L
      BY <1>1
    <2>2. t[1 + j] # "/"
      BY <1>1, <2>1
    <2> QED
      BY <1>1, <2>1, <2>2 DEF LooksLikePath
  <1> HIDE DEF L
  <1>5. Copied(t, rest, 0, 1, L)
    BY <1>1, <1>2, <1>3, <1>4, StraightIsCopied
  <1>6. L = Len(r)
    <2>1. Place(t, rest, 0 + L, 1 + L)
      BY <1>1, <1>5 DEF Copied
    <2>2. 0 + L = L /\ 1 + L = L + 1
      BY <1>1
    <2>3. Place(t, rest, L, L + 1)
      BY <2>1, <2>2
    <2> QED
      BY <1>1, <1>2, <2>3, PlaceEnds DEF L
  <1>7. ASSUME NEW i \in 1 .. L PROVE r[i] = t[i]
    <2> DEFINE j == i - 1
    <2>1. j \in 0 .. L /\ j < L /\ 0 + j + 1 = i /\ 1 + j = i
      BY <1>1
    <2> HIDE DEF j
    <2>2. r[0 + j + 1] = t[1 + j]
      BY <1>5, <2>1 DEF Copied
    <2> QED
      BY <2>1, <2>2
  <1>8. r = t
    <2>1. PICK A : t \in Seq(A)
      BY DEF Sequence
    <2>2. PICK B : r \in Seq(B)
      BY <1>2 DEF Sequence
    <2> HIDE DEF r
    <2>3. r = [i \in 1 .. L |-> r[i]] /\ t = [i \in 1 .. L |-> t[i]]
      BY <1>6, <2>1, <2>2 DEF L
    <2> QED
      BY <1>7, <2>3
  <1> QED
    BY <1>2, <1>8

LEMMA CutAddsNoSlash ==
    ASSUME NEW t, Sequence(t), \A i \in DOMAIN t : t[i] # "/"
    PROVE  \A i \in DOMAIN Truncate(t) : Truncate(t)[i] # "/"
  <1> DEFINE M == MaxResponse
             x == Truncate(t)
  <1>1. CASE ~(Len(t) > M)
    BY <1>1 DEF Truncate
  <1>2. CASE Len(t) > M
    <2>1. /\ Sequence(x) /\ Len(x) = M + 4
          /\ M \in 0 .. Len(t)
          /\ \A i \in 1 .. M : x[i] = t[i]
      BY <1>2, CutText
    <2>m. x[M + 1] # "/" /\ x[M + 2] # "/" /\ x[M + 3] # "/" /\ x[M + 4] # "/"
      <3>1. x[M + 1] = "\n" /\ x[M + 2] = "[OUTPUT" /\ x[M + 3] = " " /\ x[M + 4] = "TRUNCATED]"
        BY <1>2, CutText
      <3> HIDE DEF x
      <3> QED
        BY <3>1
    <2>2. DOMAIN x = 1 .. M + 4
      BY <2>1 DEF Sequence
    <2>3. Len(t) \in Nat /\ DOMAIN t = 1 .. Len(t)
      BY DEF Sequence
    <2> HIDE DEF x
    <2> SUFFICES ASSUME NEW i \in 1 .. M + 4 PROVE x[i] # "/"
      BY <2>2 DEF x
    <2>4. M \in Nat
      BY <2>1, <2>3
    <2>5. i \in 1 .. M \/ i = M + 1 \/ i = M + 2 \/ i = M + 3 \/ i = M + 4
      BY <2>4
    <2>6. CASE i \in 1 .. M
      <3>1. i \in DOMAIN t
        BY <2>1, <2>3, <2>6
      <3> QED
        BY <2>1, <2>6, <3>1
    <2>7. CASE i \notin 1 .. M
      BY <2>m, <2>5, <2>7
    <2> QED
      BY <2>6, <2>7
  <1> QED
    BY <1>1, <1>2

LEMMA Released ==
    ASSUME NEW t, Sequence(t), NEW config \in SanitizeConfigs, Sanitize(t, config) # Refused
    PROVE  /\ ~ContainsInjectionPatterns(Truncate(t))
           /\ Sequence(Meant(t, config))
           /\ config.escape => /\ Sanitize(t, config) = EscapeControlCharacters(Meant(t, config))
                               /\ Meaning(Sanitize(t, config)) = Meant(t, config)
           /\ ~config.escape => Sanitize(t, config) = Meant(t, config)
  <1> DEFINE told == Meant(t, config)
  <1>1. /\ ~ContainsInjectionPatterns(Truncate(t))
        /\ config.escape => Sanitize(t, config) = EscapeControlCharacters(told)
        /\ ~config.escape => Sanitize(t, config) = told
    BY DEF Sanitize, Meant
  <1>2. Sequence(told)
    <2>1. Sequence(Truncate(t))
      BY CutText
    <2>2. Sequence(RedactPaths(Truncate(t)))
      BY <2>1, RedactedText
    <2> QED
      BY <2>1, <2>2 DEF Meant
  <1>3. Meaning(EscapeControlCharacters(told)) = told
    BY <1>2, MeaningOfEscaped
  <1> QED
    BY <1>1, <1>2, <1>3

LEMMA ReleasedIsClean ==
    ASSUME NEW t, Sequence(t)
    PROVE  ReleasedTextIsClean(t)
  <1> DEFINE lower(u) == [i \in DOMAIN u |-> IF u[i] \in {"B", "N", "F", "D"} THEN Capitals[u[i]] ELSE u[i]]
             holds(u, i) == \E pattern \in InjectionPatterns : Occurs(pattern, lower(u), i)
             cut == Truncate(t)
  <1>1. ASSUME NEW u PROVE lower(u) = Lower(u)
    BY DEF Lower, Capitals
  <1>2. ASSUME NEW u, Sequence(u), NEW i \in DOMAIN u, holds(u, i)
        PROVE  /\ ContainsInjectionPatterns(u)
               /\ i \in Nat \ {0}
               /\ \E w \in InjectionPatterns : Stands(w, Lower(u), i)
    <2>1. PICK w \in InjectionPatterns : Occurs(w, Lower(u), i)
      BY <1>1, <1>2
    <2>2. i \in Nat \ {0}
      BY <1>2 DEF Sequence
    <2>3. Stands(w, Lower(u), i)
      BY <1>2, <2>1, <2>2, LowerBytes, PatternsAreWords, OccursAt
    <2> QED
      BY <2>1, <2>2, <2>3 DEF ContainsInjectionPatterns
  <1> SUFFICES ASSUME NEW config \in SanitizeConfigs, Sanitize(t, config) # Refused
               PROVE  LET r == Sanitize(t, config)
                          told == IF config.escape THEN Meaning(r) ELSE r
                      IN /\ \A i \in DOMAIN told : ~holds(told, i)
                         /\ config.redact =>
                              \A i, j \in DOMAIN told :
                                i < j /\ told[i] = "/" /\ told[j] = "/" /\ (i = 1 \/ told[i - 1] \in Spaces) =>
                                  \E k \in i .. j : told[k] = " "
                         /\ (\A i \in DOMAIN t : t[i] # "/") => told = cut
                         /\ \A i \in DOMAIN r : holds(r, i) => i > 1 /\ r[i - 1] \in {Backslash, "u001"}
    BY DEF ReleasedTextIsClean
  <1> DEFINE r == Sanitize(t, config)
             told == IF config.escape THEN Meaning(r) ELSE r
             meant == Meant(t, config)
  <1>3. /\ ~ContainsInjectionPatterns(cut)
        /\ Sequence(meant) /\ told = meant
        /\ config.escape => r = EscapeControlCharacters(meant)
        /\ ~config.escape => r = meant
    BY Released
  <1>4. Sequence(cut)
    BY CutText
  <1> HIDE DEF cut, holds, lower, r, told
  <1>5. ~ContainsInjectionPatterns(meant)
    <2>1. CASE ~config.redact
      BY <1>3, <2>1 DEF Meant, cut
    <2>2. CASE config.redact
      <3>1. PICK rest : RedactPaths(cut) = rest[1] /\ Redacts(cut, rest) /\ Sequence(rest[1])
        BY <1>4, RedactedText
      <3>2. meant = rest[1]
        BY <2>2, <3>1 DEF Meant, cut
      <3>3. SUFFICES ASSUME NEW w \in InjectionPatterns, NEW i \in DOMAIN meant, Occurs(w, Lower(meant), i)
                     PROVE  FALSE
        BY DEF ContainsInjectionPatterns
      <3>4. i \in Nat \ {0}
        BY <1>3, <3>3 DEF Sequence
      <3> HIDE DEF meant
      <3>5. Stands(w, Lower(meant), i)
        BY <1>3, <3>3, <3>4, LowerBytes, PatternsAreWords, OccursAt
      <3>6. ContainsInjectionPatterns(cut)
        BY <1>4, <3>1, <3>2, <3>4, <3>5, PatternIsCopied
      <3> QED
        BY <1>3, <3>6
    <2> QED
      BY <2>1, <2>2
  <1>6. ASSUME config.redact, NEW i \in DOMAIN told, NEW j \in DOMAIN told,
               i < j, told[i] = "/", told[j] = "/", i = 1 \/ told[i - 1] \in Spaces
        PROVE  \E k \in i .. j : told[k] = " "
    <2>1. PICK rest : RedactPaths(cut) = rest[1] /\ Redacts(cut, rest)
      BY <1>4, RedactedText
    <2>2. told = rest[1]
      BY <1>3, <1>6, <2>1 DEF Meant, cut
    <2>3. ~LooksLikePath(told, i)
      BY <1>4, <2>1, <2>2, NoPathIsLeft, SequenceIsText
    <2>4. IsText(told)
      BY <1>3, SequenceIsText
    <2> QED
      BY <1>6, <2>3, <2>4, SlashesMakePaths
  <1>7. \A i \in DOMAIN told : ~holds(told, i)
    <2> HIDE DEF meant
    <2> QED
      BY <1>2, <1>3, <1>5
  <1>8. \A i \in DOMAIN r : holds(r, i) => i > 1 /\ r[i - 1] \in {Backslash, "u001"}
    <2> SUFFICES ASSUME NEW i \in DOMAIN r, holds(r, i) PROVE i > 1 /\ r[i - 1] \in {Backslash, "u001"}
      OBVIOUS
    <2> HIDE DEF meant
    <2>1. CASE ~config.escape
      BY <1>2, <1>3, <1>5, <2>1
    <2>2. CASE config.escape
      <3>1. r = EscapeControlCharacters(meant)
        BY <1>3, <2>2
      <3>2. Sequence(r)
        BY <1>3, <3>1, EscapedIsOneString
      <3>3. PICK w \in InjectionPatterns : i \in Nat \ {0} /\ Stands(w, Lower(r), i)
        BY <1>2, <3>2
      <3> QED
        BY <1>3, <1>5, <3>1, <3>3, EscapedPattern
    <2> QED
      BY <2>1, <2>2
  <1>9. ASSUME \A i \in DOMAIN t : t[i] # "/" PROVE told = cut
    <2>1. RedactPaths(cut) = cut
      BY <1>4, <1>9, CutAddsNoSlash, NothingToRedact DEF cut
    <2> QED
      BY <1>3, <2>1 DEF Meant, cut
  <1> QED
    BY <1>6, <1>7, <1>8, <1>9 DEF r, told

(* What ends with given elements has them as a suffix.                     *)
LEMMA ReverseElements ==
    ASSUME NEW C, NEW s \in Seq(C)
    PROVE  /\ Reverse(s) \in Seq(C) /\ Len(Reverse(s)) = Len(s)
           /\ \A i \in 1 .. Len(s) : Reverse(s)[i] = s[Len(s) - i + 1]
  <1> DEFINE L == Len(s)
             r == Reverse(s)
  <1>1. L \in Nat /\ r = [i \in 1 .. L |-> s[L - i + 1]]
    BY DEF Reverse
  <1>2. \A i \in 1 .. L : L - i + 1 \in 1 .. L
    <2> HIDE DEF L
    <2> QED
      BY ONLY <1>1
  <1>3. \A i \in 1 .. L : s[i] \in C
    OBVIOUS
  <1> HIDE DEF L, r
  <1>4. \A i \in 1 .. L : r[i] = s[L - i + 1]
    BY <1>1
  <1>5. r \in [1 .. L -> C]
    BY <1>1, <1>2, <1>3
  <1>6. r \in Seq(C) /\ Len(r) = L
    BY <1>1, <1>5
  <1> QED
    BY <1>4, <1>6 DEF L, r

LEMMA SuffixElements ==
    ASSUME NEW x, Sequence(x), NEW w, Sequence(w), NEW k \in Nat, Follows(x, k, w)
    PROVE  IsSuffix(w, x)
  <1> DEFINE X == Len(x)
             W == Len(w)
             rx == Reverse(x)
             rw == Reverse(w)
  <1>1. PICK C : x \in Seq(C) /\ w \in Seq(C)
    <2>1. PICK A : x \in Seq(A)
      BY DEF Sequence
    <2>2. PICK B : w \in Seq(B)
      BY DEF Sequence
    <2>3. Seq(A) \subseteq Seq(A \cup B) /\ Seq(B) \subseteq Seq(A \cup B)
      OBVIOUS
    <2> QED
      BY <2>1, <2>2, <2>3
  <1>2. X \in Nat /\ W \in Nat /\ X = k + W /\ \A j \in 1 .. W : x[k + j] = w[j]
    BY <1>1 DEF Follows
  <1>3. rx \in Seq(C) /\ Len(rx) = X /\ \A i \in 1 .. X : rx[i] = x[X - i + 1]
    BY <1>1, ReverseElements
  <1>4. rw \in Seq(C) /\ Len(rw) = W /\ \A i \in 1 .. W : rw[i] = w[W - i + 1]
    BY <1>1, ReverseElements
  <1> HIDE DEF X, W, rx, rw
  <1>5. ASSUME NEW i \in 1 .. W PROVE rw[i] = rx[i]
    <2> DEFINE j == W - i + 1
    <2>1. j \in 1 .. W /\ X - i + 1 = k + j /\ i \in 1 .. X
      <3>1. X \in Nat /\ W \in Nat /\ X = k + W /\ i \in 1 .. W /\ k \in Nat
        BY <1>2
      <3> QED
        BY ONLY <3>1
    <2>2. rw[i] = w[j] /\ rx[i] = x[X - i + 1]
      BY <1>3, <1>4, <2>1
    <2> HIDE DEF j
    <2> QED
      BY <1>2, <2>1, <2>2
  <1>6. W <= X
    <2>1. X \in Nat /\ W \in Nat /\ X = k + W /\ k \in Nat
      BY <1>2
    <2> QED
      BY ONLY <2>1
  <1>7. IsPrefix(rw, rx)
    BY <1>3, <1>4, <1>5, <1>6, PrefixElements
  <1> QED
    BY <1>7 DEF IsSuffix, rw, rx

EndsIn(x, k, a, b, c, d) ==
    Len(x) = k + 4 /\ x[k + 1] = a /\ x[k + 2] = b /\ x[k + 3] = c /\ x[k + 4] = d

LEMMA EndIsSuffix ==
    ASSUME NEW x, Sequence(x), NEW k \in Nat, NEW a, NEW b, NEW c, NEW d, EndsIn(x, k, a, b, c, d)
    PROVE  IsSuffix(<<a, b, c, d>>, x) /\ IsSuffix(<<c, d>>, x)
  <1> DEFINE v == <<a, b, c, d>>
             w == <<c, d>>
  <1>1. Sequence(v) /\ Len(v) = 4 /\ v[1] = a /\ v[2] = b /\ v[3] = c /\ v[4] = d
    BY SequenceFour
  <1>2. w \in Seq({c, d}) /\ Len(w) = 2 /\ w[1] = c /\ w[2] = d
    OBVIOUS
  <1> HIDE DEF v, w
  <1>3. Sequence(w)
    BY <1>2 DEF Sequence
  <1>4. 1 .. 4 = {1, 2, 3, 4} /\ 1 .. 2 = {1, 2}
    OBVIOUS
  <1>5. Follows(x, k, v)
    BY <1>1, <1>4 DEF Follows, EndsIn
  <1>6. Follows(x, k + 2, w) /\ k + 2 \in Nat
    <2>1. k + 2 + 2 = k + 4 /\ k + 2 + 1 = k + 3 /\ k + 2 \in Nat
      OBVIOUS
    <2> QED
      BY <1>2, <1>4, <2>1 DEF Follows, EndsIn
  <1>7. IsSuffix(v, x)
    BY <1>1, <1>5, SuffixElements
  <1>8. IsSuffix(w, x)
    BY <1>3, <1>6, SuffixElements
  <1> QED
    BY <1>7, <1>8 DEF v, w

(* Redaction comes by every position of the text, or a path runs over it.  *)
LEMMA Reached ==
    ASSUME NEW t, IsText(t), NEW rest, Redacts(t, rest), NEW z \in 1 .. Len(t) + 1
    PROVE  \/ \E k : Place(t, rest, k, z)
           \/ \E k, p : Place(t, rest, k, p) /\ p < z /\ z < PathEnd(t, p) /\ LooksLikePath(t, p)
  <1> DEFINE reached(s) ==
                 \/ \E k : Place(t, rest, k, s)
                 \/ \E k, p : Place(t, rest, k, p) /\ p < s /\ s < PathEnd(t, p) /\ LooksLikePath(t, p)
             P == {n \in Nat : n <= Len(t) => reached(n + 1)}
  <1>1. Len(t) \in Nat
    BY DEF IsText
  <1>2. 0 \in P
    <2>1. Follows(rest[1], 0, rest[1]) /\ 1 \in 1 .. Len(t) + 1 /\ 0 + 1 = 1
      <3>1. Len(rest[1]) \in Nat
        BY <1>1 DEF Redacts, RedactsAt, Sequence
      <3> QED
        BY <1>1, <3>1 DEF Follows
    <2>2. Place(t, rest, 0, 1)
      BY <2>1 DEF Place
    <2> QED
      BY <2>1, <2>2
  <1>3. ASSUME NEW n \in Nat, n \in P PROVE n + 1 \in P
    <2> DEFINE s == n + 1
    <2>1. ASSUME s <= Len(t) PROVE reached(s + 1)
      <3>1. reached(s) /\ s \in Nat
        BY <1>1, <1>3, <2>1
      <3> HIDE DEF s
      <3>2. ASSUME NEW k, Place(t, rest, k, s), ~LooksLikePath(t, s) PROVE reached(s + 1)
        <4>1. CopiedAt(t, rest, k, s)
          BY <2>1, <3>2, PlaceGoesOn
        <4>2. Place(t, rest, k + 1, s + 1)
          BY <4>1 DEF CopiedAt
        <4> QED
          BY <4>2
      <3>3. ASSUME NEW k, NEW p, Place(t, rest, k, p), LooksLikePath(t, p), p <= s, s < PathEnd(t, p)
            PROVE  reached(s + 1)
        <4> DEFINE e == PathEnd(t, p)
        <4>1. p \in 1 .. Len(t) + 1
          BY <3>3 DEF Place
        <4>2. p <= Len(t) /\ p \in 1 .. Len(t)
          BY <1>1, <2>1, <3>1, <3>3, <4>1
        <4>3. Marked(t, rest, k, p)
          BY <3>3, <4>2, PlaceGoesOn
        <4>4. Place(t, rest, k + 2, e)
          BY <4>3 DEF Marked
        <4>5. e \in Nat
          <5>1. e \in p .. Len(t) + 1
            BY <4>2, PathEndBounds
          <5> HIDE DEF e
          <5> QED
            BY <4>2, <5>1
        <4> HIDE DEF e
        <4>6. s + 1 = e \/ s + 1 < e
          BY <3>1, <3>3, <4>5 DEF e
        <4>7. p < s + 1
          BY <3>1, <3>3, <4>2
        <4>8. s + 1 = e => reached(s + 1)
          BY <4>4
        <4> QED
          BY <3>3, <4>6, <4>7, <4>8 DEF e
      <3>4. ASSUME NEW k, Place(t, rest, k, s), LooksLikePath(t, s) PROVE reached(s + 1)
        <4>1. Marked(t, rest, k, s)
          BY <2>1, <3>4, PlaceGoesOn
        <4>2. s <= s /\ s < PathEnd(t, s)
          BY <3>1, <4>1 DEF Marked
        <4> HIDE DEF reached
        <4> QED
          BY <3>3, <3>4, <4>2
      <3>5. ASSUME NEW k, NEW p, Place(t, rest, k, p), p < s, s < PathEnd(t, p), LooksLikePath(t, p)
            PROVE  reached(s + 1)
        <4>1. p \in 1 .. Len(t) + 1
          BY <3>5 DEF Place
        <4>2. p <= s
          BY <1>1, <3>1, <3>5, <4>1
        <4> HIDE DEF reached
        <4> QED
          BY <3>3, <3>5, <4>2
      <3>6. \/ \E k : Place(t, rest, k, s)
            \/ \E k, p : Place(t, rest, k, p) /\ p < s /\ s < PathEnd(t, p) /\ LooksLikePath(t, p)
        BY <3>1
      <3> HIDE DEF reached
      <3> QED
        BY <3>2, <3>4, <3>5, <3>6
    <2> HIDE DEF reached
    <2> QED
      BY <2>1
  <1>4. Nat \subseteq P
    <2> HIDE DEF P
    <2> QED
      BY <1>2, <1>3, Induction
  <1>5. z - 1 \in Nat /\ z - 1 <= Len(t) /\ z - 1 + 1 = z
    BY <1>1
  <1>6. reached(z)
    <2> DEFINE n == z - 1
    <2>1. n \in P /\ n <= Len(t) /\ n + 1 = z
      BY <1>4, <1>5
    <2> HIDE DEF n, reached
    <2> QED
      BY <2>1
  <1> QED
    BY <1>6

HasMark(x, k) == EndsIn(x, k, "\n", "[OUTPUT", " ", "TRUNCATED]")
HasPath(x, k) == EndsIn(x, k, "/", "[PATH]", " ", "TRUNCATED]")

(* Redaction keeps the mark of the cut, but for a path that runs into it.  *)
LEMMA MarkIsKept ==
    ASSUME NEW t, IsText(t), NEW rest, Redacts(t, rest), NEW M \in Nat,
           HasMark(t, M)
    PROVE  \E k \in Nat : HasMark(rest[1], k) \/ HasPath(rest[1], k)
  <1> DEFINE r == rest[1]
             L == Len(t)
  <1>1. /\ L = M + 4 /\ t[M + 1] = "\n" /\ t[M + 2] = "[OUTPUT"
        /\ t[M + 3] = " " /\ t[M + 4] = "TRUNCATED]"
    BY DEF EndsIn, HasMark
  <1> HIDE DEF r, L
  <1>s. L = M + 4
    BY <1>1
  <1>2. M + 1 \in 1 .. Len(t) + 1
    <2>1. M + 1 \in 1 .. L + 1
      BY <1>s
    <2> QED
      BY <2>1 DEF L
  <1>3. ASSUME NEW k, Place(t, rest, k, M + 3)
        PROVE  /\ k \in Nat /\ Len(r) = k + 2
               /\ r[k + 1] = " " /\ r[k + 2] = "TRUNCATED]"
    <2>1. \A j \in 0 .. 2 : j < 2 => j = 0 \/ j = 1
      OBVIOUS
    <2>2. M + 3 + 0 = M + 3 /\ M + 3 + 1 = M + 4 /\ M + 3 + 2 = M + 4 + 1 /\ M + 3 <= M + 4 /\ M + 4 <= M + 4
      OBVIOUS
    <2>3. Straight(t, rest, k, M + 3, 2)
      <3>1. ASSUME NEW j \in 0 .. 2, j < 2 PROVE M + 3 + j <= Len(t) /\ ~LooksLikePath(t, M + 3 + j)
        <4>1. CASE j = 0
          BY <1>1, <2>2, <4>1 DEF LooksLikePath, L
        <4>2. CASE j = 1
          BY <1>1, <2>2, <4>2 DEF LooksLikePath, L
        <4> QED
          BY <2>1, <3>1, <4>1, <4>2
      <3> QED
        BY <3>1 DEF Straight
    <2>4. Copied(t, rest, k, M + 3, 2)
      BY <1>3, <2>3, 2 \in Nat, StraightIsCopied
    <2>5. k \in Nat /\ k + 0 + 1 = k + 1 /\ k + 1 + 1 = k + 2
      <3>1. k \in Nat
        BY <1>3 DEF Place
      <3> QED
        BY <3>1
    <2>6. r[k + 0 + 1] = t[M + 3 + 0] /\ r[k + 1 + 1] = t[M + 3 + 1] /\ Place(t, rest, k + 2, M + 3 + 2)
      BY <2>4, 0 \in 0 .. 2, 1 \in 0 .. 2, 2 \in 0 .. 2, 0 < 2, 1 < 2 DEF Copied, r
    <2>7. Place(t, rest, k + 2, Len(t) + 1)
      BY <1>1, <2>2, <2>6 DEF L
    <2>8. k + 2 = Len(r)
      <3> DEFINE z == Len(t) + 1
                 kk == k + 2
      <3>1. Place(t, rest, kk, z) /\ z = Len(t) + 1
        BY <2>7
      <3> HIDE DEF z, kk
      <3>2. kk = Len(rest[1])
        BY <3>1, PlaceEnds
      <3> QED
        BY <3>2 DEF kk, r
    <2> QED
      BY <1>1, <2>2, <2>5, <2>6, <2>8
  <1>4. ASSUME NEW k, Place(t, rest, k, M + 1)
        PROVE  k \in Nat /\ HasMark(r, k)
    <2>1. M + 1 <= Len(t) /\ M + 2 <= Len(t) /\ M + 1 + 1 = M + 2 /\ M + 2 + 1 = M + 3
      <3>1. M + 1 <= L /\ M + 2 <= L /\ M + 1 + 1 = M + 2 /\ M + 2 + 1 = M + 3
        BY <1>s
      <3> QED
        BY <3>1 DEF L
    <2>2. ~LooksLikePath(t, M + 1) /\ ~LooksLikePath(t, M + 2)
      BY <1>1 DEF LooksLikePath
    <2>3. CopiedAt(t, rest, k, M + 1)
      <3> DEFINE a == M + 1
      <3>1. Place(t, rest, k, a) /\ a <= Len(t) /\ ~LooksLikePath(t, a)
        BY <1>4, <2>1, <2>2
      <3> HIDE DEF a
      <3>2. CopiedAt(t, rest, k, a)
        BY <3>1, PlaceGoesOn
      <3> QED
        BY <3>2 DEF a
    <2>4. r[k + 1] = "\n" /\ Place(t, rest, k + 1, M + 2)
      BY <1>1, <2>1, <2>3 DEF CopiedAt, r
    <2>5. CopiedAt(t, rest, k + 1, M + 2)
      <3> DEFINE a == M + 2
                 b == k + 1
      <3>1. Place(t, rest, b, a) /\ a <= Len(t) /\ ~LooksLikePath(t, a)
        BY <2>1, <2>2, <2>4
      <3> HIDE DEF a, b
      <3>2. CopiedAt(t, rest, b, a)
        BY <3>1, PlaceGoesOn
      <3> QED
        BY <3>2 DEF a, b
    <2>6. r[k + 1 + 1] = "[OUTPUT" /\ Place(t, rest, k + 1 + 1, M + 3)
      BY <1>1, <2>1, <2>5 DEF CopiedAt, r
    <2>7. k \in Nat /\ k + 1 + 1 = k + 2
      <3>1. k \in Nat
        BY <1>4 DEF Place
      <3> QED
        BY <3>1
    <2>8. Len(r) = k + 2 + 2 /\ r[k + 2 + 1] = " " /\ r[k + 2 + 2] = "TRUNCATED]"
      <3> DEFINE b == k + 2
      <3>1. Place(t, rest, b, M + 3)
        BY <2>6, <2>7
      <3> HIDE DEF b
      <3>2. Len(r) = b + 2 /\ r[b + 1] = " " /\ r[b + 2] = "TRUNCATED]"
        BY <1>3, <3>1
      <3> QED
        BY <3>2 DEF b
    <2>9. k + 2 + 2 = k + 4 /\ k + 2 + 1 = k + 3
      BY <2>7
    <2> QED
      BY <2>4, <2>6, <2>7, <2>8, <2>9 DEF EndsIn, HasMark
  <1>5. ASSUME NEW k, NEW p, Place(t, rest, k, p), p < M + 1, M + 1 < PathEnd(t, p), LooksLikePath(t, p)
        PROVE  k \in Nat /\ HasPath(r, k)
    <2> DEFINE e == PathEnd(t, p)
    <2>1. p \in 1 .. Len(t) + 1 /\ k \in Nat
      BY <1>5 DEF Place
    <2>2. p \in 1 .. Len(t) /\ p <= Len(t)
      <3>1. L = M + 4 /\ p \in 1 .. L + 1 /\ p < M + 1 /\ M \in Nat
        BY <1>1, <1>5, <2>1 DEF L
      <3>2. p \in 1 .. L /\ p <= L
        BY ONLY <3>1
      <3> QED
        BY <3>2 DEF L
    <2>3. /\ e \in p .. L + 1 /\ (e <= L => t[e] = " ")
          /\ \A i \in p .. e - 1 : t[i] # " "
      BY <2>2, PathEndBounds DEF L
    <2>4. Marked(t, rest, k, p)
      BY <1>5, <2>2, PlaceGoesOn
    <2> HIDE DEF e
    <2>5. e = M + 2 \/ e = M + 3 \/ M + 3 \in p .. e - 1
      <3>1. e \in p .. L + 1 /\ p < M + 1 /\ M + 1 < e /\ L = M + 4
        BY <1>1, <1>5, <2>3 DEF e
      <3>2. p \in Nat /\ M \in Nat
        BY <2>2
      <3> QED
        BY ONLY <3>1, <3>2
    <2>6. e = M + 3
      <3>1. M + 2 <= L
        BY <1>s
      <3>2. e # M + 2
        BY <1>1, <2>3, <3>1
      <3>3. M + 3 \notin p .. e - 1
        BY <1>1, <2>3
      <3> QED
        BY <2>5, <3>2, <3>3
    <2>7. r[k + 1] = "/" /\ r[k + 2] = "[PATH]" /\ Place(t, rest, k + 2, M + 3)
      BY <2>4, <2>6 DEF Marked, e, r
    <2>8. Len(r) = k + 2 + 2 /\ r[k + 2 + 1] = " " /\ r[k + 2 + 2] = "TRUNCATED]"
      <3> DEFINE b == k + 2
      <3>1. Place(t, rest, b, M + 3)
        BY <2>7
      <3> HIDE DEF b
      <3>2. Len(r) = b + 2 /\ r[b + 1] = " " /\ r[b + 2] = "TRUNCATED]"
        BY <1>3, <3>1
      <3> QED
        BY <3>2 DEF b
    <2>9. k + 2 + 2 = k + 4 /\ k + 2 + 1 = k + 3
      BY <2>1
    <2> QED
      BY <2>1, <2>7, <2>8, <2>9 DEF EndsIn, HasPath
  <1>6. \/ \E k : Place(t, rest, k, M + 1)
        \/ \E k, p : Place(t, rest, k, p) /\ p < M + 1 /\ M + 1 < PathEnd(t, p) /\ LooksLikePath(t, p)
    BY <1>2, Reached
  <1> QED
    BY <1>4, <1>5, <1>6 DEF r

LEMMA EscapedIsPlain ==
    ASSUME NEW c, Sequence(c), NEW t, t = EscapeControlCharacters(c)
    PROVE  /\ Len(t) \in Nat /\ DOMAIN t = 1 .. Len(t) /\ Len(c) <= Len(t)
           /\ \A i \in DOMAIN t : t[i] \notin Unsafe
  <1> DEFINE N == Len(c)
  <1>1. PICK C, q, e : /\ Pieces(N, C, q, e)
                       /\ q[0] = <<>>
                       /\ t = q[N]
                       /\ \A n \in 1 .. N : ControlPiece(e[n], c[n])
    BY ControlPieces
  <1>2. N \in Nat
    BY DEF Sequence
  <1>3. \A n \in 0 .. N : q[n] \in Seq(C) /\ Len(q[n]) \in Nat
    BY <1>1 DEF Pieces
  <1>4. t \in Seq(C)
    BY <1>1, <1>2, <1>3
  <1> DEFINE P == {n \in Nat : n <= N => n <= Len(q[n])}
  <1>5. 0 \in P
    <2>1. Len(q[0]) = 0
      BY <1>1
    <2> QED
      BY <2>1
  <1>6. ASSUME NEW m \in Nat, m \in P PROVE m + 1 \in P
    <2> DEFINE n == m + 1
               a == Len(q[m])
               b == Len(q[n])
               x == e[n]
               k == Len(x)
    <2>1. ASSUME n <= N PROVE n <= b
      <3>1. n \in 1 .. N /\ m \in 0 .. N /\ m = n - 1 /\ m <= N
        BY <1>2, <2>1
      <3>2. m <= a /\ a \in Nat
        BY <1>3, <1>6, <3>1
      <3>3. PieceInPlace(N, q, e, n, m)
        <4> HIDE DEF n, N
        <4> QED
          BY <1>1, <1>2, <3>1, PiecesStay
      <3>4. b = a + k
        BY <3>3 DEF PieceInPlace
      <3>5. k \in {1, 2, 3}
        <4>1. ControlPiece(x, c[n])
          BY <1>1, <3>1
        <4> HIDE DEF x, n
        <4> QED
          BY <4>1, PieceForms
      <3>6. n = m + 1
        OBVIOUS
      <3> HIDE DEF a, b, k, n
      <3> QED
        BY <3>2, <3>4, <3>5, <3>6
    <2> QED
      BY <2>1
  <1>7. N \in P
    <2> HIDE DEF P, N
    <2> QED
      BY <1>2, <1>5, <1>6, Induction
  <1>8. N <= Len(t)
    BY <1>1, <1>2, <1>7
  <1>9. ASSUME NEW i \in 1 .. Len(t) PROVE t[i] \notin Unsafe
    <2>1. i \in 1 .. Len(q[N])
      BY <1>1
    <2>2. PICK n \in 1 .. N, m \in 0 .. N :
            n = m + 1 /\ PieceInPlace(N, q, e, n, m) /\ Len(q[m]) < i /\ i <= Len(q[n])
      <3> HIDE DEF N
      <3> QED
        BY <1>1, <1>2, <2>1, PieceOf
    <2> DEFINE a == Len(q[m])
               b == Len(q[n])
               x == e[n]
               k == Len(x)
               j == i - a
    <2>3. b = a + k /\ \A h \in 1 .. k : t[a + h] = x[h]
      BY <1>1, <2>2 DEF PieceInPlace
    <2>4. \A h \in 1 .. k : x[h] \notin Unsafe
      <3>1. ControlPiece(x, c[n])
        BY <1>1
      <3> HIDE DEF x
      <3> QED
        BY <3>1, PieceForms
    <2>5. k \in {1, 2, 3}
      <3>1. ControlPiece(x, c[n])
        BY <1>1
      <3> HIDE DEF x
      <3> QED
        BY <3>1, PieceForms
    <2>6. a \in Nat /\ a < i /\ i <= b /\ i \in Nat
      BY <1>3, <1>4, <2>2
    <2> HIDE DEF a, b, k, x
    <2>7. j \in 1 .. k /\ a + j = i
      <3>1. k \in Nat
        BY <2>5
      <3> QED
        BY <2>3, <2>6, <3>1
    <2> HIDE DEF j
    <2>8. t[i] = x[j]
      BY <2>3, <2>7
    <2> QED
      BY <2>4, <2>7, <2>8
  <1> QED
    BY <1>4, <1>8, <1>9

LEMMA ReleasedIsExact ==
    ASSUME NEW t, Sequence(t)
    PROVE  /\ SanitizedTextIsExact(t)
           /\ \A config \in SanitizeConfigs :
                LET r == Sanitize(t, config)
                IN r # Refused =>
                     /\ config.escape => ValidateOutput(r, Len(r))
                     /\ Len(t) > MaxResponse /\ ~config.redact => ~ValidateOutput(r, MaxResponse)
  <1> DEFINE cut == Truncate(t)
             M == MaxResponse
  <1>1. /\ Sequence(cut)
        /\ Len(t) > M => HasMark(cut, M)
    BY CutText DEF HasMark, EndsIn
  <1>2. M \in Nat /\ Len(t) \in Nat
    BY ResponseAssumption DEF Sequence
  <1>3. TruncationMark = <<"\n", "[OUTPUT", " ", "TRUNCATED]">> /\ Len(TruncationMark) = 4
    BY DEF TruncationMark
  <1>4. PathMark \o <<" ", "TRUNCATED]">> = <<"/", "[PATH]", " ", "TRUNCATED]">>
    <2> DEFINE a == "/"
               b == "[PATH]"
               c == " "
               d == "TRUNCATED]"
    <2>1. PathMark = <<a, b>>
      BY DEF PathMark
    <2> HIDE DEF a, b, c, d
    <2>2. <<a, b>> \o <<c, d>> = <<a, b, c, d>>
      <3> DEFINE S == {a, b, c, d}
                 u == <<a, b>>
                 v == <<c, d>>
                 x == u \o v
                 y == <<a, b, c, d>>
      <3>1. u \in Seq(S) /\ v \in Seq(S) /\ y \in Seq(S)
        OBVIOUS
      <3>2. Len(u) = 2 /\ Len(v) = 2 /\ u[1] = a /\ u[2] = b /\ v[1] = c /\ v[2] = d
        OBVIOUS
      <3>3. Len(y) = 4 /\ y[1] = a /\ y[2] = b /\ y[3] = c /\ y[4] = d
        OBVIOUS
      <3> HIDE DEF S, u, v, y
      <3>4. /\ x \in Seq(S) /\ Len(x) = 4
            /\ x[1] = u[1] /\ x[2] = u[2] /\ x[3] = v[1] /\ x[4] = v[2]
        <4>1. Sequence(u) /\ Sequence(v)
          BY <3>1 DEF Sequence
        <4>2. /\ Len(x) = Len(u) + Len(v)
              /\ \A i \in 1 .. Len(u) : x[i] = u[i]
              /\ \A i \in 1 .. Len(v) : x[Len(u) + i] = v[i]
          BY <4>1, ConcatBytes
        <4>3. x \in Seq(S)
          BY <3>1
        <4> HIDE DEF x
        <4>4. x[1] = u[1] /\ x[2] = u[2] /\ x[2 + 1] = v[1] /\ x[2 + 2] = v[2]
          BY <3>2, <4>2, 1 \in 1 .. 2, 2 \in 1 .. 2
        <4> QED
          BY <3>2, <4>2, <4>3, <4>4
      <3> HIDE DEF x
      <3>5. \A i \in 1 .. 4 : x[i] = y[i]
        <4>1. 1 .. 4 = {1, 2, 3, 4}
          OBVIOUS
        <4> QED
          BY <3>2, <3>3, <3>4, <4>1
      <3>6. x = y
        BY <3>1, <3>3, <3>4, <3>5, SMTT(30)
      <3> QED
        BY <3>6 DEF x, y, u, v
    <2> QED
      BY <2>1, <2>2 DEF a, b, c, d
  <1>5. ASSUME NEW config \in SanitizeConfigs, Sanitize(t, config) # Refused
        PROVE  LET r == Sanitize(t, config)
                   quoted == <<Quote>> \o r \o <<Quote>>
                   meant == IF config.redact THEN RedactPaths(cut) ELSE cut
                   told == IF config.escape THEN Meaning(r) ELSE r
               IN /\ config.escape => SkipString(quoted, 1) = Len(quoted) + 1
                  /\ told = meant
                  /\ Len(t) > MaxResponse =>
                       /\ Len(cut) = MaxResponse + Len(TruncationMark)
                       /\ IsSuffix(<<" ", "TRUNCATED]">>, told)
                       /\ \/ IsSuffix(TruncationMark, told)
                          \/ IsSuffix(PathMark \o <<" ", "TRUNCATED]">>, told)
    <2> DEFINE r == Sanitize(t, config)
               quoted == <<Quote>> \o r \o <<Quote>>
               meant == IF config.redact THEN RedactPaths(cut) ELSE cut
               told == IF config.escape THEN Meaning(r) ELSE r
    <2>1. meant = Meant(t, config)
      BY DEF Meant
    <2>2. told = meant /\ Sequence(meant) /\ (config.escape => r = EscapeControlCharacters(meant))
      BY <1>5, <2>1, Released
    <2> HIDE DEF r, meant, told, cut
    <2>3. config.escape => SkipString(quoted, 1) = Len(quoted) + 1
      BY <2>2, EscapedIsOneString
    <2>4. ASSUME Len(t) > M PROVE Len(cut) = M + Len(TruncationMark)
      BY <1>1, <1>3, <2>4 DEF HasMark, EndsIn
    <2>5. ASSUME Len(t) > M
          PROVE  \E k \in Nat : HasMark(meant, k) \/ HasPath(meant, k)
      <3>1. CASE ~config.redact
        BY <1>1, <1>2, <2>5, <3>1 DEF meant
      <3>2. CASE config.redact
        <4>1. PICK rest : RedactPaths(cut) = rest[1] /\ Redacts(cut, rest)
          BY <1>1, RedactedText
        <4>2. IsText(cut)
          BY <1>1, SequenceIsText
        <4>3. \E k \in Nat : HasMark(rest[1], k) \/ HasPath(rest[1], k)
          BY <1>1, <1>2, <2>5, <4>1, <4>2, MarkIsKept
        <4> QED
          BY <3>2, <4>1, <4>3 DEF meant
      <3> QED
        BY <3>1, <3>2
    <2>6. ASSUME Len(t) > M
          PROVE  /\ IsSuffix(<<" ", "TRUNCATED]">>, told)
                 /\ \/ IsSuffix(TruncationMark, told)
                    \/ IsSuffix(PathMark \o <<" ", "TRUNCATED]">>, told)
      <3>1. PICK k \in Nat : HasMark(meant, k) \/ HasPath(meant, k)
        BY <2>5, <2>6
      <3>2. HasMark(meant, k) => IsSuffix(TruncationMark, meant) /\ IsSuffix(<<" ", "TRUNCATED]">>, meant)
        BY <1>3, <2>2, EndIsSuffix DEF HasMark
      <3>3. HasPath(meant, k) => /\ IsSuffix(PathMark \o <<" ", "TRUNCATED]">>, meant)
                                 /\ IsSuffix(<<" ", "TRUNCATED]">>, meant)
        BY <1>4, <2>2, EndIsSuffix DEF HasPath
      <3> QED
        BY <2>2, <3>1, <3>2, <3>3
    <2> QED
      BY <2>2, <2>3, <2>4, <2>6 DEF r, meant, told
  <1>6. SanitizedTextIsExact(t)
    BY <1>5 DEF SanitizedTextIsExact
  <1>7. ASSUME NEW config \in SanitizeConfigs, Sanitize(t, config) # Refused
        PROVE  LET r == Sanitize(t, config)
               IN /\ config.escape => ValidateOutput(r, Len(r))
                  /\ Len(t) > MaxResponse /\ ~config.redact => ~ValidateOutput(r, MaxResponse)
    <2> DEFINE r == Sanitize(t, config)
               meant == Meant(t, config)
    <2>1. /\ Sequence(meant)
          /\ config.escape => r = EscapeControlCharacters(meant)
          /\ ~config.escape => r = meant
      BY <1>7, Released
    <2>2. ~config.redact => meant = cut
      BY DEF Meant
    <2> HIDE DEF r, meant, cut
    <2>3. ASSUME config.escape PROVE ValidateOutput(r, Len(r))
      <3>1. Len(r) \in Nat /\ \A i \in DOMAIN r : r[i] \notin Unsafe
        BY <2>1, <2>3, EscapedIsPlain
      <3>2. Len(r) <= Len(r)
        BY <3>1
      <3> QED
        BY <3>1, <3>2 DEF ValidateOutput, Unsafe
    <2>4. ASSUME Len(t) > M, ~config.redact PROVE ~ValidateOutput(r, M)
      <3>1. Len(cut) = M + 4
        BY <1>1, <2>4 DEF HasMark, EndsIn
      <3>2. Len(meant) = M + 4
        BY <2>2, <2>4, <3>1
      <3>3. Len(r) \in Nat /\ M + 4 <= Len(r)
        <4>1. CASE config.escape
          BY <2>1, <3>2, <4>1, EscapedIsPlain
        <4>2. CASE ~config.escape
          <5>1. Len(r) = M + 4
            BY <2>1, <3>2, <4>2
          <5> QED
            BY <1>2, <5>1
        <4> QED
          BY <4>1, <4>2
      <3>4. ~(Len(r) <= M)
        <4> DEFINE n == Len(r)
        <4>1. n \in Nat /\ M + 4 <= n /\ M \in Nat
          BY <1>2, <3>3
        <4> HIDE DEF n, M
        <4>2. ~(n <= M)
          BY ONLY <4>1
        <4> QED
          BY <4>2 DEF n
      <3> QED
        BY <3>4 DEF ValidateOutput
    <2> QED
      BY <2>3, <2>4 DEF r
  <1> QED
    BY <1>6, <1>7

(* Every response that is let through is one string, means the text that   *)
(* was cut and redacted and keeps the mark of the cut (sanitize), and the  *)
(* check of an output finds it in order exactly as far as promised.        *)
THEOREM ResponsesAreAlwaysExact == PartsSpec => []ResponsesAreExact
  <1>1. PartsInv => ResponsesAreExact
    <2> SUFFICES ASSUME PartsInv PROVE ResponsesAreExact
      OBVIOUS
    <2>1. Sequence(text)
      BY DEF PartsInv, Sequence
    <2> QED
      BY <2>1, ReleasedIsExact DEF ResponsesAreExact
  <1> QED
    BY <1>1, PartsInvariant, PTL

(* No response that is let through holds a pattern or a path, whatever the *)
(* cut and the redaction put side by side.                                 *)
THEOREM ResponsesAreAlwaysClean == PartsSpec => []ResponsesAreClean
  <1>1. PartsInv => ResponsesAreClean
    <2> SUFFICES ASSUME PartsInv PROVE ResponsesAreClean
      OBVIOUS
    <2>1. Sequence(text)
      BY DEF PartsInv, Sequence
    <2> QED
      BY <2>1, ReleasedIsClean DEF ResponsesAreClean
  <1> QED
    BY <1>1, PartsInvariant, PTL

=================================================================================
