---------------------------- MODULE ResourceMonitor ----------------------------
(***************************************************************************)
(* The metrics of each tool.  Several threads record; a call that records  *)
(* looks for the entry of the tool, makes one if there is none, and        *)
(* changes it, all under the mutex.  CPU time is in whole milliseconds.    *)
(***************************************************************************)
EXTENDS Integers

CONSTANTS
    Recorders,        \* the threads that record
    NoThread,         \* nobody holds the mutex
    MonitoredTools,
    CpuTimes,         \* what record_cpu_time is given
    MemoryUses,       \* what record_memory is given
    MaxRecords        \* bound of the number of calls that record

ASSUME MonitorAssumption ==
    /\ NoThread \notin Recorders
    /\ CpuTimes \subseteq Nat /\ MemoryUses \subseteq Nat /\ MaxRecords \in Nat

VARIABLES
    metrics,          \* metrics_: the entry of each tool, or NoEntry
    lock,             \* the thread that holds lock_
    recording,        \* the call of each thread that has looked for its entry
    promised,         \* history: what calls one after the other would have left
    records           \* the number of calls that record

monitorVars == <<metrics, lock, recording, promised, records>>

(* An entry says by made whether the map has it.                           *)
ResourceMetrics ==
    [made : BOOLEAN, cpu_time_ms : Nat, memory_peak_kb : Nat,
     request_count : Nat, rejection_count : Nat]
NoEntry ==
    [made |-> FALSE, cpu_time_ms |-> 0, memory_peak_kb |-> 0,
     request_count |-> 0, rejection_count |-> 0]
NewEntry ==
    [made |-> TRUE, cpu_time_ms |-> 0, memory_peak_kb |-> 0,
     request_count |-> 0, rejection_count |-> 0]

RecordCalls ==
    [kind : {"request", "rejection"}, tool : MonitoredTools, amount : {0}]
      \cup [kind : {"cpu"}, tool : MonitoredTools, amount : CpuTimes]
      \cup [kind : {"memory"}, tool : MonitoredTools, amount : MemoryUses]
NoCall == [kind |-> "none"]

(* The entry m after the call c.                                           *)
Recorded(m, c) ==
    CASE c.kind = "request" -> [m EXCEPT !.request_count = @ + 1]
      [] c.kind = "rejection" -> [m EXCEPT !.rejection_count = @ + 1]
      [] c.kind = "cpu" -> [m EXCEPT !.cpu_time_ms = @ + c.amount]
      [] c.kind = "memory" -> [m EXCEPT !.memory_peak_kb = IF c.amount > @ THEN c.amount ELSE @]

(* get_metrics: of a tool without an entry, new ones.                      *)
GetMetrics(tool) == IF metrics[tool].made THEN metrics[tool] ELSE NewEntry

-----------------------------------------------------------------------------
MonitorInit ==
    /\ metrics = [t \in MonitoredTools |-> NoEntry]
    /\ lock = NoThread
    /\ recording = [p \in Recorders |-> [call |-> NoCall, found |-> FALSE]]
    /\ promised = [t \in MonitoredTools |-> NewEntry]
    /\ records = 0

MonitorTypeOK ==
    /\ metrics \in [MonitoredTools -> ResourceMetrics]
    /\ lock \in Recorders \cup {NoThread}
    /\ recording \in [Recorders -> [call : RecordCalls \cup {NoCall}, found : BOOLEAN]]
    /\ promised \in [MonitoredTools -> ResourceMetrics]
    /\ records \in Nat

(* Faulty variant: nobody waits for the mutex.                             *)
NoMutex == TRUE

MutexFree == lock = NoThread

(* A call that records: the mutex, and the search for the entry.           *)
BeginRecord(p, c) ==
    /\ MutexFree
    /\ recording[p].call = NoCall
    /\ records < MaxRecords
    /\ lock' = p
    /\ recording' = [recording EXCEPT ![p] = [call |-> c, found |-> metrics[c.tool].made]]
    /\ records' = records + 1
    /\ UNCHANGED <<metrics, promised>>

(* A new entry, over whatever is there, if none was found; the change; and *)
(* the end of the lock.                                                    *)
EndRecord(p) ==
    LET c == recording[p].call
        entry == IF recording[p].found THEN metrics[c.tool] ELSE NewEntry
    IN /\ c # NoCall
       /\ metrics' = [metrics EXCEPT ![c.tool] = Recorded(entry, c)]
       /\ promised' = [promised EXCEPT ![c.tool] = Recorded(promised[c.tool], c)]
       /\ recording' = [recording EXCEPT ![p] = [call |-> NoCall, found |-> FALSE]]
       /\ lock' = NoThread
       /\ UNCHANGED records

(* Faulty variant: what is set anew is a copy of the entry.                *)
EntryAfterResetCopied(tool) == metrics[tool]

EntryAfterReset(tool) == IF metrics[tool].made THEN NewEntry ELSE metrics[tool]

ResetMetrics(tool) ==
    /\ MutexFree
    /\ metrics' = [metrics EXCEPT ![tool] = EntryAfterReset(tool)]
    /\ promised' = [promised EXCEPT ![tool] = NewEntry]
    /\ UNCHANGED <<lock, recording, records>>

ResetAll ==
    /\ MutexFree
    /\ metrics' = [t \in MonitoredTools |-> NoEntry]
    /\ promised' = [t \in MonitoredTools |-> NewEntry]
    /\ UNCHANGED <<lock, recording, records>>

MonitorNext ==
    \/ \E p \in Recorders : EndRecord(p) \/ \E c \in RecordCalls : BeginRecord(p, c)
    \/ \E t \in MonitoredTools : ResetMetrics(t)
    \/ ResetAll

MonitorSpec == MonitorInit /\ [][MonitorNext]_monitorVars

-----------------------------------------------------------------------------
(* Whoever gets the mutex reads exactly what the calls since the last      *)
(* reset would have left had they come one after the other: no update is   *)
(* lost when two threads both find that a tool has no entry, and no entry  *)
(* made anew hides an earlier one.                                         *)
NoRecordIsLost ==
    lock = NoThread => \A t \in MonitoredTools : GetMetrics(t) = promised[t]

=============================================================================
