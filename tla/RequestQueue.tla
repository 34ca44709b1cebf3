----------------------------- MODULE RequestQueue -----------------------------
(***************************************************************************)
(* RequestQueue: a bounded queue between threads.  enqueue refuses when    *)
(* the queue is full and otherwise notifies one waiter; dequeue waits for  *)
(* an item for at most 30 seconds.  Everything happens under lock_, which  *)
(* is given up only inside wait_for, so the steps of this module are the   *)
(* stretches between taking the mutex and giving it up.                    *)
(*                                                                         *)
(* A request is represented by the number of its acceptance.               *)
(***************************************************************************)
EXTENDS Integers, Sequences, FiniteSets

CONSTANTS
    Consumers,     \* threads that call dequeue
    Sizes,         \* the values given to set_max_size
    InitialSize,   \* max_size_ of a new queue (1000 in the code)
    MaxAccepted    \* bound of the number of requests accepted

ASSUME QueueAssumption ==
    /\ IsFiniteSet(Consumers)
    /\ Sizes \subseteq Nat
    /\ InitialSize \in Nat
    /\ MaxAccepted \in Nat

VARIABLES
    queue, max_size,
    pc,         \* consumer -> where it is, see States
    accepted,   \* number of the request accepted last
    gone        \* history: number of the request dequeued or cleared last

queueVars == <<queue, max_size, pc, accepted, gone>>

(* "waiting": asleep in wait_for.  "woken": notified, or awake for no      *)
(* reason, and about to take the mutex and test the queue.  "late": its    *)
(* 30 seconds are over and it will test the queue one last time.           *)
States == {"outside", "waiting", "woken", "late"}

QueueTypeOK ==
    /\ queue \in Seq(Nat)
    /\ max_size \in Nat
    /\ pc \in [Consumers -> States]
    /\ accepted \in Nat
    /\ gone \in Nat

QueueInit ==
    /\ queue = <<>>
    /\ max_size = InitialSize
    /\ pc = [c \in Consumers |-> "outside"]
    /\ accepted = 0
    /\ gone = 0

Waiting == {c \in Consumers : pc[c] = "waiting"}
Awake == {c \in Consumers : pc[c] \in {"woken", "late"}}

(* Faulty variant: only the first item of an empty queue is announced.     *)
NotifyIfEmpty ==
    IF Waiting = {} \/ queue # <<>>
    THEN UNCHANGED pc
    ELSE \E c \in Waiting : pc' = [pc EXCEPT ![c] = "woken"]

(* notify_one.                                                             *)
NotifyOne ==
    IF Waiting = {} THEN UNCHANGED pc
    ELSE \E c \in Waiting : pc' = [pc EXCEPT ![c] = "woken"]

(* enqueue; a full queue changes nothing and is no step.                   *)
Enqueue ==
    /\ accepted < MaxAccepted
    /\ Len(queue) < max_size
    /\ accepted' = accepted + 1
    /\ queue' = Append(queue, accepted')
    /\ NotifyOne
    /\ UNCHANGED <<max_size, gone>>

(* Faulty variant: the item is read but stays in the queue.                *)
TakeNoPop(c) ==
    /\ queue # <<>>
    /\ gone' = Head(queue)
    /\ pc' = [pc EXCEPT ![c] = "outside"]
    /\ UNCHANGED <<queue, max_size, accepted>>

(* dequeue leaves with the front item.                                     *)
Take(c) ==
    /\ queue # <<>>
    /\ gone' = Head(queue)
    /\ queue' = Tail(queue)
    /\ pc' = [pc EXCEPT ![c] = "outside"]
    /\ UNCHANGED <<max_size, accepted>>

(* dequeue has nothing to take: it sleeps or leaves.                       *)
FindNothing(c, next) ==
    /\ queue = <<>>
    /\ pc' = [pc EXCEPT ![c] = next]
    /\ UNCHANGED <<queue, max_size, accepted, gone>>

(* wait_for tests the predicate before it sleeps, after each waking, and   *)
(* once more when the time is over.                                        *)
Dequeue(c) == pc[c] = "outside" /\ (Take(c) \/ FindNothing(c, "waiting"))

(* Faulty variant: the time being over, the queue is not looked at again.  *)
GiveUpBlind(c) ==
    /\ pc[c] = "late"
    /\ pc' = [pc EXCEPT ![c] = "outside"]
    /\ UNCHANGED <<queue, max_size, accepted, gone>>

(* Faulty variant: the wait is begun anew.                                 *)
GiveUpNever(c) == pc[c] = "late" /\ (Take(c) \/ FindNothing(c, "waiting"))

GiveUp(c) == pc[c] = "late" /\ (Take(c) \/ FindNothing(c, "outside"))

Resume(c) == pc[c] = "woken" /\ (Take(c) \/ FindNothing(c, "waiting"))

(* The condition variable may wake a thread for no reason,                 *)
SpuriousWake(c) ==
    /\ pc[c] = "waiting"
    /\ pc' = [pc EXCEPT ![c] = "woken"]
    /\ UNCHANGED <<queue, max_size, accepted, gone>>

(* and the deadline passes, whether or not a notification came before.     *)
Timeout(c) ==
    /\ pc[c] \in {"waiting", "woken"}
    /\ pc' = [pc EXCEPT ![c] = "late"]
    /\ UNCHANGED <<queue, max_size, accepted, gone>>

(* Faulty variant: one place is kept free, which wraps at zero.            *)
SetMaxSizeLess(n) ==
    /\ max_size' = n - 1
    /\ UNCHANGED <<queue, pc, accepted, gone>>

SetMaxSize(n) ==
    /\ max_size' = n
    /\ UNCHANGED <<queue, pc, accepted, gone>>

Clear ==
    /\ queue' = <<>>
    /\ gone' = accepted
    /\ UNCHANGED <<max_size, pc, accepted>>

QueueNext ==
    \/ Enqueue \/ Clear
    \/ \E n \in Sizes : SetMaxSize(n)
    \/ \E c \in Consumers :
         Dequeue(c) \/ Resume(c) \/ GiveUp(c) \/ SpuriousWake(c) \/ Timeout(c)

(* A thread that is awake gets the mutex in the end, and so does one whose *)
(* time is over.                                                           *)
ThreadsRun == \A c \in Consumers : WF_queueVars(Resume(c)) /\ WF_queueVars(GiveUp(c))

(* QueueSpec leaves it open whether the 30 seconds ever pass.                   *)
QueueSpec == QueueInit /\ [][QueueNext]_queueVars /\ ThreadsRun

TimePasses == \A c \in Consumers : WF_queueVars(Timeout(c))

-------------------------------------------------------------------------------
(* No wakeup is lost: while a consumer sleeps, there are no more items     *)
(* than threads already on their way to take one.  Otherwise an item could *)
(* lie in the queue beside a sleeping consumer until its timeout.          *)
NoLostWakeup == Waiting # {} => Len(queue) <= Cardinality(Awake)

(* Every accepted request leaves exactly once and in order: the queue      *)
(* holds just those accepted after the last one dequeued or cleared.       *)
EachOnceInOrder ==
    /\ Len(queue) = accepted - gone
    /\ \A i \in 1 .. Len(queue) : queue[i] = gone + i

(* The front request does not wait for a timeout: once a consumer is       *)
(* inside dequeue, somebody takes it (or clear drops it).                  *)
Front(r) == queue # <<>> /\ Head(queue) = r
HeadIsTaken ==
    \A r \in 1 .. MaxAccepted :
        Front(r) /\ Waiting \cup Awake # {} ~> ~Front(r)

(* As long as the 30 seconds pass, every call of dequeue returns, also on  *)
(* a queue that stays empty or that others empty each time.                *)
DequeueReturns ==
    TimePasses => \A c \in Consumers : pc[c] # "outside" ~> pc[c] = "outside"

===============================================================================
