------------------------------- MODULE Throttle -------------------------------
(***************************************************************************)
(* The two parts that hold clients back: the limiter of their requests and *)
(* the queue between the threads that serve them.  They share no state; a  *)
(* behaviour exercises one of them, the subject.                           *)
(***************************************************************************)
EXTENDS RateLimiter, RequestQueue

VARIABLE subject

throttleVars == <<subject, limiterVars, queueVars>>

ThrottleInit == subject \in {"limits", "queue"} /\ Init /\ QueueInit

ThrottleNext ==
    \/ subject = "limits" /\ Next /\ UNCHANGED <<subject, queueVars>>
    \/ subject = "queue" /\ QueueNext /\ UNCHANGED <<subject, limiterVars>>

ThrottleSpec == ThrottleInit /\ [][ThrottleNext]_throttleVars /\ ThreadsRun
===============================================================================
