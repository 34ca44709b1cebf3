------------------------------ MODULE RateLimiter ------------------------------
(***************************************************************************)
(* RateLimiter: a token bucket for each client.  Every operation runs      *)
(* under lock_ and is one step.  Only the clock can move within one:       *)
(* allow_request reads it first and, for a client without a bucket, makes  *)
(* one whose constructor reads it again.                                   *)
(*                                                                         *)
(* Tokens are counted in thousandths, so that a rate of r per second adds  *)
(* r of them in a millisecond; rates are natural numbers, and the rounding *)
(* of floating point is left out.                                          *)
(***************************************************************************)
EXTENDS Integers

CONSTANTS
    Clients,
    Rates, Bursts,               \* what operators configure
    DefaultRate, DefaultBurst,   \* of a new limiter (100 and 10 in the code)
    TicksPerMs,                  \* the resolution of the clock
    NoBucket,
    MaxGap,                      \* bound of the time between two readings in a call
    MaxTime                      \* bound of the clock

Token == 1000
Times == 0 .. MaxTime

BucketRecords ==
    [tokens : Int, last_refill : Int, refill_rate : Nat, max_tokens : Nat]

ASSUME LimiterAssumption ==
    /\ Rates \subseteq Nat /\ DefaultRate \in Nat
    /\ Bursts \subseteq Nat /\ DefaultBurst \in Nat
    /\ TicksPerMs \in Nat \ {0}
    /\ MaxGap \in Nat /\ MaxTime \in Nat
    /\ NoBucket \notin BucketRecords

VARIABLES
    default_refill_rate, default_max_tokens,
    buckets,   \* client -> bucket, or NoBucket
    now,       \* steady_clock
    view       \* history: client -> what it saw, see ViewRecords

limiterVars == <<default_refill_rate, default_max_tokens, buckets, now, view>>

(* A window of observation that begins at some moment and ends when the    *)
(* limits of the client are changed, and the requests allowed in it; when  *)
(* the client was last answered, and last served; and the tokens that its  *)
(* bucket was charged for the time that passed while it was made.          *)
ViewRecords ==
    [since : Times, allowed : Nat, answered : Times, served : Times, charged : Nat]
Fresh == [since |-> now, allowed |-> 0, answered |-> now, served |-> now, charged |-> 0]

HasBucket(c) == buckets[c] # NoBucket

TypeOK ==
    /\ default_refill_rate \in Nat
    /\ default_max_tokens \in Nat
    /\ buckets \in [Clients -> BucketRecords \cup {NoBucket}]
    /\ now \in Times
    /\ view \in [Clients -> ViewRecords]
    /\ \A c \in Clients : HasBucket(c) =>
         buckets[c].tokens <= buckets[c].max_tokens /\ buckets[c].last_refill \in 0 .. now

Init ==
    /\ default_refill_rate = DefaultRate
    /\ default_max_tokens = DefaultBurst * Token
    /\ buckets = [c \in Clients |-> NoBucket]
    /\ now = 0
    /\ view = [c \in Clients |-> Fresh]

NewBucket(rate, max, made) ==
    [tokens |-> max, last_refill |-> made, refill_rate |-> rate, max_tokens |-> max]

(* duration_cast to milliseconds rounds towards zero.                      *)
Milliseconds(ticks) ==
    IF ticks >= 0 THEN ticks \div TicksPerMs ELSE -((-ticks) \div TicksPerMs)

AtMost(n, limit) == IF n > limit THEN limit ELSE n

(* Faulty variant: an idle client saves up without limit.                  *)
RefillUncapped(b, time) ==
    [b EXCEPT !.tokens = @ + Milliseconds(time - b.last_refill) * b.refill_rate,
              !.last_refill = time]

Refill(b, time) ==
    [tokens |-> AtMost(b.tokens + Milliseconds(time - b.last_refill) * b.refill_rate,
                       b.max_tokens),
     last_refill |-> time, refill_rate |-> b.refill_rate, max_tokens |-> b.max_tokens]

(* Faulty variant: a refused request costs a token as well.                *)
SpendAlways(b) == [b EXCEPT !.tokens = @ - Token]

Spend(b) == IF b.tokens >= Token THEN [b EXCEPT !.tokens = @ - Token] ELSE b

(* The bucket that allow_request works on; gap is the time that passes     *)
(* before a new one is made.                                               *)
Bucket(c, gap) ==
    IF HasBucket(c) THEN buckets[c]
    ELSE NewBucket(default_refill_rate, default_max_tokens, now + gap)

AllowRequest(c, gap) ==
    /\ HasBucket(c) => gap = 0
    /\ now + gap <= MaxTime
    /\ now' = now + gap
    /\ LET b == Refill(Bucket(c, gap), now)
           allowed == b.tokens >= Token
       IN /\ buckets' = [buckets EXCEPT ![c] = Spend(b)]
          /\ view' = [view EXCEPT ![c] =
                 [since |-> @.since, answered |-> now',
                  allowed |-> @.allowed + (IF allowed THEN 1 ELSE 0),
                  served |-> IF allowed THEN now' ELSE @.served,
                  charged |-> IF HasBucket(c) THEN @.charged
                              ELSE default_refill_rate * Milliseconds(gap)]]
    /\ UNCHANGED <<default_refill_rate, default_max_tokens>>

Configure(rate, burst) ==
    /\ default_refill_rate' = rate
    /\ default_max_tokens' = burst * Token
    /\ UNCHANGED <<buckets, now, view>>

(* The limits of a client are changed; its observation begins anew.        *)
ChangeLimits(c, bucket) ==
    /\ buckets' = [buckets EXCEPT ![c] = bucket]
    /\ view' = [view EXCEPT ![c] = [Fresh EXCEPT !.charged =
                                       IF HasBucket(c) THEN view[c].charged ELSE 0]]
    /\ UNCHANGED <<default_refill_rate, default_max_tokens, now>>

SetRate(c, rate) ==
    ChangeLimits(c, IF HasBucket(c) THEN [buckets[c] EXCEPT !.refill_rate = rate]
                    ELSE NewBucket(rate, default_max_tokens, now))

(* Faulty variant: the tokens in hand are not cut down.                    *)
SetBurstOnly(c, burst) ==
    ChangeLimits(c, IF HasBucket(c) THEN [buckets[c] EXCEPT !.max_tokens = burst * Token]
                    ELSE NewBucket(default_refill_rate, burst * Token, now))

SetBurst(c, burst) ==
    LET max == burst * Token
    IN ChangeLimits(c, IF HasBucket(c)
                       THEN [buckets[c] EXCEPT !.max_tokens = max, !.tokens = AtMost(@, max)]
                       ELSE NewBucket(default_refill_rate, max, now))

ResetClient(c) == ChangeLimits(c, NoBucket)

Tick ==
    /\ now < MaxTime
    /\ now' = now + 1
    /\ UNCHANGED <<default_refill_rate, default_max_tokens, buckets, view>>

(* A new observation begins; nothing happens to the limiter.               *)
Observe(c) ==
    /\ view' = [view EXCEPT ![c].since = now, ![c].allowed = 0]
    /\ UNCHANGED <<default_refill_rate, default_max_tokens, buckets, now>>

Next ==
    \/ \E c \in Clients, gap \in 0 .. MaxGap : AllowRequest(c, gap)
    \/ \E rate \in Rates, burst \in Bursts : Configure(rate, burst)
    \/ \E c \in Clients :
         \/ \E rate \in Rates : SetRate(c, rate)
         \/ \E burst \in Bursts : SetBurst(c, burst)
         \/ ResetClient(c)
         \/ Observe(c)
    \/ Tick

Spec == Init /\ [][Next]_limiterVars

-------------------------------------------------------------------------------
(* In no stretch of time, wherever it begins, is a client allowed more     *)
(* than its burst and what its rate yields in that time, unless its limits *)
(* are changed in between.                                                 *)
WindowBound ==
    \A c \in Clients : HasBucket(c) =>
        view[c].allowed * Token * TicksPerMs
            <= buckets[c].max_tokens * TicksPerMs
               + buckets[c].refill_rate * (now - view[c].since)

(* A client that has waited for the time of one token since its last       *)
(* answer, and for what its bucket was charged when it was made, will be   *)
(* served, whatever it did before.                                         *)
PatientClientIsServed ==
    \A c \in Clients :
        /\ HasBucket(c)
        /\ buckets[c].max_tokens >= Token
        /\ buckets[c].refill_rate * Milliseconds(now - view[c].answered)
               >= Token + view[c].charged
        => Refill(buckets[c], now).tokens >= Token

(* A rate counts "tokens per second": when a client is answered with a     *)
(* refusal, its last success is not longer ago than one token takes, and a *)
(* millisecond, however often it has asked since.                          *)
SteadyClientIsServed ==
    \A c \in Clients :
        HasBucket(c) /\ buckets[c].max_tokens >= Token =>
            buckets[c].refill_rate * (view[c].answered - view[c].served)
                <= (Token + buckets[c].refill_rate) * TicksPerMs

===============================================================================
