---------------------------- MODULE Throttle_proofs ----------------------------
(***************************************************************************)
(* The two parts that hold clients back.  RateLimiter: what a token bucket *)
(* grants at most and at least, for every number of clients, every rate    *)
(* and burst and every resolution of the clock.  RequestQueue: no item is  *)
(* stranded and none is taken twice, for every number of consumers and     *)
(* every size of the queue.                                                *)
(***************************************************************************)
EXTENDS Throttle, FiniteSetTheorems, TLAPS

(* The tokens in hand and those spent in the window stay within the burst  *)
(* and what the rate has yielded up to the last refill.  A bucket that has *)
(* not been refilled since the window began has granted nothing in it.     *)
Account(b, v) ==
    /\ b.last_refill <= v.answered
    /\ -v.charged <= b.tokens
    /\ v.allowed > 0 => b.tokens >= 0 /\ v.since <= b.last_refill
    /\ v.since <= b.last_refill =>
         (b.tokens + Token * v.allowed) * TicksPerMs
             <= b.max_tokens * TicksPerMs + b.refill_rate * (b.last_refill - v.since)

ClientInv(c) ==
    /\ view[c].since <= now
    /\ view[c].answered <= now
    /\ IF HasBucket(c) THEN Account(buckets[c], view[c]) ELSE view[c].allowed = 0

IInv == TypeOK /\ \A c \in Clients : ClientInv(c)

-------------------------------------------------------------------------------
(* Arithmetic that the steps below rest on.                                *)
LEMMA ProductGrows ==
    ASSUME NEW m \in Int, NEW n \in Int, NEW k \in Nat, m <= n
    PROVE  /\ m * k \in Int /\ n * k \in Int /\ m * k <= n * k
           /\ k * m \in Int /\ k * n \in Int /\ k * m <= k * n
  OBVIOUS

LEMMA WholeMilliseconds ==
    ASSUME NEW ticks \in Nat
    PROVE  /\ Milliseconds(ticks) \in Nat
           /\ Milliseconds(ticks) * TicksPerMs <= ticks
  BY LimiterAssumption DEF Milliseconds

LEMMA MillisecondsGrow ==
    ASSUME NEW m \in Nat, NEW n \in Nat, m <= n
    PROVE  Milliseconds(m) <= Milliseconds(n)
  BY LimiterAssumption DEF Milliseconds

LEMMA MillisecondsOfGap ==
    ASSUME NEW gap \in Nat
    PROVE  Milliseconds(0 - gap) = -Milliseconds(gap)
  BY LimiterAssumption DEF Milliseconds
-------------------------------------------------------------------------------
(* A bucket as it is right after a refill.                                 *)
Refilled(b, v) ==
    /\ b \in BucketRecords
    /\ b.tokens <= b.max_tokens
    /\ b.last_refill = now
    /\ -v.charged <= b.tokens
    /\ v.allowed > 0 => b.tokens >= 0
    /\ (b.tokens + Token * v.allowed) * TicksPerMs
           <= b.max_tokens * TicksPerMs + b.refill_rate * (now - v.since)

(* A refill adds no more than the rate yields in the time since the last.  *)
LEMMA RefillKeepsAccount ==
    ASSUME NEW b \in BucketRecords, b.tokens <= b.max_tokens, b.last_refill \in 0 .. now,
           NEW v \in ViewRecords, v.since <= now, now \in Nat, Account(b, v)
    PROVE  Refilled(Refill(b, now), v)
  <1> DEFINE elapsed == now - b.last_refill
             ms == Milliseconds(elapsed)
             tokens == AtMost(b.tokens + ms * b.refill_rate, b.max_tokens)
             r == Refill(b, now)
  <1>1. /\ b.tokens \in Int /\ b.last_refill \in Int
        /\ b.refill_rate \in Nat /\ b.max_tokens \in Nat
    BY DEF BucketRecords
  <1>2. v.since \in Nat /\ v.allowed \in Nat /\ v.charged \in Nat
    BY LimiterAssumption DEF ViewRecords, Times
  <1>3. elapsed \in Nat  BY <1>1
  <1>4. ms \in Nat /\ ms * TicksPerMs <= elapsed  BY <1>3, WholeMilliseconds
  <1>5. ms * b.refill_rate \in Nat  BY <1>1, <1>4
  <1>6. /\ tokens \in Int /\ tokens <= b.max_tokens /\ b.tokens <= tokens
        /\ tokens <= b.tokens + ms * b.refill_rate
    BY <1>1, <1>5 DEF AtMost
  <1>7. /\ r \in BucketRecords
        /\ r.tokens = tokens /\ r.last_refill = now
        /\ r.refill_rate = b.refill_rate /\ r.max_tokens = b.max_tokens
    BY <1>1, <1>6 DEF Refill, BucketRecords
  <1>9. TicksPerMs \in Nat /\ Token \in Nat  BY LimiterAssumption DEF Token
  <1>10. (tokens + Token * v.allowed) * TicksPerMs
           <= b.max_tokens * TicksPerMs + b.refill_rate * (now - v.since)
    <2>1. CASE v.since <= b.last_refill
      <3>1. (tokens + Token * v.allowed) * TicksPerMs
              <= (b.tokens + ms * b.refill_rate + Token * v.allowed) * TicksPerMs
        BY <1>1, <1>2, <1>5, <1>6, <1>9, ProductGrows
      <3>2. b.refill_rate * (ms * TicksPerMs) <= b.refill_rate * elapsed
        BY <1>1, <1>3, <1>4, <1>9, ProductGrows
      <3>3. (b.tokens + ms * b.refill_rate + Token * v.allowed) * TicksPerMs
              = (b.tokens + Token * v.allowed) * TicksPerMs
                  + b.refill_rate * (ms * TicksPerMs)
        BY <1>1, <1>2, <1>4, <1>5, <1>9
      <3>4. b.refill_rate * (b.last_refill - v.since) + b.refill_rate * elapsed
              = b.refill_rate * (now - v.since)
        BY <1>1, <1>2
      <3>5. (b.tokens + Token * v.allowed) * TicksPerMs
              <= b.max_tokens * TicksPerMs + b.refill_rate * (b.last_refill - v.since)
        BY <2>1 DEF Account
      <3>6. QED
        <4> DEFINE x1 == (tokens + Token * v.allowed) * TicksPerMs
                   x2 == (b.tokens + ms * b.refill_rate + Token * v.allowed) * TicksPerMs
                   x3 == (b.tokens + Token * v.allowed) * TicksPerMs
                   y1 == b.refill_rate * (ms * TicksPerMs)
                   y2 == b.refill_rate * elapsed
                   z1 == b.refill_rate * (b.last_refill - v.since)
                   z2 == b.refill_rate * (now - v.since)
                   m == b.max_tokens * TicksPerMs
        <4>1. /\ x1 \in Int /\ x2 \in Int /\ x3 \in Int /\ y1 \in Int /\ y2 \in Int
              /\ z1 \in Int /\ z2 \in Int /\ m \in Int
          BY <1>1, <1>2, <1>3, <1>4, <1>5, <1>6, <1>9
        <4>2. /\ x1 <= x2 /\ y1 <= y2 /\ x2 = x3 + y1 /\ z1 + y2 = z2 /\ x3 <= m + z1
          BY <3>1, <3>2, <3>3, <3>4, <3>5
        <4> HIDE DEF x1, x2, x3, y1, y2, z1, z2, m
        <4>3. x1 <= m + z2  BY <4>1, <4>2
        <4>4. QED  BY <4>3 DEF x1, z2, m
    <2>2. CASE ~(v.since <= b.last_refill)
      <3>1. v.allowed = 0  BY <2>2, <1>2 DEF Account
      <3>2. tokens * TicksPerMs <= b.max_tokens * TicksPerMs
        BY <1>1, <1>6, <1>9, ProductGrows
      <3>3. b.refill_rate * (now - v.since) \in Nat
        BY <1>1, <1>2
      <3>4. QED  BY <1>1, <1>6, <1>9, <3>1, <3>2, <3>3
    <2>3. QED  BY <2>1, <2>2
  <1>11. -v.charged <= tokens /\ (v.allowed > 0 => tokens >= 0)
    BY <1>1, <1>2, <1>6 DEF Account
  <1>12. QED  BY <1>7, <1>6, <1>10, <1>11 DEF Refilled

(* A bucket made after the clock was read is charged for the time between. *)
LEMMA RefillOfNewBucket ==
    ASSUME NEW rate \in Nat, NEW max \in Nat, NEW gap \in Nat, now \in Nat,
           NEW v \in ViewRecords, v.since <= now, v.allowed = 0,
           v.charged = rate * Milliseconds(gap)
    PROVE  Refilled(Refill(NewBucket(rate, max, now + gap), now), v)
  <1> DEFINE b == NewBucket(rate, max, now + gap)
             ms == Milliseconds(gap)
             r == Refill(b, now)
  <1>1. now - (now + gap) = 0 - gap  OBVIOUS
  <1>2. ms \in Nat /\ Milliseconds(now - b.last_refill) = -ms
    BY <1>1, WholeMilliseconds, MillisecondsOfGap DEF NewBucket
  <1>3. rate * ms \in Nat /\ (-ms) * rate = -(rate * ms)  BY <1>2
  <1>4. AtMost(max + (-ms) * rate, max) = max - rate * ms  BY <1>3 DEF AtMost
  <1>5. /\ r \in BucketRecords
        /\ r.tokens = max - rate * ms /\ r.last_refill = now
        /\ r.refill_rate = rate /\ r.max_tokens = max
    <2>1. b \in BucketRecords /\ b.tokens = max /\ b.refill_rate = rate /\ b.max_tokens = max
      BY DEF NewBucket, BucketRecords
    <2>2. AtMost(b.tokens + Milliseconds(now - b.last_refill) * b.refill_rate, b.max_tokens)
            = max - rate * ms
      BY <1>2, <1>4, <2>1
    <2>3. max - rate * ms \in Int  BY <1>3
    <2>4. QED  BY <2>1, <2>2, <2>3 DEF Refill, BucketRecords
  <1>6. v.since \in Nat  BY DEF ViewRecords, Times
  <1>7. (max - rate * ms) * TicksPerMs <= max * TicksPerMs
    BY <1>3, LimiterAssumption, ProductGrows
  <1>8. rate * (now - v.since) \in Nat  BY <1>6
  <1>9. Token * v.allowed = 0 BY DEF Token
  <1>10. (max - rate * ms) * TicksPerMs \in Int /\ max * TicksPerMs \in Int
    BY <1>3, LimiterAssumption
  <1>11. (max - rate * ms + Token * v.allowed) * TicksPerMs
           <= max * TicksPerMs + rate * (now - v.since)
    BY <1>3, <1>7, <1>8, <1>9, <1>10
  <1>12. QED  BY <1>3, <1>5, <1>11 DEF Refilled
(* Taking a token moves it from the bucket to the requests allowed.        *)
LEMMA SpendKeepsAccount ==
    ASSUME NEW b, NEW v \in ViewRecords, Refilled(b, v), now \in Nat, v.since <= now,
           NEW w \in ViewRecords,
           w.since = v.since, w.charged = v.charged, w.answered >= now,
           w.allowed = v.allowed + (IF b.tokens >= Token THEN 1 ELSE 0)
    PROVE  /\ Spend(b) \in BucketRecords
           /\ Spend(b).tokens <= Spend(b).max_tokens
           /\ Spend(b).last_refill = now
           /\ Account(Spend(b), w)
  <1>1. /\ b.tokens \in Int /\ b.last_refill \in Int /\ b.last_refill = now
        /\ b.refill_rate \in Nat /\ b.max_tokens \in Nat
        /\ b \in BucketRecords /\ b.tokens <= b.max_tokens
    BY DEF Refilled, BucketRecords
  <1>2. v.since \in Nat /\ v.allowed \in Nat /\ v.charged \in Nat /\ w.allowed \in Nat
    BY DEF ViewRecords, Times
  <1>3. CASE b.tokens >= Token
    <2>1. Spend(b) = [b EXCEPT !.tokens = b.tokens - Token]  BY <1>3 DEF Spend
    <2>2. /\ Spend(b) \in BucketRecords /\ Spend(b).tokens = b.tokens - Token
          /\ Spend(b).last_refill = now
          /\ Spend(b).refill_rate = b.refill_rate /\ Spend(b).max_tokens = b.max_tokens
      BY <1>1, <2>1 DEF BucketRecords, Token
    <2>3. w.allowed = v.allowed + 1  BY <1>3
    <2>4. (b.tokens - Token) + Token * w.allowed = b.tokens + Token * v.allowed
      BY <1>1, <1>2, <2>3 DEF Token
    <2>5. Spend(b).tokens >= 0  BY <1>1, <1>3, <2>2 DEF Token
    <2>6. QED
      BY <1>1, <1>2, <2>2, <2>4, <2>5 DEF Account, Refilled, Token
  <1>4. CASE ~(b.tokens >= Token)
    <2>1. Spend(b) = b /\ w.allowed = v.allowed  BY <1>2, <1>4 DEF Spend
    <2>2. QED  BY <1>1, <1>2, <2>1 DEF Account, Refilled
  <1>5. QED  BY <1>3, <1>4

-------------------------------------------------------------------------------
(* allow_request, for the client that makes it.                            *)
LEMMA AllowRequestKeeps ==
    ASSUME IInv, NEW c \in Clients, NEW gap \in 0 .. MaxGap, AllowRequest(c, gap)
    PROVE  IInv'
  <1> DEFINE b == Refill(Bucket(c, gap), now)
             one == IF b.tokens >= Token THEN 1 ELSE 0
             served == IF b.tokens >= Token THEN now' ELSE view[c].served
             charged == IF HasBucket(c) THEN view[c].charged
                        ELSE default_refill_rate * Milliseconds(gap)
             v == [view[c] EXCEPT !.charged = charged]
             w == [since |-> view[c].since, answered |-> now', allowed |-> view[c].allowed + one,
                   served |-> served, charged |-> charged]
  <1>1. now \in Nat /\ now' \in Times /\ now <= now' /\ gap \in Nat
    BY LimiterAssumption DEF IInv, TypeOK, AllowRequest, Times
  <1>2. view[c] \in ViewRecords /\ view[c].since <= now
    BY DEF IInv, TypeOK, ClientInv
  <1>3. default_refill_rate * Milliseconds(gap) \in Nat
    BY <1>1, WholeMilliseconds DEF IInv, TypeOK
  <1>4. /\ v \in ViewRecords /\ v.since = view[c].since /\ v.allowed = view[c].allowed
        /\ v.charged = IF HasBucket(c) THEN view[c].charged
                       ELSE default_refill_rate * Milliseconds(gap)
    BY <1>2, <1>3 DEF ViewRecords
  <1>5. Refilled(b, v)
    <2>1. CASE HasBucket(c)
      <3>1. Bucket(c, gap) = buckets[c]  BY <2>1 DEF Bucket
      <3>2. buckets[c] \in BucketRecords  BY <2>1 DEF IInv, TypeOK, HasBucket
      <3>3. buckets[c].tokens <= buckets[c].max_tokens /\ buckets[c].last_refill \in 0 .. now
        BY <2>1 DEF IInv, TypeOK
      <3>4. Account(buckets[c], view[c])  BY <2>1 DEF IInv, ClientInv
      <3>5. v = view[c]  BY <2>1, <1>2 DEF ViewRecords
      <3>6. QED  BY <1>1, <1>2, <3>1, <3>2, <3>3, <3>4, <3>5, RefillKeepsAccount
    <2>2. CASE ~HasBucket(c)
      <3>1. Bucket(c, gap) = NewBucket(default_refill_rate, default_max_tokens, now + gap)
        BY <2>2 DEF Bucket
      <3>2. view[c].allowed = 0  BY <2>2 DEF IInv, ClientInv
      <3>3. default_refill_rate \in Nat /\ default_max_tokens \in Nat  BY DEF IInv, TypeOK
      <3>4. QED
        BY <1>1, <1>2, <1>4, <2>2, <3>1, <3>2, <3>3, RefillOfNewBucket
    <2>3. QED  BY <2>1, <2>2
  <1>6. /\ w \in ViewRecords /\ w.since = v.since /\ w.charged = v.charged
        /\ w.answered = now'
        /\ w.allowed = v.allowed + (IF b.tokens >= Token THEN 1 ELSE 0)
    <2>1. one \in Nat /\ served \in Times /\ charged \in Nat
      BY <1>1, <1>2, <1>3 DEF ViewRecords
    <2> HIDE DEF one, served, charged
    <2>2. /\ w \in ViewRecords /\ w.since = view[c].since /\ w.charged = charged
          /\ w.answered = now' /\ w.allowed = view[c].allowed + one
      BY <1>1, <1>2, <2>1 DEF ViewRecords
    <2>3. v.since = view[c].since /\ v.charged = charged /\ v.allowed = view[c].allowed
      BY <1>2, <2>1 DEF ViewRecords
    <2> HIDE DEF v, w
    <2>4. QED  BY <2>2, <2>3 DEF one
  <1>7. /\ buckets' = [buckets EXCEPT ![c] = Spend(b)]
        /\ view' = [view EXCEPT ![c] = w]
        /\ UNCHANGED <<default_refill_rate, default_max_tokens>>
    BY DEF AllowRequest
  <1>8. /\ Spend(b) \in BucketRecords /\ Spend(b).tokens <= Spend(b).max_tokens
        /\ Spend(b).last_refill = now /\ Account(Spend(b), w)
    <2>1. w.answered >= now  BY <1>1, <1>6 DEF Times
    <2>2. v.since <= now  BY <1>2, <1>4
    <2> HIDE DEF b, v, w
    <2>3. QED  BY <1>1, <1>4, <1>5, <1>6, <2>1, <2>2, SpendKeepsAccount
  <1> HIDE DEF b, v, w
  <1>9. Spend(b) # NoBucket  BY <1>8, LimiterAssumption
  <1>10. TypeOK'
    BY <1>1, <1>6, <1>7, <1>8, <1>9 DEF IInv, TypeOK, HasBucket, Times
  <1>11. ASSUME NEW d \in Clients
         PROVE  ClientInv(d)'
    <2>1. CASE d = c
      <3>1. buckets'[c] = Spend(b) /\ view'[c] = w
        BY <1>7 DEF IInv, TypeOK
      <3>2. w.since <= now' /\ w.answered <= now'
        BY <1>1, <1>2, <1>4, <1>6 DEF Times, ViewRecords
      <3>3. QED  BY <1>8, <1>9, <2>1, <3>1, <3>2 DEF ClientInv, HasBucket, Account
    <2>2. CASE d # c
      <3>1. buckets'[d] = buckets[d] /\ view'[d] = view[d]
        BY <1>7, <2>2 DEF IInv, TypeOK
      <3>2. view[d].since \in Nat /\ view[d].answered \in Nat
        BY DEF IInv, TypeOK, ViewRecords, Times
      <3>3. view[d].since <= now' /\ view[d].answered <= now'
        BY <1>1, <3>2 DEF IInv, ClientInv, Times
      <3>4. QED  BY <3>1, <3>3 DEF IInv, ClientInv, HasBucket, Account
    <2>3. QED  BY <2>1, <2>2
  <1>12. QED  BY <1>10, <1>11 DEF IInv
(* The account of a window that begins with the last refill.               *)
LEMMA AccountOpens ==
    ASSUME NEW b \in BucketRecords, now \in Nat,
           b.tokens <= b.max_tokens, b.last_refill <= now, now <= b.last_refill
    PROVE  (b.tokens + Token * 0) * TicksPerMs
               <= b.max_tokens * TicksPerMs + b.refill_rate * (b.last_refill - now)
  <1>1. b.tokens \in Int /\ b.max_tokens \in Nat /\ b.last_refill \in Int /\ b.refill_rate \in Nat
    BY DEF BucketRecords
  <1>2. b.tokens * TicksPerMs <= b.max_tokens * TicksPerMs
    BY <1>1, LimiterAssumption, ProductGrows
  <1>3. b.last_refill - now = 0  BY <1>1
  <1>4. b.refill_rate * (b.last_refill - now) = 0  BY <1>1, <1>3
  <1>5. b.tokens + Token * 0 = b.tokens  BY <1>1 DEF Token
  <1>6. b.max_tokens * TicksPerMs \in Int  BY <1>1, LimiterAssumption
  <1>7. QED  BY <1>2, <1>4, <1>5, <1>6

(* An operator gives the client c a bucket, or takes it away.              *)
LEMMA ChangeLimitsKeeps ==
    ASSUME IInv, NEW c \in Clients, NEW bucket \in BucketRecords \cup {NoBucket},
           bucket # NoBucket =>
               /\ bucket.tokens <= bucket.max_tokens
               /\ bucket.last_refill \in 0 .. now
               /\ (IF HasBucket(c) THEN -view[c].charged ELSE 0) <= bucket.tokens,
           ChangeLimits(c, bucket)
    PROVE  IInv'
  <1> DEFINE charged == IF HasBucket(c) THEN view[c].charged ELSE 0
             w == [since |-> now, allowed |-> 0, answered |-> now, served |-> now,
                   charged |-> charged]
  <1>1. /\ buckets' = [buckets EXCEPT ![c] = bucket]
        /\ UNCHANGED <<default_refill_rate, default_max_tokens, now>>
    BY DEF ChangeLimits
  <1>2. charged \in Nat  BY DEF IInv, TypeOK, ViewRecords
  <1>3. now \in Nat /\ now \in Times  BY DEF IInv, TypeOK, Times
  <1>4. view' = [view EXCEPT ![c] = w]
    <2> HIDE DEF charged
    <2>1. [Fresh EXCEPT !.charged = charged] = w  BY DEF Fresh
    <2>2. QED  BY <2>1 DEF ChangeLimits, charged
  <1>5. w \in ViewRecords  BY <1>2, <1>3 DEF ViewRecords
  <1>6. bucket # NoBucket => Account(bucket, w)
    <2> SUFFICES ASSUME bucket # NoBucket
                 PROVE  Account(bucket, w)
      OBVIOUS
    <2>1. /\ bucket.tokens \in Int /\ bucket.max_tokens \in Nat /\ bucket.last_refill \in Int
          /\ bucket.refill_rate \in Nat
      BY DEF BucketRecords
    <2>2. -charged <= bucket.tokens /\ bucket.last_refill <= now
      BY <1>3
    <2>3. now <= bucket.last_refill =>
            (bucket.tokens + Token * 0) * TicksPerMs
               <= bucket.max_tokens * TicksPerMs + bucket.refill_rate * (bucket.last_refill - now)
      BY <1>3, <2>1, <2>2, AccountOpens
    <2> HIDE DEF charged
    <2>4. QED  BY <1>3, <2>2, <2>3 DEF Account
  <1> HIDE DEF w, charged
  <1>7. TypeOK'
    BY <1>1, <1>4, <1>5 DEF IInv, TypeOK, HasBucket
  <1>8. ASSUME NEW d \in Clients
        PROVE  ClientInv(d)'
    <2>1. CASE d = c
      <3>1. buckets'[c] = bucket /\ view'[c] = w  BY <1>1, <1>4 DEF IInv, TypeOK
      <3>2. w.since <= now' /\ w.answered <= now' /\ w.allowed = 0
        BY <1>1, <1>3 DEF w
      <3>3. QED  BY <1>6, <2>1, <3>1, <3>2 DEF ClientInv, HasBucket, Account
    <2>2. CASE d # c
      <3>1. buckets'[d] = buckets[d] /\ view'[d] = view[d] /\ now' = now
        BY <1>1, <1>4, <2>2 DEF IInv, TypeOK
      <3>2. QED  BY <3>1 DEF IInv, ClientInv, HasBucket, Account
    <2>3. QED  BY <2>1, <2>2
  <1>9. QED  BY <1>7, <1>8 DEF IInv

(* A window of observation may begin at any moment.                        *)
LEMMA ObserveKeeps ==
    ASSUME IInv, NEW c \in Clients, Observe(c)
    PROVE  IInv'
  <1> DEFINE w == [view[c] EXCEPT !.since = now, !.allowed = 0]
  <1>1. now \in Nat /\ now \in Times  BY DEF IInv, TypeOK, Times
  <1>2. view[c] \in ViewRecords  BY DEF IInv, TypeOK
  <1>3. /\ w \in ViewRecords /\ w.since = now /\ w.allowed = 0
        /\ w.answered = view[c].answered /\ w.charged = view[c].charged
    BY <1>1, <1>2 DEF ViewRecords
  <1>4. /\ view' = [view EXCEPT ![c] = w]
        /\ UNCHANGED <<default_refill_rate, default_max_tokens, buckets, now>>
    BY DEF Observe
  <1> HIDE DEF w
  <1>5. TypeOK'  BY <1>3, <1>4 DEF IInv, TypeOK, HasBucket
  <1>6. HasBucket(c) => Account(buckets[c], w)
    <2> SUFFICES ASSUME HasBucket(c)
                 PROVE  Account(buckets[c], w)
      OBVIOUS
    <2> DEFINE b == buckets[c]
    <2>1. b \in BucketRecords /\ b.tokens <= b.max_tokens /\ b.last_refill \in 0 .. now
      BY DEF IInv, TypeOK, HasBucket
    <2>2. Account(b, view[c])  BY DEF IInv, ClientInv
    <2> HIDE DEF b
    <2>3. /\ b.tokens \in Int /\ b.max_tokens \in Nat /\ b.last_refill \in Int
          /\ b.refill_rate \in Nat
      BY <2>1 DEF BucketRecords
    <2>5. now <= b.last_refill =>
            (b.tokens + Token * 0) * TicksPerMs
               <= b.max_tokens * TicksPerMs + b.refill_rate * (b.last_refill - now)
      BY <1>1, <2>1, <2>3, AccountOpens
    <2>6. QED  BY <1>1, <1>3, <2>2, <2>5 DEF Account, b
  <1>7. ASSUME NEW d \in Clients
        PROVE  ClientInv(d)'
    <2>1. CASE d = c
      <3>1. view'[c] = w  BY <1>4 DEF IInv, TypeOK
      <3>2. view[c].answered <= now  BY DEF IInv, ClientInv
      <3>3. QED  BY <1>1, <1>3, <1>4, <1>6, <2>1, <3>1, <3>2 DEF ClientInv, HasBucket, Account
    <2>2. CASE d # c
      <3>1. view'[d] = view[d]  BY <1>4, <2>2 DEF IInv, TypeOK
      <3>2. QED  BY <1>4, <3>1 DEF IInv, ClientInv, HasBucket, Account
    <2>3. QED  BY <2>1, <2>2
  <1>8. QED  BY <1>5, <1>7 DEF IInv

(* The bucket that NewBucket makes is full.                                *)
LEMMA NewBucketIsFull ==
    ASSUME NEW rate \in Nat, NEW max \in Nat, NEW made \in Int
    PROVE  /\ NewBucket(rate, max, made) \in BucketRecords
           /\ NewBucket(rate, max, made).tokens = max
           /\ NewBucket(rate, max, made).max_tokens = max
           /\ NewBucket(rate, max, made).last_refill = made
  BY DEF NewBucket, BucketRecords

LEMMA SetRateKeeps ==
    ASSUME IInv, NEW c \in Clients, NEW rate \in Rates, SetRate(c, rate)
    PROVE  IInv'
  <1> DEFINE b == buckets[c]
             new == NewBucket(rate, default_max_tokens, now)
             changed == [b EXCEPT !.refill_rate = rate]
  <1>1. rate \in Nat /\ now \in Nat /\ default_max_tokens \in Nat
    BY LimiterAssumption DEF IInv, TypeOK, Times
  <1>2. CASE HasBucket(c)
    <2>1. b \in BucketRecords /\ b.tokens <= b.max_tokens /\ b.last_refill \in 0 .. now
      BY <1>2 DEF IInv, TypeOK, HasBucket
    <2>2. -view[c].charged <= b.tokens  BY <1>2 DEF IInv, ClientInv, Account
    <2>3. ChangeLimits(c, changed)  BY <1>2 DEF SetRate
    <2> HIDE DEF b
    <2>4. /\ changed \in BucketRecords /\ changed.tokens = b.tokens
          /\ changed.max_tokens = b.max_tokens /\ changed.last_refill = b.last_refill
      BY <1>1, <2>1 DEF BucketRecords
    <2> HIDE DEF changed
    <2>5. QED  BY <1>2, <2>1, <2>2, <2>3, <2>4, ChangeLimitsKeeps
  <1>3. CASE ~HasBucket(c)
    <2>1. ChangeLimits(c, new)  BY <1>3 DEF SetRate
    <2>2. /\ new \in BucketRecords /\ new.tokens = default_max_tokens
          /\ new.max_tokens = default_max_tokens /\ new.last_refill = now
      BY <1>1, NewBucketIsFull
    <2> HIDE DEF new
    <2>3. QED  BY <1>1, <1>3, <2>1, <2>2, ChangeLimitsKeeps
  <1>4. QED  BY <1>2, <1>3

LEMMA SetBurstKeeps ==
    ASSUME IInv, NEW c \in Clients, NEW burst \in Bursts, SetBurst(c, burst)
    PROVE  IInv'
  <1> DEFINE b == buckets[c]
             max == burst * Token
             new == NewBucket(default_refill_rate, max, now)
             changed == [b EXCEPT !.max_tokens = max, !.tokens = AtMost(@, max)]
  <1>1. max \in Nat /\ now \in Nat /\ default_refill_rate \in Nat
    BY LimiterAssumption DEF IInv, TypeOK, Times, Token
  <1>2. CASE HasBucket(c)
    <2>1. b \in BucketRecords /\ b.tokens <= b.max_tokens /\ b.last_refill \in 0 .. now
      BY <1>2 DEF IInv, TypeOK, HasBucket
    <2>2. -view[c].charged <= b.tokens /\ view[c].charged \in Nat
      BY <1>2 DEF IInv, ClientInv, Account, TypeOK, ViewRecords
    <2>3. ChangeLimits(c, changed)  BY <1>2 DEF SetBurst
    <2> HIDE DEF b, max
    <2>4. b.tokens \in Int  BY <2>1 DEF BucketRecords
    <2>5. /\ changed \in BucketRecords /\ changed.tokens = AtMost(b.tokens, max)
          /\ changed.max_tokens = max /\ changed.last_refill = b.last_refill
      <3> DEFINE t == AtMost(b.tokens, max)
      <3>1. t \in Int  BY <1>1, <2>4 DEF AtMost
      <3>2. changed = [b EXCEPT !.max_tokens = max, !.tokens = t]
        BY <2>1 DEF BucketRecords
      <3> HIDE DEF t, changed
      <3>3. QED  BY <1>1, <2>1, <3>1, <3>2 DEF BucketRecords, t
    <2>6. AtMost(b.tokens, max) <= max /\ -view[c].charged <= AtMost(b.tokens, max)
      BY <1>1, <2>2, <2>4 DEF AtMost
    <2> HIDE DEF changed
    <2>7. QED  BY <1>2, <2>1, <2>3, <2>5, <2>6, ChangeLimitsKeeps
  <1>3. CASE ~HasBucket(c)
    <2>1. ChangeLimits(c, new)  BY <1>3 DEF SetBurst
    <2>2. /\ new \in BucketRecords /\ new.tokens = max
          /\ new.max_tokens = max /\ new.last_refill = now
      BY <1>1, NewBucketIsFull
    <2> HIDE DEF new, max
    <2>3. QED  BY <1>1, <1>3, <2>1, <2>2, ChangeLimitsKeeps
  <1>4. QED  BY <1>2, <1>3

LEMMA TickKeeps ==
    ASSUME IInv, Tick
    PROVE  IInv'
  <1>1. now \in Nat /\ now' = now + 1 /\ now' \in Times
    BY LimiterAssumption DEF IInv, TypeOK, Tick, Times
  <1>2. UNCHANGED <<default_refill_rate, default_max_tokens, buckets, view>>  BY DEF Tick
  <1>3. TypeOK'  BY <1>1, <1>2 DEF IInv, TypeOK, HasBucket
  <1>4. ASSUME NEW c \in Clients
        PROVE  ClientInv(c)'
    <2>1. view[c].since \in Nat /\ view[c].answered \in Nat
      BY DEF IInv, TypeOK, ViewRecords, Times
    <2>2. view[c].since <= now' /\ view[c].answered <= now'
      BY <1>1, <2>1 DEF IInv, ClientInv
    <2>3. QED  BY <1>2, <2>2 DEF IInv, ClientInv, HasBucket, Account
  <1>5. QED  BY <1>3, <1>4 DEF IInv

-------------------------------------------------------------------------------
(* The types of the limiter and the account of every client.               *)
THEOREM InvariantHolds == Spec => []IInv
  <1>1. Init => IInv
    <2> SUFFICES ASSUME Init
                 PROVE  IInv
      OBVIOUS
    <2>1. TypeOK
      BY LimiterAssumption DEF Init, TypeOK, HasBucket, Fresh, ViewRecords, Times, Token
    <2>2. QED  BY <2>1 DEF Init, IInv, ClientInv, HasBucket, Fresh
  <1>2. IInv /\ [Next]_limiterVars => IInv'
    <2> SUFFICES ASSUME IInv, [Next]_limiterVars
                 PROVE  IInv'
      OBVIOUS
    <2>1. CASE \E c \in Clients, gap \in 0 .. MaxGap : AllowRequest(c, gap)
      BY <2>1, AllowRequestKeeps
    <2>2. CASE \E rate \in Rates, burst \in Bursts : Configure(rate, burst)
      BY <2>2, LimiterAssumption
         DEF Configure, IInv, TypeOK, ClientInv, HasBucket, Account, Token
    <2>3. CASE \E c \in Clients, rate \in Rates : SetRate(c, rate)
      BY <2>3, SetRateKeeps
    <2>4. CASE \E c \in Clients, burst \in Bursts : SetBurst(c, burst)
      BY <2>4, SetBurstKeeps
    <2>5. CASE \E c \in Clients : ResetClient(c)
      BY <2>5, ChangeLimitsKeeps DEF ResetClient
    <2>6. CASE \E c \in Clients : Observe(c)
      BY <2>6, ObserveKeeps
    <2>7. CASE Tick
      BY <2>7, TickKeeps
    <2>8. CASE UNCHANGED limiterVars
      BY <2>8 DEF limiterVars, IInv, TypeOK, ClientInv, HasBucket, Account
    <2>9. QED  BY <2>1, <2>2, <2>3, <2>4, <2>5, <2>6, <2>7, <2>8 DEF Next
  <1>3. QED  BY <1>1, <1>2, PTL DEF Spec

(* The types.                                                              *)
THEOREM TypeCorrect == Spec => []TypeOK
  <1>1. IInv => TypeOK  BY DEF IInv
  <1>2. QED  BY <1>1, InvariantHolds, PTL

(* allow_request never grants more than the burst and the rate allow, in   *)
(* any window of time.                                                     *)
THEOREM WindowsAreBounded == Spec => []WindowBound
  <1>1. IInv => WindowBound
    <2> SUFFICES ASSUME IInv, NEW c \in Clients, HasBucket(c)
                 PROVE  view[c].allowed * Token * TicksPerMs
                          <= buckets[c].max_tokens * TicksPerMs
                             + buckets[c].refill_rate * (now - view[c].since)
      BY DEF WindowBound
    <2> DEFINE b == buckets[c]
               v == view[c]
    <2>1. b \in BucketRecords /\ v \in ViewRecords /\ now \in Nat
          /\ b.last_refill \in 0 .. now
      BY DEF IInv, TypeOK, HasBucket, Times
    <2>2. Account(b, v) /\ v.since <= now  BY DEF IInv, ClientInv
    <2> SUFFICES v.allowed * Token * TicksPerMs
                   <= b.max_tokens * TicksPerMs + b.refill_rate * (now - v.since)
      OBVIOUS
    <2> HIDE DEF b, v
    <2>3. /\ b.tokens \in Int /\ b.max_tokens \in Nat /\ b.last_refill \in Int
          /\ b.refill_rate \in Nat
          /\ v.since \in Nat /\ v.allowed \in Nat
      BY <2>1 DEF BucketRecords, ViewRecords, Times
    <2>4. TicksPerMs \in Nat  BY LimiterAssumption
    <2>5. CASE v.allowed = 0
      <3>1. b.max_tokens * TicksPerMs \in Nat  BY <2>3, <2>4
      <3>2. b.refill_rate * (now - v.since) \in Nat  BY <2>1, <2>2, <2>3
      <3>3. v.allowed * Token * TicksPerMs = 0  BY <2>4, <2>5 DEF Token
      <3>4. QED  BY <3>1, <3>2, <3>3
    <2>6. CASE v.allowed > 0
      <3>1. b.tokens >= 0 /\ v.since <= b.last_refill  BY <2>2, <2>6 DEF Account
      <3>2. (b.tokens + Token * v.allowed) * TicksPerMs
              <= b.max_tokens * TicksPerMs + b.refill_rate * (b.last_refill - v.since)
        BY <2>2, <3>1 DEF Account
      <3>3. v.allowed * Token * TicksPerMs <= (b.tokens + Token * v.allowed) * TicksPerMs
        <4>1. v.allowed * Token \in Int /\ v.allowed * Token = Token * v.allowed
          BY <2>3 DEF Token
        <4>2. QED  BY <2>3, <2>4, <3>1, <4>1, ProductGrows
      <3>4. b.refill_rate * (b.last_refill - v.since) <= b.refill_rate * (now - v.since)
        BY <2>1, <2>3, ProductGrows
      <3>5. /\ v.allowed * Token * TicksPerMs \in Int
            /\ (b.tokens + Token * v.allowed) * TicksPerMs \in Int
            /\ b.max_tokens * TicksPerMs \in Int
            /\ b.refill_rate * (b.last_refill - v.since) \in Int
            /\ b.refill_rate * (now - v.since) \in Int
        BY <2>1, <2>3, <2>4 DEF Token
      <3>6. QED  BY <3>2, <3>3, <3>4, <3>5
    <2>7. QED  BY <2>3, <2>5, <2>6
  <1>2. QED  BY <1>1, InvariantHolds, PTL

(* Nobody who waits long enough is refused.                                *)
THEOREM PatientClientsAreServed == Spec => []PatientClientIsServed
  <1>1. IInv => PatientClientIsServed
    <2> SUFFICES ASSUME IInv, NEW c \in Clients, HasBucket(c),
                        buckets[c].max_tokens >= Token,
                        buckets[c].refill_rate * Milliseconds(now - view[c].answered)
                            >= Token + view[c].charged
                 PROVE  Refill(buckets[c], now).tokens >= Token
      BY DEF PatientClientIsServed
    <2> DEFINE b == buckets[c]
               v == view[c]
               waited == Milliseconds(now - v.answered)
               elapsed == Milliseconds(now - b.last_refill)
    <2>1. b \in BucketRecords /\ v \in ViewRecords /\ now \in Nat
          /\ b.last_refill \in 0 .. now
      BY DEF IInv, TypeOK, HasBucket, Times
    <2>2. Account(b, v) /\ v.answered <= now  BY DEF IInv, ClientInv
    <2>3. b.max_tokens >= Token /\ b.refill_rate * waited >= Token + v.charged
      OBVIOUS
    <2> SUFFICES Refill(b, now).tokens >= Token
      OBVIOUS
    <2> HIDE DEF b, v
    <2>4. /\ b.tokens \in Int /\ b.max_tokens \in Nat /\ b.last_refill \in Int
          /\ b.refill_rate \in Nat
          /\ v.answered \in Nat /\ v.charged \in Nat
      BY <2>1 DEF BucketRecords, ViewRecords, Times
    <2>5. b.last_refill <= v.answered /\ -v.charged <= b.tokens  BY <2>2 DEF Account
    <2>6. now - v.answered \in Nat /\ now - b.last_refill \in Nat
          /\ now - v.answered <= now - b.last_refill
      BY <2>1, <2>2, <2>4, <2>5
    <2>7. waited \in Nat /\ elapsed \in Nat /\ waited <= elapsed
      BY <2>6, WholeMilliseconds, MillisecondsGrow
    <2>8. Refill(b, now).tokens = AtMost(b.tokens + elapsed * b.refill_rate, b.max_tokens)
      BY DEF Refill
    <2> HIDE DEF waited, elapsed
    <2>9. b.refill_rate * waited <= b.refill_rate * elapsed
      BY <2>4, <2>7, ProductGrows
    <2>10. b.refill_rate * waited \in Int /\ b.refill_rate * elapsed \in Int
           /\ b.refill_rate * elapsed = elapsed * b.refill_rate
      BY <2>4, <2>7
    <2>11. b.tokens + elapsed * b.refill_rate >= Token
      BY <2>3, <2>4, <2>5, <2>9, <2>10 DEF Token
    <2>12. QED  BY <2>3, <2>4, <2>8, <2>10, <2>11 DEF AtMost, Token
  <1>2. QED  BY <1>1, InvariantHolds, PTL

-------------------------------------------------------------------------------
(* RequestQueue.                                                           *)
QueueInv == QueueTypeOK /\ NoLostWakeup /\ EachOnceInOrder

-------------------------------------------------------------------------------
(* How many threads are awake after one consumer's state has changed.      *)
LEMMA AwakeFacts ==
    ASSUME QueueTypeOK, NEW c \in Consumers, NEW s \in States, pc' = [pc EXCEPT ![c] = s]
    PROVE  /\ Cardinality(Awake) \in Nat /\ Cardinality(Awake') \in Nat
           /\ s \in {"woken", "late"} /\ c \in Awake
                => Cardinality(Awake') = Cardinality(Awake)
           /\ s \in {"woken", "late"} /\ c \notin Awake
                => Cardinality(Awake') = Cardinality(Awake) + 1
           /\ s \notin {"woken", "late"} /\ c \in Awake
                => Cardinality(Awake') = Cardinality(Awake) - 1
           /\ s \notin {"woken", "late"} /\ c \notin Awake
                => Cardinality(Awake') = Cardinality(Awake)
           /\ s # "waiting" /\ Waiting = {} => Waiting' = {}
<1>1. pc' \in [Consumers -> States] /\ pc'[c] = s
      /\ \A d \in Consumers : d # c => pc'[d] = pc[d]
  BY DEF QueueTypeOK
<1>2. IsFiniteSet(Awake)
  BY QueueAssumption, FS_Subset DEF Awake
<1>3. IsFiniteSet(Awake')
  BY QueueAssumption, FS_Subset DEF Awake
<1>4. s \in {"woken", "late"} => Awake' = Awake \cup {c}
  BY <1>1 DEF Awake
<1>5. s \notin {"woken", "late"} => Awake' = Awake \ {c}
  BY <1>1 DEF Awake
<1>6. s # "waiting" /\ Waiting = {} => Waiting' = {}
  BY <1>1 DEF Waiting
<1>7. Cardinality(Awake) \in Nat /\ Cardinality(Awake') \in Nat
  BY <1>2, <1>3, FS_CardinalityType
<1>8. s \in {"woken", "late"} /\ c \notin Awake => Cardinality(Awake') = Cardinality(Awake) + 1
  BY <1>2, <1>4, FS_AddElement
<1>9. s \notin {"woken", "late"} /\ c \in Awake => Cardinality(Awake') = Cardinality(Awake) - 1
  BY <1>2, <1>5, FS_RemoveElement
<1>10. /\ s \in {"woken", "late"} /\ c \in Awake => Awake' = Awake
       /\ s \notin {"woken", "late"} /\ c \notin Awake => Awake' = Awake
  BY <1>4, <1>5
<1>11. Awake' = Awake => Cardinality(Awake') = Cardinality(Awake)
  OBVIOUS
<1> QED BY <1>6, <1>7, <1>8, <1>9, <1>10, <1>11

LEMMA QueueInitInv == QueueInit => QueueInv
BY QueueAssumption DEF QueueInit, QueueInv, QueueTypeOK, NoLostWakeup, EachOnceInOrder, Waiting, States

(* enqueue: one more item, and one more thread awake if any slept.         *)
LEMMA EnqueueStep == QueueInv /\ Enqueue => QueueInv'
<1> SUFFICES ASSUME QueueInv, Enqueue PROVE QueueInv'
  OBVIOUS
<1> USE DEF QueueInv, QueueTypeOK
<1>1. /\ queue' = Append(queue, accepted + 1) /\ accepted' = accepted + 1
      /\ UNCHANGED <<max_size, gone>> /\ NotifyOne
  BY DEF Enqueue
<1>2. Len(queue') = Len(queue) + 1 /\ queue' \in Seq(Nat)
  BY <1>1
<1>3. EachOnceInOrder'
  <2>1. Len(queue') = accepted' - gone'
    BY <1>1, <1>2 DEF EachOnceInOrder
  <2>2. ASSUME NEW i \in 1 .. Len(queue') PROVE queue'[i] = gone' + i
    <3>1. CASE i \in 1 .. Len(queue)
      BY <1>1, <3>1 DEF EachOnceInOrder
    <3>2. CASE i = Len(queue) + 1
      <4>1. queue'[i] = accepted + 1
        BY <1>1, <3>2
      <4>2. accepted + 1 = gone + i
        BY <3>2 DEF EachOnceInOrder
      <4> QED BY <1>1, <4>1, <4>2
    <3> QED BY <1>2, <3>1, <3>2
  <2> QED BY <2>1, <2>2 DEF EachOnceInOrder
<1>4. CASE Waiting = {}
  BY <1>1, <1>2, <1>3, <1>4 DEF NotifyOne, NoLostWakeup, Waiting
<1>5. CASE Waiting # {}
  <2>1. PICK c \in Waiting : pc' = [pc EXCEPT ![c] = "woken"]
    BY <1>1, <1>5 DEF NotifyOne
  <2>2. c \in Consumers /\ c \notin Awake /\ "woken" \in States
    BY DEF Waiting, Awake, States
  <2>3. Cardinality(Awake) \in Nat /\ Cardinality(Awake') = Cardinality(Awake) + 1
    BY <2>1, <2>2, AwakeFacts
  <2>4. pc' \in [Consumers -> States]
    BY <2>1, <2>2
  <2> QED BY <1>1, <1>2, <1>3, <1>5, <2>3, <2>4 DEF NoLostWakeup
<1> QED BY <1>4, <1>5

(* Taking the front item removes one item and at most one awake thread.    *)
LEMMA TakeStep == ASSUME NEW c \in Consumers PROVE QueueInv /\ Take(c) => QueueInv'
<1> SUFFICES ASSUME QueueInv, Take(c) PROVE QueueInv'
  OBVIOUS
<1> USE DEF QueueInv, QueueTypeOK
<1>1. /\ queue # <<>> /\ queue' = Tail(queue) /\ gone' = Head(queue)
      /\ pc' = [pc EXCEPT ![c] = "outside"] /\ UNCHANGED <<max_size, accepted>>
  BY DEF Take
<1>2. /\ Len(queue) \in Nat /\ Len(queue) > 0 /\ Len(queue') = Len(queue) - 1
      /\ \A i \in 1 .. Len(queue') : queue'[i] = queue[i + 1]
      /\ queue' \in Seq(Nat) /\ gone' = queue[1] /\ gone' \in Nat
  BY <1>1
<1>3. EachOnceInOrder'
  <2>1. gone' = gone + 1
    BY <1>2 DEF EachOnceInOrder
  <2>2. Len(queue') = accepted' - gone'
    BY <1>1, <1>2, <2>1 DEF EachOnceInOrder
  <2>3. ASSUME NEW i \in 1 .. Len(queue') PROVE queue'[i] = gone' + i
    <3>1. i + 1 \in 1 .. Len(queue) /\ queue'[i] = queue[i + 1]
      BY <1>2, <2>3
    <3> QED BY <2>1, <3>1 DEF EachOnceInOrder
  <2> QED BY <2>2, <2>3 DEF EachOnceInOrder
<1>4. "outside" \in States
  BY DEF States
<1>5. NoLostWakeup'
  <2>1. Waiting = {} => Waiting' = {}
    BY <1>1, <1>4, AwakeFacts
  <2>2. Cardinality(Awake) \in Nat /\ Cardinality(Awake') \in Nat
    BY <1>1, <1>4, AwakeFacts
  <2>3. \/ Cardinality(Awake') = Cardinality(Awake)
        \/ Cardinality(Awake') = Cardinality(Awake) - 1
    BY <1>1, <1>4, AwakeFacts
  <2> QED BY <1>2, <2>1, <2>2, <2>3, SMTT(60) DEF NoLostWakeup
<1> QED BY <1>1, <1>2, <1>3, <1>4, <1>5

(* A thread that finds nothing leaves the queue as it is.                  *)
LEMMA NothingStep ==
    ASSUME NEW c \in Consumers, NEW s \in States PROVE QueueInv /\ FindNothing(c, s) => QueueInv'
<1> SUFFICES ASSUME QueueInv, FindNothing(c, s) PROVE QueueInv'
  OBVIOUS
<1> USE DEF QueueInv, QueueTypeOK, FindNothing
<1>1. Cardinality(Awake') \in Nat
  BY AwakeFacts
<1>2. NoLostWakeup'
  BY <1>1 DEF NoLostWakeup
<1> QED BY <1>2 DEF EachOnceInOrder

(* Waking up, for whatever reason, only adds to the awake threads.         *)
LEMMA WakeStep ==
    ASSUME NEW c \in Consumers PROVE QueueInv /\ (SpuriousWake(c) \/ Timeout(c)) => QueueInv'
<1> SUFFICES ASSUME QueueInv, SpuriousWake(c) \/ Timeout(c) PROVE QueueInv'
  OBVIOUS
<1> USE DEF QueueInv, QueueTypeOK
<1>1. PICK s \in {"woken", "late"} : pc' = [pc EXCEPT ![c] = s]
  BY DEF SpuriousWake, Timeout
<1>2. UNCHANGED <<queue, max_size, accepted, gone>> /\ s \in States
  BY DEF SpuriousWake, Timeout, States
<1>3. NoLostWakeup'
  <2>1. Waiting = {} => Waiting' = {}
    BY <1>1, <1>2, AwakeFacts
  <2>2. Cardinality(Awake) \in Nat /\ Cardinality(Awake') \in Nat
    BY <1>1, <1>2, AwakeFacts
  <2>3. \/ Cardinality(Awake') = Cardinality(Awake)
        \/ Cardinality(Awake') = Cardinality(Awake) + 1
    BY <1>1, <1>2, AwakeFacts
  <2> QED BY <1>2, <2>1, <2>2, <2>3 DEF NoLostWakeup
<1> QED BY <1>1, <1>2, <1>3 DEF EachOnceInOrder

LEMMA QueueStepInv == QueueInv /\ [QueueNext]_queueVars => QueueInv'
<1> SUFFICES ASSUME QueueInv, [QueueNext]_queueVars PROVE QueueInv'
  OBVIOUS
<1>0. "waiting" \in States /\ "outside" \in States
  BY DEF States
<1>1. CASE Enqueue
  BY <1>1, EnqueueStep
<1>2. CASE Clear
  <2>1. Cardinality(Awake) \in Nat
    BY QueueAssumption, FS_Subset, FS_CardinalityType DEF Awake
  <2>2. queue' = <<>> /\ gone' = accepted /\ UNCHANGED <<max_size, pc, accepted>>
    BY <1>2 DEF Clear
  <2>3. Awake' = Awake
    BY <2>2 DEF Awake
  <2> QED BY <2>1, <2>2, <2>3 DEF QueueInv, QueueTypeOK, NoLostWakeup, EachOnceInOrder
<1>3. CASE \E n \in Sizes : SetMaxSize(n)
  BY <1>3, QueueAssumption
  DEF SetMaxSize, QueueInv, QueueTypeOK, NoLostWakeup, EachOnceInOrder, Waiting, Awake
<1>4. ASSUME NEW c \in Consumers, Dequeue(c) \/ Resume(c) \/ GiveUp(c) PROVE QueueInv'
  <2>1. Take(c) \/ \E s \in States : FindNothing(c, s)
    BY <1>0, <1>4 DEF Dequeue, Resume, GiveUp
  <2> QED BY <2>1, TakeStep, NothingStep
<1>5. ASSUME NEW c \in Consumers, SpuriousWake(c) \/ Timeout(c) PROVE QueueInv'
  BY <1>5, WakeStep
<1>6. CASE UNCHANGED queueVars
  BY <1>6 DEF queueVars, QueueInv, QueueTypeOK, NoLostWakeup, EachOnceInOrder, Waiting, Awake
<1> QED BY <1>1, <1>2, <1>3, <1>4, <1>5, <1>6 DEF QueueNext

THEOREM QueueInvariantHolds == QueueSpec => []QueueInv
<1> QED BY QueueInitInv, QueueStepInv, PTL DEF QueueSpec

(* Queue, consumers and counters keep their types.                         *)
THEOREM QueueTypeCorrect == QueueSpec => []QueueTypeOK
<1>1. QueueInv => QueueTypeOK
  BY DEF QueueInv
<1> QED BY <1>1, QueueInvariantHolds, PTL

(* No item waits beside a sleeping consumer: each item in the queue has a  *)
(* thread awake to take it, for any number of consumers.                   *)
THEOREM WakeupsAreNotLost == QueueSpec => []NoLostWakeup
<1>1. QueueInv => NoLostWakeup
  BY DEF QueueInv
<1> QED BY <1>1, QueueInvariantHolds, PTL

(* Requests leave the queue once each, in the order of their acceptance.   *)
THEOREM RequestsLeaveInOrder == QueueSpec => []EachOnceInOrder
<1>1. QueueInv => EachOnceInOrder
  BY DEF QueueInv
<1> QED BY <1>1, QueueInvariantHolds, PTL

-------------------------------------------------------------------------------
(* Each of the two runs as it would on its own, and so what is shown of it *)
(* above holds of both together.                                           *)
THEOREM ThrottleRunsTheLimiter == ThrottleSpec => Spec
  <1>1. ThrottleInit => Init  BY DEF ThrottleInit
  <1>2. [ThrottleNext]_throttleVars => [Next]_limiterVars
    BY DEF ThrottleNext, throttleVars
  <1>3. QED  BY <1>1, <1>2, PTL DEF ThrottleSpec, Spec

THEOREM ThrottleRunsTheQueue == ThrottleSpec => QueueSpec
  <1>1. ThrottleInit => QueueInit  BY DEF ThrottleInit
  <1>2. [ThrottleNext]_throttleVars => [QueueNext]_queueVars
    BY DEF ThrottleNext, throttleVars
  <1>3. QED  BY <1>1, <1>2, PTL DEF ThrottleSpec, QueueSpec
===============================================================================
