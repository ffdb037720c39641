------------------------- MODULE TokenBucketProofs -------------------------
(***************************************************************************)
(* Theorems about the two stores of the rate limiter.  TokenBucket: for    *)
(* any rate, burst and number of replicas, for clocks that differ by any   *)
(* amount the time to live covers, and for any number of scripts under     *)
(* way.  MemoryStore: for any number of keys, of calls under way and of    *)
(* buckets that are kept.                                                  *)
(***************************************************************************)
EXTENDS TokenBucket, MemoryStore, FiniteSetTheorems, SequenceTheorems, TLAPS

(***************************************************************************)
(* Products: the rate distributes over durations and keeps their order.    *)
(***************************************************************************)
LEMMA Distributes ==
    ASSUME NEW a \in Int, NEW b \in Int, NEW r \in Int
    PROVE  (a + b) * r = a * r + b * r
OBVIOUS

LEMMA ProductKeepsOrder ==
    ASSUME NEW a \in Int, NEW b \in Int, NEW r \in Nat, a <= b
    PROVE  a * r <= b * r
OBVIOUS

(***************************************************************************)
(* What a script finds: never more than a burst.                           *)
(***************************************************************************)
LEMMA RefilledType ==
    ASSUME TypeOK, NEW t \in Nat
    PROVE  Refilled(t) \in 0 .. Burst
<1>1. CASE bucket = NoHash
  BY <1>1, BucketAssumption DEF Refilled
<1>2. CASE bucket # NoHash
  <2>1. bucket.tokens \in 0 .. Burst /\ bucket.last \in Nat
    BY <1>2 DEF TypeOK
  <2>2. Larger(0, t - bucket.last) \in Nat
    BY <2>1 DEF Larger
  <2>3. Larger(0, t - bucket.last) * Rate \in Nat
    BY <2>2, BucketAssumption
  <2> QED
    BY <1>2, <2>1, <2>3, BucketAssumption DEF Refilled, Smaller
<1> QED
  BY <1>1, <1>2

LEMMA UpdatedType ==
    ASSUME TypeOK, NEW t \in Nat
    PROVE  /\ Updated(t) \in [tokens : 0 .. Burst, last : Nat]
           /\ Updated(t) # NoHash
<1>1. Refilled(t) \in 0 .. Burst /\ Token \in Nat /\ Burst \in Nat
  BY RefilledType, BucketAssumption
<1>2. Updated(t).tokens \in 0 .. Burst
  BY <1>1 DEF Updated, Allowed
<1> QED
  BY <1>2 DEF Updated, NoHash

LEMMA RetryAfterType ==
    ASSUME TypeOK, NEW t \in Nat, ~Allowed(t)
    PROVE  RetryAfter(Refilled(t)) \in Nat
<1>1. Refilled(t) \in Nat /\ Refilled(t) < Token /\ Token \in Nat /\ Rate \in Nat \ {0}
  BY RefilledType, BucketAssumption DEF Allowed
<1>2. Token - Refilled(t) + Rate - 1 \in Nat
  BY <1>1
<1> QED
  BY <1>1, <1>2 DEF RetryAfter

LEMMA InitType == Init => TypeOK
BY BucketAssumption DEF Init, TypeOK

LEMMA TakeType ==
    ASSUME TypeOK, NEW p \in Replica, Take(p)
    PROVE  TypeOK'
<1>1. now + Skew[p] \in Nat
  BY BucketAssumption DEF TypeOK
<1>2. Append(sent[p], now + Skew[p]) \in Seq(Nat)
  BY <1>1 DEF TypeOK
<1> QED
  BY <1>2 DEF TypeOK, Take

\* The time a script carries is the head of its replica's queue.
LEMMA HeadType ==
    ASSUME TypeOK, NEW p \in Replica, sent[p] # <<>>
    PROVE  /\ Head(sent[p]) \in Nat
           /\ Tail(sent[p]) \in Seq(Nat)
           /\ 1 \in 1 .. Len(sent[p])
           /\ Head(sent[p]) = sent[p][1]
<1>1. sent[p] \in Seq(Nat)
  BY DEF TypeOK
<1> QED
  BY <1>1, HeadTailProperties, EmptySeq

LEMMA RunType ==
    ASSUME TypeOK, NEW p \in Replica, Run(p)
    PROVE  TypeOK'
<1> DEFINE t == Head(sent[p])
<1>1. t \in Nat /\ Tail(sent[p]) \in Seq(Nat)
  BY HeadType DEF Run
<1>2. bucket' \in [tokens : 0 .. Burst, last : Nat]
  BY <1>1, UpdatedType DEF Run
<1>3. sent' \in [Replica -> Seq(Nat)]
  BY <1>1 DEF TypeOK, Run
<1>4. ordered' \in BOOLEAN
  BY DEF TypeOK, Run
<1>5. admitted' \in Seq(Nat) /\ promise' \in Nat
  <2>1. CASE Allowed(t)
    <3>1. admitted' = Append(admitted, t) /\ promise' = 0
      BY <2>1 DEF Run
    <3>2. admitted \in Seq(Nat)
      BY DEF TypeOK
    <3> QED
      BY <1>1, <3>1, <3>2
  <2>2. CASE ~Allowed(t)
    <3>1. RetryAfter(Refilled(t)) \in Nat
      BY <1>1, <2>2, RetryAfterType
    <3> QED
      BY <1>1, <2>2, <3>1 DEF TypeOK, Run
  <2> QED
    BY <2>1, <2>2
<1>6. now' \in 0 .. MaxTime /\ written' \in 0 .. now'
  BY BucketAssumption DEF TypeOK, Run
<1> QED
  BY <1>2, <1>3, <1>4, <1>5, <1>6 DEF TypeOK

(***************************************************************************)
(* Every variable keeps its type; in particular the bucket never holds     *)
(* more than a burst, nor less than nothing.                               *)
(***************************************************************************)
THEOREM TypeCorrect == Spec => []TypeOK
<1>1. TypeOK /\ [Next]_vars => TypeOK'
  <2> SUFFICES ASSUME TypeOK, [Next]_vars PROVE TypeOK'
    OBVIOUS
  <2>1. CASE Tick
    BY <2>1, BucketAssumption DEF TypeOK, Tick
  <2>2. ASSUME NEW p \in Replica, Take(p) PROVE TypeOK'
    BY <2>2, TakeType
  <2>3. ASSUME NEW p \in Replica, Run(p) PROVE TypeOK'
    BY <2>3, RunType
  <2>4. CASE Expire
    BY <2>4, BucketAssumption DEF TypeOK, Expire
  <2>5. CASE UNCHANGED vars
    BY <2>5 DEF TypeOK, vars
  <2> QED
    BY <2>1, <2>2, <2>3, <2>4, <2>5 DEF Next
<1> QED
  BY <1>1, InitType, PTL DEF Spec

(***************************************************************************)
(* The invariant behind WithinRate.  Cost(i) is what the admissions        *)
(* from the i-th on have cost.  While there is a hash, they are paid for   *)
(* by what is missing in the bucket and by the time that has passed up to  *)
(* last_refill_ms; once the hash has expired, by the time alone.  The rest *)
(* bounds the times that scripts carry.                                    *)
(***************************************************************************)
Cost(i) == (Len(admitted) - i + 1) * Token

PaidFor ==
    ordered => \A i \in 1 .. Len(admitted) :
        IF bucket = NoHash
        THEN Cost(i) <= (written - admitted[i]) * Rate
        ELSE Cost(i) <= (Burst - bucket.tokens) + (bucket.last - admitted[i]) * Rate

NotAhead ==
    bucket # NoHash => \E p \in Replica : bucket.last <= written + Skew[p]

Recent ==
    \A p \in Replica : \A k \in 1 .. Len(sent[p]) :
        /\ sent[p][k] <= now + Skew[p]
        /\ bucket = NoHash => written <= sent[p][k]

BucketInv == TypeOK /\ WithinRate /\ PaidFor /\ NotAhead /\ Recent

(***************************************************************************)
(* The arithmetic of one script, with n units spent since time a, a hash   *)
(* of u units from time l, and a script that carries a time t >= l.  What  *)
(* the refill adds is paid for by the time between l and t; what the cap   *)
(* cuts off only helps.                                                    *)
(***************************************************************************)
LEMMA RefillIsPaidFor ==
    ASSUME NEW n \in Int, NEW u \in Int, NEW a \in Nat, NEW l \in Nat, NEW t \in Nat,
           l <= t, n <= (Burst - u) + (l - a) * Rate
    PROVE  n <= (Burst - Smaller(Burst, u + Larger(0, t - l) * Rate)) + (t - a) * Rate
<1>1. Rate \in Nat /\ Burst \in Nat
  BY BucketAssumption
<1>2. Larger(0, t - l) = t - l
  BY DEF Larger
<1>3. (t - a) * Rate = (t - l) * Rate + (l - a) * Rate
  <2>1. t - a = (t - l) + (l - a)
    OBVIOUS
  <2> QED
    BY <1>1, <2>1, Distributes
<1>4. (t - l) * Rate \in Int /\ (l - a) * Rate \in Int
  BY <1>1
<1> DEFINE x == (t - l) * Rate
           y == (l - a) * Rate
<1>5. n <= (Burst - u) + y /\ x \in Int /\ y \in Int
  BY <1>4
<1>6. n <= (Burst - Smaller(Burst, u + x)) + (x + y)
  <2> HIDE DEF x, y
  <2>1. CASE Burst < u + x
    BY <1>1, <1>5, <2>1 DEF Smaller
  <2>2. CASE ~(Burst < u + x)
    BY <1>1, <1>5, <2>2 DEF Smaller
  <2> QED
    BY <2>1, <2>2
<1> QED
  BY <1>2, <1>3, <1>6

\* The script of a hash that has not been overtaken keeps the account.
LEMMA RefilledIsPaidFor ==
    ASSUME BucketInv, ordered, NEW p \in Replica, Run(p), ordered',
           NEW i \in 1 .. Len(admitted)
    PROVE  LET t == Head(sent[p]) IN
           Cost(i) <= (Burst - Refilled(t)) + (t - admitted[i]) * Rate
<1> DEFINE t == Head(sent[p])
<1>1. t \in Nat /\ admitted[i] \in Nat /\ Cost(i) \in Int /\ Rate \in Nat /\ Burst \in Nat
  BY HeadType, BucketAssumption DEF BucketInv, TypeOK, Run, Cost
<1>2. CASE bucket = NoHash
  <2>1. Cost(i) <= (written - admitted[i]) * Rate
    BY <1>2 DEF BucketInv, PaidFor
  <2>2. written <= t /\ written \in Nat
    BY <1>2, HeadType DEF BucketInv, TypeOK, Recent, Run
  <2>3. (written - admitted[i]) * Rate <= (t - admitted[i]) * Rate
    <3>1. written - admitted[i] \in Int /\ t - admitted[i] \in Int
          /\ written - admitted[i] <= t - admitted[i]
      BY <1>1, <2>2
    <3> QED
      BY <1>1, <3>1, ProductKeepsOrder
  <2>4. Refilled(t) = Burst
    BY <1>2 DEF Refilled
  <2>5. (written - admitted[i]) * Rate \in Int /\ (t - admitted[i]) * Rate \in Int
    BY <1>1, <2>2
  <2> QED
    BY <1>1, <2>1, <2>3, <2>4, <2>5
<1>3. CASE bucket # NoHash
  <2>1. bucket.tokens \in Int /\ bucket.last \in Nat /\ bucket.last <= t
    <3>1. bucket \in [tokens : 0 .. Burst, last : Nat]
      BY <1>3 DEF BucketInv, TypeOK
    <3>2. ordered' = (ordered /\ (bucket = NoHash \/ bucket.last <= t))
      BY DEF Run
    <3>3. bucket.last <= t
      BY <1>3, <3>2, Zenon
    <3> QED
      BY <3>1, <3>3
  <2>2. Cost(i) <= (Burst - bucket.tokens) + (bucket.last - admitted[i]) * Rate
    BY <1>3 DEF BucketInv, PaidFor
  <2>3. Refilled(t) = Smaller(Burst, bucket.tokens + Larger(0, t - bucket.last) * Rate)
    BY <1>3 DEF Refilled
  <2> QED
    BY <1>1, <2>1, <2>2, <2>3, RefillIsPaidFor
<1> QED
  BY <1>2, <1>3

\* A script that is granted its token adds one admission, at the time it carries.
LEMMA GrantKeepsRate ==
    ASSUME BucketInv, NEW p \in Replica, Run(p), Allowed(Head(sent[p]))
    PROVE  WithinRate' /\ PaidFor'
<1> DEFINE t == Head(sent[p])
           n == Len(admitted)
<1>1. /\ t \in Nat /\ admitted \in Seq(Nat) /\ n \in Nat
      /\ Rate \in Nat /\ Burst \in Nat /\ Token \in Nat
  BY HeadType, BucketAssumption DEF BucketInv, TypeOK, Run
<1>2. admitted' = Append(admitted, t)
  BY DEF Run
<1>3. /\ Len(admitted') = n + 1
      /\ admitted'[n + 1] = t
      /\ \A i \in 1 .. n : admitted'[i] = admitted[i]
  BY <1>1, <1>2, AppendProperties
<1>4. bucket' # NoHash /\ bucket'.last = t /\ bucket'.tokens = Refilled(t) - Token
  BY <1>1, UpdatedType DEF Run, Updated, BucketInv
<1>5. Refilled(t) \in 0 .. Burst /\ Token <= Refilled(t)
  BY <1>1, RefilledType DEF BucketInv, Allowed
<1>6. ASSUME ordered', NEW i \in 1 .. n + 1
      PROVE  Cost(i)' <= (Burst - bucket'.tokens) + (t - admitted'[i]) * Rate
  <2>1. CASE i = n + 1
    <3>1. Cost(i)' = Token
      BY <1>1, <1>3, <2>1 DEF Cost
    <3>2. (t - admitted'[i]) * Rate = 0
      BY <1>1, <1>3, <2>1
    <3> QED
      BY <1>1, <1>4, <1>5, <3>1, <3>2
  <2>2. CASE i \in 1 .. n
    <3>1. Cost(i) <= (Burst - Refilled(t)) + (t - admitted[i]) * Rate
      BY <1>6, <2>2, RefilledIsPaidFor DEF Run
    <3>2. Cost(i)' = Cost(i) + Token
      <4>1. Cost(i)' = ((n - i + 1) + 1) * Token
        BY <1>1, <1>3, <2>2 DEF Cost
      <4>2. ((n - i + 1) + 1) * Token = (n - i + 1) * Token + 1 * Token
        BY <1>1, <2>2, Distributes
      <4> QED
        BY <1>1, <4>1, <4>2 DEF Cost
    <3>3. Cost(i) \in Int /\ (t - admitted[i]) * Rate \in Int
      BY <1>1, <2>2 DEF Cost
    <3>4. admitted'[i] = admitted[i]
      BY <1>3, <2>2
    <3> QED
      BY <1>1, <1>4, <1>5, <3>1, <3>2, <3>3, <3>4
  <2> QED
    BY <1>1, <2>1, <2>2
<1>7. PaidFor'
  BY <1>3, <1>4, <1>6 DEF PaidFor
<1>8. WithinRate'
  <2> SUFFICES ASSUME ordered', NEW i \in 1 .. n + 1, NEW j \in 1 .. n + 1, i <= j
               PROVE  (j - i + 1) * Token <= Burst + (admitted'[j] - admitted'[i]) * Rate
    BY <1>3 DEF WithinRate
  <2>1. CASE j = n + 1
    <3>1. Cost(i)' = (j - i + 1) * Token
      BY <1>3, <2>1 DEF Cost
    <3>2. Cost(i)' <= (Burst - bucket'.tokens) + (admitted'[j] - admitted'[i]) * Rate
      BY <1>3, <1>6, <2>1
    <3>3. admitted'[j] \in Nat /\ admitted'[i] \in Nat
      BY <1>1, <1>2, <1>3
    <3>4. (admitted'[j] - admitted'[i]) * Rate \in Int /\ (j - i + 1) * Token \in Int
      BY <1>1, <3>3
    <3>5. bucket'.tokens \in Nat
      BY <1>1, <1>4, <1>5
    <3> QED
      BY <1>1, <3>1, <3>2, <3>4, <3>5
  <2>2. CASE j # n + 1
    <3>1. i \in 1 .. n /\ j \in 1 .. n
      BY <1>1, <2>2
    <3>2. admitted'[i] = admitted[i] /\ admitted'[j] = admitted[j]
      BY <1>3, <3>1
    <3> QED
      BY <3>1, <3>2 DEF BucketInv, WithinRate, Run
  <2> QED
    BY <2>1, <2>2
<1> QED
  BY <1>7, <1>8

\* A refusal leaves the admissions alone and banks the refill.
LEMMA RefusalKeepsRate ==
    ASSUME BucketInv, NEW p \in Replica, Run(p), ~Allowed(Head(sent[p]))
    PROVE  WithinRate' /\ PaidFor'
<1> DEFINE t == Head(sent[p])
<1>1. t \in Nat
  BY HeadType DEF Run, BucketInv
<1>2. admitted' = admitted
  BY DEF Run
<1>3. bucket' # NoHash /\ bucket'.last = t /\ bucket'.tokens = Refilled(t)
  BY <1>1, UpdatedType DEF Run, Updated, BucketInv
<1>4. WithinRate'
  BY <1>2 DEF BucketInv, WithinRate, Run
<1>5. PaidFor'
  <2> SUFFICES ASSUME ordered', NEW i \in 1 .. Len(admitted)
               PROVE  Cost(i) <= (Burst - Refilled(t)) + (t - admitted[i]) * Rate
    BY <1>2, <1>3 DEF PaidFor, Cost
  <2> QED
    BY RefilledIsPaidFor DEF Run
<1> QED
  BY <1>4, <1>5

LEMMA RunKeepsTimes ==
    ASSUME BucketInv, NEW p \in Replica, Run(p)
    PROVE  NotAhead' /\ Recent'
<1> DEFINE t == Head(sent[p])
<1>1. /\ t \in Nat /\ sent[p] \in Seq(Nat) /\ now \in Nat
      /\ 1 \in 1 .. Len(sent[p]) /\ t = sent[p][1]
  BY HeadType DEF Run, BucketInv, TypeOK
<1>2. bucket' # NoHash /\ bucket'.last = t /\ written' = now /\ now' = now
  BY <1>1, UpdatedType DEF Run, Updated, BucketInv
<1>3. t <= now + Skew[p]
  BY <1>1 DEF BucketInv, Recent
<1>4. NotAhead'
  BY <1>2, <1>3 DEF NotAhead
<1>5. Recent'
  <2> SUFFICES ASSUME NEW q \in Replica, NEW k \in 1 .. Len(sent'[q])
               PROVE  sent'[q][k] <= now + Skew[q]
    BY <1>2 DEF Recent
  <2>1. CASE q # p
    <3>1. sent'[q] = sent[q]
      BY <2>1 DEF Run, BucketInv, TypeOK
    <3> QED
      BY <3>1 DEF BucketInv, Recent
  <2>2. CASE q = p
    <3>1. sent'[q] = Tail(sent[p])
      BY <2>2 DEF Run, BucketInv, TypeOK
    <3>2. k + 1 \in 1 .. Len(sent[p]) /\ sent'[q][k] = sent[p][k + 1]
      BY <1>1, <3>1
    <3> QED
      BY <2>2, <3>2 DEF BucketInv, Recent
  <2> QED
    BY <2>1, <2>2
<1> QED
  BY <1>4, <1>5

LEMMA TakeKeeps ==
    ASSUME BucketInv, NEW p \in Replica, Take(p)
    PROVE  WithinRate' /\ PaidFor' /\ NotAhead' /\ Recent'
<1>1. WithinRate' /\ PaidFor' /\ NotAhead'
  BY DEF BucketInv, WithinRate, PaidFor, Cost, NotAhead, Take
<1>2. Recent'
  <2> SUFFICES ASSUME NEW q \in Replica, NEW k \in 1 .. Len(sent'[q])
               PROVE  /\ sent'[q][k] <= now + Skew[q]
                      /\ bucket = NoHash => written <= sent'[q][k]
    BY DEF Recent, Take
  <2>1. /\ sent[q] \in Seq(Nat) /\ now \in Nat /\ written \in Nat /\ written <= now
        /\ Skew[q] \in Nat
    BY BucketAssumption DEF BucketInv, TypeOK
  <2>2. CASE q = p /\ k = Len(sent[p]) + 1
    <3>1. sent'[q][k] = now + Skew[q]
      BY <2>1, <2>2 DEF Take, BucketInv, TypeOK
    <3> QED
      BY <2>1, <3>1
  <2>3. CASE ~(q = p /\ k = Len(sent[p]) + 1)
    <3>1. k \in 1 .. Len(sent[q]) /\ sent'[q][k] = sent[q][k]
      BY <2>1, <2>3 DEF Take, BucketInv, TypeOK
    <3> QED
      BY <3>1 DEF BucketInv, Recent
  <2> QED
    BY <2>2, <2>3
<1> QED
  BY <1>1, <1>2

LEMMA TickKeeps ==
    ASSUME BucketInv, Tick
    PROVE  WithinRate' /\ PaidFor' /\ NotAhead' /\ Recent'
<1>1. WithinRate' /\ PaidFor' /\ NotAhead'
  BY DEF BucketInv, WithinRate, PaidFor, Cost, NotAhead, Tick
<1>2. Recent'
  <2> SUFFICES ASSUME NEW p \in Replica, NEW k \in 1 .. Len(sent[p])
               PROVE  /\ sent[p][k] <= now + 1 + Skew[p]
                      /\ bucket = NoHash => written <= sent[p][k]
    BY DEF Recent, Tick
  <2>1. sent[p][k] \in Nat /\ now \in Nat /\ Skew[p] \in Nat
    BY BucketAssumption DEF BucketInv, TypeOK
  <2> QED
    BY <2>1 DEF BucketInv, Recent
<1> QED
  BY <1>1, <1>2

(***************************************************************************)
(* Once the hash has expired, the time since its last use has brought a    *)
(* whole burst, also by the clock that was furthest ahead.                 *)
(***************************************************************************)
LEMMA ExpireKeeps ==
    ASSUME BucketInv, Expire
    PROVE  WithinRate' /\ PaidFor' /\ NotAhead' /\ Recent'
<1>1. WithinRate'
  BY DEF BucketInv, WithinRate, Expire
<1>2. NotAhead' /\ Recent'
  BY DEF NotAhead, Recent, Expire
<1>3. PaidFor'
  <2> SUFFICES ASSUME ordered, NEW i \in 1 .. Len(admitted)
               PROVE  Cost(i) <= (now - admitted[i]) * Rate
    BY DEF PaidFor, Cost, Expire
  <2>1. PICK p \in Replica : bucket.last <= written + Skew[p]
    BY DEF BucketInv, NotAhead, Expire
  <2>2. /\ bucket.tokens \in Nat /\ bucket.last \in Nat /\ admitted[i] \in Nat
        /\ written \in Nat /\ now \in Nat /\ Skew[p] \in Nat /\ Ttl \in Nat
        /\ Rate \in Nat /\ Burst \in Nat /\ Token \in Nat /\ Cost(i) \in Int
    BY BucketAssumption DEF BucketInv, TypeOK, Expire, Cost
  <2>3. Cost(i) <= (Burst - bucket.tokens) + (bucket.last - admitted[i]) * Rate
    BY DEF BucketInv, PaidFor, Expire
  <2>4. Burst <= (Ttl - Skew[p]) * Rate
    <3>1. Burst <= Rate * (Ttl - Skew[p])
      BY BucketAssumption
    <3>2. Rate * (Ttl - Skew[p]) = (Ttl - Skew[p]) * Rate
      BY <2>2
    <3> QED
      BY <3>1, <3>2
  <2>5. (Ttl - Skew[p]) * Rate + (bucket.last - admitted[i]) * Rate
           = ((Ttl - Skew[p]) + (bucket.last - admitted[i])) * Rate
    BY <2>2, Distributes
  <2>6. ((Ttl - Skew[p]) + (bucket.last - admitted[i])) * Rate
           <= (now - admitted[i]) * Rate
    <3>1. (Ttl - Skew[p]) + (bucket.last - admitted[i]) <= now - admitted[i]
      BY <2>1, <2>2 DEF Expire
    <3> QED
      BY <2>2, <3>1, ProductKeepsOrder
  <2>7. (now - admitted[i]) * Rate \in Int
    BY <2>2
  <2>8. ((Ttl - Skew[p]) + (bucket.last - admitted[i])) * Rate \in Int
    <3>1. (Ttl - Skew[p]) + (bucket.last - admitted[i]) \in Int
      BY <2>2
    <3> QED
      BY <2>2, <3>1
  <2>9. (bucket.last - admitted[i]) * Rate \in Int /\ (Ttl - Skew[p]) * Rate \in Int
    BY <2>2
  <2> DEFINE afterLast == (bucket.last - admitted[i]) * Rate
             untilGone == (Ttl - Skew[p]) * Rate
             both == ((Ttl - Skew[p]) + (bucket.last - admitted[i])) * Rate
             all == (now - admitted[i]) * Rate
  <2>10. /\ afterLast \in Int /\ untilGone \in Int /\ both \in Int /\ all \in Int
         /\ Cost(i) <= (Burst - bucket.tokens) + afterLast
         /\ Burst <= untilGone /\ untilGone + afterLast = both /\ both <= all
    BY <2>3, <2>4, <2>5, <2>6, <2>7, <2>8, <2>9
  <2> HIDE DEF afterLast, untilGone, both, all
  <2>11. Cost(i) <= all
    BY <2>2, <2>10
  <2> QED
    BY <2>11 DEF all
<1> QED
  BY <1>1, <1>2, <1>3

LEMMA BucketInvInductive == Spec => []BucketInv
<1>1. Init => BucketInv
  <2> SUFFICES ASSUME Init PROVE WithinRate /\ PaidFor /\ NotAhead /\ Recent
    BY InitType DEF BucketInv
  <2> QED
    BY DEF Init, WithinRate, PaidFor, NotAhead, Recent
<1>2. BucketInv /\ TypeOK' /\ [Next]_vars => BucketInv'
  <2> SUFFICES ASSUME BucketInv, [Next]_vars
               PROVE  WithinRate' /\ PaidFor' /\ NotAhead' /\ Recent'
    BY DEF BucketInv
  <2>1. CASE Tick
    BY <2>1, TickKeeps
  <2>2. ASSUME NEW p \in Replica, Take(p)
        PROVE  WithinRate' /\ PaidFor' /\ NotAhead' /\ Recent'
    BY <2>2, TakeKeeps
  <2>3. ASSUME NEW p \in Replica, Run(p)
        PROVE  WithinRate' /\ PaidFor' /\ NotAhead' /\ Recent'
    BY <2>3, GrantKeepsRate, RefusalKeepsRate, RunKeepsTimes
  <2>4. CASE Expire
    BY <2>4, ExpireKeeps
  <2>5. CASE UNCHANGED vars
    BY <2>5 DEF BucketInv, WithinRate, PaidFor, Cost, NotAhead, Recent, vars
  <2> QED
    BY <2>1, <2>2, <2>3, <2>4, <2>5 DEF Next
<1> QED
  BY <1>1, <1>2, TypeCorrect, PTL DEF Spec

(***************************************************************************)
(* As long as scripts reach Redis in the order of the times they carry,    *)
(* any admissions in a row fit in one burst and what the time between them *)
(* brings: for any rate and burst, over refills, refusals and expiry.      *)
(***************************************************************************)
THEOREM RateIsKept == Spec => []WithinRate
BY BucketInvInductive, PTL DEF BucketInv

(***************************************************************************)
(* Rounding up: a whole number of milliseconds brings at least n units.    *)
(***************************************************************************)
LEMMA RoundedUp ==
    ASSUME NEW n \in Int, NEW r \in Nat \ {0}
    PROVE  n <= ((n + r - 1) \div r) * r
<1> DEFINE m == n + r - 1
           q == m \div r
<1>1. m \in Int /\ q \in Int
  OBVIOUS
<1>2. m = (q * r) + (m % r) /\ (m % r) \in 0 .. r - 1
  BY <1>1
<1> QED
  BY <1>1, <1>2

(***************************************************************************)
(* The invariant behind RetryHonoured: by the time that was promised, the  *)
(* bucket, as the refused script left it, is refilled to a token.          *)
(***************************************************************************)
WaitPaysOff ==
    promise > 0 => /\ bucket # NoHash
                   /\ bucket.last <= promise
                   /\ Token <= bucket.tokens + (promise - bucket.last) * Rate

LEMMA RefusalPromises ==
    ASSUME TypeOK, NEW p \in Replica, Run(p)
    PROVE  WaitPaysOff'
<1> DEFINE t == Head(sent[p])
           u == Refilled(t)
<1>1. t \in Nat /\ u \in Nat /\ Rate \in Nat \ {0} /\ Token \in Nat
  <2>1. t \in Nat
    BY HeadType DEF Run
  <2>2. u \in 0 .. Burst
    BY <2>1, RefilledType
  <2> QED
    BY <2>1, <2>2, BucketAssumption
<1>2. CASE Allowed(t)
  BY <1>2 DEF Run, WaitPaysOff
<1>3. CASE ~Allowed(t)
  <2>1. bucket' # NoHash /\ bucket'.last = t /\ bucket'.tokens = u
    BY <1>1, <1>3, UpdatedType DEF Run, Updated
  <2>2. RetryAfter(u) \in Nat /\ promise' = t + RetryAfter(u)
    BY <1>1, <1>3, RetryAfterType DEF Run
  <2>3. Token - u <= RetryAfter(u) * Rate
    BY <1>1, RoundedUp DEF RetryAfter
  <2>4. RetryAfter(u) * Rate \in Int
    BY <1>1, <2>2
  <2>5. promise' - bucket'.last = RetryAfter(u)
    BY <1>1, <2>1, <2>2
  <2> HIDE DEF t, u
  <2> QED
    BY <1>1, <2>1, <2>2, <2>3, <2>4, <2>5 DEF WaitPaysOff
<1> QED
  BY <1>2, <1>3

LEMMA PromiseKept ==
    ASSUME TypeOK, WaitPaysOff, NEW t \in Nat, promise > 0, t >= promise
    PROVE  Allowed(t)
<1>1. /\ bucket.tokens \in Nat /\ bucket.last \in Nat /\ promise \in Nat
      /\ Rate \in Nat /\ Burst \in Nat /\ Token \in Nat /\ Token <= Burst
  BY BucketAssumption DEF TypeOK, WaitPaysOff
<1>2. bucket # NoHash /\ bucket.last <= promise
  BY DEF WaitPaysOff
<1>3. Larger(0, t - bucket.last) = t - bucket.last
  BY <1>1, <1>2 DEF Larger
<1>4. (promise - bucket.last) * Rate <= (t - bucket.last) * Rate
  <2>1. promise - bucket.last \in Int /\ t - bucket.last \in Int
        /\ promise - bucket.last <= t - bucket.last
    BY <1>1, <1>2
  <2> QED
    BY <1>1, <2>1, ProductKeepsOrder
<1>5. (promise - bucket.last) * Rate \in Int /\ (t - bucket.last) * Rate \in Int
  BY <1>1
<1>6. Token <= bucket.tokens + (t - bucket.last) * Rate
  <2>1. Token <= bucket.tokens + (promise - bucket.last) * Rate
    BY DEF WaitPaysOff
  <2> QED
    BY <1>1, <1>4, <1>5, <2>1
<1> QED
  BY <1>1, <1>2, <1>3, <1>5, <1>6 DEF Allowed, Refilled, Smaller

LEMMA WaitStep == TypeOK /\ WaitPaysOff /\ [Next]_vars => WaitPaysOff'
<1> SUFFICES ASSUME TypeOK, WaitPaysOff, [Next]_vars
             PROVE  WaitPaysOff'
  OBVIOUS
<1>1. ASSUME NEW p \in Replica, Run(p)
      PROVE  WaitPaysOff'
  BY <1>1, RefusalPromises
<1>2. CASE Expire
  BY <1>2 DEF Expire, WaitPaysOff
<1>3. CASE UNCHANGED <<bucket, promise>>
  BY <1>3 DEF WaitPaysOff
<1> QED
  BY <1>1, <1>2, <1>3 DEF Next, Tick, Take, vars

(***************************************************************************)
(* A refused client that comes back no earlier than it was told to is let  *)
(* in, unless somebody took a token in between: whatever the rate, and in  *)
(* whatever order scripts arrive.                                          *)
(***************************************************************************)
THEOREM RetryIsHonoured == Spec => RetryHonoured
<1>1. Init => WaitPaysOff
  BY DEF Init, WaitPaysOff
<1>2. TypeOK /\ WaitPaysOff
        => \A p \in Replica :
              Run(p) /\ promise > 0 /\ Head(sent[p]) >= promise => Allowed(Head(sent[p]))
  BY PromiseKept, HeadType DEF Run
<1>3. TypeOK /\ WaitPaysOff /\ [Next]_vars
        => [\A p \in Replica :
              Run(p) /\ promise > 0 /\ Head(sent[p]) >= promise
                 => Allowed(Head(sent[p]))]_vars
  BY <1>2
<1> QED
  BY <1>1, <1>3, WaitStep, TypeCorrect, PTL DEF Spec, RetryHonoured

-----------------------------------------------------------------------------
(***************************************************************************)
(* The store in memory.  A set of numbers that is not empty has a least    *)
(* one, which is what the eviction looks for.                              *)
(***************************************************************************)
LEMMA LeastExists ==
    ASSUME NEW T, T \subseteq Nat, T # {}
    PROVE  \E x \in T : \A y \in T : x <= y
<1>1. PICK x \in T : \A y \in T : ~ (<<y, x>> \in OpToRel(<, Nat))
  BY NatLessThanWellFounded, WFMin
<1>2. ASSUME NEW y \in T PROVE x <= y
  <2>1. ~ (<<y, x>> \in OpToRel(<, Nat)) /\ x \in Nat /\ y \in Nat
    BY <1>1
  <2> QED
    BY <2>1 DEF OpToRel
<1> QED
  BY <1>2

Link == [time : 0 .. LastTime, computed : BOOLEAN]
Bucket == [key : Key, last : 0 .. LastTime, tokens : 0 .. Full]

\* No two buckets of a store have the same key.
Distinct(s) == \A i, j \in 1 .. Len(s) : s[i].key = s[j].key => i = j

LEMMA OldestExists ==
    ASSUME NEW s \in Seq(Bucket), s # <<>>
    PROVE  Oldest(s) \in 1 .. Len(s)
<1> DEFINE T == {s[i].last : i \in 1 .. Len(s)}
<1>1. Len(s) \in Nat /\ 1 \in 1 .. Len(s) /\ \A i \in 1 .. Len(s) : s[i] \in Bucket
  BY EmptySeq, ElementOfSeq
<1>2. T \subseteq Nat /\ T # {}
  BY <1>1 DEF Bucket
<1>3. PICK x \in T : \A y \in T : x <= y
  BY <1>2, LeastExists
<1> DEFINE I == {i \in 1 .. Len(s) : s[i].last = x}
<1>4. I \subseteq Nat /\ I # {}
  BY <1>1
<1>5. PICK i \in I : \A j \in I : i <= j
  BY <1>4, LeastExists
<1>6. ASSUME NEW j \in 1 .. Len(s)
      PROVE  s[i].last < s[j].last \/ (s[i].last = s[j].last /\ i <= j)
  <2>1. s[j].last \in Nat /\ s[i].last = x /\ x \in Nat /\ x <= s[j].last
    BY <1>1, <1>2, <1>3 DEF Bucket
  <2>2. CASE s[j].last = x
    BY <1>5, <2>1, <2>2
  <2>3. CASE s[j].last # x
    BY <2>1, <2>3
  <2> QED
    BY <2>2, <2>3
<1> QED
  BY <1>6 DEF Oldest

\* Eviction drops one bucket, and keeps the order of the others.
LEMMA EvictedIs ==
    ASSUME NEW s \in Seq(Bucket), Distinct(s), Len(s) <= MaxKeys + 1
    PROVE  /\ Evicted(s) \in Seq(Bucket)
           /\ Len(Evicted(s)) <= MaxKeys
           /\ Distinct(Evicted(s))
           /\ \A i \in 1 .. Len(Evicted(s)) :
                 \E j \in 1 .. Len(s) : Evicted(s)[i] = s[j]
<1>1. CASE Len(s) <= MaxKeys
  BY <1>1 DEF Evicted
<1>2. CASE ~(Len(s) <= MaxKeys)
  <2> DEFINE o == Oldest(s)
             n == Len(s) - 1
             at(i) == IF i < o THEN i ELSE i + 1
             e == [i \in 1 .. n |-> s[at(i)]]
  <2>1. Len(s) \in Nat /\ MaxKeys \in Nat /\ n \in Nat /\ n <= MaxKeys /\ s # <<>>
    BY <1>2, MemoryStoreAssumption, EmptySeq
  <2>2. o \in 1 .. Len(s)
    BY <2>1, OldestExists
  <2>3. Evicted(s) = e
    BY <1>2 DEF Evicted
  <2> HIDE DEF o
  <2>4. \A i \in 1 .. n : at(i) \in 1 .. Len(s) /\ s[at(i)] \in Bucket
    BY <2>1, <2>2, ElementOfSeq
  <2>5. e \in Seq(Bucket) /\ Len(e) = n
    BY <2>1, <2>4, IsASeq
  <2>6. \A i \in 1 .. n : e[i] = s[at(i)]
    OBVIOUS
  <2>7. \A i, j \in 1 .. n : at(i) = at(j) => i = j
    BY <2>1, <2>2
  <2> HIDE DEF e, at
  <2>8. Distinct(e)
    BY <2>4, <2>5, <2>6, <2>7 DEF Distinct
  <2> QED
    BY <2>1, <2>3, <2>4, <2>5, <2>6, <2>8
<1> QED
  BY <1>1, <1>2

LEMMA IndexOfIs ==
    ASSUME NEW k \in Stored
    PROVE  IndexOf(k) \in 1 .. Len(state) /\ state[IndexOf(k)].key = k
BY DEF Stored, IndexOf

\* A bucket is written in its place, or behind the others.
LEMMA SetIs ==
    ASSUME state \in Seq(Bucket), Distinct(state), Len(state) <= MaxKeys,
           NEW k \in Key, NEW b \in Bucket, b.key = k
    PROVE  /\ Set(k, b) \in Seq(Bucket)
           /\ Distinct(Set(k, b))
           /\ Len(Set(k, b)) <= MaxKeys + 1
           /\ \A i \in 1 .. Len(Set(k, b)) :
                 \/ Set(k, b)[i] = b
                 \/ \E j \in 1 .. Len(state) : Set(k, b)[i] = state[j] /\ state[j].key # k
<1>0. Len(state) \in Nat /\ MaxKeys \in Nat
  BY MemoryStoreAssumption
<1>1. CASE k \in Stored
  <2> DEFINE i == IndexOf(k)
             s == [state EXCEPT ![i] = b]
  <2>1. i \in 1 .. Len(state) /\ state[i].key = k
    BY <1>1, IndexOfIs
  <2>2. Set(k, b) = s
    BY <1>1 DEF Set
  <2> HIDE DEF i
  <2>3. /\ s \in Seq(Bucket) /\ Len(s) = Len(state)
        /\ \A j \in 1 .. Len(state) : s[j] = IF j = i THEN b ELSE state[j]
    BY <2>1, ExceptSeq
  <2> HIDE DEF s
  <2>4. \A j \in 1 .. Len(state) : j # i => state[j].key # k
    BY <2>1 DEF Distinct
  <2>5. Distinct(s)
    <3> SUFFICES ASSUME NEW m \in 1 .. Len(s), NEW j \in 1 .. Len(s), s[m].key = s[j].key
                 PROVE  m = j
      BY DEF Distinct
    <3> QED
      BY <2>1, <2>3 DEF Distinct
  <2>6. \A j \in 1 .. Len(s) :
           \/ s[j] = b
           \/ \E m \in 1 .. Len(state) : s[j] = state[m] /\ state[m].key # k
    BY <2>3, <2>4
  <2> QED
    BY <1>0, <2>2, <2>3, <2>5, <2>6
<1>2. CASE k \notin Stored
  <2> DEFINE s == Append(state, b)
  <2>1. Set(k, b) = s
    BY <1>2 DEF Set
  <2>2. /\ s \in Seq(Bucket) /\ Len(s) = Len(state) + 1
        /\ \A j \in 1 .. Len(state) : s[j] = state[j]
        /\ s[Len(state) + 1] = b
    BY AppendProperties
  <2> HIDE DEF s
  <2>3. \A j \in 1 .. Len(state) : state[j].key # k
    BY <1>2 DEF Stored
  <2>4. \A j \in 1 .. Len(s) : j \in 1 .. Len(state) \/ j = Len(state) + 1
    BY <1>0, <2>2
  <2>5. Distinct(s)
    <3> SUFFICES ASSUME NEW m \in 1 .. Len(s), NEW j \in 1 .. Len(s), s[m].key = s[j].key
                 PROVE  m = j
      BY DEF Distinct
    <3> QED
      BY <2>2, <2>3, <2>4 DEF Distinct
  <2>6. \A j \in 1 .. Len(s) :
           \/ s[j] = b
           \/ \E m \in 1 .. Len(state) : s[j] = state[m] /\ state[m].key # k
    BY <2>2, <2>3, <2>4
  <2> QED
    BY <1>0, <2>1, <2>2, <2>5, <2>6
<1> QED
  BY <1>1, <1>2

\* A map has as many keys as it has buckets.
LEMMA StoredCount ==
    ASSUME state \in Seq(Bucket), Distinct(state)
    PROVE  Cardinality(Stored) = Len(state)
<1> DEFINE n == Len(state)
           f == [i \in 1 .. n |-> state[i].key]
<1>0. n \in Nat
  OBVIOUS
<1> HIDE DEF n
<1>1. IsFiniteSet(1 .. n) /\ Cardinality(1 .. n) = n
  BY <1>0, FS_Interval
<1>2. f \in Bijection(1 .. n, Stored)
  BY DEF Bijection, Injection, Surjection, Stored, Distinct, IsInjective, n
<1> QED
  BY <1>1, <1>2, FS_Bijection DEF ExistsBijection, n

(***************************************************************************)
(* The invariant behind RatePerLife.  Calls of a key join its chain in the *)
(* order of their times.  What a key has been let through is paid for by   *)
(* its full buckets and the refill, up to the time of any call that waits; *)
(* while the bucket is kept, up to the time it was written and with what   *)
(* is left in it on top.                                                   *)
(***************************************************************************)
InOrder ==
    \A k \in Key : \A i, j \in 1 .. Len(chain[k]) :
        /\ chain[k][i].time <= clock
        /\ i <= j => chain[k][i].time <= chain[k][j].time

WithinLives(k, left, time) == let[k] * Unit + left <= lives[k] * Full + time * Refill

Paid ==
    \A k \in Key :
        /\ WithinLives(k, 0, clock)
        /\ \A i \in Waiting(k) : WithinLives(k, 0, chain[k][i].time)

Written(b) ==
    /\ WithinLives(b.key, b.tokens, b.last)
    /\ b.last <= clock
    /\ \A j \in Waiting(b.key) : b.last <= chain[b.key][j].time

Banked == \A i \in 1 .. Len(state) : Written(state[i])

StoreTypes ==
    /\ clock \in 0 .. LastTime
    /\ state \in Seq(Bucket) /\ Len(state) <= MaxKeys /\ Distinct(state)
    /\ chain \in [Key -> Seq(Link)]
    /\ inflight \in [Key -> BOOLEAN]
    /\ let \in [Key -> Nat] /\ lives \in [Key -> Nat]
    /\ \A k \in Key : inflight[k] <=> chain[k] # <<>>

StoreInv == StoreTypes /\ InOrder /\ Paid /\ Banked

LEMMA WithinLivesLater ==
    ASSUME StoreTypes, NEW k \in Key, NEW n \in Nat, NEW m \in Nat, m <= n,
           NEW a \in Nat, NEW b \in Nat, a <= b, WithinLives(k, n, a)
    PROVE  WithinLives(k, m, b)
<1>1. /\ let[k] * Unit \in Int /\ lives[k] * Full \in Int
      /\ Refill \in Nat /\ a * Refill \in Int /\ b * Refill \in Int
  BY MemoryStoreAssumption DEF StoreTypes
<1>2. a * Refill <= b * Refill
  BY <1>1, ProductKeepsOrder
<1> DEFINE x == let[k] * Unit
           y == lives[k] * Full
           u == a * Refill
           v == b * Refill
<1>3. x + n <= y + u /\ u <= v /\ x \in Int /\ y \in Int /\ u \in Int /\ v \in Int
  BY <1>1, <1>2 DEF WithinLives
<1>4. x + m <= y + v
  <2> HIDE DEF x, y, u, v
  <2> QED
    BY <1>3
<1> QED
  BY <1>4 DEF WithinLives

LEMMA WaitingType ==
    ASSUME StoreTypes, NEW k \in Key, NEW i \in 1 .. Len(chain[k])
    PROVE  chain[k][i].time \in Nat /\ chain[k][i].time <= LastTime
<1>1. chain[k] \in Seq(Link)
  BY DEF StoreTypes
<1>2. chain[k][i] \in Link
  BY <1>1, ElementOfSeq
<1> QED
  BY <1>2, MemoryStoreAssumption DEF Link

LEMMA KeptType ==
    ASSUME StoreTypes, NEW i \in 1 .. Len(state)
    PROVE  /\ state[i].key \in Key
           /\ state[i].last \in Nat /\ state[i].tokens \in Nat
<1>1. state[i] \in Bucket
  BY ElementOfSeq DEF StoreTypes
<1> QED
  BY <1>1 DEF Bucket

LEMMA StoreInitInv == StoreInit => StoreInv
<1> SUFFICES ASSUME StoreInit PROVE StoreInv
  OBVIOUS
<1>1. Len(state) = 0 /\ \A k \in Key : Len(chain[k]) = 0
  BY EmptySeq DEF StoreInit
<1>2. StoreTypes
  BY <1>1, MemoryStoreAssumption, EmptySeq DEF StoreInit, StoreTypes, Distinct
<1>3. InOrder /\ Banked
  BY <1>1 DEF InOrder, Banked
<1>4. Paid
  <2>1. \A k \in Key : let[k] * Unit = 0 /\ lives[k] * Full = 0 /\ clock * Refill = 0
    BY MemoryStoreAssumption DEF StoreInit
  <2> QED
    BY <1>1, <2>1 DEF Paid, WithinLives, Waiting
<1> QED
  BY <1>2, <1>3, <1>4 DEF StoreInv

\* A call joins the chain at the time of the clock, which all that is written precedes.
LEMMA CallKeeps ==
    ASSUME StoreInv, NEW k \in Key, Call(k)
    PROVE  StoreInv'
<1> DEFINE c == [time |-> clock, computed |-> FALSE]
           s == Append(chain[k], c)
           n == Len(chain[k])
<1>1. c \in Link
  BY DEF StoreInv, StoreTypes, Link
<1>2. chain[k] \in Seq(Link) /\ n \in Nat
  <2>1. chain[k] \in Seq(Link)
    BY DEF StoreInv, StoreTypes
  <2> QED
    BY <2>1, LenProperties
<1>3. /\ s \in Seq(Link) /\ Len(s) = n + 1
      /\ \A i \in 1 .. n : s[i] = chain[k][i]
      /\ s[n + 1].time = clock
  BY <1>1, <1>2, AppendProperties
<1>4. chain'[k] = s /\ \A q \in Key \ {k} : chain'[q] = chain[q]
  BY DEF Call, StoreInv, StoreTypes
<1>5. \A i \in 1 .. n + 1 : i \in 1 .. n \/ i = n + 1
  BY <1>2
<1>6. s # <<>>
  BY <1>2, <1>3, EmptySeq
<1> HIDE DEF s, c, n
<1>7. StoreTypes'
  BY <1>3, <1>4, <1>6 DEF StoreInv, StoreTypes, Call, Distinct
<1>8. ASSUME NEW q \in Key, NEW i \in 1 .. Len(chain'[q])
      PROVE  \/ i \in 1 .. Len(chain[q]) /\ chain'[q][i] = chain[q][i]
             \/ q = k /\ i = n + 1 /\ chain'[q][i].time = clock
  BY <1>3, <1>4, <1>5, <1>8 DEF n
<1>9. \A q \in Key : \A i \in 1 .. Len(chain[q]) :
         chain[q][i].time \in Nat /\ chain[q][i].time <= clock
  BY WaitingType DEF StoreInv, InOrder
<1>10. InOrder'
  <2> SUFFICES ASSUME NEW q \in Key, NEW i \in 1 .. Len(chain'[q]),
                      NEW j \in 1 .. Len(chain'[q])
               PROVE  /\ chain'[q][i].time <= clock
                      /\ i <= j => chain'[q][i].time <= chain'[q][j].time
    BY DEF InOrder, Call
  <2>1. clock \in Nat
    BY DEF StoreInv, StoreTypes
  <2>2. CASE j \in 1 .. Len(chain[q]) /\ chain'[q][j] = chain[q][j]
    <3>1. CASE i \in 1 .. Len(chain[q]) /\ chain'[q][i] = chain[q][i]
      BY <2>2, <3>1 DEF StoreInv, InOrder
    <3>2. CASE q = k /\ i = n + 1 /\ chain'[q][i].time = clock
      BY <1>2, <2>1, <2>2, <3>2 DEF n
    <3> QED
      BY <1>8, <3>1, <3>2
  <2>3. CASE q = k /\ j = n + 1 /\ chain'[q][j].time = clock
    BY <1>8, <1>9, <2>1, <2>3
  <2> QED
    BY <1>8, <2>2, <2>3
<1>11. ASSUME NEW q \in Key, NEW i \in Waiting(q)'
       PROVE  \/ i \in Waiting(q) /\ chain'[q][i] = chain[q][i]
              \/ chain'[q][i].time = clock
  BY <1>8 DEF Waiting
<1>12. Paid'
  <2> SUFFICES ASSUME NEW q \in Key
               PROVE  /\ WithinLives(q, 0, clock)
                      /\ \A i \in Waiting(q)' : WithinLives(q, 0, chain'[q][i].time)
    BY DEF Paid, Call, WithinLives
  <2> QED
    BY <1>11 DEF StoreInv, Paid
<1>13. Banked'
  <2> SUFFICES ASSUME NEW i \in 1 .. Len(state)
               PROVE  Written(state[i])'
    BY DEF Banked, Call
  <2>1. PICK q \in Key : q = state[i].key
    BY KeptType DEF StoreInv
  <2>2. /\ WithinLives(q, state[i].tokens, state[i].last)
        /\ state[i].last <= clock
        /\ \A j \in Waiting(q) : state[i].last <= chain[q][j].time
    BY <2>1 DEF Written, StoreInv, Banked
  <2>3. ASSUME NEW j \in Waiting(q)' PROVE state[i].last <= chain'[q][j].time
    BY <1>11, <2>2, <2>3
  <2>4. state' = state /\ clock' = clock /\ let' = let /\ lives' = lives
    BY DEF Call
  <2> QED
    BY <2>1, <2>2, <2>3, <2>4 DEF Written, WithinLives
<1> QED
  BY <1>7, <1>10, <1>12, <1>13 DEF StoreInv

LEMMA SettleKeeps ==
    ASSUME StoreInv, NEW k \in Key, Settle(k)
    PROVE  StoreInv'
<1> DEFINE s == Tail(chain[k])
           n == Len(chain[k])
<1>1. chain[k] \in Seq(Link) /\ chain[k] # <<>> /\ n \in Nat \ {0}
  <2>1. chain[k] \in Seq(Link) /\ chain[k] # <<>>
    BY DEF StoreInv, StoreTypes, Settle
  <2> QED
    BY <2>1, EmptySeq
<1>2. s \in Seq(Link) /\ Len(s) = n - 1 /\ \A i \in 1 .. n - 1 : s[i] = chain[k][i + 1]
  BY <1>1, HeadTailProperties
<1>3. s # <<>> <=> n # 1
  <2> HIDE DEF s, n
  <2>1. CASE s = <<>>
    BY <1>1, <1>2, <2>1, EmptySeq
  <2>2. CASE s # <<>>
    BY <1>1, <1>2, <2>2, EmptySeq
  <2> QED
    BY <2>1, <2>2
<1>4. chain'[k] = s /\ \A q \in Key \ {k} : chain'[q] = chain[q]
  BY DEF Settle, StoreInv, StoreTypes
<1>5. \A i \in 1 .. n - 1 : i + 1 \in 1 .. n
  BY <1>1
<1>6. inflight'[k] <=> inflight[k] /\ n # 1
  BY DEF Settle, StoreInv, StoreTypes, Forgotten
<1>7. \A q \in Key \ {k} : inflight'[q] = inflight[q]
  BY DEF Settle, StoreInv, StoreTypes
<1>8. inflight' \in [Key -> BOOLEAN]
  BY <1>6 DEF Settle, StoreInv, StoreTypes
<1> HIDE DEF s
<1>9. StoreTypes'
  <2>1. chain' \in [Key -> Seq(Link)]
    BY <1>2 DEF StoreInv, StoreTypes, Settle, s
  <2>2. \A q \in Key : inflight'[q] <=> chain'[q] # <<>>
    BY <1>1, <1>3, <1>4, <1>6, <1>7 DEF StoreInv, StoreTypes
  <2> QED
    BY <1>8, <2>1, <2>2 DEF StoreInv, StoreTypes, Settle, Distinct
<1> HIDE DEF n
<1>10. ASSUME NEW q \in Key, NEW i \in 1 .. Len(chain'[q])
       PROVE  \/ q # k /\ i \in 1 .. Len(chain[q]) /\ chain'[q] = chain[q]
              \/ q = k /\ i + 1 \in 1 .. Len(chain[q]) /\ chain'[q][i] = chain[q][i + 1]
  BY <1>2, <1>4, <1>5, <1>10 DEF n
<1>11. InOrder'
  <2> SUFFICES ASSUME NEW q \in Key, NEW i \in 1 .. Len(chain'[q]),
                      NEW j \in 1 .. Len(chain'[q])
               PROVE  /\ chain'[q][i].time <= clock
                      /\ i <= j => chain'[q][i].time <= chain'[q][j].time
    BY DEF InOrder, Settle
  <2>1. CASE q # k
    BY <1>10, <2>1 DEF StoreInv, InOrder
  <2>2. CASE q = k
    <3>1. i <= j => i + 1 <= j + 1
      OBVIOUS
    <3> QED
      BY <1>10, <2>2, <3>1 DEF StoreInv, InOrder
  <2> QED
    BY <2>1, <2>2
<1>12. ASSUME NEW q \in Key, NEW i \in Waiting(q)'
       PROVE  \E j \in Waiting(q) : chain'[q][i] = chain[q][j]
  BY <1>10 DEF Waiting
<1>13. Paid'
  <2> SUFFICES ASSUME NEW q \in Key
               PROVE  /\ WithinLives(q, 0, clock)
                      /\ \A i \in Waiting(q)' : WithinLives(q, 0, chain'[q][i].time)
    BY DEF Paid, Settle, WithinLives
  <2> QED
    BY <1>12 DEF StoreInv, Paid
<1>14. Banked'
  <2> SUFFICES ASSUME NEW i \in 1 .. Len(state)
               PROVE  Written(state[i])'
    BY DEF Banked, Settle
  <2>1. PICK q \in Key : q = state[i].key
    BY KeptType DEF StoreInv
  <2>2. /\ WithinLives(q, state[i].tokens, state[i].last)
        /\ state[i].last <= clock
        /\ \A j \in Waiting(q) : state[i].last <= chain[q][j].time
    BY <2>1 DEF Written, StoreInv, Banked
  <2>3. ASSUME NEW j \in Waiting(q)' PROVE state[i].last <= chain'[q][j].time
    BY <1>12, <2>2, <2>3
  <2>4. state' = state /\ clock' = clock /\ let' = let /\ lives' = lives
    BY DEF Settle
  <2> QED
    BY <2>1, <2>2, <2>3, <2>4 DEF Written, WithinLives
<1> QED
  BY <1>9, <1>11, <1>13, <1>14 DEF StoreInv

LEMMA TimePassesKeeps ==
    ASSUME StoreInv, TimePasses
    PROVE  StoreInv'
<1>1. clock \in Nat /\ clock' = clock + 1 /\ clock' \in 0 .. LastTime
  BY MemoryStoreAssumption DEF StoreInv, StoreTypes, TimePasses
<1>2. StoreTypes'
  BY <1>1 DEF StoreInv, StoreTypes, TimePasses, Distinct
<1>3. InOrder'
  <2> SUFFICES ASSUME NEW k \in Key, NEW i \in 1 .. Len(chain[k]),
                      NEW j \in 1 .. Len(chain[k])
               PROVE  /\ chain[k][i].time <= clock'
                      /\ i <= j => chain[k][i].time <= chain[k][j].time
    BY DEF InOrder, TimePasses
  <2>1. chain[k][i].time \in Nat /\ chain[k][i].time <= clock
    BY WaitingType DEF StoreInv, InOrder
  <2> QED
    BY <1>1, <2>1 DEF StoreInv, InOrder
<1>4. Paid'
  <2> SUFFICES ASSUME NEW k \in Key
               PROVE  /\ WithinLives(k, 0, clock')
                      /\ \A i \in Waiting(k) : WithinLives(k, 0, chain[k][i].time)
    BY DEF Paid, TimePasses, WithinLives, Waiting
  <2>1. WithinLives(k, 0, clock)
    BY DEF StoreInv, Paid
  <2>2. WithinLives(k, 0, clock')
    BY <1>1, <2>1, WithinLivesLater DEF StoreInv
  <2> QED
    BY <2>2 DEF StoreInv, Paid
<1>5. Banked'
  <2> SUFFICES ASSUME NEW i \in 1 .. Len(state)
               PROVE  Written(state[i])'
    BY DEF Banked, TimePasses
  <2>1. Written(state[i]) /\ state[i].last \in Nat
    BY KeptType DEF StoreInv, Banked
  <2> QED
    BY <1>1, <2>1 DEF Written, WithinLives, Waiting, TimePasses
<1> QED
  BY <1>2, <1>3, <1>4, <1>5 DEF StoreInv

(***************************************************************************)
(* What a link finds in the bucket, on top of what the key has been let    *)
(* through, is paid for up to the time of its call: a new bucket by        *)
(* another life, a kept one by what the refill has brought to it.          *)
(***************************************************************************)
NewLife(k) == IF k \in Stored THEN 0 ELSE 1

LEMMA FilledIsPaid ==
    ASSUME StoreInv, NEW k \in Key, NEW i \in Waiting(k)
    PROVE  LET time == chain[k][i].time IN
           /\ Filled(k, time) \in 0 .. Full
           /\ let[k] * Unit + Filled(k, time)
                 <= (lives[k] + NewLife(k)) * Full + time * Refill
<1> DEFINE time == chain[k][i].time
           x == let[k] * Unit
           y == lives[k] * Full
           r == time * Refill
<1>1. /\ time \in Nat /\ Full \in Nat \ {0} /\ Unit \in Nat \ {0} /\ Refill \in Nat
      /\ let[k] \in Nat /\ lives[k] \in Nat
  BY WaitingType, MemoryStoreAssumption DEF StoreInv, StoreTypes, Waiting
<1>2. x \in Nat /\ y \in Nat /\ r \in Nat
  BY <1>1
<1>3. CASE k \notin Stored
  <2>1. Filled(k, time) = Full /\ NewLife(k) = 1
    BY <1>3 DEF Filled, NewLife
  <2>2. (lives[k] + 1) * Full = y + 1 * Full
    BY <1>1, Distributes
  <2>3. x <= y + r
    <3>1. WithinLives(k, 0, time)
      BY DEF StoreInv, Paid
    <3>2. x + 0 <= y + r
      BY <3>1 DEF WithinLives
    <3> HIDE DEF x, y, r
    <3> QED
      BY <1>2, <3>2
  <2>4. x + Full <= (y + 1 * Full) + r
    <3> HIDE DEF x, y, r
    <3> QED
      BY <1>1, <1>2, <2>3
  <2> QED
    BY <1>1, <2>1, <2>2, <2>4
<1>4. CASE k \in Stored
  <2> DEFINE b == state[IndexOf(k)]
             u == b.last * Refill
             v == (time - b.last) * Refill
  <2>1. IndexOf(k) \in 1 .. Len(state) /\ b.key = k
    BY <1>4, IndexOfIs
  <2>2. b.last \in Nat /\ b.tokens \in Nat
    BY <2>1, KeptType DEF StoreInv
  <2>3. Written(b)
    BY <2>1 DEF StoreInv, Banked
  <2>4. b.last <= time /\ x + b.tokens <= y + u
    BY <2>1, <2>3 DEF Written, WithinLives
  <2>5. v \in Nat /\ u \in Nat /\ u + v = r
    <3>1. time - b.last \in Nat /\ (time - b.last) + b.last = time
      BY <1>1, <2>2, <2>4
    <3>2. v \in Nat /\ u \in Nat
      BY <1>1, <2>2, <3>1
    <3>3. ((time - b.last) + b.last) * Refill = v + u
      BY <1>1, <2>2, <3>1, Distributes
    <3> QED
      BY <3>1, <3>2, <3>3
  <2>6. Filled(k, time) = Least(Full, b.tokens + v) /\ NewLife(k) = 0
    <3>1. Since(b, time) = time - b.last
      BY <1>1, <2>2, <2>4 DEF Since
    <3> QED
      BY <1>4, <3>1 DEF Filled, NewLife
  <2>7. Least(Full, b.tokens + v) \in 0 .. Full /\ Least(Full, b.tokens + v) <= b.tokens + v
    <3> HIDE DEF v
    <3> QED
      BY <1>1, <2>2, <2>5 DEF Least
  <2>8. (lives[k] + NewLife(k)) * Full = y
    BY <1>1, <2>6
  <2>9. ASSUME NEW f \in Nat, f <= b.tokens + v
        PROVE  x + f <= y + r
    <3> HIDE DEF x, y, r, u, v
    <3> QED
      BY <1>2, <2>2, <2>4, <2>5, <2>9
  <2> QED
    BY <2>6, <2>7, <2>8, <2>9
<1> QED
  BY <1>3, <1>4

\* A link stores what is left and marks its call, which was the first to wait.
LEMMA ComputeKeeps ==
    ASSUME StoreInv, NEW k \in Key, Compute(k)
    PROVE  StoreInv'
<1>1. PICK i \in Waiting(k) :
         LET time == chain[k][i].time
             filled == Filled(k, time)
             allowed == filled >= Unit
             next == [key |-> k, last |-> time,
                      tokens |-> IF allowed THEN filled - Unit ELSE filled]
         IN /\ \A j \in Waiting(k) : i <= j
            /\ state' = Evicted(Set(k, next))
            /\ chain' = [chain EXCEPT ![k][i].computed = TRUE]
            /\ let' = [let EXCEPT ![k] = @ + (IF allowed THEN 1 ELSE 0)]
            /\ lives' = [lives EXCEPT ![k] = @ + (IF k \in Stored THEN 0 ELSE 1)]
            /\ UNCHANGED <<clock, inflight>>
  BY DEF Compute
<1>a. PICK time : time = chain[k][i].time
  OBVIOUS
<1>b. PICK filled : filled = Filled(k, time)
  OBVIOUS
<1>c. PICK grant, left :
         IF filled >= Unit THEN grant = 1 /\ left = filled - Unit
                           ELSE grant = 0 /\ left = filled
  OBVIOUS
<1>d. PICK life : life = NewLife(k)
  OBVIOUS
<1> DEFINE next == [key |-> k, last |-> time, tokens |-> left]
<1>2. /\ \A j \in Waiting(k) : i <= j
      /\ state' = Evicted(Set(k, next))
      /\ chain' = [chain EXCEPT ![k][i].computed = TRUE]
      /\ let' = [let EXCEPT ![k] = @ + grant]
      /\ lives' = [lives EXCEPT ![k] = @ + life]
      /\ clock' = clock /\ inflight' = inflight
  BY <1>1, <1>a, <1>b, <1>c, <1>d DEF NewLife
<1>3. /\ i \in 1 .. Len(chain[k]) /\ time \in Nat /\ time <= LastTime /\ time <= clock
      /\ clock \in Nat /\ Unit \in Nat /\ Full \in Nat /\ Refill \in Nat
      /\ let[k] \in Nat /\ lives[k] \in Nat /\ life \in Nat
  BY <1>a, <1>d, WaitingType, MemoryStoreAssumption
  DEF StoreInv, StoreTypes, InOrder, Waiting, NewLife
<1>4. /\ filled \in 0 .. Full
      /\ let[k] * Unit + filled <= (lives[k] + life) * Full + time * Refill
  BY <1>a, <1>b, <1>d, FilledIsPaid
<1>e. grant \in Nat
  BY <1>c
<1>5. /\ grant \in Nat /\ left \in 0 .. Full /\ left \in Nat
      /\ grant * Unit \in Nat /\ grant * Unit + left = filled
  <2>1. CASE filled >= Unit
    <3>1. grant = 1 /\ left = filled - Unit /\ 1 * Unit = Unit
      BY <1>3, <1>c, <2>1
    <3> QED
      BY <1>3, <1>4, <2>1, <3>1
  <2>2. CASE ~(filled >= Unit)
    <3>1. grant = 0 /\ left = filled /\ 0 * Unit = 0
      BY <1>3, <1>c, <2>2
    <3> QED
      BY <1>3, <1>4, <2>2, <3>1
  <2> QED
    BY <2>1, <2>2
<1>6. next \in Bucket
  BY <1>3, <1>5, MemoryStoreAssumption DEF Bucket
<1>7. /\ Set(k, next) \in Seq(Bucket) /\ Distinct(Set(k, next))
      /\ Len(Set(k, next)) <= MaxKeys + 1
      /\ \A n \in 1 .. Len(Set(k, next)) :
            \/ Set(k, next)[n] = next
            \/ \E j \in 1 .. Len(state) : Set(k, next)[n] = state[j] /\ state[j].key # k
  BY <1>6, SetIs DEF StoreInv, StoreTypes
<1> HIDE DEF next
<1>8. /\ state' \in Seq(Bucket) /\ Len(state') <= MaxKeys /\ Distinct(state')
      /\ \A n \in 1 .. Len(state') : \E j \in 1 .. Len(Set(k, next)) :
            state'[n] = Set(k, next)[j]
  BY <1>2, <1>7, EvictedIs
<1>9. /\ let' \in [Key -> Nat] /\ lives' \in [Key -> Nat]
      /\ let'[k] = let[k] + grant /\ lives'[k] = lives[k] + life
      /\ \A q \in Key \ {k} : let'[q] = let[q] /\ lives'[q] = lives[q]
  <2>1. let[k] \in Nat /\ lives[k] \in Nat /\ life \in Nat
    BY <1>3
  <2>2. let[k] + grant \in Nat /\ lives[k] + life \in Nat
    BY <1>e, <2>1
  <2> QED
    BY <1>2, <2>2 DEF StoreInv, StoreTypes
\* The chains: the same calls, one of which does not wait any more.
<1> DEFINE r == [chain[k][i] EXCEPT !.computed = TRUE]
<1>10. chain[k] \in Seq(Link) /\ chain[k][i] \in Link
  <2>1. chain[k] \in Seq(Link)
    BY DEF StoreInv, StoreTypes
  <2> QED
    BY <1>3, <2>1, ElementOfSeq
<1>11. r \in Link /\ r.time = time /\ r.computed
  BY <1>10, <1>a DEF Link
<1>12. chain' = [chain EXCEPT ![k] = [chain[k] EXCEPT ![i] = r]]
  BY <1>2, <1>3, <1>10 DEF StoreInv, StoreTypes
<1> HIDE DEF r
<1>13. /\ [chain[k] EXCEPT ![i] = r] \in Seq(Link)
       /\ Len([chain[k] EXCEPT ![i] = r]) = Len(chain[k])
       /\ \A j \in 1 .. Len(chain[k]) :
             [chain[k] EXCEPT ![i] = r][j] = IF j = i THEN r ELSE chain[k][j]
  BY <1>3, <1>10, <1>11, ExceptSeq
<1>14. /\ chain' \in [Key -> Seq(Link)]
       /\ chain'[k] = [chain[k] EXCEPT ![i] = r]
       /\ \A q \in Key \ {k} : chain'[q] = chain[q]
  BY <1>12, <1>13 DEF StoreInv, StoreTypes
<1>15. ASSUME NEW q \in Key
       PROVE  /\ Len(chain'[q]) = Len(chain[q])
              /\ \A j \in 1 .. Len(chain[q]) : chain'[q][j].time = chain[q][j].time
  BY <1>11, <1>13, <1>14, <1>a
<1>16. ASSUME NEW q \in Key, NEW j \in Waiting(q)'
       PROVE  /\ j \in Waiting(q) /\ chain'[q][j].time = chain[q][j].time
              /\ q = k => time <= chain[q][j].time
  <2>1. CASE q # k
    BY <1>14, <1>16, <2>1 DEF Waiting
  <2>2. CASE q = k
    <3>1. j # i /\ j \in Waiting(k) /\ chain'[q][j].time = chain[q][j].time
      BY <1>11, <1>13, <1>14, <1>16, <2>2 DEF Waiting
    <3>2. i <= j /\ j \in 1 .. Len(chain[k])
      BY <1>2, <3>1 DEF Waiting
    <3>3. time <= chain[k][j].time
      BY <1>3, <1>a, <3>2 DEF StoreInv, InOrder
    <3> QED
      BY <2>2, <3>1, <3>3
  <2> QED
    BY <2>1, <2>2
<1>17. StoreTypes'
  <2>1. \A q \in Key : chain'[q] = <<>> <=> chain[q] = <<>>
    <3>1. chain'[k] # <<>> /\ chain[k] # <<>>
      BY <1>3, <1>13, <1>14, EmptySeq
    <3> QED
      BY <1>14, <3>1
  <2> QED
    BY <1>2, <1>8, <1>9, <1>14, <2>1 DEF StoreInv, StoreTypes
<1>18. InOrder'
  <2> SUFFICES ASSUME NEW q \in Key, NEW m \in 1 .. Len(chain[q]),
                      NEW j \in 1 .. Len(chain[q])
               PROVE  /\ chain[q][m].time <= clock
                      /\ m <= j => chain[q][m].time <= chain[q][j].time
    BY <1>2, <1>15 DEF InOrder
  <2> QED
    BY DEF StoreInv, InOrder
\* The account.
<1>19. let'[k] * Unit + left <= lives'[k] * Full + time * Refill
  <2>1. (let[k] + grant) * Unit = let[k] * Unit + grant * Unit
    <3>1. let[k] \in Int /\ grant \in Int /\ Unit \in Int
      BY <1>3, <1>e
    <3> QED
      BY <3>1, Distributes
  <2> DEFINE x == let[k] * Unit
             y == grant * Unit
  <2>2. (x + y) + left = x + filled
    <3>1. x \in Nat /\ y \in Nat /\ y + left = filled /\ left \in Nat /\ filled \in Nat
      BY <1>3, <1>4, <1>5
    <3> HIDE DEF x, y
    <3> QED
      BY <3>1
  <2>3. let'[k] * Unit + left = let[k] * Unit + filled
    BY <1>9, <2>1, <2>2
  <2> QED
    BY <1>4, <1>9, <2>3
<1>20. ASSUME NEW t \in Nat, time <= t
       PROVE  WithinLives(k, 0, t)'
  <2> DEFINE x == let'[k] * Unit
             y == lives'[k] * Full
             u == time * Refill
             v == t * Refill
  <2>1. x \in Nat /\ y \in Nat /\ u \in Nat /\ v \in Nat
    BY <1>3, <1>9
  <2>2. u <= v
    BY <1>3, <1>20, ProductKeepsOrder
  <2>3. x + left <= y + u
    BY <1>19
  <2>4. x + 0 <= y + v
    <3> HIDE DEF x, y, u, v
    <3> QED
      BY <1>5, <2>1, <2>2, <2>3
  <2> QED
    BY <2>4 DEF WithinLives
<1>21. Paid'
  <2>1. ASSUME NEW q \in Key, NEW t \in Nat,
               (q = k /\ time <= t) \/ (q # k /\ WithinLives(q, 0, t))
        PROVE  WithinLives(q, 0, t)'
    BY <1>9, <1>20, <2>1 DEF WithinLives
  <2>2. ASSUME NEW q \in Key PROVE WithinLives(q, 0, clock)'
    <3>1. WithinLives(q, 0, clock)
      BY DEF StoreInv, Paid
    <3>2. let'[q] * Unit + 0 <= lives'[q] * Full + clock * Refill
      BY <1>3, <2>1, <3>1 DEF WithinLives
    <3> QED
      BY <1>2, <3>2 DEF WithinLives
  <2>3. ASSUME NEW q \in Key, NEW j \in Waiting(q)'
        PROVE  WithinLives(q, 0, chain[q][j].time)'
    <3>1. PICK t : t = chain[q][j].time
      OBVIOUS
    <3>2. j \in Waiting(q) /\ chain'[q][j].time = t /\ (q = k => time <= t)
      BY <1>16, <2>3, <3>1
    <3>3. t \in Nat /\ WithinLives(q, 0, t)
      BY <3>1, <3>2, WaitingType DEF StoreInv, Paid, Waiting
    <3>4. let'[q] * Unit + 0 <= lives'[q] * Full + t * Refill
      BY <2>1, <3>2, <3>3 DEF WithinLives
    <3> QED
      BY <3>2, <3>4 DEF WithinLives
  <2> QED
    BY <2>2, <2>3 DEF Paid
<1>22. Banked'
  <2> SUFFICES ASSUME NEW n \in 1 .. Len(state')
               PROVE  Written(state[n])'
    BY DEF Banked
  <2>1. PICK b : b = state'[n]
    OBVIOUS
  <2>2. b = next \/ \E j \in 1 .. Len(state) : b = state[j] /\ state[j].key # k
    BY <1>7, <1>8, <2>1
  <2>3. CASE b = next
    <3>1. b.key = k /\ b.last = time /\ b.tokens = left
      BY <2>3 DEF next
    <3>2. \A j \in Waiting(k)' : time <= chain'[k][j].time
      BY <1>16
    <3> QED
      BY <1>2, <1>3, <1>19, <2>1, <3>1, <3>2 DEF Written, WithinLives
  <2>4. ASSUME NEW m \in 1 .. Len(state), b = state[m], state[m].key # k
        PROVE  Written(state[n])'
    <3>1. PICK q \in Key : q = b.key /\ q # k
      BY <2>4, KeptType DEF StoreInv
    <3>2. /\ WithinLives(q, b.tokens, b.last)
          /\ b.last <= clock
          /\ \A j \in Waiting(q) : b.last <= chain[q][j].time
      BY <2>4, <3>1 DEF Written, StoreInv, Banked
    <3>3. \A j \in Waiting(q)' : b.last <= chain'[q][j].time
      BY <1>16, <3>2
    <3> QED
      BY <1>2, <1>9, <2>1, <3>1, <3>2, <3>3 DEF Written, WithinLives
  <2> QED
    BY <2>2, <2>3, <2>4
<1> QED
  BY <1>17, <1>18, <1>21, <1>22 DEF StoreInv

LEMMA StoreInvInductive == StoreSpec => []StoreInv
<1>1. StoreInv /\ [StoreNext]_storeVars => StoreInv'
  <2> SUFFICES ASSUME StoreInv, [StoreNext]_storeVars PROVE StoreInv'
    OBVIOUS
  <2>1. ASSUME NEW k \in Key, Call(k) PROVE StoreInv'
    BY <2>1, CallKeeps
  <2>2. ASSUME NEW k \in Key, Compute(k) PROVE StoreInv'
    BY <2>2, ComputeKeeps
  <2>3. ASSUME NEW k \in Key, Settle(k) PROVE StoreInv'
    BY <2>3, SettleKeeps
  <2>4. CASE TimePasses
    BY <2>4, TimePassesKeeps
  <2>5. CASE UNCHANGED storeVars
    <3>1. StoreTypes' /\ InOrder'
      BY <2>5 DEF StoreInv, StoreTypes, Distinct, InOrder, storeVars
    <3>2. Paid' /\ Banked'
      BY <2>5 DEF StoreInv, Paid, Banked, Written, WithinLives, Waiting, storeVars
    <3> QED
      BY <3>1, <3>2 DEF StoreInv
  <2> QED
    BY <2>1, <2>2, <2>3, <2>4, <2>5 DEF StoreNext
<1> QED
  BY <1>1, StoreInitInv, PTL DEF StoreSpec

(***************************************************************************)
(* The store in memory keeps its types, whatever is evicted when: at most  *)
(* MaxKeys buckets, no two of one key, and an entry in the map of the      *)
(* chains for exactly the keys that have a call under way.                 *)
(***************************************************************************)
THEOREM StoreTypeCorrect == StoreSpec => []StoreTypeOK
<1>1. StoreInv => StoreTypeOK
  BY StoredCount DEF StoreInv, StoreTypes, StoreTypeOK, Bucket, Link
<1> QED
  BY <1>1, StoreInvInductive, PTL

(***************************************************************************)
(* However calls of any number of keys interleave and whatever is evicted: *)
(* a key is let through as often as a full bucket and the refill allow,    *)
(* and once more a full bucket for every eviction.                         *)
(***************************************************************************)
THEOREM RateIsPerLife == StoreSpec => []RatePerLife
<1>1. StoreInv => RatePerLife
  <2> SUFFICES ASSUME StoreInv, NEW k \in Key
               PROVE  let[k] * Unit <= lives[k] * Full + clock * Refill
    BY DEF RatePerLife
  <2>1. let[k] * Unit + 0 <= lives[k] * Full + clock * Refill
    BY DEF StoreInv, Paid, WithinLives
  <2>2. let[k] * Unit \in Nat
    BY MemoryStoreAssumption DEF StoreInv, StoreTypes
  <2> DEFINE x == let[k] * Unit
  <2>3. x + 0 = x
    BY <2>2
  <2> QED
    BY <2>1, <2>3
<1> QED
  BY <1>1, StoreInvInductive, PTL
=============================================================================
