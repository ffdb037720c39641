---------------------------- MODULE TokenBucket ----------------------------
(***************************************************************************)
(* The rate limiter: one bucket, kept in Redis, and the API replicas that  *)
(* take tokens from it.  A request reads the clock of its replica and      *)
(* sends a script that carries the time it read; Redis runs the scripts    *)
(* one by one, in the order in which they arrive.  A connection is first   *)
(* in, first out, but nothing orders the scripts of two replicas, nor      *)
(* their clocks.                                                           *)
(*                                                                         *)
(* Keys do not interact, so one is enough.  Amounts are in units: a token  *)
(* is Token units and a millisecond brings Rate of them, which makes the   *)
(* rate any fraction of a token.                                           *)
(***************************************************************************)
EXTENDS Integers, Sequences, FiniteSetsExt

CONSTANTS
    Replica,
    Skew,       \* how far the clock of a replica is ahead of the true time
    Token,      \* units in a token
    Rate,       \* units a millisecond brings
    Burst,      \* units a full bucket holds
    Ttl,        \* of the hash in Redis, in milliseconds
    MaxTime,    \* bound on the true time
    MaxSent,    \* bound on the scripts of a replica that are under way
    MaxAdmitted \* bound on the admissions after which nobody asks any more

\* RateLimitModule accepts a burst of at least one token and a positive rate;
\* a day without requests refills the bucket even if clocks differ.
ASSUME BucketAssumption ==
    /\ Skew \in [Replica -> Nat]
    /\ Token \in Nat \ {0} /\ Rate \in Nat \ {0}
    /\ Burst \in Nat /\ Burst >= Token
    /\ Ttl \in Nat
    /\ \A p \in Replica : Burst <= Rate * (Ttl - Skew[p])
    /\ MaxTime \in Nat /\ MaxSent \in Nat /\ MaxAdmitted \in Nat

VARIABLES
    now,        \* true time
    bucket,     \* the hash: tokens and last_refill_ms, or NoHash
    written,    \* when Redis wrote or expired the hash
    sent,       \* sent[p]: the times carried by the scripts of p under way
    admitted,   \* history: the times carried by the scripts that got a token
    ordered,    \* history: no script has carried an older time than the hash
    promise     \* the time a refused client was told to come back at, or 0

vars == <<now, bucket, written, sent, admitted, ordered, promise>>

NoHash == [tokens |-> -1, last |-> -1]

(***************************************************************************)
(* The script.                                                             *)
(***************************************************************************)
Smaller(a, b) == IF a < b THEN a ELSE b
Larger(a, b) == IF a > b THEN a ELSE b

\* What the bucket holds for a script that carries time t.
Refilled(t) ==
    IF bucket = NoHash
    THEN Burst
    ELSE Smaller(Burst, bucket.tokens + Larger(0, t - bucket.last) * Rate)

Allowed(t) == Refilled(t) >= Token

\* retry_after, rounded up.  Mutant: rounded down.
RetryAfter_Floor(units) == (Token - units) \div Rate
RetryAfter(units) == (Token - units + Rate - 1) \div Rate

\* HMSET: the time is written even if it is older than the one before.
\* Mutant: it is written for the first request only.
Updated_FirstTime(t) ==
    [tokens |-> IF Allowed(t) THEN Refilled(t) - Token ELSE Refilled(t),
     last |-> IF bucket = NoHash THEN t ELSE bucket.last]

Updated(t) ==
    [tokens |-> IF Allowed(t) THEN Refilled(t) - Token ELSE Refilled(t), last |-> t]

----------------------------------------------------------------------------
Init ==
    /\ now = 0
    /\ bucket = NoHash
    /\ written = 0
    /\ sent = [p \in Replica |-> <<>>]
    /\ admitted = <<>>
    /\ ordered = TRUE
    /\ promise = 0

Tick ==
    /\ now < MaxTime
    /\ now' = now + 1
    /\ UNCHANGED <<bucket, written, sent, admitted, ordered, promise>>

\* The guard asks for a token: take reads the clock and the script is sent.
Take(p) ==
    /\ Len(sent[p]) < MaxSent
    /\ Len(admitted) < MaxAdmitted
    /\ sent' = [sent EXCEPT ![p] = Append(@, now + Skew[p])]
    /\ UNCHANGED <<now, bucket, written, admitted, ordered, promise>>

\* Redis runs the script and the guard lets the request pass or refuses it.
Run(p) ==
    LET t == Head(sent[p]) IN
    /\ sent[p] # <<>>
    /\ bucket' = Updated(t)
    /\ written' = now
    /\ sent' = [sent EXCEPT ![p] = Tail(@)]
    /\ ordered' = (ordered /\ (bucket = NoHash \/ bucket.last <= t))
    /\ \/ Allowed(t) /\ admitted' = Append(admitted, t) /\ promise' = 0
       \/ ~Allowed(t) /\ promise' = t + RetryAfter(Refilled(t)) /\ UNCHANGED admitted
    /\ UNCHANGED now

\* PEXPIRE: a day after its last use the hash is gone.  No script is under
\* way for that long.
Expire ==
    /\ bucket # NoHash
    /\ now - written >= Ttl
    /\ \A p \in Replica : sent[p] = <<>>
    /\ bucket' = NoHash
    /\ written' = now
    /\ promise' = 0
    /\ UNCHANGED <<now, sent, admitted, ordered>>

Next ==
    \/ Tick
    \/ \E p \in Replica : Take(p) \/ Run(p)
    \/ Expire

Spec == Init /\ [][Next]_vars

----------------------------------------------------------------------------
TypeOK ==
    /\ now \in 0 .. MaxTime
    /\ bucket \in {NoHash} \cup [tokens : 0 .. Burst, last : Nat]
    /\ written \in 0 .. now
    /\ sent \in [Replica -> Seq(Nat)]
    /\ admitted \in Seq(Nat)
    /\ ordered \in BOOLEAN
    /\ promise \in Nat

(***************************************************************************)
(* Any admissions in a row, from the i-th to the j-th: they fit in a burst *)
(* and what the time between them brings.  Holds as long as the scripts    *)
(* reach Redis in the order of the times they carry, over refills, caps,   *)
(* refusals and expiry of the hash.                                        *)
(***************************************************************************)
WithinRate ==
    ordered => \A i, j \in 1 .. Len(admitted) :
        i <= j => (j - i + 1) * Token <= Burst + (admitted[j] - admitted[i]) * Rate

(***************************************************************************)
(* A refused client that comes back when it was told to is let in, unless  *)
(* somebody took a token in between; in whatever order scripts arrive.     *)
(***************************************************************************)
RetryHonoured ==
    [][\A p \in Replica :
          Run(p) /\ promise > 0 /\ Head(sent[p]) >= promise => Allowed(Head(sent[p]))]_vars

(***************************************************************************)
(* What the comments say: the Redis store is cluster-wide and exact.       *)
(* Admissions in a row carry times between an earliest and a latest one    *)
(* and must fit in a burst and what that interval brings.                  *)
(***************************************************************************)
ExactlyLimited ==
    \A i, j \in 1 .. Len(admitted) :
        i <= j => LET times == {admitted[k] : k \in i .. j} IN
                  (j - i + 1) * Token <= Burst + (Max(times) - Min(times)) * Rate
=============================================================================
