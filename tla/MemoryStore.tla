---------------------------- MODULE MemoryStore ----------------------------
(***************************************************************************)
(* The store of buckets a single process keeps in memory, and the          *)
(* algorithm in TypeScript that runs on it.  Calls for one key form a      *)
(* chain of promises; a link computes, stores and evicts in one task, and  *)
(* is forgotten in a later one, by when others may have joined the chain.  *)
(* More than MaxKeys buckets are not kept: the one touched longest ago     *)
(* goes, and its key begins with a full bucket when it comes back.         *)
(***************************************************************************)
EXTENDS Integers, Sequences, FiniteSets

CONSTANTS
    Key,
    MaxKeys,
    Unit,       \* a token in units
    Refill,     \* units a millisecond brings
    Full,       \* units of a full bucket
    LastTime,   \* bound on the clock
    MaxCalls,   \* bound on the calls of a key under way
    MaxLives    \* bound on the evictions after which a key is not used any more

ASSUME MemoryStoreAssumption ==
    /\ MaxKeys \in Nat \ {0}
    /\ Unit \in Nat \ {0} /\ Refill \in Nat /\ Full \in Nat \ {0}
    /\ LastTime \in Nat /\ MaxCalls \in Nat /\ MaxLives \in Nat

VARIABLES
    clock,
    state,      \* buckets in the order in which their keys were first stored
    chain,      \* calls of a key: their times, and whether they have computed
    inflight,   \* whether the map of the chains has an entry for a key
    let,        \* history: admissions of a key
    lives       \* history: how often a key was given a full bucket

storeVars == <<clock, state, chain, inflight, let, lives>>

StoreInit ==
    /\ clock = 0
    /\ state = <<>>
    /\ chain = [k \in Key |-> <<>>]
    /\ inflight = [k \in Key |-> FALSE]
    /\ let = [k \in Key |-> 0]
    /\ lives = [k \in Key |-> 0]

Stored == {state[i].key : i \in 1 .. Len(state)}
IndexOf(k) == CHOOSE i \in 1 .. Len(state) : state[i].key = k
Least(a, b) == IF a < b THEN a ELSE b

\* take() reads the clock; getAndUpdate() joins the chain.
Call(k) ==
    /\ Len(chain[k]) < MaxCalls /\ lives[k] < MaxLives
    /\ chain' = [chain EXCEPT ![k] = Append(@, [time |-> clock, computed |-> FALSE])]
    /\ inflight' = [inflight EXCEPT ![k] = TRUE]
    /\ UNCHANGED <<clock, state, let, lives>>

\* Time since a bucket was touched; none if the clock has gone back.
Since(b, time) == IF b.last < time THEN time - b.last ELSE 0

\* What the bucket of k holds at a time.  Mutant: it starts full for every call.
Filled_AlwaysNew(k, time) == Full
Filled(k, time) ==
    IF k \notin Stored THEN Full
    ELSE LET b == state[IndexOf(k)] IN Least(Full, b.tokens + Since(b, time) * Refill)

Set(k, b) ==
    IF k \in Stored THEN [state EXCEPT ![IndexOf(k)] = b] ELSE Append(state, b)

\* maybeEvict: the first of those with the least time.
Oldest(s) == CHOOSE i \in 1 .. Len(s) :
    \A j \in 1 .. Len(s) : s[i].last < s[j].last \/ (s[i].last = s[j].last /\ i <= j)
Evicted(s) ==
    IF Len(s) <= MaxKeys THEN s
    ELSE [i \in 1 .. Len(s) - 1 |-> s[IF i < Oldest(s) THEN i ELSE i + 1]]

\* The link of the call at the head of those that have not computed.
Waiting(k) == {i \in 1 .. Len(chain[k]) : ~chain[k][i].computed}
Compute(k) ==
    \E i \in Waiting(k) :
        LET time == chain[k][i].time
            filled == Filled(k, time)
            allowed == filled >= Unit
            next == [key |-> k, last |-> time,
                     tokens |-> IF allowed THEN filled - Unit ELSE filled]
        IN /\ \A j \in Waiting(k) : i <= j
           /\ state' = Evicted(Set(k, next))
           /\ chain' = [chain EXCEPT ![k][i].computed = TRUE]
           /\ let' = [let EXCEPT ![k] = @ + (IF allowed THEN 1 ELSE 0)]
           /\ lives' = [lives EXCEPT ![k] = @ + (IF k \in Stored THEN 0 ELSE 1)]
           /\ UNCHANGED <<clock, inflight>>

\* finally: the entry goes if nobody has joined behind this call.
Forgotten(k) == Len(chain[k]) = 1

Settle(k) ==
    /\ chain[k] # <<>>
    /\ chain[k][1].computed
    /\ chain' = [chain EXCEPT ![k] = Tail(@)]
    /\ inflight' = [inflight EXCEPT ![k] = @ /\ ~Forgotten(k)]
    /\ UNCHANGED <<clock, state, let, lives>>

TimePasses ==
    /\ clock < LastTime
    /\ clock' = clock + 1
    /\ UNCHANGED <<state, chain, inflight, let, lives>>

StoreNext ==
    \/ \E k \in Key : Call(k) \/ Compute(k) \/ Settle(k)
    \/ TimePasses

StoreSpec == StoreInit /\ [][StoreNext]_storeVars

----------------------------------------------------------------------------
\* Type invariant; at most MaxKeys buckets, and an entry in the map of the chains
\* for exactly the keys that have a call under way.
StoreTypeOK ==
    /\ clock \in 0 .. LastTime
    /\ state \in Seq([key : Key, last : 0 .. LastTime, tokens : 0 .. Full])
    /\ chain \in [Key -> Seq([time : 0 .. LastTime, computed : BOOLEAN])]
    /\ inflight \in [Key -> BOOLEAN]
    /\ let \in [Key -> Nat] /\ lives \in [Key -> Nat]
    /\ Len(state) <= MaxKeys /\ Cardinality(Stored) = Len(state)
    /\ \A k \in Key : inflight[k] = (chain[k] # <<>>)

(***************************************************************************)
(* However calls of several keys interleave, a key is let through as often *)
(* as a full bucket and the refill allow, and once more a full bucket for  *)
(* every time its own was evicted in the meantime.                         *)
(***************************************************************************)
RatePerLife ==
    \A k \in Key : let[k] * Unit <= lives[k] * Full + clock * Refill
=============================================================================
