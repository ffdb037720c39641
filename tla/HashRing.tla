------------------------------ MODULE HashRing -----------------------------
(***************************************************************************)
(* The consistent hash ring, as every replica of the matcher builds it for *)
(* itself.  Each replica reads every driver's pings and handles those of   *)
(* which its own ring says that they are its own: nothing but the equality *)
(* of the rings makes one of them handle a ping, and one only.             *)
(*                                                                         *)
(* A key is represented by its hash; the hashes of the virtual nodes are   *)
(* any function, collisions included.                                      *)
(***************************************************************************)
EXTENDS Naturals, Sequences

CONSTANTS
    Node,       \* members of the ring
    Matcher,    \* replicas that keep one
    Vnodes,     \* virtual nodes of a member
    MaxHash     \* bound: hashes are 0 .. MaxHash, 2^32 - 1 in the code

ASSUME HashRingAssumption == Vnodes \in Nat \ {0} /\ MaxHash \in Nat

VARIABLES
    place,      \* the hashes of the virtual nodes, which never change
    ring,       \* positions of each replica's ring, and
    member,     \* its members
    added       \* history: the members in the order they were added

ringVars == <<place, ring, member, added>>

Hash == 0 .. MaxHash
Position == [hash : Hash, node : Node]

HashRingInit ==
    /\ place \in [Node -> [1 .. Vnodes -> Hash]]
    /\ ring = [m \in Matcher |-> <<>>]
    /\ member = [m \in Matcher |-> {}]
    /\ added = [m \in Matcher |-> <<>>]

(***************************************************************************)
(* _lowerBound: the binary search, for positions counted from 0 as in the  *)
(* code.  Mutant: the position that has the hash itself is passed over.    *)
(***************************************************************************)
At(positions, i) == positions[i + 1]

LowerBound_Strict(positions, h) ==
    LET n == Len(positions)
        search[b \in (0 .. n) \X (0 .. n)] ==
            LET lo == b[1]
                hi == b[2]
                mid == (lo + hi) \div 2
            IN IF lo >= hi THEN lo
               ELSE IF At(positions, mid).hash <= h THEN search[<<mid + 1, hi>>]
               ELSE search[<<lo, mid>>]
    IN search[<<0, n>>]
LowerBound(positions, h) ==
    LET n == Len(positions)
        search[b \in (0 .. n) \X (0 .. n)] ==
            LET lo == b[1]
                hi == b[2]
                mid == (lo + hi) \div 2
            IN IF lo >= hi THEN lo
               ELSE IF At(positions, mid).hash < h THEN search[<<mid + 1, hi>>]
               ELSE search[<<lo, mid>>]
    IN search[<<0, n>>]

\* splice(i, 0, p).  Mutant: push(p).
Spliced_AtEnd(positions, p) == Append(positions, p)
Spliced(positions, p) ==
    LET i == LowerBound(positions, p.hash)
    IN SubSeq(positions, 1, i) \o <<p>> \o SubSeq(positions, i + 1, Len(positions))

\* addNode: the virtual nodes one after the other.
Placed(positions, node) ==
    LET place_[i \in 0 .. Vnodes] ==
            IF i = 0 THEN positions
            ELSE Spliced(place_[i - 1], [hash |-> place[node][i], node |-> node])
    IN place_[Vnodes]

AddNode(m, node) ==
    /\ node \notin member[m]
    /\ member' = [member EXCEPT ![m] = @ \cup {node}]
    /\ ring' = [ring EXCEPT ![m] = Placed(@, node)]
    /\ added' = [added EXCEPT ![m] = Append(@, node)]
    /\ UNCHANGED place

\* filter: what a sequence has at some indices, in its order.
Selected(s, indices) ==
    LET kept[i \in 0 .. Len(s)] ==
            IF i = 0 THEN <<>>
            ELSE IF i \in indices THEN Append(kept[i - 1], s[i]) ELSE kept[i - 1]
    IN kept[Len(s)]

\* removeNode's filter.
Without(positions, node) ==
    Selected(positions, {i \in 1 .. Len(positions) : positions[i].node # node})

RemoveNode(m, node) ==
    /\ node \in member[m]
    /\ member' = [member EXCEPT ![m] = @ \ {node}]
    /\ ring' = [ring EXCEPT ![m] = Without(@, node)]
    /\ added' = [added EXCEPT ![m] = Selected(@, {i \in 1 .. Len(@) : @[i] # node})]
    /\ UNCHANGED place

\* getNode, of a ring that is not empty: past the last position comes the first.
\* Mutant: the hash modulo the size of the ring.
GetNode_Modulo(positions, h) == At(positions, h % Len(positions)).node
GetNode(positions, h) == At(positions, LowerBound(positions, h) % Len(positions)).node

\* getNodes: the next k different nodes.
GetNodes(positions, h, k) ==
    LET n == Len(positions)
        start == LowerBound(positions, h)
        walk == [i \in 1 .. n |-> At(positions, (start + i - 1) % n).node]
        first == Selected([i \in 1 .. n |-> i],
                          {i \in 1 .. n : \A j \in 1 .. i - 1 : walk[j] # walk[i]})
    IN [i \in 1 .. (IF k < Len(first) THEN k ELSE Len(first)) |-> walk[first[i]]]

\* A replica handles the pings of the drivers it owns.
Handles(m, h) == ring[m] # <<>> /\ GetNode(ring[m], h) = m

HashRingNext ==
    \E m \in Matcher, node \in Node : AddNode(m, node) \/ RemoveNode(m, node)

HashRingSpec == HashRingInit /\ [][HashRingNext]_ringVars

----------------------------------------------------------------------------
\* Type invariant.
HashRingTypeOK ==
    /\ place \in [Node -> [1 .. Vnodes -> Hash]]
    /\ ring \in [Matcher -> Seq(Position)]
    /\ member \in [Matcher -> SUBSET Node]
    /\ added \in [Matcher -> Seq(Node)]

\* Steps clockwise from h to a position.
Distance(h, p) == (p.hash + (MaxHash + 1) - h) % (MaxHash + 1)
Nearest(m, h) ==
    {ring[m][i].node : i \in {j \in 1 .. Len(ring[m]) :
        \A k \in 1 .. Len(ring[m]) : Distance(h, ring[m][j]) <= Distance(h, ring[m][k])}}

(***************************************************************************)
(* After any additions and removals every member has its virtual nodes on  *)
(* the ring, and a lookup finds a node none is nearer than clockwise, also *)
(* past the end, where the search wraps.  The list of the next nodes       *)
(* starts with it, and names every member once if asked for all.           *)
(***************************************************************************)
Clockwise ==
    \A m \in Matcher : member[m] # {} =>
        /\ Len(ring[m]) > 0
        /\ \A h \in Hash :
              LET all == GetNodes(ring[m], h, Len(ring[m])) IN
              /\ GetNode(ring[m], h) \in Nearest(m, h)
              /\ all[1] = GetNode(ring[m], h)
              /\ {all[i] : i \in 1 .. Len(all)} = member[m]
              /\ \A i, j \in 1 .. Len(all) : all[i] = all[j] => i = j

\* No position belongs to two members.
NoCollision ==
    \A n, o \in Node : n # o => \A i, j \in 1 .. Vnodes : place[n][i] # place[o][j]

(***************************************************************************)
(* Two replicas with the same members agree about every driver - so that a *)
(* ping is handled by one of them at most - if they were given the members *)
(* in the same order, or no two virtual nodes fall on one position.  With  *)
(* a collision the order matters: who is inserted last owns it.            *)
(***************************************************************************)
RingsAgree ==
    \A m, o \in Matcher :
        /\ member[m] = member[o] /\ member[m] # {}
        /\ added[m] = added[o] \/ NoCollision
        => \A h \in Hash : /\ GetNode(ring[m], h) = GetNode(ring[o], h)
                           /\ m # o => ~(Handles(m, h) /\ Handles(o, h))

(***************************************************************************)
(* A member that joins takes drivers over, and one that leaves gives up    *)
(* those it had: nobody else's driver changes hands, even where virtual    *)
(* nodes of several members are at one position.                           *)
(***************************************************************************)
OthersKeepTheirs ==
    [][\A m \in Matcher, h \in Hash :
          member[m] # {} /\ member'[m] # {} =>
             \/ GetNode(ring'[m], h) = GetNode(ring[m], h)
             \/ GetNode(ring'[m], h) \notin member[m]
             \/ GetNode(ring[m], h) \notin member'[m]]_ringVars
=============================================================================
